SPECIFICATION FairSpec
CONSTANTS
  Threads = {t1}
  Streams = {s1, s2}
  NumBlocks = 3
  Data = {d1, d2}
  Concurrent = FALSE
  MaxQueue = 3
  None = None
INVARIANTS
  TypeOK
  StagedIntact
PROPERTIES
  CallReturns
