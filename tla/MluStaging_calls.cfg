SPECIFICATION FairSpec
CONSTANTS
  Threads = {t1, t2}
  Copiers = {t1, t2}
  Events = {e1, e2, e3}
  Streams = {s1}
  Buffers = {b1, b2}
  Tags = {g1, g2}
  ReuseEvents = {TRUE, FALSE}
  MaxQueue = 1
  MaxMine = 1
  None = None
INVARIANTS
  StagingSafe
  OneOwner
PROPERTIES
  CallReturns
CHECK_DEADLOCK FALSE
