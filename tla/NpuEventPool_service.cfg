SPECIFICATION HFairSpec
CONSTANTS
  Threads = {t1, t2}
  Events = {e1, e2}
  Streams = {s1, s2}
  Destroyable = {}
  RerecordPending = FALSE
  SharedCalls = FALSE
  MaxQueue = 1
  None = None
  Records = {1, 2, 3, 4, 5}
  NoRecord = 0
INVARIANTS
  TypeOK
  RecycleSafe
  QuerySound
  NoStrandedWait
PROPERTIES
  ImplementsService
  ImplementsProgress
CHECK_DEADLOCK FALSE
