SPECIFICATION FairSpec
CONSTANTS
  Threads = {t1}
  Events = {e1, e2}
  Streams = {s1, s2}
  Destroyable = {s1, s2}
  RerecordPending = FALSE
  SharedCalls = FALSE
  MaxQueue = 2
  None = None
INVARIANTS
  NoDeadStream
PROPERTIES
  MutexReleased
CHECK_DEADLOCK FALSE
