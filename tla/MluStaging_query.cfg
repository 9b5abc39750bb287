SPECIFICATION Spec
CONSTANTS
  Threads = {t1}
  Copiers = {t1}
  Events = {e1, e2}
  Streams = {s1, s2}
  Buffers = {b1, b2}
  Tags = {g1, g2}
  ReuseEvents = {TRUE}
  MaxQueue = 2
  MaxMine = 2
  None = None
INVARIANTS
  QueryFaithful
CHECK_DEADLOCK FALSE
