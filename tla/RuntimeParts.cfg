SPECIFICATION PartSpec
CONSTANTS
  Ranks = {r1, r2}
  Streams = {s1, s2}
  Collectives = 3
  Kernels = 1
  None = None
  Threads = {t1, t2}
  Buffers = {1, 2, 3}
  Events = {1, 2}
  Records = {1, 2, 3, 4}
  MaxQueue = 2
  SdaaRecords = {1, 2, 3}
  Early = FALSE
  MaxSize = 3
  GcuStreams = {s1}
  Types = {"int64", "uint64", "float64", "int32"}
  Counts = {1}
  Values <- SmallValues
  Width = 1
  GcuPending = 2
INVARIANTS
  ProgramOrder
  StagingLive
  SpinsOnOverlap
  WorkspaceLive
  ReductionRight
PROPERTIES
  AllComplete
  CopyReturns
  ImplementsService
CHECK_DEADLOCK FALSE
