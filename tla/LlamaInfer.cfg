SPECIFICATION PartSpec
CONSTANTS
  Layers = 3
  MaxPass = 2
  MaxNeed = 2
  MidGrowth = FALSE
  Garbage = Garbage
  Rows = 3
  BlockSize = 2
  RowBlocks = 2
  Blocks = {0, 1, 2, 3}
  MaxLen = 4
  MaxSeq = 3
  Nothing = Nothing
  Capacity = 2
  Steps = 3
  MaxJob = 2
  Signals = 1
INVARIANTS
  OutputRight
  WorkspaceLive
  LayerRight
  BatchRight
  NoneVanished
PROPERTIES
  RunnerStable
CHECK_DEADLOCK FALSE
