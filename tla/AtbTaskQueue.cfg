SPECIFICATION FairSpec
CONSTANTS
  Threads = {t1, t2}
  Stopper = t1
  Worker = w
  MaxTasks = 2
  None = None
INVARIANTS
  ProgramOrder
PROPERTIES
  WaitSound
  WaitReturns
  ImplementsExecutor
CHECK_DEADLOCK FALSE
