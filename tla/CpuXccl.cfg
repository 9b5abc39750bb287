SPECIFICATION FairSpec
CONSTANTS
  Ranks = {r0, r1, r2}
  Root = r0
  MaxCalls = 2
  MaxNames = 2
  Lockstep = TRUE
INVARIANTS
  TypeOK
  Rendezvous
  OneCommunicator
PROPERTIES
  CallsReturn
  ImplementsBarrier
CHECK_DEADLOCK FALSE
