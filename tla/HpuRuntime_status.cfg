SPECIFICATION ManagerSpec
CONSTANTS
  Modules = {m0, m1}
  FirstModule = m0
  UserStreams = {s1}
  Cells = {c1, c2}
  Contents = {v1, v2}
  Sizes = {1, 2}
  MaxCopies = 2
  Disciplined = TRUE
  Nothing = Nothing
INVARIANTS
  StatusFaithful
CHECK_DEADLOCK FALSE
