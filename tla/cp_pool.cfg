SPECIFICATION Spec
CONSTANTS
  Bounds = 2
  NFd = 4
  Clients = {c1, c2}
  Garbage = {0, 1}
  DoublePut = TRUE
  OthersOpen = TRUE
INVARIANTS TypeOK ExclusiveOwnership Conservation SocketsAccounted StackWellFormed
SYMMETRY Symmetry
CHECK_DEADLOCK FALSE
