SPECIFICATION Spec
CONSTANTS
  MinThr = 1
  MaxThr = 2
  QueueMax = 1
  MinWait = 1
  Vary = 2
  Adders = {a1, a2}
  NTasks = 2
  CreateMayFail = FALSE
  MayDestroy = TRUE
INVARIANTS StoppedBeforeFree
SYMMETRY Symmetry
CHECK_DEADLOCK FALSE
