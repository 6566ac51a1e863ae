SPECIFICATION Spec
CONSTANTS
  MinThr = 1
  MaxThr = 2
  QueueMax = 2
  MinWait = 1
  Vary = 2
  Adders = {a1, a2}
  NTasks = 3
  CreateMayFail = FALSE
  MayDestroy = TRUE
INVARIANTS TypeOK CountersExact BlockedAdderMeansFull AcceptedIsKept
SYMMETRY Symmetry
PROPERTIES ImplementsTaskQueue
CHECK_DEADLOCK FALSE
