SPECIFICATION FairSpec
CONSTANTS
  MinThr = 2
  MaxThr = 2
  QueueMax = 1
  MinWait = 1
  Vary = 1
  Adders = {a1, a2}
  NTasks = 2
  CreateMayFail = FALSE
  MayDestroy = FALSE
INVARIANTS NobodySleepsOnWork
PROPERTIES QueuedTaskRuns AddReturns
CHECK_DEADLOCK FALSE
