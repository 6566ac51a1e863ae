SPECIFICATION FairSpec
CONSTANTS
  MinThr = 1
  MaxThr = 2
  QueueMax = 2
  MinWait = 2
  Vary = 2
  Adders = {a1}
  NTasks = 3
  CreateMayFail = FALSE
  MayDestroy = FALSE
PROPERTIES QueuedTaskRuns
CHECK_DEADLOCK FALSE
