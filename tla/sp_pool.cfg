SPECIFICATION FairSpec
CONSTANTS
  ThrNum = 2
  MaxJob = 2
  IntMax = 100
  Adders = {a1, a2}
  NTasks = 4
  MayDestroy = TRUE
INVARIANTS TypeOK WorkersCoverTasks CallersCoverRoom
PROPERTIES ImplementsTaskQueue QueuedTaskRuns AddReturns
CHECK_DEADLOCK FALSE
