SPECIFICATION Spec
CONSTANTS
  ThrNum = 2
  MaxJob = 1
  IntMax = 100
  NTasks = 4
  Main = main
  NFd = 1
  Clients = {c1, c2}
  NUnits = 2
  BufLen = 2
  MaxFaults = 1
  MayInterrupt = TRUE
  MayHitTree = TRUE
INVARIANTS EdgeNotLost OwnConnection EchoOrder
SYMMETRY Symmetry
CHECK_DEADLOCK FALSE
