SPECIFICATION Spec
CONSTANTS
  MaxEvents = 2
  ScanStep = 1
  Timeout = 1
  BufLen = 2
  MinFd = 2
  NFd = 2
  Clients = {c1, c2}
  Late = {}
  Closers = {c1, c2}
  Stoppers = {c1, c2}
  NUnits = 2
  MayShort = TRUE
  MayReset = TRUE
  MayInterrupt = TRUE
INVARIANTS TypeOK StatusIsInTree BatchIsFresh EchoInOrder
SYMMETRY Symmetry
