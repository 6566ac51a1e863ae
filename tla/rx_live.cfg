SPECIFICATION FairSpec
CONSTANTS
  MaxEvents = 2
  ScanStep = 1
  Timeout = 1
  BufLen = 2
  MinFd = 2
  NFd = 3
  Clients = {c1, c2, c3}
  Late = {c3}
  Closers = {c2}
  Stoppers = {c1}
  NUnits = 1
  MayShort = FALSE
  MayReset = FALSE
  MayInterrupt = FALSE
PROPERTIES SilentIsClosed Answered
