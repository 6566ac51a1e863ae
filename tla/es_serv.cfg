SPECIFICATION FairSpec
CONSTANTS
  Kinds <- MCKinds
  Clients = {c1, c2, c3}
  Late = {c3}
  Limits = {1, 2}
  Sizes = {1, 3}
  NUnits = 2
  BufLen = 1
  Resets = {c1}
  Stoppers = {c1}
  MayInterrupt = TRUE
  MayFail = TRUE
INVARIANTS TableIsWatched ReportIsFresh
PROPERTIES ImplementsEcho Served
CHECK_DEADLOCK FALSE
