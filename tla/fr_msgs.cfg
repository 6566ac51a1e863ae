SPECIFICATION TcpFairSpec
CONSTANTS
  HdrLen = 2
  Base = 2
  Msgs <- MCMsgs
  NCalls = 3
  Capacity = 2
  Roles = {"client", "server", "tcp"}
  MayFail = TRUE
  MallocFails = TRUE
INVARIANTS StreamInStep
PROPERTIES ImplementsChannel SentArrives SendReturns
CHECK_DEADLOCK FALSE
