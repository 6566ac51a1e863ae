SPECIFICATION TcpFairSpec
CONSTANTS
  Clients = {c1, c2}
  Servers = {t1, t2}
  TcpThreads = {t1}
  NFd = 2
  Errno = 1
  Queue = 1
  MayFail = TRUE
  NServed = 1
INVARIANTS ConnectedIsUsable ServesOwn
PROPERTIES ConnectEnds AcceptEnds
CHECK_DEADLOCK FALSE
