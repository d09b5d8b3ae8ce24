CONSTANTS
  Conn = {c1, c2}
  InProc = {}
  Node = {n1, n2}
  Name = {n1, n2}
  ServiceOf <- MCServiceOf
  Kinds = {"tell"}
  MaxCalls = 1
  MaxRestarts = 0
  MaxCuts = 0
  CutsWhileOpening = FALSE
  MaxAlloc = 4
  MaxInFlight = 0
  MaxBrokerRestarts = 1
SPECIFICATION RestartsSpec
INVARIANTS CallsReachTheirService
CHECK_DEADLOCK FALSE
