CONSTANTS
  Conn = {c1, c2, c3}
  InProc = {}
  Node = {n1}
  Name = {n1}
  ServiceOf <- MCServiceOf
  Kinds = {}
  MaxCalls = 0
  MaxRestarts = 0
  MaxCuts = 1
  CutsWhileOpening = TRUE
  MaxAlloc = 6
  MaxInFlight = 0
SPECIFICATION RpcSystemFair
CHECK_DEADLOCK FALSE
PROPERTIES NodesComeBack
