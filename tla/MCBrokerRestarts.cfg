CONSTANTS
  Conn = {c1, c2, c3}
  InProc = {}
  Node = {n1, n2}
  Name = {n1, n2}
  ServiceOf <- MCServiceOf
  Kinds = {}
  MaxCalls = 0
  MaxRestarts = 0
  MaxCuts = 1
  CutsWhileOpening = FALSE
  MaxAlloc = 4
  MaxInFlight = 0
  MaxBrokerRestarts = 2
SPECIFICATION RestartsFair
CHECK_DEADLOCK FALSE
INVARIANTS NodesFindTheBroker
PROPERTIES NodesComeBack
