CONSTANTS
  Conn = {c1, c2, c3}
  InProc = {}
  Node = {n1, n2}
  Name = {n1, n2}
  ServiceOf <- MCServiceOf
  Kinds = {"ask"}
  MaxCalls = 2
  MaxRestarts = 0
  MaxCuts = 1
  CutsWhileOpening = FALSE
  MaxAlloc = 6
  MaxInFlight = 0
SYMMETRY Symmetry
SPECIFICATION RpcSystemSpec
CHECK_DEADLOCK FALSE
INVARIANTS CallbacksGetTheirAnswer
