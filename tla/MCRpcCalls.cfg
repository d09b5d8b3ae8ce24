CONSTANTS
  Conn = {c1, c2}
  InProc = {n2}
  Node = {n1, n2}
  Name = {n1, n2}
  ServiceOf <- MCServiceOf
  Kinds = {"ask", "tell", "unknown"}
  MaxCalls = 2
  MaxRestarts = 0
  MaxCuts = 0
  CutsWhileOpening = FALSE
  MaxAlloc = 6
  MaxInFlight = 0
SPECIFICATION RpcSystemFair
CHECK_DEADLOCK FALSE
INVARIANTS CallbacksGetTheirAnswer
PROPERTIES CallsAreAnswered
