CONSTANTS
  Threads = {"t1", "t2"}
  MaxCalls = 2
  Kinds = {"sync", "async"}
  MaxAsked = 0
  Spurious = FALSE
SPECIFICATION SyncSpec
CHECK_DEADLOCK FALSE
INVARIANTS CallsReturnTheirAnswer RequestsInOrder
