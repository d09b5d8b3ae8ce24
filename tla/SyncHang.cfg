CONSTANTS
  Threads = {"t1"}
  MaxCalls = 1
  Kinds = {"sync"}
  MaxAsked = 0
  Spurious = FALSE
SPECIFICATION SyncFair
CHECK_DEADLOCK FALSE
PROPERTIES CallsComeBack
