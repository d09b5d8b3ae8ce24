CONSTANTS
  Client = {c1, c2}
  NWorker = 2
  MaxMsgs = 1
  MaxRestarts = 1
  ThrowingHook = TRUE
  Requests = {"move", "close"}
  Targets = {0, 1, 2}
  MaxRequests = 2
VIEW DirectoryView
SYMMETRY Symmetry
SPECIFICATION SessionSpec
CHECK_DEADLOCK FALSE
INVARIANTS NobodyIsLeftBehind
PROPERTIES DirectorySpec EndedSessionsAreSilent
