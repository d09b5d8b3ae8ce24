CONSTANTS
  Client = {c1}
  NWorker = 2
  MaxMsgs = 2
  MaxRestarts = 1
  ThrowingHook = TRUE
  Requests = {"close"}
  Targets = {0, 1}
  MaxRequests = 1
SPECIFICATION SessionSpec
CHECK_DEADLOCK FALSE
INVARIANTS SocketsAreNotNull LogoutFindsEntity ReturnedWorkersAgree
