CONSTANTS
  Client = {c1, c2}
  NWorker = 2
  MaxMsgs = 2
  MaxRestarts = 0
  ThrowingHook = TRUE
  Requests = {"move", "send", "broadcast"}
  Targets = {0, 1}
  MaxRequests = 2
SPECIFICATION FairSteadySpec
CHECK_DEADLOCK FALSE
INVARIANTS SessionsAgree StrangersAreIntroduced
PROPERTIES ServedInOrder MessagesAreServed
