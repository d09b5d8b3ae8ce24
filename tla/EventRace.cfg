CONSTANTS
  Conn = {c1, c2}
  Fd = {3}
  RecvBuffer = 2
  MaxData = 1
  HandlerCloses = TRUE
SPECIFICATION EventSpec
CHECK_DEADLOCK FALSE
INVARIANTS EventsHaveTheirSocket BrokenOnceAndLast SocketsAreRegistered
