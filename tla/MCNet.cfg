CONSTANTS
  Conn = {c1, c2}
  Fd = {3, 4}
  RecvBuffer = 2
  MaxData = 1
  HandlerCloses = TRUE
  MaxSends = 3
  MaxSize = 4
  Room = 2
  Text = {"a", "GET"}
  MaxBody = 1
  MaxMsgs = 2
  MaxFrames = 3
SPECIFICATION NetFair
CHECK_DEADLOCK FALSE
INVARIANTS SocketsAreServed SendsAreWhole MessagesArrive
PROPERTIES EventsAreServed
