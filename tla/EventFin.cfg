CONSTANTS
  Conn = {c1}
  Fd = {3}
  RecvBuffer = 2
  MaxData = 1
  HandlerCloses = FALSE
SPECIFICATION EventFair
CHECK_DEADLOCK FALSE
PROPERTIES BreaksAreReported
