CONSTANTS
  Modid = {1, 3}
  MaxConn = 2
  MaxInits = 2
  MaxQueries = 2
  Session = {s1, s2, s3}
  Uid = {1}
  NConn = 2
  Share = FALSE
  MaxLogins = 1
  MaxChats = 2
SPECIFICATION ServerFair
CHECK_DEADLOCK FALSE
INVARIANTS PoolIsSound PlayersAreKnown
PROPERTIES OrderIsKept RequestsAreSettled
