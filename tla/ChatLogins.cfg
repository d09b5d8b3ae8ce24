CONSTANTS
  Session = {s1, s2}
  Uid = {1, 2}
  NConn = 2
  Share = TRUE
  MaxLogins = 2
  MaxChats = 1
SPECIFICATION ChatSpec
CHECK_DEADLOCK FALSE
INVARIANTS EveryoneIsListed NoGhosts
PROPERTIES LoginOnlyOnce
