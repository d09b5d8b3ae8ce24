CONSTANTS
  Modid = {1, 3}
  MaxConn = 2
  MaxInits = 2
  MaxQueries = 2
SPECIFICATION DbSpec
CHECK_DEADLOCK FALSE
INVARIANTS QueuesAreThere
PROPERTIES OrderIsAlwaysKept
