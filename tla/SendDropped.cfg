CONSTANTS
  MaxSends = 2
  MaxSize = 2
  Room = 2
SPECIFICATION SendSpec
CHECK_DEADLOCK FALSE
INVARIANTS NothingIsDropped
