CONSTANTS
  Once = {o1, o2}
  Loop = {}
  Ms = {1, 5}
  Back = {8}
  Forward = {}
  MaxSets = 1
  MaxStart = 2
  MaxReal = 10
  MaxSlow = 1
SPECIFICATION TimerSpec
CHECK_DEADLOCK FALSE
INVARIANTS TimersAreNotLate
