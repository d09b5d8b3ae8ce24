CONSTANTS
  Shared = {s1, s2, s3}
  Weak = {w1, w2, w3}
  First = s1
  Once = {o1}
  Loop = {l1}
  Ms = {1, 4}
  Back = {8}
  Forward = {4}
  MaxSets = 1
  MaxStart = 1
  MaxReal = 14
  MaxSlow = 1
  Threads = {"t1"}
  MaxCalls = 3
  Kinds = {"sync", "async", "unknown"}
  MaxAsked = 1
  Spurious = TRUE
SPECIFICATION ThreadsFair
CHECK_DEADLOCK FALSE
INVARIANTS SharedOwnership TimersAreServed
PROPERTIES CallbacksComeDue AnswersEndTheirCall
