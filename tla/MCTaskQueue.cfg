CONSTANTS
  Producers = {p1, p2}
  Closers = {c1, c2}
  MaxPosts = 1
SPECIFICATION FairSpec
INVARIANTS TypeOK NoLostWakeup NothingLost BatchSurvivesClose ClosedMeansStopped
PROPERTIES ImplementsFifo CallsReturn ImplementsFairFifo
