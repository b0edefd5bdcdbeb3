SPECIFICATION FairSpec
CONSTANTS
  Threads = {t1, t2, t3}
  Turns = 2
  Narrow = FALSE
INVARIANTS MutualExclusion NothingLost JoinedHasRun
PROPERTIES EveryThreadEnds IsAMutex
CHECK_DEADLOCK FALSE
