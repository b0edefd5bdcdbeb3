SPECIFICATION Spec
CONSTANTS
  Threads = {t1}
  Turns = 1
  Narrow = TRUE
INVARIANT NothingLost
CHECK_DEADLOCK FALSE
