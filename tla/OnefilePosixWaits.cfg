\* Two launches, one of which may fail or be killed while the other waits.
CONSTANTS
  Launches = {l1, l2}
  CanFail = TRUE
  CanDie = TRUE
  MaxSignals = 0
SPECIFICATION FairSpec
PROPERTY OthersSettle
CHECK_DEADLOCK FALSE
