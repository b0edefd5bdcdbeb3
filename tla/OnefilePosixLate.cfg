CONSTANTS
  Launches = {l1, l2}
  CanFail = FALSE
  CanDie = FALSE
  MaxSignals = 0
SPECIFICATION Spec
PROPERTY PublishedStays
CHECK_DEADLOCK FALSE
