CONSTANTS
  Launches = {l1, l2, l3}
  Pids = {d1, d2}
  CanFail = TRUE
  CanDie = TRUE
  NoOne = NoOne
SPECIFICATION FairSpec
INVARIANTS OneUnpacks MarkedIsWhole
PROPERTIES IsAContentCache EveryLaunchSettles
CHECK_DEADLOCK FALSE
