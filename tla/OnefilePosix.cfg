\* Three launches: one unpacks, one waits for it and one comes late; commands
\* fail, anybody may be killed and one trapped signal may arrive.
CONSTANTS
  Launches = {l1, l2, l3}
  CanFail = TRUE
  CanDie = TRUE
  MaxSignals = 1
SPECIFICATION FairSpec
INVARIANTS OneUnpacks LockIsSomebodys MarkedIsWhole
PROPERTY EveryLaunchSettles
CHECK_DEADLOCK FALSE
