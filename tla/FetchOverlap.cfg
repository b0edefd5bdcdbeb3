\* Builds with one lock file and one room overlap: neither of these holds.
SPECIFICATION MCSpec
CONSTANTS
  first = first
  second = second
  third = third
  fourth = fourth
  Builds = {first, second, third, fourth}
  Freezers = {third, fourth}
  Lock <- Project
  Room <- Place
  CanFail = TRUE
  CanDie = TRUE
  Digests = {d, e}
  None = None
  Spoilt = Spoilt
  Torn = Torn
INVARIANT NoPinIsLost
PROPERTY EveryoneFinishesWhole
CHECK_DEADLOCK FALSE
