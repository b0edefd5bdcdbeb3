SPECIFICATION MCSpec
CONSTANTS
  first = first
  second = second
  third = third
  fourth = fourth
  Builds = {first, second, third, fourth}
  Freezers = {third, fourth}
  Lock <- Project
  Room <- Place
  CanFail = TRUE
  CanDie = TRUE
  Digests = {d, e}
  None = None
  Spoilt = Spoilt
  Torn = Torn
INVARIANTS PinsKept TakesWhatIsPinned
PROPERTIES DoneWithWhatIsPinned SourcesAreACache EveryFetchEnds
CHECK_DEADLOCK FALSE
