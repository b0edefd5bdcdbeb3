SPECIFICATION FairSpec
CONSTANTS
  Programs <- MCPrograms
  Tags <- MCTags
  MaxCalls = 4
INVARIANT SameAsPython
PROPERTY EveryCallIsAnswered
CHECK_DEADLOCK FALSE
