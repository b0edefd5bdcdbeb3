SPECIFICATION Spec
CONSTANTS
  Programs <- MCReraising
  Tags <- MCTags
  MaxCalls = 2
INVARIANT SameAsPython
CHECK_DEADLOCK FALSE
