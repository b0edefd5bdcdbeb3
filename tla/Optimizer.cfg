SPECIFICATION MCSpec
CONSTANTS
  Operations <- MCOperations
  Programs <- MCPrograms
  MaxSteps = 7
INVARIANT SameProgram
CHECK_DEADLOCK FALSE
