SPECIFICATION Spec
CONSTANTS
  x = x
  y = y
  Names <- MCNames
  Bodies <- MCBodies
  Half = 8
  Small = 2
  Limit = 3
  MaxInt = 12
INVARIANTS HeldOnce TypesAreKnown
PROPERTY IsPython
CHECK_DEADLOCK FALSE
