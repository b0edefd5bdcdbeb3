\* m[k] may be read before anything was stored under k.
SPECIFICATION Spec
CONSTANTS
  Keys = {1, 2, 3}
  Values = {10, 11}
  Zero = 10
  Idle = Idle
  LeastRoom = 2
  ReadsMake = TRUE
PROPERTY NewKeysAreZero
CHECK_DEADLOCK FALSE
