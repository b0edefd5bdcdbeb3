\* The first push may be at the front.
SPECIFICATION Spec
CONSTANTS
  Objects = {d}
  Values = {a, z}
  Zero = z
  None = None
  Idle = Idle
  LeastRoom = 2
  MaxCount = 3
  MaxRoom = 4
  FrontFirst = TRUE
INVARIANT StaysInside
CHECK_DEADLOCK FALSE
