SPECIFICATION Spec
CONSTANTS
  Vectors = {v, w}
  Deques = {d}
  Lists = {l, m}
  Values = {a, z}
  Zero = z
  None = None
  Null = Null
  Idle = Idle
  Nodes = {n1, n2, n3, n4}
  Keys = {1, 2, 3, 4}
  Scores = {10, 11, 12}
  NoScore = 10
  LeastRoom = 2
  VectorMost = 3
  DequeMost = 4
  RoomMost = 8
INVARIANTS EachElementOnce StaysInside LinkedBothWays WalksInOrder
PROPERTIES KeepTheirPromises
CHECK_DEADLOCK FALSE
