\* The same instance: a buffer that is registered twice has two writers in one ring.
CONSTANTS
  Clients = {c1, c2}
  Names = {b1, b2}
  NodeIds = {1, 2}
  NumNodes = 1
  Room = 5
  HeaderSize = 1
  Shapes <- MixedShapes
  None = None
  Appenders = {1, 2}
  MaxRegister = 2
  MaxCreate = 1
SPECIFICATION Spec
INVARIANTS
  RingForOneWriter
CHECK_DEADLOCK FALSE
