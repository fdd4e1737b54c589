\* Two clients, two names, and five units of memory for rings of two and three units:
\* names are registered twice, memory runs out in the middle of a registration and with
\* some of it left, and node 2 does not exist.
CONSTANTS
  Clients = {c1, c2}
  Names = {b1, b2}
  NodeIds = {1, 2}
  NumNodes = 1
  Room = 5
  HeaderSize = 1
  Shapes <- MixedShapes
  None = None
  Appenders = {1, 2}
  MaxRegister = 2
  MaxCreate = 1
SYMMETRY Symmetry
SPECIFICATION Spec
INVARIANTS
  TypeOK
  RingsDisjoint
  ExclusiveUnlessRegisteredAgain
PROPERTIES
  HandlesGrow
  WrittenIsKept
CHECK_DEADLOCK FALSE
