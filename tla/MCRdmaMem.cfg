\* Seven bytes, so that lists of up to four entries occur with a region between any two.
CONSTANTS
  MemSize = 7
  Sizes = {1, 2, 3}
SPECIFICATION Spec
INVARIANTS
  TypeOK
  NoOverlap
  Accounted
