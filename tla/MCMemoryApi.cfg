\* Two processes, two rings of two segments of two bytes.  The memory of a reader has
\* room for the data once, and for two headers.
CONSTANTS
  Procs = {p1, p2}
  Rings = 2
  N = 2
  SegSize = 2
  HeaderSize = 1
  Memory = 10
  AppendSizes = {1, 3}
  MaxBytes = 3
  MaxReads = 3
SPECIFICATION FairSpec
INVARIANTS
  ClosedIsReadExactly
PROPERTIES
  ReadReturns
CHECK_DEADLOCK FALSE
