\* A ring of one segment, the default of DPI_Create_buffer.
CONSTANTS
  NumWriters = 1
  N = 1
  SegSize = 2
  IBufSize = 3
  MaxWR = 3
  AppendSizes = {1, 2}
  MaxBytes = 4
SPECIFICATION FairSpec
INVARIANTS
  NextElementIsThere
