\* Two rings of two segments under one iterator.
CONSTANTS
  NumWriters = 2
  N = 2
  SegSize = 1
  IBufSize = 1
  MaxWR = 2
  AppendSizes = {1, 2}
  MaxBytes = 3
SPECIFICATION FairSpec
PROPERTIES
  ImplementsStream
  ClosedIsDrained
