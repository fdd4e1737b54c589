\* One ring, three segments of three bytes, an internal buffer of two bytes: chunks,
\* splits at the end of a segment and at the end of the internal buffer all occur, and
\* eleven bytes go round the ring once and into its first segment again.
CONSTANTS
  NumWriters = 1
  N = 3
  SegSize = 3
  IBufSize = 2
  MaxWR = 4
  AppendSizes = {0, 1, 2, 5}
  MaxBytes = 11
SPECIFICATION FairSpec
INVARIANTS
  TypeOK
  SegmentExclusive
  InFlightDisjoint
  SendQueueBounded
  NextElementIsThere
  DeliveredInOrder
PROPERTIES
  PublishedIsStable
  AppendReturns
