\* Three segments, room for three messages in the internal buffer, and seven messages:
\* the ring is gone round twice, and every MaxWR-th request falls on each place of it.
CONSTANTS
  N = 3
  SegSize = 2
  MsgSize = 1
  Slots = 3
  MaxWR = 4
  MaxMsgs = 7
SPECIFICATION FairSpec
INVARIANTS
  SegmentExclusive
  InFlightIntact
  SizesReported
PROPERTIES
  ImplementsStream
  AppendReturns
  ClosedIsDrainedIfUsed
