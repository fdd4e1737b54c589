\* Three clients, so that requests wait while one is handled.
CONSTANTS
  Clients = {c1, c2, c3}
  NoClient = none
SPECIFICATION FairSpec
INVARIANTS
  TypeOK
  StoppedHasEnded
PROPERTIES
  StartReturns
  RequestAnswered
CHECK_DEADLOCK FALSE
