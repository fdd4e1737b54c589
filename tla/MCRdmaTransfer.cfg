CONSTANTS
  c1 = c1
  s1 = s1
  s2 = s2
  Clients = {c1}
  Servers = {s1, s2}
  Ops <- MCOps
  Group = g
  Shared = shared
  MaxWR = 2
  MaxCalls = 3
  MaxReceives = 2
  MaxFaults = 1
SPECIFICATION FairSpec
INVARIANTS
  TypeOK
  NeverFullAlone
  PolledIsFilled
PROPERTIES
  TrueMeansAllBefore
  WaitedReturns
CHECK_DEADLOCK FALSE
