CONSTANTS
  Clients = {c1, c2}
  Servers = {s1, s2}
  s1 = s1
  s2 = s2
  NodeID <- MCNodeID
  Calls <- MCCalls
  None = none
  MaxCalls = 3
  MaxFaults = 1
SPECIFICATION FairSpec
INVARIANTS
  TypeOK
  Paired
  MgmtLeadsBack
  NoSharedPeer
PROPERTIES
  ConnectReturns
CHECK_DEADLOCK FALSE
