\* A server that is stopped while it handles a request.
CONSTANTS
  Clients = {c1, c2}
  NoClient = none
SPECIFICATION FairSpec
PROPERTIES
  ContextIsDestroyed
CHECK_DEADLOCK FALSE
