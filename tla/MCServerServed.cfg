SPECIFICATION FairSpec
CONSTANTS
  c1 = c1
  c2 = c2
  Self = Self
  NULL = NULL
  Backlog = 1
  Clients <- MCClients
  Sockets <- MCSockets
  Kinds <- MCFewKinds
PROPERTIES
  ServedUnlessHeld
  StopsUnlessParked
CHECK_DEADLOCK FALSE
