SPECIFICATION FairSpec
CONSTANTS
  c1 = c1
  c2 = c2
  Self = Self
  NULL = NULL
  Backlog = 1
  Clients <- MCNobody
  Sockets <- MCOneSocket
  Kinds <- MCFewKinds
PROPERTY SignalStopsServer
CHECK_DEADLOCK FALSE
