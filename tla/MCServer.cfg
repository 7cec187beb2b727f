SPECIFICATION Spec
CONSTANTS
  c1 = c1
  c2 = c2
  Self = Self
  NULL = NULL
  Backlog = 2
  Clients <- MCClients
  Sockets <- MCSockets
  Kinds <- MCKinds
INVARIANTS
  TypeOK
  OneResponse
  StopsPromptly
  SuccessMeansClean
CHECK_DEADLOCK FALSE
