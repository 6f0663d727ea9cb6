CONSTANTS
  None = None
  Peers <- MCPeers
  Scopes <- MCScopes
  SendCapacity = 1
SPECIFICATION PSpec
INVARIANTS
  NoDanglingReference
  KeyLimitHolds
  PruningIsExact
  MutualVisibility
  RoutersAdmitClients
  ProxyIsCurrent
  SessionRowKept
PROPERTIES
  NoMissedUpdate
CHECK_DEADLOCK FALSE
