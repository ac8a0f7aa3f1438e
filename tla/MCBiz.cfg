SPECIFICATION Spec
CONSTANTS
  Handles <- MCHandles
  MaxBleConnections = 2
  HandleNone = 9
  Clients <- MCClients
  IntSize = 8
  ByteSize = 2
  Args <- MCArgs
INVARIANTS
  TypeOK
  SubscribersKnow
  TableRemembersProofs
CHECK_DEADLOCK FALSE
