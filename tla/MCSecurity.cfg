SPECIFICATION Spec
CONSTANTS
  k1 = k1
  k2 = k2
  Handles <- MCHandles
  MaxSecConns = 2
  Keys <- MCKeys
  DefaultKey = k1
  NonceLens <- MCNonceLens
  MaxNonceLen = 2
  DefaultNonceLen = 2
  NonceLifetime = 1
  MaxClock = 2
  MaxDraws = 3
INVARIANTS
  TypeOK
  SlotsMatchConnections
  AuthAnsweredOwnChallenge
  AuthWithinLifetime
PROPERTIES
  SessionSurvivesOthers
  ReadsOwnChallenge
  ImplementsSession
CHECK_DEADLOCK FALSE
