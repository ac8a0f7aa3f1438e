SPECIFICATION Spec
CONSTANTS
  k1 = k1
  k2 = k2
  Handles <- MCHandlesAll
  MaxSecConns = 2
  Keys <- MCKeys
  DefaultKey = k1
  NonceLens <- MCNonceLens
  MaxNonceLen = 2
  DefaultNonceLen = 2
  NonceLifetime = 1
  MaxClock = 1
  MaxDraws = 3
INVARIANT PerConnectionState
CHECK_DEADLOCK FALSE
