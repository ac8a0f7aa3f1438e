SPECIFICATION BleSpec
CONSTANTS
  k1 = k1
  k2 = k2
  Handles <- MCHandles
  MaxSecConns = 2
  Keys <- MCKeys
  DefaultKey = k1
  NonceLens = {}
  MaxNonceLen = 2
  DefaultNonceLen = 2
  NonceLifetime = 1
  MaxClock = 1
  MaxDraws = 1
  Spelling <- MCSpelling
  LowerOf <- MCLowerOf
  IntOf <- MCIntOf
  IntSize = 4
  ByteSize = 2
  MaxBleConnections = 2
  HandleNone = 9
  MaxConnections = 1
  NonceReadLen = 2
  Writes <- MCWrites3
  Packets <- MCPackets
PROPERTY AckedWriteApplied
CHECK_DEADLOCK FALSE
