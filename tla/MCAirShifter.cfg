SPECIFICATION FairAirSpec
CONSTANTS
  k1 = k1
  k2 = k2
  Handles <- MCHandles
  MaxSecConns = 2
  Keys <- MCKeys
  DefaultKey = k1
  NonceLens = {}
  MaxNonceLen = 2
  DefaultNonceLen = 2
  NonceLifetime = 0
  MaxClock = 1
  MaxDraws = 2
  Spelling <- MCSpelling
  LowerOf <- MCLowerOf
  IntOf <- MCIntOf
  IntSize = 4
  ByteSize = 2
  MaxBleConnections = 2
  HandleNone = 9
  MaxConnections = 2
  NonceReadLen = 2
  Writes <- MCWrites
  Packets <- MCPackets
  QueueLength = 1
  SsidMax = 1
  PassMax = 1
  SsidField = 2
  PassField = 2
  SsidLens = {1}
  PassLens = {0}
  MaxSerial = 2
  MaxBoots = 1
  MaxFails = 0
INVARIANTS
  AdvertisesWhenItCan
  SessionsFollowHost
PROPERTIES
  OnlyEntitledChange
  LostLinkIsCleared
CHECK_DEADLOCK FALSE
