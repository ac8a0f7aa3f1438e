SPECIFICATION Spec
CONSTANTS
  QueueLength = 2
  SsidMax = 2
  PassMax = 2
  SsidField = 2
  PassField = 2
  SsidLens <- MCOneLen
  PassLens <- MCOneLen
  MaxSerial = 2
  MaxBoots = 2
  MaxFails = 1
INVARIANT LoadsSavedPair
CHECK_DEADLOCK FALSE
