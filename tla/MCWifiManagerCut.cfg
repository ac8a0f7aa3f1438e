SPECIFICATION Spec
CONSTANTS
  QueueLength = 2
  SsidMax = 2
  PassMax = 2
  SsidField = 2
  PassField = 2
  SsidLens <- MCLongSsid
  PassLens <- MCOneLen
  MaxSerial = 2
  MaxBoots = 0
  MaxFails = 0
INVARIANT DriverHasWholeSsid
CHECK_DEADLOCK FALSE
