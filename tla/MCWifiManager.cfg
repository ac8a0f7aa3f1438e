SPECIFICATION FairSpec
CONSTANTS
  QueueLength = 2
  SsidMax = 2
  PassMax = 2
  SsidField = 2
  PassField = 2
  SsidLens <- MCSsidLens
  PassLens <- MCPassLens
  MaxSerial = 4
  MaxBoots = 1
  MaxFails = 1
INVARIANTS
  TypeOK
  PipelineOrder
  AtRestAgrees
PROPERTIES
  QueuedTakesEffect
  HostTaskReturns
  ImplementsProvisioning
CHECK_DEADLOCK FALSE
