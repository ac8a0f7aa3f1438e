SPECIFICATION FairSpec
CONSTANTS
  router = router
  node = node
  none = none
  Parents <- MCParents
  NoParent = none
  MaxLayer = 3
  OtherEvents <- MCOtherEvents
  MaxEvents = 4
  MaxLinks = 3
INVARIANTS
  TypeOK
  SettledAgrees
  RootHasFreshLease
PROPERTIES
  LinkIsReported
CHECK_DEADLOCK FALSE
