SPECIFICATION FairSpec
CONSTANTS
  QUEUE_SIZE = 1
  Size = 1
  MaxTransfers = 2
  MaxConfigures = 2
  MaxCallbacks = 2
INVARIANTS TypeOK BundlesMatch BusIsExclusive EndIsTold
PROPERTY WaitsEnd
CHECK_DEADLOCK FALSE
