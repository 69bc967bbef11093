SPECIFICATION Spec
CONSTANTS
  QUEUE_SIZE = 1
  Size = 1
  MaxTransfers = 2
  MaxConfigures = 1
  MaxCallbacks = 1
INVARIANT WritesItsData
CHECK_DEADLOCK FALSE
