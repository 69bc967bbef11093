SPECIFICATION SerialFairSpec
CONSTANTS
  UART_QUEUE_SIZE = 1
  MaxBytes = 1
  MaxTransfers = 1
  MaxConfigures = 2
  MaxCallbacks = 2
  Chained = {}
PROPERTIES
  WaitsEnd
  CallbackFollows
CHECK_DEADLOCK FALSE
