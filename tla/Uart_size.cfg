SPECIFICATION Spec
CONSTANTS
  UART_QUEUE_SIZE = 1
  MaxBytes = 1
  MaxTransfers = 2
  MaxConfigures = 1
  MaxCallbacks = 1
  Chained = {}
INVARIANT
  CallbackToldItsBytes
CHECK_DEADLOCK FALSE
