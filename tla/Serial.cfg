SPECIFICATION SerialSpec
CONSTANTS
  UART_QUEUE_SIZE = 1
  MaxBytes = 2
  MaxTransfers = 2
  MaxConfigures = 2
  MaxCallbacks = 1
  Chained = {"rx"}
INVARIANTS
  TypeOK
  RunningIsPending
  EndedIsEnded
  EndInOrder
  BytesOfLastTransfer
  CallbackToldSize
CHECK_DEADLOCK FALSE
