SPECIFICATION EspSpec
CONSTANTS
  INPUT_SIZE = 1
  OUTPUT_SIZE = 1
  MaxInputs = 4
  MaxCreates = 2
  MaxEdges = 3
  MaxPinCalls = 5
  EventQueueSize = 2
  MaxBuffered = 2
  MaxReads = 2
  MaxInstalls = 2
  MaxSetCallbacks = 2
  MaxBursts = 3
  MaxWrites = 4
  MaxTxConfigures = 2
  MaxTxCallbacks = 2
  Devices = {"d1", "d2"}
  Slots = {1, 2, 3}
  MaxSpiCalls = 6
  Chips = {"c1", "c2", "c3"}
  PortOf <- OnePort
  MaxIicCalls = 7
INVARIANTS
  TypeOK
  NothingRunsAfterEnd
  ToldRight
  BusIsShared
PROPERTIES
  UartTransfersEnd
  TerminationsEnd
CHECK_DEADLOCK FALSE
