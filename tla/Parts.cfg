SPECIFICATION PartsSpec
CONSTANTS
  p1 = p1
  c1 = c1
  a = a
  Garbage = Garbage
  NoThread = NoThread
  Producers <- OneProducer
  Consumers <- OneConsumer
  Items <- OneItem
  MAX_SIZE = 2
  MaxCalls = 4
  MaxSpurious = 2
  Timeout = 2
  MaxCount = 2
  MaxArrivals = 4
  MaxEdges = 3
  MaxLineCalls = 5
  MaxEvents = 2
  Dios = {"d1", "d2"}
  Lines = {1, 2}
  MaxDioCalls = 5
  MAX_COUNT = 5
  CountWidth = 8
  MaxAge = 8
  Scale = 2
  DurationWidth = 6
  TimeWidth = 16
  MaxNow = 5
  Users = {1, 2, 3}
  Keys = {1, 2}
  EmptyKey = 0
  Ports = {"o1", "o2", "o3"}
  MaxConfigured = 4
INVARIANTS
  TypeOK
  BoundsAreKept
  PinsAreRight
  NeverEarly
  LockIsSound
  TerminalRestored
PROPERTY WaitsEnd
CHECK_DEADLOCK FALSE
