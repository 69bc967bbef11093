SPECIFICATION FairSpec
CONSTANTS
  p1 = p1
  p2 = p2
  c1 = c1
  c2 = c2
  a = a
  b = b
  Garbage = Garbage
  NoThread = NoThread
  Producers <- TwoProducers
  Consumers <- OneConsumer
  Items <- OneItem
  SIZE = 2
  MaxCalls = 2
  MaxSpurious = 1
INVARIANTS
  TypeOK
  MutualExclusion
  RingConsistent
  NoLostWakeUp
PROPERTIES
  ImplementsQueueSpec
  DeadlinesAreKept
  OnlyJustifiedWaits
CHECK_DEADLOCK FALSE
