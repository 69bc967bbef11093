SPECIFICATION Spec
CONSTANTS
  p1 = p1
  p2 = p2
  c1 = c1
  c2 = c2
  a = a
  b = b
  Garbage = Garbage
  NoThread = NoThread
  Producers <- OneProducer
  Consumers <- TwoConsumers
  Items <- OneItem
  MAX_SIZE = 2
  MaxCalls = 2
  MaxSpurious = 0
INVARIANT
  NeverPopsEmpty
CHECK_DEADLOCK FALSE
