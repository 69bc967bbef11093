SPECIFICATION IoFairSpec
CONSTANTS
  Timeout = 2
  MaxCount = 2
  MaxArrivals = 4
PROPERTY ReadReturns
CHECK_DEADLOCK FALSE
