SPECIFICATION FairSpec
CONSTANTS
  INPUT_SIZE = 2
  OUTPUT_SIZE = 1
  MaxSends = 3
  MaxCreates = 2
  MaxTerminates = 2
  MaxStates = 1
  MaxTicks = 1
INVARIANTS
  TypeOK
  OneWorker
  InOrderAtMostOnce
  NothingLost
  OutputsMatch
PROPERTIES
  InputsAreTaken
  TerminateReturns
CHECK_DEADLOCK FALSE
