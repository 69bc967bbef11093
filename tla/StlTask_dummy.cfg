SPECIFICATION Spec
CONSTANTS
  INPUT_SIZE = 2
  OUTPUT_SIZE = 1
  MaxSends = 2
  MaxCreates = 2
  MaxTerminates = 1
  MaxStates = 0
  MaxTicks = 1
INVARIANT
  OnlyClientInputs
CHECK_DEADLOCK FALSE
