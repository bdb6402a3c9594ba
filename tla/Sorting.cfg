SPECIFICATION Spec
CONSTANTS
    Inputs <- MCInputs
    BlockSize = 2
    Linear = 3
    Small = 2
INVARIANTS
  MemoryRight
  SortsWhereLinear
PROPERTIES
  Ends
CHECK_DEADLOCK FALSE
