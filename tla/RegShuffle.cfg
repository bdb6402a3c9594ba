SPECIFICATION FairSpec
CONSTANTS
  NReg = 8
  LastInt = 4
  ScratchInt = 4
  ScratchFloat = 7
  MaxArgs = 4
  ArgLists <- MCArgLists
INVARIANTS
  ParallelMove
  PendingIntact
PROPERTIES
  Terminates
CHECK_DEADLOCK FALSE
