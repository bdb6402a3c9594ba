SPECIFICATION Spec
CONSTANTS
  Lines <- MCLines
  MaxLines = 7
  Calls <- MCCalls
  Given <- MCGiven
  SlotName <- MCName
  ArgName <- MCName
  MaxCalls = 4
INVARIANTS
  OperandsMeant
  Formed
  
