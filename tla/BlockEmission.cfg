SPECIFICATION Spec
CONSTANTS
  Programs <- MCPrograms
  InstLen <- MCInstLen
  FuncAlign = 16
  DispMax = 300
  Pages = {256, 512}
  TempNames <- MCTempNames
  Moves = {TRUE}
  MaxBlocks = 4
  Conds = {"compared"}
INVARIANTS
  CodeSound
  
PROPERTIES
  ImplementsCFG
