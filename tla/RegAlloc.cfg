SPECIFICATION Spec
CONSTANTS
  RegisterCounts = {3, 4, 16}
  MaxSlots = 8
  Shapes <- MCShapes
  ArgRegs <- MCArgRegs
  FloatArgRegs <- MCFloatArgRegs
  Clobbered <- MCClobbered
INVARIANTS
  BooksKept
  ReadsRight
  
  SpillingEnds
