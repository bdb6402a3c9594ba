SPECIFICATION Spec
CONSTANTS
  ABIs = {"sysv", "win"}
  Functions <- MCFunctions
  Top = 256
  Sizes = {1, 4, 8, 12, 40}
  MaxSlots = 3
  Outputs = {0, 6, 12}
INVARIANTS
  FrameDisjoint
  ArgumentsArrive
  
