SPECIFICATION FairSpec
CONSTANTS
  Addr = {a1, a2, a3}
  NULL = NULL
  Owner = {o1, o2}
  Zero = 0
  Junk = J
  Value = {0, 1}
  MaxSize = 3
INVARIANTS
  ListInv
  OwnersInv
PROPERTIES
  FreeAllEmpties
  ImplementsArrayStore
