SPECIFICATION Spec
CONSTANTS
    Code <- MCCode
    Bytes <- MCBytes
    Counts <- MCCounts
    Trees <- MCTrees
    Malformed <- MCMalformed
    Texts <- MCTexts
    Slots = {0, 3}
    TokenMax = 12
    GroupMax = 8
    StackMax = 24

  
  
PROPERTIES
  Returns
