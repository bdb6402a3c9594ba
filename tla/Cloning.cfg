SPECIFICATION FairSpec
CONSTANTS
  Graphs <- MCGraphs
INVARIANTS
  OneEach
  Isomorphic
PROPERTIES
  Returns
