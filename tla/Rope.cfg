SPECIFICATION Spec
CONSTANTS
    Scripts <- MCScripts
    NodeIds <- MCNodeIds
INVARIANTS
  RopeSound
  FailsAsExplained
PROPERTIES
  ActsAsSequence
CHECK_DEADLOCK FALSE
