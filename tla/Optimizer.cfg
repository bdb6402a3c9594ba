SPECIFICATION Spec
CONSTANTS
  Functions <- MCFunctions
  TempBlocks <- MCTempBlocks
  Decisions = 2
  Fuel = 9
  EntryBodies = {"add", "slot", "addr"}
  XBodies = {"empty", "dead", "mov", "same", "load", "store"}
  YBodies = {"empty", "load"}
INVARIANTS
  MeaningKept
  GraphSound
  NoCrash
PROPERTIES
  EndNearer
