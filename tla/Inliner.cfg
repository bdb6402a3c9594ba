SPECIFICATION Spec
CONSTANTS
  Programs <- MCPrograms
  TooLong = 6
  MaxCopies = 6
  Fuel = 60
  MainKinds = {"once", "both", "twice", "fg", "gone", "dyn", "dyn2", "eval"}
  CalleeKinds = {"leaf", "slot", "nested", "self", "blocks", "long"}
INVARIANTS
  MeaningKept
  GraphSound
  CrashExplained
  EndsUnlessRecursive
