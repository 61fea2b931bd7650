CONSTANTS
  Manifest <- MCManifest
  Names = {"boot", "system", "vendor", "odm", "product"}
  MaxTasks = 2
  OptionSet <- MCOptions
  Disks <- MCDisks
  Concurrency = 2
  NumCPU = 1
  FecBatches = {0, 1}
  Faults = TRUE
  MaxCrashes = 0
SPECIFICATION Spec
INVARIANTS TypeInv NilMeansComplete NothingPartialIsLeft CauseIsReturned EventsTellTheOutcome
PROPERTIES TerminalEventIsLast
CHECK_DEADLOCK FALSE
