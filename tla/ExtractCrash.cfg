CONSTANTS
  Manifest <- MCManifest3
  Names = {"boot", "system", "nosuch"}
  MaxTasks = 3
  OptionSet <- MCOptions3
  Disks <- MCDisks3
  Concurrency = 0
  NumCPU = 2
  FecBatches = {0}
  Faults = FALSE
  MaxCrashes = 1
SPECIFICATION Spec
INVARIANTS NilMeansComplete NothingPartialIsLeft
PROPERTIES RunReturns
CHECK_DEADLOCK FALSE
