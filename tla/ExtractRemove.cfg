CONSTANTS
  Manifest <- MCManifest
  Names = {"boot", "system", "vendor", "odm", "product"}
  MaxTasks = 2
  OptionSet <- MCOptionsRemove
  Disks <- MCDisksRemove
  Concurrency = 2
  NumCPU = 1
  FecBatches = {0, 1}
  Faults = FALSE
  MaxCrashes = 0
SPECIFICATION Spec
PROPERTY OnlyIncompleteOutputsRemoved
CHECK_DEADLOCK FALSE
