CONSTANTS
  Manifest <- MCManifestCorrupt
  Names = {"boot", "vendor"}
  MaxTasks = 2
  OptionSet <- MCOptionsNoVerify
  Disks <- MCDisksNone
  Concurrency = 0
  NumCPU = 2
  FecBatches = {0}
  Faults = FALSE
  MaxCrashes = 0
SPECIFICATION Spec
INVARIANT NoVerifySkipsVerification
CHECK_DEADLOCK FALSE
