CONSTANTS
  MaxInt = 15
  MaxSigLen = 3
  HeaderLen = 3
  Inputs <- MCInputs
  Faults = TRUE
SPECIFICATION CommandSpec
INVARIANTS PayloadIsReadable NothingLeaks MetadataInsideFile
CHECK_DEADLOCK FALSE
