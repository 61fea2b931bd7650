CONSTANTS
  MaxInt = 15
  BlockSize = 2
  Jobs <- MCJobsWrapped
  Buffer = 3
  MaxInMemory = 10
  Faults = TRUE
SPECIFICATION Spec
INVARIANTS SpansTooLargeAreRefused
CHECK_DEADLOCK FALSE
