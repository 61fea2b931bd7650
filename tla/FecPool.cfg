CONSTANTS
  CodewordLen = 4
  DefaultBatchRounds = 128
  BlockBytes = 4
  MaxInt = 255
  Calls = {"system", "vendor", "broken"}
  Params <- MCParams
  NumWorkers = 2
  Capacity = 2
SPECIFICATION Spec
INVARIANTS SuccessIsComplete BatchesAreExclusive PermitsConserved CauseIsReported ProgressIsHonest IInv
PROPERTIES QuietAfterReturn ImplementsPromise
CHECK_DEADLOCK FALSE
