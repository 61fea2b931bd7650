CONSTANTS
  Tasks = {1, 2, 3, 4}
  Name <- MCName
  TotalOps <- MCTotalOps
  FecBatches <- MCFecBatches
  FecWorkers = 2
SPECIFICATION Spec
INVARIANTS BarShowsProgress BarTellsTheOutcome HundredMeansOperationsDone
PROPERTIES WaitReturns
CHECK_DEADLOCK FALSE
