CONSTANTS
  HighBit = 128
  FieldPolyLow = 29
  CodewordLen = 31
  DefaultBatchRounds = 2
  BlockBytes = 2
  MaxInt = 1048575
  Inputs <- MCInputs
  Old = Old
SPECIFICATION Spec
INVARIANTS RegistersAreRemainders ParityIsTheReference CodewordsAreFarApart
CHECK_DEADLOCK FALSE
