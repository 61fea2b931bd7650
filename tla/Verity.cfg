CONSTANTS
  MaxInt = 255
  BlockSize = 8
  Parts <- MCParts
  DigestLen <- MCDigestLen
  NoFecs = {FALSE, TRUE}
  MinFecRoots = 2
  MaxFecRoots = 3
  CodewordLen = 5
  DefaultBatchRounds = 2
  BlockBytes = 8
SPECIFICATION Spec
INVARIANTS TreeFillsItsExtent WritesAreApart AcceptedFecIsValid OutcomeMatchesImage
PROPERTIES Terminates
CHECK_DEADLOCK FALSE
