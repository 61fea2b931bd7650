CONSTANTS
  MaxInt = 15
  BlockSize = 2
  Jobs <- MCJobs
  Buffer = 3
  MaxInMemory = 10
  Faults = TRUE
SPECIFICATION Spec
INVARIANTS ImageIsAsOrdered GapsStayInTheImage HashesGuardTheImage SuccessFillsDestinations
PROPERTIES Terminates
CHECK_DEADLOCK FALSE
