SPECIFICATION Spec
CONSTANTS
  Drivers = {"d1"}
  Sources <- Clashing
  Objects <- Lib
  MaxObjects = 1
  MaxFiles = 3
  Jobs = 2
  TempNames = {}
  Keep = {TRUE, FALSE}
INVARIANT SuccessIsRight
INVARIANT FailureIsReported
