SPECIFICATION FairSpec
CONSTANTS
  Drivers = {"d1", "d2"}
  Sources <- Simple
  Objects = {}
  MaxObjects = 0
  MaxFiles = 1
  Jobs = 1
  TempNames = {"tmp"}
  Keep = {FALSE}
INVARIANT SuccessIsRight
INVARIANT NothingLeft
PROPERTY DriversEnd
