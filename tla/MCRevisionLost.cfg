SPECIFICATION SpecRevision
CONSTANTS
  MaxBuilds = 5
  MaxCrashes = 3
INVARIANT BinaryKept
