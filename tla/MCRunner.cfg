SPECIFICATION Spec
CONSTANTS
  Suites <- Tried
  Workers = {w1, w2}
INVARIANTS PassedIsRight ReportIsWhole
PROPERTY RunEnds
CHECK_DEADLOCK FALSE
