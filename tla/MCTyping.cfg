SPECIFICATION Spec
CONSTANTS
  Width <- Widths
  MaxStars = 2
  Programs <- Lists
  Samples <- Values
  Mentioned <- Named
INVARIANTS TypesAgree Computes  InferredHolds
CHECK_DEADLOCK FALSE
