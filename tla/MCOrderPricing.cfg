SPECIFICATION Spec
CONSTANTS
  MaxLines = 2
  MaxAdjustments = 3
  Scale = 100000
  Err = 1
INVARIANTS
  ListOrderMovesACent
  TotalIsRoundedOnce
\* The inputs are built up to their bounds and then the behaviour ends.
CHECK_DEADLOCK FALSE
