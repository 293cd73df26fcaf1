SPECIFICATION Spec
CONSTANTS
  Users = {u1, u2}
  Requests = {r1, r2}
  Closings <- MCClosings
  Null = Null
  Scale = 10
  Interruptions = TRUE
  MaxDay = 2
  MaxCalls = 5
INVARIANTS
  TypeOK
  OneOpenShiftADay
  CurrentIsTheOneOpened
  DiscrepancyHolds
  CountsStand
\* The calls are bounded: after the last one nothing happens any more.
CHECK_DEADLOCK FALSE
SYMMETRY Symmetry
