SPECIFICATION Spec
CONSTANTS
  Orders = {o1}
  Requests = {r1, r2}
  Carts <- MCCarts
  AdjustmentLists <- MCAdjustmentLists
  NoOrder = NoOrder
  OneAtATime = FALSE
  Scale = 10000
  Err = 1
  Interruptions = TRUE
INVARIANTS
  TypeOK
  ReferencesResolve
  PriceIsConsistent
  LinesMatchSubtotal
  ReadsAndChecksHold
  PaidPendingIsInFlight
  EveryPaymentAnnounced
PROPERTIES
  PaidOrderLostOnlyToRace
  CancellationOnlyRaces
\* Order ids are bounded: when every order is deleted nothing is left to call.
CHECK_DEADLOCK FALSE
SYMMETRY RequestSymmetry
