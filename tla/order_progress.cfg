SPECIFICATION FairSpec
CONSTANTS
  Orders = {o1}
  Requests = {r1, r2}
  Carts <- OneCart
  AdjustmentLists <- NoAdjustments
  NoOrder = NoOrder
  OneAtATime = FALSE
  Scale = 10000
  Err = 1
  Interruptions = TRUE
PROPERTIES
  PaidOrderLeavesPending
\* Order ids are bounded: when every order is deleted nothing is left to call.
CHECK_DEADLOCK FALSE
