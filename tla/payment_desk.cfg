SPECIFICATION Spec
CONSTANTS
  Orders <- MCOrders
  Requests = {r1, r2}
  Received = {4}
  Closings = {Null, 7}
  Null = Null
  Interruptions = TRUE
  MaxTick = 4
  MaxCalls = 4
INVARIANTS
  TypeOK
  FlagsAgree
  SummaryAddsUp
  OpeningIsLastClosing
  MailsHoldTheirDay
  EarningsAgree
  ReportsReconcile
\* The calls are bounded: after the last one nothing happens any more.
CHECK_DEADLOCK FALSE
SYMMETRY RequestSymmetry
