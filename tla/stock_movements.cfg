SPECIFICATION Spec
CONSTANTS
  i1 = i1
  i2 = i2
  Items = {i1, i2}
  Requests = {r1, r2}
  Quantities = {0, 2}
  Amounts = {1}
  Sales <- MCSales
  NoItem = NoItem
  Interruptions = TRUE
  MaxCalls = 4
INVARIANTS
  TypeOK
  LogChain
  QtyIsLastClosing
  ReportBalances
  PaidOrdersAreMoved
\* The calls are bounded: after the last one nothing happens any more.
CHECK_DEADLOCK FALSE
SYMMETRY RequestSymmetry
