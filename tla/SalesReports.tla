--------------------------- MODULE SalesReports ---------------------------
(***************************************************************************)
(* What the screens and reports read from the tables of orders and         *)
(* payments: the lists of order.service.ts and payment.service.ts, the     *)
(* dashboard of analytics.service.ts and the reports of                    *)
(* reporting.service.ts.  Every operator is one query (or the queries of   *)
(* one answer) over tables given as sequences.                             *)
(*                                                                         *)
(* There are two calendars.  The lists, the metrics and the reports take   *)
(* the days of the server, whose clock is UTC (no image or composition     *)
(* sets another); the dashboard takes those of Bangkok, seven hours ahead. *)
(* Time is counted in ticks, three a day of the server: tick 3 * d is the  *)
(* day up to 17:00, when the two calendars name the same day; the next is  *)
(* 17:00, midnight in Bangkok, to the millisecond; the last the rest of    *)
(* the day.                                                                *)
(***************************************************************************)
EXTENDS Integers, Sequences, FiniteSetsExt

Statuses == {"PENDING", "PENDING_PROCESSING", "PROCESSING", "READY", "PICKED_UP", "CANCELLED"}
Types    == {"DINE_IN", "TAKEAWAY"}
Methods  == {"CASH", "TRANSFER", "OTHER"}

\* setHours(0, 0, 0, 0) and setHours(23, 59, 59, 999) of a day.
Day(tick)       == tick \div 3
StartOfDay(day) == 3 * day
EndOfDay(day)   == 3 * day + 2

\* parseDateAsLocal of a date, as its start and as its end.
BangkokDay(tick)    == (tick + 2) \div 3
BangkokStart(day)   == 3 * day - 2
BangkokEnd(day)     == 3 * day
BangkokHour(tick)   == (tick + 2) % 3

\* The hours in which Bangkok is a day ahead of the server.
Night(tick) == BangkokDay(tick) # Day(tick)

\* getDateRange of reporting.service.ts, and the ranges of payment.service.ts: the
\* tick is in the range from..to of days.
InRange(tick, from, to) == StartOfDay(from) <= tick /\ tick <= EndOfDay(to)

\* getDateRange of analytics.service.ts.
InBangkokRange(tick, from, to) == BangkokStart(from) <= tick /\ tick <= BangkokEnd(to)

\* The rows of a table that were created in a range.
Rows(table, from, to) == {n \in DOMAIN table : InRange(table[n].at, from, to)}

\* ... in a range of the dashboard, and the payments that were paid in one: paidAt is
\* when the server made the row, createdAt when the database stored it.
BangkokRows(table, from, to) == {n \in DOMAIN table : InBangkokRange(table[n].at, from, to)}
PaidIn(payments, from, to) == {k \in DOMAIN payments : InBangkokRange(payments[k].paid, from, to)}

SumOf(S, F(_)) == SumFunctionOnSet([x \in S |-> F(x)], S)

-----------------------------------------------------------------------------
\* A payment of order n; every payment is stored as PAID.
PaymentsOf(payments, n) == {k \in DOMAIN payments : payments[k].order = n}

\* The filter paymentStatus = PENDING, and a search, both of which go into
\* where.OR: they widen each other.
Filtered(orders, payments, unpaid, search) ==
  {n \in DOMAIN orders :
     (unpaid \/ search) => \/ unpaid /\ PaymentsOf(payments, n) = {}
                           \/ search /\ orders[n].found}

\* getAllOrders and getAllProductionOrders.
OrderList(orders, payments, unpaid, search) == Filtered(orders, payments, unpaid, search)

ProductionList(orders, payments, unpaid, search) ==
  {n \in Filtered(orders, payments, unpaid, search) :
     orders[n].status \notin {"CANCELLED", "PENDING"}}

\* getAllPayments: what is left to verify.
PaymentList(payments, from, to) ==
  {k \in Rows(payments, from, to) : payments[k].verification = "PENDING"}

Earned(payments, S) == SumOf(S, LAMBDA k : payments[k].total)

MetricsMut(payments, today) ==
  [todayEarning     |-> Earned(payments, PaymentList(payments, today, today)),
   yesterdayEarning |-> Earned(payments, PaymentList(payments, today - 1, today - 1))]

\* getPaymentMetrics: today's earnings are compared with those of yesterday
\* that are still to be verified.
Metrics(payments, today) ==
  [todayEarning     |-> Earned(payments, Rows(payments, today, today)),
   yesterdayEarning |-> Earned(payments, PaymentList(payments, today - 1, today - 1))]

-----------------------------------------------------------------------------
\* getDashboardOverview.
OverviewMut(payments, from, to) ==
  LET paid == BangkokRows(payments, from, to)
  IN [revenue |-> Earned(payments, paid), orders |-> Cardinality({payments[k].order : k \in paid})]
Overview(payments, from, to) ==
  LET paid == PaidIn(payments, from, to)
  IN [revenue |-> Earned(payments, paid), orders |-> Cardinality({payments[k].order : k \in paid})]

\* Its previous period: floor(to - from) days, up to and with the first instant
\* of the period itself.
Previous(payments, from, to) ==
  {k \in DOMAIN payments : /\ BangkokStart(from - (to - from)) <= payments[k].paid
                           /\ payments[k].paid <= BangkokStart(from)}

\* getSalesOverTime: what was paid in the range, by the day of the order.
SalesOverTime(orders, payments, from, to) ==
  LET paid == PaidIn(payments, from, to)
      On(day) == {k \in paid : BangkokDay(orders[payments[k].order].at) = day}
  IN [day \in {BangkokDay(orders[payments[k].order].at) : k \in paid} |->
        [revenue |-> Earned(payments, On(day)),
         orders  |-> Cardinality({payments[k].order : k \in On(day)})]]

\* Orders of the range joined with their payments: an order as often as it was paid.
Units(order, item) ==
  SumOf(DOMAIN order.lines, LAMBDA m : IF order.lines[m].item = item THEN order.lines[m].qty ELSE 0)

\* getTopSellingItems, and the items of getSalesReport.
TopSelling(orders, payments, from, to, item) ==
  SumOf(BangkokRows(orders, from, to),
        LAMBDA n : Cardinality(PaymentsOf(payments, n)) * Units(orders[n], item))

PaidOrders(orders, payments, from, to) ==
  {n \in BangkokRows(orders, from, to) : PaymentsOf(payments, n) # {}}

\* getOrderTypeBreakdown, and the breakdown of getSalesReport.
TypeBreakdown(orders, payments, from, to) ==
  [type \in Types |-> Cardinality({n \in PaidOrders(orders, payments, from, to) : orders[n].type = type})]

\* getOrdersPerHour: the hours, here the ticks of a day, in which the business is
\* open on a day of the range; all of them when no hours are stored.
AllowedHours(hours, from, to) ==
  IF hours = <<>> THEN {0, 1, 2}
  ELSE UNION {hours[(d % Len(hours)) + 1].start .. hours[(d % Len(hours)) + 1].end : d \in from..to}

OrdersPerHour(orders, payments, hours, from, to) ==
  [h \in AllowedHours(hours, from, to) |->
     Cardinality({n \in PaidOrders(orders, payments, from, to) : BangkokHour(orders[n].at) = h})]

-----------------------------------------------------------------------------
\* reporting.getSalesReport: every order, cancelled and unpaid ones too.
StatusReport(orders, from, to) ==
  LET rows == Rows(orders, from, to)
  IN [orders  |-> Cardinality(rows), revenue |-> SumOf(rows, LAMBDA n : orders[n].total),
      byStatus |-> [s \in Statuses |-> Cardinality({n \in rows : orders[n].status = s})]]

\* getOrderTypesReport: every order but the cancelled ones.
TypesReport(orders, from, to) ==
  LET rows == {n \in Rows(orders, from, to) : orders[n].status # "CANCELLED"}
  IN [orders |-> Cardinality(rows),
      byType |-> [t \in Types |-> Cardinality({n \in rows : orders[n].type = t})]]

\* getTopSellers: every line of every order that is not cancelled.
TopSellers(orders, from, to, item) ==
  SumOf({n \in Rows(orders, from, to) : orders[n].status # "CANCELLED"},
        LAMBDA n : Units(orders[n], item))
=============================================================================
