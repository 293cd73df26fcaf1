---------------------------- MODULE PaymentDesk ----------------------------
(***************************************************************************)
(* What is done with payments once they are recorded: payment.service.ts,  *)
(* payment.controller.ts and payment.listener.ts, with the reports of      *)
(* SalesReports over the same tables.                                      *)
(*                                                                         *)
(* A payment is verified by either of two routes; the cash desk reads the  *)
(* day's summary in five queries and stores a verification of the day,     *)
(* whose event mails the day's payments, as a job does every evening (to   *)
(* the address of the business, which is taken to be set).                 *)
(* A read of rows that are never deleted and of fields that never change   *)
(* is part of the write that follows it.  Orders are placed, moved and     *)
(* paid as OrderLifecycle has it; here only what the reports read of them. *)
(***************************************************************************)
EXTENDS SalesReports

CONSTANTS
  Orders,         \* the contents an order can have
  Requests,       \* requests and jobs that can be under way at once
  Received,       \* cash that is counted when a payment is verified
  Closings,       \* closing cash of a verification of the day, perhaps Null
  Null,           \* a column that is null
  Interruptions,  \* TRUE: a query may reject, or the process die, at any await
  MaxTick,        \* bound: the ticks of one behaviour
  MaxCalls        \* bound: the requests and jobs of one behaviour

OrderLine == [item : Nat, qty : Nat \ {0}]
Order     == [type : Types, lines : Seq(OrderLine), total : Nat, found : BOOLEAN]

ASSUME PaymentAssumption ==
  /\ Null \notin Nat
  /\ Orders \subseteq Order /\ Received \subseteq Nat /\ Closings \subseteq Nat \cup {Null}
  /\ Interruptions \in BOOLEAN /\ MaxTick \in Nat /\ MaxCalls \in Nat

VARIABLES
  tick,      \* the time
  orders,    \* the orders table
  payments,  \* the payments table
  verifies,  \* the payment_verifies table
  mails,     \* the mails that were sent
  evening,   \* the last day whose evening job has run, or -1
  req,       \* the requests, event handlers and jobs under way
  \* History variables: nothing in the code corresponds to them.
  missed,    \* those that do not know what happened since they started
  calls      \* how many requests and jobs there have been

vars == <<tick, orders, payments, verifies, mails, evening, req, missed, calls>>

-----------------------------------------------------------------------------
OrderRow == [at : Nat, status : Statuses, type : Types, lines : Seq(OrderLine),
             total : Nat, found : BOOLEAN]

\* decidedBy is history: the route that wrote the flags last.
Payment == [order : Nat, method : Methods, total : Nat, paid : Nat, at : Nat,
            verification : {"PENDING", "MATCH", "MISMATCH"}, isVerified : BOOLEAN,
            verifiedAt : Nat \cup {Null}, missMatch : BOOLEAN,
            decidedBy : {"nobody", "verify", "status"}]

DayVerify == [date : Nat, at : Nat, closing : Nat \cup {Null}]

\* label: the day the mail is said to be about; day and upTo are history: the day
\* it was made and the payments there were; crossed: it came over midnight.
Mail == [label : Nat, attached : SUBSET Nat, evening : BOOLEAN, upTo : Nat, crossed : BOOLEAN]

\* The sums of a summary; other (the sum of method OTHER), closing (that of the
\* last verification made) and tied (two share the last date) are history.
Sums == [total : Nat, cash : Nat, transfer : Nat, opening : Nat,
         other : Nat, closing : Nat, tied : BOOLEAN, missed : BOOLEAN]

NoSums == [total |-> 0, cash |-> 0, transfer |-> 0, opening |-> 0,
           other |-> 0, closing |-> 0, tied |-> FALSE, missed |-> FALSE]

Pc == {"idle", "cash", "transfer", "opening", "count", "export", "send"}

Request == [pc : Pc, from : Nat, to : Nat, sums : Sums,
            label : Nat, evening : BOOLEAN, attached : SUBSET Nat, upTo : Nat]

Idle == [pc |-> "idle", from |-> 0, to |-> 0, sums |-> NoSums,
         label |-> 0, evening |-> FALSE, attached |-> {}, upTo |-> 0]

TypeOK ==
  /\ tick \in Nat
  /\ orders \in Seq(OrderRow)
  /\ payments \in Seq(Payment)
  /\ \A k \in DOMAIN payments : payments[k].order \in DOMAIN orders
  /\ verifies \in Seq(DayVerify)
  /\ mails \in Seq(Mail)
  /\ evening \in Nat \cup {-1}
  /\ req \in [Requests -> Request]
  /\ missed \in SUBSET Requests
  /\ calls \in Nat

\* It is night, and Bangkok has the next day already.
Init ==
  /\ tick = 2 /\ evening = -1
  /\ orders = <<>> /\ payments = <<>> /\ verifies = <<>> /\ mails = <<>>
  /\ req = [r \in Requests |-> Idle]
  /\ missed = {} /\ calls = 0

-----------------------------------------------------------------------------
Today == Day(tick)

Count == calls < MaxCalls /\ calls' = calls + 1

MayStart(r) == req[r].pc = "idle" /\ Count

Go(r, state) == req' = [req EXCEPT ![r] = state]

\* createOrder, as far as the reports see it.
PlaceOrder(o) ==
  /\ Count
  /\ orders' = Append(orders, [at |-> tick, status |-> "PENDING", type |-> o.type,
                               lines |-> o.lines, total |-> o.total, found |-> o.found])
  /\ UNCHANGED <<tick, payments, verifies, mails, evening, req, missed>>

\* sendOrderToProduction and cancelOrder.
MoveOrder(n, status) ==
  /\ Count
  /\ orders[n].status = "PENDING"
  /\ orders' = [orders EXCEPT ![n].status = status]
  /\ UNCHANGED <<tick, payments, verifies, mails, evening, req, missed>>

\* submitOrderPayment: paidAt is taken before the row is sent, which takes less than a
\* day.  Two that overlap both store a payment.
RecordPayment(n, method, paid) ==
  /\ Count
  /\ orders[n].at <= paid /\ tick - 2 <= paid
  /\ Cardinality(PaymentsOf(payments, n)) < 2
  /\ payments' = Append(payments,
       [order |-> n, method |-> method, total |-> orders[n].total, paid |-> paid, at |-> tick,
        verification |-> "PENDING", isVerified |-> FALSE, verifiedAt |-> Null,
        missMatch |-> FALSE, decidedBy |-> "nobody"])
  /\ missed' = missed \cup {r \in Requests : req[r].pc \in {"cash", "transfer"}}
  /\ UNCHANGED <<tick, orders, verifies, mails, evening, req>>

-----------------------------------------------------------------------------
\* verifyPayment: a mismatch is too little cash; verificationStatus stays.
VerifyPayment(k, cash) ==
  /\ Count
  /\ payments' = [payments EXCEPT
       ![k].isVerified = TRUE, ![k].verifiedAt = tick,
       ![k].missMatch = (cash < payments[k].total), ![k].decidedBy = "verify"]
  /\ UNCHANGED <<tick, orders, verifies, mails, evening, req, missed>>

UpdateVerificationStatusMut(k, status) ==
  /\ Count
  /\ payments' = [payments EXCEPT
       ![k].verification = status, ![k].isVerified = (status # "PENDING"),
       ![k].verifiedAt = tick,
       ![k].missMatch = (status = "MISMATCH"), ![k].decidedBy = "status"]
  /\ UNCHANGED <<tick, orders, verifies, mails, evening, req, missed>>

\* updateVerificationStatus: a mismatch is what the verifier says.
UpdateVerificationStatus(k, status) ==
  /\ Count
  /\ payments' = [payments EXCEPT
       ![k].verification = status, ![k].isVerified = (status # "PENDING"),
       ![k].verifiedAt = IF status # "PENDING" THEN tick ELSE Null,
       ![k].missMatch = (status = "MISMATCH"), ![k].decidedBy = "status"]
  /\ UNCHANGED <<tick, orders, verifies, mails, evening, req, missed>>

-----------------------------------------------------------------------------
\* getTodayPaymentsSummary.  The range is fixed first; then, one query each, the
\* payments in all, those in cash, those by transfer, ...
OfMethod(method, from, to) == {k \in Rows(payments, from, to) : payments[k].method = method}

SummaryTotal(r, from, to) ==
  /\ MayStart(r)
  /\ Go(r, [Idle EXCEPT
              !.pc = "cash", !.from = from, !.to = to,
              !.sums.total = Earned(payments, Rows(payments, from, to)),
              !.sums.other = Earned(payments, OfMethod("OTHER", from, to))])
  /\ missed' = missed \ {r}
  /\ UNCHANGED <<tick, orders, payments, verifies, mails, evening>>

SummaryCash(r) ==
  /\ req[r].pc = "cash"
  /\ Go(r, [req[r] EXCEPT !.pc = "transfer",
              !.sums.cash = Earned(payments, OfMethod("CASH", req[r].from, req[r].to))])
  /\ UNCHANGED <<tick, orders, payments, verifies, mails, evening, missed>>

SummaryTransferMut(r) ==
  /\ req[r].pc = "transfer"
  /\ Go(r, [req[r] EXCEPT !.pc = "opening", !.sums.missed = r \in missed,
              !.sums.transfer = Earned(payments, Rows(payments, req[r].from, req[r].to)
                                          \ OfMethod("CASH", req[r].from, req[r].to))])
  /\ UNCHANGED <<tick, orders, payments, verifies, mails, evening, missed>>

SummaryTransfer(r) ==
  /\ req[r].pc = "transfer"
  /\ Go(r, [req[r] EXCEPT !.pc = "opening", !.sums.missed = r \in missed,
              !.sums.transfer = Earned(payments, OfMethod("TRANSFER", req[r].from, req[r].to))])
  /\ UNCHANGED <<tick, orders, payments, verifies, mails, evening, missed>>

\* ... the opening cash, from a verification with the latest date: date has no
\* time, and which of a day's verifications comes first is left to the database.
Latest == {v \in DOMAIN verifies : \A w \in DOMAIN verifies : verifies[w].date <= verifies[v].date}

ClosingOrZero(v) == IF verifies[v].closing = Null THEN 0 ELSE verifies[v].closing

OpeningCashMut(v) == verifies[v].closing
OpeningCash(v) == ClosingOrZero(v)

EarliestDate == {v \in DOMAIN verifies : \A w \in DOMAIN verifies : verifies[v].date <= verifies[w].date}

SummaryOpeningMut(r) ==
  /\ req[r].pc = "opening"
  /\ \E opening \in IF verifies = <<>> THEN {0} ELSE {OpeningCash(v) : v \in EarliestDate} :
       Go(r, [req[r] EXCEPT
                !.pc = "count", !.sums.opening = opening,
                !.sums.closing = IF verifies = <<>> THEN 0 ELSE ClosingOrZero(Len(verifies)),
                !.sums.tied = (Cardinality(Latest) > 1)])
  /\ UNCHANGED <<tick, orders, payments, verifies, mails, evening, missed>>

SummaryOpening(r) ==
  /\ req[r].pc = "opening"
  /\ \E opening \in IF verifies = <<>> THEN {0} ELSE {OpeningCash(v) : v \in Latest} :
       Go(r, [req[r] EXCEPT
                !.pc = "count", !.sums.opening = opening,
                !.sums.closing = IF verifies = <<>> THEN 0 ELSE ClosingOrZero(Len(verifies)),
                !.sums.tied = (Cardinality(Latest) > 1)])
  /\ UNCHANGED <<tick, orders, payments, verifies, mails, evening, missed>>

\* ... and how many verifications there are already; then the answer.
SummaryCount(r) ==
  /\ req[r].pc = "count"
  /\ Go(r, Idle) /\ missed' = missed \ {r}
  /\ UNCHANGED <<tick, orders, payments, verifies, mails, evening>>

-----------------------------------------------------------------------------
\* createTodayPaymentVerify, and the event: r goes on as its handler, which will
\* mail the payments under the date of the verification.
VerifyDay(r, closing) ==
  /\ MayStart(r)
  /\ verifies' = Append(verifies, [date |-> Today, at |-> tick, closing |-> closing])
  /\ Go(r, [Idle EXCEPT !.pc = "export", !.label = Today])
  /\ missed' = missed \ {r}
  /\ UNCHANGED <<tick, orders, payments, mails, evening>>

\* handleMidnightPaymentReport: once a day, at 23:00.
EveningReport(r) ==
  /\ MayStart(r) /\ tick % 3 = 2 /\ evening < Today
  /\ evening' = Today
  /\ Go(r, [Idle EXCEPT !.pc = "export", !.evening = TRUE])
  /\ missed' = missed \ {r}
  /\ UNCHANGED <<tick, orders, payments, verifies, mails>>

ExportMut(r) ==
  /\ req[r].pc = "export"
  /\ Go(r, [req[r] EXCEPT !.pc = "send", !.attached = PaymentList(payments, Today, Today),
              !.label = IF req[r].evening THEN Today ELSE @, !.upTo = Len(payments)])
  /\ UNCHANGED <<tick, orders, payments, verifies, mails, evening, missed>>

\* exportTodayPaymentsToExcel: the payments of the day it is by then.  The job
\* takes the date of its mail from the clock after that.
Export(r) ==
  /\ req[r].pc = "export"
  /\ Go(r, [req[r] EXCEPT !.pc = "send", !.attached = Rows(payments, Today, Today),
              !.label = IF req[r].evening THEN Today ELSE @, !.upTo = Len(payments)])
  /\ UNCHANGED <<tick, orders, payments, verifies, mails, evening, missed>>

Send(r) ==
  /\ req[r].pc = "send"
  /\ mails' = Append(mails, [label |-> req[r].label, attached |-> req[r].attached,
                             evening |-> req[r].evening, upTo |-> req[r].upTo,
                             crossed |-> r \in missed])
  /\ Go(r, Idle) /\ missed' = missed \ {r}
  /\ UNCHANGED <<tick, orders, payments, verifies, evening>>

-----------------------------------------------------------------------------
\* Midnight passes an event handler that has not read the payments yet.
Tick ==
  /\ tick < MaxTick /\ tick' = tick + 1
  /\ missed' = IF Day(tick') = Today THEN missed
               ELSE missed \cup {r \in Requests : req[r].pc = "export" /\ ~req[r].evening}
  /\ UNCHANGED <<orders, payments, verifies, mails, evening, req, calls>>

\* The handler and the job catch what they threw; a summary fails.
Interrupt(r) ==
  /\ Interruptions /\ req[r].pc # "idle"
  /\ Go(r, Idle) /\ missed' = missed \ {r}
  /\ UNCHANGED <<tick, orders, payments, verifies, mails, evening>>

Start(r) ==
  \/ \E from, to \in 0..Today : from <= to /\ SummaryTotal(r, from, to)
  \/ \E closing \in Closings : VerifyDay(r, closing)
  \/ EveningReport(r)

Step(r) == \/ SummaryCash(r) \/ SummaryTransfer(r) \/ SummaryOpening(r) \/ SummaryCount(r)
           \/ Export(r) \/ Send(r) \/ Interrupt(r)

Next ==
  \/ \E o \in Orders : PlaceOrder(o)
  \/ \E n \in DOMAIN orders : \/ \E s \in {"PROCESSING", "CANCELLED"} : MoveOrder(n, s)
                              \/ \E m \in Methods, paid \in 0..tick : RecordPayment(n, m, paid)
  \/ \E k \in DOMAIN payments :
       \/ \E cash \in Received : VerifyPayment(k, cash)
       \/ \E s \in {"PENDING", "MATCH", "MISMATCH"} : UpdateVerificationStatus(k, s)
  \/ \E r \in Requests : Start(r) \/ (Step(r) /\ UNCHANGED calls)
  \/ Tick

Spec == Init /\ [][Next]_vars

-----------------------------------------------------------------------------
(***************************************************************************)
(* Correctness.                                                            *)
(***************************************************************************)

\* The three records of a verification agree: what has a status other than
\* PENDING is verified, what is verified says when, and a mismatch is marked as
\* one, unless verifyPayment, which leaves the status alone, wrote last.
FlagsAgree ==
  \A k \in DOMAIN payments :
    LET p == payments[k]
    IN /\ p.isVerified <=> p.verifiedAt # Null
       /\ p.verification # "PENDING" => p.isVerified
       /\ p.decidedBy # "verify" =>
            /\ p.missMatch <=> p.verification = "MISMATCH"
            /\ p.isVerified <=> p.verification # "PENDING"

\* The summary of the cash desk adds up: cash, transfers and what was paid
\* otherwise are the total, unless a payment came in between its queries.
SummaryAddsUp ==
  \A r \in Requests : req[r].pc \in {"opening", "count"} =>
    LET sums == req[r].sums
    IN sums.missed \/ sums.total = sums.cash + sums.transfer + sums.other

\* The opening cash it shows is the closing cash of the verification made last,
\* unless the last two were made on one day.
OpeningIsLastClosing ==
  \A r \in Requests : req[r].pc = "count" =>
    req[r].sums.tied \/ req[r].sums.opening = req[r].sums.closing

\* A mail about a day holds the payments of that day that were there when it was
\* made, and no others, unless midnight passed between a verification and the
\* moment its handler read the payments.
MailsHoldTheirDay ==
  \A i \in DOMAIN mails :
    mails[i].crossed \/ mails[i].attached = {k \in Rows(payments, mails[i].label, mails[i].label) :
                                               k <= mails[i].upTo}

RangesTo(today) == {w \in (0..today) \X (0..today) : w[1] <= w[2]}

\* The figures of the dashboard agree with each other: the revenue is that of the
\* days it is broken down to; the hours (all day long) and the types hold the same
\* orders; an item is sold as often as the paid orders hold it, unless one of them
\* was paid twice; a payment counts in the period or in the one before it, unless it
\* was made at the first instant of the period; and none of the paid orders is on the
\* list of the unpaid ones, unless a search has found it.
DashboardAgrees ==
  \A w \in RangesTo(BangkokDay(tick)) :
    LET from == w[1]  to == w[2]
        sales == SalesOverTime(orders, payments, from, to)
        all   == Overview(payments, from, to)
        paid  == PaidOrders(orders, payments, from, to)
        hours == OrdersPerHour(orders, payments, <<>>, from, to)
        types == TypeBreakdown(orders, payments, from, to)
    IN /\ all.revenue = SumOf(DOMAIN sales, LAMBDA d : sales[d].revenue)
       /\ all.orders = SumOf(DOMAIN sales, LAMBDA d : sales[d].orders)
       /\ hours[0] + hours[1] + hours[2] = types["DINE_IN"] + types["TAKEAWAY"]
       /\ \/ \E n \in paid : Cardinality(PaymentsOf(payments, n)) > 1
          \/ \A item \in {1, 2} : TopSelling(orders, payments, from, to, item)
                                    = SumOf(paid, LAMBDA n : Units(orders[n], item))
       /\ \A k \in Previous(payments, from, to) \cap PaidIn(payments, from, to) :
            payments[k].paid = BangkokStart(from)
       /\ \A search \in BOOLEAN : \A n \in paid \cap OrderList(orders, payments, TRUE, search) :
            search /\ orders[n].found

\* The metrics above the list of payments against the dashboard, which has another
\* calendar.  What was earned today is the dashboard's revenue of the same date, and
\* what was earned yesterday that of yesterday's unless one of its payments has been
\* verified, unless something of the day on either calendar was paid in the night.
\* While the dates are the same, the dashboard's today leaves out none of today's
\* earnings; in the night, when it is the next day, it holds nothing else.
EarningsAgree ==
  LET metrics == Metrics(payments, Today)
      Revenue(day) == Overview(payments, day, day).revenue
      InTheNight(day) == \E k \in PaidIn(payments, day, day) \cup Rows(payments, day, day) :
                           Night(payments[k].paid)
      Checked(day) == \E k \in Rows(payments, day, day) : payments[k].verification # "PENDING"
  IN /\ InTheNight(Today) \/ metrics.todayEarning = Revenue(Today)
     /\ InTheNight(Today - 1) \/ Checked(Today - 1) \/ metrics.yesterdayEarning = Revenue(Today - 1)
     /\ ~Night(tick) => metrics.todayEarning <= Revenue(BangkokDay(tick))
     /\ Night(tick) => Revenue(BangkokDay(tick)) <= metrics.todayEarning

\* The reports agree: what the report by status counts and the report by type does
\* not are the cancelled orders, its types hold every order it counts, a top
\* seller is never sold more often than orders hold it, and the list for production
\* holds what the report by status counts as neither pending nor cancelled.
ReportsAgree ==
  \A w \in RangesTo(Today) :
    LET status == StatusReport(orders, w[1], w[2])
        types  == TypesReport(orders, w[1], w[2])
    IN /\ status.orders = types.orders + status.byStatus["CANCELLED"]
       /\ types.orders = types.byType["DINE_IN"] + types.byType["TAKEAWAY"]
       /\ \A item \in {1, 2} :
            TopSellers(orders, w[1], w[2], item)
              <= SumOf(Rows(orders, w[1], w[2]), LAMBDA n : Units(orders[n], item))
       /\ Cardinality(Rows(orders, w[1], w[2]) \cap ProductionList(orders, payments, FALSE, FALSE))
            = status.orders - status.byStatus["PENDING"] - status.byStatus["CANCELLED"]

\* The figures of the dashboard agree with each other, and so do those of the reports: the
\* same orders and payments, by one calendar, through different queries.
ReportsReconcile == DashboardAgrees /\ ReportsAgree

=============================================================================
