--------------------------- MODULE PaymentProofs ---------------------------
(***************************************************************************)
(* Theorems about PaymentDesk, for any orders and amounts, any number of   *)
(* requests, event handlers and jobs, overlapping and interrupted at will. *)
(* The sums are those of SumProofs; that the summary adds up is kept by    *)
(* the queries under way, the dashboard and the reports follow from the    *)
(* types of the tables alone.                                              *)
(***************************************************************************)
EXTENDS PaymentDesk, SumProofs

(***************************************************************************)
(* The tables.                                                             *)
(***************************************************************************)

\* The part of the type invariant that does not need the types of the sums.
SumFields     == {"total", "cash", "transfer", "opening", "other", "closing", "tied", "missed"}
RequestFields == {"pc", "from", "to", "sums", "label", "evening", "attached", "upTo"}

Tables == /\ tick \in Nat
          /\ orders \in Seq(OrderRow) /\ payments \in Seq(Payment)
          /\ \A k \in DOMAIN payments : payments[k].order \in DOMAIN orders
          /\ verifies \in Seq(DayVerify) /\ mails \in Seq(Mail)

RequestLike(q) == /\ DOMAIN q = RequestFields /\ DOMAIN q.sums = SumFields
                  /\ q.label \in Nat /\ q.upTo \in Nat
                  /\ q.attached \subseteq Nat /\ q.evening \in BOOLEAN

Shape == /\ Tables
         /\ DOMAIN req = Requests /\ \A r \in Requests : RequestLike(req[r])
         /\ missed \subseteq Requests

\* What an append does to a sequence.
LEMMA Appended ==
  ASSUME NEW S, NEW s \in Seq(S), NEW e \in S
  PROVE  /\ Append(s, e) \in Seq(S) /\ Len(Append(s, e)) = Len(s) + 1
         /\ DOMAIN Append(s, e) = 1..(Len(s) + 1) /\ DOMAIN s = 1..Len(s) /\ Len(s) \in Nat
         /\ Append(s, e)[Len(s) + 1] = e
         /\ \A k \in 1..Len(s) : Append(s, e)[k] = s[k]
  OBVIOUS

LEMMA PaymentFields ==
  ASSUME NEW p \in Payment
  PROVE  /\ p.order \in Nat /\ p.paid \in Nat /\ p.at \in Nat /\ p.total \in Nat
         /\ p.verification \in {"PENDING", "MATCH", "MISMATCH"}
         /\ p.isVerified \in BOOLEAN /\ p.verifiedAt \in Nat \cup {Null}
         /\ p.missMatch \in BOOLEAN /\ p.decidedBy \in {"nobody", "verify", "status"}
  BY DEF Payment

LEMMA TodayType == ASSUME tick \in Nat PROVE Today \in Nat
  BY DEF Today, Day

LEMMA IdleShape ==
  RequestLike(Idle) /\ Idle.pc = "idle"
  BY DEF RequestLike, Idle, NoSums, RequestFields, SumFields

LEMMA PlaceTables ==
  ASSUME Tables, NEW o \in Orders, PlaceOrder(o) PROVE Tables'
<1>. DEFINE row == [at |-> tick, status |-> "PENDING", type |-> o.type,
                    lines |-> o.lines, total |-> o.total, found |-> o.found]
<1>1. row \in OrderRow BY PaymentAssumption DEF Tables, Order, OrderRow, Statuses
<1>2. orders' = Append(orders, row) /\ UNCHANGED <<tick, payments, verifies, mails>> BY DEF PlaceOrder
<1>. HIDE DEF row
<1>. QED BY <1>1, <1>2, Appended DEF Tables

LEMMA MoveTables ==
  ASSUME Tables, NEW n \in DOMAIN orders, NEW s \in {"PROCESSING", "CANCELLED"}, MoveOrder(n, s)
  PROVE  Tables'
<1>. DEFINE row == [orders[n] EXCEPT !.status = s]
<1>1. orders[n] \in OrderRow BY DEF Tables
<1>2. row \in OrderRow BY <1>1 DEF OrderRow, Statuses
<1>3. orders' = [orders EXCEPT ![n] = row] /\ UNCHANGED <<tick, payments, verifies, mails>>
  BY DEF MoveOrder
<1>. HIDE DEF row
<1>. QED BY <1>2, <1>3 DEF Tables

\* The payment that submitOrderPayment stores.
NewPayment(n, method, paid) ==
  [order |-> n, method |-> method, total |-> orders[n].total, paid |-> paid, at |-> tick,
   verification |-> "PENDING", isVerified |-> FALSE, verifiedAt |-> Null,
   missMatch |-> FALSE, decidedBy |-> "nobody"]

LEMMA NewPaymentType ==
  ASSUME Tables, NEW n \in DOMAIN orders, NEW method \in Methods, NEW paid \in Nat
  PROVE  NewPayment(n, method, paid) \in Payment
<1>1. orders[n] \in OrderRow /\ n \in Nat BY DEF Tables
<1>2. orders[n].total \in Nat BY <1>1 DEF OrderRow
<1>. QED BY <1>1, <1>2 DEF Tables, NewPayment, Payment

LEMMA RecordTables ==
  ASSUME Tables, NEW n \in DOMAIN orders, NEW method \in Methods, NEW paid \in Nat,
         RecordPayment(n, method, paid)
  PROVE  Tables'
<1>. DEFINE p == NewPayment(n, method, paid)
<1>1. p \in Payment /\ p.order = n BY NewPaymentType DEF NewPayment
<1>2. payments' = Append(payments, p) /\ UNCHANGED <<tick, orders, verifies, mails>>
  BY DEF RecordPayment, NewPayment
<1>. HIDE DEF p
<1>3. payments \in Seq(Payment) BY DEF Tables
<1>. QED BY <1>1, <1>2, <1>3, Appended DEF Tables

\* The payment after either route of verification.
Verified(k, cash) ==
  [payments[k] EXCEPT !.isVerified = TRUE, !.verifiedAt = tick,
                      !.missMatch = (cash < payments[k].total), !.decidedBy = "verify"]

Decided(k, status) ==
  [payments[k] EXCEPT !.verification = status, !.isVerified = (status # "PENDING"),
                      !.verifiedAt = IF status # "PENDING" THEN tick ELSE Null,
                      !.missMatch = (status = "MISMATCH"), !.decidedBy = "status"]

LEMMA VerifiedEffect ==
  ASSUME Tables, NEW k \in DOMAIN payments, NEW cash
  PROVE  LET p == Verified(k, cash)
         IN /\ p \in Payment /\ p.order = payments[k].order
            /\ p.at = payments[k].at /\ p.paid = payments[k].paid
            /\ p.total = payments[k].total /\ p.method = payments[k].method
            /\ p.isVerified /\ p.verifiedAt = tick /\ p.decidedBy = "verify"
<1>1. payments[k] \in Payment /\ tick \in Nat BY DEF Tables
<1>2. (cash < payments[k].total) \in BOOLEAN OBVIOUS
<1>. QED BY <1>1, <1>2 DEF Verified, Payment

LEMMA DecidedEffect ==
  ASSUME Tables, NEW k \in DOMAIN payments, NEW status \in {"PENDING", "MATCH", "MISMATCH"}
  PROVE  LET p == Decided(k, status)
         IN /\ p \in Payment /\ p.order = payments[k].order
            /\ p.at = payments[k].at /\ p.paid = payments[k].paid
            /\ p.total = payments[k].total /\ p.method = payments[k].method
            /\ p.verification = status /\ p.isVerified = (status # "PENDING")
            /\ p.verifiedAt = IF status # "PENDING" THEN tick ELSE Null
            /\ p.missMatch = (status = "MISMATCH")
<1>1. payments[k] \in Payment /\ tick \in Nat BY DEF Tables
<1>2. (status # "PENDING") \in BOOLEAN /\ (status = "MISMATCH") \in BOOLEAN OBVIOUS
<1>. QED BY <1>1, <1>2 DEF Decided, Payment

-----------------------------------------------------------------------------
(***************************************************************************)
(* The strengthening.                                                      *)
(***************************************************************************)

\* The verifications of the day are stored in the order of their dates.
DatesGrow ==
  \A v, w \in DOMAIN verifies :
    /\ v <= w => verifies[v].date <= verifies[w].date
    /\ verifies[v].date <= Today

\* The payments of a day, of the first so many.
Dayed(table, label, upTo) == {k \in Rows(table, label, label) : k <= upTo}

\* A mail under way is about today, until it has its payments; then it has those of
\* the day it is about.
InFlight ==
  \A r \in Requests :
    LET q == req[r]
    IN /\ q.upTo <= Len(payments)
       /\ r \notin missed =>
            /\ q.pc = "export" /\ ~q.evening => q.label = Today
            /\ q.pc = "send" => q.attached = Dayed(payments, q.label, q.upTo)

MailsBounded == \A i \in DOMAIN mails : mails[i].upTo <= Len(payments)

IInv == /\ Shape /\ FlagsAgree /\ DatesGrow /\ OpeningIsLastClosing
        /\ InFlight /\ MailsBounded /\ MailsHoldTheirDay

-----------------------------------------------------------------------------
\* A payment keeps its place and its time, and others come after it.
Grown == /\ Len(payments) <= Len(payments')
         /\ \A k \in DOMAIN payments : payments'[k].at = payments[k].at

LEMMA DayedKept ==
  ASSUME Tables, Tables', Grown, NEW label, NEW n \in Nat, n <= Len(payments)
  PROVE  Dayed(payments', label, n) = Dayed(payments, label, n)
<1>1. /\ DOMAIN payments = 1..Len(payments) /\ DOMAIN payments' = 1..Len(payments')
      /\ Len(payments) \in Nat /\ Len(payments') \in Nat
  BY DEF Tables
<1>2. \A k \in 1..n : k \in DOMAIN payments /\ k \in DOMAIN payments' BY <1>1 DEF Grown
<1>. QED BY <1>1, <1>2 DEF Dayed, Rows, Grown

LEMMA TablesParts ==
  ASSUME Tables
  PROVE  /\ tick \in Nat /\ Today \in Nat /\ payments \in Seq(Payment) /\ Len(payments) \in Nat
         /\ DOMAIN payments = 1..Len(payments) /\ mails \in Seq(Mail) /\ verifies \in Seq(DayVerify)
  BY TodayType DEF Tables

\* The flags of one payment.
FlagsFine(p) == /\ p.isVerified <=> p.verifiedAt # Null
                /\ p.verification # "PENDING" => p.isVerified
                /\ p.decidedBy # "verify" =>
                     /\ p.missMatch <=> p.verification = "MISMATCH"
                     /\ p.isVerified <=> p.verification # "PENDING"

LEMMA FlagsAll == FlagsAgree <=> \A k \in DOMAIN payments : FlagsFine(payments[k])
  BY DEF FlagsAgree, FlagsFine

LEMMA FlagsAllNext == (\A k \in DOMAIN payments' : FlagsFine(payments'[k])) => FlagsAgree'
  BY DEF FlagsAgree, FlagsFine

\* A step that leaves all but the orders and payments as it is.
LEMMA TableStep ==
  ASSUME IInv, Tables', Grown, FlagsAgree', UNCHANGED <<tick, verifies, mails, req>>,
         missed \subseteq missed', missed' \subseteq Requests
  PROVE  IInv'
<1>1. Shape' BY DEF IInv, Shape
<1>2. DatesGrow' BY DEF IInv, DatesGrow, Today
<1>3. OpeningIsLastClosing' BY DEF IInv, OpeningIsLastClosing
<1>4. Tables /\ Len(payments) \in Nat /\ Len(payments') \in Nat
  BY TablesParts DEF IInv, Shape, Tables
<1>5. \A label, n : n \in Nat /\ n <= Len(payments) =>
        Dayed(payments', label, n) = Dayed(payments, label, n)
  BY <1>4, DayedKept
<1>6. InFlight'
  <2>1. ASSUME NEW r \in Requests
        PROVE  LET q == req[r]
               IN /\ q.upTo <= Len(payments')
                  /\ r \notin missed' =>
                       /\ q.pc = "export" /\ ~q.evening => q.label = Today
                       /\ q.pc = "send" => q.attached = Dayed(payments', q.label, q.upTo)
    <3>1. req[r].upTo \in Nat /\ req[r].upTo <= Len(payments)
      BY DEF IInv, Shape, RequestLike, InFlight
    <3>. QED BY <1>4, <1>5, <3>1 DEF IInv, InFlight, Grown
  <2>. QED BY <2>1 DEF InFlight, Today
<1>7. \A i \in DOMAIN mails : mails[i].upTo \in Nat /\ mails[i].upTo <= Len(payments)
  <2>1. mails \in Seq(Mail) BY <1>4, TablesParts
  <2>2. \A i \in DOMAIN mails : mails[i] \in Mail BY <2>1
  <2>. QED BY <2>2 DEF IInv, MailsBounded, Mail
<1>8. MailsBounded' BY <1>4, <1>7 DEF MailsBounded, Grown
<1>9. MailsHoldTheirDay'
  <2>1. ASSUME NEW i \in DOMAIN mails
        PROVE  mails[i].crossed \/ mails[i].attached = Dayed(payments', mails[i].label, mails[i].upTo)
    BY <1>5, <1>7 DEF IInv, MailsHoldTheirDay, Dayed
  <2>. QED BY <2>1 DEF MailsHoldTheirDay, Dayed
<1>. QED BY <1>1, <1>2, <1>3, <1>6, <1>8, <1>9 DEF IInv

LEMMA OrderInv ==
  ASSUME IInv,
         \/ \E o \in Orders : PlaceOrder(o)
         \/ \E n \in DOMAIN orders : \E s \in {"PROCESSING", "CANCELLED"} : MoveOrder(n, s)
  PROVE  IInv'
<1>1. Tables' BY PlaceTables, MoveTables DEF IInv, Shape
<1>2. UNCHANGED <<tick, payments, verifies, mails, req, missed>> BY DEF PlaceOrder, MoveOrder
<1>3. Len(payments) \in Nat BY TablesParts DEF IInv, Shape
<1>4. Grown BY <1>2, <1>3 DEF Grown
<1>5. FlagsAgree' BY <1>2 DEF IInv, FlagsAgree
<1>. QED BY <1>1, <1>2, <1>4, <1>5, TableStep DEF IInv, Shape

LEMMA RecordInv ==
  ASSUME IInv, NEW n \in DOMAIN orders, NEW method \in Methods, NEW paid \in 0..tick,
         RecordPayment(n, method, paid)
  PROVE  IInv'
<1>. DEFINE p == NewPayment(n, method, paid)
<1>0. paid \in Nat OBVIOUS
<1>1. Tables /\ Tables' BY <1>0, RecordTables DEF IInv, Shape
<1>2. p \in Payment BY <1>0, <1>1, NewPaymentType
<1>3. FlagsFine(p) BY PaymentAssumption DEF NewPayment, FlagsFine
<1>4. /\ payments' = Append(payments, p) /\ UNCHANGED <<tick, verifies, mails, req>>
      /\ missed \subseteq missed' /\ missed' \subseteq missed \cup Requests
  BY DEF RecordPayment, NewPayment
<1>. HIDE DEF p
<1>5. payments \in Seq(Payment) BY <1>1, TablesParts
<1>6. /\ Len(payments') = Len(payments) + 1 /\ Len(payments) \in Nat
      /\ DOMAIN payments' = 1..(Len(payments) + 1) /\ DOMAIN payments = 1..Len(payments)
      /\ payments'[Len(payments) + 1] = p
      /\ \A k \in DOMAIN payments : payments'[k] = payments[k]
  BY <1>2, <1>4, <1>5, Appended
<1>7. Grown BY <1>6 DEF Grown
<1>8. FlagsAgree'
  <2>1. \A k \in DOMAIN payments' : k \in DOMAIN payments \/ k = Len(payments) + 1 BY <1>6
  <2>. QED BY <1>3, <1>6, <2>1, FlagsAll, FlagsAllNext DEF IInv
<1>. QED BY <1>1, <1>4, <1>7, <1>8, TableStep DEF IInv, Shape

\* The two routes of verification.
LEMMA VerifyInv ==
  ASSUME IInv, NEW k \in DOMAIN payments,
         \/ \E cash \in Received : VerifyPayment(k, cash)
         \/ \E s \in {"PENDING", "MATCH", "MISMATCH"} : UpdateVerificationStatus(k, s)
  PROVE  IInv'
<1>1. Tables /\ payments \in Seq(Payment) /\ tick \in Nat BY TablesParts DEF IInv, Shape
<1>2. PICK p \in Payment :
        /\ payments' = [payments EXCEPT ![k] = p]
        /\ p.order = payments[k].order /\ p.at = payments[k].at /\ FlagsFine(p)
  <2>1. ASSUME NEW cash \in Received, VerifyPayment(k, cash)
        PROVE  /\ Verified(k, cash) \in Payment /\ payments' = [payments EXCEPT ![k] = Verified(k, cash)]
               /\ Verified(k, cash).order = payments[k].order
               /\ Verified(k, cash).at = payments[k].at /\ FlagsFine(Verified(k, cash))
    <3>1. payments' = [payments EXCEPT ![k] = Verified(k, cash)]
      BY <2>1 DEF VerifyPayment, Verified
    <3>. QED BY <1>1, <3>1, VerifiedEffect, PaymentAssumption DEF FlagsFine
  <2>2. ASSUME NEW s \in {"PENDING", "MATCH", "MISMATCH"}, UpdateVerificationStatus(k, s)
        PROVE  /\ Decided(k, s) \in Payment /\ payments' = [payments EXCEPT ![k] = Decided(k, s)]
               /\ Decided(k, s).order = payments[k].order
               /\ Decided(k, s).at = payments[k].at /\ FlagsFine(Decided(k, s))
    <3>1. payments' = [payments EXCEPT ![k] = Decided(k, s)]
      BY <2>2 DEF UpdateVerificationStatus, Decided
    <3>. QED BY <1>1, <3>1, DecidedEffect, PaymentAssumption DEF FlagsFine
  <2>. QED BY <2>1, <2>2
<1>3. UNCHANGED <<tick, orders, verifies, mails, req, missed>>
  BY DEF VerifyPayment, UpdateVerificationStatus
<1>4. /\ payments' \in Seq(Payment) /\ Len(payments') = Len(payments) /\ Len(payments) \in Nat
      /\ DOMAIN payments' = DOMAIN payments
      /\ \A j \in DOMAIN payments : payments'[j] = IF j = k THEN p ELSE payments[j]
  BY <1>1, <1>2
<1>5. Tables' BY <1>1, <1>2, <1>3, <1>4 DEF Tables
<1>6. Grown BY <1>2, <1>4 DEF Grown
<1>7. FlagsAgree' BY <1>2, <1>4, FlagsAll, FlagsAllNext DEF IInv
<1>. QED BY <1>3, <1>5, <1>6, <1>7, TableStep DEF IInv, Shape

-----------------------------------------------------------------------------
\* What a state of a request must be like; m: it has missed midnight.
Fine(q, m) == /\ RequestLike(q)
              /\ q.upTo <= Len(payments)
              /\ ~m => /\ q.pc = "export" /\ ~q.evening => q.label = Today
                       /\ q.pc = "send" => q.attached = Dayed(payments, q.label, q.upTo)
              /\ q.pc = "count" => q.sums.tied \/ q.sums.opening = q.sums.closing

LEMMA FineAll ==
  ASSUME IInv, NEW r \in Requests PROVE Fine(req[r], r \in missed)
<1>. DEFINE m == r \in missed
<1>1. RequestLike(req[r]) /\ req[r].upTo <= Len(payments) BY DEF IInv, Shape, InFlight
<1>2. ~m => /\ req[r].pc = "export" /\ ~req[r].evening => req[r].label = Today
            /\ req[r].pc = "send" => req[r].attached = Dayed(payments, req[r].label, req[r].upTo)
  BY DEF IInv, InFlight
<1>3. req[r].pc = "count" => req[r].sums.tied \/ req[r].sums.opening = req[r].sums.closing
  BY DEF IInv, OpeningIsLastClosing
<1>. HIDE DEF m
<1>4. Fine(req[r], m) BY <1>1, <1>2, <1>3 DEF Fine
<1>. QED BY <1>4 DEF m

\* A step of one request, which may store a verification or send a mail.
LEMMA RequestStep ==
  ASSUME IInv, NEW r \in Requests, NEW state, Go(r, state), NEW m \in BOOLEAN, Fine(state, m),
         m => r \in missed,
         UNCHANGED <<tick, orders, payments>>,
         missed' = IF m THEN missed ELSE missed \ {r},
         Tables', DatesGrow', MailsBounded', MailsHoldTheirDay'
  PROVE  IInv'
<1>1. DOMAIN req' = Requests /\ \A p \in Requests : req'[p] = IF p = r THEN state ELSE req[p]
  BY DEF Go, IInv, Shape
<1>2. Shape' BY <1>1 DEF IInv, Shape, Fine
<1>3. FlagsAgree' BY DEF IInv, FlagsAgree
<1>4. OpeningIsLastClosing' BY <1>1 DEF IInv, OpeningIsLastClosing, Fine
<1>5. InFlight'
  <2>1. ASSUME NEW p \in Requests
        PROVE  LET q == req'[p]
               IN /\ q.upTo <= Len(payments)
                  /\ p \notin missed' =>
                       /\ q.pc = "export" /\ ~q.evening => q.label = Today
                       /\ q.pc = "send" => q.attached = Dayed(payments, q.label, q.upTo)
    <3>1. CASE p = r
      <4>1. CASE ~m BY <1>1, <3>1, <4>1 DEF Fine
      <4>2. CASE m BY <1>1, <3>1, <4>2 DEF Fine
      <4>. QED BY <4>1, <4>2
    <3>2. CASE p # r BY <1>1, <3>2 DEF IInv, InFlight
    <3>. QED BY <3>1, <3>2
  <2>. QED BY <2>1 DEF InFlight, Today, Dayed, Rows
<1>. QED BY <1>2, <1>3, <1>4, <1>5 DEF IInv

LEMMA QuietTables ==
  ASSUME IInv, UNCHANGED <<tick, orders, payments, verifies, mails>>
  PROVE  Tables' /\ DatesGrow' /\ MailsBounded' /\ MailsHoldTheirDay'
  BY DEF IInv, Shape, Tables, DatesGrow, Today, MailsBounded, MailsHoldTheirDay

\* The first query of a summary, those of the sums, and an end.
LEMMA SummaryInv ==
  ASSUME IInv, NEW r \in Requests,
         \/ \E from, to \in 0..Today : SummaryTotal(r, from, to)
         \/ SummaryCash(r) \/ SummaryTransfer(r) \/ SummaryCount(r) \/ Interrupt(r)
  PROVE  IInv'
<1>1. /\ UNCHANGED <<tick, orders, payments, verifies, mails>>
      /\ Tables' /\ DatesGrow' /\ MailsBounded' /\ MailsHoldTheirDay'
  BY QuietTables
  DEF SummaryTotal, SummaryCash, SummaryTransfer, SummaryCount, Interrupt
<1>2. RequestLike(req[r]) /\ req[r].upTo <= Len(payments) /\ Len(payments) \in Nat
  BY TablesParts DEF IInv, Shape, InFlight
<1>3. ASSUME NEW state, Go(r, state), RequestLike(state), state.upTo <= Len(payments),
             state.pc \notin {"export", "send", "count"},
             missed' = missed \/ missed' = missed \ {r}
      PROVE  IInv'
  <2>1. Fine(state, TRUE) /\ Fine(state, FALSE) BY <1>3 DEF Fine
  <2>2. CASE missed' = missed \ {r} BY <1>1, <1>3, <2>1, <2>2, RequestStep
  <2>3. CASE missed' = missed /\ r \in missed BY <1>1, <1>3, <2>1, <2>3, RequestStep
  <2>4. CASE missed' = missed /\ r \notin missed
    <3>1. missed' = missed \ {r} BY <2>4
    <3>. QED BY <1>1, <1>3, <2>1, <3>1, RequestStep
  <2>. QED BY <1>3, <2>2, <2>3, <2>4
<1>4. CASE SummaryCount(r) \/ Interrupt(r)
  <2>1. Idle.upTo = 0 BY DEF Idle
  <2>. QED BY <1>2, <1>3, <1>4, <2>1, IdleShape DEF SummaryCount, Interrupt
<1>5. ASSUME NEW from, NEW to, SummaryTotal(r, from, to) PROVE IInv'
  <2>. DEFINE total == Earned(payments, Rows(payments, from, to))
              other == Earned(payments, OfMethod("OTHER", from, to))
              state == [Idle EXCEPT !.pc = "cash", !.from = from, !.to = to,
                                    !.sums.total = total, !.sums.other = other]
  <2>1. Go(r, state) /\ missed' = missed \ {r} BY <1>5 DEF SummaryTotal
  <2>. HIDE DEF total, other
  <2>2. RequestLike(state) /\ state.upTo = 0 /\ state.pc = "cash"
    BY DEF RequestLike, Idle, NoSums, RequestFields, SumFields
  <2>. HIDE DEF state
  <2>. QED BY <1>2, <1>3, <2>1, <2>2
<1>6. CASE SummaryCash(r)
  <2>. DEFINE cash == Earned(payments, OfMethod("CASH", req[r].from, req[r].to))
              state == [req[r] EXCEPT !.pc = "transfer", !.sums.cash = cash]
  <2>1. Go(r, state) /\ missed' = missed BY <1>6 DEF SummaryCash
  <2>. HIDE DEF cash
  <2>2. RequestLike(state) /\ state.upTo = req[r].upTo /\ state.pc = "transfer"
    BY <1>2 DEF RequestLike, RequestFields, SumFields
  <2>. HIDE DEF state
  <2>. QED BY <1>2, <1>3, <2>1, <2>2
<1>7. CASE SummaryTransfer(r)
  <2>. DEFINE transfer == Earned(payments, OfMethod("TRANSFER", req[r].from, req[r].to))
              late == r \in missed
              state == [req[r] EXCEPT !.pc = "opening", !.sums.missed = late,
                                      !.sums.transfer = transfer]
  <2>1. Go(r, state) /\ missed' = missed BY <1>7 DEF SummaryTransfer
  <2>. HIDE DEF transfer, late
  <2>2. RequestLike(state) /\ state.upTo = req[r].upTo /\ state.pc = "opening"
    BY <1>2 DEF RequestLike, RequestFields, SumFields
  <2>. HIDE DEF state
  <2>. QED BY <1>2, <1>3, <2>1, <2>2
<1>. QED BY <1>4, <1>5, <1>6, <1>7

\* When no two verifications share the last date, the one with that date is the last.
LEMMA LatestIsLast ==
  ASSUME IInv, NEW v \in Latest, ~(Cardinality(Latest) > 1) PROVE v = Len(verifies)
<1>. DEFINE n == Len(verifies)
<1>1. verifies \in Seq(DayVerify) BY TablesParts DEF IInv, Shape
<1>2. n \in Nat /\ DOMAIN verifies = 1..n /\ v \in 1..n BY <1>1 DEF Latest
<1>3. n \in Latest BY <1>2 DEF IInv, DatesGrow, Latest
<1>4. IsFiniteSet(Latest) /\ Cardinality(Latest) \in Nat
  <2>1. IsFiniteSet(1..n) BY <1>2, FS_Interval
  <2>2. Latest \subseteq 1..n BY <1>2 DEF Latest
  <2>. QED BY <2>1, <2>2, FS_Subset, FS_CardinalityType
<1>5. Cardinality(Latest) = 1
  <2>1. Cardinality(Latest) # 0 BY <1>3, <1>4, FS_EmptySet
  <2>. QED BY <1>4, <2>1
<1>6. \E w : Latest = {w} BY <1>4, <1>5, FS_Singleton
<1>. QED BY <1>3, <1>6

LEMMA OpeningInv ==
  ASSUME IInv, NEW r \in Requests, SummaryOpening(r) PROVE IInv'
<1>1. /\ UNCHANGED <<tick, orders, payments, verifies, mails, missed>>
      /\ Tables' /\ DatesGrow' /\ MailsBounded' /\ MailsHoldTheirDay'
  BY QuietTables DEF SummaryOpening
<1>2. RequestLike(req[r]) /\ req[r].upTo <= Len(payments) BY DEF IInv, Shape, InFlight
<1>. DEFINE closing == IF verifies = <<>> THEN 0 ELSE ClosingOrZero(Len(verifies))
            tied == Cardinality(Latest) > 1
<1>3. PICK opening \in IF verifies = <<>> THEN {0} ELSE {OpeningCash(v) : v \in Latest} :
        Go(r, [req[r] EXCEPT !.pc = "count", !.sums.opening = opening,
                             !.sums.closing = closing, !.sums.tied = tied])
  BY DEF SummaryOpening
<1>4. tied \/ opening = closing
  <2>1. CASE verifies = <<>> BY <1>3, <2>1
  <2>2. CASE verifies # <<>>
    <3>1. PICK v \in Latest : opening = ClosingOrZero(v) BY <1>3, <2>2 DEF OpeningCash
    <3>. QED BY <2>2, <3>1, LatestIsLast
  <2>. QED BY <2>1, <2>2
<1>. DEFINE state == [req[r] EXCEPT !.pc = "count", !.sums.opening = opening,
                                    !.sums.closing = closing, !.sums.tied = tied]
<1>5. Go(r, state) BY <1>3
<1>. HIDE DEF closing, tied
<1>6. /\ RequestLike(state) /\ state.upTo = req[r].upTo /\ state.pc = "count"
      /\ state.sums.tied = tied /\ state.sums.opening = opening /\ state.sums.closing = closing
  BY <1>2 DEF RequestLike, RequestFields, SumFields
<1>. HIDE DEF state
<1>7. Fine(state, TRUE) /\ Fine(state, FALSE) BY <1>2, <1>4, <1>6 DEF Fine
<1>8. CASE r \in missed BY <1>1, <1>5, <1>7, <1>8, RequestStep
<1>9. CASE r \notin missed
  <2>1. missed' = missed \ {r} BY <1>1, <1>9
  <2>. QED BY <1>1, <1>5, <1>7, <2>1, RequestStep
<1>. QED BY <1>8, <1>9

-----------------------------------------------------------------------------
\* The verification of a day, and the handler that will mail its payments.
LEMMA VerifyDayInv ==
  ASSUME IInv, NEW r \in Requests, NEW closing \in Closings, VerifyDay(r, closing) PROVE IInv'
<1>. DEFINE row == [date |-> Today, at |-> tick, closing |-> closing]
            state == [Idle EXCEPT !.pc = "export", !.label = Today]
<1>1. /\ UNCHANGED <<tick, orders, payments, mails>> /\ missed' = missed \ {r}
      /\ verifies' = Append(verifies, row) /\ Go(r, state)
  BY DEF VerifyDay
<1>2. /\ verifies \in Seq(DayVerify) /\ tick \in Nat /\ Today \in Nat /\ Len(payments) \in Nat
  BY TablesParts DEF IInv, Shape
<1>3. row \in DayVerify /\ row.date = Today BY <1>2, PaymentAssumption DEF DayVerify
<1>. HIDE DEF row
<1>4. /\ verifies' \in Seq(DayVerify) /\ DOMAIN verifies = 1..Len(verifies) /\ Len(verifies) \in Nat
      /\ DOMAIN verifies' = 1..(Len(verifies) + 1) /\ verifies'[Len(verifies) + 1] = row
      /\ \A k \in 1..Len(verifies) : verifies'[k] = verifies[k]
  BY <1>1, <1>2, <1>3, Appended
<1>5. Tables' BY <1>1, <1>4 DEF IInv, Shape, Tables
<1>6. DatesGrow'
  <2>1. \A v \in DOMAIN verifies' : v \in DOMAIN verifies \/ v = Len(verifies) + 1 BY <1>4
  <2>2. ASSUME NEW v \in DOMAIN verifies' PROVE verifies'[v].date <= Today
    BY <1>2, <1>3, <1>4, <2>1 DEF IInv, DatesGrow
  <2>3. ASSUME NEW v \in DOMAIN verifies', NEW w \in DOMAIN verifies', v <= w
        PROVE  verifies'[v].date <= verifies'[w].date
    <3>1. CASE w = Len(verifies) + 1 BY <1>3, <1>4, <2>2, <3>1
    <3>2. CASE w # Len(verifies) + 1
      <4>1. v \in DOMAIN verifies /\ w \in DOMAIN verifies BY <1>4, <2>1, <2>3, <3>2
      <4>. QED BY <1>4, <2>3, <4>1 DEF IInv, DatesGrow
    <3>. QED BY <3>1, <3>2
  <2>. QED BY <1>1, <2>2, <2>3 DEF DatesGrow, Today
<1>7. MailsBounded' /\ MailsHoldTheirDay' BY <1>1 DEF IInv, MailsBounded, MailsHoldTheirDay
<1>8. RequestLike(state) /\ state.upTo = 0 /\ state.pc = "export" /\ state.label = Today
  BY <1>2 DEF RequestLike, Idle, NoSums, RequestFields, SumFields
<1>. HIDE DEF state
<1>9. Fine(state, FALSE) BY <1>2, <1>8 DEF Fine
<1>. QED BY <1>1, <1>5, <1>6, <1>7, <1>9, RequestStep

LEMMA EveningInv ==
  ASSUME IInv, NEW r \in Requests, EveningReport(r) PROVE IInv'
<1>. DEFINE state == [Idle EXCEPT !.pc = "export", !.evening = TRUE]
<1>1. /\ UNCHANGED <<tick, orders, payments, verifies, mails>> /\ missed' = missed \ {r}
      /\ Go(r, state) /\ Tables' /\ DatesGrow' /\ MailsBounded' /\ MailsHoldTheirDay'
  BY QuietTables DEF EveningReport
<1>2. RequestLike(state) /\ state.upTo = 0 /\ state.pc = "export" /\ state.evening
  BY DEF RequestLike, Idle, NoSums, RequestFields, SumFields
<1>. HIDE DEF state
<1>3. Fine(state, FALSE) BY <1>2, TablesParts DEF Fine, IInv, Shape
<1>. QED BY <1>1, <1>3, RequestStep

\* The payments are read: all there are of the day.
LEMMA ExportInv ==
  ASSUME IInv, NEW r \in Requests, Export(r) PROVE IInv'
<1>. DEFINE q == req[r]
            label == IF q.evening THEN Today ELSE q.label
            attached == Rows(payments, Today, Today)
            n == Len(payments)
            state == [q EXCEPT !.pc = "send", !.attached = attached, !.label = label, !.upTo = n]
<1>1. /\ UNCHANGED <<tick, orders, payments, verifies, mails, missed>> /\ q.pc = "export"
      /\ Go(r, state) /\ Tables' /\ DatesGrow' /\ MailsBounded' /\ MailsHoldTheirDay'
  BY QuietTables DEF Export
<1>2. RequestLike(q) /\ (r \notin missed /\ ~q.evening => q.label = Today)
  BY <1>1 DEF IInv, Shape, InFlight
<1>3. n \in Nat /\ DOMAIN payments = 1..n /\ Today \in Nat BY TablesParts DEF IInv, Shape
<1>4. attached \subseteq Nat /\ attached = Dayed(payments, Today, n)
  BY <1>3 DEF Rows, Dayed
<1>5. label \in Nat /\ (r \notin missed => label = Today) BY <1>2, <1>3 DEF RequestLike
<1>. HIDE DEF label, attached, n
<1>6. /\ RequestLike(state) /\ state.upTo = n /\ state.pc = "send" /\ state.label = label
      /\ state.attached = attached
  BY <1>2, <1>3, <1>4, <1>5 DEF RequestLike, RequestFields
<1>. HIDE DEF state
<1>7. CASE r \in missed
  <2>1. Fine(state, TRUE) BY <1>3, <1>6 DEF Fine, n
  <2>. QED BY <1>1, <1>7, <2>1, RequestStep
<1>8. CASE r \notin missed
  <2>1. Fine(state, FALSE) BY <1>3, <1>4, <1>5, <1>6, <1>8 DEF Fine, n
  <2>2. missed' = missed \ {r} BY <1>1, <1>8
  <2>. QED BY <1>1, <2>1, <2>2, RequestStep
<1>. QED BY <1>7, <1>8

\* The mail is sent.
LEMMA SendInv ==
  ASSUME IInv, NEW r \in Requests, Send(r) PROVE IInv'
<1>. DEFINE q == req[r]
            late == r \in missed
            mail == [label |-> q.label, attached |-> q.attached, evening |-> q.evening,
                     upTo |-> q.upTo, crossed |-> late]
<1>1. /\ UNCHANGED <<tick, orders, payments, verifies>> /\ missed' = missed \ {r}
      /\ q.pc = "send" /\ Go(r, Idle) /\ mails' = Append(mails, mail)
  BY DEF Send
<1>2. RequestLike(q) /\ q.upTo <= Len(payments) /\ Len(payments) \in Nat
  BY TablesParts DEF IInv, Shape, InFlight
<1>3. late \in BOOLEAN /\ (late \/ q.attached = Dayed(payments, q.label, q.upTo))
  BY <1>1 DEF IInv, InFlight
<1>. HIDE DEF late
<1>4. mail \in Mail BY <1>2, <1>3 DEF Mail, RequestLike
<1>5. /\ mail.upTo <= Len(payments)
      /\ mail.crossed \/ mail.attached = Dayed(payments, mail.label, mail.upTo)
  BY <1>2, <1>3
<1>. HIDE DEF mail
<1>6. mails \in Seq(Mail) BY TablesParts DEF IInv, Shape
<1>7. /\ mails' \in Seq(Mail) /\ DOMAIN mails = 1..Len(mails) /\ Len(mails) \in Nat
      /\ DOMAIN mails' = 1..(Len(mails) + 1) /\ mails'[Len(mails) + 1] = mail
      /\ \A k \in 1..Len(mails) : mails'[k] = mails[k]
  BY <1>1, <1>4, <1>6, Appended
<1>8. Tables' /\ DatesGrow' BY <1>1, <1>7 DEF IInv, Shape, Tables, DatesGrow, Today
<1>9. \A i \in DOMAIN mails' : i \in DOMAIN mails \/ i = Len(mails) + 1 BY <1>7
<1>10. MailsBounded' BY <1>1, <1>5, <1>7, <1>9 DEF IInv, MailsBounded
<1>11. MailsHoldTheirDay'
  <2>1. ASSUME NEW i \in DOMAIN mails'
        PROVE  mails'[i].crossed \/ mails'[i].attached = Dayed(payments, mails'[i].label, mails'[i].upTo)
    <3>1. CASE i \in DOMAIN mails BY <1>7, <3>1 DEF IInv, MailsHoldTheirDay, Dayed
    <3>2. CASE i = Len(mails) + 1 BY <1>5, <1>7, <3>2
    <3>. QED BY <1>9, <3>1, <3>2
  <2>. QED BY <1>1, <2>1 DEF MailsHoldTheirDay, Dayed
<1>12. Fine(Idle, FALSE)
  <2>1. Idle.upTo = 0 BY DEF Idle
  <2>. QED BY <1>2, <2>1, IdleShape DEF Fine
<1>. QED BY <1>1, <1>8, <1>10, <1>11, <1>12, RequestStep

\* Time passes: a handler that midnight passes has missed it.
LEMMA TickInv ==
  ASSUME IInv, Tick PROVE IInv'
<1>1. /\ tick' = tick + 1 /\ UNCHANGED <<orders, payments, verifies, mails, req>>
      /\ missed' = IF Today' = Today THEN missed
                   ELSE missed \cup {r \in Requests : req[r].pc = "export" /\ ~req[r].evening}
  BY DEF Tick, Today
<1>2. tick \in Nat BY TablesParts DEF IInv, Shape
<1>3. Today \in Nat /\ Today' \in Nat /\ Today <= Today' BY <1>1, <1>2 DEF Today, Day
<1>4. Shape' BY <1>1, <1>2 DEF IInv, Shape, Tables
<1>5. FlagsAgree' /\ OpeningIsLastClosing' /\ MailsBounded' /\ MailsHoldTheirDay'
  BY <1>1 DEF IInv, FlagsAgree, OpeningIsLastClosing, MailsBounded, MailsHoldTheirDay
<1>6. DatesGrow'
  <2>1. verifies \in Seq(DayVerify) BY TablesParts DEF IInv, Shape
  <2>2. \A v \in DOMAIN verifies : verifies[v] \in DayVerify BY <2>1
  <2>3. \A v \in DOMAIN verifies : verifies[v].date \in Nat BY <2>2 DEF DayVerify
  <2>. QED BY <1>1, <1>3, <2>3 DEF IInv, DatesGrow
<1>7. InFlight'
  <2>1. ASSUME NEW r \in Requests
        PROVE  LET q == req[r]
               IN /\ q.upTo <= Len(payments)
                  /\ r \notin missed' =>
                       /\ q.pc = "export" /\ ~q.evening => q.label = Today'
                       /\ q.pc = "send" => q.attached = Dayed(payments, q.label, q.upTo)
    BY <1>1 DEF IInv, InFlight
  <2>. QED BY <1>1, <2>1 DEF InFlight, Dayed, Rows
<1>. QED BY <1>4, <1>5, <1>6, <1>7 DEF IInv

LEMMA InitInv == Init => IInv
<1>. SUFFICES ASSUME Init PROVE IInv OBVIOUS
<1>1. Shape BY IdleShape DEF Init, Shape, Tables
<1>2. FlagsAgree /\ DatesGrow /\ MailsBounded /\ MailsHoldTheirDay
  BY DEF Init, FlagsAgree, DatesGrow, MailsBounded, MailsHoldTheirDay
<1>3. OpeningIsLastClosing BY IdleShape DEF Init, OpeningIsLastClosing
<1>4. InFlight BY DEF Init, InFlight, Idle
<1>. QED BY <1>1, <1>2, <1>3, <1>4 DEF IInv

LEMMA NextInv == IInv /\ [Next]_vars => IInv'
<1>1. ASSUME IInv, UNCHANGED vars PROVE IInv'
  <2>1. Shape' BY <1>1 DEF IInv, Shape, Tables, vars
  <2>2. FlagsAgree' /\ DatesGrow' /\ MailsBounded' /\ MailsHoldTheirDay' /\ OpeningIsLastClosing'
    BY <1>1
    DEF IInv, vars, FlagsAgree, DatesGrow, Today, MailsBounded, MailsHoldTheirDay,
        OpeningIsLastClosing
  <2>3. InFlight' BY <1>1 DEF IInv, vars, InFlight, Today, Dayed
  <2>. QED BY <2>1, <2>2, <2>3 DEF IInv
<1>2. ASSUME IInv, NEW r \in Requests, Step(r) PROVE IInv'
  BY <1>2, SummaryInv, OpeningInv, ExportInv, SendInv DEF Step
<1>3. ASSUME IInv, NEW r \in Requests, Start(r) PROVE IInv'
  <2>1. CASE \E from, to \in 0..Today : SummaryTotal(r, from, to) BY <1>3, <2>1, SummaryInv
  <2>. QED BY <1>3, <2>1, VerifyDayInv, EveningInv DEF Start
<1>. QED BY <1>1, <1>2, <1>3, OrderInv, RecordInv, VerifyInv, TickInv DEF Next

\* The strengthening of the three properties below: the tables, the dates of the
\* verifications, and the requests and mails under way.
THEOREM Safety == Spec => []IInv
  BY InitInv, NextInv, PTL DEF Spec

\* The three records of a payment's verification agree, but for the status and the
\* mismatch after verifyPayment, which leaves the status alone (payment.service.ts).
THEOREM FlagsTheorem == Spec => []FlagsAgree
<1>1. IInv => FlagsAgree BY DEF IInv
<1>. QED BY <1>1, Safety, PTL

\* The opening cash of the summary is the closing cash of the verification made last,
\* unless two were made on the last day (payment.service.ts, getTodayPaymentsSummary).
THEOREM OpeningTheorem == Spec => []OpeningIsLastClosing
<1>1. IInv => OpeningIsLastClosing BY DEF IInv
<1>. QED BY <1>1, Safety, PTL

\* A mail about a day holds that day's payments, unless midnight passed between a
\* verification and the moment its handler read the payments (payment.listener.ts).
THEOREM MailsTheorem == Spec => []MailsHoldTheirDay
<1>1. IInv => MailsHoldTheirDay BY DEF IInv
<1>. QED BY <1>1, Safety, PTL

-----------------------------------------------------------------------------
(***************************************************************************)
(* The sums.                                                               *)
(***************************************************************************)

\* A sum of payments is one of the totals of the table.
Totals(table) == [k \in DOMAIN table |-> table[k].total]

LEMMA TableFinite ==
  ASSUME Tables
  PROVE  /\ IsFiniteSet(DOMAIN payments) /\ IsFiniteSet(DOMAIN orders)
         /\ \A k \in DOMAIN payments : payments[k] \in Payment
         /\ \A n \in DOMAIN orders : orders[n] \in OrderRow
<1>1. DOMAIN payments = 1..Len(payments) /\ Len(payments) \in Nat BY DEF Tables
<1>2. DOMAIN orders = 1..Len(orders) /\ Len(orders) \in Nat BY DEF Tables
<1>3. IsFiniteSet(1..Len(payments)) /\ IsFiniteSet(1..Len(orders)) BY <1>1, <1>2, FS_Interval
<1>. QED BY <1>1, <1>2, <1>3 DEF Tables

LEMMA EarnedSum ==
  ASSUME Tables, NEW S \in SUBSET DOMAIN payments
  PROVE  /\ IsFiniteSet(S) /\ \A k \in S : Totals(payments)[k] \in Nat
         /\ Earned(payments, S) = SumFunctionOnSet(Totals(payments), S)
         /\ Earned(payments, S) \in Nat
<1>. DEFINE f == [k \in S |-> payments[k].total]
            g == Totals(payments)
<1>1. IsFiniteSet(S) BY TableFinite, FS_Subset
<1>2. \A k \in S : f[k] \in Nat /\ g[k] = f[k]
  <2>1. \A k \in S : payments[k].total \in Nat BY TableFinite, PaymentFields
  <2>. QED BY <2>1 DEF Totals
<1>3. Earned(payments, S) = SumFunctionOnSet(f, S) BY DEF Earned, SumOf
<1>. HIDE DEF f, g
<1>4. SumFunctionOnSet(g, S) = SumFunctionOnSet(f, S) BY <1>1, <1>2, SumSame
<1>5. SumFunctionOnSet(f, S) \in Nat BY <1>1, <1>2, SumNat
<1>. QED BY <1>1, <1>2, <1>3, <1>4, <1>5 DEF g

\* The three methods make up what was paid.
LEMMA EarnedByMethod ==
  ASSUME Tables, NEW from, NEW to
  PROVE  Earned(payments, Rows(payments, from, to))
           = Earned(payments, OfMethod("CASH", from, to))
             + Earned(payments, OfMethod("TRANSFER", from, to))
             + Earned(payments, OfMethod("OTHER", from, to))
<1>. DEFINE A == OfMethod("CASH", from, to)
            B == OfMethod("TRANSFER", from, to)
            C == OfMethod("OTHER", from, to)
            g == Totals(payments)
<1>1. A \in SUBSET DOMAIN payments /\ B \in SUBSET DOMAIN payments /\ C \in SUBSET DOMAIN payments
  BY DEF OfMethod, Rows
<1>2. Rows(payments, from, to) = A \cup (B \cup C)
  <2>1. \A k \in DOMAIN payments : payments[k].method \in Methods BY TableFinite DEF Payment
  <2>. QED BY <2>1 DEF OfMethod, Rows, Methods
<1>3. A \cap (B \cup C) = {} /\ B \cap C = {} BY DEF OfMethod
<1>. HIDE DEF A, B, C, g
<1>4. B \cup C \in SUBSET DOMAIN payments /\ A \cup (B \cup C) \in SUBSET DOMAIN payments BY <1>1
<1>5. /\ IsFiniteSet(A) /\ IsFiniteSet(B) /\ IsFiniteSet(C) /\ IsFiniteSet(B \cup C)
      /\ Earned(payments, A) = SumFunctionOnSet(g, A) /\ Earned(payments, B) = SumFunctionOnSet(g, B)
      /\ Earned(payments, C) = SumFunctionOnSet(g, C)
      /\ Earned(payments, A) \in Nat /\ Earned(payments, B) \in Nat /\ Earned(payments, C) \in Nat
      /\ \A k \in B \cup C : g[k] \in Int
  BY <1>1, <1>4, EarnedSum DEF g
<1>6. /\ Earned(payments, A \cup (B \cup C)) = SumFunctionOnSet(g, A \cup (B \cup C))
      /\ \A k \in A \cup (B \cup C) : g[k] \in Int
  BY <1>4, EarnedSum DEF g
<1>7. SumFunctionOnSet(g, B \cup C) = SumFunctionOnSet(g, B) + SumFunctionOnSet(g, C)
  BY <1>3, <1>5, SumUnion
<1>8. SumFunctionOnSet(g, A \cup (B \cup C)) = SumFunctionOnSet(g, A) + SumFunctionOnSet(g, B \cup C)
  BY <1>3, <1>5, <1>6, SumUnion
<1>9. Earned(payments, A \cup (B \cup C)) = Earned(payments, A) + Earned(payments, B) + Earned(payments, C)
  BY <1>5, <1>6, <1>7, <1>8
<1>. QED BY <1>2, <1>9 DEF A, B, C

-----------------------------------------------------------------------------
(***************************************************************************)
(* Type correctness, sums and all.                                         *)
(***************************************************************************)
Typed == req \in [Requests -> Request] /\ evening \in Nat \cup {-1} /\ calls \in Nat

LEMMA TypedParts == IInv /\ Typed => TypeOK
  BY DEF IInv, Shape, Tables, Typed, TypeOK

LEMMA IdleRequest == Idle \in Request
  BY DEF Idle, Request, NoSums, Sums, Pc

LEMMA RangeSum ==
  ASSUME Tables, NEW from, NEW to, NEW method
  PROVE  /\ Earned(payments, Rows(payments, from, to)) \in Nat
         /\ Earned(payments, OfMethod(method, from, to)) \in Nat
<1>1. /\ Rows(payments, from, to) \in SUBSET DOMAIN payments
      /\ OfMethod(method, from, to) \in SUBSET DOMAIN payments
  BY DEF Rows, OfMethod
<1>. QED BY <1>1, EarnedSum

\* The closing cash that a verification gives.
LEMMA ClosingType ==
  ASSUME Tables, NEW v \in DOMAIN verifies PROVE ClosingOrZero(v) \in Nat
<1>1. verifies[v] \in DayVerify BY DEF Tables
<1>2. verifies[v].closing \in Nat \cup {Null} BY <1>1 DEF DayVerify
<1>. QED BY <1>2 DEF ClosingOrZero

LEMMA SummaryTyped ==
  ASSUME Tables, Typed, NEW r \in Requests,
         \/ \E from, to \in 0..Today : SummaryTotal(r, from, to)
         \/ SummaryCash(r) \/ SummaryTransfer(r) \/ SummaryOpening(r) \/ SummaryCount(r)
         \/ Interrupt(r)
  PROVE  req' \in [Requests -> Request]
<1>1. ASSUME NEW state \in Request, Go(r, state) PROVE req' \in [Requests -> Request]
  BY <1>1 DEF Go, Typed
<1>2. req[r] \in Request /\ req[r].sums \in Sums BY DEF Typed, Request
<1>3. CASE SummaryCount(r) \/ Interrupt(r)
  BY <1>1, <1>3, IdleRequest DEF SummaryCount, Interrupt
<1>4. ASSUME NEW from \in 0..Today, NEW to \in 0..Today, SummaryTotal(r, from, to)
      PROVE  req' \in [Requests -> Request]
  <2>. DEFINE total == Earned(payments, Rows(payments, from, to))
              other == Earned(payments, OfMethod("OTHER", from, to))
              state == [Idle EXCEPT !.pc = "cash", !.from = from, !.to = to,
                                    !.sums.total = total, !.sums.other = other]
  <2>1. Go(r, state) BY <1>4 DEF SummaryTotal
  <2>2. total \in Nat /\ other \in Nat BY RangeSum
  <2>3. from \in Nat /\ to \in Nat BY TodayType DEF Tables
  <2>. HIDE DEF total, other
  <2>4. state \in Request BY <2>2, <2>3 DEF Idle, NoSums, Request, Sums, Pc
  <2>. HIDE DEF state
  <2>. QED BY <1>1, <2>1, <2>4
<1>5. CASE SummaryCash(r)
  <2>. DEFINE cash == Earned(payments, OfMethod("CASH", req[r].from, req[r].to))
              state == [req[r] EXCEPT !.pc = "transfer", !.sums.cash = cash]
  <2>1. Go(r, state) BY <1>5 DEF SummaryCash
  <2>2. cash \in Nat BY RangeSum
  <2>. HIDE DEF cash
  <2>3. state \in Request BY <1>2, <2>2 DEF Request, Sums, Pc
  <2>. HIDE DEF state
  <2>. QED BY <1>1, <2>1, <2>3
<1>6. CASE SummaryTransfer(r)
  <2>. DEFINE transfer == Earned(payments, OfMethod("TRANSFER", req[r].from, req[r].to))
              late == r \in missed
              state == [req[r] EXCEPT !.pc = "opening", !.sums.missed = late,
                                      !.sums.transfer = transfer]
  <2>1. Go(r, state) BY <1>6 DEF SummaryTransfer
  <2>2. transfer \in Nat BY RangeSum
  <2>3. late \in BOOLEAN OBVIOUS
  <2>. HIDE DEF transfer, late
  <2>4. state \in Request BY <1>2, <2>2, <2>3 DEF Request, Sums, Pc
  <2>. HIDE DEF state
  <2>. QED BY <1>1, <2>1, <2>4
<1>7. CASE SummaryOpening(r)
  <2>. DEFINE closing == IF verifies = <<>> THEN 0 ELSE ClosingOrZero(Len(verifies))
              tied == Cardinality(Latest) > 1
  <2>1. PICK opening \in IF verifies = <<>> THEN {0} ELSE {OpeningCash(v) : v \in Latest} :
          Go(r, [req[r] EXCEPT !.pc = "count", !.sums.opening = opening,
                               !.sums.closing = closing, !.sums.tied = tied])
    BY <1>7 DEF SummaryOpening
  <2>2. opening \in Nat BY <2>1, ClosingType DEF OpeningCash, Latest
  <2>3. closing \in Nat
    <3>1. verifies \in Seq(DayVerify) BY DEF Tables
    <3>2. verifies # <<>> => Len(verifies) \in DOMAIN verifies BY <3>1
    <3>. QED BY <3>2, ClosingType
  <2>4. tied \in BOOLEAN OBVIOUS
  <2>. DEFINE state == [req[r] EXCEPT !.pc = "count", !.sums.opening = opening,
                                      !.sums.closing = closing, !.sums.tied = tied]
  <2>5. Go(r, state) BY <2>1
  <2>. HIDE DEF closing, tied
  <2>6. state \in Request BY <1>2, <2>2, <2>3, <2>4 DEF Request, Sums, Pc
  <2>. HIDE DEF state
  <2>. QED BY <1>1, <2>5, <2>6
<1>. QED BY <1>3, <1>4, <1>5, <1>6, <1>7

LEMMA MailTyped ==
  ASSUME Tables, Typed, NEW r \in Requests,
         \/ \E closing \in Closings : VerifyDay(r, closing)
         \/ EveningReport(r) \/ Export(r) \/ Send(r)
  PROVE  req' \in [Requests -> Request]
<1>1. ASSUME NEW state \in Request, Go(r, state) PROVE req' \in [Requests -> Request]
  BY <1>1 DEF Go, Typed
<1>2. Today \in Nat BY TodayType DEF Tables
<1>3. CASE \E closing \in Closings : VerifyDay(r, closing)
  <2>. DEFINE state == [Idle EXCEPT !.pc = "export", !.label = Today]
  <2>1. Go(r, state) BY <1>3 DEF VerifyDay
  <2>2. state \in Request BY <1>2 DEF Idle, NoSums, Request, Sums, Pc
  <2>. HIDE DEF state
  <2>. QED BY <1>1, <2>1, <2>2
<1>4. CASE EveningReport(r)
  <2>. DEFINE state == [Idle EXCEPT !.pc = "export", !.evening = TRUE]
  <2>1. Go(r, state) BY <1>4 DEF EveningReport
  <2>2. state \in Request BY DEF Idle, NoSums, Request, Sums, Pc
  <2>. HIDE DEF state
  <2>. QED BY <1>1, <2>1, <2>2
<1>5. CASE Export(r)
  <2>. DEFINE label == IF req[r].evening THEN Today ELSE req[r].label
              attached == Rows(payments, Today, Today)
              n == Len(payments)
              state == [req[r] EXCEPT !.pc = "send", !.attached = attached, !.label = label,
                                      !.upTo = n]
  <2>1. Go(r, state) BY <1>5 DEF Export
  <2>2. label \in Nat BY <1>2 DEF Typed, Request
  <2>3. n \in Nat /\ attached \in SUBSET Nat
    <3>1. n \in Nat /\ DOMAIN payments = 1..n BY TablesParts
    <3>. QED BY <3>1 DEF Rows
  <2>4. req[r] \in Request BY DEF Typed
  <2>. HIDE DEF label, attached, n
  <2>5. state \in Request BY <2>2, <2>3, <2>4 DEF Request, Pc
  <2>. HIDE DEF state
  <2>. QED BY <1>1, <2>1, <2>5
<1>6. CASE Send(r) BY <1>1, <1>6, IdleRequest DEF Send
<1>. QED BY <1>3, <1>4, <1>5, <1>6

LEMMA TypedNext == Tables /\ Typed /\ [Next]_vars => Typed'
<1>. SUFFICES ASSUME Tables, Typed, [Next]_vars PROVE Typed' OBVIOUS
<1>1. ASSUME UNCHANGED <<req, evening>>, calls' = calls \/ calls' = calls + 1 PROVE Typed'
  BY <1>1 DEF Typed
<1>2. ASSUME NEW r \in Requests, Step(r), UNCHANGED calls PROVE Typed'
  <2>1. req' \in [Requests -> Request] BY <1>2, SummaryTyped, MailTyped DEF Step
  <2>2. UNCHANGED evening
    BY <1>2 DEF Step, SummaryCash, SummaryTransfer, SummaryOpening, SummaryCount, Export, Send,
                Interrupt
  <2>. QED BY <1>2, <2>1, <2>2 DEF Typed
<1>3. ASSUME NEW r \in Requests, Start(r) PROVE Typed'
  <2>1. req' \in [Requests -> Request]
    <3>1. CASE \E from, to \in 0..Today : SummaryTotal(r, from, to) BY <3>1, SummaryTyped
    <3>. QED BY <1>3, <3>1, MailTyped DEF Start
  <2>2. evening' \in Nat \cup {-1}
    BY <1>3, TodayType DEF Start, SummaryTotal, VerifyDay, EveningReport, Typed, Tables
  <2>3. calls' = calls + 1
    BY <1>3 DEF Start, SummaryTotal, VerifyDay, EveningReport, MayStart, Count
  <2>. QED BY <2>1, <2>2, <2>3 DEF Typed
<1>4. ASSUME UNCHANGED vars PROVE Typed' BY <1>1, <1>4 DEF vars
<1>5. ASSUME \/ \E o \in Orders : PlaceOrder(o)
             \/ \E n \in DOMAIN orders : \E s : MoveOrder(n, s)
             \/ \E n \in DOMAIN orders : \E m, paid : RecordPayment(n, m, paid)
             \/ \E k \in DOMAIN payments : \E cash : VerifyPayment(k, cash)
             \/ \E k \in DOMAIN payments : \E s : UpdateVerificationStatus(k, s)
             \/ Tick
      PROVE  Typed'
  BY <1>1, <1>5 DEF PlaceOrder, MoveOrder, RecordPayment, VerifyPayment,
                    UpdateVerificationStatus, Tick, Count
<1>. QED BY <1>2, <1>3, <1>4, <1>5 DEF Next

\* The tables, the requests under way and the mails keep their types: no payment of
\* an order that is not there, no sum that is not a natural number
\* (payment.service.ts, getTodayPaymentsSummary).
THEOREM TypeCorrect == Spec => []TypeOK
<1>1. Init => Typed BY IdleRequest DEF Init, Typed
<1>2. IInv => Tables BY DEF IInv, Shape
<1>. QED BY <1>1, <1>2, InitInv, NextInv, TypedNext, TypedParts, PTL DEF Spec

-----------------------------------------------------------------------------
(***************************************************************************)
(* The summary adds up.                                                    *)
(***************************************************************************)

\* What the queries of a summary have found still stands, unless a payment came in;
\* m: one did.
Standing(q, m) ==
  /\ q.pc \in {"cash", "transfer"} /\ ~m =>
       /\ q.sums.total = Earned(payments, Rows(payments, q.from, q.to))
       /\ q.sums.other = Earned(payments, OfMethod("OTHER", q.from, q.to))
  /\ q.pc = "transfer" /\ ~m => q.sums.cash = Earned(payments, OfMethod("CASH", q.from, q.to))
  /\ q.pc \in {"opening", "count"} =>
       q.sums.missed \/ q.sums.total = q.sums.cash + q.sums.transfer + q.sums.other

SumsStand == \A r \in Requests : Standing(req[r], r \in missed)

LEMMA StandingAddsUp == SumsStand => SummaryAddsUp
  BY DEF SumsStand, Standing, SummaryAddsUp

\* A verification changes no total, no method and no time.
LEMMA VerifyKeepsSums ==
  ASSUME IInv, NEW k \in DOMAIN payments,
         \/ \E cash \in Received : VerifyPayment(k, cash)
         \/ \E s \in {"PENDING", "MATCH", "MISMATCH"} : UpdateVerificationStatus(k, s)
  PROVE  \A from, to, method :
           /\ Earned(payments', Rows(payments', from, to)) = Earned(payments, Rows(payments, from, to))
           /\ Earned(payments', OfMethod(method, from, to)')
                = Earned(payments, OfMethod(method, from, to))
<1>1. Tables BY DEF IInv, Shape
<1>2. PICK p : payments' = [payments EXCEPT ![k] = p] /\ p.at = payments[k].at
               /\ p.total = payments[k].total /\ p.method = payments[k].method
  <2>2. ASSUME NEW cash \in Received, VerifyPayment(k, cash)
        PROVE  /\ payments' = [payments EXCEPT ![k] = Verified(k, cash)]
               /\ Verified(k, cash).at = payments[k].at
               /\ Verified(k, cash).total = payments[k].total
               /\ Verified(k, cash).method = payments[k].method
    <3>1. payments' = [payments EXCEPT ![k] = Verified(k, cash)]
      BY <2>2 DEF VerifyPayment, Verified
    <3>. QED BY <1>1, <3>1, VerifiedEffect
  <2>3. ASSUME NEW s \in {"PENDING", "MATCH", "MISMATCH"}, UpdateVerificationStatus(k, s)
        PROVE  /\ payments' = [payments EXCEPT ![k] = Decided(k, s)]
               /\ Decided(k, s).at = payments[k].at
               /\ Decided(k, s).total = payments[k].total
               /\ Decided(k, s).method = payments[k].method
    <3>1. payments' = [payments EXCEPT ![k] = Decided(k, s)]
      BY <2>3 DEF UpdateVerificationStatus, Decided
    <3>. QED BY <1>1, <3>1, DecidedEffect
  <2>. QED BY <2>2, <2>3
<1>3. DOMAIN payments' = DOMAIN payments BY <1>2
<1>4. \A j \in DOMAIN payments : /\ payments'[j].at = payments[j].at
                                 /\ payments'[j].total = payments[j].total
                                 /\ payments'[j].method = payments[j].method
  BY <1>2
<1>. TAKE from, to, method
<1>5. Rows(payments', from, to) = Rows(payments, from, to) BY <1>3, <1>4 DEF Rows
<1>6. OfMethod(method, from, to)' = OfMethod(method, from, to)
  BY <1>3, <1>4, <1>5 DEF OfMethod, Rows
<1>7. ASSUME NEW S \in SUBSET DOMAIN payments PROVE Earned(payments', S) = Earned(payments, S)
  <2>1. [j \in S |-> payments'[j].total] = [j \in S |-> payments[j].total] BY <1>4
  <2>. QED BY <2>1 DEF Earned, SumOf
<1>. QED BY <1>5, <1>6, <1>7 DEF Rows, OfMethod

LEMMA StandingNext ==
  ASSUME UNCHANGED payments, NEW r, NEW state, req'[r] = state,
         NEW m \in BOOLEAN, m => r \in missed', Standing(state, m)
  PROVE  Standing(req[r], r \in missed)'
  BY DEF Standing, OfMethod

\* A step that leaves the payments and every request but r as they are.
LEMMA SumsKept ==
  ASSUME SumsStand, UNCHANGED payments, NEW r \in Requests, NEW state, DOMAIN req = Requests,
         Go(r, state), Standing(state, r \in missed'),
         missed' = missed \/ missed' = missed \ {r}
  PROVE  SumsStand'
<1>1. \A p \in Requests : req'[p] = IF p = r THEN state ELSE req[p] BY DEF Go
<1>2. ASSUME NEW p \in Requests PROVE Standing(req[p], p \in missed)'
  <2>1. CASE p = r
    <3>1. req'[p] = state BY <1>1, <2>1
    <3>. DEFINE m == r \in missed'
    <3>2. m \in BOOLEAN /\ (m => p \in missed') /\ Standing(state, m) BY <2>1
    <3>. HIDE DEF m
    <3>. QED BY <3>1, <3>2, StandingNext
  <2>2. CASE p # r
    <3>1. req'[p] = req[p] BY <1>1, <2>2
    <3>. DEFINE m == p \in missed
    <3>2. m \in BOOLEAN /\ (m => p \in missed') /\ Standing(req[p], m) BY <2>2 DEF SumsStand
    <3>. HIDE DEF m
    <3>. QED BY <3>1, <3>2, StandingNext
  <2>. QED BY <2>1, <2>2
<1>. QED BY <1>2 DEF SumsStand

\* A step that leaves every request as it is.
LEMMA SumsQuiet ==
  ASSUME SumsStand, UNCHANGED <<req, payments>>, missed \subseteq missed'
  PROVE  SumsStand'
  BY DEF SumsStand, Standing, OfMethod

LEMMA SumsRequest ==
  ASSUME IInv, Typed, SumsStand, NEW r \in Requests,
         Step(r) \/ Start(r)
  PROVE  SumsStand'
<1>1. /\ Tables /\ UNCHANGED payments /\ DOMAIN req = Requests
      /\ missed' = missed \/ missed' = missed \ {r}
  BY DEF IInv, Shape, Step, Start, SummaryTotal, SummaryCash, SummaryTransfer, SummaryOpening,
         SummaryCount, Export, Send, Interrupt, VerifyDay, EveningReport
<1>2. ASSUME NEW state, Go(r, state), Standing(state, r \in missed') PROVE SumsStand'
  BY <1>1, <1>2, SumsKept
<1>3. req[r] \in Request /\ req[r].sums \in Sums BY DEF Typed, Request
<1>4. Standing(req[r], r \in missed) BY DEF SumsStand
<1>5. ASSUME NEW state, Go(r, state), state.pc \in {"idle", "export", "send"} PROVE SumsStand'
  <2>1. Standing(state, r \in missed') BY <1>5 DEF Standing
  <2>. QED BY <1>2, <1>5, <2>1
<1>6. CASE SummaryCount(r) \/ Interrupt(r) \/ Send(r)
  BY <1>5, <1>6, IdleShape DEF SummaryCount, Interrupt, Send
<1>7. CASE \E closing \in Closings : VerifyDay(r, closing)
  BY <1>5, <1>7 DEF VerifyDay, Idle
<1>8. CASE EveningReport(r) BY <1>5, <1>8 DEF EveningReport, Idle
<1>9. CASE Export(r)
  <2>1. PICK label, attached, n :
          Go(r, [req[r] EXCEPT !.pc = "send", !.attached = attached, !.label = label, !.upTo = n])
    <3>1. Go(r, [req[r] EXCEPT !.pc = "send", !.attached = Rows(payments, Today, Today),
                    !.label = IF req[r].evening THEN Today ELSE req[r].label,
                    !.upTo = Len(payments)])
      BY <1>9 DEF Export
    <3>. QED BY <3>1
  <2>. DEFINE state == [req[r] EXCEPT !.pc = "send", !.attached = attached, !.label = label,
                                      !.upTo = n]
  <2>2. state.pc = "send" BY <1>3 DEF Request
  <2>. QED BY <1>5, <2>1, <2>2
<1>10. ASSUME NEW from, NEW to, SummaryTotal(r, from, to) PROVE SumsStand'
  <2>. DEFINE total == Earned(payments, Rows(payments, from, to))
              other == Earned(payments, OfMethod("OTHER", from, to))
              state == [Idle EXCEPT !.pc = "cash", !.from = from, !.to = to,
                                    !.sums.total = total, !.sums.other = other]
  <2>1. Go(r, state) BY <1>10 DEF SummaryTotal
  <2>. HIDE DEF total, other
  <2>2. /\ state.pc = "cash" /\ state.from = from /\ state.to = to
        /\ state.sums.total = total /\ state.sums.other = other
    BY DEF Idle, NoSums
  <2>. HIDE DEF state
  <2>3. Standing(state, r \in missed') BY <2>2 DEF Standing, total, other
  <2>. QED BY <1>2, <2>1, <2>3
<1>11. CASE SummaryCash(r)
  <2>. DEFINE cash == Earned(payments, OfMethod("CASH", req[r].from, req[r].to))
              state == [req[r] EXCEPT !.pc = "transfer", !.sums.cash = cash]
  <2>1. Go(r, state) /\ missed' = missed /\ req[r].pc = "cash" BY <1>11 DEF SummaryCash
  <2>. HIDE DEF cash
  <2>2. /\ state.pc = "transfer" /\ state.from = req[r].from /\ state.to = req[r].to
        /\ state.sums.total = req[r].sums.total /\ state.sums.other = req[r].sums.other
        /\ state.sums.cash = cash
    BY <1>3 DEF Request, Sums
  <2>. HIDE DEF state
  <2>3. Standing(state, r \in missed') BY <1>4, <2>1, <2>2 DEF Standing, cash
  <2>. QED BY <1>2, <2>1, <2>3
<1>12. CASE SummaryTransfer(r)
  <2>. DEFINE transfer == Earned(payments, OfMethod("TRANSFER", req[r].from, req[r].to))
              late == r \in missed
              state == [req[r] EXCEPT !.pc = "opening", !.sums.missed = late,
                                      !.sums.transfer = transfer]
  <2>1. Go(r, state) /\ missed' = missed /\ req[r].pc = "transfer" BY <1>12 DEF SummaryTransfer
  <2>2. ~late => req[r].sums.total = req[r].sums.cash + transfer + req[r].sums.other
    BY <1>1, <1>4, <2>1, EarnedByMethod DEF Standing
  <2>. HIDE DEF transfer, late
  <2>3. /\ state.pc = "opening" /\ state.sums.missed = late /\ state.sums.transfer = transfer
        /\ state.sums.total = req[r].sums.total /\ state.sums.other = req[r].sums.other
        /\ state.sums.cash = req[r].sums.cash
    BY <1>3 DEF Request, Sums
  <2>. HIDE DEF state
  <2>4. Standing(state, r \in missed') BY <2>2, <2>3 DEF Standing
  <2>. QED BY <1>2, <2>1, <2>4
<1>13. CASE SummaryOpening(r)
  <2>1. PICK opening, closing, tied :
          /\ Go(r, [req[r] EXCEPT !.pc = "count", !.sums.opening = opening,
                                  !.sums.closing = closing, !.sums.tied = tied])
          /\ req[r].pc = "opening"
    BY <1>13 DEF SummaryOpening
  <2>. DEFINE state == [req[r] EXCEPT !.pc = "count", !.sums.opening = opening,
                                      !.sums.closing = closing, !.sums.tied = tied]
  <2>2. /\ state.pc = "count" /\ state.sums.missed = req[r].sums.missed
        /\ state.sums.total = req[r].sums.total /\ state.sums.other = req[r].sums.other
        /\ state.sums.cash = req[r].sums.cash /\ state.sums.transfer = req[r].sums.transfer
    BY <1>3 DEF Request, Sums
  <2>3. Go(r, state) BY <2>1
  <2>. HIDE DEF state
  <2>4. Standing(state, r \in missed') BY <1>4, <2>1, <2>2 DEF Standing
  <2>. QED BY <1>2, <2>3, <2>4
<1>. QED BY <1>6, <1>7, <1>8, <1>9, <1>10, <1>11, <1>12, <1>13 DEF Step, Start

LEMMA SumsNext == IInv /\ Typed /\ SumsStand /\ [Next]_vars => SumsStand'
<1>. SUFFICES ASSUME IInv, Typed, SumsStand, [Next]_vars PROVE SumsStand' OBVIOUS
<1>1. CASE UNCHANGED vars BY <1>1, SumsQuiet DEF vars
<1>2. CASE \/ \E o \in Orders : PlaceOrder(o)
           \/ \E n \in DOMAIN orders : \E s : MoveOrder(n, s)
           \/ Tick
  BY <1>2, SumsQuiet DEF PlaceOrder, MoveOrder, Tick
<1>3. ASSUME NEW n \in DOMAIN orders, NEW m, NEW paid, RecordPayment(n, m, paid) PROVE SumsStand'
  <2>1. UNCHANGED req /\ \A r \in Requests : req[r].pc \in {"cash", "transfer"} => r \in missed'
    BY <1>3 DEF RecordPayment
  <2>2. \A r \in Requests : r \in missed => r \in missed' BY <1>3 DEF RecordPayment
  <2>. QED BY <2>1, <2>2 DEF SumsStand, Standing
<1>4. ASSUME NEW k \in DOMAIN payments,
             \/ \E cash \in Received : VerifyPayment(k, cash)
             \/ \E s \in {"PENDING", "MATCH", "MISMATCH"} : UpdateVerificationStatus(k, s)
      PROVE  SumsStand'
  <2>1. UNCHANGED <<req, missed>> BY <1>4 DEF VerifyPayment, UpdateVerificationStatus
  <2>2. \A from, to, method :
          /\ Earned(payments', Rows(payments', from, to)) = Earned(payments, Rows(payments, from, to))
          /\ Earned(payments', OfMethod(method, from, to)')
               = Earned(payments, OfMethod(method, from, to))
    BY <1>4, VerifyKeepsSums
  <2>. QED BY <2>1, <2>2 DEF SumsStand, Standing
<1>. QED BY <1>1, <1>2, <1>3, <1>4, SumsRequest DEF Next

\* Cash, transfers and other payments make up the total of the summary, unless a
\* payment came in between its queries (payment.service.ts, getTodayPaymentsSummary).
THEOREM SummaryTheorem == Spec => []SummaryAddsUp
<1>1. Init => Typed BY IdleRequest DEF Init, Typed
<1>2. IInv => Tables BY DEF IInv, Shape
<1>3. Init => SumsStand BY IdleShape DEF Init, SumsStand, Standing
<1>. QED BY <1>1, <1>2, <1>3, InitInv, NextInv, TypedNext, SumsNext, StandingAddsUp, PTL DEF Spec

-----------------------------------------------------------------------------
(***************************************************************************)
(* The reports and the dashboard.                                          *)
(***************************************************************************)

\* A set and what is left of it.
LEMMA CountSplit ==
  ASSUME NEW S, IsFiniteSet(S), NEW A, NEW B, S = A \cup B, A \cap B = {}
  PROVE  /\ IsFiniteSet(A) /\ IsFiniteSet(B) /\ Cardinality(A) \in Nat /\ Cardinality(B) \in Nat
         /\ Cardinality(S) = Cardinality(A) + Cardinality(B)
<1>1. IsFiniteSet(A) /\ IsFiniteSet(B)
  <2>1. A \in SUBSET S /\ B \in SUBSET S OBVIOUS
  <2>. QED BY <2>1, FS_Subset
<1>2. Cardinality(A) \in Nat /\ Cardinality(B) \in Nat BY <1>1, FS_CardinalityType
<1>3. Cardinality(A \cup B) = Cardinality(A) + Cardinality(B) - Cardinality(A \cap B)
  BY <1>1, FS_Union
<1>4. Cardinality(A \cap B) = 0 BY FS_EmptySet
<1>. QED BY <1>1, <1>2, <1>3, <1>4

LEMMA ImageFinite ==
  ASSUME NEW S, IsFiniteSet(S), NEW f PROVE IsFiniteSet({f[x] : x \in S})
<1>. DEFINE T == {f[x] : x \in S}
            g == [x \in S |-> f[x]]
<1>1. g \in Surjection(S, T) BY DEF Surjection
<1>. HIDE DEF T, g
<1>2. IsFiniteSet(T) BY <1>1, FS_Surjection
<1>. QED BY <1>2 DEF T

LEMMA RowsFinite ==
  ASSUME Tables, NEW from, NEW to
  PROVE  /\ Rows(orders, from, to) \in SUBSET DOMAIN orders
         /\ Rows(payments, from, to) \in SUBSET DOMAIN payments
         /\ IsFiniteSet(Rows(orders, from, to)) /\ IsFiniteSet(Rows(payments, from, to))
<1>1. /\ Rows(orders, from, to) \in SUBSET DOMAIN orders
      /\ Rows(payments, from, to) \in SUBSET DOMAIN payments
  BY DEF Rows
<1>. QED BY <1>1, TableFinite, FS_Subset

LEMMA OrderFields ==
  ASSUME Tables, NEW n \in DOMAIN orders
  PROVE  /\ orders[n].at \in Nat /\ orders[n].status \in Statuses /\ orders[n].type \in Types
         /\ orders[n].lines \in Seq(OrderLine)
<1>1. orders[n] \in OrderRow BY TableFinite
<1>. QED BY <1>1 DEF OrderRow

\* What the orders hold of an item.
UnitsOf(item) == [n \in DOMAIN orders |-> Units(orders[n], item)]

LEMMA UnitsType ==
  ASSUME Tables, NEW n \in DOMAIN orders, NEW item PROVE Units(orders[n], item) \in Nat
<1>. DEFINE lines == orders[n].lines
            f == [m \in DOMAIN lines |-> IF lines[m].item = item THEN lines[m].qty ELSE 0]
<1>1. lines \in Seq(OrderLine) BY OrderFields
<1>2. DOMAIN lines = 1..Len(lines) /\ Len(lines) \in Nat BY <1>1
<1>3. IsFiniteSet(DOMAIN lines) BY <1>2, FS_Interval
<1>4. \A m \in DOMAIN lines : f[m] \in Nat
  <2>1. \A m \in DOMAIN lines : lines[m] \in OrderLine BY <1>1
  <2>. QED BY <2>1 DEF OrderLine
<1>5. Units(orders[n], item) = SumFunctionOnSet(f, DOMAIN lines) BY DEF Units, SumOf
<1>. HIDE DEF f, lines
<1>. QED BY <1>3, <1>4, <1>5, SumNat

LEMMA UnitsSum ==
  ASSUME Tables, NEW item, NEW S \in SUBSET DOMAIN orders
  PROVE  /\ IsFiniteSet(S) /\ \A n \in S : UnitsOf(item)[n] \in Nat
         /\ SumOf(S, LAMBDA n : Units(orders[n], item)) = SumFunctionOnSet(UnitsOf(item), S)
<1>. DEFINE f == [n \in S |-> Units(orders[n], item)]
            g == UnitsOf(item)
<1>1. IsFiniteSet(S) BY TableFinite, FS_Subset
<1>2. \A n \in S : f[n] \in Nat /\ g[n] = f[n]
  <2>1. \A n \in S : Units(orders[n], item) \in Nat BY UnitsType
  <2>. QED BY <2>1 DEF UnitsOf
<1>3. SumOf(S, LAMBDA n : Units(orders[n], item)) = SumFunctionOnSet(f, S) BY DEF SumOf
<1>. HIDE DEF f, g
<1>4. SumFunctionOnSet(g, S) = SumFunctionOnSet(f, S) BY <1>1, <1>2, SumSame
<1>. QED BY <1>1, <1>2, <1>3, <1>4 DEF g

\* The reports of reporting.service.ts.
LEMMA ReportsHold == ASSUME Tables PROVE ReportsAgree
<1>. DEFINE Status(w) == StatusReport(orders, w[1], w[2])
            ByType(w) == TypesReport(orders, w[1], w[2])
<1>. SUFFICES ASSUME NEW w \in RangesTo(Today)
     PROVE /\ Status(w).orders = ByType(w).orders + Status(w).byStatus["CANCELLED"]
           /\ ByType(w).orders = ByType(w).byType["DINE_IN"] + ByType(w).byType["TAKEAWAY"]
           /\ \A item \in {1, 2} :
                TopSellers(orders, w[1], w[2], item)
                  <= SumOf(Rows(orders, w[1], w[2]), LAMBDA n : Units(orders[n], item))
           /\ Cardinality(Rows(orders, w[1], w[2]) \cap ProductionList(orders, payments, FALSE, FALSE))
                = Status(w).orders - Status(w).byStatus["PENDING"] - Status(w).byStatus["CANCELLED"]
  BY DEF ReportsAgree
<1>. DEFINE R == Rows(orders, w[1], w[2])
            In(s) == {n \in R : orders[n].status = s}
            Kept == {n \in R : orders[n].status # "CANCELLED"}
            Of(t) == {n \in Kept : orders[n].type = t}
            Made == R \cap ProductionList(orders, payments, FALSE, FALSE)
<1>1. R \in SUBSET DOMAIN orders /\ IsFiniteSet(R) BY RowsFinite
<1>2. Made = {n \in Kept : orders[n].status # "PENDING"}
  BY <1>1 DEF ProductionList, Filtered
<1>3. Cardinality(R) = Cardinality(Kept) + Cardinality(In("CANCELLED"))
      /\ IsFiniteSet(Kept) /\ Cardinality(Kept) \in Nat /\ Cardinality(In("CANCELLED")) \in Nat
  <2>1. R = Kept \cup In("CANCELLED") /\ Kept \cap In("CANCELLED") = {} OBVIOUS
  <2>. HIDE DEF R, In, Kept
  <2>. QED BY <1>1, <2>1, CountSplit
<1>4. Cardinality(Kept) = Cardinality(Of("DINE_IN")) + Cardinality(Of("TAKEAWAY"))
  <2>1. \A n \in R : orders[n].type \in Types BY <1>1, OrderFields
  <2>2. Kept = Of("DINE_IN") \cup Of("TAKEAWAY") /\ Of("DINE_IN") \cap Of("TAKEAWAY") = {}
    BY <2>1 DEF Types
  <2>. DEFINE A == Of("DINE_IN")
              B == Of("TAKEAWAY")
  <2>3. Kept = A \cup B /\ A \cap B = {} /\ IsFiniteSet(Kept) BY <1>3, <2>2
  <2>. HIDE DEF Kept, A, B
  <2>4. Cardinality(Kept) = Cardinality(A) + Cardinality(B) BY <2>3, CountSplit
  <2>. QED BY <2>4 DEF A, B
<1>5. Cardinality(Kept) = Cardinality(Made) + Cardinality(In("PENDING"))
      /\ Cardinality(Made) \in Nat /\ Cardinality(In("PENDING")) \in Nat
  <2>1. Kept = Made \cup In("PENDING") /\ Made \cap In("PENDING") = {} BY <1>2
  <2>. HIDE DEF Made, Kept, In
  <2>. QED BY <1>3, <2>1, CountSplit
<1>6. ASSUME NEW item
      PROVE TopSellers(orders, w[1], w[2], item) <= SumOf(R, LAMBDA n : Units(orders[n], item))
  <2>. DEFINE g == UnitsOf(item)
  <2>1. Kept \in SUBSET DOMAIN orders /\ R \ Kept \in SUBSET DOMAIN orders BY <1>1
  <2>2. TopSellers(orders, w[1], w[2], item) = SumOf(Kept, LAMBDA n : Units(orders[n], item))
    BY DEF TopSellers
  <2>3. R = Kept \cup (R \ Kept) /\ Kept \cap (R \ Kept) = {} OBVIOUS
  <2>. HIDE DEF Kept, R, g
  <2>4. /\ SumOf(Kept, LAMBDA n : Units(orders[n], item)) = SumFunctionOnSet(g, Kept)
        /\ SumOf(R, LAMBDA n : Units(orders[n], item)) = SumFunctionOnSet(g, R)
        /\ \A n \in R : g[n] \in Nat
    BY <1>1, <2>1, UnitsSum DEF g
  <2>5. SumFunctionOnSet(g, Kept) \in Nat /\ SumFunctionOnSet(g, R \ Kept) \in Nat
    <3>1. IsFiniteSet(R \ Kept) /\ \A n \in R \ Kept : g[n] \in Nat BY <1>1, <2>4, FS_Subset
    <3>2. \A n \in Kept : g[n] \in Nat BY <2>3, <2>4
    <3>. QED BY <1>3, <3>1, <3>2, SumNat
  <2>6. SumFunctionOnSet(g, Kept \cup (R \ Kept))
          = SumFunctionOnSet(g, Kept) + SumFunctionOnSet(g, R \ Kept)
    <3>1. IsFiniteSet(R \ Kept) /\ \A n \in Kept \cup (R \ Kept) : g[n] \in Int
      BY <1>1, <2>3, <2>4, FS_Subset
    <3>. QED BY <1>3, <2>3, <3>1, SumUnion
  <2>7. SumFunctionOnSet(g, Kept) <= SumFunctionOnSet(g, Kept \cup (R \ Kept)) BY <2>5, <2>6
  <2>. QED BY <2>2, <2>3, <2>4, <2>7
<1>7. /\ Status(w).orders = Cardinality(R)
      /\ Status(w).byStatus["CANCELLED"] = Cardinality(In("CANCELLED"))
      /\ Status(w).byStatus["PENDING"] = Cardinality(In("PENDING"))
  BY DEF StatusReport, Statuses
<1>8. /\ ByType(w).orders = Cardinality(Kept)
      /\ ByType(w).byType["DINE_IN"] = Cardinality(Of("DINE_IN"))
      /\ ByType(w).byType["TAKEAWAY"] = Cardinality(Of("TAKEAWAY"))
  BY DEF TypesReport, Types
<1>9. Cardinality(Made) = Cardinality(R) - Cardinality(In("PENDING")) - Cardinality(In("CANCELLED"))
  <2>. HIDE DEF R, In, Kept, Of, Made
  <2>. QED BY <1>3, <1>5
<1>10. \A item \in {1, 2} :
         TopSellers(orders, w[1], w[2], item)
           <= SumOf(Rows(orders, w[1], w[2]), LAMBDA n : Units(orders[n], item))
  BY <1>6 DEF SumOf
<1>11. Cardinality(Rows(orders, w[1], w[2]) \cap ProductionList(orders, payments, FALSE, FALSE))
         = Status(w).orders - Status(w).byStatus["PENDING"] - Status(w).byStatus["CANCELLED"]
  <2>. HIDE DEF Status, In
  <2>. QED BY <1>7, <1>9
<1>. HIDE DEF Status, ByType, In, Of, Kept
<1>. QED BY <1>3, <1>4, <1>7, <1>8, <1>10, <1>11

LEMMA BangkokFinite ==
  ASSUME Tables, NEW from, NEW to
  PROVE  /\ BangkokRows(orders, from, to) \in SUBSET DOMAIN orders
         /\ PaidIn(payments, from, to) \in SUBSET DOMAIN payments
         /\ IsFiniteSet(BangkokRows(orders, from, to)) /\ IsFiniteSet(PaidIn(payments, from, to))
<1>1. /\ BangkokRows(orders, from, to) \in SUBSET DOMAIN orders
      /\ PaidIn(payments, from, to) \in SUBSET DOMAIN payments
  BY DEF BangkokRows, PaidIn
<1>. QED BY <1>1, TableFinite, FS_Subset

\* The dashboard of analytics.service.ts: the revenue of the days.
LEMMA RevenueByDay ==
  ASSUME Tables, NEW from, NEW to
  PROVE  LET sales == SalesOverTime(orders, payments, from, to)
         IN Overview(payments, from, to).revenue = SumOf(DOMAIN sales, LAMBDA d : sales[d].revenue)
<1>. DEFINE paid == PaidIn(payments, from, to)
            key == [k \in paid |-> BangkokDay(orders[payments[k].order].at)]
            On(day) == {k \in paid : key[k] = day}
            D == {key[k] : k \in paid}
            sales == SalesOverTime(orders, payments, from, to)
            h == [d \in D |-> sales[d].revenue]
            g == Totals(payments)
<1>1. paid \in SUBSET DOMAIN payments /\ IsFiniteSet(paid) BY BangkokFinite
<1>2. IsFiniteSet(D)
  <2>. HIDE DEF key, paid
  <2>. QED BY <1>1, ImageFinite
<1>3. /\ DOMAIN sales = D
      /\ \A d \in D : sales[d].revenue = Earned(payments, On(d))
  BY DEF SalesOverTime
<1>4. ASSUME NEW d \in D PROVE h[d] = SumFunctionOnSet(g, On(d))
  <2>1. On(d) \in SUBSET DOMAIN payments BY <1>1
  <2>2. h[d] = Earned(payments, On(d)) BY <1>3
  <2>. HIDE DEF On, h, g
  <2>. QED BY <2>1, <2>2, EarnedSum DEF g
<1>5. ByKey(paid, g, D, key, h)
  <2>1. \A k \in paid : key[k] \in D OBVIOUS
  <2>. HIDE DEF h, g, D, key, paid
  <2>. QED BY <1>4, <2>1 DEF ByKey
<1>6. Overview(payments, from, to).revenue = Earned(payments, paid) BY DEF Overview
<1>7. SumOf(DOMAIN sales, LAMBDA d : sales[d].revenue) = SumFunctionOnSet(h, D)
  BY <1>3 DEF SumOf
<1>. HIDE DEF paid, key, D, h, g, sales
<1>8. Earned(payments, paid) = SumFunctionOnSet(g, paid) /\ \A k \in paid : g[k] \in Int
  BY <1>1, EarnedSum DEF g
<1>9. SumFunctionOnSet(g, paid) = SumFunctionOnSet(h, D) BY <1>1, <1>2, <1>5, <1>8, SumByKey
<1>. QED BY <1>6, <1>7, <1>8, <1>9 DEF sales

\* An order has one day, so the orders of the days are the orders.
LEMMA OrdersByDay ==
  ASSUME Tables, NEW from, NEW to
  PROVE  LET sales == SalesOverTime(orders, payments, from, to)
         IN Overview(payments, from, to).orders = SumOf(DOMAIN sales, LAMBDA d : sales[d].orders)
<1>. DEFINE paid == PaidIn(payments, from, to)
            made == [k \in paid |-> payments[k].order]
            dayOf == [k \in paid |-> BangkokDay(orders[payments[k].order].at)]
            On(day) == {k \in paid : dayOf[k] = day}
            D == {dayOf[k] : k \in paid}
            O == {made[k] : k \in paid}
            key == [n \in O |-> BangkokDay(orders[n].at)]
            ones == [n \in O |-> 1]
            sales == SalesOverTime(orders, payments, from, to)
            h == [d \in D |-> sales[d].orders]
<1>1. paid \in SUBSET DOMAIN payments /\ IsFiniteSet(paid) BY BangkokFinite
<1>2. IsFiniteSet(D) /\ IsFiniteSet(O)
  <2>. HIDE DEF dayOf, made, paid
  <2>. QED BY <1>1, ImageFinite
<1>3. /\ DOMAIN sales = D
      /\ \A d \in D : sales[d].orders = Cardinality({payments[k].order : k \in On(d)})
  BY DEF SalesOverTime
<1>4. ASSUME NEW d \in D PROVE h[d] = SumFunctionOnSet(ones, {n \in O : key[n] = d})
  <2>. DEFINE A == {n \in O : key[n] = d}
  <2>1. A = {payments[k].order : k \in On(d)} OBVIOUS
  <2>2. h[d] = Cardinality(A) BY <1>3, <2>1
  <2>3. A \in SUBSET O /\ \A n \in A : ones[n] = 1 OBVIOUS
  <2>. HIDE DEF A, h, ones, O
  <2>4. IsFiniteSet(A) BY <1>2, <2>3, FS_Subset
  <2>5. SumFunctionOnSet(ones, A) = Cardinality(A) BY <2>3, <2>4, SumOnes
  <2>. QED BY <2>2, <2>5 DEF A
<1>5. ByKey(O, ones, D, key, h)
  <2>1. \A n \in O : key[n] \in D OBVIOUS
  <2>. HIDE DEF h, ones, D, key, O
  <2>. QED BY <1>4, <2>1 DEF ByKey
<1>6. Overview(payments, from, to).orders = Cardinality(O)
  <2>1. {payments[k].order : k \in paid} = O OBVIOUS
  <2>. QED BY <2>1 DEF Overview
<1>7. SumOf(DOMAIN sales, LAMBDA d : sales[d].orders) = SumFunctionOnSet(h, D)
  BY <1>3 DEF SumOf
<1>8. \A n \in O : ones[n] = 1 /\ ones[n] \in Int OBVIOUS
<1>. HIDE DEF O, key, D, h, ones, sales
<1>9. SumFunctionOnSet(ones, O) = Cardinality(O) BY <1>2, <1>8, SumOnes
<1>10. SumFunctionOnSet(ones, O) = SumFunctionOnSet(h, D) BY <1>2, <1>5, <1>8, SumByKey
<1>. QED BY <1>6, <1>7, <1>9, <1>10 DEF sales

\* The hours and the types hold the paid orders.
LEMMA HoursAndTypes ==
  ASSUME Tables, NEW from, NEW to
  PROVE  LET hours == OrdersPerHour(orders, payments, <<>>, from, to)
             types == TypeBreakdown(orders, payments, from, to)
         IN hours[0] + hours[1] + hours[2] = types["DINE_IN"] + types["TAKEAWAY"]
<1>. DEFINE P == PaidOrders(orders, payments, from, to)
            At(h) == {n \in P : BangkokHour(orders[n].at) = h}
            Of(t) == {n \in P : orders[n].type = t}
            H0 == At(0)
            H1 == At(1)
            H2 == At(2)
            T0 == Of("DINE_IN")
            T1 == Of("TAKEAWAY")
<1>1. P \in SUBSET DOMAIN orders /\ IsFiniteSet(P)
  <2>1. P \in SUBSET DOMAIN orders BY BangkokFinite DEF PaidOrders
  <2>. HIDE DEF P
  <2>. QED BY <2>1, TableFinite, FS_Subset
<1>2. \A n \in P : orders[n].at \in Nat /\ orders[n].type \in Types BY <1>1, OrderFields
<1>3. /\ P = H0 \cup (H1 \cup H2) /\ H0 \cap (H1 \cup H2) = {} /\ H1 \cap H2 = {}
  <2>1. \A n \in P : BangkokHour(orders[n].at) \in {0, 1, 2} BY <1>2 DEF BangkokHour
  <2>. HIDE DEF P
  <2>. QED BY <2>1
<1>4. P = T0 \cup T1 /\ T0 \cap T1 = {}
  <2>. HIDE DEF P
  <2>. QED BY <1>2 DEF Types
<1>5. /\ Cardinality(P) = Cardinality(H0) + Cardinality(H1) + Cardinality(H2)
  <2>. DEFINE H == H1 \cup H2
  <2>. HIDE DEF P, H0, H1, H2
  <2>1. P = H0 \cup H /\ H0 \cap H = {} /\ H = H1 \cup H2 BY <1>3
  <2>. HIDE DEF H
  <2>2. /\ IsFiniteSet(H) /\ Cardinality(P) = Cardinality(H0) + Cardinality(H)
        /\ Cardinality(H0) \in Nat
    BY <1>1, <2>1, CountSplit
  <2>3. /\ Cardinality(H) = Cardinality(H1) + Cardinality(H2)
        /\ Cardinality(H1) \in Nat /\ Cardinality(H2) \in Nat
    BY <1>3, <2>1, <2>2, CountSplit
  <2>. QED BY <2>2, <2>3
<1>6. Cardinality(P) = Cardinality(T0) + Cardinality(T1)
  <2>. HIDE DEF P, T0, T1
  <2>. QED BY <1>1, <1>4, CountSplit
<1>7. /\ OrdersPerHour(orders, payments, <<>>, from, to)[0] = Cardinality(H0)
      /\ OrdersPerHour(orders, payments, <<>>, from, to)[1] = Cardinality(H1)
      /\ OrdersPerHour(orders, payments, <<>>, from, to)[2] = Cardinality(H2)
  BY DEF OrdersPerHour, AllowedHours
<1>8. /\ TypeBreakdown(orders, payments, from, to)["DINE_IN"] = Cardinality(T0)
      /\ TypeBreakdown(orders, payments, from, to)["TAKEAWAY"] = Cardinality(T1)
  BY DEF TypeBreakdown, Types
<1>. HIDE DEF P, H0, H1, H2, T0, T1
<1>. QED BY <1>5, <1>6, <1>7, <1>8

\* Where no order was paid twice, an item is sold as often as the paid orders hold it.
LEMMA SoldOnce ==
  ASSUME Tables, NEW from, NEW to, NEW item,
         \A n \in PaidOrders(orders, payments, from, to) : ~(Cardinality(PaymentsOf(payments, n)) > 1)
  PROVE  TopSelling(orders, payments, from, to, item)
           = SumOf(PaidOrders(orders, payments, from, to), LAMBDA n : Units(orders[n], item))
<1>. DEFINE P == PaidOrders(orders, payments, from, to)
            R == BangkokRows(orders, from, to)
            Q == R \ P
            f == [n \in R |-> Cardinality(PaymentsOf(payments, n)) * Units(orders[n], item)]
            g == UnitsOf(item)
<1>1. R \in SUBSET DOMAIN orders /\ IsFiniteSet(R) BY BangkokFinite
<1>2. P \in SUBSET R BY DEF PaidOrders
<1>3. \A n \in R : g[n] = Units(orders[n], item) /\ g[n] \in Nat
  BY <1>1, UnitsType DEF UnitsOf
<1>4. ASSUME NEW n \in P PROVE f[n] = g[n]
  <2>. DEFINE K == PaymentsOf(payments, n)
  <2>1. K # {} /\ ~(Cardinality(K) > 1) BY DEF PaidOrders
  <2>2. IsFiniteSet(K)
    <3>1. K \in SUBSET DOMAIN payments BY DEF PaymentsOf
    <3>. HIDE DEF K
    <3>. QED BY <3>1, TableFinite, FS_Subset
  <2>. HIDE DEF K
  <2>3. Cardinality(K) = 1
    <3>1. Cardinality(K) \in Nat /\ Cardinality(K) # 0 BY <2>1, <2>2, FS_CardinalityType, FS_EmptySet
    <3>. QED BY <2>1, <3>1
  <2>4. f[n] = Cardinality(K) * g[n] BY <1>2, <1>3 DEF K
  <2>. HIDE DEF f, g
  <2>. QED BY <1>2, <1>3, <2>3, <2>4
<1>5. ASSUME NEW n \in Q PROVE f[n] = 0
  <2>1. PaymentsOf(payments, n) = {} /\ n \in R BY DEF PaidOrders
  <2>2. Cardinality(PaymentsOf(payments, n)) = 0 BY <2>1, FS_EmptySet
  <2>3. f[n] = 0 * g[n] BY <1>3, <2>1, <2>2
  <2>. HIDE DEF f, g
  <2>. QED BY <1>3, <2>1, <2>3
<1>6. TopSelling(orders, payments, from, to, item) = SumFunctionOnSet(f, R)
  BY DEF TopSelling, SumOf
<1>7. R = P \cup Q /\ P \cap Q = {} BY <1>2
<1>8. P \in SUBSET DOMAIN orders BY <1>1, <1>2
<1>. HIDE DEF P, R, Q, f, g
<1>9. SumOf(P, LAMBDA n : Units(orders[n], item)) = SumFunctionOnSet(g, P)
  BY <1>8, UnitsSum DEF g
<1>10. IsFiniteSet(P) /\ IsFiniteSet(Q)
  <2>1. Q \in SUBSET R BY <1>7
  <2>. QED BY <1>1, <1>2, <2>1, FS_Subset
<1>11. \A n \in P \cup Q : f[n] \in Int
  <2>1. \A n \in P : f[n] \in Int BY <1>2, <1>3, <1>4
  <2>. QED BY <1>5, <2>1
<1>12. SumFunctionOnSet(f, P \cup Q) = SumFunctionOnSet(f, P) + SumFunctionOnSet(f, Q)
  BY <1>7, <1>10, <1>11, SumUnion
<1>13. SumFunctionOnSet(f, Q) = 0 BY <1>5, <1>10, SumZero
<1>14. \A n \in P : g[n] \in Int /\ f[n] = g[n] BY <1>2, <1>3, <1>4
<1>15. SumFunctionOnSet(f, P) = SumFunctionOnSet(g, P) BY <1>10, <1>14, SumSame
<1>16. SumFunctionOnSet(g, P) \in Int BY <1>10, <1>14, SumInt
<1>17. SumFunctionOnSet(f, R) = SumFunctionOnSet(g, P) BY <1>7, <1>12, <1>13, <1>15, <1>16
<1>. QED BY <1>6, <1>9, <1>17 DEF P

LEMMA DashboardHolds == ASSUME Tables PROVE DashboardAgrees
<1>. SUFFICES ASSUME NEW w \in RangesTo(BangkokDay(tick))
     PROVE
       LET from == w[1]  to == w[2]
           sales == SalesOverTime(orders, payments, from, to)
           all   == Overview(payments, from, to)
           paid  == PaidOrders(orders, payments, from, to)
           hours == OrdersPerHour(orders, payments, <<>>, from, to)
           types == TypeBreakdown(orders, payments, from, to)
       IN /\ all.revenue = SumOf(DOMAIN sales, LAMBDA d : sales[d].revenue)
          /\ all.orders = SumOf(DOMAIN sales, LAMBDA d : sales[d].orders)
          /\ hours[0] + hours[1] + hours[2] = types["DINE_IN"] + types["TAKEAWAY"]
          /\ \/ \E n \in paid : Cardinality(PaymentsOf(payments, n)) > 1
             \/ \A item \in {1, 2} : TopSelling(orders, payments, from, to, item)
                                       = SumOf(paid, LAMBDA n : Units(orders[n], item))
          /\ \A k \in Previous(payments, from, to) \cap PaidIn(payments, from, to) :
               payments[k].paid = BangkokStart(from)
          /\ \A search \in BOOLEAN : \A n \in paid \cap OrderList(orders, payments, TRUE, search) :
               search /\ orders[n].found
  BY DEF DashboardAgrees
<1>. DEFINE from == w[1]
            to == w[2]
            paid == PaidOrders(orders, payments, from, to)
<1>1. from \in Int
  <2>1. w \in (0..BangkokDay(tick)) \X (0..BangkokDay(tick)) BY DEF RangesTo
  <2>. QED BY <2>1
<1>2. \/ \E n \in paid : Cardinality(PaymentsOf(payments, n)) > 1
      \/ \A item \in {1, 2} : TopSelling(orders, payments, from, to, item)
                                = SumOf(paid, LAMBDA n : Units(orders[n], item))
  <2>. SUFFICES ASSUME \A n \in paid : ~(Cardinality(PaymentsOf(payments, n)) > 1), NEW item
                PROVE  TopSelling(orders, payments, from, to, item)
                         = SumOf(paid, LAMBDA n : Units(orders[n], item))
    BY DEF SumOf
  <2>. QED BY SoldOnce DEF SumOf
<1>3. \A k \in Previous(payments, from, to) \cap PaidIn(payments, from, to) :
        payments[k].paid = BangkokStart(from)
  <2>1. \A k \in DOMAIN payments : payments[k].paid \in Nat BY TableFinite, PaymentFields
  <2>. HIDE DEF from, to
  <2>2. BangkokStart(from) \in Int BY <1>1 DEF BangkokStart
  <2>. QED BY <2>1, <2>2 DEF Previous, PaidIn, InBangkokRange
<1>4. \A search \in BOOLEAN : \A n \in paid \cap OrderList(orders, payments, TRUE, search) :
        search /\ orders[n].found
  BY DEF PaidOrders, OrderList, Filtered
<1>. DEFINE sales == SalesOverTime(orders, payments, from, to)
            all   == Overview(payments, from, to)
            hours == OrdersPerHour(orders, payments, <<>>, from, to)
            types == TypeBreakdown(orders, payments, from, to)
<1>5. /\ all.revenue = SumOf(DOMAIN sales, LAMBDA d : sales[d].revenue)
      /\ all.orders = SumOf(DOMAIN sales, LAMBDA d : sales[d].orders)
  BY RevenueByDay, OrdersByDay DEF SumOf
<1>6. hours[0] + hours[1] + hours[2] = types["DINE_IN"] + types["TAKEAWAY"]
  BY HoursAndTypes
<1>. HIDE DEF sales, all, hours, types, paid
<1>. QED BY <1>2, <1>3, <1>4, <1>5, <1>6 DEF sales, all, hours, types, paid

\* The figures of the dashboard agree with each other and with the list of orders, on
\* the days of Bangkok (analytics.service.ts, order.service.ts).
THEOREM DashboardTheorem == Spec => []DashboardAgrees
<1>1. IInv => DashboardAgrees BY DashboardHolds DEF IInv, Shape
<1>. QED BY <1>1, Safety, PTL

\* So do the reports by status, by type, of the top sellers and the list for production,
\* on the days of the server (reporting.service.ts, order.service.ts): what goes by one
\* calendar agrees.
THEOREM ReportsTheorem == Spec => []ReportsReconcile
<1>1. IInv => ReportsReconcile BY DashboardHolds, ReportsHold DEF IInv, Shape, ReportsReconcile
<1>. QED BY <1>1, Safety, PTL

-----------------------------------------------------------------------------
(***************************************************************************)
(* The metrics and the dashboard, which have different calendars.          *)
(***************************************************************************)

\* A payment is stored soon after it was made, and neither is in the future.
StoredSoon ==
  \A k \in DOMAIN payments : /\ payments[k].paid <= payments[k].at
                             /\ payments[k].at <= payments[k].paid + 2
                             /\ payments[k].at <= tick

LEMMA SoonQuiet ==
  ASSUME Tables, StoredSoon, UNCHANGED payments, tick' \in Nat, tick <= tick' PROVE StoredSoon'
<1>1. \A k \in DOMAIN payments : payments[k].at \in Nat BY TableFinite, PaymentFields
<1>. QED BY <1>1 DEF StoredSoon, Tables

LEMMA SoonRecord ==
  ASSUME Tables, StoredSoon, NEW n \in DOMAIN orders, NEW method \in Methods, NEW paid \in 0..tick,
         RecordPayment(n, method, paid)
  PROVE  StoredSoon'
<1>. DEFINE p == NewPayment(n, method, paid)
<1>1. p \in Payment /\ p.paid = paid /\ p.at = tick BY NewPaymentType DEF NewPayment
<1>2. payments' = Append(payments, p) /\ UNCHANGED tick /\ tick - 2 <= paid
  BY DEF RecordPayment, NewPayment
<1>3. payments \in Seq(Payment) /\ tick \in Nat BY DEF Tables
<1>. HIDE DEF p
<1>4. /\ DOMAIN payments' = 1..(Len(payments) + 1) /\ DOMAIN payments = 1..Len(payments)
      /\ Len(payments) \in Nat /\ payments'[Len(payments) + 1] = p
      /\ \A k \in DOMAIN payments : payments'[k] = payments[k]
  BY <1>1, <1>2, <1>3, Appended
<1>5. ASSUME NEW k \in DOMAIN payments'
      PROVE  /\ payments'[k].paid <= payments'[k].at
             /\ payments'[k].at <= payments'[k].paid + 2 /\ payments'[k].at <= tick'
  <2>1. CASE k \in DOMAIN payments BY <1>2, <1>4, <2>1 DEF StoredSoon
  <2>2. CASE k = Len(payments) + 1 BY <1>1, <1>2, <1>3, <1>4, <2>2
  <2>. QED BY <1>4, <2>1, <2>2
<1>. QED BY <1>5 DEF StoredSoon

LEMMA SoonVerify ==
  ASSUME Tables, StoredSoon, NEW k \in DOMAIN payments,
         \/ \E cash : VerifyPayment(k, cash)
         \/ \E s \in {"PENDING", "MATCH", "MISMATCH"} : UpdateVerificationStatus(k, s)
  PROVE  StoredSoon'
<1>1. ASSUME NEW p, payments' = [payments EXCEPT ![k] = p], UNCHANGED tick,
             p.at = payments[k].at, p.paid = payments[k].paid
      PROVE  StoredSoon'
  BY <1>1 DEF StoredSoon
<1>2. ASSUME NEW cash, VerifyPayment(k, cash) PROVE StoredSoon'
  <2>1. payments' = [payments EXCEPT ![k] = Verified(k, cash)] /\ UNCHANGED tick
    BY <1>2 DEF VerifyPayment, Verified
  <2>2. Verified(k, cash).at = payments[k].at /\ Verified(k, cash).paid = payments[k].paid
    BY VerifiedEffect
  <2>. QED BY <1>1, <2>1, <2>2
<1>3. ASSUME NEW s \in {"PENDING", "MATCH", "MISMATCH"}, UpdateVerificationStatus(k, s)
      PROVE  StoredSoon'
  <2>1. payments' = [payments EXCEPT ![k] = Decided(k, s)]
    BY <1>3 DEF UpdateVerificationStatus, Decided
  <2>2. UNCHANGED tick BY <1>3 DEF UpdateVerificationStatus
  <2>3. Decided(k, s).at = payments[k].at /\ Decided(k, s).paid = payments[k].paid
    BY DecidedEffect
  <2>. QED BY <1>1, <2>1, <2>2, <2>3
<1>. QED BY <1>2, <1>3

LEMMA SoonNext == Tables /\ StoredSoon /\ [Next]_vars => StoredSoon'
<1>. SUFFICES ASSUME Tables, StoredSoon, [Next]_vars PROVE StoredSoon' OBVIOUS
<1>1. tick \in Nat BY DEF Tables
<1>2. CASE Tick
  <2>1. tick' = tick + 1 /\ UNCHANGED payments BY <1>2 DEF Tick
  <2>. QED BY <1>1, <2>1, SoonQuiet
<1>3. ASSUME UNCHANGED <<payments, tick>> PROVE StoredSoon' BY <1>1, <1>3, SoonQuiet
<1>4. ASSUME \/ UNCHANGED vars
             \/ \E o \in Orders : PlaceOrder(o)
             \/ \E n \in DOMAIN orders : \E s : MoveOrder(n, s)
             \/ \E r \in Requests : Step(r)
             \/ \E r \in Requests : Start(r)
      PROVE  StoredSoon'
  BY <1>3, <1>4 DEF vars, PlaceOrder, MoveOrder, Step, Start, SummaryTotal, SummaryCash,
                    SummaryTransfer, SummaryOpening, SummaryCount, Export, Send, Interrupt,
                    VerifyDay, EveningReport
<1>. QED BY <1>2, <1>4, SoonRecord, SoonVerify DEF Next

\* Payments that are among others sum up to no more.
LEMMA EarnedLess ==
  ASSUME Tables, NEW B \in SUBSET DOMAIN payments, NEW A \in SUBSET B
  PROVE  Earned(payments, A) <= Earned(payments, B)
<1>. DEFINE g == Totals(payments)
            C == B \ A
<1>1. A \in SUBSET DOMAIN payments /\ C \in SUBSET DOMAIN payments
      /\ B = A \cup C /\ A \cap C = {}
  OBVIOUS
<1>. HIDE DEF g, C
<1>2. /\ IsFiniteSet(A) /\ IsFiniteSet(C) /\ \A k \in B : g[k] \in Int
      /\ Earned(payments, A) = SumFunctionOnSet(g, A) /\ Earned(payments, A) \in Nat
      /\ Earned(payments, B) = SumFunctionOnSet(g, B)
      /\ SumFunctionOnSet(g, C) \in Nat
  BY <1>1, EarnedSum DEF g
<1>3. SumFunctionOnSet(g, B) = SumFunctionOnSet(g, A) + SumFunctionOnSet(g, C)
  BY <1>1, <1>2, SumUnion
<1>. QED BY <1>2, <1>3

\* A day without the night is one day on both calendars.
LEMMA SameDay ==
  ASSUME Tables, StoredSoon, NEW day \in Int,
         \A k \in PaidIn(payments, day, day) \cup Rows(payments, day, day) : ~Night(payments[k].paid)
  PROVE  PaidIn(payments, day, day) = Rows(payments, day, day)
<1>1. ASSUME NEW k \in DOMAIN payments
      PROVE  /\ payments[k].paid \in Nat /\ payments[k].at \in Nat
             /\ payments[k].paid <= payments[k].at /\ payments[k].at <= payments[k].paid + 2
  BY TableFinite, PaymentFields DEF StoredSoon
<1>2. ASSUME NEW k \in PaidIn(payments, day, day) PROVE k \in Rows(payments, day, day)
  <2>1. k \in DOMAIN payments /\ 3 * day - 2 <= payments[k].paid /\ payments[k].paid <= 3 * day
    BY DEF PaidIn, InBangkokRange, BangkokStart, BangkokEnd
  <2>2. (payments[k].paid + 2) \div 3 = payments[k].paid \div 3
    BY DEF Night, BangkokDay, Day
  <2>3. payments[k].paid = 3 * day BY <1>1, <2>1, <2>2
  <2>. QED BY <1>1, <2>1, <2>3 DEF Rows, InRange, StartOfDay, EndOfDay
<1>3. ASSUME NEW k \in Rows(payments, day, day) PROVE k \in PaidIn(payments, day, day)
  <2>1. k \in DOMAIN payments /\ 3 * day <= payments[k].at /\ payments[k].at <= 3 * day + 2
    BY DEF Rows, InRange, StartOfDay, EndOfDay
  <2>2. (payments[k].paid + 2) \div 3 = payments[k].paid \div 3
    BY DEF Night, BangkokDay, Day
  <2>3. payments[k].paid = 3 * day BY <1>1, <2>1, <2>2
  <2>. QED BY <1>1, <2>1, <2>3 DEF PaidIn, InBangkokRange, BangkokStart, BangkokEnd
<1>. QED BY <1>2, <1>3

LEMMA EarningsHold == ASSUME Tables, StoredSoon PROVE EarningsAgree
<1>. DEFINE Revenue(day) == Overview(payments, day, day).revenue
            metrics == Metrics(payments, Today)
            InTheNight(day) == \E k \in PaidIn(payments, day, day) \cup Rows(payments, day, day) :
                                 Night(payments[k].paid)
            Checked(day) == \E k \in Rows(payments, day, day) : payments[k].verification # "PENDING"
            there == BangkokDay(tick)
<1>1. tick \in Nat /\ Today \in Nat /\ Today - 1 \in Int
  BY TodayType DEF Tables
<1>2. /\ \A day : Revenue(day) = Earned(payments, PaidIn(payments, day, day))
      /\ metrics.todayEarning = Earned(payments, Rows(payments, Today, Today))
      /\ metrics.yesterdayEarning = Earned(payments, PaymentList(payments, Today - 1, Today - 1))
  BY DEF Overview, Metrics
<1>3. ASSUME ~InTheNight(Today) PROVE metrics.todayEarning = Revenue(Today)
  <2>1. PaidIn(payments, Today, Today) = Rows(payments, Today, Today) BY <1>1, <1>3, SameDay
  <2>. QED BY <1>2, <2>1
<1>4. ASSUME ~InTheNight(Today - 1), ~Checked(Today - 1)
      PROVE  metrics.yesterdayEarning = Revenue(Today - 1)
  <2>1. PaidIn(payments, Today - 1, Today - 1) = Rows(payments, Today - 1, Today - 1)
    BY <1>1, <1>4, SameDay
  <2>2. PaymentList(payments, Today - 1, Today - 1) = Rows(payments, Today - 1, Today - 1)
    BY <1>4 DEF PaymentList
  <2>. QED BY <1>2, <2>1, <2>2
<1>5. /\ PaidIn(payments, there, there) \in SUBSET DOMAIN payments
      /\ Rows(payments, Today, Today) \in SUBSET DOMAIN payments
  BY DEF PaidIn, Rows
<1>6. ASSUME NEW k \in DOMAIN payments
      PROVE  /\ payments[k].paid \in Nat /\ payments[k].at \in Nat /\ payments[k].at <= tick
             /\ payments[k].paid <= payments[k].at /\ payments[k].at <= payments[k].paid + 2
  BY TableFinite, PaymentFields DEF StoredSoon
<1>7. ASSUME ~Night(tick) PROVE metrics.todayEarning <= Revenue(there)
  <2>1. (tick + 2) \div 3 = tick \div 3 /\ there = (tick + 2) \div 3 /\ Today = tick \div 3
    BY <1>7 DEF Night, BangkokDay, Day, Today
  <2>2. tick = 3 * Today /\ there = Today BY <1>1, <2>1
  <2>3. Rows(payments, Today, Today) \subseteq PaidIn(payments, there, there)
    BY <1>1, <1>6, <2>2 DEF Rows, InRange, StartOfDay, EndOfDay,
                            PaidIn, InBangkokRange, BangkokStart, BangkokEnd
  <2>. QED BY <1>2, <1>5, <2>3, EarnedLess
<1>8. ASSUME Night(tick) PROVE Revenue(there) <= metrics.todayEarning
  <2>1. (tick + 2) \div 3 # tick \div 3 /\ there = (tick + 2) \div 3 /\ Today = tick \div 3
    BY <1>8 DEF Night, BangkokDay, Day, Today
  <2>2. tick <= 3 * Today + 2 /\ there = Today + 1 BY <1>1, <2>1
  <2>3. PaidIn(payments, there, there) \subseteq Rows(payments, Today, Today)
    BY <1>1, <1>6, <2>2 DEF Rows, InRange, StartOfDay, EndOfDay,
                            PaidIn, InBangkokRange, BangkokStart, BangkokEnd
  <2>. QED BY <1>2, <1>5, <2>3, EarnedLess
<1>. QED BY <1>3, <1>4, <1>7, <1>8 DEF EarningsAgree

\* What the metrics of the list of payments and the dashboard say of today and of
\* yesterday, by the days of the server and by those of Bangkok, differs by what was
\* paid in the night (payment.service.ts, analytics.service.ts).
THEOREM EarningsTheorem == Spec => []EarningsAgree
<1>1. Init => StoredSoon BY DEF Init, StoredSoon
<1>2. IInv => Tables BY DEF IInv, Shape
<1>3. Tables /\ StoredSoon => EarningsAgree BY EarningsHold
<1>. QED BY <1>1, <1>2, <1>3, InitInv, NextInv, SoonNext, PTL DEF Spec
=============================================================================
