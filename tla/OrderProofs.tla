---------------------------- MODULE OrderProofs ----------------------------
(***************************************************************************)
(* Theorems about OrderLifecycle, for any number of orders and requests,   *)
(* any carts and any adjustments, overlapping and interrupted at will.     *)
(* The arithmetic of OrderPricing is never unfolded: the proofs use only   *)
(* that Subtotal and TotalAmounts are operators.                           *)
(***************************************************************************)
EXTENDS OrderLifecycle, TLAPS

(***************************************************************************)
(* Type correctness.                                                       *)
(***************************************************************************)

\* The kinds of value a request and a row are given by the actions.
LEMMA ZeroType == 0 \in Subtotals /\ 0 \in Totals
<1>1. 0 \in Subtotals BY DEF Subtotals
<1>2. 0 \in Totals BY DEF Totals
<1>. QED BY <1>1, <1>2

LEMMA IdleType == Idle \in Request
  BY OrderAssumption, ZeroType DEF Idle, Request, Pc

LEMMA NoRowType ==
  ASSUME NEW st \in {"UNISSUED", "DELETED"} PROVE NoRow(st) \in Row
  BY OrderAssumption, ZeroType DEF NoRow, Row, OrderStatus

\* An amount computed from a known subtotal and known adjustments is a total.
LEMMA TotalType ==
  ASSUME NEW s \in Subtotals, NEW a \in AdjustmentLists, NEW t \in TotalAmounts(s, a)
  PROVE  t \in Totals
<1>1. TotalAmounts(s, a) \in {TotalAmounts(sub, adj) : sub \in Subtotals, adj \in AdjustmentLists}
  OBVIOUS
<1>. QED BY <1>1 DEF Totals

LEMMA SubtotalType ==
  ASSUME NEW c \in Carts PROVE Subtotal(c) \in Subtotals
  BY DEF Subtotals

LEMMA InitType == Init => TypeOK
<1>. SUFFICES ASSUME Init PROVE TypeOK OBVIOUS
<1>1. row \in [Orders -> Row] BY NoRowType DEF Init
<1>2. req \in [Requests -> Request] BY IdleType DEF Init
<1>3. \A r \in Requests : Sound(req[r]) BY DEF Init, Sound, Idle
<1>. QED BY <1>1, <1>2, <1>3 DEF Init, TypeOK

\* A request that is in flight has an order.
LEMMA InFlightOrder ==
  ASSUME TypeOK, NEW r \in Requests, req[r].pc # "idle"
  PROVE  req[r].order \in Orders
  BY DEF TypeOK, Sound

\* The two ways a request moves on keep the requests, and what they missed, typed.
RequestsOK == /\ req \in [Requests -> Request]
              /\ \A r \in Requests : Sound(req[r])
              /\ missed \in [Requests -> SUBSET WriteKinds]

LEMMA ReadType ==
  ASSUME TypeOK, NEW r \in Requests, NEW state \in Request, Sound(state),
         Read(r, state) \/ Continue(r, state)
  PROVE  RequestsOK'
  BY DEF TypeOK, RequestsOK, Read, Continue

LEMMA WriteType ==
  ASSUME TypeOK, NEW r \in Requests, NEW o \in Orders, NEW state \in Request,
         Sound(state), NEW kinds \in SUBSET WriteKinds, Write(r, o, kinds, state)
  PROVE  RequestsOK'
<1>1. missed' \in [Requests -> SUBSET WriteKinds] BY DEF TypeOK, Write
<1>. QED BY <1>1 DEF TypeOK, RequestsOK, Write

-----------------------------------------------------------------------------
\* A step that leaves the orders and the payments alone, and whose history is typed.
LEMMA QuietType ==
  ASSUME TypeOK, RequestsOK', UNCHANGED <<row, payments>>,
         priceRaced' \in SUBSET Orders, linesRaced' \in SUBSET Orders,
         abandoned' \in SUBSET Orders
  PROVE  TypeOK'
  BY DEF TypeOK, RequestsOK

\* What a row, and a request, look like to the actions.
LEMMA RowFields ==
  ASSUME TypeOK, NEW o \in Orders
  PROVE  /\ row[o].status \in OrderStatus \cup {"UNISSUED", "DELETED"}
         /\ row[o].lines \in Seq(Carts)
         /\ row[o].subtotal \in Subtotals
         /\ row[o].adjustments \in AdjustmentLists
         /\ row[o].total \in Totals
  BY DEF TypeOK, Row

LEMMA CallType ==
  ASSUME TypeOK, NEW r \in Requests, NEW o \in Orders, Call(r, o)
  PROVE  TypeOK'
<1>. USE IdleType, RowFields, OrderAssumption
<1>1. ASSUME NEW c \in Carts, NEW a \in AdjustmentLists, CreateOrder(r, o, c, a)
      PROVE  TypeOK'
  <2>. DEFINE state == [Idle EXCEPT !.pc = "slug", !.order = o]
  <2>1. state \in Request /\ Sound(state) BY DEF Idle, Request, Pc, Sound
  <2>2. RequestsOK' BY <1>1, <2>1, ReadType DEF CreateOrder
  <2>3. PICK t \in TotalAmounts(Subtotal(c), a) :
          row' = [row EXCEPT ![o] = [status |-> "PENDING", lines |-> <<c>>,
                                     subtotal |-> Subtotal(c), adjustments |-> a, total |-> t]]
    BY <1>1 DEF CreateOrder
  <2>4. t \in Totals /\ Subtotal(c) \in Subtotals BY SubtotalType, TotalType
  <2>5. [status |-> "PENDING", lines |-> <<c>>, subtotal |-> Subtotal(c), adjustments |-> a,
         total |-> t] \in Row
    BY <2>4 DEF Row, OrderStatus
  <2>6. row' \in [Orders -> Row] BY <2>3, <2>5 DEF TypeOK
  <2>. QED BY <1>1, <2>2, <2>6 DEF CreateOrder, TypeOK, RequestsOK
<1>2. ASSUME EditRead(r, o) PROVE TypeOK'
  <2>. DEFINE state == [Idle EXCEPT !.pc = "edit", !.order = o, !.adjustments = row[o].adjustments]
  <2>1. state \in Request /\ Sound(state) BY DEF Idle, Request, Pc, Sound
  <2>2. RequestsOK' BY <1>2, <2>1, ReadType DEF EditRead
  <2>. QED BY <1>2, <2>2, QuietType DEF EditRead, TypeOK
<1>3. ASSUME NEW a \in AdjustmentLists, AdjustRead(r, o, a) PROVE TypeOK'
  <2>. DEFINE state == [Idle EXCEPT !.pc = "adjust", !.order = o, !.adjustments = a,
                                    !.subtotal = row[o].subtotal]
  <2>1. state \in Request /\ Sound(state) BY DEF Idle, Request, Pc, Sound
  <2>2. RequestsOK' BY <1>3, <2>1, ReadType DEF AdjustRead
  <2>. QED BY <1>3, <2>2, QuietType DEF AdjustRead, TypeOK
<1>4. ASSUME NEW op \in {"cancel", "send", "accept", "ready", "pickup"},
             NEW from, StatusRead(r, o, op, from)
      PROVE  TypeOK'
  <2>. DEFINE state == [Idle EXCEPT !.pc = op, !.order = o]
  <2>1. state \in Request /\ Sound(state) BY DEF Idle, Request, Pc, Sound
  <2>2. RequestsOK' BY <1>4, <2>1, ReadType DEF StatusRead
  <2>. QED BY <1>4, <2>2, QuietType DEF StatusRead, TypeOK
<1>5. ASSUME PayRead(r, o) PROVE TypeOK'
  <2>. DEFINE state == [Idle EXCEPT !.pc = "pay", !.order = o, !.amount = row[o].total]
  <2>1. state \in Request /\ Sound(state) BY DEF Idle, Request, Pc, Sound
  <2>2. RequestsOK' BY <1>5, <2>1, ReadType DEF PayRead
  <2>. QED BY <1>5, <2>2, QuietType DEF PayRead, TypeOK
<1>6. ASSUME DeleteRead(r, o) PROVE TypeOK'
  <2>. DEFINE state == [Idle EXCEPT !.pc = "delete", !.order = o]
  <2>1. state \in Request /\ Sound(state) BY DEF Idle, Request, Pc, Sound
  <2>2. RequestsOK' BY <1>6, <2>1, ReadType DEF DeleteRead
  <2>. QED BY <1>6, <2>2, QuietType DEF DeleteRead, TypeOK
<1>. QED
  BY <1>1, <1>2, <1>3, <1>4, <1>5, <1>6
  DEF Call, CancelRead, SendRead, AcceptRead, ReadyRead, PickupRead

-----------------------------------------------------------------------------
\* The steps of a request in flight.
LEMMA EndType ==
  ASSUME TypeOK, NEW r \in Requests, End(r) PROVE RequestsOK'
  BY IdleType, ReadType DEF End, Sound, Idle

LEMMA EndHavingType ==
  ASSUME TypeOK, NEW r \in Requests, NEW o \in Orders, NEW kind \in WriteKinds,
         EndHaving(r, o, kind)
  PROVE  RequestsOK'
  BY IdleType, WriteType DEF EndHaving, Sound, Idle

LEMMA StatusWriteType ==
  ASSUME TypeOK, NEW r \in Requests, NEW op \in Pc \ {"idle"}, NEW st \in OrderStatus,
         StatusWrite(r, op, st)
  PROVE  TypeOK'
<1>. DEFINE o == req[r].order
<1>1. o \in Orders BY InFlightOrder DEF StatusWrite
<1>2. RequestsOK' BY <1>1, EndHavingType DEF StatusWrite, WriteKinds
<1>3. row' \in [Orders -> Row] BY <1>1 DEF StatusWrite, TypeOK, Row
<1>. QED BY <1>2, <1>3 DEF StatusWrite, TypeOK, RequestsOK

\* What a request carries to its next query.
LEMMA RequestFields ==
  ASSUME TypeOK, NEW r \in Requests
  PROVE  /\ req[r] \in Request
         /\ req[r].items \in Carts \cup {<<>>}
         /\ req[r].adjustments \in AdjustmentLists
         /\ req[r].subtotal \in Subtotals
         /\ req[r].amount \in Totals
  BY DEF TypeOK, Request

LEMMA RowWith ==
  ASSUME NEW w \in Row, NEW l \in Seq(Carts), NEW s \in Subtotals, NEW t \in Totals
  PROVE  [w EXCEPT !.lines = l, !.subtotal = s, !.total = t] \in Row
  BY DEF Row

LEMMA RowWithout ==
  ASSUME NEW w \in Row PROVE [w EXCEPT !.lines = <<>>] \in Row
<1>1. <<>> \in Seq(Carts) OBVIOUS
<1>. QED BY <1>1 DEF Row

LEMMA EditDeleteItemsType ==
  ASSUME TypeOK, NEW r \in Requests, NEW c \in Carts, EditDeleteItems(r, c) PROVE TypeOK'
<1>. DEFINE o == req[r].order
<1>. DEFINE state == [req[r] EXCEPT !.pc = "editWrite", !.items = c]
<1>1. o \in Orders BY InFlightOrder DEF EditDeleteItems
<1>2. state \in Request /\ Sound(state) BY <1>1, RequestFields DEF Request, Pc, Sound
<1>3. req' = [req EXCEPT ![r] = state] BY DEF EditDeleteItems, TypeOK
<1>4. RequestsOK' BY <1>2, <1>3 DEF EditDeleteItems, TypeOK, RequestsOK
<1>5. [row[o] EXCEPT !.lines = <<>>] \in Row BY <1>1, RowWithout DEF TypeOK
<1>6. row' \in [Orders -> Row] BY <1>1, <1>5 DEF EditDeleteItems, TypeOK
<1>. QED BY <1>4, <1>6 DEF EditDeleteItems, TypeOK, RequestsOK

LEMMA EditWriteType ==
  ASSUME TypeOK, NEW r \in Requests, EditWrite(r) PROVE TypeOK'
<1>. DEFINE o == req[r].order
            s == Subtotal(req[r].items)
            l == Append(row[o].lines, req[r].items)
<1>1. o \in Orders BY InFlightOrder DEF EditWrite
<1>2. req[r].items \in Carts BY DEF EditWrite, TypeOK, Sound
<1>3. RequestsOK' BY <1>1, EndHavingType DEF EditWrite, WriteKinds
<1>4. PICK t \in TotalAmounts(s, req[r].adjustments) :
        row' = [row EXCEPT ![o] = [@ EXCEPT !.lines = l, !.subtotal = s, !.total = t]]
  BY DEF EditWrite, EditedTotals
<1>4a. s \in Subtotals /\ req[r].adjustments \in AdjustmentLists
  BY <1>2, SubtotalType, RequestFields
<1>4b. t \in Totals
  <2>. HIDE DEF s
  <2>. QED BY <1>4a, TotalType
<1>5. l \in Seq(Carts) BY <1>1, <1>2, RowFields
<1>6. [row[o] EXCEPT !.lines = l, !.subtotal = s, !.total = t] \in Row
  <2>1. row[o] \in Row BY <1>1 DEF TypeOK
  <2>. HIDE DEF s, l
  <2>. QED BY <1>4a, <1>4b, <1>5, <2>1, RowWith
<1>7. row' = [row EXCEPT ![o] = [row[o] EXCEPT !.lines = l, !.subtotal = s, !.total = t]]
  BY <1>1, <1>4 DEF TypeOK
<1>8. row' \in [Orders -> Row]
  BY <1>1, <1>6, <1>7 DEF TypeOK
<1>9. /\ priceRaced' \in SUBSET Orders /\ linesRaced' \in SUBSET Orders
      /\ UNCHANGED <<payments, abandoned>>
  BY <1>1 DEF EditWrite, TypeOK
<1>. QED BY <1>3, <1>8, <1>9 DEF TypeOK, RequestsOK

LEMMA AdjustWriteType ==
  ASSUME TypeOK, NEW r \in Requests, AdjustWrite(r) PROVE TypeOK'
<1>. DEFINE o == req[r].order
<1>1. o \in Orders BY InFlightOrder DEF AdjustWrite
<1>2. RequestsOK' BY <1>1, EndHavingType DEF AdjustWrite, WriteKinds
<1>. DEFINE a == req[r].adjustments
<1>3. PICK t \in TotalAmounts(req[r].subtotal, a) :
        row' = [row EXCEPT ![o] = [@ EXCEPT !.adjustments = a, !.total = t]]
  BY DEF AdjustWrite
<1>3a. t \in Totals BY RequestFields, TotalType
<1>4. row' \in [Orders -> Row]
  <2>1. row' = [row EXCEPT ![o] = [row[o] EXCEPT !.adjustments = a, !.total = t]]
    BY <1>1, <1>3 DEF TypeOK
  <2>2. row[o] \in Row /\ a \in AdjustmentLists /\ t \in Totals
    BY <1>1, <1>3a, RequestFields DEF TypeOK
  <2>3. [row[o] EXCEPT !.adjustments = a, !.total = t] \in Row
    <3>. HIDE DEF a
    <3>. QED BY <2>2 DEF Row
  <2>. QED BY <1>1, <2>1, <2>3 DEF TypeOK
<1>5. priceRaced' \in SUBSET Orders /\ UNCHANGED <<payments, linesRaced, abandoned>>
  BY <1>1 DEF AdjustWrite, TypeOK
<1>. QED BY <1>2, <1>4, <1>5 DEF TypeOK, RequestsOK

LEMMA PayType ==
  ASSUME TypeOK, NEW r \in Requests,
         PayCreate(r) \/ PaySlug(r) \/ PayAssign(r) \/ PayAssignFails(r)
           \/ PaySendRead(r) \/ PaySendRefused(r) \/ PaySendWrite(r)
  PROVE  TypeOK'
<1>. DEFINE o == req[r].order
<1>1. o \in Orders
  BY InFlightOrder DEF PayCreate, PaySlug, PayAssign, PayAssignFails, PaySendRead,
                       PaySendRefused, PaySendWrite, StatusWrite
<1>2. CASE PayCreate(r)
  <2>. DEFINE state == [Idle EXCEPT !.pc = "paySlug", !.order = o]
  <2>1. state \in Request /\ Sound(state)
    BY <1>1, IdleType DEF Idle, Request, Pc, Sound
  <2>2. RequestsOK' BY <1>1, <1>2, <2>1, WriteType DEF PayCreate, WriteKinds
  <2>3. [order |-> o, by |-> r, totalAmount |-> req[r].amount, announced |-> FALSE] \in Payment
    BY <1>1, RequestFields DEF Payment
  <2>4. payments' \in SUBSET Payment BY <1>2, <2>3 DEF PayCreate, TypeOK
  <2>. QED BY <1>2, <2>2, <2>4 DEF PayCreate, TypeOK, RequestsOK
<1>3. ASSUME NEW next \in {"payAssign", "paySendRead", "paySend"}
      PROVE  /\ [req[r] EXCEPT !.pc = next] \in Request
             /\ Sound([req[r] EXCEPT !.pc = next])
  BY <1>1, <1>3, RequestFields DEF Request, Pc, Sound
<1>4. CASE PaySlug(r)
  <2>1. RequestsOK' BY <1>3, <1>4, ReadType DEF PaySlug
  <2>. QED BY <1>4, <2>1, QuietType DEF PaySlug, TypeOK
<1>5. CASE PayAssign(r)
  <2>1. RequestsOK' BY <1>3, <1>5, ReadType DEF PayAssign
  <2>2. \A p \in payments : p \in Payment /\ [p EXCEPT !.announced = TRUE] \in Payment
    BY DEF TypeOK, Payment
  <2>3. payments' \in SUBSET Payment BY <1>5, <2>2 DEF PayAssign
  <2>. QED BY <1>5, <2>1, <2>3 DEF PayAssign, TypeOK, RequestsOK
<1>6. CASE PayAssignFails(r)
  <2>1. RequestsOK' BY <1>6, EndType DEF PayAssignFails
  <2>. QED BY <1>1, <1>6, <2>1, QuietType DEF PayAssignFails, TypeOK
<1>7. CASE PaySendRead(r)
  <2>1. RequestsOK' BY <1>3, <1>7, ReadType DEF PaySendRead
  <2>. QED BY <1>7, <2>1, QuietType DEF PaySendRead, TypeOK
<1>8. CASE PaySendRefused(r)
  <2>1. RequestsOK' BY <1>8, EndType DEF PaySendRefused
  <2>. QED BY <1>8, <2>1, QuietType DEF PaySendRefused, TypeOK
<1>9. CASE PaySendWrite(r)
  BY <1>9, StatusWriteType DEF PaySendWrite, Pc, OrderStatus
<1>. QED BY <1>2, <1>4, <1>5, <1>6, <1>7, <1>8, <1>9

LEMMA DeleteWriteType ==
  ASSUME TypeOK, NEW r \in Requests, DeleteWrite(r) PROVE TypeOK'
<1>1. req[r].order \in Orders BY InFlightOrder DEF DeleteWrite
<1>2. RequestsOK' BY EndType DEF DeleteWrite
<1>3. row' \in [Orders -> Row] BY <1>1, NoRowType DEF DeleteWrite, TypeOK
<1>4. payments' \in SUBSET Payment BY DEF DeleteWrite, TypeOK
<1>. QED BY <1>2, <1>3, <1>4 DEF DeleteWrite, TypeOK, RequestsOK

\* A request that ends without a write.
LEMMA EndingType ==
  ASSUME TypeOK, NEW r \in Requests,
         CreateSlug(r) \/ EditRefused(r) \/ OrderVanished(r) \/ Interrupt(r)
  PROVE  TypeOK'
<1>1. req[r].order \in Orders
  BY InFlightOrder DEF CreateSlug, EditRefused, OrderVanished, Interrupt, NeedsOrder
<1>2. RequestsOK' BY EndType DEF CreateSlug, EditRefused, OrderVanished, Interrupt
<1>3. /\ UNCHANGED <<row, payments>>
      /\ priceRaced' \in SUBSET Orders /\ linesRaced' \in SUBSET Orders
      /\ abandoned' \in SUBSET Orders
  BY <1>1 DEF CreateSlug, EditRefused, OrderVanished, Interrupt, TypeOK
<1>. QED BY <1>2, <1>3, QuietType

LEMMA StepType ==
  ASSUME TypeOK, NEW r \in Requests, Step(r) PROVE TypeOK'
<1>1. CASE CancelWrite(r) \/ SendWrite(r) \/ AcceptWrite(r) \/ ReadyWrite(r) \/ PickupWrite(r)
  BY <1>1, StatusWriteType
  DEF CancelWrite, SendWrite, AcceptWrite, ReadyWrite, PickupWrite, Pc, OrderStatus
<1>2. CASE ~(CancelWrite(r) \/ SendWrite(r) \/ AcceptWrite(r) \/ ReadyWrite(r) \/ PickupWrite(r))
  BY <1>2, EditDeleteItemsType, EditWriteType, AdjustWriteType, PayType, DeleteWriteType, EndingType
  DEF Step
<1>. QED BY <1>1, <1>2

\* Every step keeps the types.
LEMMA NextType == TypeOK /\ [Next]_vars => TypeOK'
<1>1. ASSUME TypeOK, Next PROVE TypeOK'
  <2>1. PICK r \in Requests : (\E o \in Orders : Call(r, o)) \/ Step(r) \/ Interrupt(r)
    BY <1>1 DEF Next
  <2>. QED BY <1>1, <2>1, CallType, StepType, EndingType
<1>2. ASSUME TypeOK, UNCHANGED vars PROVE TypeOK'
  BY <1>2 DEF TypeOK, vars
<1>. QED BY <1>1, <1>2

\* The tables, the requests in flight and the history keep their types: no
\* status outside the enum, no amount that is not the total of some cart under
\* some adjustments, no request in flight without an order (order.service.ts).
THEOREM TypeCorrect == Spec => []TypeOK
  BY InitType, NextType, PTL DEF Spec

(***************************************************************************)
(* Safety.  The conjunction IInv of the safety invariants is inductive:    *)
(* what a request has checked and read (Local) is what makes its write     *)
(* keep the tables right, and what it missed is what excuses it when it    *)
(* does not.                                                               *)
(***************************************************************************)

IInv ==
  /\ TypeOK /\ ReferencesResolve
  /\ ReadsHold /\ PaymentChecksHold /\ StatusChecksHold
  /\ PriceIsConsistent /\ LinesMatchSubtotal
  /\ PaidPendingIsInFlight /\ EveryPaymentAnnounced

\* One step of the request r.
Act(r) == (\E o \in Orders : Call(r, o)) \/ Step(r) \/ Interrupt(r)

\* What IInv says of one request and one order.
Local(r, o) ==
  req[r].order = o =>
    /\ row[o].status # "UNISSUED"
    /\ Exists(o) => ReadStands(r, o) /\ UnpaidStands(r, o) /\ StatusStands(r, o)

AllLocal == \A r \in Requests, o \in Orders : Local(r, o)

LEMMA LocalOfIInv == IInv => AllLocal
  BY DEF IInv, AllLocal, Local, ReferencesResolve, ReadsHold, PaymentChecksHold,
         StatusChecksHold, WorksOn

LEMMA IInvOfLocal ==
  ASSUME TypeOK, AllLocal, \A p \in payments : Exists(p.order),
         PriceIsConsistent, LinesMatchSubtotal, PaidPendingIsInFlight, EveryPaymentAnnounced
  PROVE  IInv
  BY DEF IInv, AllLocal, Local, ReferencesResolve, ReadsHold, PaymentChecksHold,
         StatusChecksHold, WorksOn

LEMMA IInvOfLocalNext ==
  ASSUME TypeOK', AllLocal', \A p \in payments' : Exists(p.order)',
         PriceIsConsistent', LinesMatchSubtotal', PaidPendingIsInFlight', EveryPaymentAnnounced'
  PROVE  IInv'
  BY DEF IInv, AllLocal, Local, ReferencesResolve, ReadsHold, PaymentChecksHold,
         StatusChecksHold, WorksOn

LEMMA InitIInv == Init => IInv
<1>. SUFFICES ASSUME Init PROVE IInv OBVIOUS
<1>1. AllLocal BY OrderAssumption DEF Init, AllLocal, Local, Idle
<1>2. \A o \in Orders : ~Exists(o) BY DEF Init, Exists, NoRow, OrderStatus
<1>3. payments = {} BY DEF Init
<1>4. PriceIsConsistent /\ LinesMatchSubtotal
  BY <1>2 DEF PriceIsConsistent, LinesMatchSubtotal
<1>5. PaidPendingIsInFlight /\ EveryPaymentAnnounced
  BY <1>3 DEF PaidPendingIsInFlight, EveryPaymentAnnounced
<1>. QED BY <1>1, <1>3, <1>4, <1>5, InitType, IInvOfLocal

(***************************************************************************)
(* The other requests: whatever a request writes is added to what they     *)
(* missed, if they rely on it.                                             *)
(***************************************************************************)

\* If the write was of this kind and q relies on that kind, q is now marked.
Told(q, kind) == kind \in Relies(req[q].pc) => kind \in missed'[q]

LEMMA Noninterference ==
  ASSUME NEW q \in Requests, NEW o \in Orders, Local(q, o),
         req'[q] = req[q], missed[q] \subseteq missed'[q],
         req[q].order = o => row'[o].status # "UNISSUED",
         req[q].order = o => (Exists(o)' => Exists(o)),
         req[q].order = o =>
           /\ row'[o].adjustments = row[o].adjustments \/ Told(q, "adjust")
           /\ row'[o].lines \in {row[o].lines, <<>>} \/ Told(q, "edit")
           /\ row'[o].subtotal = row[o].subtotal \/ Told(q, "edit")
           /\ row'[o].total = row[o].total \/ Told(q, "edit") \/ Told(q, "adjust")
           /\ row'[o].status = row[o].status \/ Told(q, "status")
           /\ (PaymentsOf(o) = {} => PaymentsOf(o)' = {}) \/ Told(q, "pay")
  PROVE  Local(q, o)'
<1>. SUFFICES ASSUME req[q].order = o, Exists(o)'
     PROVE  /\ ReadStands(q, o)' /\ UnpaidStands(q, o)' /\ StatusStands(q, o)'
  BY DEF Local
<1>1. ReadStands(q, o) /\ UnpaidStands(q, o) /\ StatusStands(q, o) BY DEF Local
<1>2. ReadStands(q, o)' BY <1>1 DEF ReadStands, Told, Relies, ReliedOnBy, WriteKinds
<1>3. UnpaidStands(q, o)'
  <2>. HIDE DEF PaymentsOf
  <2>. QED BY <1>1 DEF UnpaidStands, Told, Relies, ReliedOnBy, WriteKinds
<1>4. StatusStands(q, o)' BY <1>1 DEF StatusStands, Told, Relies, ReliedOnBy, WriteKinds
<1>. QED BY <1>2, <1>3, <1>4

\* A write to the order a reads-in-flight request works on is not lost on it.
LEMMA WriteTells ==
  ASSUME TypeOK, NEW r \in Requests, NEW q \in Requests \ {r}, NEW o, NEW kind,
         NEW state, Write(r, o, {kind}, state)
  PROVE  /\ req'[q] = req[q]
         /\ missed[q] \subseteq missed'[q]
         /\ req[q].order = o => Told(q, kind)
  BY DEF Write, Told, TypeOK

(***************************************************************************)
(* The steps, grouped by what they write.                                  *)
(***************************************************************************)
ReadStep(r) == \E o \in Orders :
  \/ EditRead(r, o) \/ PayRead(r, o) \/ DeleteRead(r, o)
  \/ \E a \in AdjustmentLists : AdjustRead(r, o, a)
  \/ CancelRead(r, o) \/ SendRead(r, o) \/ AcceptRead(r, o) \/ ReadyRead(r, o) \/ PickupRead(r, o)

EndStep(r) ==
  CreateSlug(r) \/ EditRefused(r) \/ PayAssignFails(r) \/ PaySendRefused(r)
    \/ OrderVanished(r) \/ Interrupt(r)

\* The statuses an order is moved to, and the request that does it.
Moving == {"cancel", "send", "accept", "ready", "pickup", "paySend"}
MoveStep(r) == \E op \in Moving, st \in OrderStatus \ {"PENDING"} :
  /\ StatusWrite(r, op, st)
  /\ st = "CANCELLED" => op = "cancel"
  /\ st = "PENDING_PROCESSING" => op \in {"send", "paySend"}

LEMMA StepKinds ==
  ASSUME NEW r \in Requests, Act(r)
  PROVE  \/ ReadStep(r) \/ EndStep(r) \/ MoveStep(r)
         \/ PaySlug(r) \/ PaySendRead(r)
         \/ \E o \in Orders, c \in Carts, a \in AdjustmentLists : CreateOrder(r, o, c, a)
         \/ \E c \in Carts : EditDeleteItems(r, c)
         \/ EditWrite(r) \/ AdjustWrite(r) \/ PayCreate(r) \/ PayAssign(r) \/ DeleteWrite(r)
<1>1. CancelWrite(r) \/ SendWrite(r) \/ AcceptWrite(r) \/ ReadyWrite(r) \/ PickupWrite(r)
        \/ PaySendWrite(r) => MoveStep(r)
  BY DEF CancelWrite, SendWrite, AcceptWrite, ReadyWrite, PickupWrite, PaySendWrite,
         MoveStep, Moving, OrderStatus
<1>. QED BY <1>1 DEF Act, Call, Step, ReadStep, EndStep

\* Steps that write no order and no payment.
LEMMA Quiet ==
  ASSUME TypeOK, NEW r \in Requests, ReadStep(r) \/ EndStep(r) \/ PaySlug(r) \/ PaySendRead(r)
  PROVE  /\ UNCHANGED <<row, payments, priceRaced>>
         /\ linesRaced \subseteq linesRaced' /\ abandoned \subseteq abandoned'
         /\ \A q \in Requests \ {r} : req'[q] = req[q] /\ missed'[q] = missed[q]
<1>1. ReadStep(r) => \E s : Read(r, s)
  BY DEF ReadStep, EditRead, PayRead, DeleteRead, AdjustRead, CancelRead, SendRead, AcceptRead,
         ReadyRead, PickupRead, StatusRead
<1>2. EndStep(r) \/ PaySlug(r) \/ PaySendRead(r) => \E s : Read(r, s) \/ Continue(r, s)
  BY DEF EndStep, CreateSlug, EditRefused, PayAssignFails, PaySendRefused, OrderVanished,
         Interrupt, PaySlug, PaySendRead, End
<1>3. \A q \in Requests \ {r} : req'[q] = req[q] /\ missed'[q] = missed[q]
  BY <1>1, <1>2 DEF Read, Continue, TypeOK
<1>4. ReadStep(r) => UNCHANGED <<row, payments, priceRaced, linesRaced, abandoned>>
  BY DEF ReadStep, EditRead, PayRead, DeleteRead, AdjustRead, CancelRead, SendRead, AcceptRead,
         ReadyRead, PickupRead, StatusRead
<1>5. EndStep(r) \/ PaySlug(r) \/ PaySendRead(r) =>
        /\ UNCHANGED <<row, payments, priceRaced>>
        /\ linesRaced \subseteq linesRaced' /\ abandoned \subseteq abandoned'
  BY DEF EndStep, CreateSlug, EditRefused, PayAssignFails, PaySendRefused, OrderVanished,
         Interrupt, PaySlug, PaySendRead
<1>. QED BY <1>3, <1>4, <1>5

-----------------------------------------------------------------------------
\* No step disturbs what another request has checked, unseen.
LEMMA OthersKeep ==
  ASSUME IInv, NEW r \in Requests, Act(r), NEW q \in Requests \ {r}, NEW o \in Orders
  PROVE  Local(q, o)'
<1>. DEFINE x == req[r].order
<1>1. TypeOK /\ Local(q, o) BY LocalOfIInv DEF IInv, AllLocal
<1>2. CASE ReadStep(r) \/ EndStep(r) \/ PaySlug(r) \/ PaySendRead(r)
  <2>1. req'[q] = req[q] /\ missed'[q] = missed[q] /\ UNCHANGED <<row, payments>>
    BY <1>1, <1>2, Quiet
  <2>. QED BY <1>1, <2>1 DEF Local, Exists, ReadStands, UnpaidStands, StatusStands, PaymentsOf
<1>3. CASE \E oo \in Orders, c \in Carts, a \in AdjustmentLists : CreateOrder(r, oo, c, a)
  <2>1. PICK oo \in Orders, c \in Carts, a \in AdjustmentLists : CreateOrder(r, oo, c, a) BY <1>3
  <2>2. req'[q] = req[q] /\ missed'[q] = missed[q] /\ UNCHANGED payments
    BY <1>1, <2>1 DEF CreateOrder, Read, TypeOK
  <2>3. req[q].order = o => o # oo BY <1>1, <2>1 DEF CreateOrder, Local
  <2>4. req[q].order = o => row'[o] = row[o] BY <1>1, <2>1, <2>3 DEF CreateOrder, TypeOK
  <2>. QED BY <1>1, <2>2, <2>4 DEF Local, Exists, ReadStands, UnpaidStands, StatusStands, PaymentsOf
<1>4. CASE MoveStep(r)
  <2>1. PICK op \in Moving, st \in OrderStatus \ {"PENDING"} : StatusWrite(r, op, st)
    BY <1>4 DEF MoveStep
  <2>2. x \in Orders BY <1>1, <2>1, InFlightOrder DEF StatusWrite, Moving
  <2>3. Write(r, x, {"status"}, Idle) BY <2>1 DEF StatusWrite, EndHaving
  <2>4. row' = [row EXCEPT ![x].status = st] /\ UNCHANGED payments /\ Exists(x)
    BY <2>1 DEF StatusWrite
  <2>5. st \in OrderStatus /\ st # "UNISSUED" BY DEF OrderStatus
  <2>6. /\ req'[q] = req[q] /\ missed[q] \subseteq missed'[q]
        /\ req[q].order = x => Told(q, "status")
    BY <1>1, <2>3, WriteTells
  <2>7. CASE o = x BY <1>1, <2>2, <2>4, <2>5, <2>6, <2>7, Noninterference DEF TypeOK, Row, PaymentsOf
  <2>8. CASE o # x
    <3>1. row'[o] = row[o] BY <1>1, <2>2, <2>4, <2>8 DEF TypeOK
    <3>. QED BY <1>1, <2>4, <2>6, <3>1, Noninterference DEF Local, Exists, PaymentsOf
  <2>. QED BY <2>7, <2>8
<1>5. CASE \E c \in Carts : EditDeleteItems(r, c)
  <2>1. PICK c \in Carts : EditDeleteItems(r, c) BY <1>5
  <2>2. x \in Orders BY <1>1, <2>1, InFlightOrder DEF EditDeleteItems
  <2>3. req'[q] = req[q] /\ missed'[q] = missed[q] /\ UNCHANGED payments
    BY <1>1, <2>1 DEF EditDeleteItems, TypeOK
  <2>4. row'[o] = IF o = x THEN [row[o] EXCEPT !.lines = <<>>] ELSE row[o]
    BY <1>1, <2>1, <2>2 DEF EditDeleteItems, TypeOK
  <2>5. row[o] \in Row BY <1>1 DEF TypeOK
  <2>6. /\ row'[o].status = row[o].status /\ row'[o].adjustments = row[o].adjustments
        /\ row'[o].subtotal = row[o].subtotal /\ row'[o].total = row[o].total
        /\ row'[o].lines \in {row[o].lines, <<>>}
    BY <2>4, <2>5 DEF Row
  <2>. QED BY <1>1, <2>3, <2>6, Noninterference DEF Local, Exists, PaymentsOf
<1>6. CASE EditWrite(r)
  <2>1. x \in Orders BY <1>1, <1>6, InFlightOrder DEF EditWrite
  <2>2. Write(r, x, {"edit"}, Idle) BY <1>6 DEF EditWrite, EndHaving
  <2>3. /\ req'[q] = req[q] /\ missed[q] \subseteq missed'[q]
        /\ req[q].order = x => Told(q, "edit")
    BY <1>1, <2>2, WriteTells
  <2>4. row[o] \in Row BY <1>1 DEF TypeOK
  <2>5. /\ row'[o].status = row[o].status /\ row'[o].adjustments = row[o].adjustments
        /\ o # x => row'[o] = row[o]
    BY <1>1, <1>6, <2>1, <2>4 DEF EditWrite, TypeOK, Row
  <2>6. UNCHANGED payments BY <1>6 DEF EditWrite
  <2>. QED BY <1>1, <2>3, <2>5, <2>6, Noninterference DEF Local, Exists, PaymentsOf
<1>7. CASE AdjustWrite(r)
  <2>1. x \in Orders BY <1>1, <1>7, InFlightOrder DEF AdjustWrite
  <2>2. Write(r, x, {"adjust"}, Idle) BY <1>7 DEF AdjustWrite, EndHaving
  <2>3. /\ req'[q] = req[q] /\ missed[q] \subseteq missed'[q]
        /\ req[q].order = x => Told(q, "adjust")
    BY <1>1, <2>2, WriteTells
  <2>4. row[o] \in Row BY <1>1 DEF TypeOK
  <2>5. /\ row'[o].status = row[o].status /\ row'[o].subtotal = row[o].subtotal
        /\ row'[o].lines = row[o].lines
        /\ o # x => row'[o] = row[o]
    BY <1>1, <1>7, <2>1, <2>4 DEF AdjustWrite, TypeOK, Row
  <2>6. UNCHANGED payments BY <1>7 DEF AdjustWrite
  <2>. QED BY <1>1, <2>3, <2>5, <2>6, Noninterference DEF Local, Exists, PaymentsOf
<1>8. CASE PayCreate(r)
  <2>1. PICK state : Write(r, x, {"pay"}, state) BY <1>8 DEF PayCreate
  <2>2. /\ req'[q] = req[q] /\ missed[q] \subseteq missed'[q]
        /\ req[q].order = x => Told(q, "pay")
    BY <1>1, <2>1, WriteTells
  <2>3. UNCHANGED row BY <1>8 DEF PayCreate
  <2>4. o # x => PaymentsOf(o)' = PaymentsOf(o) BY <1>8 DEF PayCreate, PaymentsOf
  <2>. QED BY <1>1, <2>2, <2>3, <2>4, Noninterference DEF Local, Exists
<1>9. CASE PayAssign(r)
  <2>1. req'[q] = req[q] /\ missed'[q] = missed[q] /\ UNCHANGED row
    BY <1>1, <1>9 DEF PayAssign, Continue, TypeOK
  <2>2. \A p \in payments' : \E old \in payments : old.order = p.order
    <3>1. \A p \in payments : [p EXCEPT !.announced = TRUE].order = p.order
      BY <1>1 DEF TypeOK, Payment
    <3>2. \A p \in payments' : \E old \in payments :
            p = old \/ p = [old EXCEPT !.announced = TRUE]
      BY <1>9 DEF PayAssign
    <3>. QED BY <3>1, <3>2
  <2>3. PaymentsOf(o) = {} => PaymentsOf(o)' = {} BY <2>2 DEF PaymentsOf
  <2>. QED BY <1>1, <2>1, <2>3, Noninterference DEF Local, Exists
<1>10. CASE DeleteWrite(r)
  <2>1. x \in Orders BY <1>1, <1>10, InFlightOrder DEF DeleteWrite
  <2>2. req'[q] = req[q] /\ missed'[q] = missed[q]
    BY <1>1, <1>10 DEF DeleteWrite, End, Read, TypeOK
  <2>3. row' = [row EXCEPT ![x] = NoRow("DELETED")] BY <1>10 DEF DeleteWrite
  <2>4. CASE o = x
    <3>1. row'[o].status = "DELETED" BY <1>1, <2>1, <2>3, <2>4 DEF TypeOK, NoRow
    <3>. QED BY <1>1, <2>2, <3>1 DEF Local, Exists, OrderStatus
  <2>5. CASE o # x
    <3>1. row'[o] = row[o] BY <1>1, <2>1, <2>3, <2>5 DEF TypeOK
    <3>2. PaymentsOf(o)' = PaymentsOf(o) BY <1>10, <2>5 DEF DeleteWrite, PaymentsOf
    <3>. QED BY <1>1, <2>2, <3>1, <3>2, Noninterference DEF Local, Exists
  <2>. QED BY <2>4, <2>5
<1>. QED BY <1>2, <1>3, <1>4, <1>5, <1>6, <1>7, <1>8, <1>9, <1>10, StepKinds

-----------------------------------------------------------------------------
\* A request that has ended relies on nothing.
LEMMA IdleIsLocal ==
  ASSUME NEW r \in Requests, NEW o \in Orders, req'[r] = Idle
  PROVE  Local(r, o)'
  BY OrderAssumption DEF Local, Idle

\* At a query with no check behind it, the order need only have been created.
LEMMA UncheckedIsLocal ==
  ASSUME NEW r \in Requests, NEW o \in Orders,
         req'[r].pc \in {"slug", "accept", "ready", "pickup", "paySlug", "payAssign", "paySendRead"},
         req'[r].order = o => row'[o].status # "UNISSUED"
  PROVE  Local(r, o)'
  BY DEF Local, ReadStands, UnpaidStands, StatusStands

\* What a request has just checked and read is so.
LEMMA ReadIsLocal ==
  ASSUME IInv, NEW r \in Requests, ReadStep(r), NEW o \in Orders
  PROVE  Local(r, o)'
<1>. USE DEF IInv
<1>1. PICK x \in Orders :
        \/ EditRead(r, x) \/ PayRead(r, x) \/ DeleteRead(r, x)
        \/ \E a \in AdjustmentLists : AdjustRead(r, x, a)
        \/ CancelRead(r, x) \/ SendRead(r, x) \/ AcceptRead(r, x) \/ ReadyRead(r, x) \/ PickupRead(r, x)
  BY DEF ReadStep
<1>2. UNCHANGED <<row, payments>> BY Quiet
<1>3. MayStart(r, x) => row[x].status # "UNISSUED" BY DEF MayStart, Exists, OrderStatus
<1>4. CASE EditRead(r, x)
  <2>1. /\ req'[r] = [Idle EXCEPT !.pc = "edit", !.order = x, !.adjustments = row[x].adjustments]
        /\ row[x].status = "PENDING" /\ MayStart(r, x)
    BY <1>4 DEF EditRead, Read, Editable, TypeOK
  <2>. QED BY <1>2, <1>3, <2>1 DEF Local, ReadStands, UnpaidStands, StatusStands, Idle
<1>5. CASE PayRead(r, x)
  <2>1. /\ req'[r] = [Idle EXCEPT !.pc = "pay", !.order = x, !.amount = row[x].total]
        /\ PaymentsOf(x) = {} /\ MayStart(r, x)
    BY <1>5 DEF PayRead, Read, Payable, TypeOK
  <2>. QED BY <1>2, <1>3, <2>1 DEF Local, ReadStands, UnpaidStands, StatusStands, Idle, PaymentsOf
<1>6. CASE DeleteRead(r, x)
  <2>1. /\ req'[r] = [Idle EXCEPT !.pc = "delete", !.order = x]
        /\ PaymentsOf(x) = {} /\ MayStart(r, x)
    BY <1>6 DEF DeleteRead, Read, Deletable, TypeOK
  <2>. QED BY <1>2, <1>3, <2>1 DEF Local, ReadStands, UnpaidStands, StatusStands, Idle, PaymentsOf
<1>7. CASE \E a \in AdjustmentLists : AdjustRead(r, x, a)
  <2>1. PICK a \in AdjustmentLists : AdjustRead(r, x, a) BY <1>7
  <2>2. /\ req'[r] = [Idle EXCEPT !.pc = "adjust", !.order = x, !.adjustments = a,
                                  !.subtotal = row[x].subtotal]
        /\ PaymentsOf(x) = {} /\ MayStart(r, x)
        /\ row[x].status \in {"PENDING", "PENDING_PROCESSING"}
    BY <2>1 DEF AdjustRead, Read, Adjustable, TypeOK
  <2>. QED BY <1>2, <1>3, <2>2 DEF Local, ReadStands, UnpaidStands, StatusStands, Idle, PaymentsOf
<1>8. CASE CancelRead(r, x)
  <2>1. /\ req'[r] = [Idle EXCEPT !.pc = "cancel", !.order = x]
        /\ row[x].status = "PENDING" /\ MayStart(r, x)
    BY <1>8 DEF CancelRead, StatusRead, Read, Cancellable, TypeOK
  <2>. QED BY <1>2, <1>3, <2>1 DEF Local, ReadStands, UnpaidStands, StatusStands, Idle
<1>9. CASE SendRead(r, x)
  <2>1. /\ req'[r] = [Idle EXCEPT !.pc = "send", !.order = x]
        /\ row[x].status \in {"PENDING", "PENDING_PROCESSING"} /\ MayStart(r, x)
    BY <1>9 DEF SendRead, StatusRead, Read, Sendable, TypeOK
  <2>. QED BY <1>2, <1>3, <2>1 DEF Local, ReadStands, UnpaidStands, StatusStands, Idle
<1>10. CASE AcceptRead(r, x) \/ ReadyRead(r, x) \/ PickupRead(r, x)
  <2>1. PICK op \in {"accept", "ready", "pickup"} :
          req'[r] = [Idle EXCEPT !.pc = op, !.order = x] /\ MayStart(r, x)
    BY <1>10 DEF AcceptRead, ReadyRead, PickupRead, StatusRead, Read, TypeOK
  <2>2. req'[r].pc = op /\ req'[r].order = x BY <2>1 DEF Idle
  <2>. QED BY <1>2, <1>3, <2>1, <2>2, UncheckedIsLocal
<1>. QED BY <1>1, <1>4, <1>5, <1>6, <1>7, <1>8, <1>9, <1>10

LEMMA OwnKeeps ==
  ASSUME IInv, NEW r \in Requests, Act(r), NEW o \in Orders
  PROVE  Local(r, o)'
<1>. DEFINE x == req[r].order
<1>1. TypeOK /\ Local(r, o) BY LocalOfIInv DEF IInv, AllLocal
<1>2. CASE ReadStep(r) BY <1>2, ReadIsLocal
<1>3. CASE EndStep(r) \/ MoveStep(r) \/ EditWrite(r) \/ AdjustWrite(r) \/ DeleteWrite(r)
  <2>1. req'[r] = Idle
    BY <1>1, <1>3
    DEF EndStep, CreateSlug, EditRefused, PayAssignFails, PaySendRefused, OrderVanished, Interrupt,
        MoveStep, StatusWrite, EditWrite, AdjustWrite, DeleteWrite, EndHaving, Write, End, Read, TypeOK
  <2>. QED BY <2>1, IdleIsLocal
<1>4. CASE \E oo \in Orders, c \in Carts, a \in AdjustmentLists : CreateOrder(r, oo, c, a)
  <2>1. PICK oo \in Orders, c \in Carts, a \in AdjustmentLists : CreateOrder(r, oo, c, a) BY <1>4
  <2>2. req'[r].pc = "slug" /\ req'[r].order = oo /\ row'[oo].status = "PENDING"
    BY <1>1, <2>1 DEF CreateOrder, Read, Idle, TypeOK
  <2>. QED BY <2>2, UncheckedIsLocal
<1>5. CASE \E c \in Carts : EditDeleteItems(r, c)
  <2>1. PICK c \in Carts : EditDeleteItems(r, c) BY <1>5
  <2>2. x \in Orders BY <1>1, <2>1, InFlightOrder DEF EditDeleteItems
  <2>3. /\ req'[r] = [req[r] EXCEPT !.pc = "editWrite", !.items = c]
        /\ missed'[r] = missed[r] \ {"edit"}
    BY <1>1, <2>1 DEF EditDeleteItems, TypeOK
  <2>4. /\ req'[r].pc = "editWrite" /\ req'[r].order = x
        /\ req'[r].adjustments = req[r].adjustments /\ req[r].pc = "edit"
    BY <1>1, <2>1, <2>3 DEF EditDeleteItems, TypeOK, Request
  <2>5. row'[x] = [row[x] EXCEPT !.lines = <<>>] BY <1>1, <2>1, <2>2 DEF EditDeleteItems, TypeOK
  <2>6. /\ row'[x].status = row[x].status /\ row'[x].adjustments = row[x].adjustments
        /\ row'[x].lines = <<>>
    BY <1>1, <2>2, <2>5 DEF TypeOK, Row
  <2>. QED BY <1>1, <2>3, <2>4, <2>6 DEF Local, Exists, ReadStands, UnpaidStands, StatusStands
<1>6. CASE PaySlug(r) \/ PayAssign(r) \/ PayCreate(r)
  <2>1. PICK next \in {"paySlug", "payAssign", "paySendRead"} :
          \/ req'[r] = [req[r] EXCEPT !.pc = next]
          \/ req'[r] = [Idle EXCEPT !.pc = next, !.order = x]
    <3>1. PaySlug(r) \/ PayAssign(r) => \E next \in {"payAssign", "paySendRead"} :
            req'[r] = [req[r] EXCEPT !.pc = next]
      BY <1>1 DEF PaySlug, PayAssign, Continue, TypeOK
    <3>2. PayCreate(r) => req'[r] = [Idle EXCEPT !.pc = "paySlug", !.order = x]
      BY <1>1 DEF PayCreate, Write, TypeOK
    <3>. QED BY <1>6, <3>1, <3>2
  <2>2. req[r] \in Request BY <1>1 DEF TypeOK
  <2>3. req'[r].pc = next /\ req'[r].order = x BY <2>1, <2>2 DEF Idle, Request
  <2>4. UNCHANGED row BY <1>6 DEF PaySlug, PayAssign, PayCreate
  <2>. QED BY <1>1, <2>3, <2>4, UncheckedIsLocal DEF Local
<1>7. CASE PaySendRead(r)
  <2>1. req'[r].pc = "paySend" /\ req'[r].order = x /\ UNCHANGED row /\ row[x].status \in Sendable
    BY <1>1, <1>7 DEF PaySendRead, Read, TypeOK, Request
  <2>. QED BY <1>1, <2>1 DEF Local, ReadStands, UnpaidStands, StatusStands, Sendable
<1>. QED BY <1>2, <1>3, <1>4, <1>5, <1>6, <1>7, StepKinds

LEMMA LocalStep ==
  ASSUME IInv, NEW r \in Requests, Act(r) PROVE AllLocal'
<1>1. \A q \in Requests, o \in Orders : Local(q, o)' BY OthersKeep, OwnKeeps
<1>. QED BY <1>1 DEF AllLocal

(***************************************************************************)
(* The tables.                                                             *)
(***************************************************************************)

\* How a step can change the status of an order.
LEMMA StatusStep ==
  ASSUME TypeOK, NEW r \in Requests, Act(r), NEW o \in Orders
  PROVE  \/ row'[o].status = row[o].status
         \/ row[o].status = "UNISSUED" /\ row'[o].status = "PENDING" /\ UNCHANGED payments
         \/ /\ MoveStep(r) /\ o = req[r].order /\ Exists(o)
            /\ row'[o].status \in OrderStatus \ {"PENDING"}
         \/ DeleteWrite(r) /\ o = req[r].order /\ row'[o].status = "DELETED"
<1>. DEFINE x == req[r].order
<1>1. row[o] \in Row BY DEF TypeOK
<1>2. CASE ReadStep(r) \/ EndStep(r) \/ PaySlug(r) \/ PaySendRead(r) \/ PayCreate(r) \/ PayAssign(r)
  <2>1. UNCHANGED row BY <1>2, Quiet DEF PayCreate, PayAssign
  <2>. QED BY <2>1
<1>3. CASE \E oo \in Orders, c \in Carts, a \in AdjustmentLists : CreateOrder(r, oo, c, a)
  BY <1>3 DEF CreateOrder, TypeOK
<1>4. CASE MoveStep(r)
  <2>1. PICK op \in Moving, st \in OrderStatus \ {"PENDING"} : StatusWrite(r, op, st)
    BY <1>4 DEF MoveStep
  <2>2. x \in Orders BY <2>1, InFlightOrder DEF StatusWrite, Moving
  <2>3. row' = [row EXCEPT ![x].status = st] /\ Exists(x) BY <2>1 DEF StatusWrite
  <2>. QED BY <1>1, <1>4, <2>2, <2>3 DEF TypeOK, Row
<1>5. CASE \E c \in Carts : EditDeleteItems(r, c)
  <2>1. PICK c \in Carts : EditDeleteItems(r, c) BY <1>5
  <2>. QED BY <1>1, <2>1, InFlightOrder DEF EditDeleteItems, TypeOK, Row
<1>6. CASE EditWrite(r)
  BY <1>1, <1>6, InFlightOrder DEF EditWrite, TypeOK, Row
<1>7. CASE AdjustWrite(r)
  BY <1>1, <1>7, InFlightOrder DEF AdjustWrite, TypeOK, Row
<1>8. CASE DeleteWrite(r)
  BY <1>8, InFlightOrder DEF DeleteWrite, TypeOK, NoRow
<1>. QED BY <1>2, <1>3, <1>4, <1>5, <1>6, <1>7, <1>8, StepKinds

\* Where the payments after a step come from.
LEMMA PaymentStep ==
  ASSUME TypeOK, NEW r \in Requests, Act(r), NEW p \in payments'
  PROVE  \/ PayCreate(r) /\ p.order = req[r].order /\ p.by = r
         \/ \E old \in payments :
              /\ old.order = p.order /\ old.by = p.by
              /\ old.announced => p.announced
              /\ PayAssign(r) /\ p.by = r /\ p.order = req[r].order => p.announced
<1>1. CASE PayCreate(r)
  <2>1. ~PayAssign(r) BY <1>1 DEF PayCreate, PayAssign
  <2>. QED BY <1>1, <2>1 DEF PayCreate
<1>2. CASE PayAssign(r)
  <2>1. PICK old \in payments :
          p = IF old.by = r /\ old.order = req[r].order THEN [old EXCEPT !.announced = TRUE] ELSE old
    BY <1>2 DEF PayAssign
  <2>2. old \in Payment BY DEF TypeOK
  <2>3. old.order = p.order /\ old.by = p.by
    BY <2>1, <2>2 DEF Payment
  <2>4. (old.by = r /\ old.order = req[r].order => p.announced) /\ (old.announced => p.announced)
    BY <2>1, <2>2 DEF Payment
  <2>. QED BY <2>3, <2>4
<1>3. CASE ~PayCreate(r) /\ ~PayAssign(r)
  <2>1. p \in payments
    BY <1>3, StepKinds, Quiet
    DEF CreateOrder, MoveStep, StatusWrite, EditDeleteItems, EditWrite, AdjustWrite, DeleteWrite
  <2>. QED BY <1>3, <2>1
<1>. QED BY <1>1, <1>2, <1>3

LEMMA PaymentsHaveOrdersStep ==
  ASSUME IInv, NEW r \in Requests, Act(r), NEW p \in payments' PROVE Exists(p.order)'
<1>. USE DEF IInv
<1>1. TypeOK' BY CallType, StepType, EndingType DEF Act
<1>2. p.order \in Orders BY <1>1 DEF TypeOK, Payment
<1>3. CASE PayCreate(r) /\ p.order = req[r].order
  BY <1>3 DEF PayCreate, Exists
<1>4. CASE \E old \in payments : old.order = p.order
  <2>1. Exists(p.order) BY <1>4 DEF ReferencesResolve
  <2>2. DeleteWrite(r) => p.order # req[r].order
    BY DEF DeleteWrite, PaymentsOf
  <2>. QED BY <1>2, <2>1, <2>2, StatusStep DEF Exists, OrderStatus
<1>. QED BY <1>3, <1>4, PaymentStep

-----------------------------------------------------------------------------
\* A write that computes from what it read writes the right total, or is marked.
LEMMA PriceStep ==
  ASSUME IInv, NEW r \in Requests, Act(r) PROVE PriceIsConsistent'
<1>. DEFINE x == req[r].order
            Right(o) == row[o].total \in TotalAmounts(row[o].subtotal, row[o].adjustments)
<1>1. TypeOK /\ AllLocal /\ \A o \in Orders : Exists(o) /\ o \notin priceRaced => Right(o)
  BY LocalOfIInv DEF IInv, PriceIsConsistent
<1>. SUFFICES ASSUME NEW o \in Orders, Exists(o)', o \notin priceRaced' PROVE Right(o)'
  BY DEF PriceIsConsistent
<1>2. row[o] \in Row BY <1>1 DEF TypeOK
<1>3. CASE \/ ReadStep(r) \/ EndStep(r) \/ PaySlug(r) \/ PaySendRead(r)
           \/ PayCreate(r) \/ PayAssign(r)
  <2>1. UNCHANGED <<row, priceRaced>> BY <1>1, <1>3, Quiet DEF PayCreate, PayAssign
  <2>. QED BY <1>1, <2>1 DEF Exists
<1>4. CASE \E oo \in Orders, c \in Carts, a \in AdjustmentLists : CreateOrder(r, oo, c, a)
  BY <1>1, <1>4 DEF CreateOrder, TypeOK, Exists
<1>5. CASE MoveStep(r)
  <2>1. PICK op \in Moving, st \in OrderStatus \ {"PENDING"} : StatusWrite(r, op, st)
    BY <1>5 DEF MoveStep
  <2>2. x \in Orders BY <1>1, <2>1, InFlightOrder DEF StatusWrite, Moving
  <2>. QED BY <1>1, <1>2, <2>1, <2>2 DEF StatusWrite, TypeOK, Row, Exists
<1>6. CASE \E c \in Carts : EditDeleteItems(r, c)
  <2>1. PICK c \in Carts : EditDeleteItems(r, c) BY <1>6
  <2>. QED BY <1>1, <1>2, <2>1, InFlightOrder DEF EditDeleteItems, TypeOK, Row, Exists
<1>7. CASE EditWrite(r)
  <2>1. x \in Orders /\ Exists(x) BY <1>1, <1>7, InFlightOrder DEF EditWrite
  <2>2. CASE o # x
    <3>1. row'[o] = row[o] /\ o \notin priceRaced BY <1>1, <1>7, <2>1, <2>2 DEF EditWrite, TypeOK
    <3>. QED BY <1>1, <3>1 DEF Exists
  <2>3. CASE o = x
    <3>1. "adjust" \notin missed[r] BY <1>7, <2>3 DEF EditWrite
    <3>2. req[r].adjustments = row[x].adjustments
      BY <1>1, <1>7, <2>1, <3>1 DEF AllLocal, Local, ReadStands, EditWrite
    <3>3. /\ row'[x].subtotal = Subtotal(req[r].items)
          /\ row'[x].total \in TotalAmounts(Subtotal(req[r].items), req[r].adjustments)
          /\ row'[x].adjustments = row[x].adjustments
      BY <1>1, <1>2, <1>7, <2>1, <2>3 DEF EditWrite, EditedTotals, TypeOK, Row
    <3>. QED BY <2>3, <3>2, <3>3
  <2>. QED BY <2>2, <2>3
<1>8. CASE AdjustWrite(r)
  <2>1. x \in Orders /\ Exists(x) BY <1>1, <1>8, InFlightOrder DEF AdjustWrite
  <2>2. CASE o # x
    <3>1. row'[o] = row[o] /\ o \notin priceRaced BY <1>1, <1>8, <2>1, <2>2 DEF AdjustWrite, TypeOK
    <3>. QED BY <1>1, <3>1 DEF Exists
  <2>3. CASE o = x
    <3>1. "edit" \notin missed[r] BY <1>8, <2>3 DEF AdjustWrite
    <3>2. req[r].subtotal = row[x].subtotal
      BY <1>1, <1>8, <2>1, <3>1 DEF AllLocal, Local, ReadStands, AdjustWrite
    <3>3. /\ row'[x].subtotal = row[x].subtotal
          /\ row'[x].total \in TotalAmounts(req[r].subtotal, req[r].adjustments)
          /\ row'[x].adjustments = req[r].adjustments
      BY <1>1, <1>2, <1>8, <2>1, <2>3 DEF AdjustWrite, TypeOK, Row
    <3>. QED BY <2>3, <3>2, <3>3
  <2>. QED BY <2>2, <2>3
<1>9. CASE DeleteWrite(r)
  <2>1. o # x BY <1>1, <1>9, InFlightOrder DEF DeleteWrite, TypeOK, NoRow, Exists, OrderStatus
  <2>. QED BY <1>1, <1>9, <2>1, InFlightOrder DEF DeleteWrite, TypeOK, Exists
<1>. QED BY <1>3, <1>4, <1>5, <1>6, <1>7, <1>8, <1>9, StepKinds

\* An edit fills the gap it made, or is marked.
LEMMA LinesStep ==
  ASSUME IInv, NEW r \in Requests, Act(r) PROVE LinesMatchSubtotal'
<1>. DEFINE x == req[r].order
            Editor(o) == \E q \in Requests : req[q].order = o /\ req[q].pc = "editWrite"
            Match(o) == \E c \in Carts : row[o].lines = <<c>> /\ row[o].subtotal = Subtotal(c)
<1>1. TypeOK /\ AllLocal BY LocalOfIInv DEF IInv
<1>. SUFFICES ASSUME NEW o \in Orders, Exists(o)', o \notin linesRaced'
     PROVE  Editor(o)' \/ Match(o)'
  BY DEF LinesMatchSubtotal
<1>2. Exists(o) /\ o \notin linesRaced => Editor(o) \/ Match(o) BY DEF IInv, LinesMatchSubtotal
<1>3. row[o] \in Row BY <1>1 DEF TypeOK
<1>4. \* Whoever is not r goes on editing.
      ASSUME NEW q \in Requests \ {r}, req[q].order = o, req[q].pc = "editWrite", req'[q] = req[q]
      PROVE  Editor(o)'
  BY <1>4
<1>5. CASE ReadStep(r) \/ EndStep(r) \/ PaySlug(r) \/ PaySendRead(r)
  <2>1. /\ UNCHANGED row /\ o \notin linesRaced
        /\ \A q \in Requests \ {r} : req'[q] = req[q]
    BY <1>1, <1>5, Quiet
  <2>2. x = o => req[r].pc # "editWrite"
    BY <1>5, <2>1
    DEF ReadStep, EditRead, PayRead, DeleteRead, AdjustRead, CancelRead, SendRead, AcceptRead,
        ReadyRead, PickupRead, StatusRead, MayStart, EndStep, CreateSlug, EditRefused, PayAssignFails,
        PaySendRefused, OrderVanished, Interrupt, PaySlug, PaySendRead, Exists
  <2>. QED BY <1>2, <1>4, <2>1, <2>2 DEF Exists
<1>6. CASE PayCreate(r) \/ PayAssign(r)
  <2>1. UNCHANGED <<row, linesRaced>> /\ req[r].pc # "editWrite"
    BY <1>6 DEF PayCreate, PayAssign
  <2>2. \A q \in Requests \ {r} : req'[q] = req[q]
    BY <1>1, <1>6 DEF PayCreate, PayAssign, Write, Continue, TypeOK
  <2>. QED BY <1>2, <1>4, <2>1, <2>2 DEF Exists
<1>7. CASE \E oo \in Orders, c \in Carts, a \in AdjustmentLists : CreateOrder(r, oo, c, a)
  <2>1. PICK oo \in Orders, c \in Carts, a \in AdjustmentLists : CreateOrder(r, oo, c, a) BY <1>7
  <2>2. /\ req[r].pc = "idle" /\ UNCHANGED linesRaced
        /\ \A q \in Requests \ {r} : req'[q] = req[q]
    BY <1>1, <2>1 DEF CreateOrder, Read, TypeOK
  <2>3. CASE o = oo BY <1>1, <2>1, <2>3 DEF CreateOrder, TypeOK
  <2>4. CASE o # oo
    <3>1. row'[o] = row[o] BY <1>1, <2>1, <2>4 DEF CreateOrder, TypeOK
    <3>. QED BY <1>2, <1>4, <2>2, <3>1 DEF Exists
  <2>. QED BY <2>3, <2>4
<1>8. CASE MoveStep(r)
  <2>1. PICK op \in Moving, st \in OrderStatus \ {"PENDING"} : StatusWrite(r, op, st)
    BY <1>8 DEF MoveStep
  <2>2. x \in Orders BY <1>1, <2>1, InFlightOrder DEF StatusWrite, Moving
  <2>3. /\ row'[o].lines = row[o].lines /\ row'[o].subtotal = row[o].subtotal
        /\ Exists(o) /\ UNCHANGED linesRaced /\ req[r].pc # "editWrite"
    BY <1>1, <1>3, <2>1, <2>2 DEF StatusWrite, TypeOK, Row, Exists, Moving
  <2>4. \A q \in Requests \ {r} : req'[q] = req[q]
    BY <1>1, <2>1 DEF StatusWrite, EndHaving, Write, TypeOK
  <2>. QED BY <1>2, <1>4, <2>3, <2>4
<1>9. CASE \E c \in Carts : EditDeleteItems(r, c)
  <2>1. PICK c \in Carts : EditDeleteItems(r, c) BY <1>9
  <2>2. x \in Orders BY <1>1, <2>1, InFlightOrder DEF EditDeleteItems
  <2>3. /\ UNCHANGED linesRaced /\ req[r].pc # "editWrite"
        /\ req'[r].order = x /\ req'[r].pc = "editWrite"
        /\ \A q \in Requests \ {r} : req'[q] = req[q]
    BY <1>1, <2>1 DEF EditDeleteItems, TypeOK, Request
  <2>4. o # x => row'[o] = row[o] BY <1>1, <2>1, <2>2 DEF EditDeleteItems, TypeOK
  <2>. QED BY <1>2, <1>4, <2>3, <2>4 DEF Exists
<1>10. CASE EditWrite(r)
  <2>1. x \in Orders /\ Exists(x) BY <1>1, <1>10, InFlightOrder DEF EditWrite
  <2>2. req[r].pc = "editWrite" /\ req[r].items \in Carts BY <1>1, <1>10 DEF EditWrite, TypeOK, Sound
  <2>3. CASE o = x
    <3>1. "edit" \notin missed[r] BY <1>10, <2>3 DEF EditWrite
    <3>2. row[x].lines = <<>> BY <1>1, <2>1, <2>2, <3>1 DEF AllLocal, Local, ReadStands
    <3>3. /\ row'[x].lines = Append(row[x].lines, req[r].items)
          /\ row'[x].subtotal = Subtotal(req[r].items)
      BY <1>1, <1>3, <1>10, <2>1, <2>3 DEF EditWrite, TypeOK, Row
    <3>4. row'[x].lines = <<req[r].items>> BY <3>2, <3>3
    <3>. QED BY <2>2, <2>3, <3>3, <3>4
  <2>4. CASE o # x
    <3>1. row'[o] = row[o] /\ o \notin linesRaced BY <1>1, <1>10, <2>1, <2>4 DEF EditWrite, TypeOK
    <3>2. \A q \in Requests \ {r} : req'[q] = req[q]
      BY <1>1, <1>10 DEF EditWrite, EndHaving, Write, TypeOK
    <3>. QED BY <1>2, <1>4, <2>4, <3>1, <3>2 DEF Exists
  <2>. QED BY <2>3, <2>4
<1>11. CASE AdjustWrite(r)
  <2>1. x \in Orders BY <1>1, <1>11, InFlightOrder DEF AdjustWrite
  <2>2. /\ row'[o].lines = row[o].lines /\ row'[o].subtotal = row[o].subtotal
        /\ row'[o].status = row[o].status /\ UNCHANGED linesRaced /\ req[r].pc # "editWrite"
    BY <1>1, <1>3, <1>11, <2>1 DEF AdjustWrite, TypeOK, Row
  <2>3. \A q \in Requests \ {r} : req'[q] = req[q]
    BY <1>1, <1>11 DEF AdjustWrite, EndHaving, Write, TypeOK
  <2>. QED BY <1>2, <1>4, <2>2, <2>3 DEF Exists
<1>12. CASE DeleteWrite(r)
  <2>1. o # x BY <1>1, <1>12, InFlightOrder DEF DeleteWrite, TypeOK, NoRow, Exists, OrderStatus
  <2>2. /\ row'[o] = row[o] /\ UNCHANGED linesRaced
        /\ \A q \in Requests \ {r} : req'[q] = req[q]
    BY <1>1, <1>12, <2>1, InFlightOrder DEF DeleteWrite, TypeOK, End, Read
  <2>. QED BY <1>2, <1>4, <2>1, <2>2 DEF Exists
<1>. QED BY <1>5, <1>6, <1>7, <1>8, <1>9, <1>10, <1>11, <1>12, StepKinds

-----------------------------------------------------------------------------
LEMMA OthersUnmoved ==
  ASSUME TypeOK, NEW r \in Requests, Act(r)
  PROVE  /\ \A q \in Requests \ {r} : req'[q] = req[q]
         /\ abandoned \subseteq abandoned'
<1>1. CASE ReadStep(r) \/ EndStep(r) \/ PaySlug(r) \/ PaySendRead(r) BY <1>1, Quiet
<1>2. CASE ~(ReadStep(r) \/ EndStep(r) \/ PaySlug(r) \/ PaySendRead(r))
  <2>1. UNCHANGED abandoned
    BY <1>2, StepKinds
    DEF CreateOrder, MoveStep, StatusWrite, EditDeleteItems, EditWrite, AdjustWrite, PayCreate,
        PayAssign, DeleteWrite
  <2>2. \A q \in Requests \ {r} : req'[q] = req[q]
    BY <1>2, StepKinds
    DEF CreateOrder, MoveStep, StatusWrite, EditDeleteItems, EditWrite, AdjustWrite, PayCreate,
        PayAssign, DeleteWrite, EndHaving, Write, Continue, End, Read, TypeOK
  <2>. QED BY <2>1, <2>2
<1>. QED BY <1>1, <1>2

\* The payment route, from the record of the payment to its last query.
LEMMA PayingStep ==
  ASSUME TypeOK, NEW r \in Requests, Act(r), req[r].pc \in Paying, Exists(req[r].order)
  PROVE  \/ PayAssign(r) /\ req'[r].pc = "paySendRead" /\ req'[r].order = req[r].order
         \/ PaySlug(r) /\ req'[r].pc = "payAssign" /\ req'[r].order = req[r].order
         \/ PaySendRead(r) /\ req'[r].pc = "paySend" /\ req'[r].order = req[r].order
         \/ req[r].pc = "paySendRead" /\ row[req[r].order].status # "PENDING" /\ UNCHANGED row
         \/ req[r].pc = "paySend" /\ MoveStep(r)
         \/ req[r].order \in abandoned'
<1>1. \/ PaySlug(r) \/ PayAssign(r) \/ PayAssignFails(r) \/ PaySendRead(r) \/ PaySendRefused(r)
      \/ MoveStep(r) /\ req[r].pc = "paySend"
      \/ Interrupt(r)
  <2>1. ReadStep(r) => req[r].pc = "idle"
    BY DEF ReadStep, EditRead, PayRead, DeleteRead, AdjustRead, CancelRead, SendRead, AcceptRead,
           ReadyRead, PickupRead, StatusRead, MayStart
  <2>2. EndStep(r) => PayAssignFails(r) \/ PaySendRefused(r) \/ Interrupt(r)
    BY DEF EndStep, CreateSlug, EditRefused, OrderVanished, Paying
  <2>3. MoveStep(r) => req[r].pc = "paySend"
    BY DEF MoveStep, StatusWrite, Moving, Paying
  <2>4. /\ \A o \in Orders, c \in Carts, a \in AdjustmentLists : ~CreateOrder(r, o, c, a)
        /\ \A c \in Carts : ~EditDeleteItems(r, c)
        /\ ~EditWrite(r) /\ ~AdjustWrite(r) /\ ~PayCreate(r) /\ ~DeleteWrite(r)
    BY DEF Paying, CreateOrder, EditDeleteItems, EditWrite, AdjustWrite, PayCreate, DeleteWrite
  <2>5. req[r].pc # "idle" BY DEF Paying
  <2>6. ~ReadStep(r) BY <2>1, <2>5
  <2>. QED BY <2>2, <2>3, <2>4, <2>6, StepKinds
<1>2. req[r] \in Request BY DEF TypeOK
<1>3. CASE PaySlug(r) BY <1>2, <1>3 DEF PaySlug, Continue, TypeOK, Request
<1>4. CASE PayAssign(r) BY <1>2, <1>4 DEF PayAssign, Continue, TypeOK, Request
<1>5. CASE PaySendRead(r) BY <1>2, <1>5 DEF PaySendRead, Read, TypeOK, Request
<1>6. CASE PayAssignFails(r) \/ Interrupt(r) BY <1>6 DEF PayAssignFails, Interrupt, Paying
<1>7. CASE PaySendRefused(r) BY <1>7 DEF PaySendRefused, Sendable
<1>. QED BY <1>1, <1>3, <1>4, <1>5, <1>6, <1>7

LEMMA PendingStep ==
  ASSUME IInv, NEW r \in Requests, Act(r) PROVE PaidPendingIsInFlight'
<1>. SUFFICES ASSUME NEW p \in payments', row'[p.order].status = "PENDING"
     PROVE  \/ p.order \in abandoned'
            \/ req'[p.by].order = p.order /\ req'[p.by].pc \in Paying
  BY DEF PaidPendingIsInFlight
<1>1. TypeOK BY DEF IInv
<1>2. CASE PayCreate(r) /\ p.order = req[r].order /\ p.by = r
  BY <1>1, <1>2 DEF PayCreate, Write, Idle, Paying, TypeOK
<1>3. CASE \E old \in payments : old.order = p.order /\ old.by = p.by
  <2>1. PICK old \in payments : old.order = p.order /\ old.by = p.by BY <1>3
  <2>2. old \in Payment BY <1>1 DEF TypeOK
  <2>3. p.order \in Orders /\ p.by \in Requests BY <2>1, <2>2 DEF Payment
  <2>4. Exists(p.order) BY <2>1 DEF IInv, ReferencesResolve
  <2>5. row[p.order].status = "PENDING"
    BY <1>1, <2>3, <2>4, StatusStep DEF Exists, OrderStatus
  <2>6. \/ p.order \in abandoned
        \/ req[p.by].order = p.order /\ req[p.by].pc \in Paying
    BY <2>1, <2>5 DEF IInv, PaidPendingIsInFlight
  <2>7. CASE p.order \in abandoned \/ p.by # r BY <1>1, <2>3, <2>6, <2>7, OthersUnmoved
  <2>8. CASE p.by = r /\ req[r].order = p.order /\ req[r].pc \in Paying
    <3>1. ~MoveStep(r)
      <4>1. ASSUME NEW op \in Moving, NEW st \in OrderStatus \ {"PENDING"}, StatusWrite(r, op, st)
            PROVE  row'[p.order].status = st
        BY <1>1, <2>3, <2>8, <4>1 DEF StatusWrite, TypeOK, Row
      <4>. QED BY <4>1 DEF MoveStep
    <3>. QED BY <1>1, <2>4, <2>5, <2>8, <3>1, PayingStep DEF Paying
  <2>. QED BY <2>6, <2>7, <2>8
<1>. QED BY <1>1, <1>2, <1>3, PaymentStep

LEMMA AnnouncedStep ==
  ASSUME IInv, NEW r \in Requests, Act(r) PROVE EveryPaymentAnnounced'
<1>. SUFFICES ASSUME NEW p \in payments', ~p.announced
     PROVE  \/ p.order \in abandoned'
            \/ req'[p.by].order = p.order /\ req'[p.by].pc \in {"paySlug", "payAssign"}
  BY DEF EveryPaymentAnnounced
<1>1. TypeOK BY DEF IInv
<1>2. CASE PayCreate(r) /\ p.order = req[r].order /\ p.by = r
  BY <1>1, <1>2 DEF PayCreate, Write, Idle, TypeOK
<1>3. CASE ~(PayCreate(r) /\ p.order = req[r].order /\ p.by = r)
  <2>1. PICK old \in payments :
          /\ old.order = p.order /\ old.by = p.by /\ (old.announced => p.announced)
          /\ PayAssign(r) /\ p.by = r /\ p.order = req[r].order => p.announced
    BY <1>1, <1>3, PaymentStep
  <2>2. old \in Payment BY <1>1 DEF TypeOK
  <2>3. p.order \in Orders /\ p.by \in Requests BY <2>1, <2>2 DEF Payment
  <2>4. Exists(p.order) BY <2>1 DEF IInv, ReferencesResolve
  <2>5. \/ p.order \in abandoned
        \/ req[p.by].order = p.order /\ req[p.by].pc \in {"paySlug", "payAssign"}
    BY <2>1 DEF IInv, EveryPaymentAnnounced
  <2>6. CASE p.order \in abandoned \/ p.by # r BY <1>1, <2>3, <2>5, <2>6, OthersUnmoved
  <2>7. CASE p.by = r /\ req[r].order = p.order /\ req[r].pc \in {"paySlug", "payAssign"}
    BY <1>1, <2>1, <2>4, <2>7, PayingStep DEF Paying, PaySendRead
  <2>. QED BY <2>5, <2>6, <2>7
<1>. QED BY <1>2, <1>3

(***************************************************************************)
(* The theorems.                                                           *)
(***************************************************************************)

\* Every step keeps the inductive invariant.
LEMMA NextIInv == IInv /\ [Next]_vars => IInv'
<1>1. ASSUME IInv, Next PROVE IInv'
  <2>1. PICK r \in Requests : Act(r) BY <1>1 DEF Next, Act
  <2>2. TypeOK' BY <1>1, NextType DEF IInv
  <2>3. AllLocal' BY <1>1, <2>1, LocalStep
  <2>4. \A p \in payments' : Exists(p.order)' BY <1>1, <2>1, PaymentsHaveOrdersStep
  <2>5. /\ PriceIsConsistent' /\ LinesMatchSubtotal'
        /\ PaidPendingIsInFlight' /\ EveryPaymentAnnounced'
    BY <1>1, <2>1, PriceStep, LinesStep, PendingStep, AnnouncedStep
  <2>. QED BY <2>2, <2>3, <2>4, <2>5, IInvOfLocalNext
<1>2. ASSUME IInv, UNCHANGED vars PROVE IInv'
  <2>1. UNCHANGED <<row, payments, req, missed, priceRaced, linesRaced, abandoned>>
    BY <1>2 DEF vars
  <2>2. TypeOK' BY <1>2, NextType DEF IInv
  <2>3. AllLocal'
    BY <1>2, <2>1, LocalOfIInv
    DEF AllLocal, Local, Exists, ReadStands, UnpaidStands, StatusStands, PaymentsOf
  <2>4. (\A p \in payments' : Exists(p.order)') /\ PriceIsConsistent' /\ LinesMatchSubtotal'
    BY <1>2, <2>1 DEF IInv, ReferencesResolve, PriceIsConsistent, LinesMatchSubtotal, Exists
  <2>5. PaidPendingIsInFlight' /\ EveryPaymentAnnounced'
    BY <1>2, <2>1 DEF IInv, PaidPendingIsInFlight, EveryPaymentAnnounced
  <2>. QED BY <2>2, <2>3, <2>4, <2>5, IInvOfLocalNext
<1>. QED BY <1>1, <1>2

\* The inductive invariant holds of the service, whatever overlaps and whatever
\* is interrupted.
THEOREM Safety == Spec => []IInv
  BY InitIInv, NextIInv, PTL DEF Spec

\* Deleting an order leaves no payment behind, and no handler works on an order
\* that was never created (deleteOrder's cascade, submitOrderPayment's insert).
THEOREM ReferencesTheorem == Spec => []ReferencesResolve
<1>1. IInv => ReferencesResolve BY DEF IInv
<1>. QED BY <1>1, Safety, PTL

\* The total of an order is what its items and adjustments call for, unless its
\* last edit and adjustment overlapped (editOrder, updatePricingAdjustments).
THEOREM PriceTheorem == Spec => []PriceIsConsistent
<1>1. IInv => PriceIsConsistent BY DEF IInv
<1>. QED BY <1>1, Safety, PTL

\* The items of an order add up to its subtotal, but for the gap of editOrder
\* and what overlapping or interrupted edits leave.
THEOREM LinesTheorem == Spec => []LinesMatchSubtotal
<1>1. IInv => LinesMatchSubtotal BY DEF IInv
<1>. QED BY <1>1, Safety, PTL

\* What a handler read, found unpaid, or found in a status, is still so when it
\* writes, unless another request changed exactly that after the read.
THEOREM ChecksTheorem == Spec => []ReadsAndChecksHold
<1>1. IInv => ReadsAndChecksHold BY DEF IInv, ReadsAndChecksHold
<1>. QED BY <1>1, Safety, PTL

\* A paid order is PENDING only while its payment route runs or after it broke off
\* (the payment route).
THEOREM PaymentRouteTheorem == Spec => []PaidPendingIsInFlight
<1>1. IInv => PaidPendingIsInFlight BY DEF IInv
<1>. QED BY <1>1, Safety, PTL

\* Every payment is announced, or its request still is to do so, or broke off
\* (submitOrderPayment).
THEOREM AnnouncedTheorem == Spec => []EveryPaymentAnnounced
<1>1. IInv => EveryPaymentAnnounced BY DEF IInv
<1>. QED BY <1>1, Safety, PTL

\* deleteOrder removes a paid order only when the payment came after its check.
THEOREM PaidOrderTheorem == Spec => PaidOrderLostOnlyToRace
<1>1. ASSUME IInv, Next, NEW o \in Orders, PaymentsOf(o) # {}, row'[o].status = "DELETED"
      PROVE  \E r \in Requests :
               req[r].order = o /\ req[r].pc = "delete" /\ "pay" \in missed[r]
  <2>1. PICK r \in Requests : Act(r) BY <1>1 DEF Next, Act
  <2>2. TypeOK /\ Exists(o) BY <1>1 DEF IInv, ReferencesResolve, PaymentsOf
  <2>3. DeleteWrite(r) /\ o = req[r].order
    BY <1>1, <2>1, <2>2, StatusStep DEF Exists, OrderStatus
  <2>4. req[r].pc = "delete" BY <2>3 DEF DeleteWrite
  <2>5. "pay" \in missed[r]
    BY <1>1, <2>2, <2>3, <2>4 DEF IInv, PaymentChecksHold, WorksOn, UnpaidStands
  <2>. QED BY <2>3, <2>4, <2>5
<1>2. IInv /\ [Next]_vars =>
        [\A o \in Orders :
           PaymentsOf(o) # {} /\ row'[o].status = "DELETED"
             => \E r \in Requests :
                  req[r].order = o /\ req[r].pc = "delete" /\ "pay" \in missed[r]]_vars
  BY <1>1
<1>. QED BY <1>2, Safety, PTL DEF Spec, PaidOrderLostOnlyToRace

\* An order past PENDING is cancelled, and a cancelled order sent back to
\* production, only by a request that missed the change of status
\* (cancelOrder, sendOrderToProduction).
THEOREM CancellationTheorem == Spec => CancellationOnlyRaces
<1>. DEFINE raced(o, pcs) == \E r \in Requests :
              req[r].order = o /\ req[r].pc \in pcs /\ "status" \in missed[r]
            LateCancel(o) == row'[o].status = "CANCELLED" /\ row[o].status \notin {"PENDING", "CANCELLED"}
            Revival(o) == row[o].status = "CANCELLED" /\ row'[o].status = "PENDING_PROCESSING"
<1>1. ASSUME IInv, Next, NEW o \in Orders, LateCancel(o) \/ Revival(o)
      PROVE  (LateCancel(o) => raced(o, {"cancel"})) /\ (Revival(o) => raced(o, {"send", "paySend"}))
  <2>1. PICK r \in Requests : Act(r) BY <1>1 DEF Next, Act
  <2>2. TypeOK BY <1>1 DEF IInv
  <2>3. MoveStep(r) /\ o = req[r].order /\ Exists(o) BY <1>1, <2>1, <2>2, StatusStep
  <2>4. PICK op \in Moving, st \in OrderStatus \ {"PENDING"} :
          /\ StatusWrite(r, op, st)
          /\ st = "CANCELLED" => op = "cancel"
          /\ st = "PENDING_PROCESSING" => op \in {"send", "paySend"}
    BY <2>3 DEF MoveStep
  <2>5. row'[o].status = st /\ req[r].pc = op
    BY <2>2, <2>3, <2>4 DEF StatusWrite, TypeOK, Row
  <2>6. "status" \notin missed[r] => StatusStands(r, o)
    BY <1>1, <2>3 DEF IInv, StatusChecksHold, WorksOn
  <2>7. LateCancel(o) => op = "cancel" /\ "status" \in missed[r]
    BY <2>4, <2>5, <2>6 DEF StatusStands
  <2>8. Revival(o) => op \in {"send", "paySend"} /\ "status" \in missed[r]
    BY <2>4, <2>5, <2>6 DEF StatusStands
  <2>. QED BY <2>3, <2>5, <2>7, <2>8
<1>2. IInv /\ [Next]_vars =>
        [\A o \in Orders :
           /\ LateCancel(o) => raced(o, {"cancel"})
           /\ Revival(o) => raced(o, {"send", "paySend"})]_vars
  BY <1>1
<1>. QED BY <1>2, Safety, PTL DEF Spec, CancellationOnlyRaces

-----------------------------------------------------------------------------
(***************************************************************************)
(* When no two requests work on one order at the same time, OrderLifecycle *)
(* implements OrderLedger, wherever its requests are interrupted.          *)
(***************************************************************************)

\* No order has two requests, so nobody misses anything.
Alone == \A r, q \in Requests : r # q /\ req[r].order \in Orders => req[q].order # req[r].order
Unmissed == /\ \A r \in Requests : missed[r] = {}
            /\ priceRaced = {}

AloneInv == IInv /\ Alone /\ Unmissed

LEMMA InitAlone == Init => AloneInv
  BY InitIInv, OrderAssumption DEF Init, AloneInv, Alone, Unmissed, Idle

\* A request keeps its order, ends, or takes one that nobody works on.
LEMMA OrderTaken ==
  ASSUME OneAtATime, AloneInv, NEW r \in Requests, Act(r)
  PROVE  \/ req'[r].order \in {req[r].order, NoOrder}
         \/ \A q \in Requests \ {r} : req[q].order # req'[r].order
<1>. DEFINE Free(o) == \A q \in Requests \ {r} : req[q].order # o
<1>1. TypeOK BY DEF AloneInv, IInv
<1>2. CASE ReadStep(r)
  <2>1. PICK o \in Orders :
          \/ EditRead(r, o) \/ PayRead(r, o) \/ DeleteRead(r, o)
          \/ \E a \in AdjustmentLists : AdjustRead(r, o, a)
          \/ CancelRead(r, o) \/ SendRead(r, o) \/ AcceptRead(r, o) \/ ReadyRead(r, o)
          \/ PickupRead(r, o)
    BY <1>2 DEF ReadStep
  <2>2. MayStart(r, o)
    BY <2>1
    DEF EditRead, PayRead, DeleteRead, AdjustRead, CancelRead, SendRead, AcceptRead, ReadyRead,
        PickupRead, StatusRead
  <2>3. EditRead(r, o) \/ PayRead(r, o) \/ DeleteRead(r, o) => req'[r].order = o
    BY <1>1 DEF EditRead, PayRead, DeleteRead, Read, Idle, TypeOK
  <2>4. (\E a \in AdjustmentLists : AdjustRead(r, o, a)) => req'[r].order = o
    BY <1>1 DEF AdjustRead, Read, Idle, TypeOK
  <2>5. \A op, from : StatusRead(r, o, op, from) => req'[r].order = o
    BY <1>1 DEF StatusRead, Read, Idle, TypeOK
  <2>6. req'[r].order = o
    BY <2>1, <2>3, <2>4, <2>5 DEF CancelRead, SendRead, AcceptRead, ReadyRead, PickupRead
  <2>. QED BY <2>2, <2>6 DEF MayStart
<1>3. CASE \E o \in Orders, c \in Carts, a \in AdjustmentLists : CreateOrder(r, o, c, a)
  <2>1. PICK o \in Orders : row[o].status = "UNISSUED" /\ req'[r].order = o
    BY <1>1, <1>3 DEF CreateOrder, Read, Idle, TypeOK
  <2>. QED BY <2>1 DEF AloneInv, IInv, ReferencesResolve
<1>4. CASE EndStep(r) \/ MoveStep(r) \/ EditWrite(r) \/ AdjustWrite(r) \/ DeleteWrite(r)
  <2>1. req'[r] = Idle
    BY <1>1, <1>4
    DEF EndStep, CreateSlug, EditRefused, PayAssignFails, PaySendRefused, OrderVanished, Interrupt,
        MoveStep, StatusWrite, EditWrite, AdjustWrite, DeleteWrite, EndHaving, Write, End, Read, TypeOK
  <2>. QED BY <2>1 DEF Idle
<1>5. CASE PaySlug(r) \/ PaySendRead(r) \/ PayAssign(r)
  <2>1. \E next : req'[r] = [req[r] EXCEPT !.pc = next]
    BY <1>1, <1>5 DEF PaySlug, PaySendRead, PayAssign, Continue, Read, TypeOK
  <2>2. req[r] \in Request BY <1>1 DEF TypeOK
  <2>. QED BY <2>1, <2>2 DEF Request
<1>7. CASE PayCreate(r)
  <2>1. req'[r] = [Idle EXCEPT !.pc = "paySlug", !.order = req[r].order]
    BY <1>1, <1>7 DEF PayCreate, Write, TypeOK
  <2>. QED BY <2>1 DEF Idle
<1>6. CASE \E c \in Carts : EditDeleteItems(r, c)
  BY <1>1, <1>6 DEF EditDeleteItems, TypeOK, Request
<1>. QED BY <1>2, <1>3, <1>4, <1>5, <1>6, <1>7, StepKinds

LEMMA AloneStep ==
  ASSUME OneAtATime, AloneInv, NEW r \in Requests, Act(r) PROVE Alone' /\ Unmissed'
<1>1. TypeOK /\ Alone /\ Unmissed BY DEF AloneInv, IInv
<1>2. Alone'
  BY <1>1, OrderTaken, OthersUnmoved, OrderAssumption DEF Alone
<1>3. \A o \in Orders : req[r].order = o => \A q \in Requests \ {r} : req[q].order # o
  BY <1>1 DEF Alone
<1>4. CASE ReadStep(r) \/ EndStep(r) \/ PaySlug(r) \/ PaySendRead(r)
  <2>1. missed'[r] = {}
    BY <1>1, <1>4
    DEF ReadStep, EditRead, PayRead, DeleteRead, AdjustRead, CancelRead, SendRead, AcceptRead,
        ReadyRead, PickupRead, StatusRead, EndStep, CreateSlug, EditRefused, PayAssignFails,
        PaySendRefused, OrderVanished, Interrupt, PaySlug, PaySendRead, Read, Continue, End,
        Unmissed, TypeOK
  <2>. QED BY <1>1, <1>2, <1>4, <2>1, Quiet DEF Unmissed
<1>5. CASE \E o \in Orders, c \in Carts, a \in AdjustmentLists : CreateOrder(r, o, c, a)
  BY <1>1, <1>2, <1>5 DEF CreateOrder, Read, Unmissed, TypeOK
<1>6. CASE MoveStep(r) \/ EditWrite(r) \/ AdjustWrite(r) \/ PayCreate(r)
  <2>1. req[r].order \in Orders
    BY <1>1, <1>6, InFlightOrder DEF MoveStep, Moving, StatusWrite, EditWrite, AdjustWrite, PayCreate
  <2>2. \A q \in Requests : missed'[q] = {}
    BY <1>1, <1>3, <1>6, <2>1
    DEF MoveStep, StatusWrite, EditWrite, AdjustWrite, PayCreate, EndHaving, Write, Unmissed
  <2>3. priceRaced' = {}
    BY <1>1, <1>6 DEF MoveStep, StatusWrite, EditWrite, AdjustWrite, PayCreate, Unmissed
  <2>. QED BY <1>2, <2>2, <2>3 DEF Unmissed
<1>7. CASE (\E c \in Carts : EditDeleteItems(r, c)) \/ PayAssign(r) \/ DeleteWrite(r)
  BY <1>1, <1>2, <1>7 DEF EditDeleteItems, PayAssign, DeleteWrite, Continue, End, Read, Unmissed, TypeOK
<1>. QED BY <1>4, <1>5, <1>6, <1>7, StepKinds

LEMMA NextAlone == OneAtATime => (AloneInv /\ [Next]_vars => AloneInv')
<1>1. ASSUME OneAtATime, AloneInv, Next PROVE AloneInv'
  <2>1. PICK r \in Requests : Act(r) BY <1>1 DEF Next, Act
  <2>. QED BY <1>1, <2>1, NextIInv, AloneStep DEF AloneInv
<1>2. ASSUME AloneInv, UNCHANGED vars PROVE AloneInv'
  BY <1>2, NextIInv DEF AloneInv, Alone, Unmissed, vars
<1>. QED BY <1>1, <1>2

-----------------------------------------------------------------------------
(***************************************************************************)
(* The step simulation: a write with a valid check behind it is the        *)
(* ledger's atomic step; every other query leaves the ledger alone.        *)
(***************************************************************************)
Seen(w) == [status |-> w.status, subtotal |-> w.subtotal,
            adjustments |-> w.adjustments, total |-> w.total]

Account == [o \in Orders |-> Seen(row[o])]

Charge(p) == [order |-> p.order, by |-> p.by, totalAmount |-> p.totalAmount]

\* The ledger sees nothing of this step.
LEMMA Unseen ==
  ASSUME \A o \in Orders : Seen(row'[o]) = Seen(row[o]),
         {Charge(p) : p \in payments'} = {Charge(p) : p \in payments}
  PROVE  UNCHANGED Ledger!vars
  BY DEF Ledger!vars, Seen, Charge

\* It sees order o change, and no other.
LEMMA Becomes ==
  ASSUME NEW o \in Orders, \A other \in Orders \ {o} : row'[other] = row[other]
  PROVE  Account' = [Account EXCEPT ![o] = Seen(row'[o])]
  BY DEF Account

\* The ledger's view of an order's status, and of its being paid.
LEMMA LedgerView ==
  ASSUME NEW o \in Orders
  PROVE  /\ Ledger!Open(o) <=> Exists(o)
         /\ Ledger!Paid(o) <=> PaymentsOf(o) # {}
<1>1. Ledger!Open(o) <=> Exists(o) BY DEF Ledger!Open, Ledger!Statuses, Exists, OrderStatus
<1>2. ASSUME NEW p \in payments, p.order = o PROVE Ledger!Paid(o)
  <2>1. Charge(p) \in {Charge(q) : q \in payments} OBVIOUS
  <2>2. Charge(p).order = o BY <1>2 DEF Charge
  <2>. QED BY <2>1, <2>2 DEF Ledger!Paid, Charge
<1>3. ASSUME Ledger!Paid(o) PROVE \E p \in payments : p.order = o
  BY <1>3 DEF Ledger!Paid
<1>. QED BY <1>1, <1>2, <1>3 DEF PaymentsOf

\* Alone, what a request has read and checked stands when it writes.
LEMMA AllStands ==
  ASSUME AloneInv, NEW r \in Requests, req[r].order \in Orders, Exists(req[r].order)
  PROVE  /\ missed[r] = {}
         /\ ReadStands(r, req[r].order)
         /\ UnpaidStands(r, req[r].order)
         /\ StatusStands(r, req[r].order)
  BY LocalOfIInv DEF AloneInv, Unmissed, AllLocal, Local

LEMMA PlaceStep ==
  ASSUME AloneInv, NEW r \in Requests, NEW o \in Orders, NEW c \in Carts,
         NEW a \in AdjustmentLists, CreateOrder(r, o, c, a)
  PROVE  Ledger!Place(o)
<1>1. Seen(row'[o]) \in Ledger!Priced("PENDING", Subtotal(c), a)
  BY DEF AloneInv, IInv, TypeOK, CreateOrder, Seen, Ledger!Priced
<1>2. \A other \in Orders \ {o} : row'[other] = row[other]
  BY DEF AloneInv, IInv, TypeOK, CreateOrder
<1>3. row[o].status = "UNISSUED" /\ UNCHANGED payments BY DEF CreateOrder
<1>4. Ledger!Become(o, Ledger!Priced("PENDING", Subtotal(c), a))
  <2>1. Account' = [Account EXCEPT ![o] = Seen(row'[o])] BY <1>2, Becomes
  <2>. QED BY <1>1, <1>3, <2>1 DEF Ledger!Become, Account, Seen
<1>. QED BY <1>3, <1>4 DEF Ledger!Place, Account, Seen

LEMMA EditStep ==
  ASSUME AloneInv, NEW r \in Requests, NEW o \in Orders, req[r].order = o, EditWrite(r)
  PROVE  Ledger!Edit(o)
<1>. DEFINE c == req[r].items
<1>1. TypeOK BY DEF AloneInv, IInv
<1>2. o \in Orders /\ c \in Carts /\ Exists(o) /\ req[r].pc = "editWrite"
  BY <1>1, InFlightOrder DEF EditWrite, TypeOK, Sound
<1>3. row[o].status = "PENDING" /\ req[r].adjustments = row[o].adjustments
  BY <1>2, AllStands DEF ReadStands, StatusStands
<1>4. row[o] \in Row BY <1>1, <1>2 DEF TypeOK
<1>5. /\ row'[o].status = "PENDING" /\ row'[o].subtotal = Subtotal(c)
      /\ row'[o].adjustments = row[o].adjustments
      /\ row'[o].total \in TotalAmounts(Subtotal(c), row[o].adjustments)
  BY <1>1, <1>2, <1>3, <1>4 DEF EditWrite, EditedTotals, TypeOK, Row
<1>6. Seen(row'[o]) \in Ledger!Priced("PENDING", Subtotal(c), row[o].adjustments)
  BY <1>5 DEF Seen, Ledger!Priced
<1>7. UNCHANGED payments /\ \A other \in Orders \ {o} : row'[other] = row[other]
  BY <1>1, <1>2 DEF EditWrite, TypeOK
<1>8. \E state \in Ledger!Priced("PENDING", Subtotal(c), row[o].adjustments) :
        Account' = [Account EXCEPT ![o] = state]
  <2>1. Account' = [Account EXCEPT ![o] = Seen(row'[o])] BY <1>7, Becomes
  <2>. QED BY <1>6, <2>1
<1>9. Account[o].status = "PENDING" /\ Account[o].adjustments = row[o].adjustments
  BY <1>3 DEF Account, Seen
<1>. QED BY <1>2, <1>7, <1>8, <1>9 DEF Ledger!Edit, Ledger!Become, Account, Seen

LEMMA AdjustStep ==
  ASSUME AloneInv, NEW r \in Requests, NEW o \in Orders, req[r].order = o, AdjustWrite(r)
  PROVE  Ledger!Adjust(o)
<1>. DEFINE a == req[r].adjustments
<1>1. TypeOK BY DEF AloneInv, IInv
<1>2. o \in Orders /\ a \in AdjustmentLists /\ Exists(o) /\ req[r].pc = "adjust"
  BY <1>1, InFlightOrder, RequestFields DEF AdjustWrite
<1>3. /\ row[o].status \in {"PENDING", "PENDING_PROCESSING"}
      /\ PaymentsOf(o) = {} /\ req[r].subtotal = row[o].subtotal
  BY <1>2, AllStands DEF ReadStands, UnpaidStands, StatusStands
<1>4. row[o] \in Row BY <1>1, <1>2 DEF TypeOK
<1>5. /\ row'[o].status = row[o].status /\ row'[o].subtotal = row[o].subtotal
      /\ row'[o].adjustments = a /\ row'[o].total \in TotalAmounts(row[o].subtotal, a)
  BY <1>1, <1>2, <1>3, <1>4 DEF AdjustWrite, TypeOK, Row
<1>6. Seen(row'[o]) \in Ledger!Priced(row[o].status, row[o].subtotal, a)
  BY <1>5 DEF Seen, Ledger!Priced
<1>7. UNCHANGED payments /\ \A other \in Orders \ {o} : row'[other] = row[other]
  BY <1>1, <1>2 DEF AdjustWrite, TypeOK
<1>8. \E state \in Ledger!Priced(row[o].status, row[o].subtotal, a) :
        Account' = [Account EXCEPT ![o] = state]
  <2>1. Account' = [Account EXCEPT ![o] = Seen(row'[o])] BY <1>7, Becomes
  <2>. QED BY <1>6, <2>1
<1>9. /\ Account[o].status \in {"PENDING", "PENDING_PROCESSING"} /\ ~Ledger!Paid(o)
      /\ Account[o].status = row[o].status /\ Account[o].subtotal = row[o].subtotal
  BY <1>3, LedgerView DEF Account, Seen
<1>. QED BY <1>2, <1>7, <1>8, <1>9 DEF Ledger!Adjust, Ledger!Become, Account, Seen

\* Moves of the status.
LEMMA MovesLedger ==
  ASSUME AloneInv, NEW r \in Requests, NEW o \in Orders, req[r].order = o,
         NEW op \in Moving, NEW st \in OrderStatus \ {"PENDING"},
         StatusWrite(r, op, st), st = "CANCELLED" => op = "cancel",
         st = "PENDING_PROCESSING" => op \in {"send", "paySend"}
  PROVE  Ledger!Next
<1>1. TypeOK BY DEF AloneInv, IInv
<1>2. o \in Orders /\ Exists(o) /\ req[r].pc = op
  BY <1>1, InFlightOrder DEF StatusWrite, Moving
<1>3. row[o] \in Row BY <1>1, <1>2 DEF TypeOK
<1>4. Seen(row'[o]) = [Seen(row[o]) EXCEPT !.status = st]
  BY <1>1, <1>2, <1>3 DEF StatusWrite, TypeOK, Row, Seen
<1>5. Account' = [Account EXCEPT ![o] = [Seen(row[o]) EXCEPT !.status = st]] /\ UNCHANGED payments
  BY <1>1, <1>2, <1>4, Becomes DEF StatusWrite, TypeOK
<1>6. \A from : row[o].status \in from => Ledger!Move(o, from, st)
  BY <1>2, <1>5 DEF Ledger!Move, Ledger!Become, Account, Seen
<1>7. CASE st = "CANCELLED"
  <2>1. row[o].status = "PENDING" BY <1>2, <1>7, AllStands DEF StatusStands
  <2>2. Ledger!Move(o, {"PENDING"}, "CANCELLED") BY <1>6, <1>7, <2>1
  <2>. QED BY <1>2, <2>2 DEF Ledger!Next
<1>8. CASE st = "PENDING_PROCESSING"
  <2>1. row[o].status \in {"PENDING", "PENDING_PROCESSING"}
    BY <1>2, <1>8, AllStands DEF StatusStands
  <2>2. Ledger!Move(o, {"PENDING", "PENDING_PROCESSING"}, "PENDING_PROCESSING")
    BY <1>6, <1>8, <2>1
  <2>. QED BY <1>2, <2>2 DEF Ledger!Next
<1>9. CASE st \in {"PROCESSING", "READY", "PICKED_UP"}
  <2>1. row[o].status \in Ledger!Statuses BY <1>2 DEF Exists, OrderStatus, Ledger!Statuses
  <2>2. Ledger!Move(o, Ledger!Statuses, st) BY <1>6, <2>1
  <2>. QED BY <1>9, <2>2 DEF Ledger!Next
<1>. QED BY <1>7, <1>8, <1>9 DEF OrderStatus

LEMMA PayStep ==
  ASSUME AloneInv, NEW r \in Requests, NEW o \in Orders, req[r].order = o, PayCreate(r)
  PROVE  Ledger!Pay(o)
<1>. DEFINE new == [order |-> o, by |-> r, totalAmount |-> req[r].amount, announced |-> FALSE]
<1>1. TypeOK BY DEF AloneInv, IInv
<1>2. o \in Orders /\ Exists(o) /\ req[r].pc = "pay" BY <1>1, InFlightOrder DEF PayCreate
<1>3. PaymentsOf(o) = {} /\ req[r].amount = row[o].total
  BY <1>2, AllStands DEF ReadStands, UnpaidStands
<1>4. Charge(new) = [order |-> o, by |-> r, totalAmount |-> row[o].total] BY <1>3 DEF Charge
<1>5. payments' = payments \cup {new} /\ UNCHANGED row BY DEF PayCreate
<1>6. {Charge(p) : p \in payments'} = {Charge(p) : p \in payments} \cup {Charge(new)}
  <2>. HIDE DEF new
  <2>. QED BY <1>5
<1>7. Ledger!Open(o) /\ ~Ledger!Paid(o) BY <1>2, <1>3, LedgerView
<1>. QED BY <1>2, <1>4, <1>5, <1>6, <1>7 DEF Ledger!Pay, Charge

LEMMA DeleteStep ==
  ASSUME AloneInv, NEW r \in Requests, NEW o \in Orders, req[r].order = o, DeleteWrite(r)
  PROVE  Ledger!Delete(o)
<1>1. TypeOK BY DEF AloneInv, IInv
<1>2. o \in Orders /\ Exists(o) /\ req[r].pc = "delete" BY <1>1, InFlightOrder DEF DeleteWrite
<1>3. PaymentsOf(o) = {} BY <1>2, AllStands DEF UnpaidStands
<1>4. payments' = payments BY <1>3 DEF DeleteWrite
<1>5. Seen(row'[o]) = Ledger!Closed("DELETED")
  BY <1>1, <1>2 DEF DeleteWrite, NoRow, Seen, Ledger!Closed, TypeOK
<1>6. Account' = [Account EXCEPT ![o] = Ledger!Closed("DELETED")]
  BY <1>1, <1>2, <1>5, Becomes DEF DeleteWrite, TypeOK
<1>. QED BY <1>2, <1>3, <1>4, <1>6, LedgerView DEF Ledger!Delete, Ledger!Become, Account, Seen

LEMMA StepSimulates ==
  ASSUME AloneInv, NEW r \in Requests, Act(r) PROVE [Ledger!Next]_(Ledger!vars)
<1>1. TypeOK BY DEF AloneInv, IInv
<1>2. CASE ReadStep(r) \/ EndStep(r) \/ PaySlug(r) \/ PaySendRead(r)
  BY <1>1, <1>2, Quiet, Unseen
<1>3. CASE \E o \in Orders, c \in Carts, a \in AdjustmentLists : CreateOrder(r, o, c, a)
  BY <1>3, PlaceStep DEF Ledger!Next
<1>4. CASE MoveStep(r)
  <2>1. req[r].order \in Orders
    BY <1>1, <1>4, InFlightOrder DEF MoveStep, StatusWrite, Moving
  <2>2. PICK o \in Orders : req[r].order = o BY <2>1
  <2>. QED BY <1>4, <2>2, MovesLedger DEF MoveStep
<1>5. CASE \E c \in Carts : EditDeleteItems(r, c)
  <2>1. PICK c \in Carts : EditDeleteItems(r, c) BY <1>5
  <2>2. ASSUME NEW o \in Orders PROVE Seen(row'[o]) = Seen(row[o])
    <3>1. row[o] \in Row /\ req[r].order \in Orders
      BY <1>1, <2>1, InFlightOrder DEF EditDeleteItems, TypeOK
    <3>2. row'[o] = IF o = req[r].order THEN [row[o] EXCEPT !.lines = <<>>] ELSE row[o]
      BY <1>1, <2>1, <3>1 DEF EditDeleteItems, TypeOK
    <3>. QED BY <3>1, <3>2 DEF Seen, Row
  <2>. QED BY <2>1, <2>2, Unseen DEF EditDeleteItems
<1>6. CASE PayAssign(r)
  <2>1. \A p \in payments : Charge([p EXCEPT !.announced = TRUE]) = Charge(p)
    BY <1>1 DEF Charge, TypeOK, Payment
  <2>2. {Charge(p) : p \in payments'} = {Charge(p) : p \in payments}
    BY <1>6, <2>1 DEF PayAssign
  <2>. QED BY <1>6, <2>2, Unseen DEF PayAssign
<1>7. CASE EditWrite(r) \/ AdjustWrite(r) \/ PayCreate(r) \/ DeleteWrite(r)
  <2>1. req[r].order \in Orders
    BY <1>1, <1>7, InFlightOrder DEF EditWrite, AdjustWrite, PayCreate, DeleteWrite
  <2>2. PICK o \in Orders : req[r].order = o BY <2>1
  <2>. QED BY <1>7, <2>2, EditStep, AdjustStep, PayStep, DeleteStep DEF Ledger!Next
<1>. QED BY <1>2, <1>3, <1>4, <1>5, <1>6, <1>7, StepKinds

\* Handlers that do not overlap on an order behave as if each were one atomic
\* step: priced, checked, charged once, wherever the requests are interrupted.
THEOREM Refinement == ASSUME OneAtATime PROVE Spec => ActsAsLedger
<1>1. Init => Ledger!Init BY DEF Init, Ledger!Init, Ledger!Closed, NoRow
<1>2. AloneInv /\ [Next]_vars => [Ledger!Next]_(Ledger!vars)
  <2>1. ASSUME AloneInv, Next PROVE [Ledger!Next]_(Ledger!vars)
    <3>1. PICK r \in Requests : Act(r) BY <2>1 DEF Next, Act
    <3>. QED BY <2>1, <3>1, StepSimulates
  <2>2. ASSUME UNCHANGED vars PROVE UNCHANGED Ledger!vars
    BY <2>2, Unseen DEF vars
  <2>. QED BY <2>1, <2>2
<1>3. AloneInv /\ [Next]_vars => AloneInv' BY NextAlone
<1>. QED BY <1>1, <1>2, <1>3, InitAlone, PTL DEF Spec, ActsAsLedger, Ledger!Spec

-----------------------------------------------------------------------------
(***************************************************************************)
(* The amount charged.                                                     *)
(***************************************************************************)

\* An edit finds no payment: a paid order that is still PENDING has its payer
\* at work on it, and then nobody else, or was abandoned.
LEMMA EditFindsNoCharge ==
  ASSUME AloneInv, NEW r \in Requests, EditWrite(r), NEW p \in payments,
         p.order = req[r].order
  PROVE  p.order \in abandoned
<1>1. TypeOK /\ Alone /\ PaidPendingIsInFlight BY DEF AloneInv, IInv
<1>2. req[r].order \in Orders /\ Exists(req[r].order) /\ req[r].pc = "editWrite"
  BY <1>1, InFlightOrder DEF EditWrite
<1>3. row[p.order].status = "PENDING" BY <1>2, AllStands DEF StatusStands
<1>4. p.by \in Requests BY <1>1 DEF TypeOK, Payment
<1>5. req[p.by].order = p.order => p.by = r BY <1>1, <1>2, <1>4 DEF Alone
<1>. QED BY <1>1, <1>2, <1>3, <1>5 DEF PaidPendingIsInFlight, Paying

LEMMA ChargedStep ==
  ASSUME AloneInv, ChargedTotalStands, NEW r \in Requests, Act(r) PROVE ChargedTotalStands'
<1>1. TypeOK /\ abandoned \subseteq abandoned' BY OthersUnmoved DEF AloneInv, IInv
<1>2. SUFFICES ASSUME NEW p \in payments', p.order \notin abandoned'
               PROVE  p.totalAmount = row'[p.order].total
  BY DEF ChargedTotalStands
<1>3. CASE ReadStep(r) \/ EndStep(r) \/ PaySlug(r) \/ PaySendRead(r)
  BY <1>1, <1>2, <1>3, Quiet DEF ChargedTotalStands
<1>4. ASSUME p \in payments, \A q \in payments : q.order \in Orders
      PROVE  /\ p.totalAmount = row[p.order].total
             /\ row[p.order] \in Row /\ Exists(p.order)
  BY <1>1, <1>2, <1>4 DEF ChargedTotalStands, TypeOK, AloneInv, IInv, ReferencesResolve
<1>5. \A q \in payments : q.order \in Orders BY <1>1 DEF TypeOK, Payment
<1>6. CASE \E o \in Orders, c \in Carts, a \in AdjustmentLists : CreateOrder(r, o, c, a)
  BY <1>1, <1>2, <1>4, <1>5, <1>6 DEF CreateOrder, Exists, OrderStatus, TypeOK
<1>7. CASE MoveStep(r)
  <2>1. PICK op \in Moving, st \in OrderStatus : StatusWrite(r, op, st) BY <1>7 DEF MoveStep
  <2>. QED BY <1>1, <1>2, <1>4, <1>5, <2>1, InFlightOrder DEF StatusWrite, Moving, TypeOK, Row
<1>8. CASE \E c \in Carts : EditDeleteItems(r, c)
  <2>1. PICK c \in Carts : EditDeleteItems(r, c) BY <1>8
  <2>. QED BY <1>1, <1>2, <1>4, <1>5, <2>1, InFlightOrder DEF EditDeleteItems, TypeOK, Row
<1>9. CASE EditWrite(r)
  <2>1. p \in payments BY <1>9 DEF EditWrite
  <2>2. p.order # req[r].order BY <1>1, <1>2, <1>9, <2>1, EditFindsNoCharge
  <2>3. row'[p.order] = row[p.order]
    BY <1>1, <1>5, <1>9, <2>1, <2>2, InFlightOrder DEF EditWrite, TypeOK
  <2>. QED BY <1>4, <1>5, <2>1, <2>3
<1>10. CASE AdjustWrite(r)
  <2>1. req[r].order \in Orders /\ Exists(req[r].order) /\ req[r].pc = "adjust"
    BY <1>1, <1>10, InFlightOrder DEF AdjustWrite
  <2>2. p \in payments /\ p.order # req[r].order
    BY <1>10, <2>1, AllStands DEF AdjustWrite, UnpaidStands, PaymentsOf
  <2>3. row'[p.order] = row[p.order]
    BY <1>1, <1>5, <1>10, <2>1, <2>2 DEF AdjustWrite, TypeOK
  <2>. QED BY <1>4, <1>5, <2>2, <2>3
<1>11. CASE PayCreate(r)
  <2>1. req[r].order \in Orders /\ Exists(req[r].order) /\ req[r].pc = "pay"
    BY <1>1, <1>11, InFlightOrder DEF PayCreate
  <2>2. missed[r] = {} /\ req[r].amount = row[req[r].order].total
    BY <2>1, AllStands DEF ReadStands
  <2>. QED BY <1>4, <1>5, <1>11, <2>2 DEF PayCreate
<1>12. CASE PayAssign(r)
  <2>1. PICK q \in payments : p.order = q.order /\ p.totalAmount = q.totalAmount
    BY <1>1, <1>12 DEF PayAssign, TypeOK, Payment
  <2>. QED BY <1>1, <1>2, <1>12, <2>1 DEF PayAssign, ChargedTotalStands
<1>13. CASE DeleteWrite(r)
  <2>1. p \in payments /\ p.order # req[r].order BY <1>13 DEF DeleteWrite, PaymentsOf
  <2>2. row'[p.order] = row[p.order]
    BY <1>1, <1>5, <1>13, <2>1, InFlightOrder DEF DeleteWrite, TypeOK
  <2>. QED BY <1>4, <1>5, <2>1, <2>2
<1>. QED BY <1>3, <1>6, <1>7, <1>8, <1>9, <1>10, <1>11, <1>12, <1>13, StepKinds

\* Without overlap the amount charged stays the order's total, unless the
\* payment route was interrupted: an edit, which does not look for payments,
\* finds the order PENDING only before it is paid.
THEOREM ChargedTotalTheorem == ASSUME OneAtATime PROVE Spec => []ChargedTotalStands
<1>. DEFINE Inv == AloneInv /\ ChargedTotalStands
<1>1. Init => Inv BY InitAlone DEF Init, ChargedTotalStands
<1>2. Inv /\ [Next]_vars => Inv'
  <2>1. ASSUME Inv, Next PROVE ChargedTotalStands'
    <3>1. PICK r \in Requests : Act(r) BY <2>1 DEF Next, Act
    <3>. QED BY <2>1, <3>1, ChargedStep
  <2>2. ASSUME Inv, UNCHANGED vars PROVE ChargedTotalStands'
    BY <2>2 DEF vars, ChargedTotalStands
  <2>. QED BY <2>1, <2>2, NextAlone
<1>3. Inv => ChargedTotalStands OBVIOUS
<1>. QED BY <1>1, <1>2, <1>3, PTL DEF Spec
=============================================================================
