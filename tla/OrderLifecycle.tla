-------------------------- MODULE OrderLifecycle --------------------------
(***************************************************************************)
(* Orders and their payments: order.service.ts and the payment route of    *)
(* order.controller.ts.                                                    *)
(*                                                                         *)
(* No handler runs in a database transaction.  A request is therefore a    *)
(* sequence of queries, each atomic, with an await between two of them at  *)
(* which any other request may run and at which the request itself may end *)
(* (a query that rejects, a pool timeout, the death of the process).  Each *)
(* action below is one query of one request together with the code up to   *)
(* the next await; req[r] is what request r has read so far and still      *)
(* uses.  Reads that touch no order or payment (the table, the catalogue)  *)
(* are folded into the choice of the action's arguments, and a request     *)
(* refused before its first write leaves no trace and is no step.          *)
(***************************************************************************)
EXTENDS OrderPricing

CONSTANTS
  Orders,           \* order ids; autoincrement never issues one twice
  Requests,         \* HTTP requests that can be in flight at once
  Carts,            \* priced item lists a client can ask for
  AdjustmentLists,  \* pricing adjustments in force, or sent by the cashier
  NoOrder,          \* the order of an idle request
  OneAtATime,       \* TRUE: no two requests work on one order at the same time
  Interruptions     \* TRUE: a request may end at any await

ASSUME OrderAssumption ==
  /\ NoOrder \notin Orders
  /\ <<>> \in AdjustmentLists
  /\ OneAtATime \in BOOLEAN /\ Interruptions \in BOOLEAN

VARIABLES
  row,         \* the orders table, with its order_items
  payments,    \* the payments table
  req,         \* the requests in flight
  \* History variables: nothing in the code corresponds to them.
  missed,      \* writes others made, since r's read, to what r relies on
  priceRaced,  \* orders last priced by an edit that missed an adjustment, or v.v.
  linesRaced,  \* orders whose items an overlapped or interrupted edit left behind
  abandoned    \* orders with a payment whose request ended before its last step

history == <<missed, priceRaced, linesRaced, abandoned>>
vars == <<row, payments, req, missed, priceRaced, linesRaced, abandoned>>

-----------------------------------------------------------------------------
OrderStatus == {"PENDING", "PENDING_PROCESSING", "PROCESSING", "READY",
                "PICKED_UP", "CANCELLED"}

Subtotals == {Subtotal(c) : c \in Carts} \cup {0}
Totals    == {0} \cup UNION {TotalAmounts(s, a) : s \in Subtotals, a \in AdjustmentLists}

\* lines: one cart for every order.create or order.update that inserted items.
Row == [status : OrderStatus \cup {"UNISSUED", "DELETED"}, lines : Seq(Carts),
        subtotal : Subtotals, adjustments : AdjustmentLists, total : Totals]

NoRow(status) == [status |-> status, lines |-> <<>>, subtotal |-> 0,
                  adjustments |-> <<>>, total |-> 0]

\* Every payment is created PAID.  A request pays an order at most once, so its
\* slot stands for the payment's id; announced: its order.paid was emitted.
Payment == [order : Orders, by : Requests, totalAmount : Totals, announced : BOOLEAN]

\* The query a request is about to send.
Pc == {"idle", "slug", "edit", "editWrite", "adjust", "cancel", "send", "accept",
       "ready", "pickup", "pay", "paySlug", "payAssign", "paySendRead", "paySend",
       "delete"}

\* What it carries to that query: only what the rest of the handler uses.
Request == [pc : Pc, order : Orders \cup {NoOrder}, items : Carts \cup {<<>>},
            adjustments : AdjustmentLists, subtotal : Subtotals, amount : Totals]

Idle == [pc |-> "idle", order |-> NoOrder, items |-> <<>>, adjustments |-> <<>>,
         subtotal |-> 0, amount |-> 0]

\* Only an idle request has no order; an edit about to write has its items.
Sound(q) == /\ q.pc = "idle" => q = Idle
            /\ q.pc # "idle" => q.order \in Orders
            /\ q.pc = "editWrite" => q.items \in Carts

WriteKinds == {"edit", "adjust", "pay", "status"}

\* Who has read what such a write changes, and still relies on it; and so which
\* writes of others invalidate what a request has read.
ReliedOnBy == [edit   |-> {"edit", "editWrite", "adjust", "pay"},
               adjust |-> {"edit", "editWrite", "pay"},
               pay    |-> {"adjust", "pay", "delete"},
               status |-> {"edit", "editWrite", "adjust", "cancel", "send", "paySend"}]

Relies(pc) == {kind \in WriteKinds : pc \in ReliedOnBy[kind]}

TypeOK ==
  /\ row \in [Orders -> Row]
  /\ payments \in SUBSET Payment
  /\ req \in [Requests -> Request]
  /\ \A r \in Requests : Sound(req[r])
  /\ missed \in [Requests -> SUBSET WriteKinds]
  /\ priceRaced \in SUBSET Orders
  /\ linesRaced \in SUBSET Orders
  /\ abandoned \in SUBSET Orders

Init ==
  /\ row = [o \in Orders |-> NoRow("UNISSUED")]
  /\ payments = {}
  /\ req = [r \in Requests |-> Idle]
  /\ missed = [r \in Requests |-> {}]
  /\ priceRaced = {} /\ linesRaced = {} /\ abandoned = {}

-----------------------------------------------------------------------------
Exists(o) == row[o].status \in OrderStatus
PaymentsOf(o) == {p \in payments : p.order = o}

\* A new request for order o, past the findUnique that answers 404.
MayStart(r, o) ==
  /\ req[r].pc = "idle"
  /\ Exists(o)
  /\ OneAtATime => \A q \in Requests : req[q].order # o

\* r's next query: it has just read its order, or goes on without reading it.
Read(r, state)     == req' = [req EXCEPT ![r] = state] /\ missed' = [missed EXCEPT ![r] = {}]
Continue(r, state) == req' = [req EXCEPT ![r] = state] /\ UNCHANGED missed

\* r has written order o, as the others will have missed, and goes on from state.
Write(r, o, kinds, state) ==
  /\ req' = [req EXCEPT ![r] = state]
  /\ missed' = [q \in Requests |->
                  IF q = r THEN {}
                  ELSE IF req[q].order = o THEN missed[q] \cup (kinds \cap Relies(req[q].pc))
                  ELSE missed[q]]

\* r has answered: after a last write, or without one.
EndHaving(r, o, kind) == Write(r, o, {kind}, Idle)
End(r)                == Read(r, Idle)

-----------------------------------------------------------------------------
\* createOrder: one insert of the row, its items and the adjustments in force.
CreateOrder(r, o, c, a) ==
  /\ req[r].pc = "idle"
  /\ row[o].status = "UNISSUED"
  /\ \E total \in TotalAmounts(Subtotal(c), a) :
       row' = [row EXCEPT ![o] = [status |-> "PENDING", lines |-> <<c>>,
                                  subtotal |-> Subtotal(c), adjustments |-> a,
                                  total |-> total]]
  /\ Read(r, [Idle EXCEPT !.pc = "slug", !.order = o])
  /\ UNCHANGED <<payments, priceRaced, linesRaced, abandoned>>

\* ... and the update that adds the slug, after which order.created is emitted.
CreateSlug(r) ==
  /\ req[r].pc = "slug" /\ Exists(req[r].order)
  /\ End(r)
  /\ UNCHANGED <<row, payments, priceRaced, linesRaced, abandoned>>

-----------------------------------------------------------------------------
EditableMut(o) == TRUE
Editable(o) == row[o].status = "PENDING"

\* editOrder keeps the adjustments of the row it read.
EditRead(r, o) ==
  /\ MayStart(r, o) /\ Editable(o)
  /\ Read(r, [Idle EXCEPT !.pc = "edit", !.order = o, !.adjustments = row[o].adjustments])
  /\ UNCHANGED <<row, payments, priceRaced, linesRaced, abandoned>>

\* An item of the new list is missing (404) or out of stock (400).
EditRefused(r) ==
  /\ req[r].pc = "edit"
  /\ End(r)
  /\ UNCHANGED <<row, payments, priceRaced, linesRaced, abandoned>>

EditDeleteItemsMut(r, c) ==
  /\ req[r].pc = "edit"
  /\ Continue(r, [req[r] EXCEPT !.pc = "editWrite", !.items = c])
  /\ UNCHANGED <<row, payments, priceRaced, linesRaced, abandoned>>

\* orderItem.deleteMany: succeeds, deleting nothing, when the order is gone.
EditDeleteItems(r, c) ==
  /\ req[r].pc = "edit"
  /\ row' = [row EXCEPT ![req[r].order].lines = <<>>]
  /\ req' = [req EXCEPT ![r] = [@ EXCEPT !.pc = "editWrite", !.items = c]]
  /\ missed' = [missed EXCEPT ![r] = @ \ {"edit"}]
  /\ UNCHANGED <<payments, priceRaced, linesRaced, abandoned>>

\* The totals an edit can write; the unused updateOrder writes the bare subtotal.
EditedTotalsMut(subtotal, adjustments) == {subtotal}
EditedTotals(subtotal, adjustments) == TotalAmounts(subtotal, adjustments)

\* order.update of subtotal, total and the new items.
EditWrite(r) ==
  LET o == req[r].order
      s == Subtotal(req[r].items)
  IN /\ req[r].pc = "editWrite" /\ Exists(o)
     /\ \E total \in EditedTotals(s, req[r].adjustments) :
          row' = [row EXCEPT ![o] = [@ EXCEPT
                    !.lines = Append(row[o].lines, req[r].items), !.subtotal = s,
                    !.total = total]]
     /\ EndHaving(r, o, "edit")
     /\ priceRaced' = IF "adjust" \in missed[r] THEN priceRaced \cup {o} ELSE priceRaced \ {o}
     /\ linesRaced' = IF "edit" \in missed[r] THEN linesRaced \cup {o} ELSE linesRaced \ {o}
     /\ UNCHANGED <<payments, abandoned>>

-----------------------------------------------------------------------------
AdjustableMut(o) == row[o].status \in {"PENDING", "PENDING_PROCESSING"}
Adjustable(o) ==
  /\ row[o].status \in {"PENDING", "PENDING_PROCESSING"}
  /\ PaymentsOf(o) = {}

\* updatePricingAdjustments keeps the subtotal of the row it read.
AdjustRead(r, o, a) ==
  /\ MayStart(r, o) /\ Adjustable(o)
  /\ Read(r, [Idle EXCEPT !.pc = "adjust", !.order = o, !.adjustments = a,
                          !.subtotal = row[o].subtotal])
  /\ UNCHANGED <<row, payments, priceRaced, linesRaced, abandoned>>

AdjustWrite(r) ==
  LET o == req[r].order
  IN /\ req[r].pc = "adjust" /\ Exists(o)
     /\ \E total \in TotalAmounts(req[r].subtotal, req[r].adjustments) :
          row' = [row EXCEPT ![o] = [@ EXCEPT
                    !.adjustments = req[r].adjustments, !.total = total]]
     /\ EndHaving(r, o, "adjust")
     /\ priceRaced' = IF "edit" \in missed[r] THEN priceRaced \cup {o} ELSE priceRaced \ {o}
     /\ UNCHANGED <<payments, linesRaced, abandoned>>

-----------------------------------------------------------------------------
\* The handlers that read the order, perhaps check its status, and set another.
StatusRead(r, o, op, from) ==
  /\ MayStart(r, o) /\ row[o].status \in from
  /\ Read(r, [Idle EXCEPT !.pc = op, !.order = o])
  /\ UNCHANGED <<row, payments, priceRaced, linesRaced, abandoned>>

StatusWrite(r, op, status) ==
  LET o == req[r].order
  IN /\ req[r].pc = op /\ Exists(o)
     /\ row' = [row EXCEPT ![o].status = status]
     /\ EndHaving(r, o, "status")
     /\ UNCHANGED <<payments, priceRaced, linesRaced, abandoned>>

Cancellable == {"PENDING"}
CancelRead(r, o)  == StatusRead(r, o, "cancel", Cancellable)
CancelWrite(r)    == StatusWrite(r, "cancel", "CANCELLED")

SendableMut == OrderStatus
Sendable == {"PENDING", "PENDING_PROCESSING"}
SendRead(r, o)    == StatusRead(r, o, "send", Sendable)
SendWrite(r)      == StatusWrite(r, "send", "PENDING_PROCESSING")

\* The production and collection pages: no check of the status at all.
AcceptRead(r, o)  == StatusRead(r, o, "accept", OrderStatus)
AcceptWrite(r)    == StatusWrite(r, "accept", "PROCESSING")
ReadyRead(r, o)   == StatusRead(r, o, "ready", OrderStatus)
ReadyWriteMut(r)  == StatusWrite(r, "ready", "DONE")
ReadyWrite(r)     == StatusWrite(r, "ready", "READY")
PickupRead(r, o)  == StatusRead(r, o, "pickup", OrderStatus)
PickupWrite(r)    == StatusWrite(r, "pickup", "PICKED_UP")

-----------------------------------------------------------------------------
Payable(o) == PaymentsOf(o) = {}

\* submitOrderPayment, after the proof images are uploaded.
PayRead(r, o) ==
  /\ MayStart(r, o) /\ Payable(o)
  /\ Read(r, [Idle EXCEPT !.pc = "pay", !.order = o, !.amount = row[o].total])
  /\ UNCHANGED <<row, payments, priceRaced, linesRaced, abandoned>>

\* payment.create of the amount that was read.
PayCreate(r) ==
  LET o == req[r].order
  IN /\ req[r].pc = "pay" /\ Exists(o)
     /\ payments' = payments \cup {[order |-> o, by |-> r, totalAmount |-> req[r].amount,
                                    announced |-> FALSE]}
     /\ Write(r, o, {"pay"}, [Idle EXCEPT !.pc = "paySlug", !.order = o])
     /\ UNCHANGED <<row, priceRaced, linesRaced, abandoned>>

\* payment.update of the slug: the payment is there as long as its order is.
PaySlug(r) ==
  /\ req[r].pc = "paySlug" /\ Exists(req[r].order)
  /\ Continue(r, [req[r] EXCEPT !.pc = "payAssign"])
  /\ UNCHANGED <<row, payments, priceRaced, linesRaced, abandoned>>

\* A plausible slip: the handler answers without emitting or sending.
PayAssignMut(r) ==
  /\ req[r].pc = "payAssign"
  /\ End(r)
  /\ UNCHANGED <<row, payments, priceRaced, linesRaced, abandoned>>

\* order.update of assignedToId, if one was sent; then order.paid is emitted, and
\* the controller calls sendOrderToProduction.
PayAssign(r) ==
  /\ req[r].pc = "payAssign"
  /\ payments' = {IF p.by = r /\ p.order = req[r].order
                    THEN [p EXCEPT !.announced = TRUE] ELSE p : p \in payments}
  /\ Continue(r, [req[r] EXCEPT !.pc = "paySendRead"])
  /\ UNCHANGED <<row, priceRaced, linesRaced, abandoned>>

\* The assignee does not exist, or the order no longer does: the update throws.
PayAssignFails(r) ==
  /\ req[r].pc = "payAssign"
  /\ End(r)
  /\ abandoned' = abandoned \cup {req[r].order}
  /\ UNCHANGED <<row, payments, priceRaced, linesRaced>>

\* sendOrderToProduction reads the order again, and may refuse a paid order.
PaySendRead(r) ==
  /\ req[r].pc = "paySendRead"
  /\ row[req[r].order].status \in Sendable
  /\ Read(r, [req[r] EXCEPT !.pc = "paySend"])
  /\ UNCHANGED <<row, payments, priceRaced, linesRaced, abandoned>>

PaySendRefused(r) ==
  /\ req[r].pc = "paySendRead"
  /\ row[req[r].order].status \notin Sendable
  /\ End(r)
  /\ UNCHANGED <<row, payments, priceRaced, linesRaced, abandoned>>

PaySendWrite(r) == StatusWrite(r, "paySend", "PENDING_PROCESSING")

-----------------------------------------------------------------------------
\* A plausible slip: the payments are left behind.
DeleteWriteMut(r) ==
  /\ req[r].pc = "delete" /\ Exists(req[r].order)
  /\ row' = [row EXCEPT ![req[r].order] = NoRow("DELETED")]
  /\ End(r)
  /\ UNCHANGED <<payments, priceRaced, linesRaced, abandoned>>

DeletableMut(o) == TRUE
Deletable(o) == PaymentsOf(o) = {}

DeleteRead(r, o) ==
  /\ MayStart(r, o) /\ Deletable(o)
  /\ Read(r, [Idle EXCEPT !.pc = "delete", !.order = o])
  /\ UNCHANGED <<row, payments, priceRaced, linesRaced, abandoned>>

\* order.delete: items and payments go with the row (onDelete: Cascade).
DeleteWrite(r) ==
  LET o == req[r].order
  IN /\ req[r].pc = "delete" /\ Exists(o)
     /\ row' = [row EXCEPT ![o] = NoRow("DELETED")]
     /\ payments' = payments \ PaymentsOf(o)
     /\ End(r)
     /\ UNCHANGED <<priceRaced, linesRaced, abandoned>>

-----------------------------------------------------------------------------
\* The queries that reject when the order is gone: an update or a delete of a
\* missing row (P2025), an insert that refers to it (P2003).
NeedsOrder == {"slug", "editWrite", "adjust", "cancel", "send", "accept", "ready",
               "pickup", "pay", "paySlug", "paySend", "delete"}

OrderVanished(r) ==
  /\ req[r].pc \in NeedsOrder /\ ~Exists(req[r].order)
  /\ End(r)
  /\ UNCHANGED <<row, payments, priceRaced, linesRaced, abandoned>>

\* Any await may be the last: the query rejects, or the process dies.
Interrupt(r) ==
  LET o == req[r].order
  IN /\ Interruptions /\ req[r].pc # "idle"
     /\ End(r)
     /\ linesRaced' = IF req[r].pc = "editWrite" THEN linesRaced \cup {o} ELSE linesRaced
     /\ abandoned' = IF req[r].pc \in {"paySlug", "payAssign", "paySendRead", "paySend"}
                       THEN abandoned \cup {o} ELSE abandoned
     /\ UNCHANGED <<row, payments, priceRaced>>

Call(r, o) ==
  \/ \E c \in Carts, a \in AdjustmentLists : CreateOrder(r, o, c, a)
  \/ EditRead(r, o)
  \/ \E a \in AdjustmentLists : AdjustRead(r, o, a)
  \/ CancelRead(r, o) \/ SendRead(r, o) \/ AcceptRead(r, o) \/ ReadyRead(r, o)
  \/ PickupRead(r, o) \/ PayRead(r, o) \/ DeleteRead(r, o)

Step(r) ==
  \/ CreateSlug(r)
  \/ EditRefused(r) \/ (\E c \in Carts : EditDeleteItems(r, c)) \/ EditWrite(r)
  \/ AdjustWrite(r)
  \/ CancelWrite(r) \/ SendWrite(r) \/ AcceptWrite(r) \/ ReadyWrite(r) \/ PickupWrite(r)
  \/ PayCreate(r) \/ PaySlug(r) \/ PayAssign(r) \/ PayAssignFails(r)
  \/ PaySendRead(r) \/ PaySendRefused(r) \/ PaySendWrite(r)
  \/ DeleteWrite(r)
  \/ OrderVanished(r)

Next == \E r \in Requests : (\E o \in Orders : Call(r, o)) \/ Step(r) \/ Interrupt(r)

Spec == Init /\ [][Next]_vars

\* Clients need not call, but a query that was sent comes back.
FairSpec == Spec /\ \A r \in Requests : WF_vars(Step(r))

-----------------------------------------------------------------------------
(***************************************************************************)
(* Safety.  The service relies everywhere on "read, check, then write".    *)
(* What that guarantees without transactions is stated exactly: a check    *)
(* still holds at the write unless another request wrote, in between, what *)
(* the check was about.                                                    *)
(***************************************************************************)
Paying == {"paySlug", "payAssign", "paySendRead", "paySend"}

\* payments.orderId refers to an order that exists: the cascade of a delete
\* leaves no orphan, and a payment in the making for a deleted order is refused.
\* No request works on an order that was never created.
ReferencesResolve ==
  /\ \A p \in payments : Exists(p.order)
  /\ \A r \in Requests, o \in Orders : req[r].order = o => row[o].status # "UNISSUED"

\* The total of an order is one that its items and adjustments call for, unless
\* the last edit did not see an adjustment made after it read the order, or the
\* last adjustment an edit.  (A later undisturbed edit or adjustment repairs it.)
PriceIsConsistent ==
  \A o \in Orders :
    Exists(o) /\ o \notin priceRaced =>
      row[o].total \in TotalAmounts(row[o].subtotal, row[o].adjustments)

\* The items of an order are one list, and they add up to its subtotal, except
\* while an edit is between deleteMany and update, after it was interrupted
\* there, and after two edits overlapped.
LinesMatchSubtotal ==
  \A o \in Orders :
    \/ ~Exists(o) \/ o \in linesRaced
    \/ \E r \in Requests : req[r].order = o /\ req[r].pc = "editWrite"
    \/ \E c \in Carts : row[o].lines = <<c>> /\ row[o].subtotal = Subtotal(c)

\* Request r is at work on order o, and o still exists.
WorksOn(r, o) == req[r].order = o /\ Exists(o)

ReadStands(r, o) ==
  /\ req[r].pc \in {"edit", "editWrite"} /\ "adjust" \notin missed[r]
       => req[r].adjustments = row[o].adjustments
  /\ req[r].pc = "editWrite" /\ "edit" \notin missed[r]
       => row[o].lines = <<>>
  /\ req[r].pc = "adjust" /\ "edit" \notin missed[r]
       => req[r].subtotal = row[o].subtotal
  /\ req[r].pc = "pay" /\ missed[r] \cap {"edit", "adjust"} = {}
       => req[r].amount = row[o].total

\* The values a handler computes with are still the order's when it writes:
\* editOrder's adjustments and the gap its deleteMany left, updatePricing-
\* Adjustments' subtotal, submitOrderPayment's amount; unless a write of that
\* value by another request slipped in after its read.
ReadsHold == \A r \in Requests, o \in Orders : WorksOn(r, o) => ReadStands(r, o)

UnpaidStands(r, o) ==
  req[r].pc \in {"pay", "adjust", "delete"} /\ "pay" \notin missed[r] => PaymentsOf(o) = {}

\* A handler that found no payment still finds none when it writes, unless one
\* was recorded after its read.
PaymentChecksHold == \A r \in Requests, o \in Orders : WorksOn(r, o) => UnpaidStands(r, o)

StatusStands(r, o) ==
  "status" \notin missed[r] =>
    /\ req[r].pc \in {"edit", "editWrite", "cancel"} => row[o].status = "PENDING"
    /\ req[r].pc \in {"adjust", "send", "paySend"}
         => row[o].status \in {"PENDING", "PENDING_PROCESSING"}

\* A handler that checked the status still finds a status it would accept when
\* it writes, unless another request moved the order after the read.
StatusChecksHold == \A r \in Requests, o \in Orders : WorksOn(r, o) => StatusStands(r, o)

\* No handler writes on the strength of something that has changed since it read it,
\* be it a value it computes with, the lack of a payment or the status, unless the
\* change is one of the writes that slipped in after its read.
ReadsAndChecksHold == ReadsHold /\ PaymentChecksHold /\ StatusChecksHold

\* A paid order is PENDING, hence open to edits and cancellation, only while the
\* request that paid it is still on its way to sendOrderToProduction, or after
\* that request broke off.
PaidPendingIsInFlight ==
  \A p \in payments :
    row[p.order].status = "PENDING" =>
      \/ p.order \in abandoned
      \/ req[p.by].order = p.order /\ req[p.by].pc \in Paying

\* The stock listener hears of every payment (order.paid), unless the request
\* that recorded it broke off first.
EveryPaymentAnnounced ==
  \A p \in payments :
    \/ p.announced
    \/ p.order \in abandoned
    \/ req[p.by].order = p.order /\ req[p.by].pc \in {"paySlug", "payAssign"}

\* An order and its payments are deleted together only when the payment was
\* recorded between the deleting request's check and its delete.
PaidOrderLostOnlyToRace ==
  [][\A o \in Orders :
       PaymentsOf(o) # {} /\ row'[o].status = "DELETED"
         => \E r \in Requests : req[r].order = o /\ req[r].pc = "delete" /\ "pay" \in missed[r]]_vars

\* An order that has moved on from PENDING is cancelled only by a request that
\* missed that move; a cancelled order returns to production only by a request
\* that missed the cancellation, or by the unchecked production handlers.
CancellationOnlyRaces ==
  [][\A o \in Orders :
       LET raced(pcs) == \E r \in Requests :
             req[r].order = o /\ req[r].pc \in pcs /\ "status" \in missed[r]
       IN /\ row'[o].status = "CANCELLED" /\ row[o].status \notin {"PENDING", "CANCELLED"}
                => raced({"cancel"})
          /\ row[o].status = "CANCELLED" /\ row'[o].status = "PENDING_PROCESSING"
                => raced({"send", "paySend"})]_vars

\* Once paid, an order does not stay PENDING: the payment route sends it to
\* production, unless the request broke off.
PaidOrderLeavesPending ==
  \A o \in Orders :
    PaymentsOf(o) # {} ~> row[o].status # "PENDING" \/ o \in abandoned

-----------------------------------------------------------------------------
(***************************************************************************)
(* With one request at a time on an order (OneAtATime).                    *)
(***************************************************************************)

\* Seen one row at a time, the handlers do what OrderLedger promises.
Ledger == INSTANCE OrderLedger WITH
  Payers  <- Requests,
  account <- [o \in Orders |->
                [status |-> row[o].status, subtotal |-> row[o].subtotal,
                 adjustments |-> row[o].adjustments, total |-> row[o].total]],
  charges <- {[order |-> p.order, by |-> p.by, totalAmount |-> p.totalAmount] : p \in payments}

\* Handlers that do not overlap on an order behave as if each were one atomic
\* step, wherever it is interrupted.
ActsAsLedger == Ledger!Spec

\* What was charged stays the order's total once the payment route is through.
ChargedTotalStands ==
  \A p \in payments : p.order \notin abandoned => p.totalAmount = row[p.order].total

-----------------------------------------------------------------------------
(***************************************************************************)
(* What the repository says of orders, and the code does not ensure.       *)
(***************************************************************************)

\* "Payment already submitted for this order" (submitOrderPayment).
AtMostOnePayment ==
  \A p, q \in payments : p.order = q.order => p = q

\* "Orders cannot be edited after Payment is submitted" (architecture.md).
NoEditAfterPayment ==
  [][\A o \in Orders :
       PaymentsOf(o) # {} /\ row'[o].status # "DELETED"
         => row'[o].lines = row[o].lines /\ row'[o].total = row[o].total]_vars

\* The order lifecycle of architecture.md: READY follows PROCESSING, PICKED_UP
\* follows READY, and no order goes back to being made.
StatusFollowsLifecycle ==
  [][\A o \in Orders :
       LET from == row[o].status
           to   == row'[o].status
       IN from # to =>
            /\ to = "READY" => from = "PROCESSING"
            /\ to = "PICKED_UP" => from = "READY"
            /\ to = "PROCESSING" => from \in {"PENDING", "PENDING_PROCESSING"}]_vars
=============================================================================
