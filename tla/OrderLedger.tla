---------------------------- MODULE OrderLedger ----------------------------
(***************************************************************************)
(* What the order service promises, with every request one atomic step: an *)
(* order is priced from its subtotal and adjustments at every moment, is   *)
(* edited and cancelled only while PENDING, re-priced only while unpaid    *)
(* and not yet in the kitchen, charged at most once and exactly its total, *)
(* and deleted only while unpaid.  Production moves it freely, as the      *)
(* routes of order.controller.ts do.                                       *)
(***************************************************************************)

CONSTANTS
  Orders, Payers, Carts, AdjustmentLists,
  Subtotal(_),       \* what a cart costs
  TotalAmounts(_, _) \* what a subtotal can come to under the adjustments

VARIABLES
  account,  \* account[o] = [status, subtotal, adjustments, total]
  charges   \* the payments recorded: [order, by, totalAmount]

vars == <<account, charges>>

Closed(status) == [status |-> status, subtotal |-> 0, adjustments |-> <<>>, total |-> 0]

Priced(status, s, a) ==
  {[status |-> status, subtotal |-> s, adjustments |-> a, total |-> t] : t \in TotalAmounts(s, a)}

Statuses == {"PENDING", "PENDING_PROCESSING", "PROCESSING", "READY", "PICKED_UP", "CANCELLED"}

Open(o) == account[o].status \in Statuses
Paid(o) == \E c \in charges : c.order = o

Init ==
  /\ account = [o \in Orders |-> Closed("UNISSUED")]
  /\ charges = {}

Become(o, states) ==
  /\ \E state \in states : account' = [account EXCEPT ![o] = state]
  /\ UNCHANGED charges

Place(o) ==
  /\ account[o].status = "UNISSUED"
  /\ \E c \in Carts, a \in AdjustmentLists : Become(o, Priced("PENDING", Subtotal(c), a))

Edit(o) ==
  /\ account[o].status = "PENDING"
  /\ \E c \in Carts : Become(o, Priced("PENDING", Subtotal(c), account[o].adjustments))

Adjust(o) ==
  /\ account[o].status \in {"PENDING", "PENDING_PROCESSING"} /\ ~Paid(o)
  /\ \E a \in AdjustmentLists :
       Become(o, Priced(account[o].status, account[o].subtotal, a))

Move(o, from, to) ==
  /\ account[o].status \in from
  /\ Become(o, {[account[o] EXCEPT !.status = to]})

Pay(o) ==
  /\ Open(o) /\ ~Paid(o)
  /\ \E p \in Payers :
       charges' = charges \cup {[order |-> o, by |-> p, totalAmount |-> account[o].total]}
  /\ UNCHANGED account

Delete(o) ==
  /\ Open(o) /\ ~Paid(o)
  /\ Become(o, {Closed("DELETED")})

Next == \E o \in Orders :
  \/ Place(o) \/ Edit(o) \/ Adjust(o) \/ Pay(o) \/ Delete(o)
  \/ Move(o, {"PENDING"}, "CANCELLED")
  \/ Move(o, {"PENDING", "PENDING_PROCESSING"}, "PENDING_PROCESSING")
  \/ \E to \in {"PROCESSING", "READY", "PICKED_UP"} : Move(o, Statuses, to)

Spec == Init /\ [][Next]_vars
=============================================================================
