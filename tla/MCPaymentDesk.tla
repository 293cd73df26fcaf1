--------------------------- MODULE MCPaymentDesk ---------------------------
(***************************************************************************)
(* Values for model checking PaymentDesk: an order of one item and one of  *)
(* two, of different types and totals.                                     *)
(***************************************************************************)
EXTENDS PaymentDesk, TLC

MCOrders ==
  { [type |-> "DINE_IN", lines |-> <<[item |-> 1, qty |-> 2]>>, total |-> 3, found |-> TRUE],
    [type |-> "TAKEAWAY", lines |-> <<[item |-> 1, qty |-> 1], [item |-> 2, qty |-> 1]>>,
     total |-> 5, found |-> FALSE] }

\* Requests are interchangeable.
RequestSymmetry == Permutations(Requests)
=============================================================================
