-------------------------- MODULE MCOrderLifecycle --------------------------
(***************************************************************************)
(* Values for model checking OrderLifecycle: two carts of different price  *)
(* and two adjustment lists under which all four totals differ, one of     *)
(* which is next to a half cent and can be stored in two ways.             *)
(***************************************************************************)
EXTENDS OrderLifecycle

Line(price, quantity) ==
  [item |-> [price |-> price, promoPrice |-> NoPromo, hasPromo |-> FALSE],
   quantity |-> quantity]

MCCarts == { <<Line(1000, 1)>>, <<Line(1000, 1), Line(500, 2)>> }

MCAdjustmentLists ==
  { <<>>, <<[type |-> "PERCENTAGE", percentage |-> (Scale \div 10000) * 1005, fixedAmount |-> 0]>> }

\* Where prices do not matter.
OneCart == { <<Line(1000, 1)>> }
NoAdjustments == { <<>> }

\* Requests are interchangeable; the runs that say so check no liveness.
RequestSymmetry == Permutations(Requests)
=============================================================================
