---------------------------- MODULE OrderPricing ----------------------------
(***************************************************************************)
(* What an order costs: the arithmetic shared by createOrder, editOrder    *)
(* and updatePricingAdjustments of order.service.ts.                       *)
(*                                                                         *)
(* Prices are in cents, as their columns are.  What is computed from them  *)
(* is in units of Money, and in JavaScript's doubles: what one step comes  *)
(* to may be off by a few units, and in which direction depends on the     *)
(* numbers and on the order of the steps.  A percentage is in units of the *)
(* cent, an adjustment's amount in units: neither is held to two decimals. *)
(***************************************************************************)
EXTENDS Money, SequencesExt

CONSTANT Err   \* the most that a step on doubles is off, in units

ASSUME PricingAssumption == Err \in Nat

\* A missing promoPrice (null). A promo price of 0 is present: it arrives as
\* a Decimal object, which JavaScript holds to be true.
NoPromo == -1

\* The unit price copied into the order item.
UnitPrice(item) ==
  IF item.hasPromo /\ item.promoPrice # NoPromo THEN item.promoPrice ELSE item.price

\* The subtotal of a cart, a sequence of lines [item, quantity]: prices are whole cents,
\* and so is what the column makes of their sum.
Subtotal(cart) ==
  FoldLeft(LAMBDA sum, line : sum + UnitPrice(line.item) * line.quantity, 0, cart)

\* What a step on doubles can come to for what is exactly amount.
Near(amount) == (amount - Err)..(amount + Err)

\* A plausible slip: each percentage is taken of the running total.
AdjustmentAmountMut(adj, subtotal, running) ==
  IF adj.type = "PERCENTAGE" THEN (running \div Scale) * adj.percentage ELSE adj.fixedAmount

\* What one adjustment adds: a percentage is always taken of the subtotal,
\* never of the running total, so adjustments do not compound.
AdjustmentAmount(adj, subtotal, running) ==
  IF adj.type = "PERCENTAGE" THEN subtotal * adj.percentage ELSE adj.fixedAmount

\* calculateTotalAmount over a snapshot of adjustments, one after the other: what the sum
\* can come to.  A null snapshot is the empty sequence; a zero or missing percentage or
\* amount, which the code skips, adds nothing.  The subtotal is a sum of doubles itself
\* where it was not read from its column.
Sums(subtotal, adjustments) ==
  FoldLeft(LAMBDA sums, adj : UNION {Near(sum + AdjustmentAmount(adj, subtotal, sum)) : sum \in sums},
           Near(Units(subtotal)), adjustments)

\* A plausible slip: the total is rounded at every step.
TotalAmountsMut(subtotal, adjustments) ==
  {FoldLeft(LAMBDA total, adj : ToCents(Units(total) + AdjustmentAmount(adj, subtotal, Units(total))),
            subtotal, adjustments)}

\* The totals that can be stored: the column rounds the sum, once.
TotalAmounts(subtotal, adjustments) == {ToCents(sum) : sum \in Sums(subtotal, adjustments)}
=============================================================================
