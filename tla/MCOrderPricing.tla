--------------------------- MODULE MCOrderPricing ---------------------------
(***************************************************************************)
(* Model checking of OrderPricing: every cart of at most MaxLines lines    *)
(* over Items, and every list of at most MaxAdjustments adjustments, is    *)
(* built one element at a time, and the price is compared with what the    *)
(* columns would hold by a definition that does not loop.                  *)
(***************************************************************************)
EXTENDS OrderPricing

CONSTANTS MaxLines, MaxAdjustments

\* The steps of the longest list leave the sum within half a cent (for doubles, of prices
\* that their columns can hold, it is within a thousandth).
ASSUME ErrAssumption ==
  /\ MaxLines \in Nat /\ MaxAdjustments \in Nat
  /\ 2 * (MaxAdjustments + 1) * Err < Scale

VARIABLES cart, adjustments

Item(price, promoPrice, hasPromo) ==
  [price |-> price, promoPrice |-> promoPrice, hasPromo |-> hasPromo]

\* No promo; a promo that is off; a free promo; a promo with no price; odd cents.
Items == { Item(100, NoPromo, FALSE), Item(1000, 800, FALSE), Item(1000, 0, TRUE),
           Item(1000, NoPromo, TRUE), Item(333, 199, TRUE) }

\* Of thousandths of a percent, and of cents.
Percent(p) == [type |-> "PERCENTAGE", percentage |-> p * (Scale \div 100000), fixedAmount |-> 0]
Fixed(a)   == [type |-> "FIXED_AMOUNT", percentage |-> 0, fixedAmount |-> Units(a)]

\* 15% and 11.5%, which with 40 cents on a subtotal of 1.00 meet a half cent; a third of 10%;
\* a 50% discount; a fixed discount larger than some subtotals; a fixed charge with a
\* third decimal, whose row has a percentage as well (the routes accept both).
Adjustments == { Percent(15000), Percent(11500), Fixed(40), Percent(3333), Percent(-50000),
                 Fixed(-400),
                 [type |-> "FIXED_AMOUNT", percentage |-> 5, fixedAmount |-> Units(2) + Scale \div 2] }

Init == cart = <<>> /\ adjustments = <<>>

AddLine ==
  /\ Len(cart) < MaxLines
  /\ \E i \in Items, q \in 1..2 : cart' = Append(cart, [item |-> i, quantity |-> q])
  /\ UNCHANGED adjustments

AddAdjustment ==
  /\ Len(adjustments) < MaxAdjustments
  /\ \E a \in Adjustments : adjustments' = Append(adjustments, a)
  /\ UNCHANGED cart

Next == AddLine \/ AddAdjustment

Spec == Init /\ [][Next]_<<cart, adjustments>>

-----------------------------------------------------------------------------
\* The type of an adjustment says which of its two fields counts.
PercentOf(adj) == IF adj.type = "PERCENTAGE" THEN adj.percentage ELSE 0
FixedOf(adj)   == IF adj.type = "PERCENTAGE" THEN 0 ELSE adj.fixedAmount

PercentSum == FoldLeft(LAMBDA s, a : s + PercentOf(a), 0, adjustments)
FixedSum   == FoldLeft(LAMBDA s, a : s + FixedOf(a), 0, adjustments)

\* The exact price: the subtotal, one combined percentage of it, and the fixed sum.
Exact == Units(Subtotal(cart)) + Subtotal(cart) * PercentSum + FixedSum

\* The most that the sum of the doubles is off after all its steps.
Off == (Len(adjustments) + 1) * Err

\* The list as it stands, rotated and reversed.
Lists == {adjustments, Reverse(adjustments)} \cup
         {SubSeq(adjustments, k, Len(adjustments)) \o SubSeq(adjustments, 1, k - 1) :
            k \in 1..Len(adjustments)}

\* The order in which the adjustments are listed (findMany has no orderBy, and an edit
\* replays the stored snapshot) changes the total of the order by a cent at most, and only
\* where the exact price is as near to a half cent as the doubles can be off: 15%, 11.5%
\* and 0.40 on 1.00 make 1.67 or 1.66.
ListOrderMovesACent ==
  \A a, b \in Lists : \A t \in TotalAmounts(Subtotal(cart), a), u \in TotalAmounts(Subtotal(cart), b) :
    /\ t - u \in {-1, 0, 1}
    /\ ToCents(Exact - Off) = ToCents(Exact + Off) => t = u

\* The total is the exact price rounded once: it is never further from it than half a
\* cent and what the doubles are off.
TotalIsRoundedOnce ==
  \A t \in TotalAmounts(Subtotal(cart), adjustments) :
    LET off == 2 * (Units(t) - Exact)
    IN -(Scale + 2 * Off) <= off /\ off <= Scale + 2 * Off
=============================================================================
