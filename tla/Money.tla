------------------------------- MODULE Money -------------------------------
(***************************************************************************)
(* Money.  The columns hold whole cents (Decimal(10, 2)); an amount on its *)
(* way to one may be finer, and is a number of units, Scale of them to the *)
(* cent.                                                                   *)
(***************************************************************************)
EXTENDS Integers

CONSTANT Scale   \* so many that every amount is a whole number of them

ASSUME MoneyAssumption == Scale \in Nat \ {0}

Units(cents) == cents * Scale

\* What the column holds: the nearest cent, of a half cent the one away from zero.
ToCents(amount) ==
  IF amount >= 0 THEN (2 * amount + Scale) \div (2 * Scale)
                 ELSE -((Scale - 2 * amount) \div (2 * Scale))
=============================================================================
