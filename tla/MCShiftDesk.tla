---------------------------- MODULE MCShiftDesk ----------------------------
(***************************************************************************)
(* Values for model checking ShiftDesk: closes that give nothing, both     *)
(* amounts, one of them, and a 0, of whole cents and of parts of one.      *)
(***************************************************************************)
EXTENDS ShiftDesk, TLC

Body(opening, closing, confirmed) ==
  [opening |-> opening, closing |-> closing, confirmed |-> confirmed, skipped |-> FALSE]

\* With Scale = 10, tenths of a cent: among them amounts that are stored as less than
\* they are (1.4 cents) or as 0 (0.4), and two that are rounded, with their difference,
\* one by one (-1.5 and 200.6, 202.1 apart, are stored as -2, 201 and 202).
MCClosings == { Body(Null, Null, Null), Body(20, 30, TRUE), Body(14, 0, Null),
                Body(0, 50, FALSE), Body(4, Null, Null), Body(-15, 2006, Null) }

\* Requests are interchangeable, and so are users.
Symmetry == Permutations(Requests) \cup Permutations(Users)
=============================================================================
