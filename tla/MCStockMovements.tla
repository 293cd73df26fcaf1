------------------------- MODULE MCStockMovements -------------------------
(***************************************************************************)
(* Values for model checking StockMovements: an order of an individual     *)
(* item, and one of a packet, sold twice, that holds both items.           *)
(***************************************************************************)
EXTENDS StockMovements, TLC

CONSTANTS i1, i2

Single == [packet |-> FALSE, qty |-> 1, choices |-> <<[item |-> i1, qty |-> 1]>>]
Packet == [packet |-> TRUE, qty |-> 2,
           choices |-> <<[item |-> i2, qty |-> 1], [item |-> i1, qty |-> 1]>>]

MCSales == { <<Single>>, <<Single, Packet>> }
\* Requests are interchangeable.
RequestSymmetry == Permutations(Requests)
=============================================================================
