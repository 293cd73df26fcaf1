-------------------------- MODULE MCResponseCache --------------------------
(***************************************************************************)
(* Rows for model checking ResponseCache: three small catalogues, in which *)
(* between them every foreign key is set, and rows that can be created.    *)
(***************************************************************************)
EXTENDS ResponseCache, TLC

MCKind ==
  "m1" :> "menu" @@ "m2" :> "menu" @@ "s1" :> "section" @@ "l1" :> "sectionItem"
  @@ "i1" :> "item" @@ "i2" :> "item" @@ "p1" :> "packetSection"
  @@ "c1" :> "choice" @@ "st1" :> "station" @@ "t1" :> "table" @@ "t2" :> "table"
  @@ "o1" :> "order" @@ "u1" :> "user" @@ "u2" :> "user" @@ "a1" :> "adjustment" @@ "b1" :> "additional"
  @@ "h1" :> "hours"

MCIds == DOMAIN MCKind

There(refs) == [status |-> "LISTED", slug |-> TRUE, ver |-> 0, refs |-> refs]
Unissued    == [status |-> "UNISSUED", slug |-> FALSE, ver |-> 0, refs |-> {}]
Removed     == [status |-> "DELETED", slug |-> FALSE, ver |-> 0, refs |-> {}]

\* The rows of refs are there, each with what it refers to, and those of free may come.
With(refs, free) ==
  [i \in MCIds |-> IF i \in DOMAIN refs THEN There(refs[i])
                   ELSE IF i \in free THEN Unissued ELSE Removed]

\* A menu of one section, in it a packet with a choice.
MCMenus ==
  With("m1" :> {} @@ "s1" :> {"m1"} @@ "l1" :> {"s1", "i1"} @@ "i1" :> {} @@ "i2" :> {}
       @@ "p1" :> {"i1"} @@ "c1" :> {"p1", "i2"}, {"m2"})

\* A station, with one of its staff and a packet that is made there.
MCStations ==
  With("st1" :> {} @@ "u1" :> {"st1"} @@ "i1" :> {"st1"} @@ "p1" :> {"i1", "st1"}
       @@ "a1" :> {} @@ "h1" :> {}, {"b1"})

\* A table with an order; a guest can come, and another table.
MCTables == With("t1" :> {} @@ "u1" :> {} @@ "o1" :> {"t1", "u1"}, {"u2", "t2"})

MCCatalogues == {MCMenus, MCStations, MCTables}

\* Requests are interchangeable.
RequestSymmetry == Permutations(Requests)
=============================================================================
