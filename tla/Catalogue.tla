----------------------------- MODULE Catalogue -----------------------------
(***************************************************************************)
(* The tables behind the catalogue (menus, sections, items, packets,       *)
(* stations, tables and the two lists of adjustments), with the users, the *)
(* orders and the opening hours as far as the answers about the others     *)
(* show them: the rows, which rows they refer to, and what each service    *)
(* writes.  What a row says is its version, the number of its writes.      *)
(*                                                                         *)
(* A service looks a row up before it writes it, to answer 404; the write  *)
(* fails in the same way when the row is not there (P2025, P2003), so that *)
(* the look is not a step of its own.                                      *)
(***************************************************************************)
EXTENDS Integers, FiniteSets

CONSTANTS
  Ids,   \* the rows there can be, of all tables
  Kind   \* the table of each

Kinds == {"menu", "section", "sectionItem", "item", "packetSection", "choice", "station",
          "table", "order", "user", "adjustment", "additional", "hours"}

ASSUME CatalogueAssumption == Kind \in [Ids -> Kinds]

VARIABLES rows

-----------------------------------------------------------------------------
Row == [status : {"UNISSUED", "LISTED", "DELETED"}, slug : BOOLEAN, ver : Nat,
        refs : SUBSET Ids]

\* The tables the foreign keys of a table lead to.
Parents ==
  [k \in Kinds |->
     CASE k = "section" -> {"menu"}
       [] k = "sectionItem" -> {"section", "item"}
       [] k = "packetSection" -> {"item", "station"}
       [] k = "choice" -> {"packetSection", "item"}
       [] k \in {"item", "user"} -> {"station"}
       [] k = "order" -> {"table", "user"}
       [] OTHER -> {}]

\* onDelete: SetNull; the other foreign keys cascade.
SetNull == {"item", "user", "order"}

\* The foreign keys that the services, or the DTOs, ask for.
Needed(kind) ==
  CASE kind = "packetSection" -> {"item"}
    [] kind \in SetNull -> {}
    [] OTHER -> Parents[kind]

Table == [k \in Kinds |-> {i \in Ids : Kind[i] = k}]

Listed(R) == {i \in Ids : R[i].status = "LISTED"}

ListedOf(R, kind) == {i \in Table[kind] : R[i].status = "LISTED"}

\* The rows of a table that refer to one of S, and those that one of S refers to.
Referring(R, S, kind) == {i \in Table[kind] : R[i].refs \cap S # {}}
Targets(R, S, kind)   == {i \in Table[kind] : \E s \in S : i \in R[s].refs}

\* A row has one foreign key to each of those tables; an order has two to the users, of
\* who made it and of who was paid (they can be one and the same).
Fits(kind, S) ==
  /\ \A j, k \in S : Kind[j] = Kind[k] => j = k \/ (kind = "order" /\ Kind[j] = "user")
  /\ \A j, k, l \in S : Kind[j] = Kind[k] /\ Kind[k] = Kind[l] => j = k \/ k = l \/ j = l

\* A foreign key leads from a row that is there to another (the database sees to it), and
\* those a row needs are there (the columns may be null: it is the services, and the
\* cascades, that see to it).
Whole(R) ==
  \A i \in Ids :
    /\ \A j \in R[i].refs : /\ R[i].status = "LISTED" /\ R[j].status = "LISTED"
                            /\ Kind[j] \in Parents[Kind[i]]
    /\ Fits(Kind[i], R[i].refs)
    /\ R[i].status = "LISTED" => Needed(Kind[i]) \subseteq {Kind[j] : j \in R[i].refs}

\* What a create or an update can set the foreign keys of a row to.
Refs(R, kind) ==
  {S \in SUBSET {i \in Listed(R) : Kind[i] \in Parents[kind]} :
     /\ Needed(kind) \subseteq {Kind[i] : i \in S}
     /\ Fits(kind, S)}

-----------------------------------------------------------------------------
(***************************************************************************)
(* The services: a write is an operation, the row it is about and the rows *)
(* that one refers to after it; a service, the writes it can make to the   *)
(* rows R.                                                                 *)
(***************************************************************************)

Inserted(R, i, refs) ==
  [R EXCEPT ![i] = [status |-> "LISTED", slug |-> FALSE, ver |-> @.ver + 1, refs |-> refs]]

Updated(R, i, refs) == [R EXCEPT ![i].refs = refs, ![i].ver = @ + 1]

\* The update after an insert: the slug, and the place of the row.
Slugged == {"menu", "section", "item", "packetSection", "choice", "station", "table", "user"}
WithSlug(R, i) == [R EXCEPT ![i].slug = TRUE, ![i].ver = @ + 1]

\* The rows that go with those of S, and with S and those: no chain of cascades is
\* longer (menu, section, section item; station, packet section, choice).
Cascaded(R, S) == S \cup {i \in Listed(R) : Kind[i] \notin SetNull /\ R[i].refs \cap S # {}}
Gone(R, i) == Cascaded(R, Cascaded(R, {i}))

DeletedMut(R, i) ==
  LET gone == Gone(R, i)
  IN [k \in Ids |->
        IF k \in gone THEN [R[k] EXCEPT !.status = "DELETED", !.slug = FALSE, !.refs = {}]
        ELSE R[k]]

Deleted(R, i) ==
  LET gone == Gone(R, i)
  IN [k \in Ids |->
        IF k \in gone THEN [R[k] EXCEPT !.status = "DELETED", !.slug = FALSE, !.refs = {}]
        ELSE IF R[k].refs \cap gone # {}
             THEN [R[k] EXCEPT !.refs = @ \ gone, !.ver = @ + 1]
        ELSE R[k]]

\* A table with a new number moves to the id of that number, and its orders with it
\* (onUpdate: Cascade).
Renumbered(R, i, j) ==
  [k \in Ids |->
     IF k = i THEN [R[i] EXCEPT !.status = "DELETED", !.slug = FALSE, !.refs = {}]
     ELSE IF k = j THEN [R[i] EXCEPT !.slug = TRUE, !.ver = R[j].ver + 1]
     ELSE IF i \in R[k].refs THEN [R[k] EXCEPT !.refs = (@ \ {i}) \cup {j}, !.ver = @ + 1]
     ELSE R[k]]

Write(op, i, refs) == [op |-> op, row |-> i, refs |-> refs]

\* The rows after write w; refs of a "renumber" is the new id.
After(R, w) ==
  CASE w.op \in {"create", "guest"} -> Inserted(R, w.row, w.refs)
    [] w.op = "delete"   -> Deleted(R, w.row)
    [] w.op = "renumber" -> Renumbered(R, w.row, CHOOSE j \in w.refs : TRUE)
    [] OTHER             -> Updated(R, w.row, w.refs)

\* Ids come from a sequence that never issues one twice.
Creates(R, kind) ==
  {Write("create", i, refs) :
     i \in {j \in Table[kind] : R[j].status = "UNISSUED"}, refs \in Refs(R, kind)}

\* What the DTO of the update leaves out stays.
Updates(R, kind, fixed) ==
  UNION {{Write("update", i, refs) :
            refs \in {S \in Refs(R, kind) :
                        /\ {Kind[j] : j \in R[i].refs} \subseteq {Kind[j] : j \in S}
                        /\ \A j \in R[i].refs : Kind[j] \in fixed => j \in S}} :
         i \in ListedOf(R, kind)}

Deletes(R, kind) == {Write("delete", i, {}) : i \in ListedOf(R, kind)}

MenuService(R) == Creates(R, "menu") \cup Updates(R, "menu", {}) \cup Deletes(R, "menu")

SectionService(R) ==
  Creates(R, "section") \cup Updates(R, "section", {}) \cup Deletes(R, "section")

\* addItemToSection links an item to a section, also to one that it is in already.
AddItemToSection(R) == Creates(R, "sectionItem")

\* removeItemFromSection deletes one of the links (findFirst).
RemoveItemFromSection(R) == Deletes(R, "sectionItem")

UpdateSectionItemSort(R) == Updates(R, "sectionItem", {"section", "item"})

ItemService(R) == Creates(R, "item") \cup Updates(R, "item", {}) \cup Deletes(R, "item")

PacketSectionService(R) ==
  Creates(R, "packetSection") \cup Updates(R, "packetSection", {"item"})
    \cup Deletes(R, "packetSection")

ChoiceService(R) ==
  Creates(R, "choice") \cup Updates(R, "choice", {"packetSection"}) \cup Deletes(R, "choice")

ProductionStationService(R) ==
  Creates(R, "station") \cup Updates(R, "station", {}) \cup Deletes(R, "station")

\* The id of a table is its number: one that was deleted can come again.
FreeNumbers(R) == {i \in Table["table"] : R[i].status # "LISTED"}

TableService(R) ==
  Updates(R, "table", {}) \cup Deletes(R, "table")
    \cup {Write("create", i, {}) : i \in FreeNumbers(R)}
    \cup (UNION {{Write("renumber", i, {j}) : j \in FreeNumbers(R)} : i \in ListedOf(R, "table")})

PricingAdjustmentService(R) ==
  Creates(R, "adjustment") \cup Updates(R, "adjustment", {}) \cup Deletes(R, "adjustment")

AdditionalPricingAdjustmentService(R) ==
  Creates(R, "additional") \cup Updates(R, "additional", {}) \cup Deletes(R, "additional")

\* changePassword, and the writes of the password recovery, change the row of a user
\* too.
UserService(R) ==
  Creates(R, "user") \cup Updates(R, "user", {}) \cup Deletes(R, "user")
    \cup {Write("password", i, R[i].refs) : i \in ListedOf(R, "user")}

\* The login of a guest, POST auth/user-login, makes a user of its own.
AuthService(R) == {Write("guest", i, {}) : i \in {j \in Table["user"] : R[j].status = "UNISSUED"}}

OperatingHoursService(R) == Updates(R, "hours", {})

\* The modules of their own: an order is made or changed (a payment that overlaps
\* another changes who was paid again), stock is moved.
OrderService(R) ==
  Creates(R, "order") \cup Updates(R, "order", {"table"}) \cup Deletes(R, "order")
InventoryService(R) == {Write("stock", i, R[i].refs) : i \in ListedOf(R, "item")}

Writes(R) ==
  UNION {MenuService(R), SectionService(R), AddItemToSection(R), RemoveItemFromSection(R),
         UpdateSectionItemSort(R), ItemService(R), PacketSectionService(R), ChoiceService(R),
         ProductionStationService(R), TableService(R), PricingAdjustmentService(R),
         AdditionalPricingAdjustmentService(R), UserService(R), AuthService(R),
         OperatingHoursService(R), OrderService(R), InventoryService(R)}

\* One of the updates of bulkUpdateVisibility.
Shown(R, i) == Updated(R, i, R[i].refs)

-----------------------------------------------------------------------------
(***************************************************************************)
(* The answers: the rows each shows.                                       *)
(***************************************************************************)

\* Items with their stations and packets, as getAllItems includes them.
ItemsAnswer(R, S) ==
  LET packets == Referring(R, S, "packetSection")
      choices == Referring(R, packets, "choice")
  IN S \cup Targets(R, S, "station") \cup packets \cup choices \cup Targets(R, choices, "item")

\* ... and, of one item, the sections it is in.
ItemDetails(R, i) ==
  LET links == Referring(R, {i}, "sectionItem")
  IN ItemsAnswer(R, {i}) \cup links \cup Targets(R, links, "section")

\* A section with its menu and its items.
SectionDetails(R, i) ==
  LET links == Referring(R, {i}, "sectionItem")
  IN {i} \cup Targets(R, {i}, "menu") \cup links
       \cup ItemsAnswer(R, Targets(R, links, "item"))

TableDetails(R, i) == {i} \cup Referring(R, {i}, "order")

UsersAnswer(R, S) == S \cup Targets(R, S, "station")
=============================================================================
