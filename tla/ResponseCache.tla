--------------------------- MODULE ResponseCache ---------------------------
(***************************************************************************)
(* The response cache: cache.interceptor.ts over redis.service.ts, with    *)
(* the keys that the controllers give their routes, around the services of *)
(* Catalogue.  A read is answered from Redis; when nothing is there the    *)
(* handler queries the database and the answer is stored for an hour.  A   *)
(* write runs its handler and then deletes the keys its route names.       *)
(*                                                                         *)
(* Each action is one query or one Redis command, but that the queries one *)
(* read makes are a single step.  The lists show every row of their table: *)
(* which page or search a query asks for makes no difference to what must  *)
(* be deleted, only that the key then ends in the query.                   *)
(***************************************************************************)
EXTENDS Catalogue

CONSTANTS
  Catalogues,     \* the rows the behaviours begin with
  Requests,       \* requests that can be under way at once
  Queries,        \* whether a request may have a query, or none: a subset of BOOLEAN
  Null,           \* no key, no row
  Interruptions,  \* TRUE: a command may fail, or the process die, at any await
  MaxCalls,       \* bound: the requests of one behaviour
  MaxKeys         \* bound: the keys that are stored, or being read, at once

ASSUME CacheAssumption ==
  /\ Catalogues \subseteq [Ids -> Row]
  /\ \A R \in Catalogues : Whole(R)
  /\ Queries \subseteq BOOLEAN
  /\ Null \notin Ids /\ Ids \cap {"all", "for-shift", ""} = {}
  /\ Interruptions \in BOOLEAN /\ MaxCalls \in Nat /\ MaxKeys \in Nat

VARIABLES
  cache,  \* Redis: the entry of each key that is stored
  req,    \* the requests under way
  calls   \* history: how many requests there have been

vars == <<rows, cache, req, calls>>

-----------------------------------------------------------------------------
(***************************************************************************)
(* Keys.  The rest of a key is "all", another word, or the id in the path; *)
(* then comes the query, if the request has one.                           *)
(***************************************************************************)

\* The tables whose routes are cached, and whether one of them is read by its id.
Cached == {"menu", "section", "item", "station", "table", "user", "adjustment",
           "additional", "hours"}

Paths == {<<k, "all">> : k \in Cached \ {"hours"}} \cup {<<"user", "for-shift">>, <<"hours", "">>}
           \cup {<<Kind[i], i>> : i \in {j \in Ids : Kind[j] \in Cached \ {"hours"}}}

Keys == {[kind |-> p[1], rest |-> p[2], query |-> q] : p \in Paths, q \in Queries}

\* What a route names: one key, the keys that begin so, or every key of the kind.
Exact(kind, rest)  == [kind |-> kind, rest |-> rest, star |-> FALSE]
Prefix(kind, rest) == [kind |-> kind, rest |-> rest, star |-> TRUE]
Every(kind)        == [kind |-> kind, rest |-> "*", star |-> TRUE]

\* Exactly the key when the name has no wildcard, else the keys that match it.
Matches(name, key) ==
  /\ name.kind = key.kind
  /\ \/ name.rest = "*"
     \/ name.rest = key.rest /\ (name.star \/ ~key.query)

\* The names of the routes of each controller, by operation and row.
MenuNames(op, i) ==
  {Exact("menu", "all")} \cup (IF op = "create" THEN {} ELSE {Exact("menu", i)})

\* The routes of a section and those of its items: section is the id in the path.
SectionNames(op, section) ==
  {Prefix("section", "all")} \cup (IF op = "create" THEN {} ELSE {Exact("section", section)})

\* PATCH visibility/bulk has no id in its path: the name keeps the words of the template.
BulkNames == {Prefix("section", "all"), Exact("section", "params.id")}

ItemNamesMut == {Every("item"), Every("menu")}

ItemNames == {Every("item"), Every("menu"), Every("section")}

StationNames(op, i) ==
  {Prefix("station", "all")} \cup (IF op = "create" THEN {} ELSE {Exact("station", i)})

TableNames(op, i) ==
  {Prefix("table", "all")} \cup (IF op = "create" THEN {} ELSE {Exact("table", i)})

AdjustmentNames(op) ==
  {IF op = "create" THEN Prefix("adjustment", "all") ELSE Every("adjustment")}

AdditionalNames(op) ==
  {IF op = "create" THEN Prefix("additional", "all") ELSE Every("additional")}

UserNames(op) ==
  CASE op = "create" -> {Prefix("user", "all")}
    [] op \in {"guest", "password"} -> {}
    [] OTHER -> {Every("user")}

HoursNames == {Exact("hours", "")}

OrderNames == {Every("order")}

\* The names of the route that makes write w to the rows R.
Names(R, w) ==
  LET kind == Kind[w.row]
      \* The section a link is in: from the rows where it is listed.
      section == CHOOSE s \in Table["section"] :
                   s \in (IF w.op = "create" THEN w.refs ELSE R[w.row].refs)
  IN CASE w.op = "stock"         -> {}
       [] kind = "menu"          -> MenuNames(w.op, w.row)
       [] kind = "section"       -> SectionNames(w.op, w.row)
       [] kind = "sectionItem"   -> SectionNames("update", section)
       [] kind \in {"packetSection", "choice"} \/ (kind = "item" /\ w.op # "stock") -> ItemNames
       [] kind = "station"       -> StationNames(w.op, w.row)
       [] kind = "table"         -> TableNames(w.op, w.row)
       [] kind = "adjustment"    -> AdjustmentNames(w.op)
       [] kind = "additional"    -> AdditionalNames(w.op)
       [] kind = "user"          -> UserNames(w.op)
       [] kind = "hours"         -> HoursNames
       [] kind = "order"         -> OrderNames

-----------------------------------------------------------------------------
\* The rows the answer to a key shows.
Shows(R, key) ==
  LET all == ListedOf(R, key.kind)
      one == {key.rest} \cap all
  IN IF key.rest \in {"all", "for-shift", ""}
     THEN CASE key.kind = "item" -> ItemsAnswer(R, all)
            [] key.kind = "user" -> UsersAnswer(R, all)
            [] OTHER -> all
     ELSE IF one = {} THEN {}
     ELSE CASE key.kind = "section" -> SectionDetails(R, key.rest)
            [] key.kind = "item"    -> ItemDetails(R, key.rest)
            [] key.kind = "table"   -> TableDetails(R, key.rest)
            [] key.kind = "user"    -> UsersAnswer(R, one)
            [] OTHER -> one

\* What the handler answers from the rows R.
Answer(R, key) == {<<i, R[i].ver>> : i \in Shows(R, key)}

\* Details of a row that is not there: a menu, a section and a station are answered
\* with null, which is stored like any answer; the others are refused with 404.
Refused(R, key) ==
  /\ key.rest \in Ids \ Listed(R)
  /\ key.kind \notin {"menu", "section", "station"}

\* What is stored.  History: late, it was old when it was stored; lost, a request that
\* was to delete it failed before it did; unnamed, the writes that changed the
\* answer while their route does not name the key.
Writers == [op : {"create", "guest", "update", "renumber", "delete", "password", "stock", "bulk"},
            kind : Kinds]
Entry == [answer : SUBSET (Ids \X Nat), late : BOOLEAN, lost : BOOLEAN,
          unnamed : SUBSET Writers]

Pc == {"idle", "query", "store", "slug", "bulk", "clear"}

Name == [kind : Cached \cup {"order"}, rest : Ids \cup {"all", "*", "", "params.id"},
         star : BOOLEAN]

Request == [pc : Pc, key : Keys \cup {Null}, answer : SUBSET (Ids \X Nat), row : Ids \cup {Null},
            names : SUBSET Name, left : SUBSET Ids, failed : BOOLEAN]

Idle == [pc |-> "idle", key |-> Null, answer |-> {}, row |-> Null, names |-> {}, left |-> {},
         failed |-> FALSE]

Sound(q) == /\ q.pc \in {"query", "store"} => q.key \in Keys
            /\ q.pc = "slug" => q.row \in Ids
            /\ q.pc = "bulk" => q.left # {} \/ q.failed
            /\ q.pc = "clear" => q.names # {}

TypeOK ==
  /\ rows \in [Ids -> Row] /\ Whole(rows)
  /\ DOMAIN cache \subseteq Keys /\ \A key \in DOMAIN cache : cache[key] \in Entry
  /\ req \in [Requests -> Request]
  /\ \A r \in Requests : Sound(req[r])
  /\ calls \in Nat

Init ==
  /\ rows \in Catalogues
  /\ cache = [key \in {} |-> Null]
  /\ req = [r \in Requests |-> Idle]
  /\ calls = 0

-----------------------------------------------------------------------------
MayStart(r) == req[r].pc = "idle" /\ calls < MaxCalls /\ calls' = calls + 1

Go(r, state) == req' = [req EXCEPT ![r] = state]

Stored(key) == key \in DOMAIN cache

InUse == DOMAIN cache \cup {req[r].key : r \in {q \in Requests : req[q].pc \in {"query", "store"}}}

Named(names, key) == \E name \in names : Matches(name, key)

\* The rows become R, by a request that will delete names.
Change(R, names, op, kind) ==
  /\ rows' = R
  /\ cache' = [key \in DOMAIN cache |->
                 IF ~Named(names, key) /\ Answer(R, key) # Answer(rows, key)
                 THEN [cache[key] EXCEPT !.unnamed = @ \cup {[op |-> op, kind |-> kind]}]
                 ELSE cache[key]]

\* Request r ends without deleting what it was to delete.
Fail(r) ==
  /\ cache' = [key \in DOMAIN cache |->
                 [cache[key] EXCEPT !.lost = @ \/ Named(req[r].names, key)]]
  /\ Go(r, Idle)

-----------------------------------------------------------------------------
\* A read: the answer in Redis, if there is one; an error counts as none.
Lookup(r, key) ==
  /\ MayStart(r) /\ Cardinality(InUse \cup {key}) <= MaxKeys
  /\ \/ Stored(key) /\ Go(r, Idle)
     \/ (~Stored(key) \/ Interruptions) /\ Go(r, [Idle EXCEPT !.pc = "query", !.key = key])
  /\ UNCHANGED <<rows, cache>>

\* ... the handler ...
Query(r) ==
  LET key == req[r].key
  IN /\ req[r].pc = "query"
     /\ Go(r, IF Refused(rows, key) THEN Idle
              ELSE [req[r] EXCEPT !.pc = "store", !.answer = Answer(rows, key)])
     /\ UNCHANGED <<rows, cache>>

NewEntry(key, answer) ==
  [answer |-> answer, late |-> answer # Answer(rows, key), lost |-> FALSE, unnamed |-> {}]

Put(key, entry) == [k \in DOMAIN cache \cup {key} |-> IF k = key THEN entry ELSE cache[k]]

\* ... and its answer is stored.
Store(r) ==
  LET q == req[r]
  IN /\ q.pc = "store"
     /\ cache' = Put(q.key, NewEntry(q.key, q.answer))
     /\ Go(r, Idle)
     /\ UNCHANGED rows

Clearing(r, names) == Go(r, IF names = {} THEN Idle ELSE [Idle EXCEPT !.pc = "clear", !.names = names])

\* A write: the handler's query; of a create, the insert.
WriteRow(r) ==
  /\ MayStart(r)
  /\ \E w \in Writes(rows) :
       LET names == Names(rows, w)
       IN /\ Change(After(rows, w), names, w.op, Kind[w.row])
          /\ IF w.op \in {"create", "guest"} /\ Kind[w.row] \in Slugged
             THEN Go(r, [Idle EXCEPT !.pc = "slug", !.row = w.row, !.names = names])
             ELSE Clearing(r, names)

\* ... and the update after it, which fails when the row is gone again.  Of the creates
\* with a slug it is only that of a guest whose route names nothing.
WriteSlug(r) ==
  LET q  == req[r]
      op == IF q.names = {} THEN "guest" ELSE "create"
  IN /\ q.pc = "slug"
     /\ \/ /\ q.row \in Listed(rows)
           /\ Change(WithSlug(rows, q.row), q.names, op, Kind[q.row])
           /\ Clearing(r, q.names)
        \/ /\ q.row \notin Listed(rows)
           /\ Fail(r) /\ UNCHANGED rows

\* bulkUpdateVisibility: all sections are looked for, 404 ...
BulkLook(r, S) ==
  /\ MayStart(r)
  /\ S # {} /\ S \subseteq ListedOf(rows, "section")
  /\ Go(r, [Idle EXCEPT !.pc = "bulk", !.left = S, !.names = BulkNames])
  /\ UNCHANGED <<rows, cache>>

\* ... and updated, each on its own: one that is gone fails the request, not the others.
BulkWrite(r, s) ==
  LET q    == req[r]
      gone == s \notin Listed(rows)
      left == q.left \ {s}
  IN /\ q.pc = "bulk" /\ s \in q.left
     /\ IF gone THEN UNCHANGED <<rows, cache>>
        ELSE Change(Shown(rows, s), q.names, "bulk", "section")
     /\ IF left = {} /\ ~gone /\ ~q.failed THEN Clearing(r, q.names)
        ELSE Go(r, [q EXCEPT !.left = left, !.failed = @ \/ gone])

BulkFails(r) ==
  /\ req[r].pc = "bulk" /\ req[r].left = {}
  /\ Fail(r) /\ UNCHANGED rows

Without(keys) == [key \in DOMAIN cache \ keys |-> cache[key]]

ClearMut(r, name) ==
  LET names == req[r].names \ {name}
  IN /\ req[r].pc = "clear" /\ name \in req[r].names
     /\ cache' = Without({key \in DOMAIN cache : Matches(name, key) /\ ~name.star})
     /\ Clearing(r, names)
     /\ UNCHANGED rows

\* The keys of one name are deleted: all names are sent at once, in no order.
Clear(r, name) ==
  LET names == req[r].names \ {name}
  IN /\ req[r].pc = "clear" /\ name \in req[r].names
     /\ cache' = Without({key \in DOMAIN cache : Matches(name, key)})
     /\ Clearing(r, names)
     /\ UNCHANGED rows

Interrupt(r) ==
  /\ Interruptions /\ req[r].pc # "idle"
  /\ Fail(r) /\ UNCHANGED rows

\* Redis drops an entry whose time has come.
Expire(key) ==
  /\ Stored(key)
  /\ cache' = Without({key})
  /\ UNCHANGED <<rows, req, calls>>

Step(r) ==
  \/ Query(r) \/ Store(r) \/ WriteSlug(r)
  \/ \E s \in req[r].left : BulkWrite(r, s)
  \/ BulkFails(r)
  \/ \E name \in req[r].names : Clear(r, name)
  \/ Interrupt(r)

Next ==
  \/ \E r \in Requests : \/ \E key \in Keys : Lookup(r, key)
                         \/ WriteRow(r)
                         \/ \E S \in SUBSET Table["section"] : BulkLook(r, S)
                         \/ Step(r) /\ UNCHANGED calls
  \/ \E key \in DOMAIN cache : Expire(key)

Spec == Init /\ [][Next]_vars

-----------------------------------------------------------------------------
(***************************************************************************)
(* Correctness.                                                            *)
(***************************************************************************)

\* Requests that are still to delete key.
Pending(key) == {r \in Requests : req[r].pc \in {"slug", "bulk", "clear"} /\ Named(req[r].names, key)}

Stale(key) == Stored(key) /\ cache[key].answer # Answer(rows, key)

\* An answer in the cache is what the handler would answer now, unless the write that
\* made it old is still to delete it, failed before it did, or does not name its key, or
\* the answer was old when it was stored: its reader had queried before the write and
\* stored after it.
AnswersAreFresh ==
  \A key \in DOMAIN cache : Stale(key) =>
    \/ Pending(key) # {}
    \/ cache[key].lost \/ cache[key].late \/ cache[key].unnamed # {}

Ops == {"create", "update", "renumber", "delete"}
By(ops, kinds) == {[op |-> o, kind |-> k] : o \in ops, k \in kinds}

\* The writes that change the answer to a key while their route does not name it:
\* an exact name leaves the key with a query, and
\*   menus are only named so, and details of all that is not deleted by "*";
\*   a create does not name the details of the row, answered with null before, nor the
\*   move of a table to another number those of that number;
\*   sections show menus, items stations and sections, users stations, tables orders;
\*   the visibility of sections names no details, stock nothing, a password nothing;
\*   the login of a guest names nothing, though lists show the user that it makes.
Unnamed(key) ==
  LET details == key.rest \in Ids
  IN UNION {
       IF key.query /\ (key.kind = "menu" \/ details \/ key.kind = "hours")
         THEN By(Ops, {key.kind}) ELSE {},
       IF details THEN By({"create"}, {key.kind}) ELSE {},
       IF key.kind \in {"item", "section", "user"} THEN By(Ops, {"station"}) ELSE {},
       IF key.kind \in {"item", "section"} THEN By({"stock"}, {"item"}) ELSE {},
       IF key.kind = "section" THEN By({"delete"}, {"menu"}) ELSE {},
       IF key.kind = "section" /\ details
         THEN By(Ops, {"menu"}) \cup By({"bulk"}, {"section"}) \cup
              (IF key.query THEN By(Ops, {"sectionItem"}) ELSE {}) ELSE {},
       IF key.kind = "item" /\ details
         THEN By(Ops, {"menu", "section", "sectionItem"}) \cup By({"bulk"}, {"section"}) ELSE {},
       IF key.kind = "table" /\ details
         THEN By(Ops, {"order", "user"}) \cup By({"renumber"}, {"table"}) ELSE {},
       IF key.kind = "user" THEN By({"guest", "password"}, {"user"}) ELSE {},
       IF key.rest = "for-shift" THEN By({"create"}, {"user"}) ELSE {}}

\* Every other write that changes an answer names its key: a write to a packet, say, all
\* that shows the item, and a write to an adjustment all that shows the adjustment.
NamesCoverWrites ==
  \A key \in DOMAIN cache : \A w \in cache[key].unnamed : w \in Unnamed(key)
=============================================================================
