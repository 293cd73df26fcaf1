---------------------------- MODULE CacheProofs ----------------------------
(***************************************************************************)
(* Theorems about ResponseCache, for any catalogue, any number of requests *)
(* and of keys in the cache, with commands that fail at will.              *)
(*                                                                         *)
(* That a stale answer has one of four causes (AnswersAreFresh) has        *)
(* nothing to do with what the services write and the answers show:        *)
(* neither Writes nor Answer is expanded there.  That the rows stay whole  *)
(* (TypeOK) is about the writes, and that the routes name what they change *)
(* (NamesCoverWrites) about both, table by table.                          *)
(***************************************************************************)
EXTENDS ResponseCache, TLAPS

\* Requests and entries are records: all the proof needs of their types.
RequestFields == {"pc", "key", "answer", "row", "names", "left", "failed"}
EntryFields   == {"answer", "late", "lost", "unnamed"}

Shape == /\ DOMAIN req = Requests
         /\ \A r \in Requests : DOMAIN req[r] = RequestFields
         /\ \A key \in DOMAIN cache : DOMAIN cache[key] = EntryFields

IInv == Shape /\ AnswersAreFresh

\* A request that deletes keys, and a request that does not.
Clears(q, key) == q.pc \in {"slug", "bulk", "clear"} /\ Named(q.names, key)

\* A key is accounted for: fresh, or with an excuse.
Accounted(key) ==
  Stale(key) => \/ \E r \in Requests : Clears(req[r], key)
                \/ cache[key].lost \/ cache[key].late \/ cache[key].unnamed # {}

LEMMA AccountedAll == AnswersAreFresh <=> \A key \in DOMAIN cache : Accounted(key)
  BY DEF AnswersAreFresh, Accounted, Pending, Clears

LEMMA AccountedAllNext ==
  (\A key \in DOMAIN cache' : Accounted(key)') => AnswersAreFresh'
  BY DEF AnswersAreFresh, Accounted, Pending, Clears

\* A request goes into a new state.
LEMMA GoShape ==
  ASSUME Shape, NEW r \in Requests, NEW state, DOMAIN state = RequestFields, Go(r, state)
  PROVE  /\ DOMAIN req' = Requests /\ \A p \in Requests : DOMAIN req'[p] = RequestFields
         /\ \A p \in Requests : req'[p] = IF p = r THEN state ELSE req[p]
  BY DEF Shape, Go

LEMMA IdleShape ==
  /\ DOMAIN Idle = RequestFields /\ Idle.pc = "idle"
  /\ \A names : DOMAIN [Idle EXCEPT !.pc = "clear", !.names = names] = RequestFields
  BY DEF Idle, RequestFields

\* After the last name a request is idle, before it deletes what is left.
LEMMA ClearingEffect ==
  ASSUME Shape, NEW r \in Requests, NEW names, Clearing(r, names)
  PROVE  /\ DOMAIN req' = Requests /\ \A p \in Requests : DOMAIN req'[p] = RequestFields
         /\ \A p \in Requests \ {r} : req'[p] = req[p]
         /\ \A key : Named(names, key) => Clears(req'[r], key)
<1>1. CASE names = {}
  <2>1. Go(r, Idle) BY <1>1 DEF Clearing
  <2>. QED BY <1>1, <2>1, GoShape, IdleShape DEF Named
<1>2. CASE names # {}
  <2>. DEFINE state == [Idle EXCEPT !.pc = "clear", !.names = names]
  <2>1. Go(r, state) BY <1>2 DEF Clearing
  <2>2. state.pc = "clear" /\ state.names = names BY DEF Idle
  <2>3. DOMAIN state = RequestFields BY IdleShape
  <2>. HIDE DEF state
  <2>. QED BY <2>1, <2>2, <2>3, GoShape DEF Clears
<1>. QED BY <1>1, <1>2

\* What a change of the rows does to an entry.
LEMMA ChangeEffect ==
  ASSUME Shape, NEW R, NEW names, NEW op, NEW kind, Change(R, names, op, kind)
  PROVE  /\ DOMAIN cache' = DOMAIN cache
         /\ \A key \in DOMAIN cache :
              /\ DOMAIN cache'[key] = EntryFields
              /\ cache'[key].answer = cache[key].answer
              /\ cache'[key].late = cache[key].late /\ cache'[key].lost = cache[key].lost
              /\ cache[key].unnamed # {} => cache'[key].unnamed # {}
              /\ \/ Named(names, key) \/ cache'[key].unnamed # {}
                 \/ Answer(rows', key) = Answer(rows, key)
<1>. DEFINE change == [op |-> op, kind |-> kind]
<1>1. /\ rows' = R /\ DOMAIN cache' = DOMAIN cache
      /\ \A key \in DOMAIN cache :
           cache'[key] = IF ~Named(names, key) /\ Answer(R, key) # Answer(rows, key)
                         THEN [cache[key] EXCEPT !.unnamed = @ \cup {change}]
                         ELSE cache[key]
  BY DEF Change
<1>. HIDE DEF change
<1>2. ASSUME NEW key \in DOMAIN cache
      PROVE  LET e == [cache[key] EXCEPT !.unnamed = @ \cup {change}]
             IN /\ DOMAIN e = EntryFields /\ e.answer = cache[key].answer
                /\ e.late = cache[key].late /\ e.lost = cache[key].lost
                /\ e.unnamed = cache[key].unnamed \cup {change}
  BY DEF Shape, EntryFields
<1>. QED BY <1>1, <1>2 DEF Shape

LEMMA FailEffect ==
  ASSUME Shape, NEW r \in Requests, Fail(r)
  PROVE  /\ DOMAIN req' = Requests /\ \A p \in Requests : DOMAIN req'[p] = RequestFields
         /\ \A p \in Requests \ {r} : req'[p] = req[p]
         /\ DOMAIN cache' = DOMAIN cache
         /\ \A key \in DOMAIN cache :
              /\ DOMAIN cache'[key] = EntryFields
              /\ cache'[key].answer = cache[key].answer
              /\ cache'[key].late = cache[key].late
              /\ cache'[key].unnamed = cache[key].unnamed
              /\ cache[key].lost \/ Named(req[r].names, key) => cache'[key].lost
<1>1. /\ DOMAIN req' = Requests /\ \A p \in Requests : DOMAIN req'[p] = RequestFields
      /\ \A p \in Requests \ {r} : req'[p] = req[p]
  BY IdleShape, GoShape DEF Fail
<1>2. ASSUME NEW key \in DOMAIN cache
      PROVE  LET e == [cache[key] EXCEPT !.lost = @ \/ Named(req[r].names, key)]
             IN /\ DOMAIN e = EntryFields /\ e.answer = cache[key].answer
                /\ e.late = cache[key].late /\ e.unnamed = cache[key].unnamed
                /\ e.lost = (cache[key].lost \/ Named(req[r].names, key))
  BY DEF Shape, EntryFields
<1>3. /\ DOMAIN cache' = DOMAIN cache
      /\ \A key \in DOMAIN cache :
           cache'[key] = [cache[key] EXCEPT !.lost = @ \/ Named(req[r].names, key)]
  BY DEF Fail
<1>. QED BY <1>1, <1>2, <1>3

-----------------------------------------------------------------------------
\* The requests after a step of r: records, and the others as they were.
Stepped(r) == /\ DOMAIN req' = Requests /\ \A p \in Requests : DOMAIN req'[p] = RequestFields
              /\ \A p \in Requests \ {r} : req'[p] = req[p]

\* r goes on to delete all it was to delete.
Holds(r) == \A key : Clears(req[r], key) => Clears(req'[r], key)

LEMMA GoSteps ==
  ASSUME Shape, NEW r \in Requests, NEW state, DOMAIN state = RequestFields, Go(r, state)
  PROVE  Stepped(r) /\ req'[r] = state
  BY GoShape DEF Stepped

\* The rows and the cache stay, and r holds on to its names.
LEMMA QuietStep ==
  ASSUME IInv, NEW r \in Requests, Stepped(r), Holds(r), UNCHANGED <<rows, cache>>
  PROVE  IInv'
<1>1. Shape' BY DEF IInv, Shape, Stepped
<1>2. ASSUME NEW key \in DOMAIN cache' PROVE Accounted(key)'
  <2>1. Accounted(key) BY AccountedAll DEF IInv
  <2>2. \A p \in Requests : Clears(req[p], key) => Clears(req'[p], key) BY DEF Stepped, Holds
  <2>. QED BY <2>1, <2>2 DEF Accounted, Stale, Stored
<1>. QED BY <1>1, <1>2, AccountedAllNext DEF IInv

\* The rows change, and r goes on to delete the names of the change.
LEMMA ChangeStep ==
  ASSUME IInv, NEW r \in Requests, NEW R, NEW names, NEW op, NEW kind,
         Change(R, names, op, kind), Stepped(r), Holds(r),
         \A key : Named(names, key) => Clears(req'[r], key)
  PROVE  IInv'
<1>1. /\ DOMAIN cache' = DOMAIN cache
      /\ \A key \in DOMAIN cache :
           /\ DOMAIN cache'[key] = EntryFields
           /\ cache'[key].answer = cache[key].answer
           /\ cache'[key].late = cache[key].late /\ cache'[key].lost = cache[key].lost
           /\ cache[key].unnamed # {} => cache'[key].unnamed # {}
           /\ \/ Named(names, key) \/ cache'[key].unnamed # {}
              \/ Answer(rows', key) = Answer(rows, key)
  BY ChangeEffect DEF IInv
<1>2. Shape' BY <1>1 DEF Shape, Stepped
<1>3. ASSUME NEW key \in DOMAIN cache' PROVE Accounted(key)'
  <2>1. Accounted(key) BY <1>1, AccountedAll DEF IInv
  <2>2. \A p \in Requests : Clears(req[p], key) => Clears(req'[p], key) BY DEF Stepped, Holds
  <2>3. CASE Named(names, key) BY <2>3 DEF Accounted
  <2>4. CASE cache'[key].unnamed # {} BY <2>4 DEF Accounted
  <2>5. CASE Answer(rows', key) = Answer(rows, key) /\ cache'[key].unnamed = {}
    BY <1>1, <2>1, <2>2, <2>5 DEF Accounted, Stale, Stored
  <2>. QED BY <1>1, <2>3, <2>4, <2>5
<1>. QED BY <1>2, <1>3, AccountedAllNext DEF IInv

\* r ends: what it was to delete is lost.
LEMMA FailStep ==
  ASSUME IInv, NEW r \in Requests, Fail(r), UNCHANGED rows PROVE IInv'
<1>1. /\ Stepped(r) /\ DOMAIN cache' = DOMAIN cache
      /\ \A key \in DOMAIN cache :
           /\ DOMAIN cache'[key] = EntryFields
           /\ cache'[key].answer = cache[key].answer
           /\ cache'[key].late = cache[key].late
           /\ cache'[key].unnamed = cache[key].unnamed
           /\ cache[key].lost \/ Named(req[r].names, key) => cache'[key].lost
  BY FailEffect DEF IInv, Stepped
<1>2. Shape' BY <1>1 DEF Shape, Stepped
<1>3. ASSUME NEW key \in DOMAIN cache' PROVE Accounted(key)'
  <2>1. Accounted(key) BY <1>1, AccountedAll DEF IInv
  <2>2. \A p \in Requests \ {r} : Clears(req[p], key) => Clears(req'[p], key) BY <1>1 DEF Stepped
  <2>3. Clears(req[r], key) => cache'[key].lost BY <1>1 DEF Clears
  <2>. QED BY <1>1, <2>1, <2>2, <2>3 DEF Accounted, Stale, Stored
<1>. QED BY <1>2, <1>3, AccountedAllNext DEF IInv

\* Keys leave the cache, and r holds on to the names of those that stay.
LEMMA DropStep ==
  ASSUME IInv, NEW r \in Requests, NEW S, Stepped(r), cache' = Without(S), UNCHANGED rows,
         \A key \in DOMAIN cache \ S : Clears(req[r], key) => Clears(req'[r], key)
  PROVE  IInv'
<1>1. DOMAIN cache' = DOMAIN cache \ S /\ \A key \in DOMAIN cache \ S : cache'[key] = cache[key]
  BY DEF Without
<1>2. Shape' BY <1>1 DEF IInv, Shape, Stepped
<1>3. ASSUME NEW key \in DOMAIN cache' PROVE Accounted(key)'
  <2>1. Accounted(key) BY <1>1, AccountedAll DEF IInv
  <2>2. \A p \in Requests : Clears(req[p], key) => Clears(req'[p], key) BY <1>1 DEF Stepped
  <2>. QED BY <1>1, <2>1, <2>2 DEF Accounted, Stale, Stored
<1>. QED BY <1>2, <1>3, AccountedAllNext DEF IInv

-----------------------------------------------------------------------------
LEMMA LookupInv ==
  ASSUME IInv, NEW r \in Requests, NEW key, Lookup(r, key) PROVE IInv'
<1>1. req[r].pc = "idle" /\ UNCHANGED <<rows, cache>> BY DEF Lookup, MayStart
<1>2. Holds(r) BY <1>1 DEF Holds, Clears
<1>3. Stepped(r)
  <2>. DEFINE state == [Idle EXCEPT !.pc = "query", !.key = key]
  <2>1. Go(r, Idle) \/ Go(r, state) BY DEF Lookup
  <2>2. DOMAIN state = RequestFields BY DEF Idle, RequestFields
  <2>. HIDE DEF state
  <2>. QED BY <2>1, <2>2, IdleShape, GoSteps DEF IInv
<1>. QED BY <1>1, <1>2, <1>3, QuietStep

LEMMA QueryInv ==
  ASSUME IInv, NEW r \in Requests, Query(r) PROVE IInv'
<1>1. req[r].pc = "query" /\ UNCHANGED <<rows, cache>> BY DEF Query
<1>2. Holds(r) BY <1>1 DEF Holds, Clears
<1>3. Stepped(r)
  <2>. DEFINE state == [req[r] EXCEPT !.pc = "store", !.answer = Answer(rows, req[r].key)]
  <2>1. Go(r, Idle) \/ Go(r, state) BY DEF Query
  <2>2. DOMAIN state = RequestFields BY DEF IInv, Shape
  <2>. HIDE DEF state
  <2>. QED BY <2>1, <2>2, IdleShape, GoSteps DEF IInv
<1>. QED BY <1>1, <1>2, <1>3, QuietStep

\* An answer that is stored is fresh, or late.
LEMMA StoreInv ==
  ASSUME IInv, NEW r \in Requests, Store(r) PROVE IInv'
<1>. DEFINE k == req[r].key
            e == NewEntry(k, req[r].answer)
<1>1. req[r].pc = "store" /\ cache' = Put(k, e) /\ Go(r, Idle) /\ UNCHANGED rows BY DEF Store
<1>2. Stepped(r) BY <1>1, IdleShape, GoSteps DEF IInv
<1>3. Holds(r) BY <1>1 DEF Holds, Clears
<1>4. /\ DOMAIN e = EntryFields /\ e.answer = req[r].answer
      /\ e.late = (req[r].answer # Answer(rows, k))
  BY DEF NewEntry, EntryFields
<1>. HIDE DEF e
<1>5. /\ DOMAIN cache' = DOMAIN cache \cup {k} /\ cache'[k] = e
      /\ \A key \in DOMAIN cache \ {k} : cache'[key] = cache[key]
  BY <1>1 DEF Put
<1>6. Shape' BY <1>2, <1>4, <1>5 DEF IInv, Shape, Stepped
<1>7. ASSUME NEW key \in DOMAIN cache' PROVE Accounted(key)'
  <2>1. CASE key = k BY <1>1, <1>4, <1>5, <2>1 DEF Accounted, Stale
  <2>2. CASE key # k
    <3>1. Accounted(key) BY <1>5, <2>2, AccountedAll DEF IInv
    <3>2. \A p \in Requests : Clears(req[p], key) => Clears(req'[p], key) BY <1>2, <1>3 DEF Stepped, Holds
    <3>. QED BY <1>1, <1>5, <2>2, <3>1, <3>2 DEF Accounted, Stale, Stored
  <2>. QED BY <2>1, <2>2
<1>. QED BY <1>6, <1>7, AccountedAllNext DEF IInv

\* A write goes on to its names, by way of the slug of what it created.
LEMMA WriteInv ==
  ASSUME IInv, NEW r \in Requests, WriteRow(r) PROVE IInv'
<1>1. req[r].pc = "idle" BY DEF WriteRow, MayStart
<1>2. Holds(r) BY <1>1 DEF Holds, Clears
<1>3. PICK w \in Writes(rows) :
        LET names == Names(rows, w)
        IN /\ Change(After(rows, w), names, w.op, Kind[w.row])
           /\ \/ Go(r, [Idle EXCEPT !.pc = "slug", !.row = w.row, !.names = names])
              \/ Clearing(r, names)
  BY DEF WriteRow
<1>. DEFINE names == Names(rows, w)
            R == After(rows, w)
            state == [Idle EXCEPT !.pc = "slug", !.row = w.row, !.names = names]
<1>4. Change(R, names, w.op, Kind[w.row]) /\ (Go(r, state) \/ Clearing(r, names)) BY <1>3
<1>5. DOMAIN state = RequestFields /\ state.pc = "slug" /\ state.names = names
  BY DEF Idle, RequestFields
<1>. HIDE DEF names, R, state
<1>6. CASE Go(r, state)
  <2>1. Stepped(r) /\ \A key : Named(names, key) => Clears(req'[r], key)
    BY <1>5, <1>6, GoSteps DEF IInv, Clears
  <2>. QED BY <1>2, <1>4, <2>1, ChangeStep
<1>7. CASE Clearing(r, names)
  <2>1. Stepped(r) /\ \A key : Named(names, key) => Clears(req'[r], key)
    BY <1>7, ClearingEffect DEF IInv, Stepped
  <2>. QED BY <1>2, <1>4, <2>1, ChangeStep
<1>. QED BY <1>4, <1>6, <1>7

LEMMA SlugInv ==
  ASSUME IInv, NEW r \in Requests, WriteSlug(r) PROVE IInv'
<1>. DEFINE q == req[r]
<1>1. CASE Fail(r) /\ UNCHANGED rows BY <1>1, FailStep
<1>. DEFINE op == IF q.names = {} THEN "guest" ELSE "create"
<1>2. CASE /\ Change(WithSlug(rows, q.row), q.names, op, Kind[q.row])
           /\ Clearing(r, q.names)
  <2>1. Stepped(r) /\ \A key : Named(q.names, key) => Clears(req'[r], key)
    BY <1>2, ClearingEffect DEF IInv, Stepped
  <2>2. Holds(r) BY <2>1 DEF Holds, Clears
  <2>. QED BY <1>2, <2>1, <2>2, ChangeStep
<1>. QED BY <1>1, <1>2 DEF WriteSlug

LEMMA BulkLookInv ==
  ASSUME IInv, NEW r \in Requests, NEW S, BulkLook(r, S) PROVE IInv'
<1>. DEFINE state == [Idle EXCEPT !.pc = "bulk", !.left = S, !.names = BulkNames]
<1>1. req[r].pc = "idle" /\ UNCHANGED <<rows, cache>> /\ Go(r, state) BY DEF BulkLook, MayStart
<1>2. DOMAIN state = RequestFields BY DEF Idle, RequestFields
<1>. HIDE DEF state
<1>3. Stepped(r) BY <1>1, <1>2, GoSteps DEF IInv
<1>4. Holds(r) BY <1>1 DEF Holds, Clears
<1>. QED BY <1>1, <1>3, <1>4, QuietStep

\* One update of a bulk: the request stays at its updates, or goes on to its names.
LEMMA BulkWriteInv ==
  ASSUME IInv, NEW r \in Requests, NEW s, BulkWrite(r, s) PROVE IInv'
<1>. DEFINE q == req[r]
            left == q.left \ {s}
            gone == s \notin Listed(rows)
            state == [q EXCEPT !.left = left, !.failed = @ \/ gone]
<1>1. q.pc = "bulk" /\ (Clearing(r, q.names) \/ Go(r, state)) BY DEF BulkWrite
<1>2. DOMAIN state = RequestFields /\ state.pc = q.pc /\ state.names = q.names
  BY DEF IInv, Shape, RequestFields
<1>. HIDE DEF state
<1>3. Stepped(r) /\ \A key : Named(q.names, key) => Clears(req'[r], key)
  <2>1. CASE Clearing(r, q.names) BY <2>1, ClearingEffect DEF IInv, Stepped
  <2>2. CASE Go(r, state) BY <1>1, <1>2, <2>2, GoSteps DEF IInv, Clears
  <2>. QED BY <1>1, <2>1, <2>2
<1>4. Holds(r) BY <1>3 DEF Holds, Clears
<1>5. CASE UNCHANGED <<rows, cache>> BY <1>3, <1>4, <1>5, QuietStep
<1>6. CASE Change(Shown(rows, s), q.names, "bulk", "section")
  BY <1>3, <1>4, <1>6, ChangeStep
<1>. QED BY <1>5, <1>6 DEF BulkWrite

\* A name is done with when the keys that match it are gone.
LEMMA ClearInv ==
  ASSUME IInv, NEW r \in Requests, NEW name \in req[r].names, Clear(r, name) PROVE IInv'
<1>. DEFINE names == req[r].names \ {name}
            S == {key \in DOMAIN cache : Matches(name, key)}
<1>1. cache' = Without(S) /\ Clearing(r, names) /\ UNCHANGED rows BY DEF Clear
<1>2. Stepped(r) /\ \A key : Named(names, key) => Clears(req'[r], key)
  BY <1>1, ClearingEffect DEF IInv, Stepped
<1>3. \A key \in DOMAIN cache \ S : Clears(req[r], key) => Clears(req'[r], key)
  BY <1>2 DEF Clears, Named
<1>. QED BY <1>1, <1>2, <1>3, DropStep

LEMMA ExpireInv ==
  ASSUME IInv, NEW key, Expire(key) PROVE IInv'
<1>1. cache' = Without({key}) /\ UNCHANGED <<rows, req>> BY DEF Expire
<1>2. DOMAIN cache' \subseteq DOMAIN cache /\ \A k \in DOMAIN cache' : cache'[k] = cache[k]
  BY <1>1 DEF Without
<1>3. Shape' BY <1>1, <1>2 DEF IInv, Shape
<1>4. ASSUME NEW k \in DOMAIN cache' PROVE Accounted(k)'
  <2>1. Accounted(k) BY <1>2, AccountedAll DEF IInv
  <2>. QED BY <1>1, <1>2, <2>1 DEF Accounted, Stale, Stored
<1>. QED BY <1>3, <1>4, AccountedAllNext DEF IInv

LEMMA InitInv == Init => IInv
<1>. SUFFICES ASSUME Init PROVE IInv OBVIOUS
<1>1. Shape BY IdleShape DEF Init, Shape
<1>2. AnswersAreFresh BY DEF Init, AnswersAreFresh
<1>. QED BY <1>1, <1>2 DEF IInv

LEMMA NextInv == IInv /\ [Next]_vars => IInv'
<1>1. ASSUME IInv, UNCHANGED vars PROVE IInv'
  BY <1>1 DEF IInv, Shape, AnswersAreFresh, Stale, Stored, Pending, vars
<1>2. ASSUME IInv, NEW r \in Requests, Step(r) PROVE IInv'
  BY <1>2, QueryInv, StoreInv, SlugInv, BulkWriteInv, FailStep, ClearInv
  DEF Step, BulkFails, Interrupt
<1>. QED BY <1>1, <1>2, LookupInv, WriteInv, BulkLookInv, ExpireInv DEF Next

\* An answer in the cache is what the handler would answer now, unless the write that made
\* it old is still to delete it, failed before it did, or does not name its key, or the
\* answer was old when it was stored (cache.interceptor.ts).  The only ways to a stale
\* answer are these four, whatever the services write and the answers show.
THEOREM FreshTheorem == Spec => []AnswersAreFresh
<1>1. IInv => AnswersAreFresh BY DEF IInv
<1>. QED BY <1>1, InitInv, NextInv, PTL DEF Spec

-----------------------------------------------------------------------------
(***************************************************************************)
(* The rows: what the services leave is whole again.                       *)
(***************************************************************************)

LEMMA RowFields ==
  ASSUME NEW w \in Row
  PROVE  /\ w.status \in {"UNISSUED", "LISTED", "DELETED"} /\ w.slug \in BOOLEAN
         /\ w.ver \in Nat /\ w.refs \subseteq Ids
  BY DEF Row

LEMMA KindFacts ==
  /\ Parents["menu"] = {} /\ Parents["section"] = {"menu"}
  /\ Parents["sectionItem"] = {"section", "item"} /\ Parents["item"] = {"station"}
  /\ Parents["packetSection"] = {"item", "station"} /\ Parents["choice"] = {"packetSection", "item"}
  /\ Parents["station"] = {} /\ Parents["table"] = {} /\ Parents["order"] = {"table", "user"}
  /\ Parents["user"] = {"station"} /\ Parents["adjustment"] = {} /\ Parents["additional"] = {}
  /\ Parents["hours"] = {}
<1>1. \A k \in Kinds : Parents[k] = CASE k = "section" -> {"menu"}
                                      [] k = "sectionItem" -> {"section", "item"}
                                      [] k = "packetSection" -> {"item", "station"}
                                      [] k = "choice" -> {"packetSection", "item"}
                                      [] k \in {"item", "user"} -> {"station"}
                                      [] k = "order" -> {"table", "user"}
                                      [] OTHER -> {}
  BY DEF Parents
<1>. QED BY <1>1 DEF Kinds

LEMMA NeededFacts ==
  \A k \in Kinds :
    /\ Needed(k) \subseteq Parents[k]
    /\ Needed(k) # {} => k \notin SetNull
    /\ k = "sectionItem" => Needed(k) = {"section", "item"}
    /\ k = "table" => Needed(k) = {}
  BY KindFacts DEF Needed, SetNull, Kinds

\* The rows R are of their type, and whole.
Rows(R) == R \in [Ids -> Row] /\ Whole(R)

LEMMA KindType == \A i \in Ids : Kind[i] \in Kinds
  BY CatalogueAssumption

\* What Whole says of the references of a row.
LEMMA Refers ==
  ASSUME NEW R, Rows(R), NEW i \in Ids, NEW j \in R[i].refs
  PROVE  /\ j \in Ids /\ R[i].status = "LISTED" /\ R[j].status = "LISTED"
         /\ Kind[j] \in Parents[Kind[i]]
         /\ \A k \in R[i].refs : Kind[j] = Kind[k] /\ Kind[j] # "user" => j = k
<1>1. j \in Ids BY RowFields DEF Rows
<1>. QED BY <1>1 DEF Rows, Whole, Fits

\* The rows after a change of some of them are whole when the changed rows are, and refer
\* to rows that stay listed, and the others refer to rows that stay listed.
LEMMA WholeAgain ==
  ASSUME NEW Q \in [Ids -> Row],
         \A i \in Ids :
           /\ \A j \in Q[i].refs : /\ Q[i].status = "LISTED" /\ Q[j].status = "LISTED"
                                   /\ Kind[j] \in Parents[Kind[i]]
           /\ Fits(Kind[i], Q[i].refs)
           /\ Q[i].status = "LISTED" => Needed(Kind[i]) \subseteq {Kind[j] : j \in Q[i].refs}
  PROVE  Rows(Q)
  BY DEF Rows, Whole

\* A row is written: inserted, or listed before and given references it may have.
LEMMA WrittenWhole ==
  ASSUME NEW R, Rows(R), NEW i \in Ids, NEW row \in Row, row.status = "LISTED",
         row.refs \in Refs(R, Kind[i]), NEW Q, Q = [R EXCEPT ![i] = row]
  PROVE  Rows(Q)
<1>. DEFINE S == row.refs
<1>1. /\ S \subseteq Listed(R) /\ \A j \in S : Kind[j] \in Parents[Kind[i]]
      /\ Needed(Kind[i]) \subseteq {Kind[j] : j \in S}
      /\ Fits(Kind[i], S)
  BY DEF Refs
<1>2. Q \in [Ids -> Row] /\ Q[i] = row /\ \A k \in Ids \ {i} : Q[k] = R[k] BY DEF Rows
<1>3. \A j \in Ids : R[j].status = "LISTED" => Q[j].status = "LISTED" BY <1>2
<1>4. ASSUME NEW k \in Ids
      PROVE  /\ \A j \in Q[k].refs : /\ Q[k].status = "LISTED" /\ Q[j].status = "LISTED"
                                     /\ Kind[j] \in Parents[Kind[k]]
             /\ Fits(Kind[k], Q[k].refs)
             /\ Q[k].status = "LISTED" => Needed(Kind[k]) \subseteq {Kind[j] : j \in Q[k].refs}
  <2>1. CASE k = i
    <3>1. \A j \in S : Q[j].status = "LISTED" BY <1>1, <1>3 DEF Listed
    <3>. QED BY <1>1, <1>2, <2>1, <3>1
  <2>2. CASE k # i
    <3>1. Q[k] = R[k] BY <1>2, <2>2
    <3>2. \A j \in R[k].refs : /\ Q[k].status = "LISTED" /\ Q[j].status = "LISTED"
                               /\ Kind[j] \in Parents[Kind[k]]
      BY <1>3, <3>1, Refers
    <3>3. /\ Fits(Kind[k], R[k].refs)
          /\ R[k].status = "LISTED" => Needed(Kind[k]) \subseteq {Kind[j] : j \in R[k].refs}
      BY DEF Rows, Whole
    <3>. QED BY <3>1, <3>2, <3>3
  <2>. QED BY <2>1, <2>2
<1>. QED BY <1>2, <1>4, WholeAgain

LEMMA InsertedRows ==
  ASSUME NEW R, Rows(R), NEW i \in Ids, NEW refs \in Refs(R, Kind[i])
  PROVE  /\ Rows(Inserted(R, i, refs))
         /\ Inserted(R, i, refs)[i].refs = refs
         /\ \A k \in Ids \ {i} : Inserted(R, i, refs)[k] = R[k]
<1>. DEFINE row == [status |-> "LISTED", slug |-> FALSE, ver |-> R[i].ver + 1, refs |-> refs]
<1>1. refs \subseteq Ids BY DEF Refs, Listed
<1>2. R[i].ver \in Nat BY RowFields DEF Rows
<1>3. row \in Row /\ row.status = "LISTED" /\ row.refs = refs BY <1>1, <1>2 DEF Row
<1>4. Inserted(R, i, refs) = [R EXCEPT ![i] = row] BY DEF Inserted, Rows
<1>. HIDE DEF row
<1>5. Rows(Inserted(R, i, refs)) BY <1>3, <1>4, WrittenWhole
<1>6. R \in [Ids -> Row] BY DEF Rows
<1>. QED BY <1>3, <1>4, <1>5, <1>6

\* The row an update, and the one the update after an insert, leave.
LEMMA UpdatedIs ==
  ASSUME NEW R \in [Ids -> Row], NEW i \in Ids, NEW refs \in SUBSET Ids
  PROVE  \E row \in Row : /\ row.status = R[i].status /\ row.refs = refs
                          /\ Updated(R, i, refs) = [R EXCEPT ![i] = row]
<1>. DEFINE w == R[i]
            n == R[i].ver + 1
            row == [w EXCEPT !.refs = refs, !.ver = n]
<1>1. Updated(R, i, refs) = [R EXCEPT ![i] = row] BY DEF Updated, Row
<1>2. w \in Row /\ n \in Nat BY RowFields
<1>. HIDE DEF w, n
<1>3. row \in Row /\ row.status = w.status /\ row.refs = refs BY <1>2 DEF Row
<1>. HIDE DEF row
<1>4. R[i] = w BY DEF w
<1>. QED BY <1>1, <1>3, <1>4
LEMMA SlugIs ==
  ASSUME NEW R \in [Ids -> Row], NEW i \in Ids
  PROVE  \E row \in Row : /\ row.status = R[i].status /\ row.refs = R[i].refs
                          /\ WithSlug(R, i) = [R EXCEPT ![i] = row]
<1>. DEFINE row == [R[i] EXCEPT !.slug = TRUE, !.ver = R[i].ver + 1]
<1>1. WithSlug(R, i) = [R EXCEPT ![i] = row] BY DEF WithSlug, Row
<1>2. R[i] \in Row /\ R[i].ver + 1 \in Nat BY RowFields
<1>3. row \in Row /\ row.status = R[i].status /\ row.refs = R[i].refs BY <1>2 DEF Row
<1>. HIDE DEF row
<1>. QED BY <1>1, <1>3

LEMMA UpdatedRows ==
  ASSUME NEW R, Rows(R), NEW i \in Ids, R[i].status = "LISTED", NEW refs \in Refs(R, Kind[i])
  PROVE  /\ Rows(Updated(R, i, refs))
         /\ Updated(R, i, refs)[i].refs = refs
         /\ \A k \in Ids \ {i} : Updated(R, i, refs)[k] = R[k]
<1>1. refs \in SUBSET Ids BY DEF Refs, Listed
<1>2. R \in [Ids -> Row] BY DEF Rows
<1>3. PICK row \in Row : /\ row.status = R[i].status /\ row.refs = refs
                         /\ Updated(R, i, refs) = [R EXCEPT ![i] = row]
  BY <1>1, <1>2, UpdatedIs
<1>4. Rows(Updated(R, i, refs)) BY <1>3, WrittenWhole
<1>. QED BY <1>2, <1>3, <1>4

\* A row may go on referring to what it refers to.
LEMMA OwnRefs ==
  ASSUME NEW R, Rows(R), NEW i \in Ids, R[i].status = "LISTED"
  PROVE  R[i].refs \in Refs(R, Kind[i])
<1>1. \A j \in R[i].refs : j \in Listed(R) /\ Kind[j] \in Parents[Kind[i]]
  BY Refers DEF Listed
<1>2. /\ Fits(Kind[i], R[i].refs)
      /\ Needed(Kind[i]) \subseteq {Kind[j] : j \in R[i].refs}
  BY DEF Rows, Whole
<1>. QED BY <1>1, <1>2 DEF Refs

LEMMA SlugRows ==
  ASSUME NEW R, Rows(R), NEW i \in Ids, R[i].status = "LISTED"
  PROVE  /\ Rows(WithSlug(R, i))
         /\ WithSlug(R, i)[i].refs = R[i].refs
         /\ \A k \in Ids \ {i} : WithSlug(R, i)[k] = R[k]
<1>1. R \in [Ids -> Row] BY DEF Rows
<1>2. PICK row \in Row : /\ row.status = R[i].status /\ row.refs = R[i].refs
                         /\ WithSlug(R, i) = [R EXCEPT ![i] = row]
  BY <1>1, SlugIs
<1>3. row.refs \in Refs(R, Kind[i]) BY <1>2, OwnRefs
<1>. QED BY <1>1, <1>2, <1>3, WrittenWhole

\* No chain of cascades is longer than Gone follows it.
LEMMA ChainKinds ==
  ASSUME NEW a \in Kinds, NEW b \in Kinds, NEW c \in Kinds, NEW d \in Kinds,
         a \notin SetNull, b \notin SetNull, c \notin SetNull,
         b \in Parents[a], c \in Parents[b], d \in Parents[c]
  PROVE  FALSE
<1>1. b \in {"section", "packetSection"}
  <2>1. b \in {"menu", "section", "item", "packetSection", "station"} BY KindFacts DEF Kinds, SetNull
  <2>. QED BY <2>1, KindFacts DEF SetNull
<1>2. c \in {"menu", "item", "station"} BY <1>1, KindFacts
<1>. QED BY <1>2, KindFacts DEF SetNull

LEMMA GoneFacts ==
  ASSUME NEW R, Rows(R), NEW i \in Ids
  PROVE  /\ i \in Gone(R, i) /\ Gone(R, i) \subseteq Ids
         /\ \A k \in Gone(R, i) \ {i} : R[k].status = "LISTED"
         /\ \A k \in Listed(R) :
              Kind[k] \notin SetNull /\ R[k].refs \cap Gone(R, i) # {} => k \in Gone(R, i)
<1>. DEFINE C == Cascaded(R, {i})
<1>1. C = {i} \cup {k \in Listed(R) : Kind[k] \notin SetNull /\ R[k].refs \cap {i} # {}}
  BY DEF Cascaded
<1>2. Gone(R, i) = C \cup {k \in Listed(R) : Kind[k] \notin SetNull /\ R[k].refs \cap C # {}}
  BY DEF Gone, Cascaded
<1>. HIDE DEF C
<1>3. /\ i \in Gone(R, i) /\ Gone(R, i) \subseteq Ids
      /\ \A k \in Gone(R, i) \ {i} : R[k].status = "LISTED"
  BY <1>1, <1>2 DEF Listed
<1>4. ASSUME NEW k \in Listed(R), Kind[k] \notin SetNull, NEW j \in R[k].refs, j \in Gone(R, i)
      PROVE  k \in Gone(R, i)
  <2>1. CASE j \in C BY <1>2, <1>4, <2>1
  <2>2. CASE j \notin C
    <3>1. PICK m \in C : m \in R[j].refs BY <1>2, <1>4, <2>2
    <3>2. j \in Listed(R) /\ Kind[j] \notin SetNull BY <1>2, <1>4, <2>2
    <3>3. m # i BY <1>1, <2>2, <3>1, <3>2
    <3>4. m \in Listed(R) /\ Kind[m] \notin SetNull /\ i \in R[m].refs BY <1>1, <3>1, <3>3
    <3>5. k \in Ids /\ j \in Ids /\ m \in Ids BY <3>2, <3>4 DEF Listed
    <3>6. Kind[j] \in Parents[Kind[k]] /\ Kind[m] \in Parents[Kind[j]] /\ Kind[i] \in Parents[Kind[m]]
      BY <1>4, <3>1, <3>4, <3>5, Refers
    <3>. QED BY <1>4, <3>2, <3>4, <3>5, <3>6, ChainKinds, KindType
  <2>. QED BY <2>1, <2>2
<1>. QED BY <1>3, <1>4

\* What a delete does to each row.
LEMMA DeletedIs ==
  ASSUME NEW R \in [Ids -> Row], NEW i \in Ids, NEW k \in Ids
  PROVE  /\ DOMAIN Deleted(R, i) = Ids
         /\ Deleted(R, i)[k] \in Row
         /\ k \in Gone(R, i) => Deleted(R, i)[k].status = "DELETED" /\ Deleted(R, i)[k].refs = {}
         /\ k \notin Gone(R, i) => /\ Deleted(R, i)[k].status = R[k].status
                                   /\ Deleted(R, i)[k].refs = R[k].refs \ Gone(R, i)
                                   /\ R[k].refs \cap Gone(R, i) = {} => Deleted(R, i)[k] = R[k]
<1>. DEFINE gone == Gone(R, i)
            w == R[k]
            a == [w EXCEPT !.status = "DELETED", !.slug = FALSE, !.refs = {}]
            n == w.ver + 1
            left == w.refs \ gone
            b == [w EXCEPT !.refs = left, !.ver = n]
<1>1. DOMAIN Deleted(R, i) = Ids BY DEF Deleted
<1>2. Deleted(R, i)[k] = IF k \in gone THEN a ELSE IF w.refs \cap gone # {} THEN b ELSE w
  BY DEF Deleted
<1>3. w \in Row /\ n \in Nat /\ left \in SUBSET Ids BY RowFields
<1>4. left = w.refs \ gone OBVIOUS
<1>. HIDE DEF gone, w, n, left
<1>5. a \in Row /\ a.status = "DELETED" /\ a.refs = {} BY <1>3 DEF Row
<1>6. b \in Row /\ b.status = w.status /\ b.refs = left BY <1>3 DEF Row
<1>. HIDE DEF a, b
<1>7. CASE k \in gone BY <1>1, <1>2, <1>5, <1>7 DEF gone
<1>8. CASE k \notin gone /\ w.refs \cap gone # {} BY <1>1, <1>2, <1>4, <1>6, <1>8 DEF gone, w
<1>9. CASE k \notin gone /\ w.refs \cap gone = {}
  <2>1. w.refs \ gone = w.refs BY <1>9
  <2>. QED BY <1>1, <1>2, <1>3, <1>9, <2>1 DEF gone, w
<1>. QED BY <1>7, <1>8, <1>9

LEMMA DeletedRows ==
  ASSUME NEW R, Rows(R), NEW i \in Ids, R[i].status = "LISTED"
  PROVE  Rows(Deleted(R, i))
<1>. DEFINE Q == Deleted(R, i)
            gone == Gone(R, i)
<1>1. R \in [Ids -> Row] BY DEF Rows
<1>2. Q = [k \in Ids |-> Q[k]] BY DEF Deleted
<1>3. \A k \in Ids : Q[k] \in Row BY <1>1, DeletedIs
<1>4. Q \in [Ids -> Row] BY <1>2, <1>3
<1>5. \A k \in Ids : /\ k \in gone => Q[k].status = "DELETED" /\ Q[k].refs = {}
                     /\ k \notin gone => /\ Q[k].status = R[k].status
                                         /\ Q[k].refs = R[k].refs \ gone
                                         /\ R[k].refs \cap gone = {} => Q[k] = R[k]
  BY <1>1, DeletedIs
<1>6. \A k \in Listed(R) : Kind[k] \notin SetNull /\ R[k].refs \cap gone # {} => k \in gone
  BY GoneFacts
<1>. HIDE DEF Q, gone
<1>7. ASSUME NEW k \in Ids
      PROVE  /\ \A j \in Q[k].refs : /\ Q[k].status = "LISTED" /\ Q[j].status = "LISTED"
                                     /\ Kind[j] \in Parents[Kind[k]]
             /\ Fits(Kind[k], Q[k].refs)
             /\ Q[k].status = "LISTED" => Needed(Kind[k]) \subseteq {Kind[j] : j \in Q[k].refs}
  <2>1. CASE k \in gone
    <3>1. Q[k].refs = {} /\ Q[k].status # "LISTED" BY <1>5, <2>1
    <3>. QED BY <3>1 DEF Fits
  <2>2. CASE k \notin gone
    <3>1. Q[k].status = R[k].status /\ Q[k].refs = R[k].refs \ gone BY <1>5, <2>2
    <3>2. ASSUME NEW j \in Q[k].refs
          PROVE  Q[k].status = "LISTED" /\ Q[j].status = "LISTED" /\ Kind[j] \in Parents[Kind[k]]
      <4>1. j \in R[k].refs /\ j \notin gone BY <3>1, <3>2
      <4>2. j \in Ids /\ R[k].status = "LISTED" /\ R[j].status = "LISTED" /\ Kind[j] \in Parents[Kind[k]]
        BY <4>1, Refers
      <4>. QED BY <1>5, <3>1, <4>1, <4>2
    <3>3. Fits(Kind[k], Q[k].refs)
      <4>1. Fits(Kind[k], R[k].refs) BY DEF Rows, Whole
      <4>. QED BY <3>1, <4>1 DEF Fits
    <3>4. ASSUME Q[k].status = "LISTED"
          PROVE  Needed(Kind[k]) \subseteq {Kind[j] : j \in Q[k].refs}
      <4>1. k \in Listed(R) BY <3>1, <3>4 DEF Listed
      <4>2. CASE Kind[k] \in SetNull BY <4>2, KindType, NeededFacts
      <4>3. CASE Kind[k] \notin SetNull
        <5>1. R[k].refs \cap gone = {} BY <1>6, <2>2, <4>1, <4>3
        <5>2. Q[k] = R[k] BY <1>5, <2>2, <5>1
        <5>. QED BY <3>4, <5>2 DEF Rows, Whole
      <4>. QED BY <4>2, <4>3
    <3>. QED BY <3>2, <3>3, <3>4
  <2>. QED BY <2>1, <2>2
<1>. QED BY <1>4, <1>7, WholeAgain DEF Q

\* What a new number does to each row.
LEMMA RenumberedIs ==
  ASSUME NEW R \in [Ids -> Row], NEW i \in Ids, NEW j \in Ids, i # j, NEW k \in Ids
  PROVE  LET Q == Renumbered(R, i, j)
         IN /\ DOMAIN Q = Ids /\ Q[k] \in Row
            /\ k = i => Q[k].status = "DELETED" /\ Q[k].refs = {}
            /\ k = j => Q[k].status = R[i].status /\ Q[k].refs = R[i].refs
            /\ k \notin {i, j} => /\ Q[k].status = R[k].status
                                  /\ i \in R[k].refs => Q[k].refs = (R[k].refs \ {i}) \cup {j}
                                  /\ i \notin R[k].refs => Q[k] = R[k]
<1>. DEFINE w == R[k]
            v == R[i]
            m == R[j].ver + 1
            n == w.ver + 1
            moved == (w.refs \ {i}) \cup {j}
            a == [v EXCEPT !.status = "DELETED", !.slug = FALSE, !.refs = {}]
            b == [v EXCEPT !.slug = TRUE, !.ver = m]
            c == [w EXCEPT !.refs = moved, !.ver = n]
<1>1. DOMAIN Renumbered(R, i, j) = Ids BY DEF Renumbered
<1>2. Renumbered(R, i, j)[k] = IF k = i THEN a ELSE IF k = j THEN b
                               ELSE IF i \in w.refs THEN c ELSE w
  BY DEF Renumbered
<1>3. w \in Row /\ v \in Row /\ m \in Nat /\ n \in Nat /\ moved \in SUBSET Ids BY RowFields
<1>4. moved = (w.refs \ {i}) \cup {j} OBVIOUS
<1>. HIDE DEF w, v, m, n, moved
<1>5. a \in Row /\ a.status = "DELETED" /\ a.refs = {} BY <1>3 DEF Row
<1>6. b \in Row /\ b.status = v.status /\ b.refs = v.refs BY <1>3 DEF Row
<1>7. c \in Row /\ c.status = w.status /\ c.refs = moved BY <1>3 DEF Row
<1>. HIDE DEF a, b, c
<1>8. w = R[k] /\ v = R[i] BY DEF w, v
<1>. QED BY <1>1, <1>2, <1>3, <1>4, <1>5, <1>6, <1>7, <1>8

LEMMA RenumberedRows ==
  ASSUME NEW R, Rows(R), NEW i \in Ids, NEW j \in Ids, R[i].status = "LISTED",
         R[j].status # "LISTED", Kind[i] = "table", Kind[j] = "table"
  PROVE  Rows(Renumbered(R, i, j))
<1>. DEFINE Q == Renumbered(R, i, j)
<1>1. R \in [Ids -> Row] /\ i # j BY DEF Rows
<1>2. Q = [k \in Ids |-> Q[k]] BY DEF Renumbered
<1>3. \A k \in Ids : Q[k] \in Row BY <1>1, RenumberedIs
<1>4. Q \in [Ids -> Row] BY <1>2, <1>3
<1>5. \A k \in Ids :
        /\ k = i => Q[k].status = "DELETED" /\ Q[k].refs = {}
        /\ k = j => Q[k].status = R[i].status /\ Q[k].refs = R[i].refs
        /\ k \notin {i, j} => /\ Q[k].status = R[k].status
                              /\ i \in R[k].refs => Q[k].refs = (R[k].refs \ {i}) \cup {j}
                              /\ i \notin R[k].refs => Q[k] = R[k]
  BY <1>1, RenumberedIs
<1>. HIDE DEF Q
<1>6. R[i].refs = {} BY Refers, KindFacts
<1>7. ASSUME NEW k \in Ids
      PROVE  /\ \A l \in Q[k].refs : /\ Q[k].status = "LISTED" /\ Q[l].status = "LISTED"
                                     /\ Kind[l] \in Parents[Kind[k]]
             /\ Fits(Kind[k], Q[k].refs)
             /\ Q[k].status = "LISTED" => Needed(Kind[k]) \subseteq {Kind[l] : l \in Q[k].refs}
  <2>1. CASE k = i
    <3>1. Q[k].refs = {} /\ Q[k].status = "DELETED" BY <1>5, <2>1
    <3>. QED BY <3>1 DEF Fits
  <2>2. CASE k = j
    <3>1. Q[k].refs = {} BY <1>5, <1>6, <2>2
    <3>2. Needed(Kind[k]) = {} BY <2>2, NeededFacts DEF Kinds
    <3>. QED BY <3>1, <3>2 DEF Fits
  <2>3. CASE k \notin {i, j} /\ i \notin R[k].refs
    <3>1. Q[k] = R[k] BY <1>5, <2>3
    <3>2. ASSUME NEW l \in R[k].refs
          PROVE  R[k].status = "LISTED" /\ Q[l].status = "LISTED" /\ Kind[l] \in Parents[Kind[k]]
      <4>1. l \in Ids /\ R[k].status = "LISTED" /\ R[l].status = "LISTED" /\ Kind[l] \in Parents[Kind[k]]
        BY Refers
      <4>2. l \notin {i, j} BY <2>3, <4>1
      <4>. QED BY <1>5, <4>1, <4>2
    <3>3. /\ Fits(Kind[k], R[k].refs)
          /\ R[k].status = "LISTED" => Needed(Kind[k]) \subseteq {Kind[l] : l \in R[k].refs}
      BY DEF Rows, Whole
    <3>. QED BY <3>1, <3>2, <3>3
  <2>4. CASE k \notin {i, j} /\ i \in R[k].refs
    <3>1. Q[k].status = R[k].status /\ Q[k].refs = (R[k].refs \ {i}) \cup {j} BY <1>5, <2>4
    <3>2. R[k].status = "LISTED" /\ Kind[i] \in Parents[Kind[k]] BY <2>4, Refers
    <3>3. Q[j].status = "LISTED" BY <1>5
    <3>4. ASSUME NEW l \in R[k].refs, l # i
          PROVE  Q[l].status = "LISTED" /\ Kind[l] \in Parents[Kind[k]] /\ Kind[l] # "table"
      <4>1. l \in Ids /\ R[l].status = "LISTED" /\ Kind[l] \in Parents[Kind[k]] BY Refers
      <4>2. Kind[l] # Kind[i] BY <2>4, <3>4, Refers
      <4>3. l \notin {i, j} BY <3>4, <4>1
      <4>. QED BY <1>5, <4>1, <4>2, <4>3
    <3>5. Fits(Kind[k], R[k].refs) BY DEF Rows, Whole
    <3>6. {Kind[l] : l \in R[k].refs} \subseteq {Kind[l] : l \in Q[k].refs} BY <2>4, <3>1
    <3>7. Needed(Kind[k]) \subseteq {Kind[l] : l \in R[k].refs} BY <3>2 DEF Rows, Whole
    <3>8. Fits(Kind[k], Q[k].refs)
      <4>1. \A l, m \in Q[k].refs :
              Kind[l] = Kind[m] => l = m \/ (Kind[k] = "order" /\ Kind[l] = "user")
        BY <3>1, <3>4, <3>5 DEF Fits
      <4>2. ASSUME NEW l \in Q[k].refs, NEW m \in Q[k].refs, NEW n \in Q[k].refs,
                   Kind[l] = Kind[m], Kind[m] = Kind[n]
            PROVE  l = m \/ m = n \/ l = n
        <5>1. CASE Kind[l] = "table" BY <3>1, <3>4, <4>2, <5>1
        <5>2. CASE Kind[l] # "table"
          <6>1. l \in R[k].refs /\ m \in R[k].refs /\ n \in R[k].refs BY <3>1, <4>2, <5>2
          <6>. QED BY <3>5, <4>2, <6>1 DEF Fits
        <5>. QED BY <5>1, <5>2
      <4>. QED BY <4>1, <4>2 DEF Fits
    <3>. QED BY <3>1, <3>2, <3>3, <3>4, <3>6, <3>7, <3>8
  <2>. QED BY <2>1, <2>2, <2>3, <2>4
<1>. QED BY <1>4, <1>7, WholeAgain DEF Q

-----------------------------------------------------------------------------
(***************************************************************************)
(* What a service can write, of all the services.                          *)
(***************************************************************************)

\* The operations that leave the row of the write where it is, and those that insert it.
Stays == {"update", "password", "stock"}
Makes == {"create", "guest"}

IsWrite(R, w) ==
  /\ w.row \in Ids
  /\ w.op \in {"create", "guest", "update", "renumber", "delete", "password", "stock"}
  /\ IF w.op \in Makes THEN R[w.row].status # "LISTED" ELSE R[w.row].status = "LISTED"
  /\ w.op \in Stays \cup Makes => w.refs \in Refs(R, Kind[w.row])
  /\ w.op = "renumber" =>
       /\ Kind[w.row] = "table"
       /\ \E j \in Ids : w.refs = {j} /\ Kind[j] = "table" /\ R[j].status # "LISTED"
  /\ w.op = "guest" => Kind[w.row] = "user"
  /\ w.op = "password" => Kind[w.row] = "user" /\ w.refs = R[w.row].refs
  /\ w.op = "stock" => Kind[w.row] = "item" /\ w.refs = R[w.row].refs
  /\ Kind[w.row] = "hours" => w.op = "update"
  /\ Kind[w.row] = "sectionItem" /\ w.op \in Stays => w.refs = R[w.row].refs

LEMMA WriteFields ==
  \A op, i, refs : /\ Write(op, i, refs).op = op /\ Write(op, i, refs).row = i
                   /\ Write(op, i, refs).refs = refs
  BY DEF Write

LEMMA TableIs == \A k \in Kinds : \A i : i \in Table[k] <=> i \in Ids /\ Kind[i] = k
  BY DEF Table

LEMMA CreatesAre ==
  ASSUME NEW R, NEW kind \in Kinds, kind # "hours", NEW w \in Creates(R, kind)
  PROVE  IsWrite(R, w)
<1>1. PICK i \in Table[kind], refs \in Refs(R, kind) :
        R[i].status = "UNISSUED" /\ w = Write("create", i, refs)
  BY DEF Creates
<1>2. i \in Ids /\ Kind[i] = kind BY <1>1, TableIs
<1>3. w.op = "create" /\ w.row = i /\ w.refs = refs BY <1>1, WriteFields
<1>. QED BY <1>1, <1>2, <1>3 DEF IsWrite, Stays, Makes

LEMMA UpdatesAre ==
  ASSUME NEW R, Rows(R), NEW kind \in Kinds, NEW fixed,
         kind = "sectionItem" => fixed = {"section", "item"},
         NEW w \in Updates(R, kind, fixed)
  PROVE  IsWrite(R, w)
<1>1. PICK i \in ListedOf(R, kind) : \E refs \in Refs(R, kind) :
        /\ \A j \in R[i].refs : Kind[j] \in fixed => j \in refs
        /\ w = Write("update", i, refs)
  BY DEF Updates
<1>2. PICK refs \in Refs(R, kind) : /\ \A j \in R[i].refs : Kind[j] \in fixed => j \in refs
                                   /\ w = Write("update", i, refs)
  BY <1>1
<1>3. i \in Ids /\ Kind[i] = kind /\ R[i].status = "LISTED" BY <1>1, TableIs DEF ListedOf
<1>4. w.op = "update" /\ w.row = i /\ w.refs = refs BY <1>2, WriteFields
<1>5. ASSUME kind = "sectionItem" PROVE refs = R[i].refs
  <2>1. \A j \in R[i].refs : j \in refs
    <3>1. \A j \in R[i].refs : Kind[j] \in {"section", "item"} BY <1>3, <1>5, Refers, KindFacts
    <3>. QED BY <1>2, <1>5, <3>1
  <2>2. ASSUME NEW j \in refs PROVE j \in R[i].refs
    <3>1. /\ Kind[j] \in {"section", "item"}
          /\ \A k \in refs : Kind[j] = Kind[k] => j = k
      BY <1>2, <1>5, KindFacts DEF Refs, Fits
    <3>2. {"section", "item"} \subseteq {Kind[k] : k \in R[i].refs}
      BY <1>3, <1>5, NeededFacts DEF Rows, Whole
    <3>3. PICK k \in R[i].refs : Kind[j] = Kind[k] BY <3>1, <3>2
    <3>. QED BY <2>1, <3>1, <3>3
  <2>. QED BY <2>1, <2>2
<1>. QED BY <1>2, <1>3, <1>4, <1>5 DEF IsWrite, Stays, Makes

LEMMA DeletesAre ==
  ASSUME NEW R, NEW kind \in Kinds, kind # "hours", NEW w \in Deletes(R, kind)
  PROVE  IsWrite(R, w)
<1>1. PICK i \in ListedOf(R, kind) : w = Write("delete", i, {}) BY DEF Deletes
<1>2. i \in Ids /\ Kind[i] = kind /\ R[i].status = "LISTED" BY <1>1, TableIs DEF ListedOf
<1>3. w.op = "delete" /\ w.row = i BY <1>1, WriteFields
<1>. QED BY <1>2, <1>3 DEF IsWrite, Stays, Makes

\* The writes of the services that are neither of these: the tables, whose numbers can come
\* again, a guest, a password, and stock.
LEMMA OthersAre ==
  ASSUME NEW R, Rows(R), NEW w, NEW i \in Ids,
         \/ /\ Kind[i] = "table" /\ R[i].status # "LISTED"
            /\ w = Write("create", i, {})
         \/ /\ Kind[i] = "table" /\ R[i].status = "LISTED"
            /\ \E j \in Ids : /\ Kind[j] = "table" /\ R[j].status # "LISTED"
                              /\ w = Write("renumber", i, {j})
         \/ Kind[i] = "user" /\ R[i].status # "LISTED" /\ w = Write("guest", i, {})
         \/ Kind[i] = "user" /\ R[i].status = "LISTED" /\ w = Write("password", i, R[i].refs)
         \/ Kind[i] = "item" /\ R[i].status = "LISTED" /\ w = Write("stock", i, R[i].refs)
  PROVE  IsWrite(R, w)
<1>1. CASE Kind[i] = "table" /\ R[i].status # "LISTED" /\ w = Write("create", i, {})
  <2>1. w.op = "create" /\ w.row = i /\ w.refs = {} BY <1>1, WriteFields
  <2>2. {} \in Refs(R, "table") BY NeededFacts DEF Refs, Kinds, Fits
  <2>. QED BY <1>1, <2>1, <2>2 DEF IsWrite, Stays, Makes
<1>2. CASE /\ Kind[i] = "table" /\ R[i].status = "LISTED"
           /\ \E j \in Ids : /\ Kind[j] = "table" /\ R[j].status # "LISTED"
                             /\ w = Write("renumber", i, {j})
  <2>1. PICK j \in Ids : Kind[j] = "table" /\ R[j].status # "LISTED" /\ w = Write("renumber", i, {j})
    BY <1>2
  <2>2. w.op = "renumber" /\ w.row = i /\ w.refs = {j} BY <2>1, WriteFields
  <2>. QED BY <1>2, <2>1, <2>2 DEF IsWrite, Stays, Makes
<1>3. CASE Kind[i] = "user" /\ R[i].status = "LISTED" /\ w = Write("password", i, R[i].refs)
  <2>1. w.op = "password" /\ w.row = i /\ w.refs = R[i].refs BY <1>3, WriteFields
  <2>. QED BY <1>3, <2>1, OwnRefs DEF IsWrite, Stays, Makes
<1>4. CASE Kind[i] = "item" /\ R[i].status = "LISTED" /\ w = Write("stock", i, R[i].refs)
  <2>1. w.op = "stock" /\ w.row = i /\ w.refs = R[i].refs BY <1>4, WriteFields
  <2>. QED BY <1>4, <2>1, OwnRefs DEF IsWrite, Stays, Makes
<1>5. CASE Kind[i] = "user" /\ R[i].status # "LISTED" /\ w = Write("guest", i, {})
  <2>1. w.op = "guest" /\ w.row = i /\ w.refs = {} BY <1>5, WriteFields
  <2>2. {} \in Refs(R, "user") BY DEF Refs, Needed, SetNull, Fits
  <2>. QED BY <1>5, <2>1, <2>2 DEF IsWrite, Stays, Makes
<1>. QED BY <1>1, <1>2, <1>3, <1>4, <1>5

\* The services whose writes are creates, updates and deletes.
LEMMA ServicesAre ==
  ASSUME NEW R, Rows(R), NEW w,
         w \in UNION {MenuService(R), SectionService(R), AddItemToSection(R),
                      RemoveItemFromSection(R), UpdateSectionItemSort(R), ItemService(R),
                      PacketSectionService(R), ChoiceService(R), ProductionStationService(R),
                      PricingAdjustmentService(R), AdditionalPricingAdjustmentService(R),
                      OperatingHoursService(R), OrderService(R)}
  PROVE  IsWrite(R, w)
<1>1. \A kind \in Kinds \ {"hours"} : w \in Creates(R, kind) \cup Deletes(R, kind) => IsWrite(R, w)
  BY CreatesAre, DeletesAre
<1>2. \A kind \in Kinds \ {"sectionItem"} : \A fixed : w \in Updates(R, kind, fixed) => IsWrite(R, w)
  BY UpdatesAre
<1>3. w \in Updates(R, "sectionItem", {"section", "item"}) => IsWrite(R, w) BY UpdatesAre DEF Kinds
<1>4. \/ \E kind \in Kinds \ {"hours"} : w \in Creates(R, kind) \cup Deletes(R, kind)
      \/ \E kind \in Kinds \ {"sectionItem"} : \E fixed : w \in Updates(R, kind, fixed)
      \/ w \in Updates(R, "sectionItem", {"section", "item"})
  <2>1. CASE w \in MenuService(R) \cup SectionService(R) \cup ItemService(R)
    BY <2>1 DEF MenuService, SectionService, ItemService, Kinds
  <2>2. CASE w \in AddItemToSection(R) \cup RemoveItemFromSection(R) \cup UpdateSectionItemSort(R)
    BY <2>2 DEF AddItemToSection, RemoveItemFromSection, UpdateSectionItemSort, Kinds
  <2>3. CASE w \in PacketSectionService(R) \cup ChoiceService(R) \cup ProductionStationService(R)
    BY <2>3 DEF PacketSectionService, ChoiceService, ProductionStationService, Kinds
  <2>4. CASE w \in PricingAdjustmentService(R) \cup AdditionalPricingAdjustmentService(R)
    BY <2>4 DEF PricingAdjustmentService, AdditionalPricingAdjustmentService, Kinds
  <2>5. CASE w \in OperatingHoursService(R) \cup OrderService(R)
    BY <2>5 DEF OperatingHoursService, OrderService, Kinds
  <2>. QED BY <2>1, <2>2, <2>3, <2>4, <2>5
<1>. QED BY <1>1, <1>2, <1>3, <1>4

LEMMA WritesAre ==
  ASSUME NEW R, Rows(R), NEW w \in Writes(R) PROVE IsWrite(R, w)
<1>1. CASE w \in TableService(R)
  <2>1. ASSUME w \in Updates(R, "table", {}) \cup Deletes(R, "table") PROVE IsWrite(R, w)
    BY <2>1, UpdatesAre, DeletesAre DEF Kinds
  <2>2. ASSUME NEW i \in Table["table"], R[i].status # "LISTED", w = Write("create", i, {})
        PROVE  IsWrite(R, w)
    BY <2>2, TableIs, OthersAre DEF Kinds
  <2>3. ASSUME NEW i \in ListedOf(R, "table"), NEW j \in Table["table"], R[j].status # "LISTED",
               w = Write("renumber", i, {j})
        PROVE  IsWrite(R, w)
    <3>1. i \in Ids /\ Kind[i] = "table" /\ R[i].status = "LISTED" /\ j \in Ids /\ Kind[j] = "table"
      BY <2>3, TableIs DEF ListedOf, Kinds
    <3>. QED BY <2>3, <3>1, OthersAre
  <2>4. \/ w \in Updates(R, "table", {}) \cup Deletes(R, "table")
        \/ \E i \in Table["table"] : R[i].status # "LISTED" /\ w = Write("create", i, {})
        \/ \E i \in ListedOf(R, "table") : \E j \in Table["table"] :
              R[j].status # "LISTED" /\ w = Write("renumber", i, {j})
    <3>1. \/ w \in {Write("create", i, {}) : i \in FreeNumbers(R)}
          \/ w \in UNION {{Write("renumber", i, {j}) : j \in FreeNumbers(R)} : i \in ListedOf(R, "table")}
          \/ w \in Updates(R, "table", {}) \/ w \in Deletes(R, "table")
      BY <1>1, Zenon DEF TableService
    <3>3. ASSUME w \in UNION {{Write("renumber", i, {j}) : j \in FreeNumbers(R)} : i \in ListedOf(R, "table")}
          PROVE  \E i \in ListedOf(R, "table") : \E j \in FreeNumbers(R) : w = Write("renumber", i, {j})
      BY <3>3
    <3>4. ASSUME w \in {Write("create", i, {}) : i \in FreeNumbers(R)}
          PROVE  \E i \in FreeNumbers(R) : w = Write("create", i, {})
      BY <3>4
    <3>2. \A i \in FreeNumbers(R) : i \in Table["table"] /\ R[i].status # "LISTED"
      BY DEF FreeNumbers
    <3>. QED BY <3>1, <3>2, <3>3, <3>4
  <2>. QED BY <2>1, <2>2, <2>3, <2>4
<1>2. CASE w \in UserService(R)
  <2>1. ASSUME w \in Creates(R, "user") \cup Updates(R, "user", {}) \cup Deletes(R, "user")
        PROVE  IsWrite(R, w)
    BY <2>1, CreatesAre, UpdatesAre, DeletesAre DEF Kinds
  <2>2. ASSUME NEW i \in ListedOf(R, "user"), w = Write("password", i, R[i].refs) PROVE IsWrite(R, w)
    <3>1. i \in Ids /\ Kind[i] = "user" /\ R[i].status = "LISTED" BY <2>2, TableIs DEF ListedOf, Kinds
    <3>. QED BY <2>2, <3>1, OthersAre
  <2>. QED BY <1>2, <2>1, <2>2 DEF UserService
<1>3. CASE w \in InventoryService(R)
  <2>1. PICK i \in ListedOf(R, "item") : w = Write("stock", i, R[i].refs) BY <1>3 DEF InventoryService
  <2>2. i \in Ids /\ Kind[i] = "item" /\ R[i].status = "LISTED" BY <2>1, TableIs DEF ListedOf, Kinds
  <2>. QED BY <2>1, <2>2, OthersAre
<1>4. CASE w \in AuthService(R)
  <2>1. PICK i \in Table["user"] : R[i].status = "UNISSUED" /\ w = Write("guest", i, {})
    BY <1>4 DEF AuthService
  <2>2. i \in Ids /\ Kind[i] = "user" /\ R[i].status # "LISTED" BY <2>1, TableIs DEF Kinds
  <2>. QED BY <2>1, <2>2, OthersAre
<1>. QED BY <1>1, <1>2, <1>3, <1>4, ServicesAre DEF Writes

\* What a write does to the rows: where its row stays, only that row.
LEMMA AfterIs ==
  ASSUME NEW R, Rows(R), NEW w, IsWrite(R, w)
  PROVE  /\ Rows(After(R, w))
         /\ w.op \in Stays \cup Makes =>
              /\ After(R, w)[w.row].refs = w.refs
              /\ \A k \in Ids \ {w.row} : After(R, w)[k] = R[k]
         /\ w.op = "delete" => After(R, w) = Deleted(R, w.row)
         /\ w.op = "renumber" =>
              \E j \in Ids : /\ Kind[j] = "table" /\ R[j].status # "LISTED"
                             /\ After(R, w) = Renumbered(R, w.row, j)
<1>. w.row \in Ids BY DEF IsWrite
<1>1. CASE w.op \in Makes
  <2>1. After(R, w) = Inserted(R, w.row, w.refs) /\ w.refs \in Refs(R, Kind[w.row])
    BY <1>1 DEF After, IsWrite, Makes
  <2>. QED BY <1>1, <2>1, InsertedRows DEF Stays, Makes
<1>2. CASE w.op \in Stays
  <2>1. After(R, w) = Updated(R, w.row, w.refs) /\ w.refs \in Refs(R, Kind[w.row])
    BY <1>2 DEF After, IsWrite, Stays, Makes
  <2>2. R[w.row].status = "LISTED" BY <1>2 DEF IsWrite, Stays, Makes
  <2>. QED BY <1>2, <2>1, <2>2, UpdatedRows DEF Stays
<1>3. CASE w.op = "delete"
  <2>1. After(R, w) = Deleted(R, w.row) /\ R[w.row].status = "LISTED"
    BY <1>3 DEF After, IsWrite, Makes
  <2>. QED BY <1>3, <2>1, DeletedRows DEF Stays, Makes
<1>4. CASE w.op = "renumber"
  <2>1. PICK j \in Ids : w.refs = {j} /\ Kind[j] = "table" /\ R[j].status # "LISTED"
    BY <1>4 DEF IsWrite
  <2>2. R[w.row].status = "LISTED" /\ Kind[w.row] = "table" BY <1>4 DEF IsWrite, Makes
  <2>3. (CHOOSE k \in w.refs : TRUE) = j BY <2>1
  <2>4. After(R, w) = Renumbered(R, w.row, j) BY <1>4, <2>3 DEF After
  <2>. QED BY <1>4, <2>1, <2>2, <2>4, RenumberedRows DEF Stays, Makes
<1>. QED BY <1>1, <1>2, <1>3, <1>4 DEF IsWrite, Stays, Makes

-----------------------------------------------------------------------------
(***************************************************************************)
(* The types.                                                              *)
(***************************************************************************)

LEMMA NameTypes ==
  ASSUME NEW kind \in Cached \cup {"order"}
  PROVE  /\ Every(kind) \in Name /\ Prefix(kind, "all") \in Name /\ Exact(kind, "all") \in Name
         /\ Exact(kind, "") \in Name /\ Exact(kind, "params.id") \in Name
         /\ \A i \in Ids : Exact(kind, i) \in Name
  BY DEF Every, Prefix, Exact, Name

\* The row that a write of a link is named after: the section the link is in.
LinkRefs(R, w) == IF w.op = "create" THEN w.refs ELSE R[w.row].refs

LEMMA LinkSection ==
  ASSUME NEW R, Rows(R), NEW w, IsWrite(R, w), Kind[w.row] = "sectionItem"
  PROVE  \E s \in Ids : /\ Kind[s] = "section" /\ s \in LinkRefs(R, w)
                        /\ \A t \in LinkRefs(R, w) : Kind[t] = "section" => t = s
                        /\ Names(R, w) = SectionNames("update", s)
<1>. DEFINE refs == LinkRefs(R, w)
            section == CHOOSE s \in Table["section"] : s \in refs
<1>1. /\ {"section", "item"} \subseteq {Kind[j] : j \in refs} /\ refs \subseteq Ids
      /\ \A j, k \in refs : Kind[j] = Kind[k] => j = k
  <2>1. w.row \in Ids /\ Needed("sectionItem") = {"section", "item"}
    BY NeededFacts DEF IsWrite, Kinds
  <2>2. CASE w.op = "create"
    <3>1. refs \in Refs(R, "sectionItem") BY <2>2 DEF IsWrite, LinkRefs, Makes
    <3>. HIDE DEF refs
    <3>. QED BY <2>1, <3>1 DEF Refs, Listed, Fits
  <2>3. CASE w.op # "create"
    <3>1. refs = R[w.row].refs /\ R[w.row].status = "LISTED" BY <2>3 DEF IsWrite, LinkRefs, Makes
    <3>2. refs \in Refs(R, "sectionItem") BY <2>1, <3>1, OwnRefs
    <3>. HIDE DEF refs
    <3>. QED BY <2>1, <3>2 DEF Refs, Listed, Fits
  <2>. QED BY <2>2, <2>3
<1>2. Names(R, w) = SectionNames("update", section)
  <2>1. section = CHOOSE s \in Table["section"] :
                    s \in (IF w.op = "create" THEN w.refs ELSE R[w.row].refs)
    BY DEF LinkRefs
  <2>2. w.op # "stock" BY DEF IsWrite
  <2>. HIDE DEF section
  <2>. QED BY <2>1, <2>2 DEF Names
<1>. HIDE DEF refs
<1>3. PICK s \in refs : Kind[s] = "section" BY <1>1
<1>4. \A t : t \in Table["section"] <=> t \in Ids /\ Kind[t] = "section" BY TableIs DEF Kinds
<1>5. section \in Table["section"] /\ section \in refs BY <1>1, <1>3, <1>4
<1>. HIDE DEF section
<1>6. \A t \in refs : Kind[t] = "section" => t = section BY <1>1, <1>4, <1>5
<1>. QED BY <1>2, <1>4, <1>5, <1>6 DEF refs

LEMMA NamesTyped ==
  ASSUME NEW R, Rows(R), NEW w, IsWrite(R, w) PROVE Names(R, w) \subseteq Name
<1>. DEFINE kind == Kind[w.row]
<1>1. w.row \in Ids /\ kind \in Kinds BY KindType DEF IsWrite
<1>2. CASE w.op = "stock"
  <2>1. kind = "item" BY <1>2 DEF IsWrite
  <2>2. Names(R, w) = {} BY <1>2, <2>1 DEF Names
  <2>. QED BY <2>2
<1>3. CASE w.op # "stock" /\ kind = "menu"
  <2>1. Names(R, w) = MenuNames(w.op, w.row) BY <1>3 DEF Names
  <2>. QED BY <1>1, <2>1, NameTypes DEF MenuNames, Cached
<1>4. CASE w.op # "stock" /\ kind = "section"
  <2>1. Names(R, w) = SectionNames(w.op, w.row) BY <1>4 DEF Names
  <2>. QED BY <1>1, <2>1, NameTypes DEF SectionNames, Cached
<1>5. CASE kind = "sectionItem"
  <2>1. PICK s \in Ids : Names(R, w) = SectionNames("update", s) BY <1>5, LinkSection
  <2>. QED BY <2>1, NameTypes DEF SectionNames, Cached
<1>6. CASE w.op # "stock" /\ kind \in {"packetSection", "choice", "item"}
  <2>1. Names(R, w) = ItemNames BY <1>6 DEF Names
  <2>. QED BY <2>1, NameTypes DEF ItemNames, Cached
<1>7. CASE w.op # "stock" /\ kind = "station"
  <2>1. Names(R, w) = StationNames(w.op, w.row) BY <1>7 DEF Names
  <2>. QED BY <1>1, <2>1, NameTypes DEF StationNames, Cached
<1>8. CASE w.op # "stock" /\ kind = "table"
  <2>1. Names(R, w) = TableNames(w.op, w.row) BY <1>8 DEF Names
  <2>. QED BY <1>1, <2>1, NameTypes DEF TableNames, Cached
<1>9. CASE w.op # "stock" /\ kind = "adjustment"
  <2>1. Names(R, w) = AdjustmentNames(w.op) BY <1>9 DEF Names
  <2>. QED BY <2>1, NameTypes DEF AdjustmentNames, Cached
<1>10. CASE w.op # "stock" /\ kind = "additional"
  <2>1. Names(R, w) = AdditionalNames(w.op) BY <1>10 DEF Names
  <2>. QED BY <2>1, NameTypes DEF AdditionalNames, Cached
<1>11. CASE w.op # "stock" /\ kind = "user"
  <2>1. Names(R, w) = UserNames(w.op) BY <1>11 DEF Names
  <2>2. UserNames(w.op) \subseteq {Prefix("user", "all"), Every("user")} BY DEF UserNames
  <2>3. Prefix("user", "all") \in Name /\ Every("user") \in Name BY NameTypes DEF Cached
  <2>. QED BY <2>1, <2>2, <2>3
<1>12. CASE w.op # "stock" /\ kind = "hours"
  <2>1. Names(R, w) = HoursNames BY <1>12 DEF Names
  <2>. QED BY <2>1, NameTypes DEF HoursNames, Cached
<1>13. CASE w.op # "stock" /\ kind = "order"
  <2>1. Names(R, w) = OrderNames BY <1>13 DEF Names
  <2>. QED BY <2>1, NameTypes DEF OrderNames, Cached
<1>. QED BY <1>1, <1>2, <1>3, <1>4, <1>5, <1>6, <1>7, <1>8, <1>9, <1>10, <1>11, <1>12, <1>13 DEF Kinds

\* What a key is.
LEMMA KeyFields ==
  ASSUME NEW key \in Keys
  PROVE  /\ key.kind \in Cached /\ key.query \in BOOLEAN
         /\ \/ key.rest = "all" /\ key.kind # "hours"
            \/ key.rest = "for-shift" /\ key.kind = "user"
            \/ key.rest = "" /\ key.kind = "hours"
            \/ key.rest \in Ids /\ Kind[key.rest] = key.kind /\ key.kind # "hours"
<1>1. PICK p \in Paths, q \in Queries : key = [kind |-> p[1], rest |-> p[2], query |-> q] BY DEF Keys
<1>2. key.kind = p[1] /\ key.rest = p[2] /\ key.query = q BY <1>1
<1>3. \/ \E k \in Cached \ {"hours"} : p = <<k, "all">>
      \/ p = <<"user", "for-shift">> \/ p = <<"hours", "">>
      \/ \E i \in Ids : Kind[i] \in Cached \ {"hours"} /\ p = <<Kind[i], i>>
  BY DEF Paths
<1>4. \/ key.kind \in Cached \ {"hours"} /\ key.rest = "all"
      \/ key.kind = "user" /\ key.rest = "for-shift"
      \/ key.kind = "hours" /\ key.rest = ""
      \/ key.rest \in Ids /\ key.kind = Kind[key.rest] /\ key.kind \in Cached \ {"hours"}
  <2>1. CASE \E k \in Cached \ {"hours"} : p = <<k, "all">>
    <3>1. p[1] \in Cached \ {"hours"} /\ p[2] = "all" BY <2>1
    <3>. QED BY <1>2, <3>1
  <2>2. CASE p = <<"user", "for-shift">> BY <1>2, <2>2
  <2>3. CASE p = <<"hours", "">> BY <1>2, <2>3
  <2>4. CASE \E i \in Ids : Kind[i] \in Cached \ {"hours"} /\ p = <<Kind[i], i>>
    <3>1. p[2] \in Ids /\ p[1] = Kind[p[2]] /\ p[1] \in Cached \ {"hours"} BY <2>4
    <3>. QED BY <1>2, <3>1
  <2>. QED BY <1>3, <2>1, <2>2, <2>3, <2>4
<1>5. q \in BOOLEAN BY CacheAssumption
<1>. QED BY <1>2, <1>4, <1>5 DEF Cached

LEMMA CachedKinds == Cached \subseteq Kinds
  BY DEF Cached, Kinds

LEMMA ShowsIds ==
  ASSUME NEW R, NEW key \in Keys PROVE Shows(R, key) \subseteq Ids
<1>1. \A k \in Kinds : Table[k] \subseteq Ids /\ ListedOf(R, k) \subseteq Ids BY TableIs DEF ListedOf
<1>2. key.kind \in Kinds BY KeyFields, CachedKinds
<1>3. \A S : \A k \in Kinds : Referring(R, S, k) \subseteq Ids /\ Targets(R, S, k) \subseteq Ids
  BY <1>1 DEF Referring, Targets
<1>4. \A S \in SUBSET Ids : ItemsAnswer(R, S) \subseteq Ids /\ UsersAnswer(R, S) \subseteq Ids
  BY <1>3 DEF ItemsAnswer, UsersAnswer, Kinds
<1>5. \A i \in Ids : /\ ItemDetails(R, i) \subseteq Ids /\ SectionDetails(R, i) \subseteq Ids
                     /\ TableDetails(R, i) \subseteq Ids
  BY <1>3, <1>4 DEF ItemDetails, SectionDetails, TableDetails, Kinds
<1>. DEFINE all == ListedOf(R, key.kind)
            one == {key.rest} \cap all
<1>6. CASE key.rest \in {"all", "for-shift", ""}
  <2>1. Shows(R, key) \in {ItemsAnswer(R, all), UsersAnswer(R, all), all} BY <1>6, KeyFields DEF Shows
  <2>. QED BY <1>1, <1>2, <1>4, <2>1
<1>7. CASE key.rest \notin {"all", "for-shift", ""}
  <2>1. key.rest \in Ids BY <1>7, KeyFields
  <2>2. Shows(R, key) \in {{}, SectionDetails(R, key.rest), ItemDetails(R, key.rest),
                           TableDetails(R, key.rest), UsersAnswer(R, one), one}
    BY <1>7 DEF Shows
  <2>3. one \in SUBSET Ids BY <1>1, <1>2
  <2>. HIDE DEF one
  <2>. QED BY <1>4, <1>5, <2>1, <2>2, <2>3
<1>. QED BY <1>6, <1>7

ReqOK   == req \in [Requests -> Request] /\ \A r \in Requests : Sound(req[r])
CacheOK == DOMAIN cache \subseteq Keys /\ \A key \in DOMAIN cache : cache[key] \in Entry

LEMMA TypeParts == TypeOK <=> Rows(rows) /\ CacheOK /\ ReqOK /\ calls \in Nat
  BY DEF TypeOK, Rows, CacheOK, ReqOK

LEMMA TypePartsNext == Rows(rows') /\ CacheOK' /\ ReqOK' /\ calls' \in Nat => TypeOK'
  BY DEF TypeOK, Rows, CacheOK, ReqOK

LEMMA RequestFieldTypes ==
  ASSUME NEW q \in Request
  PROVE  /\ q.pc \in Pc /\ q.key \in Keys \cup {Null} /\ q.answer \subseteq Ids \X Nat
         /\ q.row \in Ids \cup {Null} /\ q.names \subseteq Name /\ q.left \subseteq Ids
         /\ q.failed \in BOOLEAN
  BY DEF Request

\* The states a request goes into.
LEMMA IdleType == Idle \in Request /\ Sound(Idle) /\ Idle.pc = "idle"
  BY DEF Idle, Request, Sound, Pc

LEMMA StateTypes ==
  /\ \A key \in Keys : LET q == [Idle EXCEPT !.pc = "query", !.key = key]
                       IN q \in Request /\ Sound(q)
  /\ \A i \in Ids : \A names \in SUBSET Name :
       LET q == [Idle EXCEPT !.pc = "slug", !.row = i, !.names = names]
       IN q \in Request /\ Sound(q)
  /\ \A S \in SUBSET Ids : \A names \in SUBSET Name :
       LET q == [Idle EXCEPT !.pc = "bulk", !.left = S, !.names = names]
       IN q \in Request /\ (S # {} => Sound(q))
  /\ \A names \in SUBSET Name :
       LET q == [Idle EXCEPT !.pc = "clear", !.names = names]
       IN q \in Request /\ (names # {} => Sound(q))
<1>1. ASSUME NEW key \in Keys
      PROVE  LET q == [Idle EXCEPT !.pc = "query", !.key = key] IN q \in Request /\ Sound(q)
  BY DEF Idle, Request, Sound, Pc
<1>2. ASSUME NEW i \in Ids, NEW names \in SUBSET Name
      PROVE  LET q == [Idle EXCEPT !.pc = "slug", !.row = i, !.names = names]
             IN q \in Request /\ Sound(q)
  BY DEF Idle, Request, Sound, Pc
<1>3. ASSUME NEW S \in SUBSET Ids, NEW names \in SUBSET Name
      PROVE  LET q == [Idle EXCEPT !.pc = "bulk", !.left = S, !.names = names]
             IN q \in Request /\ (S # {} => Sound(q))
  BY DEF Idle, Request, Sound, Pc
<1>4. ASSUME NEW names \in SUBSET Name
      PROVE  LET q == [Idle EXCEPT !.pc = "clear", !.names = names]
             IN q \in Request /\ (names # {} => Sound(q))
  BY DEF Idle, Request, Sound, Pc
<1>. QED BY <1>1, <1>2, <1>3, <1>4

LEMMA GoTyped ==
  ASSUME ReqOK, NEW r \in Requests, NEW state \in Request, Sound(state), Go(r, state)
  PROVE  ReqOK'
<1>1. req' \in [Requests -> Request] BY DEF ReqOK, Go
<1>2. \A p \in Requests : req'[p] = IF p = r THEN state ELSE req[p] BY DEF ReqOK, Go
<1>. QED BY <1>1, <1>2 DEF ReqOK, Sound

LEMMA ClearingTyped ==
  ASSUME ReqOK, NEW r \in Requests, NEW names \in SUBSET Name, Clearing(r, names)
  PROVE  ReqOK'
<1>1. CASE names = {}
  <2>1. Go(r, Idle) BY <1>1 DEF Clearing
  <2>. QED BY <2>1, IdleType, GoTyped
<1>2. CASE names # {}
  <2>. DEFINE state == [Idle EXCEPT !.pc = "clear", !.names = names]
  <2>1. Go(r, state) BY <1>2 DEF Clearing
  <2>2. state \in Request /\ Sound(state) BY <1>2, StateTypes
  <2>. HIDE DEF state
  <2>. QED BY <2>1, <2>2, GoTyped
<1>. QED BY <1>1, <1>2

\* The operations of the writers of an answer.
WriterOps == {"create", "guest", "update", "renumber", "delete", "password", "stock", "bulk"}

LEMMA ChangeTyped ==
  ASSUME CacheOK, NEW R, NEW names, NEW op \in WriterOps, NEW kind \in Kinds,
         Change(R, names, op, kind)
  PROVE  CacheOK'
<1>. DEFINE writer == [op |-> op, kind |-> kind]
<1>1. writer \in Writers BY DEF Writers, WriterOps
<1>2. /\ DOMAIN cache' = DOMAIN cache
      /\ \A key \in DOMAIN cache :
           cache'[key] \in {cache[key], [cache[key] EXCEPT !.unnamed = @ \cup {writer}]}
  BY DEF Change
<1>. HIDE DEF writer
<1>3. \A e \in Entry : [e EXCEPT !.unnamed = @ \cup {writer}] \in Entry BY <1>1 DEF Entry
<1>. QED BY <1>2, <1>3 DEF CacheOK

LEMMA FailTyped ==
  ASSUME CacheOK, ReqOK, NEW r \in Requests, Fail(r) PROVE CacheOK' /\ ReqOK'
<1>1. ReqOK' BY IdleType, GoTyped DEF Fail
<1>2. /\ DOMAIN cache' = DOMAIN cache
      /\ \A key \in DOMAIN cache :
           cache'[key] = [cache[key] EXCEPT !.lost = @ \/ Named(req[r].names, key)]
  BY DEF Fail
<1>3. ASSUME NEW e \in Entry, NEW b \in BOOLEAN PROVE [e EXCEPT !.lost = @ \/ b] \in Entry
  BY DEF Entry
<1>4. \A key : Named(req[r].names, key) \in BOOLEAN BY DEF Named
<1>. QED BY <1>1, <1>2, <1>3, <1>4 DEF CacheOK

LEMMA WithoutTyped ==
  ASSUME CacheOK, NEW S, cache' = Without(S) PROVE CacheOK'
<1>1. DOMAIN cache' = DOMAIN cache \ S /\ \A key \in DOMAIN cache' : cache'[key] = cache[key]
  BY DEF Without
<1>. QED BY <1>1 DEF CacheOK

LEMMA AnswerTyped ==
  ASSUME NEW R, Rows(R), NEW key \in Keys PROVE Answer(R, key) \subseteq Ids \X Nat
<1>1. \A i \in Ids : R[i].ver \in Nat BY RowFields DEF Rows
<1>2. Shows(R, key) \subseteq Ids BY ShowsIds
<1>. QED BY <1>1, <1>2 DEF Answer

LEMMA LookupTyped ==
  ASSUME TypeOK, NEW r \in Requests, NEW key \in Keys, Lookup(r, key) PROVE TypeOK'
<1>. DEFINE state == [Idle EXCEPT !.pc = "query", !.key = key]
<1>1. Rows(rows) /\ CacheOK /\ ReqOK /\ calls \in Nat BY TypeParts
<1>2. rows' = rows /\ cache' = cache /\ calls' = calls + 1 BY DEF Lookup, MayStart
<1>3. Go(r, Idle) \/ Go(r, state) BY DEF Lookup
<1>4. state \in Request /\ Sound(state) BY StateTypes
<1>. HIDE DEF state
<1>5. ReqOK' BY <1>1, <1>3, <1>4, IdleType, GoTyped
<1>6. CacheOK' BY <1>1, <1>2 DEF CacheOK
<1>. QED BY <1>1, <1>2, <1>5, <1>6, TypePartsNext

LEMMA QueryTyped ==
  ASSUME TypeOK, NEW r \in Requests, Query(r) PROVE Rows(rows') /\ CacheOK' /\ ReqOK'
<1>. DEFINE key == req[r].key
            answer == Answer(rows, key)
            state == [req[r] EXCEPT !.pc = "store", !.answer = answer]
<1>1. Rows(rows) /\ CacheOK /\ ReqOK BY TypeParts
<1>2. rows' = rows /\ cache' = cache /\ req[r].pc = "query" BY DEF Query
<1>3. req[r] \in Request /\ key \in Keys BY <1>1, <1>2 DEF ReqOK, Sound
<1>4. answer \subseteq Ids \X Nat BY <1>1, <1>3, AnswerTyped
<1>5. Go(r, Idle) \/ Go(r, state) BY DEF Query
<1>. HIDE DEF key, answer
<1>6. state \in Request /\ state.pc = "store" /\ state.key = req[r].key
  BY <1>3, <1>4 DEF Request, Pc
<1>. HIDE DEF state
<1>7. Sound(state) BY <1>3, <1>6 DEF Sound, key
<1>8. ReqOK' BY <1>1, <1>5, <1>6, <1>7, IdleType, GoTyped
<1>9. CacheOK' BY <1>1, <1>2 DEF CacheOK
<1>. QED BY <1>1, <1>2, <1>8, <1>9

LEMMA StoreTyped ==
  ASSUME TypeOK, NEW r \in Requests, Store(r) PROVE Rows(rows') /\ CacheOK' /\ ReqOK'
<1>. DEFINE key == req[r].key
            entry == NewEntry(key, req[r].answer)
<1>1. Rows(rows) /\ CacheOK /\ ReqOK BY TypeParts
<1>2. rows' = rows /\ cache' = Put(key, entry) /\ req[r].pc = "store" /\ Go(r, Idle) BY DEF Store
<1>3. req[r] \in Request /\ key \in Keys BY <1>1, <1>2 DEF ReqOK, Sound
<1>4. req[r].answer \subseteq Ids \X Nat BY <1>3, RequestFieldTypes
<1>5. entry \in Entry BY <1>4 DEF NewEntry, Entry
<1>. HIDE DEF key, entry
<1>6. /\ DOMAIN cache' = DOMAIN cache \cup {key}
      /\ \A k \in DOMAIN cache' : cache'[k] = IF k = key THEN entry ELSE cache[k]
  BY <1>2 DEF Put
<1>7. CacheOK' BY <1>1, <1>3, <1>5, <1>6 DEF CacheOK
<1>8. ReqOK' BY <1>1, <1>2, IdleType, GoTyped
<1>. QED BY <1>1, <1>2, <1>7, <1>8

LEMMA WriteTyped ==
  ASSUME TypeOK, NEW r \in Requests, WriteRow(r) PROVE TypeOK'
<1>1. Rows(rows) /\ CacheOK /\ ReqOK /\ calls \in Nat BY TypeParts
<1>2. PICK w \in Writes(rows) :
        /\ Change(After(rows, w), Names(rows, w), w.op, Kind[w.row])
        /\ IF w.op \in {"create", "guest"} /\ Kind[w.row] \in Slugged
           THEN Go(r, [Idle EXCEPT !.pc = "slug", !.row = w.row, !.names = Names(rows, w)])
           ELSE Clearing(r, Names(rows, w))
  BY DEF WriteRow
<1>. DEFINE names == Names(rows, w)
            state == [Idle EXCEPT !.pc = "slug", !.row = w.row, !.names = names]
<1>3. IsWrite(rows, w) BY <1>1, WritesAre
<1>4. /\ w.row \in Ids /\ w.op \in WriterOps /\ Kind[w.row] \in Kinds
  BY <1>3, KindType DEF IsWrite, WriterOps
<1>5. names \subseteq Name BY <1>1, <1>3, NamesTyped
<1>6. state \in Request /\ Sound(state) BY <1>4, <1>5, StateTypes
<1>7. Go(r, state) \/ Clearing(r, names) BY <1>2
<1>8. rows' = After(rows, w) BY <1>2 DEF Change
<1>9. Rows(rows') BY <1>1, <1>3, <1>8, AfterIs
<1>10. CacheOK' BY <1>1, <1>2, <1>4, ChangeTyped
<1>. HIDE DEF state, names
<1>11. ReqOK' BY <1>1, <1>5, <1>6, <1>7, GoTyped, ClearingTyped
<1>12. calls' \in Nat BY <1>1 DEF WriteRow, MayStart
<1>. QED BY <1>9, <1>10, <1>11, <1>12, TypePartsNext

LEMMA SlugTyped ==
  ASSUME TypeOK, NEW r \in Requests, WriteSlug(r) PROVE Rows(rows') /\ CacheOK' /\ ReqOK'
<1>. DEFINE q == req[r]
<1>1. Rows(rows) /\ CacheOK /\ ReqOK BY TypeParts
<1>2. q \in Request /\ q.pc = "slug" /\ q.row \in Ids BY <1>1 DEF WriteSlug, ReqOK, Sound
<1>3. q.names \subseteq Name /\ Kind[q.row] \in Kinds BY <1>2, RequestFieldTypes, KindType
<1>. DEFINE op == IF q.names = {} THEN "guest" ELSE "create"
<1>4. CASE /\ q.row \in Listed(rows)
           /\ Change(WithSlug(rows, q.row), q.names, op, Kind[q.row])
           /\ Clearing(r, q.names)
  <2>1. rows' = WithSlug(rows, q.row) BY <1>4 DEF Change
  <2>2. Rows(rows') BY <1>1, <1>2, <1>4, <2>1, SlugRows DEF Listed
  <2>3. CacheOK' BY <1>1, <1>3, <1>4, ChangeTyped DEF WriterOps
  <2>4. ReqOK' BY <1>1, <1>3, <1>4, ClearingTyped
  <2>. QED BY <2>2, <2>3, <2>4
<1>5. CASE Fail(r) /\ UNCHANGED rows BY <1>1, <1>5, FailTyped
<1>. QED BY <1>4, <1>5 DEF WriteSlug

LEMMA BulkLookTyped ==
  ASSUME TypeOK, NEW r \in Requests, NEW S, BulkLook(r, S) PROVE TypeOK'
<1>. DEFINE state == [Idle EXCEPT !.pc = "bulk", !.left = S, !.names = BulkNames]
<1>1. Rows(rows) /\ CacheOK /\ ReqOK /\ calls \in Nat BY TypeParts
<1>2. /\ rows' = rows /\ cache' = cache /\ S # {} /\ S \subseteq ListedOf(rows, "section")
      /\ calls' = calls + 1 /\ Go(r, [Idle EXCEPT !.pc = "bulk", !.left = S, !.names = BulkNames])
  BY DEF BulkLook, MayStart
<1>3. S \subseteq Ids BY <1>2, TableIs DEF ListedOf, Kinds
<1>4. BulkNames \subseteq Name BY NameTypes DEF BulkNames, Cached
<1>5. state \in Request /\ Sound(state) BY <1>2, <1>3, <1>4, StateTypes
<1>6. Go(r, state) BY <1>2
<1>. HIDE DEF state
<1>7. ReqOK' BY <1>1, <1>5, <1>6, GoTyped
<1>8. CacheOK' BY <1>1, <1>2 DEF CacheOK
<1>. QED BY <1>1, <1>2, <1>7, <1>8, TypePartsNext

LEMMA BulkWriteTyped ==
  ASSUME TypeOK, NEW r \in Requests, NEW s \in req[r].left, BulkWrite(r, s)
  PROVE  Rows(rows') /\ CacheOK' /\ ReqOK'
<1>. DEFINE q == req[r]
            gone == s \notin Listed(rows)
            left == q.left \ {s}
            failed == q.failed \/ gone
            state == [q EXCEPT !.left = left, !.failed = failed]
<1>1. Rows(rows) /\ CacheOK /\ ReqOK BY TypeParts
<1>2. q \in Request /\ q.pc = "bulk" BY <1>1 DEF BulkWrite, ReqOK
<1>3. s \in Ids /\ left \subseteq Ids /\ q.names \subseteq Name /\ failed \in BOOLEAN
  BY <1>2, RequestFieldTypes
<1>4. Rows(rows') /\ CacheOK'
  <2>1. CASE gone
    <3>1. rows' = rows /\ cache' = cache BY <2>1 DEF BulkWrite
    <3>. QED BY <1>1, <3>1 DEF CacheOK
  <2>2. CASE ~gone
    <3>1. Change(Shown(rows, s), q.names, "bulk", "section") BY <2>2 DEF BulkWrite
    <3>2. rows' = Updated(rows, s, rows[s].refs) BY <3>1 DEF Change, Shown
    <3>3. rows[s].status = "LISTED" BY <2>2, <1>3 DEF Listed
    <3>4. Rows(rows') BY <1>1, <1>3, <3>2, <3>3, OwnRefs, UpdatedRows
    <3>5. CacheOK' BY <1>1, <3>1, ChangeTyped DEF WriterOps, Kinds
    <3>. QED BY <3>4, <3>5
  <2>. QED BY <2>1, <2>2
<1>5. IF left = {} /\ ~gone /\ ~q.failed THEN Clearing(r, q.names)
      ELSE Go(r, [q EXCEPT !.left = left, !.failed = @ \/ gone])
  BY DEF BulkWrite
<1>6. [q EXCEPT !.left = left, !.failed = @ \/ gone] = state OBVIOUS
<1>. HIDE DEF q, gone, left, failed
<1>7. state \in Request /\ state.pc = "bulk" /\ state.left = left /\ state.failed = failed
  BY <1>2, <1>3 DEF Request
<1>. HIDE DEF state
<1>8. CASE left = {} /\ ~gone /\ ~q.failed
  <2>1. Clearing(r, q.names) BY <1>5, <1>8
  <2>. QED BY <1>1, <1>3, <1>4, <2>1, ClearingTyped
<1>9. CASE ~(left = {} /\ ~gone /\ ~q.failed)
  <2>1. Go(r, state) BY <1>5, <1>6, <1>9
  <2>2. left # {} \/ failed BY <1>9 DEF failed
  <2>3. Sound(state) BY <1>7, <2>2 DEF Sound
  <2>. QED BY <1>1, <1>4, <1>7, <2>1, <2>3, GoTyped
<1>. QED BY <1>8, <1>9

LEMMA ClearTyped ==
  ASSUME TypeOK, NEW r \in Requests, NEW name \in req[r].names, Clear(r, name)
  PROVE  Rows(rows') /\ CacheOK' /\ ReqOK'
<1>1. Rows(rows) /\ CacheOK /\ ReqOK BY TypeParts
<1>2. req[r].names \ {name} \subseteq Name BY <1>1, RequestFieldTypes DEF ReqOK
<1>3. Clearing(r, req[r].names \ {name}) /\ rows' = rows BY DEF Clear
<1>4. ReqOK' BY <1>1, <1>2, <1>3, ClearingTyped
<1>5. CacheOK' BY <1>1, WithoutTyped DEF Clear
<1>. QED BY <1>1, <1>3, <1>4, <1>5

LEMMA InitTyped == Init => TypeOK
<1>. SUFFICES ASSUME Init PROVE TypeOK OBVIOUS
<1>1. Rows(rows) BY CacheAssumption DEF Init, Rows
<1>2. CacheOK BY DEF Init, CacheOK
<1>3. ReqOK BY IdleType DEF Init, ReqOK
<1>. QED BY <1>1, <1>2, <1>3, TypeParts DEF Init

LEMMA NextTyped == TypeOK /\ [Next]_vars => TypeOK'
<1>. SUFFICES ASSUME TypeOK, [Next]_vars PROVE TypeOK' OBVIOUS
<1>0. Rows(rows) /\ CacheOK /\ ReqOK /\ calls \in Nat BY TypeParts
<1>1. CASE UNCHANGED vars
  <2>1. rows' = rows /\ cache' = cache /\ req' = req /\ calls' = calls BY <1>1 DEF vars
  <2>. QED BY <2>1 DEF TypeOK, Sound
<1>2. ASSUME NEW r \in Requests, Step(r), UNCHANGED calls PROVE TypeOK'
  <2>1. ASSUME BulkFails(r) \/ Interrupt(r) PROVE Rows(rows') /\ CacheOK' /\ ReqOK'
    <3>1. Fail(r) /\ rows' = rows BY <2>1 DEF BulkFails, Interrupt
    <3>. QED BY <1>0, <3>1, FailTyped
  <2>2. Rows(rows') /\ CacheOK' /\ ReqOK'
    BY <1>2, <2>1, QueryTyped, StoreTyped, SlugTyped, BulkWriteTyped, ClearTyped DEF Step
  <2>. QED BY <1>0, <1>2, <2>2, TypePartsNext
<1>3. ASSUME NEW key \in DOMAIN cache, Expire(key) PROVE TypeOK'
  <2>1. rows' = rows /\ req' = req /\ calls' = calls /\ cache' = Without({key})
    BY <1>3 DEF Expire
  <2>2. CacheOK' BY <1>0, <2>1, WithoutTyped
  <2>3. ReqOK' BY <1>0, <2>1 DEF ReqOK, Sound
  <2>. QED BY <1>0, <2>1, <2>2, <2>3, TypePartsNext
<1>. QED BY <1>1, <1>2, <1>3, LookupTyped, WriteTyped, BulkLookTyped DEF Next

\* The rows, the entries and the requests are of their types; in particular a foreign key
\* leads to a row that is there, and those a row needs are there, after any write of any
\* service, cascades and new numbers of tables included (the services, and the schema's
\* onDelete and onUpdate).
THEOREM TypeCorrect == Spec => []TypeOK
BY InitTyped, NextTyped, PTL DEF Spec

-----------------------------------------------------------------------------
(***************************************************************************)
(* The rows a write changes.                                               *)
(***************************************************************************)

\* The tables whose rows a cascade deletes with a row of a table, and those where it sets a
\* foreign key to null.
Below(kind) ==
  CASE kind = "menu"          -> {"section", "sectionItem"}
    [] kind = "section"       -> {"sectionItem"}
    [] kind = "item"          -> {"sectionItem", "packetSection", "choice"}
    [] kind = "station"       -> {"packetSection", "choice"}
    [] kind = "packetSection" -> {"choice"}
    [] OTHER                  -> {}

Orphans(kind) ==
  CASE kind = "station"         -> {"item", "user"}
    [] kind \in {"table", "user"} -> {"order"}
    [] OTHER                    -> {}

LEMMA CascadeKinds ==
  \A a, b \in Kinds :
    /\ a \in Parents[b] /\ b \notin SetNull =>
         b \in Below(a) /\ \A c \in Kinds : a \in Below(c) => b \in Below(c)
    /\ a \in Parents[b] /\ b \in SetNull =>
         b \in Orphans(a) /\ \A c \in Kinds : a \in Below(c) => b \in Orphans(c)
    /\ a \notin Below(a)
<1>1. \A a \in Kinds :
        /\ a = "menu" => Below(a) = {"section", "sectionItem"}
        /\ a = "section" => Below(a) = {"sectionItem"}
        /\ a = "item" => Below(a) = {"sectionItem", "packetSection", "choice"}
        /\ a = "station" => Below(a) = {"packetSection", "choice"}
        /\ a = "packetSection" => Below(a) = {"choice"}
        /\ a \notin {"menu", "section", "item", "station", "packetSection"} => Below(a) = {}
  BY DEF Below
<1>2. \A a \in Kinds :
        /\ a = "station" => Orphans(a) = {"item", "user"}
        /\ a \in {"table", "user"} => Orphans(a) = {"order"}
        /\ a \notin {"station", "table", "user"} => Orphans(a) = {}
  BY DEF Orphans
<1>3. ASSUME NEW a \in Kinds, NEW b \in Kinds, a \in Parents[b], b \notin SetNull
      PROVE  b \in Below(a) /\ \A c \in Kinds : a \in Below(c) => b \in Below(c)
  <2>1. \/ b = "section" /\ a = "menu"
        \/ b = "sectionItem" /\ a \in {"section", "item"}
        \/ b = "packetSection" /\ a \in {"item", "station"}
        \/ b = "choice" /\ a \in {"packetSection", "item"}
    BY <1>3, KindFacts DEF Kinds, SetNull
  <2>. QED BY <1>1, <2>1
<1>4. ASSUME NEW a \in Kinds, NEW b \in Kinds, a \in Parents[b], b \in SetNull
      PROVE  b \in Orphans(a) /\ \A c \in Kinds : a \in Below(c) => b \in Orphans(c)
  <2>1. \/ b \in {"item", "user"} /\ a = "station"
        \/ b = "order" /\ a \in {"table", "user"}
    BY <1>4, KindFacts DEF SetNull
  <2>. QED BY <1>1, <1>2, <2>1
<1>5. \A a \in Kinds : a \notin Below(a) BY <1>1
<1>. QED BY <1>3, <1>4, <1>5

\* A row that goes with i refers to another that goes, and is of a table below that of i.
LEMMA GoneKinds ==
  ASSUME NEW R, Rows(R), NEW i \in Ids, NEW k \in Gone(R, i), k # i
  PROVE  Kind[k] \in Below(Kind[i]) /\ R[k].refs \cap Gone(R, i) # {}
<1>. DEFINE C == Cascaded(R, {i})
<1>1. C = {i} \cup {m \in Listed(R) : Kind[m] \notin SetNull /\ R[m].refs \cap {i} # {}}
  BY DEF Cascaded
<1>2. Gone(R, i) = C \cup {m \in Listed(R) : Kind[m] \notin SetNull /\ R[m].refs \cap C # {}}
  BY DEF Gone, Cascaded
<1>. HIDE DEF C
<1>3. ASSUME NEW m \in C, m # i PROVE m \in Ids /\ Kind[m] \in Below(Kind[i]) /\ i \in R[m].refs
  <2>1. m \in Ids /\ Kind[m] \notin SetNull /\ i \in R[m].refs BY <1>1, <1>3 DEF Listed
  <2>2. Kind[i] \in Parents[Kind[m]] BY <2>1, Refers
  <2>. QED BY <2>1, <2>2, KindType, CascadeKinds
<1>4. CASE k \in C BY <1>1, <1>2, <1>3, <1>4
<1>5. CASE k \notin C
  <2>1. k \in Ids /\ Kind[k] \notin SetNull /\ R[k].refs \cap C # {} BY <1>2, <1>5 DEF Listed
  <2>2. PICK m \in C : m \in R[k].refs BY <2>1
  <2>3. m # i BY <1>1, <1>2, <1>5, <2>1, <2>2
  <2>4. Kind[m] \in Parents[Kind[k]] BY <2>1, <2>2, Refers
  <2>5. Kind[k] \in Below(Kind[i]) BY <1>3, <2>1, <2>3, <2>4, KindType, CascadeKinds
  <2>. QED BY <1>2, <2>2, <2>5
<1>. QED BY <1>4, <1>5

\* A delete of i changes another row only when that one refers to a row that goes.
LEMMA DeleteChanges ==
  ASSUME NEW R, Rows(R), NEW i \in Ids, NEW k \in Ids, k # i, Deleted(R, i)[k] # R[k]
  PROVE  /\ Kind[k] \in Below(Kind[i]) \cup Orphans(Kind[i])
         /\ \E j \in R[k].refs : j = i \/ Kind[j] \in Below(Kind[i])
<1>1. R \in [Ids -> Row] BY DEF Rows
<1>2. PICK j \in R[k].refs : j \in Gone(R, i)
  <2>1. CASE k \in Gone(R, i) BY <2>1, GoneKinds
  <2>2. CASE k \notin Gone(R, i) BY <1>1, <2>2, DeletedIs
  <2>. QED BY <2>1, <2>2
<1>3. j = i \/ Kind[j] \in Below(Kind[i]) BY <1>2, GoneKinds
<1>4. j \in Ids /\ R[k].status = "LISTED" /\ Kind[j] \in Parents[Kind[k]] BY Refers
<1>5. Kind[k] \in Below(Kind[i]) \cup Orphans(Kind[i])
  BY <1>3, <1>4, KindType, CascadeKinds
<1>. QED BY <1>3, <1>5

\* The tables a write changes rows of.
Touched(op, kind) ==
  IF op = "delete" THEN {kind} \cup Below(kind) \cup Orphans(kind)
  ELSE IF op = "renumber" THEN {"table", "order"}
  ELSE {kind}

\* A link of a section, or an order of a table, stays what it is: it refers to the row s
\* after when it did before, and is not changed when it does.
Keeps(R, Q, s, kind) ==
  \A k \in Ids : Kind[k] = kind =>
    /\ s \in Q[k].refs => s \in R[k].refs
    /\ s \in R[k].refs => Q[k] = R[k]

\* What an operation on row i, of table kind, does to the rows R at most.
Effect(R, Q, op, kind, i) ==
  /\ i \in Ids /\ Kind[i] = kind
  /\ op \in WriterOps
  /\ op = "renumber" => kind = "table"
  /\ op \in {"guest", "password"} => kind = "user"
  /\ op = "stock" => kind = "item"
  /\ op = "bulk" => kind = "section"
  /\ kind = "hours" => op = "update"
  /\ \A k \in Ids : Q[k] # R[k] => /\ Kind[k] \in Touched(op, kind)
                                   /\ Kind[k] = kind /\ op # "renumber" => k = i
  /\ op \in {"update", "delete"} =>
       \A s \in Ids \ {i} :
         /\ Kind[s] = "section" /\ kind = "section" => Keeps(R, Q, s, "sectionItem")
         /\ Kind[s] = "table" /\ kind = "table" => Keeps(R, Q, s, "order")

\* The rows but one stay.
LEMMA OneRowEffect ==
  ASSUME NEW R, NEW Q, NEW i \in Ids, \A k \in Ids \ {i} : Q[k] = R[k],
         NEW op \in {"create", "guest", "update", "password", "stock", "bulk"},
         op \in {"guest", "password"} => Kind[i] = "user", op = "stock" => Kind[i] = "item",
         op = "bulk" => Kind[i] = "section", Kind[i] = "hours" => op = "update"
  PROVE  Effect(R, Q, op, Kind[i], i)
<1>1. \A s : Kind[i] = "section" => Keeps(R, Q, s, "sectionItem") BY DEF Keeps
<1>2. \A s : Kind[i] = "table" => Keeps(R, Q, s, "order") BY DEF Keeps
<1>3. Touched(op, Kind[i]) = {Kind[i]} BY DEF Touched
<1>. QED BY <1>1, <1>2, <1>3 DEF Effect, WriterOps

LEMMA DeleteEffect ==
  ASSUME NEW R, Rows(R), NEW i \in Ids, Kind[i] # "hours", NEW Q, Q = Deleted(R, i)
  PROVE  Effect(R, Q, "delete", Kind[i], i)
<1>1. R \in [Ids -> Row] BY DEF Rows
<1>2. ASSUME NEW k \in Ids, Q[k] # R[k]
      PROVE  Kind[k] \in Touched("delete", Kind[i]) /\ (Kind[k] = Kind[i] => k = i)
  <2>1. CASE k = i BY <2>1 DEF Touched
  <2>2. CASE k # i
    <3>1. Kind[k] \in Below(Kind[i]) \cup Orphans(Kind[i]) BY <1>2, <2>2, DeleteChanges
    <3>2. Kind[i] \notin Below(Kind[i]) \cup Orphans(Kind[i])
      BY KindType, CascadeKinds DEF Orphans
    <3>. QED BY <3>1, <3>2 DEF Touched
  <2>. QED BY <2>1, <2>2
<1>3. \A k \in Ids : Q[k].refs \subseteq R[k].refs BY <1>1, DeletedIs
<1>4. ASSUME NEW s \in Ids \ {i}, Kind[s] = Kind[i], NEW kind,
             \/ Kind[i] = "section" /\ kind = "sectionItem"
             \/ Kind[i] = "table" /\ kind = "order"
      PROVE  Keeps(R, Q, s, kind)
  <2>1. ASSUME NEW k \in Ids, Kind[k] = kind, s \in R[k].refs, Q[k] # R[k] PROVE FALSE
    <3>1. PICK j \in R[k].refs : j = i \/ Kind[j] \in Below(Kind[i])
      BY <1>4, <2>1, DeleteChanges
    <3>2. Kind[j] \notin Below(Kind[i]) BY <1>4, <2>1, Refers, KindFacts DEF Below
    <3>. QED BY <1>4, <2>1, <3>1, <3>2, Refers
  <2>. QED BY <1>3, <2>1 DEF Keeps
<1>. QED BY <1>2, <1>4 DEF Effect, WriterOps

LEMMA RenumberEffect ==
  ASSUME NEW R, Rows(R), NEW i \in Ids, NEW j \in Ids, i # j, Kind[i] = "table",
         Kind[j] = "table", NEW Q, Q = Renumbered(R, i, j)
  PROVE  Effect(R, Q, "renumber", Kind[i], i)
<1>1. R \in [Ids -> Row] BY DEF Rows
<1>2. ASSUME NEW k \in Ids, Q[k] # R[k] PROVE Kind[k] \in {"table", "order"}
  <2>1. CASE k \in {i, j} BY <2>1
  <2>2. CASE k \notin {i, j}
    <3>1. i \in R[k].refs BY <1>1, <1>2, <2>2, RenumberedIs
    <3>2. "table" \in Parents[Kind[k]] BY <3>1, Refers
    <3>. QED BY <3>2, KindType, KindFacts DEF Kinds
  <2>. QED BY <2>1, <2>2
<1>. QED BY <1>2 DEF Effect, WriterOps, Touched

LEMMA WriteEffect ==
  ASSUME NEW R, Rows(R), NEW w, IsWrite(R, w)
  PROVE  Effect(R, After(R, w), w.op, Kind[w.row], w.row)
<1>1. w.row \in Ids BY DEF IsWrite
<1>2. CASE w.op \in Stays \cup Makes
  <2>1. \A k \in Ids \ {w.row} : After(R, w)[k] = R[k] BY <1>2, AfterIs
  <2>. QED BY <1>1, <1>2, <2>1, OneRowEffect DEF IsWrite, Stays, Makes
<1>3. CASE w.op = "delete"
  <2>1. After(R, w) = Deleted(R, w.row) BY <1>3, AfterIs
  <2>. QED BY <1>1, <1>3, <2>1, DeleteEffect DEF IsWrite
<1>4. CASE w.op = "renumber"
  <2>1. PICK j \in Ids : /\ Kind[j] = "table" /\ R[j].status # "LISTED"
                         /\ After(R, w) = Renumbered(R, w.row, j)
    BY <1>4, AfterIs
  <2>2. w.row # j /\ Kind[w.row] = "table" BY <1>4, <2>1 DEF IsWrite, Makes
  <2>. QED BY <1>1, <1>4, <2>1, <2>2, RenumberEffect
<1>. QED BY <1>2, <1>3, <1>4 DEF IsWrite, Stays, Makes

-----------------------------------------------------------------------------
(***************************************************************************)
(* The answers that stay what they are.                                    *)
(***************************************************************************)

\* The rows of the tables kinds are those of before.
Same(R, Q, kinds) == \A k \in Ids : Kind[k] \in kinds => Q[k] = R[k]

\* The rows S are those of before.
Still(R, Q, S) == S \subseteq Ids /\ \A k \in S : Q[k] = R[k]

LEMMA AnswerSame ==
  ASSUME NEW R, NEW Q, NEW key, Shows(Q, key) = Shows(R, key), Still(R, Q, Shows(R, key))
  PROVE  Answer(Q, key) = Answer(R, key)
<1>1. \A i \in Shows(R, key) : <<i, Q[i].ver>> = <<i, R[i].ver>> BY DEF Still
<1>. QED BY <1>1 DEF Answer

LEMMA ListedSame ==
  ASSUME NEW R, NEW Q, NEW kind \in Kinds, Same(R, Q, {kind})
  PROVE  ListedOf(Q, kind) = ListedOf(R, kind) /\ Still(R, Q, ListedOf(R, kind))
<1>1. \A i \in Table[kind] : i \in Ids /\ Q[i] = R[i] BY TableIs DEF Same
<1>. QED BY <1>1 DEF ListedOf, Still

LEMMA ReferringSame ==
  ASSUME NEW R, NEW Q, NEW kind \in Kinds, Same(R, Q, {kind}), NEW S
  PROVE  Referring(Q, S, kind) = Referring(R, S, kind) /\ Still(R, Q, Referring(R, S, kind))
<1>1. \A i \in Table[kind] : i \in Ids /\ Q[i] = R[i] BY TableIs DEF Same
<1>. QED BY <1>1 DEF Referring, Still

LEMMA TargetsSame ==
  ASSUME NEW R, NEW Q, NEW kind \in Kinds, Same(R, Q, {kind}), NEW S, Still(R, Q, S)
  PROVE  Targets(Q, S, kind) = Targets(R, S, kind) /\ Still(R, Q, Targets(R, S, kind))
<1>1. \A i \in Table[kind] : i \in Ids /\ Q[i] = R[i] BY TableIs DEF Same
<1>2. \A s \in S : Q[s] = R[s] BY DEF Still
<1>. QED BY <1>1, <1>2 DEF Targets, Still

\* Rows that refer to s, when those keep what they are.
LEMMA KeptSame ==
  ASSUME NEW R, NEW Q, NEW kind \in Kinds, NEW s, Keeps(R, Q, s, kind)
  PROVE  /\ Referring(Q, {s}, kind) = Referring(R, {s}, kind)
         /\ Still(R, Q, Referring(R, {s}, kind))
<1>1. \A i \in Table[kind] : i \in Ids /\ Kind[i] = kind BY TableIs
<1>2. \A i \in Table[kind] : /\ s \in Q[i].refs => s \in R[i].refs
                             /\ s \in R[i].refs => Q[i] = R[i]
  BY <1>1 DEF Keeps
<1>3. \A A : A \cap {s} # {} <=> s \in A OBVIOUS
<1>. QED BY <1>1, <1>2, <1>3 DEF Referring, Still

\* Items, their stations and their packets.
ItemKinds == {"item", "station", "packetSection", "choice"}

LEMMA SamePart == \A R, Q, A, B : Same(R, Q, A) /\ B \subseteq A => Same(R, Q, B)
  BY DEF Same

LEMMA ItemsSame ==
  ASSUME NEW R, NEW Q, Same(R, Q, ItemKinds), NEW S, Still(R, Q, S)
  PROVE  ItemsAnswer(Q, S) = ItemsAnswer(R, S) /\ Still(R, Q, ItemsAnswer(R, S))
<1>. DEFINE packets == Referring(R, S, "packetSection")
            choices == Referring(R, packets, "choice")
<1>1. /\ Same(R, Q, {"item"}) /\ Same(R, Q, {"station"}) /\ Same(R, Q, {"packetSection"})
      /\ Same(R, Q, {"choice"})
  BY SamePart DEF ItemKinds
<1>2. {"item", "station", "packetSection", "choice"} \subseteq Kinds BY DEF Kinds
<1>3. Referring(Q, S, "packetSection") = packets /\ Still(R, Q, packets)
  BY <1>1, <1>2, ReferringSame
<1>4. Referring(Q, packets, "choice") = choices /\ Still(R, Q, choices)
  BY <1>1, <1>2, ReferringSame
<1>. HIDE DEF packets, choices
<1>5. /\ Targets(Q, S, "station") = Targets(R, S, "station") /\ Still(R, Q, Targets(R, S, "station"))
      /\ Targets(Q, choices, "item") = Targets(R, choices, "item")
      /\ Still(R, Q, Targets(R, choices, "item"))
  BY <1>1, <1>2, <1>4, TargetsSame
<1>6. ItemsAnswer(Q, S) = S \cup Targets(Q, S, "station") \cup packets \cup choices
                            \cup Targets(Q, choices, "item")
  BY <1>3, <1>4 DEF ItemsAnswer
<1>7. ItemsAnswer(R, S) = S \cup Targets(R, S, "station") \cup packets \cup choices
                            \cup Targets(R, choices, "item")
  BY DEF ItemsAnswer, packets, choices
<1>8. ItemsAnswer(Q, S) = ItemsAnswer(R, S) BY <1>5, <1>6, <1>7
<1>9. Still(R, Q, ItemsAnswer(R, S)) BY <1>3, <1>4, <1>5, <1>7 DEF Still
<1>. QED BY <1>8, <1>9

LEMMA UsersSame ==
  ASSUME NEW R, NEW Q, Same(R, Q, {"station"}), NEW S, Still(R, Q, S)
  PROVE  UsersAnswer(Q, S) = UsersAnswer(R, S) /\ Still(R, Q, UsersAnswer(R, S))
<1>1. Targets(Q, S, "station") = Targets(R, S, "station") /\ Still(R, Q, Targets(R, S, "station"))
  BY TargetsSame DEF Kinds
<1>. QED BY <1>1 DEF UsersAnswer, Still

LEMMA ItemDetailsSame ==
  ASSUME NEW R, NEW Q, Same(R, Q, ItemKinds \cup {"sectionItem", "section"}),
         NEW i \in Ids, Q[i] = R[i]
  PROVE  ItemDetails(Q, i) = ItemDetails(R, i) /\ Still(R, Q, ItemDetails(R, i))
<1>. DEFINE links == Referring(R, {i}, "sectionItem")
<1>1. Same(R, Q, ItemKinds) /\ Same(R, Q, {"sectionItem"}) /\ Same(R, Q, {"section"})
  BY SamePart
<1>2. Still(R, Q, {i}) BY DEF Still
<1>3. Referring(Q, {i}, "sectionItem") = links /\ Still(R, Q, links)
  BY <1>1, ReferringSame DEF Kinds
<1>4. ItemsAnswer(Q, {i}) = ItemsAnswer(R, {i}) /\ Still(R, Q, ItemsAnswer(R, {i}))
  BY <1>1, <1>2, ItemsSame
<1>. HIDE DEF links
<1>5. Targets(Q, links, "section") = Targets(R, links, "section") /\ Still(R, Q, Targets(R, links, "section"))
  BY <1>1, <1>3, TargetsSame DEF Kinds
<1>6. ItemDetails(Q, i) = ItemsAnswer(Q, {i}) \cup links \cup Targets(Q, links, "section")
  BY <1>3 DEF ItemDetails
<1>7. ItemDetails(R, i) = ItemsAnswer(R, {i}) \cup links \cup Targets(R, links, "section")
  BY DEF ItemDetails, links
<1>. QED BY <1>3, <1>4, <1>5, <1>6, <1>7 DEF Still

LEMMA SectionDetailsSame ==
  ASSUME NEW R, NEW Q, Same(R, Q, ItemKinds \cup {"menu"}), NEW s \in Ids, Q[s] = R[s],
         Keeps(R, Q, s, "sectionItem")
  PROVE  SectionDetails(Q, s) = SectionDetails(R, s) /\ Still(R, Q, SectionDetails(R, s))
<1>. DEFINE links == Referring(R, {s}, "sectionItem")
            items == Targets(R, links, "item")
<1>1. Same(R, Q, ItemKinds) /\ Same(R, Q, {"menu"}) /\ Same(R, Q, {"item"})
  BY SamePart DEF ItemKinds
<1>2. Still(R, Q, {s}) BY DEF Still
<1>3. Referring(Q, {s}, "sectionItem") = links /\ Still(R, Q, links) BY KeptSame DEF Kinds
<1>. HIDE DEF links
<1>4. Targets(Q, links, "item") = items /\ Still(R, Q, items) BY <1>1, <1>3, TargetsSame DEF Kinds
<1>5. Targets(Q, {s}, "menu") = Targets(R, {s}, "menu") /\ Still(R, Q, Targets(R, {s}, "menu"))
  BY <1>1, <1>2, TargetsSame DEF Kinds
<1>. HIDE DEF items
<1>6. ItemsAnswer(Q, items) = ItemsAnswer(R, items) /\ Still(R, Q, ItemsAnswer(R, items))
  BY <1>1, <1>4, ItemsSame
<1>7. SectionDetails(Q, s) = {s} \cup Targets(Q, {s}, "menu") \cup links \cup ItemsAnswer(Q, items)
  BY <1>3, <1>4 DEF SectionDetails
<1>8. SectionDetails(R, s) = {s} \cup Targets(R, {s}, "menu") \cup links \cup ItemsAnswer(R, items)
  BY DEF SectionDetails, links, items
<1>. QED BY <1>2, <1>3, <1>5, <1>6, <1>7, <1>8 DEF Still

LEMMA TableDetailsSame ==
  ASSUME NEW R, NEW Q, NEW i \in Ids, Q[i] = R[i], Keeps(R, Q, i, "order")
  PROVE  TableDetails(Q, i) = TableDetails(R, i) /\ Still(R, Q, TableDetails(R, i))
<1>1. Referring(Q, {i}, "order") = Referring(R, {i}, "order") /\ Still(R, Q, Referring(R, {i}, "order"))
  BY KeptSame DEF Kinds
<1>. QED BY <1>1 DEF TableDetails, Still

\* The lists.
IsList(key) == key.rest \in {"all", "for-shift", ""}

ListKinds(kind) == CASE kind = "item" -> ItemKinds
                     [] kind = "user" -> {"user", "station"}
                     [] OTHER         -> {kind}

LEMMA ListSame ==
  ASSUME NEW R, NEW Q, NEW key \in Keys, IsList(key), Same(R, Q, ListKinds(key.kind))
  PROVE  Answer(Q, key) = Answer(R, key)
<1>. DEFINE all == ListedOf(R, key.kind)
<1>1. key.kind \in Kinds /\ key.kind \in ListKinds(key.kind)
  BY KeyFields, CachedKinds DEF ListKinds, ItemKinds
<1>2. ListedOf(Q, key.kind) = all /\ Still(R, Q, all)
  BY <1>1, SamePart, ListedSame
<1>. HIDE DEF all
<1>3. CASE key.kind = "item"
  <2>1. Same(R, Q, ItemKinds) BY <1>3 DEF ListKinds
  <2>2. ItemsAnswer(Q, all) = ItemsAnswer(R, all) /\ Still(R, Q, ItemsAnswer(R, all))
    BY <1>2, <2>1, ItemsSame
  <2>3. Shows(Q, key) = ItemsAnswer(Q, all) BY <1>2, <1>3 DEF Shows, IsList
  <2>4. Shows(R, key) = ItemsAnswer(R, all) BY <1>3 DEF Shows, IsList, all
  <2>. QED BY <2>2, <2>3, <2>4, AnswerSame
<1>4. CASE key.kind = "user"
  <2>1. Same(R, Q, {"station"}) BY <1>4, SamePart DEF ListKinds
  <2>2. UsersAnswer(Q, all) = UsersAnswer(R, all) /\ Still(R, Q, UsersAnswer(R, all))
    BY <1>2, <2>1, UsersSame
  <2>3. Shows(Q, key) = UsersAnswer(Q, all) BY <1>2, <1>4 DEF Shows, IsList
  <2>4. Shows(R, key) = UsersAnswer(R, all) BY <1>4 DEF Shows, IsList, all
  <2>. QED BY <2>2, <2>3, <2>4, AnswerSame
<1>5. CASE key.kind \notin {"item", "user"}
  <2>1. Shows(Q, key) = all BY <1>2, <1>5 DEF Shows, IsList
  <2>2. Shows(R, key) = all BY <1>5 DEF Shows, IsList, all
  <2>. QED BY <1>2, <2>1, <2>2, AnswerSame
<1>. QED BY <1>3, <1>4, <1>5

\* The details of a row: the answer is the same when what it shows besides is.
LEMMA DetailsSame ==
  ASSUME NEW R, NEW Q, NEW key \in Keys, key.rest \in Ids, Q[key.rest] = R[key.rest],
         key.kind = "section" =>
           Same(R, Q, ItemKinds \cup {"menu"}) /\ Keeps(R, Q, key.rest, "sectionItem"),
         key.kind = "item" => Same(R, Q, ItemKinds \cup {"sectionItem", "section"}),
         key.kind = "table" => Keeps(R, Q, key.rest, "order"),
         key.kind = "user" => Same(R, Q, {"station"})
  PROVE  Answer(Q, key) = Answer(R, key)
<1>. DEFINE i == key.rest
            one(X) == {i} \cap ListedOf(X, key.kind)
<1>1. ~IsList(key) BY CacheAssumption DEF IsList
<1>2. one(Q) = one(R) BY DEF ListedOf
<1>3. Still(R, Q, {i}) /\ Still(R, Q, {}) BY DEF Still
<1>4. CASE one(R) = {}
  <2>1. Shows(Q, key) = {} /\ Shows(R, key) = {} BY <1>1, <1>2, <1>4 DEF Shows, IsList
  <2>. QED BY <1>3, <2>1, AnswerSame
<1>5. CASE one(R) # {}
  <2>1. one(R) = {i} /\ one(Q) = {i} BY <1>2, <1>5
  <2>. HIDE DEF one
  <2>2. \A X \in {R, Q} : one(X) = {key.rest} \cap ListedOf(X, key.kind) BY DEF one
  <2>3. CASE key.kind = "section"
    <3>1. \A X \in {R, Q} : Shows(X, key) = SectionDetails(X, i)
      BY <1>1, <2>1, <2>2, <2>3 DEF Shows, IsList
    <3>2. SectionDetails(Q, i) = SectionDetails(R, i) /\ Still(R, Q, SectionDetails(R, i))
      BY <2>3, SectionDetailsSame
    <3>. QED BY <3>1, <3>2, AnswerSame
  <2>4. CASE key.kind = "item"
    <3>1. \A X \in {R, Q} : Shows(X, key) = ItemDetails(X, i)
      BY <1>1, <2>1, <2>2, <2>4 DEF Shows, IsList
    <3>2. ItemDetails(Q, i) = ItemDetails(R, i) /\ Still(R, Q, ItemDetails(R, i))
      BY <2>4, ItemDetailsSame
    <3>. QED BY <3>1, <3>2, AnswerSame
  <2>5. CASE key.kind = "table"
    <3>1. \A X \in {R, Q} : Shows(X, key) = TableDetails(X, i)
      BY <1>1, <2>1, <2>2, <2>5 DEF Shows, IsList
    <3>2. TableDetails(Q, i) = TableDetails(R, i) /\ Still(R, Q, TableDetails(R, i))
      BY <2>5, TableDetailsSame
    <3>. QED BY <3>1, <3>2, AnswerSame
  <2>6. CASE key.kind = "user"
    <3>1. \A X \in {R, Q} : Shows(X, key) = UsersAnswer(X, {i})
      BY <1>1, <2>1, <2>2, <2>6 DEF Shows, IsList
    <3>2. UsersAnswer(Q, {i}) = UsersAnswer(R, {i}) /\ Still(R, Q, UsersAnswer(R, {i}))
      BY <1>3, <2>6, UsersSame
    <3>. QED BY <3>1, <3>2, AnswerSame
  <2>7. CASE key.kind \notin {"section", "item", "table", "user"}
    <3>1. \A X \in {R, Q} : Shows(X, key) = {i} BY <1>1, <2>1, <2>2, <2>7 DEF Shows, IsList
    <3>. QED BY <1>3, <3>1, AnswerSame
  <2>. QED BY <2>3, <2>4, <2>5, <2>6, <2>7
<1>. QED BY <1>4, <1>5

-----------------------------------------------------------------------------
(***************************************************************************)
(* Which writes name a key, and which do not.                              *)
(***************************************************************************)

\* A key that is not named: what its names are not.
LEMMA NotNamed ==
  ASSUME NEW names, NEW key \in Keys, ~Named(names, key)
  PROVE  /\ Every(key.kind) \notin names
         /\ Prefix(key.kind, key.rest) \notin names
         /\ Exact(key.kind, key.rest) \in names => key.query
<1>1. Matches(Every(key.kind), key) BY DEF Matches, Every
<1>2. Matches(Prefix(key.kind, key.rest), key) BY DEF Matches, Prefix
<1>3. ~key.query => Matches(Exact(key.kind, key.rest), key) BY DEF Matches, Exact
<1>. QED BY <1>1, <1>2, <1>3 DEF Named

LEMMA ByHas == \A ops, kinds : \A op \in ops : \A kind \in kinds : [op |-> op, kind |-> kind] \in By(ops, kinds)
  BY DEF By

\* The writes that are excused, clause by clause.
LEMMA Excused ==
  ASSUME NEW key \in Keys, NEW op, NEW kind,
         \/ key.query /\ op \in Ops /\ kind = key.kind
              /\ (key.kind = "menu" \/ key.rest \in Ids \/ key.kind = "hours")
         \/ key.rest \in Ids /\ op = "create" /\ kind = key.kind
         \/ key.kind \in {"item", "section", "user"} /\ op \in Ops /\ kind = "station"
         \/ key.kind \in {"item", "section"} /\ op = "stock" /\ kind = "item"
         \/ key.kind = "section" /\ op = "delete" /\ kind = "menu"
         \/ key.kind = "section" /\ key.rest \in Ids /\ op \in Ops /\ kind = "menu"
         \/ key.kind = "section" /\ key.rest \in Ids /\ op = "bulk" /\ kind = "section"
         \/ key.kind = "section" /\ key.rest \in Ids /\ key.query /\ op \in Ops /\ kind = "sectionItem"
         \/ key.kind = "item" /\ key.rest \in Ids /\ op \in Ops /\ kind \in {"menu", "section", "sectionItem"}
         \/ key.kind = "item" /\ key.rest \in Ids /\ op = "bulk" /\ kind = "section"
         \/ key.kind = "table" /\ key.rest \in Ids /\ op \in Ops /\ kind \in {"order", "user"}
         \/ key.kind = "table" /\ key.rest \in Ids /\ op = "renumber" /\ kind = "table"
         \/ key.kind = "user" /\ op \in {"guest", "password"} /\ kind = "user"
         \/ key.rest = "for-shift" /\ op = "create" /\ kind = "user"
  PROVE  [op |-> op, kind |-> kind] \in Unnamed(key)
<1>. DEFINE w == [op |-> op, kind |-> kind]
            details == key.rest \in Ids
            A1 == IF key.query /\ (key.kind = "menu" \/ details \/ key.kind = "hours")
                    THEN By(Ops, {key.kind}) ELSE {}
            A2 == IF details THEN By({"create"}, {key.kind}) ELSE {}
            A3 == IF key.kind \in {"item", "section", "user"} THEN By(Ops, {"station"}) ELSE {}
            A4 == IF key.kind \in {"item", "section"} THEN By({"stock"}, {"item"}) ELSE {}
            A5 == IF key.kind = "section" THEN By({"delete"}, {"menu"}) ELSE {}
            A6 == IF key.kind = "section" /\ details
                    THEN By(Ops, {"menu"}) \cup By({"bulk"}, {"section"}) \cup
                         (IF key.query THEN By(Ops, {"sectionItem"}) ELSE {}) ELSE {}
            A7 == IF key.kind = "item" /\ details
                    THEN By(Ops, {"menu", "section", "sectionItem"}) \cup By({"bulk"}, {"section"}) ELSE {}
            A8 == IF key.kind = "table" /\ details
                    THEN By(Ops, {"order", "user"}) \cup By({"renumber"}, {"table"}) ELSE {}
            A9 == IF key.kind = "user" THEN By({"guest", "password"}, {"user"}) ELSE {}
            A10 == IF key.rest = "for-shift" THEN By({"create"}, {"user"}) ELSE {}
<1>1. Unnamed(key) = UNION {A1, A2, A3, A4, A5, A6, A7, A8, A9, A10} BY DEF Unnamed
<1>2. \A o, k : /\ op \in Ops => w \in By(Ops, {kind})
                /\ w \in By({op}, {kind})
                /\ op \in Ops /\ kind \in {o, k} => w \in By(Ops, {o, k})
  BY ByHas
<1>3. op \in Ops /\ kind \in {"menu", "section", "sectionItem"} => w \in By(Ops, {"menu", "section", "sectionItem"})
  BY ByHas
<1>6. op \in {"guest", "password"} => w \in By({"guest", "password"}, {kind}) BY ByHas
<1>. HIDE DEF w
<1>4. w \in A1 \/ w \in A2 \/ w \in A3 \/ w \in A4 \/ w \in A5 \/ w \in A6 \/ w \in A7 \/ w \in A8
        \/ w \in A9 \/ w \in A10
  BY <1>2, <1>3, <1>6
<1>. HIDE DEF A1, A2, A3, A4, A5, A6, A7, A8, A9, A10
<1>5. w \in Unnamed(key) BY <1>1, <1>4
<1>. QED BY <1>5 DEF w

\* The names of a write, at least.
Naming(op, kind, i, names) ==
  /\ op # "stock" =>
       /\ kind = "menu" => MenuNames(op, i) \subseteq names
       /\ kind = "station" => StationNames(op, i) \subseteq names
       /\ kind = "table" => TableNames(op, i) \subseteq names
       /\ kind = "adjustment" => AdjustmentNames(op) \subseteq names
       /\ kind = "additional" => AdditionalNames(op) \subseteq names
       /\ kind = "user" => UserNames(op) \subseteq names
       /\ kind = "hours" => HoursNames \subseteq names
       /\ kind \in {"item", "packetSection", "choice"} => ItemNames \subseteq names
  /\ kind = "section" => IF op = "bulk" THEN BulkNames \subseteq names
                         ELSE SectionNames(op, i) \subseteq names

\* A link that is written: it is in the section its write is named after, before and after.
Linking(R, Q, kind, i, names) ==
  kind = "sectionItem" =>
    \E s \in Ids : /\ SectionNames("update", s) \subseteq names
                   /\ \A t \in R[i].refs \cup Q[i].refs : Kind[t] = "section" => t = s

\* An answer that changes shows a row that changes.
Changes(R, Q, key) == Answer(Q, key) # Answer(R, key)

\* What may be assumed of a write whose route does not name a key it changes the answer to.
Misses(R, Q, op, kind, i, names, key) ==
  /\ Effect(R, Q, op, kind, i) /\ Naming(op, kind, i, names) /\ Linking(R, Q, kind, i, names)
  /\ Changes(R, Q, key) /\ ~Named(names, key)

LEMMA TouchedKinds ==
  \A op : \A kind \in Kinds :
    /\ "menu" \in Touched(op, kind) => kind = "menu" \/ op = "renumber"
    /\ "station" \in Touched(op, kind) => kind = "station" \/ op = "renumber"
    /\ "adjustment" \in Touched(op, kind) => kind = "adjustment" \/ op = "renumber"
    /\ "additional" \in Touched(op, kind) => kind = "additional" \/ op = "renumber"
    /\ "hours" \in Touched(op, kind) => kind = "hours" \/ op = "renumber"
    /\ "table" \in Touched(op, kind) => kind = "table" \/ op = "renumber"
    /\ "user" \in Touched(op, kind) => \/ kind = "user" \/ op = "renumber"
                                       \/ kind = "station" /\ op = "delete"
    /\ "section" \in Touched(op, kind) => \/ kind = "section" \/ op = "renumber"
                                          \/ kind = "menu" /\ op = "delete"
    /\ "sectionItem" \in Touched(op, kind) => \/ kind = "sectionItem" \/ op = "renumber"
                                              \/ kind \in {"menu", "section", "item"} /\ op = "delete"
    /\ "order" \in Touched(op, kind) => \/ kind = "order" \/ op = "renumber"
                                        \/ kind \in {"table", "user"} /\ op = "delete"
    /\ "item" \in Touched(op, kind) => \/ kind = "item" \/ op = "renumber"
                                       \/ kind = "station" /\ op = "delete"
    /\ "packetSection" \in Touched(op, kind) => \/ kind = "packetSection" \/ op = "renumber"
                                                \/ kind \in {"item", "station"} /\ op = "delete"
    /\ "choice" \in Touched(op, kind) => \/ kind = "choice" \/ op = "renumber"
                                         \/ kind \in {"item", "station", "packetSection"} /\ op = "delete"
    /\ Touched("renumber", kind) = {"table", "order"}
<1>1. ASSUME NEW op, NEW kind \in Kinds, op = "delete", NEW k \in Touched(op, kind)
      PROVE  \/ k = kind
             \/ kind = "menu" /\ k \in {"section", "sectionItem"}
             \/ kind = "section" /\ k = "sectionItem"
             \/ kind = "item" /\ k \in {"sectionItem", "packetSection", "choice"}
             \/ kind = "station" /\ k \in {"packetSection", "choice", "item", "user"}
             \/ kind = "packetSection" /\ k = "choice"
             \/ kind \in {"table", "user"} /\ k = "order"
  BY <1>1 DEF Touched, Below, Orphans, Kinds
<1>2. ASSUME NEW op, NEW kind, op \notin {"delete", "renumber"}, NEW k \in Touched(op, kind)
      PROVE  k = kind
  BY <1>2 DEF Touched
<1>3. \A kind : Touched("renumber", kind) = {"table", "order"} BY DEF Touched
<1>. QED BY <1>1, <1>2, <1>3

LEMMA ListTouched ==
  ASSUME NEW R, NEW Q, NEW op, NEW kind, NEW i, NEW names, NEW key \in Keys,
         Misses(R, Q, op, kind, i, names, key), IsList(key)
  PROVE  \E k \in ListKinds(key.kind) : k \in Touched(op, kind)
<1>1. PICK k \in Ids : Kind[k] \in ListKinds(key.kind) /\ Q[k] # R[k]
  BY ListSame DEF Misses, Changes, Same
<1>. QED BY <1>1 DEF Misses, Effect

\* The row itself, when nothing else is shown.
LEMMA RowTouched ==
  ASSUME NEW R, NEW Q, NEW op, NEW kind, NEW i, NEW names, NEW key \in Keys,
         Misses(R, Q, op, kind, i, names, key), key.rest \in Ids,
         Q[key.rest] # R[key.rest]
  PROVE  /\ key.kind \in Touched(op, kind)
         /\ kind = key.kind /\ op # "renumber" => key.rest = i
<1>1. Kind[key.rest] = key.kind BY KeyFields, CacheAssumption
<1>. QED BY <1>1 DEF Misses, Effect

\* What the operations are, and the keys.
Plain(op, kind, i, key) ==
  /\ i \in Ids /\ Kind[i] = kind /\ kind \in Kinds
  /\ op \in Ops \cup {"guest", "password", "stock", "bulk"}
  /\ op = "renumber" => kind = "table"
  /\ op \in {"guest", "password"} => kind = "user"
  /\ op = "stock" => kind = "item"
  /\ op = "bulk" => kind = "section"
  /\ kind = "hours" => op = "update"
  /\ IF IsList(key) THEN \/ key.rest = "all" /\ key.kind # "hours"
                         \/ key.rest = "for-shift" /\ key.kind = "user"
                         \/ key.rest = "" /\ key.kind = "hours"
     ELSE key.rest \in Ids /\ key.kind # "hours"

LEMMA MissesPlain ==
  ASSUME NEW R, NEW Q, NEW op, NEW kind, NEW i, NEW names, NEW key \in Keys,
         Misses(R, Q, op, kind, i, names, key)
  PROVE  Plain(op, kind, i, key)
<1>1. i \in Ids /\ Kind[i] = kind /\ kind \in Kinds BY KindType DEF Misses, Effect
<1>2. op \in Ops \cup {"guest", "password", "stock", "bulk"} BY DEF Misses, Effect, WriterOps, Ops
<1>3. /\ op = "renumber" => kind = "table"
      /\ op \in {"guest", "password"} => kind = "user"
      /\ op = "stock" => kind = "item"
      /\ op = "bulk" => kind = "section"
      /\ kind = "hours" => op = "update"
  BY DEF Misses, Effect
<1>4. IF IsList(key)
      THEN \/ key.rest = "all" /\ key.kind # "hours"
           \/ key.rest = "for-shift" /\ key.kind = "user"
           \/ key.rest = "" /\ key.kind = "hours"
      ELSE key.rest \in Ids /\ key.kind # "hours"
  <2>1. key.rest \in Ids => ~IsList(key) BY CacheAssumption DEF IsList
  <2>2. key.rest \in {"all", "for-shift", ""} <=> IsList(key) BY DEF IsList
  <2>. QED BY <2>1, <2>2, KeyFields
<1>. QED BY <1>1, <1>2, <1>3, <1>4 DEF Plain

\* The keys whose details show the row and no other.
LEMMA CoverSimple ==
  ASSUME NEW R, NEW Q, NEW op, NEW kind, NEW i, NEW names, NEW key \in Keys,
         Misses(R, Q, op, kind, i, names, key),
         key.kind \in {"menu", "station", "adjustment", "additional", "hours"}
  PROVE  [op |-> op, kind |-> kind] \in Unnamed(key)
<1>0. Plain(op, kind, i, key) BY MissesPlain
<1>1. ~IsList(key) => key.rest \in Ids /\ Q[key.rest] # R[key.rest]
  <2>1. ~IsList(key) => key.rest \in Ids BY <1>0 DEF Plain
  <2>2. Answer(Q, key) # Answer(R, key) BY DEF Misses, Changes
  <2>. QED BY <2>1, <2>2, DetailsSame
<1>2. key.kind \in Touched(op, kind)
  <2>1. CASE IsList(key)
    <3>1. ListKinds(key.kind) = {key.kind} BY DEF ListKinds
    <3>. QED BY <2>1, <3>1, ListTouched
  <2>2. CASE ~IsList(key) BY <1>1, <2>2, RowTouched
  <2>. QED BY <2>1, <2>2
<1>3. kind = key.kind
  <2>1. kind \in Kinds /\ (op = "renumber" => kind = "table") BY <1>0 DEF Plain
  <2>2. op # "renumber" BY <1>2, <2>1, TouchedKinds
  <2>. QED BY <1>2, <2>1, <2>2, TouchedKinds
<1>4. op \in {"create", "update", "delete"} BY <1>0, <1>3 DEF Ops, Plain
<1>5. ~IsList(key) => key.rest = i BY <1>1, <1>3, <1>4, RowTouched
<1>6. /\ Every(key.kind) \notin names /\ Prefix(key.kind, key.rest) \notin names
      /\ Exact(key.kind, key.rest) \in names => key.query
  BY NotNamed DEF Misses
<1>7. op \in Ops /\ op # "stock" /\ Naming(op, kind, i, names) BY <1>4 DEF Ops, Misses
<1>8. CASE kind = "menu"
  <2>1. MenuNames(op, i) \subseteq names BY <1>7, <1>8 DEF Naming
  <2>2. IsList(key) \/ op # "create" => key.query
    BY <1>0, <1>3, <1>5, <1>6, <1>8, <2>1 DEF MenuNames, Plain
  <2>. QED BY <1>1, <1>3, <1>7, <1>8, <2>2, Excused
<1>9. CASE kind = "station"
  <2>1. StationNames(op, i) \subseteq names BY <1>7, <1>9 DEF Naming
  <2>2. ~IsList(key) /\ (op # "create" => key.query)
    BY <1>0, <1>3, <1>5, <1>6, <1>9, <2>1 DEF StationNames, Plain
  <2>. QED BY <1>1, <1>3, <1>7, <2>2, Excused
<1>10. CASE kind = "adjustment"
  <2>1. AdjustmentNames(op) \subseteq names BY <1>7, <1>10 DEF Naming
  <2>2. ~IsList(key) /\ op = "create" BY <1>0, <1>3, <1>6, <1>10, <2>1 DEF AdjustmentNames, Plain
  <2>. QED BY <1>1, <1>3, <2>2, Excused
<1>11. CASE kind = "additional"
  <2>1. AdditionalNames(op) \subseteq names BY <1>7, <1>11 DEF Naming
  <2>2. ~IsList(key) /\ op = "create" BY <1>0, <1>3, <1>6, <1>11, <2>1 DEF AdditionalNames, Plain
  <2>. QED BY <1>1, <1>3, <2>2, Excused
<1>12. CASE kind = "hours"
  <2>1. HoursNames \subseteq names BY <1>7, <1>12 DEF Naming
  <2>2. IsList(key) /\ key.rest = "" BY <1>0, <1>3, <1>12 DEF Plain
  <2>3. key.query BY <1>3, <1>6, <1>12, <2>1, <2>2 DEF HoursNames
  <2>. QED BY <1>3, <1>7, <1>12, <2>3, Excused
<1>. QED BY <1>3, <1>8, <1>9, <1>10, <1>11, <1>12

LEMMA CoverTable ==
  ASSUME NEW R, NEW Q, NEW op, NEW kind, NEW i, NEW names, NEW key \in Keys,
         Misses(R, Q, op, kind, i, names, key), key.kind = "table"
  PROVE  [op |-> op, kind |-> kind] \in Unnamed(key)
<1>0. Plain(op, kind, i, key) BY MissesPlain
<1>1. /\ Prefix("table", key.rest) \notin names
      /\ Exact("table", key.rest) \in names => key.query
  BY NotNamed DEF Misses
<1>2. kind = "table" => TableNames(op, i) \subseteq names
  BY <1>0 DEF Misses, Naming, Plain
<1>3. CASE IsList(key)
  <2>1. "table" \in Touched(op, kind)
    <3>1. ListKinds(key.kind) = {"table"} BY DEF ListKinds
    <3>. QED BY <1>3, <3>1, ListTouched
  <2>2. kind = "table" BY <1>0, <2>1, TouchedKinds DEF Plain
  <2>3. key.rest = "all" BY <1>0, <1>3 DEF Plain
  <2>. QED BY <1>1, <1>2, <2>2, <2>3 DEF TableNames
<1>4. CASE ~IsList(key)
  <2>1. key.rest \in Ids /\ Kind[key.rest] = "table" BY <1>0, <1>4, KeyFields, CacheAssumption DEF Plain
  <2>2. Answer(Q, key) # Answer(R, key) BY DEF Misses, Changes
  <2>3. kind \in Kinds /\ (op = "renumber" => kind = "table") BY <1>0 DEF Plain
  <2>4. kind \in {"table", "order", "user"}
    <3>1. CASE Q[key.rest] # R[key.rest]
      <4>1. "table" \in Touched(op, kind) BY <2>1, <3>1, RowTouched
      <4>. QED BY <2>3, <4>1, TouchedKinds
    <3>2. CASE ~Keeps(R, Q, key.rest, "order")
      <4>1. PICK k \in Ids : Kind[k] = "order" /\ Q[k] # R[k] BY <3>2 DEF Keeps
      <4>2. "order" \in Touched(op, kind) BY <4>1 DEF Misses, Effect
      <4>. QED BY <2>3, <4>2, TouchedKinds
    <3>. QED BY <2>1, <2>2, <3>1, <3>2, DetailsSame
  <2>5. CASE kind \in {"order", "user"} /\ op \in Ops BY <2>1, <2>5, Excused
  <2>6. CASE kind = "user" /\ op \notin Ops
    <3>1. op \in {"guest", "password"} BY <1>0, <2>6 DEF Plain
    <3>2. Touched(op, kind) = {"user"} BY <2>6, <3>1 DEF Touched
    <3>3. \A k \in Ids : Kind[k] \in {"table", "order"} => Q[k] = R[k]
      BY <3>2 DEF Misses, Effect
    <3>4. Q[key.rest] = R[key.rest] /\ Keeps(R, Q, key.rest, "order") BY <2>1, <3>3 DEF Keeps
    <3>. QED BY <2>1, <2>2, <3>4, DetailsSame
  <2>7. CASE kind = "table"
    <3>1. op \in Ops BY <1>0, <2>7 DEF Plain
    <3>2. CASE op = "create" \/ op = "renumber" BY <2>1, <2>7, <3>2, Excused
    <3>3. CASE op \in {"update", "delete"}
      <4>1. CASE key.rest # i
        <5>1. Q[key.rest] = R[key.rest] BY <2>1, <2>7, <3>3, <4>1, RowTouched
        <5>2. Keeps(R, Q, key.rest, "order") BY <2>1, <2>7, <3>3, <4>1 DEF Misses, Effect
        <5>. QED BY <2>1, <2>2, <5>1, <5>2, DetailsSame
      <4>2. CASE key.rest = i
        <5>1. Exact("table", i) \in names BY <1>2, <2>7, <3>3 DEF TableNames
        <5>. QED BY <1>1, <2>1, <2>7, <3>1, <4>2, <5>1, Excused
      <4>. QED BY <4>1, <4>2
    <3>. QED BY <3>1, <3>2, <3>3 DEF Ops
  <2>8. kind = "order" => op \in Ops BY <1>0 DEF Plain
  <2>. QED BY <2>4, <2>5, <2>6, <2>7, <2>8
<1>. QED BY <1>3, <1>4

LEMMA CoverUser ==
  ASSUME NEW R, NEW Q, NEW op, NEW kind, NEW i, NEW names, NEW key \in Keys,
         Misses(R, Q, op, kind, i, names, key), key.kind = "user"
  PROVE  [op |-> op, kind |-> kind] \in Unnamed(key)
<1>0. Plain(op, kind, i, key) BY MissesPlain
<1>1. Every("user") \notin names /\ Prefix("user", key.rest) \notin names
  BY NotNamed DEF Misses
<1>2. kind = "user" => UserNames(op) \subseteq names BY <1>0 DEF Misses, Naming, Plain
<1>3. "user" \in Touched(op, kind) \/ "station" \in Touched(op, kind)
  <2>1. CASE IsList(key)
    <3>1. ListKinds(key.kind) = {"user", "station"} BY DEF ListKinds
    <3>. QED BY <2>1, <3>1, ListTouched
  <2>2. CASE ~IsList(key)
    <3>1. key.rest \in Ids BY <1>0, <2>2 DEF Plain
    <3>2. Answer(Q, key) # Answer(R, key) BY DEF Misses, Changes
    <3>3. CASE Q[key.rest] # R[key.rest] BY <3>1, <3>3, RowTouched
    <3>4. CASE ~Same(R, Q, {"station"}) BY <3>4 DEF Same, Misses, Effect
    <3>. QED BY <3>1, <3>2, <3>3, <3>4, DetailsSame
  <2>. QED BY <2>1, <2>2
<1>4. kind \in {"user", "station"}
  <2>1. kind \in Kinds /\ (op = "renumber" => kind = "table") BY <1>0 DEF Plain
  <2>2. op # "renumber" BY <1>3, <2>1, TouchedKinds
  <2>. QED BY <1>3, <2>1, <2>2, TouchedKinds
<1>5. CASE kind = "station"
  <2>1. op \in Ops BY <1>0, <1>5 DEF Plain
  <2>. QED BY <1>5, <2>1, Excused
<1>6. CASE kind = "user"
  <2>1. op \in {"create", "guest", "password"}
    <3>1. CASE op \notin {"create", "guest", "password"}
      <4>1. Every("user") \in UserNames(op) BY <3>1 DEF UserNames
      <4>. QED BY <1>1, <1>2, <1>6, <4>1
    <3>. QED BY <3>1
  <2>2. CASE op \in {"guest", "password"} BY <1>6, <2>2, Excused
  <2>3. CASE op = "create"
    <3>1. Prefix("user", "all") \in names BY <1>2, <1>6, <2>3 DEF UserNames
    <3>2. key.rest # "all" BY <1>1, <3>1
    <3>3. key.rest \in Ids \/ key.rest = "for-shift" BY <1>0, <3>2 DEF Plain
    <3>. QED BY <1>6, <2>3, <3>3, Excused
  <2>. QED BY <2>1, <2>2, <2>3
<1>. QED BY <1>4, <1>5, <1>6

LEMMA CoverItem ==
  ASSUME NEW R, NEW Q, NEW op, NEW kind, NEW i, NEW names, NEW key \in Keys,
         Misses(R, Q, op, kind, i, names, key), key.kind = "item"
  PROVE  [op |-> op, kind |-> kind] \in Unnamed(key)
<1>0. Plain(op, kind, i, key) BY MissesPlain
<1>1. Every("item") \notin names BY NotNamed DEF Misses
<1>2. kind \in {"item", "packetSection", "choice"} /\ op # "stock" => Every("item") \in names
  BY DEF Misses, Naming, ItemNames
<1>3. kind \in Kinds /\ (op = "renumber" => kind = "table") BY <1>0 DEF Plain
<1>4. \/ kind \in {"item", "packetSection", "choice", "station"}
      \/ ~IsList(key) /\ kind \in {"menu", "section", "sectionItem"}
  <2>1. CASE IsList(key)
    <3>1. ListKinds(key.kind) = ItemKinds BY DEF ListKinds
    <3>2. PICK k \in ItemKinds : k \in Touched(op, kind) BY <2>1, <3>1, ListTouched
    <3>3. op # "renumber" BY <3>2, TouchedKinds, <1>3 DEF ItemKinds
    <3>. QED BY <1>3, <3>2, <3>3, TouchedKinds DEF ItemKinds
  <2>2. CASE ~IsList(key)
    <3>1. key.rest \in Ids BY <1>0, <2>2 DEF Plain
    <3>2. Answer(Q, key) # Answer(R, key) BY DEF Misses, Changes
    <3>3. \E k \in ItemKinds \cup {"sectionItem", "section"} : k \in Touched(op, kind)
      <4>1. CASE Q[key.rest] # R[key.rest] BY <3>1, <4>1, RowTouched DEF ItemKinds
      <4>2. CASE ~Same(R, Q, ItemKinds \cup {"sectionItem", "section"})
        BY <4>2 DEF Same, Misses, Effect
      <4>. QED BY <3>1, <3>2, <4>1, <4>2, DetailsSame
    <3>4. PICK k \in ItemKinds \cup {"sectionItem", "section"} : k \in Touched(op, kind) BY <3>3
    <3>5. op # "renumber" BY <3>4, TouchedKinds, <1>3 DEF ItemKinds
    <3>. QED BY <1>3, <2>2, <3>4, <3>5, TouchedKinds DEF ItemKinds
  <2>. QED BY <2>1, <2>2
<1>5. CASE kind \in {"item", "packetSection", "choice"}
  <2>1. op = "stock" BY <1>1, <1>2, <1>5
  <2>2. kind = "item" BY <1>0, <2>1 DEF Plain
  <2>. QED BY <2>1, <2>2, Excused
<1>6. CASE kind = "station"
  <2>1. op \in Ops BY <1>0, <1>6 DEF Plain
  <2>. QED BY <1>6, <2>1, Excused
<1>7. CASE ~IsList(key) /\ kind \in {"menu", "section", "sectionItem"}
  <2>1. key.rest \in Ids BY <1>0, <1>7 DEF Plain
  <2>2. op \in Ops \/ (op = "bulk" /\ kind = "section") BY <1>0, <1>7 DEF Plain
  <2>. QED BY <1>7, <2>1, <2>2, Excused
<1>. QED BY <1>4, <1>5, <1>6, <1>7

LEMMA CoverSection ==
  ASSUME NEW R, NEW Q, NEW op, NEW kind, NEW i, NEW names, NEW key \in Keys,
         Misses(R, Q, op, kind, i, names, key), key.kind = "section"
  PROVE  [op |-> op, kind |-> kind] \in Unnamed(key)
<1>0. Plain(op, kind, i, key) BY MissesPlain
<1>1. /\ Every("section") \notin names /\ Prefix("section", key.rest) \notin names
      /\ Exact("section", key.rest) \in names => key.query
  BY NotNamed DEF Misses
<1>2. kind \in {"item", "packetSection", "choice"} /\ op # "stock" => Every("section") \in names
  BY DEF Misses, Naming, ItemNames
<1>3. kind = "section" =>
        IF op = "bulk" THEN BulkNames \subseteq names ELSE SectionNames(op, i) \subseteq names
  BY DEF Misses, Naming
<1>4. kind \in Kinds /\ (op = "renumber" => kind = "table") BY <1>0 DEF Plain
<1>5. CASE IsList(key)
  <2>1. ListKinds(key.kind) = {"section"} BY DEF ListKinds
  <2>2. "section" \in Touched(op, kind) BY <1>5, <2>1, ListTouched
  <2>3. op # "renumber" BY <2>2, TouchedKinds, <1>4
  <2>4. kind = "section" \/ (kind = "menu" /\ op = "delete") BY <1>4, <2>2, <2>3, TouchedKinds
  <2>5. key.rest = "all" BY <1>0, <1>5 DEF Plain
  <2>6. kind # "section" BY <1>1, <1>3, <2>5 DEF BulkNames, SectionNames
  <2>. QED BY <2>4, <2>6, Excused
<1>6. CASE ~IsList(key)
  <2>1. key.rest \in Ids /\ Kind[key.rest] = "section"
    BY <1>0, <1>6, KeyFields, CacheAssumption DEF Plain
  <2>2. Answer(Q, key) # Answer(R, key) BY DEF Misses, Changes
  <2>3. CASE kind = "menu"
    <3>1. op \in Ops BY <1>0, <2>3 DEF Plain
    <3>. QED BY <2>1, <2>3, <3>1, Excused
  <2>4. CASE kind \in {"item", "packetSection", "choice"}
    <3>1. op = "stock" BY <1>1, <1>2, <2>4
    <3>2. kind = "item" BY <1>0, <3>1 DEF Plain
    <3>. QED BY <3>1, <3>2, Excused
  <2>5. CASE kind = "station"
    <3>1. op \in Ops BY <1>0, <2>5 DEF Plain
    <3>. QED BY <2>5, <3>1, Excused
  <2>6. CASE kind = "section"
    <3>1. op \in Ops \cup {"bulk"} /\ op # "renumber" BY <1>0, <2>6 DEF Plain
    <3>2. CASE op \in {"create", "bulk"} BY <2>1, <2>6, <3>2, Excused
    <3>3. CASE op \in {"update", "delete"}
      <4>1. CASE key.rest # i
        <5>1. Q[key.rest] = R[key.rest] BY <2>1, <2>6, <3>3, <4>1, RowTouched
        <5>2. Keeps(R, Q, key.rest, "sectionItem")
          BY <2>1, <2>6, <3>3, <4>1 DEF Misses, Effect
        <5>3. Touched(op, kind) \cap (ItemKinds \cup {"menu"}) = {}
          <6>1. \A k \in ItemKinds \cup {"menu"} : k \notin Touched(op, kind)
            BY <1>4, <2>6, <3>3, TouchedKinds DEF ItemKinds
          <6>. QED BY <6>1
        <5>4. Same(R, Q, ItemKinds \cup {"menu"}) BY <5>3 DEF Misses, Effect, Same
        <5>. QED BY <2>1, <2>2, <5>1, <5>2, <5>4, DetailsSame
      <4>2. CASE key.rest = i
        <5>1. Exact("section", i) \in names BY <1>3, <2>6, <3>3 DEF SectionNames
        <5>. QED BY <1>1, <2>1, <2>6, <3>3, <4>2, <5>1, Excused DEF Ops
      <4>. QED BY <4>1, <4>2
    <3>. QED BY <3>1, <3>2, <3>3 DEF Ops
  <2>7. CASE kind = "sectionItem"
    <3>1. op \in Ops BY <1>0, <2>7 DEF Plain
    <3>2. PICK s \in Ids : /\ SectionNames("update", s) \subseteq names
                           /\ \A t \in R[i].refs \cup Q[i].refs : Kind[t] = "section" => t = s
      BY <2>7 DEF Misses, Linking
    <3>3. CASE key.rest = s
      <4>1. Exact("section", s) \in names BY <3>2 DEF SectionNames
      <4>. QED BY <1>1, <2>1, <2>7, <3>1, <3>3, <4>1, Excused
    <3>4. CASE key.rest # s
      <4>1. op # "renumber" /\ i \in Ids BY <1>0, <2>7 DEF Plain
      <4>2. \A k \in Ids : Q[k] # R[k] => k = i
        <5>1. Touched(op, kind) = {"sectionItem"}
          BY <2>7, <4>1 DEF Touched, Below, Orphans
        <5>. QED BY <2>7, <4>1, <5>1 DEF Misses, Effect
      <4>3. key.rest \notin R[i].refs /\ key.rest \notin Q[i].refs BY <2>1, <3>2, <3>4
      <4>4. Keeps(R, Q, key.rest, "sectionItem") BY <4>2, <4>3 DEF Keeps
      <4>5. Kind[i] = "sectionItem" BY <1>0, <2>7 DEF Plain
      <4>6. Same(R, Q, ItemKinds \cup {"menu"}) BY <4>2, <4>5 DEF Same, ItemKinds
      <4>7. Q[key.rest] = R[key.rest] BY <2>1, <4>2, <4>5
      <4>. QED BY <2>1, <2>2, <4>4, <4>6, <4>7, DetailsSame
    <3>. QED BY <3>3, <3>4
  <2>8. CASE kind \in {"table", "order", "user", "adjustment", "additional", "hours"}
    <3>1. \A k \in {"section", "sectionItem", "menu"} \cup ItemKinds : k \notin Touched(op, kind)
      BY <1>4, <2>8, TouchedKinds DEF ItemKinds
    <3>2. \A k \in Ids : Kind[k] \in {"section", "sectionItem", "menu"} \cup ItemKinds => Q[k] = R[k]
      BY <3>1 DEF Misses, Effect
    <3>3. Q[key.rest] = R[key.rest] BY <2>1, <3>2
    <3>4. Keeps(R, Q, key.rest, "sectionItem") BY <3>2 DEF Keeps
    <3>5. Same(R, Q, ItemKinds \cup {"menu"}) BY <3>2 DEF Same
    <3>. QED BY <2>1, <2>2, <3>3, <3>4, <3>5, DetailsSame
  <2>. QED BY <1>4, <2>3, <2>4, <2>5, <2>6, <2>7, <2>8 DEF Kinds
<1>. QED BY <1>5, <1>6

LEMMA Covers ==
  ASSUME NEW R, NEW Q, NEW op, NEW kind, NEW i, NEW names, NEW key \in Keys,
         Misses(R, Q, op, kind, i, names, key)
  PROVE  [op |-> op, kind |-> kind] \in Unnamed(key)
<1>1. key.kind \in Cached BY KeyFields
<1>. QED BY <1>1, CoverSimple, CoverTable, CoverUser, CoverItem, CoverSection DEF Cached

-----------------------------------------------------------------------------
(***************************************************************************)
(* Every write names what it changes, or is excused.                       *)
(***************************************************************************)

LEMMA NamingIs ==
  ASSUME NEW R, NEW w, IsWrite(R, w)
  PROVE  Naming(w.op, Kind[w.row], w.row, Names(R, w))
<1>. DEFINE kind == Kind[w.row]
<1>1. w.op # "bulk" /\ (kind = "section" => w.op # "stock") BY DEF IsWrite
<1>2. w.op # "stock" =>
        /\ kind = "menu" => Names(R, w) = MenuNames(w.op, w.row)
        /\ kind = "station" => Names(R, w) = StationNames(w.op, w.row)
        /\ kind = "table" => Names(R, w) = TableNames(w.op, w.row)
        /\ kind = "adjustment" => Names(R, w) = AdjustmentNames(w.op)
        /\ kind = "additional" => Names(R, w) = AdditionalNames(w.op)
        /\ kind = "user" => Names(R, w) = UserNames(w.op)
        /\ kind = "hours" => Names(R, w) = HoursNames
        /\ kind \in {"item", "packetSection", "choice"} => Names(R, w) = ItemNames
        /\ kind = "section" => Names(R, w) = SectionNames(w.op, w.row)
  BY DEF Names
<1>. HIDE DEF kind
<1>3. Naming(w.op, kind, w.row, Names(R, w)) BY <1>1, <1>2 DEF Naming
<1>. QED BY <1>3 DEF kind

LEMMA LinkingIs ==
  ASSUME NEW R, Rows(R), NEW w, IsWrite(R, w)
  PROVE  Linking(R, After(R, w), Kind[w.row], w.row, Names(R, w))
<1>. SUFFICES ASSUME Kind[w.row] = "sectionItem"
              PROVE  \E s \in Ids :
                       /\ SectionNames("update", s) \subseteq Names(R, w)
                       /\ \A t \in R[w.row].refs \cup After(R, w)[w.row].refs :
                            Kind[t] = "section" => t = s
  BY DEF Linking
<1>1. PICK s \in Ids : /\ \A t \in LinkRefs(R, w) : Kind[t] = "section" => t = s
                       /\ Names(R, w) = SectionNames("update", s)
  BY LinkSection
<1>2. w.row \in Ids /\ R \in [Ids -> Row] BY DEF IsWrite, Rows
<1>3. R[w.row].refs \cup After(R, w)[w.row].refs \subseteq LinkRefs(R, w)
  <2>1. CASE w.op = "create"
    <3>1. After(R, w)[w.row].refs = w.refs BY <2>1, AfterIs DEF Makes
    <3>2. R[w.row].refs = {} BY <1>2, <2>1, Refers DEF IsWrite, Makes
    <3>. QED BY <2>1, <3>1, <3>2 DEF LinkRefs
  <2>2. CASE w.op \in Stays
    <3>1. After(R, w)[w.row].refs = w.refs /\ w.refs = R[w.row].refs BY <2>2, AfterIs DEF IsWrite
    <3>. QED BY <2>2, <3>1 DEF LinkRefs, Stays
  <2>3. CASE w.op = "delete"
    <3>1. After(R, w) = Deleted(R, w.row) BY <2>3, AfterIs
    <3>2. Deleted(R, w.row)[w.row].refs \subseteq R[w.row].refs BY <1>2, DeletedIs
    <3>. QED BY <2>3, <3>1, <3>2 DEF LinkRefs
  <2>4. w.op # "renumber" /\ w.op # "guest" BY DEF IsWrite
  <2>. QED BY <2>1, <2>2, <2>3, <2>4 DEF IsWrite, Stays, Makes
<1>. QED BY <1>1, <1>3

\* Of the creates only that of a guest names nothing.
SlugOp(names) == IF names = {} THEN "guest" ELSE "create"

LEMMA MakesNamed ==
  ASSUME NEW R, NEW w, IsWrite(R, w), w.op \in Makes, Kind[w.row] \in Slugged
  PROVE  w.op = SlugOp(Names(R, w))
<1>. DEFINE kind == Kind[w.row]
<1>1. CASE w.op = "guest"
  <2>1. kind = "user" BY <1>1 DEF IsWrite
  <2>2. Names(R, w) = UserNames(w.op) BY <1>1, <2>1 DEF Names
  <2>. QED BY <1>1, <2>2 DEF UserNames, SlugOp
<1>2. CASE w.op = "create"
  <2>1. CASE kind = "menu"
    <3>1. Names(R, w) = MenuNames(w.op, w.row) BY <1>2, <2>1 DEF Names
    <3>. QED BY <1>2, <3>1 DEF MenuNames, SlugOp
  <2>2. CASE kind = "section"
    <3>1. Names(R, w) = SectionNames(w.op, w.row) BY <1>2, <2>2 DEF Names
    <3>. QED BY <1>2, <3>1 DEF SectionNames, SlugOp
  <2>3. CASE kind \in {"item", "packetSection", "choice"}
    <3>1. Names(R, w) = ItemNames BY <1>2, <2>3 DEF Names
    <3>. QED BY <1>2, <3>1 DEF ItemNames, SlugOp
  <2>4. CASE kind = "station"
    <3>1. Names(R, w) = StationNames(w.op, w.row) BY <1>2, <2>4 DEF Names
    <3>. QED BY <1>2, <3>1 DEF StationNames, SlugOp
  <2>5. CASE kind = "table"
    <3>1. Names(R, w) = TableNames(w.op, w.row) BY <1>2, <2>5 DEF Names
    <3>. QED BY <1>2, <3>1 DEF TableNames, SlugOp
  <2>6. CASE kind = "user"
    <3>1. Names(R, w) = UserNames(w.op) BY <1>2, <2>6 DEF Names
    <3>. QED BY <1>2, <3>1 DEF UserNames, SlugOp
  <2>. QED BY <2>1, <2>2, <2>3, <2>4, <2>5, <2>6 DEF Slugged
<1>. QED BY <1>1, <1>2 DEF Makes

\* A request that is still to write knows what it will delete.
Prepared(q) ==
  /\ q.pc = "slug" => /\ Kind[q.row] \in Slugged
                      /\ Naming(SlugOp(q.names), Kind[q.row], q.row, q.names)
                      /\ SlugOp(q.names) = "guest" => Kind[q.row] = "user"
  /\ q.pc = "bulk" => q.left \subseteq Table["section"] /\ q.names = BulkNames

CInv == TypeOK /\ NamesCoverWrites /\ \A r \in Requests : Prepared(req[r])

LEMMA GoPrepared ==
  ASSUME CInv, NEW r \in Requests, NEW state, Prepared(state), Go(r, state)
  PROVE  \A p \in Requests : Prepared(req'[p])
<1>1. \A p \in Requests : req'[p] = state \/ req'[p] = req[p] BY DEF Go, CInv, TypeOK
<1>. QED BY <1>1 DEF CInv

LEMMA ClearingPrepared ==
  ASSUME CInv, NEW r \in Requests, NEW names, Clearing(r, names)
  PROVE  \A p \in Requests : Prepared(req'[p])
<1>1. Prepared(Idle) BY DEF Prepared, Idle
<1>2. Prepared([Idle EXCEPT !.pc = "clear", !.names = names]) BY DEF Prepared, Idle
<1>3. Go(r, Idle) \/ Go(r, [Idle EXCEPT !.pc = "clear", !.names = names]) BY DEF Clearing
<1>. QED BY <1>1, <1>2, <1>3, GoPrepared

LEMMA ChangeCovered ==
  ASSUME CInv, NEW R, NEW names, NEW op, NEW kind, NEW i, Change(R, names, op, kind),
         Effect(rows, R, op, kind, i), Naming(op, kind, i, names), Linking(rows, R, kind, i, names)
  PROVE  NamesCoverWrites'
<1>. DEFINE writer == [op |-> op, kind |-> kind]
<1>1. /\ DOMAIN cache' = DOMAIN cache
      /\ \A key \in DOMAIN cache :
           cache'[key] = IF ~Named(names, key) /\ Answer(R, key) # Answer(rows, key)
                         THEN [cache[key] EXCEPT !.unnamed = @ \cup {writer}]
                         ELSE cache[key]
  BY DEF Change
<1>2. ASSUME NEW key \in DOMAIN cache, ~Named(names, key), Answer(R, key) # Answer(rows, key)
      PROVE  writer \in Unnamed(key)
  <2>1. key \in Keys BY DEF CInv, TypeOK
  <2>2. Misses(rows, R, op, kind, i, names, key) BY <1>2 DEF Misses, Changes
  <2>. QED BY <2>1, <2>2, Covers
<1>. HIDE DEF writer
<1>3. ASSUME NEW key \in DOMAIN cache
      PROVE  [cache[key] EXCEPT !.unnamed = @ \cup {writer}].unnamed = cache[key].unnamed \cup {writer}
  BY DEF CInv, TypeOK, Entry
<1>4. ASSUME NEW key \in DOMAIN cache' PROVE cache'[key].unnamed \subseteq Unnamed(key)
  <2>1. key \in DOMAIN cache /\ cache[key].unnamed \subseteq Unnamed(key)
    BY <1>1 DEF CInv, NamesCoverWrites
  <2>2. CASE ~Named(names, key) /\ Answer(R, key) # Answer(rows, key)
    <3>1. cache'[key].unnamed = cache[key].unnamed \cup {writer} BY <1>1, <1>3, <2>1, <2>2
    <3>. QED BY <1>2, <2>1, <2>2, <3>1
  <2>3. CASE ~(~Named(names, key) /\ Answer(R, key) # Answer(rows, key))
    BY <1>1, <2>1, <2>3
  <2>. QED BY <2>2, <2>3
<1>. QED BY <1>4 DEF NamesCoverWrites

\* Entries that keep what is told of their writers, or begin with none.
LEMMA QuietCovered ==
  ASSUME CInv,
         \A key \in DOMAIN cache' : \/ key \in DOMAIN cache /\ cache'[key].unnamed = cache[key].unnamed
                                    \/ cache'[key].unnamed = {}
  PROVE  NamesCoverWrites'
  BY DEF CInv, NamesCoverWrites

LEMMA FailCovered ==
  ASSUME CInv, NEW r \in Requests, Fail(r)
  PROVE  NamesCoverWrites' /\ \A p \in Requests : Prepared(req'[p])
<1>1. Prepared(Idle) BY DEF Prepared, Idle
<1>2. \A p \in Requests : Prepared(req'[p]) BY <1>1, GoPrepared DEF Fail
<1>3. /\ DOMAIN cache' = DOMAIN cache
      /\ \A key \in DOMAIN cache :
           cache'[key] = [cache[key] EXCEPT !.lost = @ \/ Named(req[r].names, key)]
  BY DEF Fail
<1>4. \A key \in DOMAIN cache :
        [cache[key] EXCEPT !.lost = @ \/ Named(req[r].names, key)].unnamed = cache[key].unnamed
  BY DEF CInv, TypeOK, Entry
<1>. QED BY <1>2, <1>3, <1>4, QuietCovered

LEMMA WithoutCovered ==
  ASSUME CInv, NEW S, cache' = Without(S) PROVE NamesCoverWrites'
<1>1. \A key \in DOMAIN cache' : key \in DOMAIN cache /\ cache'[key] = cache[key] BY DEF Without
<1>. QED BY <1>1, QuietCovered

Covered == NamesCoverWrites' /\ \A p \in Requests : Prepared(req'[p])

LEMMA LookupCovered ==
  ASSUME CInv, NEW r \in Requests, NEW key \in Keys, Lookup(r, key) PROVE Covered
<1>1. Prepared(Idle) /\ Prepared([Idle EXCEPT !.pc = "query", !.key = key]) BY DEF Prepared, Idle
<1>2. \A p \in Requests : Prepared(req'[p]) BY <1>1, GoPrepared DEF Lookup
<1>3. NamesCoverWrites' BY QuietCovered DEF Lookup
<1>. QED BY <1>2, <1>3 DEF Covered

LEMMA QueryCovered ==
  ASSUME CInv, NEW r \in Requests, Query(r) PROVE Covered
<1>. DEFINE answer == Answer(rows, req[r].key)
            state == [req[r] EXCEPT !.pc = "store", !.answer = answer]
<1>1. Go(r, Idle) \/ Go(r, state) BY DEF Query
<1>. HIDE DEF answer
<1>2. state.pc = "store" BY DEF CInv, TypeOK, Request
<1>. HIDE DEF state
<1>3. Prepared(Idle) /\ Prepared(state) BY <1>2 DEF Prepared, Idle
<1>4. \A p \in Requests : Prepared(req'[p]) BY <1>1, <1>3, GoPrepared
<1>5. NamesCoverWrites' BY QuietCovered DEF Query
<1>. QED BY <1>4, <1>5 DEF Covered

LEMMA StoreCovered ==
  ASSUME CInv, NEW r \in Requests, Store(r) PROVE Covered
<1>. DEFINE key == req[r].key
            entry == NewEntry(key, req[r].answer)
<1>1. cache' = Put(key, entry) /\ Go(r, Idle) BY DEF Store
<1>2. entry.unnamed = {} BY DEF NewEntry
<1>. HIDE DEF entry, key
<1>3. NamesCoverWrites' BY <1>1, <1>2, QuietCovered DEF Put
<1>4. Prepared(Idle) BY DEF Prepared, Idle
<1>. QED BY <1>1, <1>3, <1>4, GoPrepared DEF Covered

LEMMA WriteCovered ==
  ASSUME CInv, NEW r \in Requests, WriteRow(r) PROVE Covered
<1>1. Rows(rows) BY TypeParts DEF CInv
<1>2. PICK w \in Writes(rows) :
        /\ Change(After(rows, w), Names(rows, w), w.op, Kind[w.row])
        /\ IF w.op \in {"create", "guest"} /\ Kind[w.row] \in Slugged
           THEN Go(r, [Idle EXCEPT !.pc = "slug", !.row = w.row, !.names = Names(rows, w)])
           ELSE Clearing(r, Names(rows, w))
  BY DEF WriteRow
<1>. DEFINE names == Names(rows, w)
            state == [Idle EXCEPT !.pc = "slug", !.row = w.row, !.names = names]
<1>3. IsWrite(rows, w) BY <1>1, WritesAre
<1>4. /\ Effect(rows, After(rows, w), w.op, Kind[w.row], w.row)
      /\ Naming(w.op, Kind[w.row], w.row, names)
      /\ Linking(rows, After(rows, w), Kind[w.row], w.row, names)
  BY <1>1, <1>3, WriteEffect, NamingIs, LinkingIs
<1>5. NamesCoverWrites' BY <1>2, <1>4, ChangeCovered
<1>. HIDE DEF names
<1>6. state.pc = "slug" /\ state.row = w.row /\ state.names = names BY DEF Idle
<1>. HIDE DEF state
<1>7. CASE w.op \in Makes /\ Kind[w.row] \in Slugged
  <2>1. Go(r, state) BY <1>2, <1>7 DEF state, names, Makes
  <2>2. w.op = SlugOp(names) BY <1>3, <1>7, MakesNamed DEF names
  <2>3. w.op = "guest" => Kind[w.row] = "user" BY <1>3 DEF IsWrite
  <2>4. Prepared(state) BY <1>4, <1>6, <1>7, <2>2, <2>3 DEF Prepared
  <2>. QED BY <1>5, <2>1, <2>4, GoPrepared DEF Covered
<1>8. CASE ~(w.op \in Makes /\ Kind[w.row] \in Slugged)
  <2>1. Clearing(r, names) BY <1>2, <1>8 DEF names, Makes
  <2>. QED BY <1>5, <2>1, ClearingPrepared DEF Covered
<1>. QED BY <1>7, <1>8

LEMMA SlugCovered ==
  ASSUME CInv, NEW r \in Requests, WriteSlug(r) PROVE Covered
<1>. DEFINE q == req[r]
            i == q.row
            op == SlugOp(q.names)
<1>1. Rows(rows) /\ ReqOK BY TypeParts DEF CInv
<1>2. /\ i \in Ids /\ Kind[i] \in Slugged /\ Naming(op, Kind[i], i, q.names)
      /\ op = "guest" => Kind[i] = "user"
  BY <1>1 DEF WriteSlug, ReqOK, Sound, CInv, Prepared
<1>3. CASE /\ i \in Listed(rows)
           /\ Change(WithSlug(rows, i), q.names, op, Kind[i])
           /\ Clearing(r, q.names)
  <2>1. \A k \in Ids \ {i} : WithSlug(rows, i)[k] = rows[k]
    BY <1>1, <1>2, <1>3, SlugRows DEF Listed
  <2>2. Kind[i] # "hours" /\ Kind[i] # "sectionItem" BY <1>2 DEF Slugged
  <2>6. op \in {"create", "guest"} BY DEF SlugOp
  <2>. HIDE DEF op
  <2>3. Effect(rows, WithSlug(rows, i), op, Kind[i], i) BY <1>2, <2>1, <2>2, <2>6, OneRowEffect
  <2>4. Linking(rows, WithSlug(rows, i), Kind[i], i, q.names) BY <2>2 DEF Linking
  <2>5. NamesCoverWrites' BY <1>2, <1>3, <2>3, <2>4, ChangeCovered
  <2>. QED BY <1>3, <2>5, ClearingPrepared DEF Covered
<1>4. CASE Fail(r) BY <1>4, FailCovered DEF Covered
<1>. QED BY <1>3, <1>4 DEF WriteSlug, SlugOp

LEMMA BulkLookCovered ==
  ASSUME CInv, NEW r \in Requests, NEW S, BulkLook(r, S) PROVE Covered
<1>. DEFINE state == [Idle EXCEPT !.pc = "bulk", !.left = S, !.names = BulkNames]
<1>1. Go(r, state) /\ S \subseteq Table["section"] BY DEF BulkLook, ListedOf
<1>2. state.pc = "bulk" /\ state.left = S /\ state.names = BulkNames BY DEF Idle
<1>. HIDE DEF state
<1>3. Prepared(state) BY <1>1, <1>2 DEF Prepared
<1>4. NamesCoverWrites' BY QuietCovered DEF BulkLook
<1>. QED BY <1>1, <1>3, <1>4, GoPrepared DEF Covered

LEMMA BulkWriteCovered ==
  ASSUME CInv, NEW r \in Requests, NEW s \in req[r].left, BulkWrite(r, s) PROVE Covered
<1>. DEFINE q == req[r]
            gone == s \notin Listed(rows)
            left == q.left \ {s}
            failed == q.failed \/ gone
            state == [q EXCEPT !.left = left, !.failed = failed]
<1>1. Rows(rows) /\ ReqOK BY TypeParts DEF CInv
<1>2. q \in Request /\ q.pc = "bulk" /\ q.left \subseteq Table["section"] /\ q.names = BulkNames
  BY <1>1 DEF BulkWrite, ReqOK, CInv, Prepared
<1>3. s \in Ids /\ Kind[s] = "section" BY <1>2, TableIs DEF Kinds
<1>4. NamesCoverWrites'
  <2>1. CASE gone
    <3>1. cache' = cache BY <2>1 DEF BulkWrite
    <3>. QED BY <3>1, QuietCovered
  <2>2. CASE ~gone
    <3>1. Change(Shown(rows, s), q.names, "bulk", "section") BY <2>2 DEF BulkWrite
    <3>2. rows[s].refs \in Refs(rows, Kind[s]) BY <1>1, <1>3, <2>2, OwnRefs DEF Listed
    <3>3. \A k \in Ids \ {s} : Shown(rows, s)[k] = rows[k]
      BY <1>1, <1>3, <2>2, <3>2, UpdatedRows DEF Listed, Shown
    <3>4. Effect(rows, Shown(rows, s), "bulk", "section", s) BY <1>3, <3>3, OneRowEffect
    <3>5. Naming("bulk", "section", s, q.names) BY <1>2 DEF Naming
    <3>6. Linking(rows, Shown(rows, s), "section", s, q.names) BY DEF Linking
    <3>. QED BY <3>1, <3>4, <3>5, <3>6, ChangeCovered
  <2>. QED BY <2>1, <2>2
<1>5. Clearing(r, q.names) \/ Go(r, state) BY DEF BulkWrite
<1>6. left \subseteq Table["section"] BY <1>2
<1>. HIDE DEF left, failed
<1>7. state.pc = "bulk" /\ state.left = left /\ state.names = q.names BY <1>2 DEF Request
<1>. HIDE DEF state
<1>8. Prepared(state) BY <1>2, <1>6, <1>7 DEF Prepared
<1>. QED BY <1>4, <1>5, <1>8, GoPrepared, ClearingPrepared DEF Covered

LEMMA ClearCovered ==
  ASSUME CInv, NEW r \in Requests, NEW name \in req[r].names, Clear(r, name) PROVE Covered
<1>1. NamesCoverWrites' BY WithoutCovered DEF Clear
<1>2. Clearing(r, req[r].names \ {name}) BY DEF Clear
<1>. QED BY <1>1, <1>2, ClearingPrepared DEF Covered

LEMMA InitCovered == Init => CInv
<1>. SUFFICES ASSUME Init PROVE CInv OBVIOUS
<1>1. TypeOK BY InitTyped
<1>2. NamesCoverWrites BY DEF Init, NamesCoverWrites
<1>3. \A r \in Requests : Prepared(req[r]) BY DEF Init, Prepared, Idle
<1>. QED BY <1>1, <1>2, <1>3 DEF CInv

LEMMA NextCovered == CInv /\ [Next]_vars => CInv'
<1>. SUFFICES ASSUME CInv, [Next]_vars PROVE CInv' OBVIOUS
<1>1. TypeOK' BY NextTyped DEF CInv
<1>2. CASE UNCHANGED vars
  <2>1. cache' = cache /\ req' = req BY <1>2 DEF vars
  <2>2. NamesCoverWrites' BY <2>1, QuietCovered
  <2>. QED BY <1>1, <2>1, <2>2 DEF CInv, Prepared
<1>3. ASSUME NEW r \in Requests, Step(r) PROVE Covered
  <2>1. ASSUME BulkFails(r) \/ Interrupt(r) PROVE Covered
    <3>1. Fail(r) BY <2>1 DEF BulkFails, Interrupt
    <3>. QED BY <3>1, FailCovered DEF Covered
  <2>. QED BY <1>3, <2>1, QueryCovered, StoreCovered, SlugCovered, BulkWriteCovered, ClearCovered
       DEF Step
<1>4. ASSUME NEW key \in DOMAIN cache, Expire(key) PROVE Covered
  <2>1. req' = req /\ cache' = Without({key}) BY <1>4 DEF Expire
  <2>2. NamesCoverWrites' BY <2>1, WithoutCovered
  <2>. QED BY <2>1, <2>2 DEF Covered, CInv
<1>5. Covered \/ UNCHANGED vars
  BY <1>3, <1>4, LookupCovered, WriteCovered, BulkLookCovered DEF Next
<1>6. CASE Covered BY <1>1, <1>6 DEF Covered, CInv, Prepared
<1>. QED BY <1>2, <1>5, <1>6

\* A write of a service names every key whose answer it changes, but for those that Unnamed
\* tells: for any catalogue, any write of any service with all its cascades, and any answer
\* (the controllers' @CacheKey and @InvalidateCache names against the services' writes and
\* includes).
THEOREM CoverTheorem == Spec => []NamesCoverWrites
<1>1. CInv => NamesCoverWrites BY DEF CInv
<1>. QED BY <1>1, InitCovered, NextCovered, PTL DEF Spec
=============================================================================
