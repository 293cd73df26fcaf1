---------------------------- MODULE StockProofs ----------------------------
(***************************************************************************)
(* Theorems about StockMovements, for any number of items, requests and    *)
(* event handlers, any quantities and any contents of orders, overlapping  *)
(* and interrupted at will.                                                *)
(***************************************************************************)
EXTENDS StockMovements, SumProofs

(***************************************************************************)
(* Type correctness.                                                       *)
(***************************************************************************)

\* A handler that moves a choice has it at the head of its list: what is left of the
\* list after it is a list.
Moving ==
  \A r \in Requests :
    req[r].pc \in {"opening", "update", "log"} /\ req[r].kind = "sold" => req[r].moves # <<>>

Typed == TypeOK /\ Moving

\* What requests, items, lines and choices look like to the actions.
LEMMA RequestFields ==
  ASSUME NEW q \in Request
  PROVE  /\ q.pc \in Pc /\ q.item \in Items \cup {NoItem} /\ q.kind \in Kinds /\ q.qty \in Int
         /\ q.seen \in Int /\ q.opening \in Int /\ q.lines \in Seq(Line)
         /\ q.moves \in Seq(Move) /\ q.rows \in [Items -> Item]
  BY DEF Request

LEMMA ItemFields ==
  ASSUME NEW w \in Item
  PROVE  w.status \in {"UNISSUED", "LISTED", "DELETED"} /\ w.qty \in Int
  BY DEF Item

LEMMA EntryFields ==
  ASSUME NEW e \in Entry
  PROVE  /\ e.kind \in Kinds /\ e.qty \in Int /\ e.opening \in Int /\ e.closing \in Int
         /\ e.raced \in BOOLEAN
  BY DEF Entry

LEMMA MoveFields ==
  ASSUME NEW m \in Move
  PROVE  m.item \in Items /\ m.qty \in Int /\ m.listed \in BOOLEAN /\ m.seen \in Int
  BY DEF Move

LEMMA LineFields ==
  ASSUME NEW l \in Line
  PROVE  l.packet \in BOOLEAN /\ l.qty \in Nat /\ l.choices \in Seq(Choice)
  BY DEF Line

LEMMA NoRowsType == NoRows \in [Items -> Item]
  BY DEF NoRows, Item

LEMMA IdleType ==
  /\ Idle \in Request /\ Idle.pc = "idle" /\ Idle.moves = <<>> /\ Idle.kind = "in"
  /\ Sound(Idle)
  BY NoRowsType DEF Idle, Request, Pc, Kinds, Sound

LEMMA ClosingType ==
  ASSUME NEW k, NEW o \in Int, NEW n \in Int PROVE ClosingStock(k, o, n) \in Int
  BY DEF ClosingStock

LEMMA LastClosingType ==
  ASSUME TypeOK, NEW i \in Items, log[i] # <<>> PROVE LastClosing(i) \in Int
<1>1. log[i] \in Seq(Entry) BY DEF TypeOK
<1>2. log[i][Len(log[i])] \in Entry BY <1>1
<1>. QED BY <1>2, EntryFields DEF LastClosing

LEMMA OpeningType ==
  ASSUME TypeOK, NEW i \in Items, NEW n \in Int PROVE OpeningStock(i, n) \in Int
  BY LastClosingType DEF OpeningStock

\* What a line moves is a list of moves.
LEMMA MovesType ==
  ASSUME NEW l \in Line, NEW R \in [Items -> Item] PROVE MovesOf(l, R) \in Seq(Move)
<1>. DEFINE N == Len(l.choices)
<1>1. l.choices \in Seq(Choice) /\ N \in Nat /\ l.qty \in Nat BY LineFields
<1>2. ASSUME NEW k \in 1..N PROVE MovesOf(l, R)[k] \in Move
  <2>. DEFINE c == l.choices[k]
  <2>1. c \in Choice BY <1>1
  <2>2. c.item \in Items /\ c.qty \in Nat BY <2>1 DEF Choice
  <2>3. ChoiceQty(l, c) \in Int BY <1>1, <2>2 DEF ChoiceQty
  <2>4. R[c.item].qty \in Int BY <2>2, ItemFields
  <2>5. MovesOf(l, R)[k] = [item |-> c.item, qty |-> ChoiceQty(l, c), seen |-> R[c.item].qty,
                            listed |-> R[c.item].status = "LISTED"]
    BY DEF MovesOf
  <2>. QED BY <2>2, <2>3, <2>4, <2>5 DEF Move
<1>3. MovesOf(l, R) \in [1..N -> Move] BY <1>2 DEF MovesOf
<1>. QED BY <1>1, <1>3

\* The tables, the requests and the history.
TablesOK == items \in [Items -> Item] /\ log \in [Items -> Seq(Entry)]

RequestsOK == /\ req \in [Requests -> Request]
              /\ \A r \in Requests : Sound(req[r])
              /\ Moving

HistoryOK ==
  /\ missed \in [Requests -> SUBSET {"log", "qty"}] /\ adrift \in SUBSET Items
  /\ accepted \in Seq(Sales) /\ broken \in SUBSET Items /\ calls \in Nat

LEMMA TypedParts == Typed <=> TablesOK /\ RequestsOK /\ HistoryOK
  BY DEF Typed, TypeOK, TablesOK, RequestsOK, HistoryOK

LEMMA TypedPartsNext == TablesOK' /\ RequestsOK' /\ HistoryOK' => Typed'
  BY DEF Typed, TypeOK, TablesOK, RequestsOK, HistoryOK

LEMMA InitType == Init => Typed
<1>. SUFFICES ASSUME Init PROVE Typed OBVIOUS
<1>1. TablesOK BY NoRowsType DEF Init, TablesOK
<1>2. RequestsOK BY IdleType DEF Init, RequestsOK, Moving
<1>3. HistoryOK BY DEF Init, HistoryOK
<1>. QED BY <1>1, <1>2, <1>3, TypedParts

LEMMA GoType ==
  ASSUME Typed, NEW r \in Requests, NEW state \in Request, Go(r, state), Sound(state),
         state.pc \in {"opening", "update", "log"} /\ state.kind = "sold" => state.moves # <<>>
  PROVE  RequestsOK'
<1>1. /\ req' \in [Requests -> Request]
      /\ \A q \in Requests : req'[q] = IF q = r THEN state ELSE req[q]
  BY DEF Go, Typed, TypeOK
<1>2. Moving' BY <1>1 DEF Typed, Moving
<1>. QED BY <1>1, <1>2 DEF RequestsOK, Typed, TypeOK

LEMMA EndType ==
  ASSUME Typed, NEW r \in Requests, Go(r, Idle) PROVE RequestsOK'
  BY IdleType, GoType

LEMMA MissedType ==
  ASSUME Typed, NEW r \in Requests, NEW what \in {"log", "qty"}, NEW i
  PROVE  Missed(r, what, i) \in [Requests -> SUBSET {"log", "qty"}]
  BY DEF Missed, Typed, TypeOK

LEMMA CallsType == ASSUME Typed, NEW r, MayStart(r) PROVE calls' \in Nat
<1>1. calls' = calls + 1 BY DEF MayStart
<1>. QED BY <1>1 DEF Typed, TypeOK

-----------------------------------------------------------------------------
LEMMA StartType ==
  ASSUME Typed, NEW r \in Requests, Start(r) PROVE Typed'
<1>. USE IdleType
<1>1. ASSUME NEW i \in Items, NEW n \in Amounts, NEW kind \in {"in", "out"},
             StockFind(r, i, n, kind)
      PROVE  Typed'
  <2>. DEFINE state == [Idle EXCEPT !.pc = "opening", !.item = i, !.kind = kind, !.qty = n,
                                    !.seen = items[i].qty]
  <2>1. items[i].qty \in Int /\ n \in Int
    BY ItemFields, StockAssumption DEF Typed, TypeOK
  <2>2. state \in Request /\ Sound(state) /\ state.kind # "sold"
    BY <2>1 DEF Idle, Request, Pc, Kinds, Sound
  <2>3. Go(r, state) /\ MayStart(r) BY <1>1 DEF StockFind
  <2>. HIDE DEF state
  <2>4. RequestsOK' BY <2>2, <2>3, GoType
  <2>. QED
    BY <1>1, <2>3, <2>4, CallsType, TypedPartsNext
    DEF StockFind, Typed, TypeOK, TablesOK, HistoryOK
<1>2. ASSUME NEW i \in Items, NEW n \in Quantities, CreateItem(r, i, n) PROVE Typed'
  <2>. DEFINE state == [Idle EXCEPT !.pc = "createSlug", !.item = i, !.kind = "initial", !.qty = n]
  <2>1. n \in Int BY StockAssumption
  <2>2. state \in Request /\ Sound(state) /\ state.pc = "createSlug"
    BY <2>1 DEF Idle, Request, Pc, Kinds, Sound
  <2>3. Go(r, state) /\ MayStart(r) BY <1>2 DEF CreateItem
  <2>. HIDE DEF state
  <2>4. RequestsOK' BY <2>2, <2>3, GoType
  <2>5. [status |-> "LISTED", qty |-> n] \in Item BY <2>1 DEF Item
  <2>6. TablesOK' BY <1>2, <2>5 DEF CreateItem, Typed, TypeOK, TablesOK
  <2>7. HistoryOK' BY <1>2, <2>3, CallsType DEF CreateItem, Typed, TypeOK, HistoryOK
  <2>. QED BY <2>4, <2>6, <2>7, TypedPartsNext
<1>3. ASSUME NEW i \in Items, NEW n \in Quantities, EditFind(r, i, n) PROVE Typed'
  <2>. DEFINE state == [Idle EXCEPT !.pc = "edit", !.item = i, !.qty = n]
  <2>1. n \in Int BY StockAssumption
  <2>2. state \in Request /\ Sound(state) /\ state.pc = "edit"
    BY <2>1 DEF Idle, Request, Pc, Kinds, Sound
  <2>3. Go(r, state) /\ MayStart(r) BY <1>3 DEF EditFind
  <2>. HIDE DEF state
  <2>4. RequestsOK' BY <2>2, <2>3, GoType
  <2>. QED
    BY <1>3, <2>3, <2>4, CallsType, TypedPartsNext
    DEF EditFind, Typed, TypeOK, TablesOK, HistoryOK
<1>4. ASSUME NEW i \in Items, DeleteFind(r, i) PROVE Typed'
  <2>. DEFINE state == [Idle EXCEPT !.pc = "delete", !.item = i]
  <2>1. state \in Request /\ Sound(state) /\ state.pc = "delete"
    BY DEF Idle, Request, Pc, Kinds, Sound
  <2>2. Go(r, state) /\ MayStart(r) BY <1>4 DEF DeleteFind
  <2>. HIDE DEF state
  <2>3. RequestsOK' BY <2>1, <2>2, GoType
  <2>. QED
    BY <1>4, <2>2, <2>3, CallsType, TypedPartsNext
    DEF DeleteFind, Typed, TypeOK, TablesOK, HistoryOK
<1>5. ASSUME NEW lines \in Sales, SaleStart(r, lines) PROVE Typed'
  <2>. DEFINE state == [Idle EXCEPT !.pc = "line", !.lines = lines, !.rows = items]
  <2>1. lines \in Seq(Line) /\ items \in [Items -> Item]
    BY StockAssumption DEF Typed, TypeOK
  <2>2. state \in Request /\ Sound(state) /\ state.pc = "line"
    BY <2>1 DEF Idle, Request, Pc, Kinds, Sound
  <2>3. Go(r, state) /\ MayStart(r) BY <1>5 DEF SaleStart
  <2>. HIDE DEF state
  <2>4. RequestsOK' BY <2>2, <2>3, GoType
  <2>5. accepted' \in Seq(Sales) BY <1>5 DEF SaleStart, Typed, TypeOK
  <2>. QED
    BY <1>5, <2>3, <2>4, <2>5, CallsType, TypedPartsNext
    DEF SaleStart, Typed, TypeOK, TablesOK, HistoryOK
<1>. QED BY <1>1, <1>2, <1>3, <1>4, <1>5 DEF Start, StockIn, StockOut

-----------------------------------------------------------------------------
\* The request of a step, and its item.
LEMMA Acting ==
  ASSUME Typed, NEW r \in Requests
  PROVE  /\ req[r] \in Request
         /\ req[r].pc \notin {"idle", "line"} => req[r].item \in Items
         /\ req[r].pc = "slug" => req[r].kind = "sold"
         /\ req[r].pc \in {"opening", "update", "log"} /\ req[r].kind = "sold" => req[r].moves # <<>>
  BY DEF Typed, TypeOK, Sound, Moving

\* A step of the handler, or of a movement, that writes nothing.
LEMMA ReadingType ==
  ASSUME Typed, NEW r \in Requests, UNCHANGED calls,
         ReadOpening(r) \/ SaleLine(r) \/ SaleSkip(r) \/ SaleOpening(r) \/ SaleSlug(r)
           \/ SaleDone(r) \/ CreateSlug(r)
  PROVE  Typed'
<1>. DEFINE q == req[r]
<1>1. UNCHANGED <<items, log, adrift, accepted, broken>>
  BY DEF ReadOpening, SaleLine, SaleSkip, SaleOpening, SaleSlug, SaleDone, CreateSlug
<1>2. missed' \in [Requests -> SUBSET {"log", "qty"}]
  <2>1. missed' = missed \/ missed' = [missed EXCEPT ![r] = {}]
    BY DEF ReadOpening, SaleLine, SaleSkip, SaleOpening, SaleSlug, SaleDone, CreateSlug
  <2>. QED BY <2>1 DEF Typed, TypeOK
<1>3. q \in Request /\ (q.pc \notin {"idle", "line"} => q.item \in Items) BY Acting
<1>4. /\ q.moves \in Seq(Move) /\ q.lines \in Seq(Line) /\ q.rows \in [Items -> Item]
      /\ q.seen \in Int
  BY <1>3, RequestFields
<1>5. RequestsOK'
  <2>1. CASE Go(r, Idle) BY <2>1, EndType
  <2>2. CASE ReadOpening(r) /\ ~Go(r, Idle)
    <3>. DEFINE o == OpeningStock(q.item, q.seen)
                state == [q EXCEPT !.pc = "update", !.opening = o]
    <3>1. q.pc = "opening" /\ q.item \in Items BY <1>3, <2>2 DEF ReadOpening
    <3>2. o \in Int BY <1>4, <3>1, OpeningType DEF Typed
    <3>3. Go(r, state) BY <2>2 DEF ReadOpening
    <3>. HIDE DEF o
    <3>4. state \in Request /\ state.pc = "update" /\ state.item = q.item
          /\ state.kind = q.kind /\ state.moves = q.moves
      BY <1>3, <3>2 DEF Request, Pc
    <3>5. Sound(state) BY <3>1, <3>4 DEF Sound
    <3>. HIDE DEF state
    <3>. QED BY <3>1, <3>3, <3>4, <3>5, Acting, GoType
  <2>3. CASE SaleLine(r)
    <3>. DEFINE l == Head(q.lines)
                rest == Tail(q.lines)
                seen == IF Len(q.lines) = 1 THEN NoRows ELSE q.rows
                moves == MovesOf(l, IF l.packet THEN items ELSE q.rows)
                state == [q EXCEPT !.lines = rest, !.rows = seen, !.moves = moves]
    <3>1. q.lines # <<>> /\ q.pc = "line" BY <2>3 DEF SaleLine
    <3>2. l \in Line /\ rest \in Seq(Line) BY <1>4, <3>1
    <3>3. seen \in [Items -> Item] BY <1>4, NoRowsType
    <3>4. moves \in Seq(Move) BY <1>4, <3>2, MovesType DEF Typed, TypeOK
    <3>5. Go(r, state) BY <2>3 DEF SaleLine
    <3>. HIDE DEF moves, seen, rest
    <3>6. state \in Request /\ state.pc = "line" BY <1>3, <3>1, <3>2, <3>3, <3>4 DEF Request
    <3>7. Sound(state) BY <3>6 DEF Sound
    <3>. HIDE DEF state
    <3>. QED BY <3>5, <3>6, <3>7, GoType
  <2>4. CASE SaleSkip(r)
    <3>. DEFINE rest == Tail(q.moves)
                state == [q EXCEPT !.moves = rest]
    <3>1. q.moves # <<>> /\ q.pc = "line" BY <2>4 DEF SaleSkip
    <3>2. rest \in Seq(Move) BY <1>4, <3>1
    <3>3. Go(r, state) BY <2>4 DEF SaleSkip
    <3>. HIDE DEF rest
    <3>4. state \in Request /\ state.pc = "line" BY <1>3, <3>1, <3>2 DEF Request
    <3>5. Sound(state) BY <3>4 DEF Sound
    <3>. HIDE DEF state
    <3>. QED BY <3>3, <3>4, <3>5, GoType
  <2>5. CASE SaleOpening(r)
    <3>. DEFINE m == Head(q.moves)
                o == OpeningStock(m.item, m.seen)
                state == [q EXCEPT !.pc = "update", !.kind = "sold", !.item = m.item,
                                   !.qty = m.qty, !.opening = o]
    <3>1. q.moves # <<>> /\ q.pc = "line" BY <2>5 DEF SaleOpening
    <3>2. m \in Move BY <1>4, <3>1
    <3>3. m.item \in Items /\ m.qty \in Int /\ m.seen \in Int BY <3>2, MoveFields
    <3>4. o \in Int BY <3>3, OpeningType DEF Typed
    <3>5. Go(r, state) BY <2>5 DEF SaleOpening
    <3>. HIDE DEF m, o
    <3>6. state \in Request /\ state.item = m.item /\ state.pc = "update"
          /\ state.moves = q.moves
      BY <1>3, <3>3, <3>4 DEF Request, Pc, Kinds
    <3>7. Sound(state) BY <3>3, <3>6 DEF Sound
    <3>. HIDE DEF state
    <3>. QED BY <3>1, <3>5, <3>6, <3>7, GoType
  <2>6. CASE SaleSlug(r)
    <3>. DEFINE state == [Idle EXCEPT !.pc = "line", !.lines = q.lines, !.moves = q.moves,
                                      !.rows = q.rows]
    <3>1. Go(r, state) BY <2>6 DEF SaleSlug
    <3>2. state \in Request /\ state.pc = "line" BY <1>4, IdleType DEF Idle, Request, Pc
    <3>3. Sound(state) BY <3>2 DEF Sound
    <3>. HIDE DEF state
    <3>. QED BY <3>1, <3>2, <3>3, GoType
  <2>7. CASE CreateSlug(r) /\ ~Go(r, Idle)
    <3>. DEFINE state == [q EXCEPT !.pc = "createLog"]
    <3>1. Go(r, state) /\ q.item \in Items BY <1>3, <2>7 DEF CreateSlug
    <3>2. state \in Request /\ state.pc = "createLog" /\ state.item = q.item
      BY <1>3 DEF Request, Pc
    <3>3. Sound(state) BY <3>1, <3>2 DEF Sound
    <3>. HIDE DEF state
    <3>. QED BY <3>1, <3>2, <3>3, GoType
  <2>. QED BY <2>1, <2>2, <2>3, <2>4, <2>5, <2>6, <2>7 DEF SaleDone
<1>. QED
  BY <1>1, <1>2, <1>5, TypedPartsNext DEF Typed, TypeOK, TablesOK, HistoryOK

\* The writes of an item.
LEMMA ItemWith ==
  ASSUME NEW w \in Item, NEW n \in Int
  PROVE  /\ [w EXCEPT !.qty = n] \in Item /\ [w EXCEPT !.qty = n].qty = n
         /\ [w EXCEPT !.qty = n].status = w.status
         /\ [w EXCEPT !.status = "DELETED"] \in Item
         /\ [w EXCEPT !.status = "DELETED"].status = "DELETED"
         /\ [w EXCEPT !.status = "DELETED"].qty = w.qty
  BY DEF Item

LEMMA ItemStepType ==
  ASSUME Typed, NEW r \in Requests, UNCHANGED calls,
         UpdateItem(r) \/ EditItem(r) \/ DeleteItem(r)
  PROVE  Typed'
<1>. DEFINE q == req[r]
            i == q.item
<1>1. i \in Items /\ q \in Request BY Acting DEF UpdateItem, EditItem, DeleteItem
<1>2. /\ q.qty \in Int /\ q.opening \in Int /\ items[i] \in Item
      /\ items \in [Items -> Item]
  BY <1>1, RequestFields DEF Typed, TypeOK
<1>3. ClosingStock(q.kind, q.opening, q.qty) \in Int BY <1>2, ClosingType
<1>4. items' \in [Items -> Item]
  <2>. DEFINE c == ClosingStock(q.kind, q.opening, q.qty)
  <2>1. CASE UpdateItem(r)
    <3>1. items' = [items EXCEPT ![i] = [items[i] EXCEPT !.qty = c]]
      BY <1>1, <1>2, <2>1 DEF UpdateItem
    <3>. HIDE DEF c
    <3>. QED BY <1>1, <1>2, <1>3, <3>1, ItemWith DEF c
  <2>2. CASE EditItem(r)
    <3>1. items' = [items EXCEPT ![i] = [items[i] EXCEPT !.qty = q.qty]]
      BY <1>1, <1>2, <2>2 DEF EditItem
    <3>. QED BY <1>1, <1>2, <3>1, ItemWith
  <2>3. CASE DeleteItem(r)
    <3>1. items' = [items EXCEPT ![i] = [items[i] EXCEPT !.status = "DELETED"]]
      BY <1>1, <1>2, <2>3 DEF DeleteItem
    <3>. QED BY <1>1, <1>2, <3>1, ItemWith
  <2>. QED BY <2>1, <2>2, <2>3
<1>5. UNCHANGED <<log, accepted>> BY DEF UpdateItem, EditItem, DeleteItem
<1>6. adrift' \in SUBSET Items /\ broken' \in SUBSET Items
  BY <1>1 DEF UpdateItem, EditItem, DeleteItem, Typed, TypeOK
<1>7. missed' \in [Requests -> SUBSET {"log", "qty"}]
  <2>1. missed' = missed \/ missed' = Missed(r, "qty", i)
    BY DEF UpdateItem, EditItem, DeleteItem
  <2>. QED BY <2>1, MissedType DEF Typed, TypeOK
<1>8. RequestsOK'
  <2>1. CASE EditItem(r) \/ DeleteItem(r)
    BY <2>1, EndType DEF EditItem, DeleteItem
  <2>2. CASE UpdateItem(r)
    <3>. DEFINE state == [q EXCEPT !.pc = "log"]
    <3>1. Go(r, state) /\ q.pc = "update" BY <2>2 DEF UpdateItem
    <3>2. state \in Request /\ state.pc = "log" /\ state.item = i /\ state.kind = q.kind
          /\ state.moves = q.moves
      BY <1>1 DEF Request, Pc
    <3>3. Sound(state) BY <1>1, <3>2 DEF Sound
    <3>. HIDE DEF state
    <3>. QED BY <3>1, <3>2, <3>3, Acting, GoType
  <2>. QED BY <2>1, <2>2
<1>. QED
  BY <1>4, <1>5, <1>6, <1>7, <1>8, TypedPartsNext DEF Typed, TypeOK, TablesOK, HistoryOK

\* What an append does to a sequence.
LEMMA Appended ==
  ASSUME NEW S, NEW s \in Seq(S), NEW e \in S
  PROVE  /\ Append(s, e) \in Seq(S) /\ Len(Append(s, e)) = Len(s) + 1
         /\ Append(s, e)[Len(s) + 1] = e /\ Append(s, e) # <<>>
         /\ \A k \in 1..Len(s) : Append(s, e)[k] = s[k]
  OBVIOUS

\* The entry a movement logs, and that of an item with stock when it is created.
Logged(r) ==
  [kind |-> req[r].kind, qty |-> req[r].qty, opening |-> req[r].opening,
   closing |-> ClosingStock(req[r].kind, req[r].opening, req[r].qty),
   raced |-> "log" \in missed[r]]

First(r) ==
  [kind |-> "initial", qty |-> req[r].qty, opening |-> 0, closing |-> req[r].qty,
   raced |-> "log" \in missed[r]]

LEMMA LoggedType ==
  ASSUME Typed, NEW r \in Requests
  PROVE  Logged(r) \in Entry /\ First(r) \in Entry
<1>1. /\ req[r].kind \in Kinds /\ req[r].qty \in Int /\ req[r].opening \in Int
  BY RequestFields DEF Typed, TypeOK
<1>2. ClosingStock(req[r].kind, req[r].opening, req[r].qty) \in Int BY <1>1, ClosingType
<1>3. ("log" \in missed[r]) \in BOOLEAN OBVIOUS
<1>. QED BY <1>1, <1>2, <1>3 DEF Logged, First, Entry, Kinds

LEMMA LogStepType ==
  ASSUME Typed, NEW r \in Requests, UNCHANGED calls, RecordLog(r) \/ CreateLog(r)
  PROVE  Typed'
<1>. DEFINE q == req[r]
            i == q.item
<1>1. i \in Items /\ q \in Request BY Acting DEF RecordLog, CreateLog
<1>2. log' = [log EXCEPT ![i] = Append(log[i], Logged(r))]
      \/ log' = [log EXCEPT ![i] = Append(log[i], First(r))]
  BY <1>1 DEF RecordLog, CreateLog, Logged, First, Typed, TypeOK
<1>3. log[i] \in Seq(Entry) BY <1>1 DEF Typed, TypeOK
<1>4. log' \in [Items -> Seq(Entry)]
  <2>1. PICK e \in Entry : log' = [log EXCEPT ![i] = Append(log[i], e)]
    BY <1>2, LoggedType
  <2>2. Append(log[i], e) \in Seq(Entry) BY <1>3, <2>1, Appended
  <2>. QED BY <1>1, <2>1, <2>2 DEF Typed, TypeOK
<1>5. UNCHANGED <<items, accepted, broken>> BY DEF RecordLog, CreateLog
<1>6. adrift' \in SUBSET Items BY <1>1 DEF RecordLog, CreateLog, Typed, TypeOK
<1>7. missed' \in [Requests -> SUBSET {"log", "qty"}]
  <2>1. missed' = Missed(r, "log", i) BY DEF RecordLog, CreateLog
  <2>. QED BY <2>1, MissedType
<1>8. RequestsOK'
  <2>1. CASE Go(r, Idle) BY <2>1, EndType
  <2>2. CASE RecordLog(r) /\ ~Go(r, Idle)
    <3>. DEFINE rest == Tail(q.moves)
                state == [q EXCEPT !.pc = "slug", !.moves = rest]
    <3>1. Go(r, state) /\ q.pc = "log" /\ q.kind = "sold" BY <2>2 DEF RecordLog
    <3>2. q.moves \in Seq(Move) /\ q.moves # <<>> BY <1>1, <3>1, Acting, RequestFields
    <3>3. rest \in Seq(Move) BY <3>2
    <3>. HIDE DEF rest
    <3>4. state \in Request /\ state.pc = "slug" /\ state.item = i /\ state.kind = q.kind
      BY <1>1, <3>3 DEF Request, Pc
    <3>5. Sound(state) BY <1>1, <3>1, <3>4 DEF Sound
    <3>. HIDE DEF state
    <3>. QED BY <3>1, <3>4, <3>5, GoType
  <2>. QED BY <2>1, <2>2 DEF CreateLog
<1>. QED
  BY <1>4, <1>5, <1>6, <1>7, <1>8, TypedPartsNext DEF Typed, TypeOK, TablesOK, HistoryOK

LEMMA BreakOffType ==
  ASSUME Typed, NEW r \in Requests, UNCHANGED calls, RowGone(r) \/ Interrupt(r)
  PROVE  Typed'
<1>1. BreakOff(r) /\ req[r].pc # "idle" BY DEF RowGone, Interrupt
<1>2. UNCHANGED <<items, log, missed, accepted>> /\ RequestsOK'
  BY <1>1, EndType DEF BreakOff
<1>3. Unmoved(req[r]) \subseteq Items
  <2>1. req[r].moves \in Seq(Move) BY Acting, RequestFields
  <2>2. \A k \in DOMAIN req[r].moves : req[r].moves[k].item \in Items
    BY <2>1, MoveFields
  <2>. QED BY <2>2 DEF Unmoved
<1>4. req[r].pc = "log" => req[r].item \in Items BY Acting
<1>5. adrift' \in SUBSET Items /\ broken' \in SUBSET Items
  BY <1>1, <1>3, <1>4 DEF BreakOff, Typed, TypeOK
<1>. QED BY <1>2, <1>5, TypedPartsNext DEF Typed, TypeOK, TablesOK, HistoryOK

LEMMA NextType == Typed /\ [Next]_vars => Typed'
<1>1. ASSUME Typed, UNCHANGED vars PROVE Typed'
  BY <1>1 DEF Typed, TypeOK, Moving, vars
<1>2. ASSUME Typed, NEW r \in Requests, Step(r) \/ Interrupt(r), UNCHANGED calls PROVE Typed'
  BY <1>2, ReadingType, ItemStepType, LogStepType, BreakOffType DEF Step
<1>. QED BY <1>1, <1>2, StartType DEF Next

\* Items, logs, requests and the history keep their types, and a handler that moves a
\* choice still has it (inventory.service.ts, order.listener.ts).
THEOREM TypeCorrect == Spec => []TypeOK
<1>1. Typed => TypeOK BY DEF Typed
<1>. QED BY <1>1, InitType, NextType, PTL DEF Spec

-----------------------------------------------------------------------------
(***************************************************************************)
(* The two records of the stock.                                           *)
(***************************************************************************)

Known == {i \in Items : items[i].status # "UNISSUED"}

\* A request knows only items that have been created.
KnownTo(q, S) ==
  /\ q.pc \notin {"idle", "line"} => q.item \in S
  /\ \A k \in DOMAIN q.moves : q.moves[k].listed => q.moves[k].item \in S
  /\ \A i \in Items : q.rows[i].status = "LISTED" => i \in S

\* Before it is created an item has no logs, and no request has it.
Unissued == /\ \A i \in Items : log[i] # <<>> => i \in Known
            /\ \A r \in Requests : KnownTo(req[r], Known)

\* What r read or wrote stands for as long as no other wrote it: the last log, or that
\* there is none, and the quantity.
LogStands(r) ==
  LET q == req[r]
  IN "log" \notin missed[r] =>
       /\ q.pc \in {"update", "log"} => log[q.item] = <<>> \/ q.opening = LastClosing(q.item)
       /\ q.pc \in {"createSlug", "createLog"} => log[q.item] = <<>>

QtyStands(r) ==
  LET q == req[r]
  IN "qty" \notin missed[r] =>
       /\ q.pc = "log" => items[q.item].qty = ClosingStock(q.kind, q.opening, q.qty)
       /\ q.pc \in {"createSlug", "createLog"} => items[q.item].qty = q.qty

Standing == \A r \in Requests : LogStands(r) /\ QtyStands(r)

IInv == Typed /\ Unissued /\ Standing /\ LogChain /\ QtyIsLastClosing

\* What a request knows only grows with the items that have been created.
LEMMA KnownMore ==
  ASSUME NEW q, NEW S, NEW T, S \subseteq T, KnownTo(q, S) PROVE KnownTo(q, T)
  BY DEF KnownTo

\* A request that has just begun, and one that has ended.
LEMMA KnownNew ==
  ASSUME NEW S, NEW q, q.moves = <<>>, q.rows = NoRows,
         q.pc \notin {"idle", "line"} => q.item \in S
  PROVE  KnownTo(q, S)
  BY DEF KnownTo, NoRows

LEMMA KnownIdle == ASSUME NEW S PROVE KnownTo(Idle, S)
  BY KnownNew DEF Idle

\* What is left of a list of moves knows no more than the list.
LEMMA KnownRest ==
  ASSUME NEW S, NEW s \in Seq(Move), s # <<>>,
         \A k \in DOMAIN s : s[k].listed => s[k].item \in S
  PROVE  \A k \in DOMAIN Tail(s) : Tail(s)[k].listed => Tail(s)[k].item \in S
<1>1. ASSUME NEW k \in DOMAIN Tail(s) PROVE Tail(s)[k] = s[k+1] /\ k + 1 \in DOMAIN s
  BY <1>1
<1>. QED BY <1>1

LEMMA UnissuedNext ==
  ASSUME Typed, Unissued, NEW r \in Requests, NEW state, Go(r, state), Known \subseteq Known',
         KnownTo(state, Known'), \A i \in Items : log'[i] # <<>> => i \in Known'
  PROVE  Unissued'
<1>1. \A q \in Requests : req'[q] = IF q = r THEN state ELSE req[q]
  BY DEF Go, Typed, TypeOK
<1>2. ASSUME NEW q \in Requests PROVE KnownTo(req'[q], Known')
  <2>1. KnownTo(req[q], Known') BY KnownMore DEF Unissued
  <2>. QED BY <1>1, <2>1
<1>. QED BY <1>2 DEF Unissued

\* Items once created stay known.
LEMMA KnownStays ==
  ASSUME Typed, NEW r \in Requests, Start(r) \/ Step(r) \/ Interrupt(r)
  PROVE  Known \subseteq Known'
<1>1. CASE items' = items BY <1>1 DEF Known
<1>2. ASSUME NEW i \in Items, NEW n \in Quantities, CreateItem(r, i, n) PROVE Known \subseteq Known'
  BY <1>2 DEF CreateItem, Known, Typed, TypeOK
<1>3. CASE UpdateItem(r) \/ EditItem(r) \/ DeleteItem(r)
  <2>. DEFINE i == req[r].item
  <2>1. i \in Items BY <1>3, Acting DEF UpdateItem, EditItem, DeleteItem
  <2>2. items[i] \in Item BY <2>1 DEF Typed, TypeOK
  <2>3. Listed(i) BY <1>3 DEF UpdateItem, EditItem, DeleteItem
  <2>4. \A j \in Items \ {i} : items'[j] = items[j]
    BY <1>3 DEF UpdateItem, EditItem, DeleteItem, Typed, TypeOK
  <2>5. items'[i].status \in {"LISTED", "DELETED"}
    BY <1>3, <2>1, <2>2, <2>3 DEF UpdateItem, EditItem, DeleteItem, Listed, Typed, TypeOK, Item
  <2>. QED BY <2>4, <2>5 DEF Known
<1>. QED
  BY <1>1, <1>2, <1>3
  DEF Start, Step, StockIn, StockOut, StockFind, EditFind, DeleteFind, SaleStart, ReadOpening,
      RecordLog, SaleLine, SaleSkip, SaleOpening, SaleSlug, SaleDone, CreateSlug, CreateLog,
      RowGone, Interrupt, BreakOff

LEMMA UnissuedStart ==
  ASSUME Typed, Unissued, NEW r \in Requests, Start(r) PROVE Unissued'
<1>. USE KnownStays
<1>1. UNCHANGED log
  BY DEF Start, StockIn, StockOut, StockFind, CreateItem, EditFind, DeleteFind, SaleStart
<1>2. \A i \in Items : log'[i] # <<>> => i \in Known' BY <1>1 DEF Unissued
<1>3. ASSUME NEW state, NEW i \in Items, Go(r, state), i \in Known', state.item = i,
             state.moves = <<>>, state.rows = NoRows
      PROVE  Unissued'
  <2>1. KnownTo(state, Known') BY <1>3, KnownNew
  <2>. QED BY <1>2, <1>3, <2>1, UnissuedNext
<1>4. ASSUME NEW i \in Items, NEW n, NEW kind, StockFind(r, i, n, kind) PROVE Unissued'
  <2>. DEFINE state == [Idle EXCEPT !.pc = "opening", !.item = i, !.kind = kind, !.qty = n,
                                    !.seen = items[i].qty]
  <2>1. Go(r, state) /\ i \in Known BY <1>4 DEF StockFind, Listed, Known
  <2>2. state.item = i /\ state.moves = <<>> /\ state.rows = NoRows BY DEF Idle
  <2>. HIDE DEF state
  <2>. QED BY <1>3, <2>1, <2>2
<1>5. ASSUME NEW i \in Items, NEW n, CreateItem(r, i, n) PROVE Unissued'
  <2>. DEFINE state == [Idle EXCEPT !.pc = "createSlug", !.item = i, !.kind = "initial", !.qty = n]
  <2>1. Go(r, state) /\ i \in Known' BY <1>5 DEF CreateItem, Known, Typed, TypeOK
  <2>2. state.item = i /\ state.moves = <<>> /\ state.rows = NoRows BY DEF Idle
  <2>. HIDE DEF state
  <2>. QED BY <1>3, <2>1, <2>2
<1>6. ASSUME NEW i \in Items, NEW n, EditFind(r, i, n) PROVE Unissued'
  <2>. DEFINE state == [Idle EXCEPT !.pc = "edit", !.item = i, !.qty = n]
  <2>1. Go(r, state) /\ i \in Known BY <1>6 DEF EditFind, Listed, Known
  <2>2. state.item = i /\ state.moves = <<>> /\ state.rows = NoRows BY DEF Idle
  <2>. HIDE DEF state
  <2>. QED BY <1>3, <2>1, <2>2
<1>7. ASSUME NEW i \in Items, DeleteFind(r, i) PROVE Unissued'
  <2>. DEFINE state == [Idle EXCEPT !.pc = "delete", !.item = i]
  <2>1. Go(r, state) /\ i \in Known BY <1>7 DEF DeleteFind, Listed, Known
  <2>2. state.item = i /\ state.moves = <<>> /\ state.rows = NoRows BY DEF Idle
  <2>. HIDE DEF state
  <2>. QED BY <1>3, <2>1, <2>2
<1>8. ASSUME NEW lines, SaleStart(r, lines) PROVE Unissued'
  <2>. DEFINE state == [Idle EXCEPT !.pc = "line", !.lines = lines, !.rows = items]
  <2>1. Go(r, state) /\ items' = items BY <1>8 DEF SaleStart
  <2>2. state.pc = "line" /\ state.moves = <<>> /\ state.rows = items BY DEF Idle
  <2>. HIDE DEF state
  <2>3. KnownTo(state, Known') BY <2>1, <2>2 DEF KnownTo, Known
  <2>. QED BY <1>2, <2>1, <2>3, UnissuedNext
<1>. QED BY <1>4, <1>5, <1>6, <1>7, <1>8 DEF Start, StockIn, StockOut

LEMMA UnissuedStep ==
  ASSUME Typed, Unissued, NEW r \in Requests, Step(r) \/ Interrupt(r) PROVE Unissued'
<1>. DEFINE q == req[r]
<1>1. Known \subseteq Known' BY KnownStays
<1>2. /\ q \in Request /\ (q.pc \notin {"idle", "line"} => q.item \in Items)
      /\ q.pc \in {"opening", "update", "log"} /\ q.kind = "sold" => q.moves # <<>>
      /\ KnownTo(q, Known) /\ KnownTo(q, Known')
  BY <1>1, Acting, KnownMore DEF Unissued
<1>3. q.moves \in Seq(Move) /\ q.lines \in Seq(Line) /\ q.rows \in [Items -> Item]
  BY <1>2, RequestFields
<1>4. \A i \in Items : log'[i] # <<>> => i \in Known'
  <2>1. CASE log' = log BY <1>1, <2>1 DEF Unissued
  <2>2. CASE RecordLog(r) \/ CreateLog(r)
    <3>1. q.item \in Known' BY <1>2, <2>2 DEF RecordLog, CreateLog, KnownTo
    <3>2. \A i \in Items \ {q.item} : log'[i] = log[i]
      BY <2>2 DEF RecordLog, CreateLog, Typed, TypeOK
    <3>. QED BY <1>1, <3>1, <3>2 DEF Unissued
  <2>. QED
    BY <2>1, <2>2
    DEF Step, ReadOpening, UpdateItem, SaleLine, SaleSkip, SaleOpening, SaleSlug, SaleDone,
        CreateSlug, EditItem, DeleteItem, RowGone, Interrupt, BreakOff
<1>5. CASE Go(r, Idle) BY <1>1, <1>4, <1>5, KnownIdle, UnissuedNext
<1>6. ASSUME NEW state, Go(r, state), state.moves = q.moves, state.rows = q.rows,
             state.pc \notin {"idle", "line"} => state.item \in Known'
      PROVE  Unissued'
  <2>1. KnownTo(state, Known') BY <1>2, <1>6 DEF KnownTo
  <2>. QED BY <1>1, <1>4, <1>6, <2>1, UnissuedNext
<1>7. CASE ReadOpening(r) /\ ~Go(r, Idle)
  <2>. DEFINE state == [q EXCEPT !.pc = "update", !.opening = OpeningStock(q.item, q.seen)]
  <2>1. Go(r, state) /\ q.pc = "opening" BY <1>7 DEF ReadOpening
  <2>2. /\ state.moves = q.moves /\ state.rows = q.rows /\ state.item = q.item
    BY <1>2 DEF Request
  <2>. HIDE DEF state
  <2>. QED BY <1>2, <1>6, <2>1, <2>2 DEF KnownTo
<1>8. CASE UpdateItem(r)
  <2>. DEFINE state == [q EXCEPT !.pc = "log"]
  <2>1. Go(r, state) /\ q.pc = "update" BY <1>8 DEF UpdateItem
  <2>2. /\ state.moves = q.moves /\ state.rows = q.rows /\ state.item = q.item
    BY <1>2 DEF Request
  <2>. HIDE DEF state
  <2>. QED BY <1>2, <1>6, <2>1, <2>2 DEF KnownTo
<1>9. CASE CreateSlug(r) /\ ~Go(r, Idle)
  <2>. DEFINE state == [q EXCEPT !.pc = "createLog"]
  <2>1. Go(r, state) /\ q.pc = "createSlug" BY <1>9 DEF CreateSlug
  <2>2. /\ state.moves = q.moves /\ state.rows = q.rows /\ state.item = q.item
    BY <1>2 DEF Request
  <2>. HIDE DEF state
  <2>. QED BY <1>2, <1>6, <2>1, <2>2 DEF KnownTo
<1>10. CASE SaleSlug(r)
  <2>. DEFINE state == [Idle EXCEPT !.pc = "line", !.lines = q.lines, !.moves = q.moves,
                                    !.rows = q.rows]
  <2>1. Go(r, state) BY <1>10 DEF SaleSlug
  <2>2. state.moves = q.moves /\ state.rows = q.rows /\ state.pc = "line" BY DEF Idle
  <2>. HIDE DEF state
  <2>. QED BY <1>6, <2>1, <2>2
<1>11. CASE SaleOpening(r)
  <2>. DEFINE m == Head(q.moves)
              state == [q EXCEPT !.pc = "update", !.kind = "sold", !.item = m.item,
                                 !.qty = m.qty, !.opening = OpeningStock(m.item, m.seen)]
  <2>1. Go(r, state) /\ q.moves # <<>> /\ m.listed BY <1>11 DEF SaleOpening
  <2>2. m = q.moves[1] /\ 1 \in DOMAIN q.moves BY <1>3, <2>1
  <2>3. m.item \in Known' BY <1>2, <2>1, <2>2 DEF KnownTo
  <2>4. /\ state.moves = q.moves /\ state.rows = q.rows /\ state.item = m.item
    BY <1>2 DEF Request
  <2>. HIDE DEF state
  <2>. QED BY <1>6, <2>1, <2>3, <2>4
<1>12. CASE SaleLine(r)
  <2>. DEFINE l == Head(q.lines)
              rest == Tail(q.lines)
              seen == IF Len(q.lines) = 1 THEN NoRows ELSE q.rows
              rows == IF l.packet THEN items ELSE q.rows
              moves == MovesOf(l, rows)
              state == [q EXCEPT !.lines = rest, !.rows = seen, !.moves = moves]
  <2>1. Go(r, state) /\ q.pc = "line" /\ q.lines # <<>> BY <1>12 DEF SaleLine
  <2>2. l \in Line BY <1>3, <2>1
  <2>3. \A i \in Items : rows[i].status = "LISTED" => i \in Known'
    BY <1>1, <1>2 DEF Known, KnownTo
  <2>4. \A i \in Items : seen[i].status = "LISTED" => i \in Known'
    BY <1>2 DEF NoRows, KnownTo
  <2>5. \A k \in DOMAIN moves : moves[k].listed => moves[k].item \in Known'
    <3>1. l.choices \in Seq(Choice) BY <2>2, LineFields
    <3>2. ASSUME NEW k \in DOMAIN moves, moves[k].listed PROVE moves[k].item \in Known'
      <4>. DEFINE c == l.choices[k]
      <4>1. k \in 1..Len(l.choices) BY <3>2 DEF MovesOf
      <4>2. c \in Choice BY <3>1, <4>1
      <4>3. c.item \in Items BY <4>2 DEF Choice
      <4>. HIDE DEF rows
      <4>4. moves[k].item = c.item /\ moves[k].listed = (rows[c.item].status = "LISTED")
        BY <4>1 DEF MovesOf
      <4>. QED BY <2>3, <3>2, <4>3, <4>4
    <3>. QED BY <3>2
  <2>. HIDE DEF moves, seen, rest
  <2>6. state.pc = "line" /\ state.rows = seen /\ state.moves = moves
    BY <1>2, <2>1 DEF Request
  <2>. HIDE DEF state
  <2>7. KnownTo(state, Known') BY <2>4, <2>5, <2>6 DEF KnownTo
  <2>. QED BY <1>1, <1>4, <2>1, <2>7, UnissuedNext
<1>13. CASE SaleSkip(r)
  <2>. DEFINE rest == Tail(q.moves)
              state == [q EXCEPT !.moves = rest]
  <2>1. Go(r, state) /\ q.pc = "line" /\ q.moves # <<>> BY <1>13 DEF SaleSkip
  <2>2. \A k \in DOMAIN rest : rest[k].listed => rest[k].item \in Known'
    BY <1>2, <1>3, <2>1, KnownRest DEF KnownTo
  <2>. HIDE DEF rest
  <2>3. state.pc = "line" /\ state.rows = q.rows /\ state.moves = rest
    BY <1>2, <2>1 DEF Request
  <2>. HIDE DEF state
  <2>4. KnownTo(state, Known') BY <1>2, <2>2, <2>3 DEF KnownTo
  <2>. QED BY <1>1, <1>4, <2>1, <2>4, UnissuedNext
<1>14. CASE RecordLog(r) /\ ~Go(r, Idle)
  <2>. DEFINE rest == Tail(q.moves)
              state == [q EXCEPT !.pc = "slug", !.moves = rest]
  <2>1. Go(r, state) /\ q.pc = "log" /\ q.kind = "sold" BY <1>14 DEF RecordLog
  <2>2. \A k \in DOMAIN rest : rest[k].listed => rest[k].item \in Known'
    BY <1>2, <1>3, <2>1, KnownRest DEF KnownTo
  <2>. HIDE DEF rest
  <2>3. state.rows = q.rows /\ state.moves = rest /\ state.item = q.item
    BY <1>2, <2>1 DEF Request
  <2>. HIDE DEF state
  <2>4. KnownTo(state, Known') BY <1>2, <2>1, <2>2, <2>3 DEF KnownTo
  <2>. QED BY <1>1, <1>4, <2>1, <2>4, UnissuedNext
<1>. QED
  BY <1>5, <1>7, <1>8, <1>9, <1>10, <1>11, <1>12, <1>13, <1>14
  DEF Step, SaleDone, CreateLog, EditItem, DeleteItem, RowGone, Interrupt, BreakOff

-----------------------------------------------------------------------------
\* Every start and every step puts one request into a new state and leaves the others.
LEMMA OneActs ==
  ASSUME Typed, NEW r \in Requests, Start(r) \/ Step(r) \/ Interrupt(r),
         NEW p \in Requests \ {r}
  PROVE  req'[p] = req[p]
<1>. USE DEF Go, Typed, TypeOK
<1>1. CASE Start(r)
  BY <1>1 DEF Start, StockIn, StockOut, StockFind, CreateItem, EditFind, DeleteFind, SaleStart
<1>2. CASE Step(r) \/ Interrupt(r)
  BY <1>2
  DEF Step, ReadOpening, UpdateItem, RecordLog, SaleLine, SaleSkip, SaleOpening, SaleSlug,
      SaleDone, CreateSlug, CreateLog, EditItem, DeleteItem, RowGone, Interrupt, BreakOff
<1>. QED BY <1>1, <1>2

\* A request that relies on the last log, or on the quantity, notices that another writes it.
LEMMA WriteNoticed ==
  ASSUME Typed, NEW r \in Requests, NEW p \in Requests \ {r}, NEW what \in {"log", "qty"}, NEW i,
         missed' = Missed(r, what, i)
  PROVE  /\ missed[p] \subseteq missed'[p]
         /\ ReliesOn(p, what, i) => what \in missed'[p]
  BY DEF Missed, Typed, TypeOK

LEMMA LogNoticed ==
  ASSUME Typed, Unissued, NEW r \in Requests, Start(r) \/ Step(r) \/ Interrupt(r),
         NEW p \in Requests \ {r}
  PROVE  /\ missed[p] \subseteq missed'[p]
         /\ req[p].pc \in {"update", "log", "createSlug", "createLog"} =>
              log'[req[p].item] = log[req[p].item] \/ "log" \in missed'[p]
<1>1. CASE RecordLog(r) \/ CreateLog(r)
  <2>. DEFINE i == req[r].item
  <2>1. missed' = Missed(r, "log", i) BY <1>1 DEF RecordLog, CreateLog
  <2>2. \A j \in Items \ {i} : log'[j] = log[j]
    BY <1>1 DEF RecordLog, CreateLog, Typed, TypeOK
  <2>3. missed[p] \subseteq missed'[p] /\ (ReliesOn(p, "log", i) => "log" \in missed'[p])
    BY <2>1, WriteNoticed
  <2>4. CASE req[p].pc \in {"update", "log", "createSlug", "createLog"}
    <3>1. req[p].item \in Items BY <2>4, Acting
    <3>2. req[p].item = i => ReliesOn(p, "log", i) BY <2>4 DEF ReliesOn
    <3>. QED BY <2>2, <2>3, <3>1, <3>2
  <2>. QED BY <2>3, <2>4
<1>2. CASE ~(RecordLog(r) \/ CreateLog(r))
  <2>1. log' = log
    BY <1>2
    DEF Start, StockIn, StockOut, StockFind, CreateItem, EditFind, DeleteFind, SaleStart, Step,
        ReadOpening, UpdateItem, SaleLine, SaleSkip, SaleOpening, SaleSlug, SaleDone, CreateSlug,
        EditItem, DeleteItem, RowGone, Interrupt, BreakOff
  <2>2. CASE UpdateItem(r) \/ EditItem(r)
    <3>1. missed' = Missed(r, "qty", req[r].item) BY <2>2 DEF UpdateItem, EditItem
    <3>. QED BY <2>1, <3>1, WriteNoticed
  <2>3. CASE ~(UpdateItem(r) \/ EditItem(r))
    <3>1. missed' = missed \/ missed' = [missed EXCEPT ![r] = {}]
      BY <1>2, <2>3
      DEF Start, StockIn, StockOut, StockFind, CreateItem, EditFind, DeleteFind, SaleStart, Step,
          ReadOpening, SaleLine, SaleSkip, SaleOpening, SaleSlug, SaleDone, CreateSlug,
          DeleteItem, RowGone, Interrupt, BreakOff
    <3>. QED BY <2>1, <3>1 DEF Typed, TypeOK
  <2>. QED BY <2>2, <2>3
<1>. QED BY <1>1, <1>2

LEMMA QtyNoticed ==
  ASSUME Typed, Unissued, NEW r \in Requests, Start(r) \/ Step(r) \/ Interrupt(r),
         NEW p \in Requests \ {r}, req[p].pc \in {"log", "createSlug", "createLog"}
  PROVE  items'[req[p].item].qty = items[req[p].item].qty \/ "qty" \in missed'[p]
<1>. DEFINE j == req[p].item
<1>1. j \in Items /\ j \in Known BY Acting DEF Unissued, KnownTo
<1>2. CASE UpdateItem(r) \/ EditItem(r)
  <2>. DEFINE i == req[r].item
  <2>1. missed' = Missed(r, "qty", i) BY <1>2 DEF UpdateItem, EditItem
  <2>2. \A k \in Items \ {i} : items'[k] = items[k]
    BY <1>2 DEF UpdateItem, EditItem, Typed, TypeOK
  <2>3. j = i => ReliesOn(p, "qty", i) BY DEF ReliesOn
  <2>. QED BY <1>1, <2>1, <2>2, <2>3, WriteNoticed
<1>3. CASE DeleteItem(r)
  <2>1. items' = [items EXCEPT ![req[r].item].status = "DELETED"] BY <1>3 DEF DeleteItem
  <2>2. items[j] \in Item BY <1>1 DEF Typed, TypeOK
  <2>. QED BY <1>1, <2>1, <2>2 DEF Typed, TypeOK, Item
<1>4. ASSUME NEW i \in Items, NEW n, CreateItem(r, i, n)
      PROVE  items'[j] = items[j]
  BY <1>1, <1>4 DEF CreateItem, Known, Typed, TypeOK
<1>5. CASE items' = items BY <1>5
<1>. QED
  BY <1>2, <1>3, <1>4, <1>5
  DEF Start, StockIn, StockOut, StockFind, EditFind, DeleteFind, SaleStart, Step, ReadOpening,
      RecordLog, SaleLine, SaleSkip, SaleOpening, SaleSlug, SaleDone, CreateSlug, CreateLog,
      RowGone, Interrupt, BreakOff

\* What another request relies on stands.
LEMMA OthersStand ==
  ASSUME Typed, Unissued, Standing, NEW r \in Requests, Start(r) \/ Step(r) \/ Interrupt(r),
         NEW p \in Requests \ {r}
  PROVE  LogStands(p)' /\ QtyStands(p)'
<1>1. req'[p] = req[p] BY OneActs
<1>2. /\ missed[p] \subseteq missed'[p]
      /\ req[p].pc \in {"update", "log", "createSlug", "createLog"} =>
           log'[req[p].item] = log[req[p].item] \/ "log" \in missed'[p]
  BY LogNoticed
<1>3. req[p].pc \in {"log", "createSlug", "createLog"} =>
        items'[req[p].item].qty = items[req[p].item].qty \/ "qty" \in missed'[p]
  BY QtyNoticed
<1>4. LogStands(p) /\ QtyStands(p) BY DEF Standing
<1>5. LogStands(p)' BY <1>1, <1>2, <1>4 DEF LogStands, LastClosing
<1>6. QtyStands(p)' BY <1>1, <1>2, <1>3, <1>4 DEF QtyStands
<1>. QED BY <1>5, <1>6

\* So does what the request itself has just read or written.
LEMMA ActorStandsStart ==
  ASSUME Typed, Unissued, NEW r \in Requests, Start(r) PROVE LogStands(r)' /\ QtyStands(r)'
<1>. USE DEF Typed, TypeOK, Go
<1>1. CASE req'[r].pc \in {"opening", "edit", "delete", "line"}
  BY <1>1 DEF LogStands, QtyStands
<1>2. ASSUME NEW i \in Items, NEW n \in Quantities, CreateItem(r, i, n)
      PROVE  LogStands(r)' /\ QtyStands(r)'
  <2>1. req'[r].pc = "createSlug" /\ req'[r].item = i /\ req'[r].qty = n
    BY <1>2 DEF CreateItem, Idle
  <2>2. items'[i].qty = n /\ log' = log BY <1>2 DEF CreateItem
  <2>3. log[i] = <<>> BY <1>2 DEF CreateItem, Unissued, Known
  <2>. QED BY <2>1, <2>2, <2>3 DEF LogStands, QtyStands
<1>3. ASSUME NEW i \in Items, NEW n, NEW kind, StockFind(r, i, n, kind)
      PROVE  LogStands(r)' /\ QtyStands(r)'
  BY <1>1, <1>3 DEF StockFind, Idle
<1>4. ASSUME NEW i \in Items, NEW n, EditFind(r, i, n)
      PROVE  LogStands(r)' /\ QtyStands(r)'
  BY <1>1, <1>4 DEF EditFind, Idle
<1>5. ASSUME NEW i \in Items, DeleteFind(r, i) PROVE LogStands(r)' /\ QtyStands(r)'
  BY <1>1, <1>5 DEF DeleteFind, Idle
<1>6. ASSUME NEW lines, SaleStart(r, lines) PROVE LogStands(r)' /\ QtyStands(r)'
  BY <1>1, <1>6 DEF SaleStart, Idle
<1>. HIDE DEF Typed, TypeOK, Go
<1>. QED BY <1>2, <1>3, <1>4, <1>5, <1>6 DEF Start, StockIn, StockOut

LEMMA ActorStands ==
  ASSUME Typed, Unissued, Standing, NEW r \in Requests, Step(r) \/ Interrupt(r)
  PROVE  LogStands(r)' /\ QtyStands(r)'
<1>. DEFINE q == req[r]
<1>1. q \in Request /\ LogStands(r) /\ QtyStands(r) BY Acting DEF Standing
<1>2. ASSUME NEW state, Go(r, state) PROVE req'[r] = state
  BY <1>2 DEF Go, Typed, TypeOK
<1>3. CASE req'[r].pc \in {"idle", "line", "slug"}
  BY <1>3 DEF LogStands, QtyStands
<1>4. CASE Go(r, Idle) BY <1>2, <1>3, <1>4, IdleType
<1>5. CASE ReadOpening(r) /\ ~Go(r, Idle)
  <2>. DEFINE o == OpeningStock(q.item, q.seen)
              state == [q EXCEPT !.pc = "update", !.opening = o]
  <2>1. Go(r, state) /\ log' = log BY <1>5 DEF ReadOpening
  <2>2. req'[r].pc = "update" /\ req'[r].item = q.item /\ req'[r].opening = o
    BY <1>1, <1>2, <2>1 DEF Request
  <2>3. log[q.item] = <<>> \/ o = LastClosing(q.item) BY DEF OpeningStock
  <2>. HIDE DEF o
  <2>. QED BY <2>1, <2>2, <2>3 DEF LogStands, QtyStands, LastClosing
<1>6. CASE SaleOpening(r)
  <2>. DEFINE m == Head(q.moves)
              o == OpeningStock(m.item, m.seen)
              state == [q EXCEPT !.pc = "update", !.kind = "sold", !.item = m.item,
                                 !.qty = m.qty, !.opening = o]
  <2>1. Go(r, state) /\ log' = log BY <1>6 DEF SaleOpening
  <2>2. req'[r].pc = "update" /\ req'[r].item = m.item /\ req'[r].opening = o
    BY <1>1, <1>2, <2>1 DEF Request
  <2>3. log[m.item] = <<>> \/ o = LastClosing(m.item) BY DEF OpeningStock
  <2>. HIDE DEF o, m
  <2>. QED BY <2>1, <2>2, <2>3 DEF LogStands, QtyStands, LastClosing
<1>7. CASE UpdateItem(r)
  <2>. DEFINE i == q.item
              c == ClosingStock(q.kind, q.opening, q.qty)
              state == [q EXCEPT !.pc = "log"]
  <2>1. Go(r, state) /\ log' = log /\ q.pc = "update" BY <1>7 DEF UpdateItem
  <2>2. /\ req'[r].pc = "log" /\ req'[r].item = i /\ req'[r].opening = q.opening
        /\ req'[r].kind = q.kind /\ req'[r].qty = q.qty
    BY <1>1, <1>2, <2>1 DEF Request
  <2>3. i \in Items /\ items[i] \in Item BY <2>1, Acting DEF Typed, TypeOK
  <2>4. items'[i].qty = c BY <1>7, <2>3 DEF UpdateItem, Typed, TypeOK, Item
  <2>5. "log" \in missed[r] => "log" \in missed'[r]
    BY <1>7 DEF UpdateItem, Missed, Typed, TypeOK
  <2>6. LogStands(r)' BY <1>1, <2>1, <2>2, <2>5 DEF LogStands, LastClosing
  <2>7. QtyStands(r)' BY <2>2, <2>4 DEF QtyStands, ClosingStock
  <2>. QED BY <2>6, <2>7
<1>8. CASE CreateSlug(r) /\ ~Go(r, Idle)
  <2>. DEFINE state == [q EXCEPT !.pc = "createLog"]
  <2>1. Go(r, state) /\ q.pc = "createSlug" /\ UNCHANGED <<items, log, missed>>
    BY <1>8 DEF CreateSlug
  <2>2. req'[r].pc = "createLog" /\ req'[r].item = q.item /\ req'[r].qty = q.qty
    BY <1>1, <1>2, <2>1 DEF Request
  <2>. QED BY <1>1, <2>1, <2>2 DEF LogStands, QtyStands
<1>9. CASE SaleLine(r) \/ SaleSkip(r) \/ SaleSlug(r)
  <2>1. req'[r].pc = "line"
    BY <1>1, <1>2, <1>9 DEF SaleLine, SaleSkip, SaleSlug, Request, Idle
  <2>. QED BY <1>3, <2>1
<1>10. CASE RecordLog(r) /\ ~Go(r, Idle)
  <2>1. req'[r].pc = "slug" BY <1>1, <1>2, <1>10 DEF RecordLog, Request
  <2>. QED BY <1>3, <2>1
<1>. QED
  BY <1>4, <1>5, <1>6, <1>7, <1>8, <1>9, <1>10
  DEF Step, SaleDone, CreateLog, EditItem, DeleteItem, RowGone, Interrupt, BreakOff

LEMMA StandingNext ==
  ASSUME Typed, Unissued, Standing, NEW r \in Requests, Start(r) \/ Step(r) \/ Interrupt(r)
  PROVE  Standing'
<1>1. ASSUME NEW p \in Requests PROVE LogStands(p)' /\ QtyStands(p)'
  BY OthersStand, ActorStands, ActorStandsStart
<1>. QED BY <1>1 DEF Standing

-----------------------------------------------------------------------------
\* The chain of an item whose log has grown by one entry.
LEMMA ChainGrows ==
  ASSUME NEW s \in Seq(Entry), NEW e \in Entry,
         \A n \in 2..Len(s) : s[n].raced \/ s[n].opening = s[n-1].closing,
         s = <<>> \/ e.raced \/ e.opening = s[Len(s)].closing
  PROVE  \A n \in 2..Len(Append(s, e)) :
           Append(s, e)[n].raced \/ Append(s, e)[n].opening = Append(s, e)[n-1].closing
<1>. DEFINE t == Append(s, e)
<1>1. Len(s) \in Nat OBVIOUS
<1>2. Len(t) = Len(s) + 1 /\ t[Len(s) + 1] = e /\ \A k \in 1..Len(s) : t[k] = s[k]
  BY Appended
<1>. HIDE DEF t
<1>3. ASSUME NEW n \in 2..Len(t) PROVE t[n].raced \/ t[n].opening = t[n-1].closing
  <2>1. CASE n \in 2..Len(s)
    <3>1. n \in 1..Len(s) /\ n - 1 \in 1..Len(s) BY <1>1, <2>1
    <3>. QED BY <1>2, <2>1, <3>1
  <2>2. CASE n \notin 2..Len(s)
    <3>1. n = Len(s) + 1 /\ n - 1 = Len(s) BY <1>1, <1>2, <2>2
    <3>2. Len(s) \in 1..Len(s) /\ s # <<>> BY <1>1, <1>3, <3>1
    <3>. QED BY <1>2, <3>1, <3>2
  <2>. QED BY <2>1, <2>2
<1>. QED BY <1>3 DEF t

\* The step that writes a log: the entry, and what it leaves.
LEMMA LogWritten ==
  ASSUME Typed, Standing, NEW r \in Requests, RecordLog(r) \/ CreateLog(r)
  PROVE  LET i == req[r].item
         IN \E e \in Entry :
              /\ i \in Items /\ items' = items /\ log' = [log EXCEPT ![i] = Append(log[i], e)]
              /\ log[i] = <<>> \/ e.raced \/ e.opening = LastClosing(i)
              /\ e.closing = ClosingStock(e.kind, e.opening, e.qty)
              /\ adrift' = adrift \cup {i} \/ (adrift' = adrift \ {i} /\ items[i].qty = e.closing)
<1>. DEFINE q == req[r]
            i == q.item
<1>1. i \in Items /\ LogStands(r) /\ QtyStands(r)
  BY Acting DEF RecordLog, CreateLog, Standing
<1>2. CASE RecordLog(r)
  <2>. DEFINE e == Logged(r)
  <2>1. e \in Entry BY LoggedType
  <2>2. log' = [log EXCEPT ![i] = Append(log[i], e)]
    BY <1>1, <1>2 DEF RecordLog, Logged, Typed, TypeOK
  <2>3. log[i] = <<>> \/ e.raced \/ e.opening = LastClosing(i)
    BY <1>1, <1>2 DEF RecordLog, Logged, LogStands
  <2>4. adrift' = adrift \cup {i} \/ (adrift' = adrift \ {i} /\ items[i].qty = e.closing)
    BY <1>1, <1>2 DEF RecordLog, Logged, QtyStands
  <2>5. items' = items BY <1>2 DEF RecordLog
  <2>6. e.closing = ClosingStock(e.kind, e.opening, e.qty) BY DEF Logged
  <2>. HIDE DEF e
  <2>. QED BY <1>1, <2>1, <2>2, <2>3, <2>4, <2>5, <2>6
<1>3. CASE CreateLog(r)
  <2>. DEFINE e == First(r)
  <2>1. e \in Entry BY LoggedType
  <2>2. log' = [log EXCEPT ![i] = Append(log[i], e)]
    BY <1>1, <1>3 DEF CreateLog, First, Typed, TypeOK
  <2>3. log[i] = <<>> \/ e.raced \/ e.opening = LastClosing(i)
    BY <1>1, <1>3 DEF CreateLog, First, LogStands
  <2>4. adrift' = adrift \cup {i} \/ (adrift' = adrift \ {i} /\ items[i].qty = e.closing)
    BY <1>1, <1>3 DEF CreateLog, First, QtyStands
  <2>5. items' = items BY <1>3 DEF CreateLog
  <2>6. e.closing = ClosingStock(e.kind, e.opening, e.qty)
    <3>1. q.qty \in Int BY Acting, RequestFields
    <3>. QED BY <3>1 DEF First, ClosingStock
  <2>. HIDE DEF e
  <2>. QED BY <1>1, <2>1, <2>2, <2>3, <2>4, <2>5, <2>6
<1>. QED BY <1>2, <1>3

LEMMA ChainNext ==
  ASSUME Typed, Standing, LogChain, NEW r \in Requests, Start(r) \/ Step(r) \/ Interrupt(r)
  PROVE  LogChain'
<1>1. CASE log' = log BY <1>1 DEF LogChain
<1>2. CASE RecordLog(r) \/ CreateLog(r)
  <2>. DEFINE i == req[r].item
  <2>1. PICK e \in Entry : /\ i \in Items /\ log' = [log EXCEPT ![i] = Append(log[i], e)]
                           /\ log[i] = <<>> \/ e.raced \/ e.opening = LastClosing(i)
    BY <1>2, LogWritten
  <2>2. log[i] \in Seq(Entry) BY <2>1 DEF Typed, TypeOK
  <2>3. log'[i] = Append(log[i], e) /\ \A j \in Items \ {i} : log'[j] = log[j]
    BY <2>1 DEF Typed, TypeOK
  <2>4. \A n \in 2..Len(log'[i]) :
          log'[i][n].raced \/ log'[i][n].opening = log'[i][n-1].closing
    <3>1. /\ \A n \in 2..Len(log[i]) : log[i][n].raced \/ log[i][n].opening = log[i][n-1].closing
          /\ log[i] = <<>> \/ e.raced \/ e.opening = log[i][Len(log[i])].closing
      BY <2>1 DEF LogChain, LastClosing
    <3>. DEFINE t == Append(log[i], e)
    <3>2. \A n \in 2..Len(t) : t[n].raced \/ t[n].opening = t[n-1].closing
      BY <2>2, <3>1, ChainGrows
    <3>. QED BY <2>3, <3>2
  <2>. QED BY <2>3, <2>4 DEF LogChain
<1>. QED
  BY <1>1, <1>2
  DEF Start, StockIn, StockOut, StockFind, CreateItem, EditFind, DeleteFind, SaleStart, Step,
      ReadOpening, UpdateItem, SaleLine, SaleSkip, SaleOpening, SaleSlug, SaleDone, CreateSlug,
      EditItem, DeleteItem, RowGone, Interrupt, BreakOff

\* An item whose quantity, log and state of drift stay keeps its agreement, unless the
\* request that stood between its two writes has gone on.
Between(p, i) == req[p].pc = "log" /\ req[p].item = i

Agrees(i) == \/ log[i] = <<>> \/ i \in adrift
             \/ \E p \in Requests : Between(p, i)
             \/ items[i].qty = LastClosing(i)

LEMMA AgreesKept ==
  ASSUME NEW i, Agrees(i), log'[i] = log[i], items'[i].qty = items[i].qty,
         i \in adrift => i \in adrift',
         \A p \in Requests : Between(p, i) => Between(p, i)' \/ i \in adrift'
  PROVE  Agrees(i)'
  BY DEF Agrees, LastClosing

LEMMA AgreesAllNext == (\A i \in Items : Agrees(i)') => QtyIsLastClosing'
  BY DEF QtyIsLastClosing, Agrees, Between

LEMMA QtyNext ==
  ASSUME Typed, Unissued, Standing, QtyIsLastClosing, NEW r \in Requests,
         Start(r) \/ Step(r) \/ Interrupt(r)
  PROVE  QtyIsLastClosing'
<1>. DEFINE i == req[r].item
<1>. SUFFICES ASSUME NEW j \in Items PROVE Agrees(j)'
  BY AgreesAllNext
<1>1. Agrees(j) BY DEF QtyIsLastClosing, Agrees, Between
<1>2. \A p \in Requests \ {r} : Between(p, j) => Between(p, j)'
  <2>1. \A p \in Requests \ {r} : req'[p] = req[p] BY OneActs
  <2>. QED BY <2>1 DEF Between
<1>3. CASE RecordLog(r) \/ CreateLog(r)
  <2>1. PICK e \in Entry :
          /\ i \in Items /\ items' = items /\ log' = [log EXCEPT ![i] = Append(log[i], e)]
          /\ adrift' = adrift \cup {i} \/ (adrift' = adrift \ {i} /\ items[i].qty = e.closing)
    BY <1>3, LogWritten
  <2>2. CASE j = i
    <3>1. log[j] \in Seq(Entry) BY DEF Typed, TypeOK
    <3>2. log'[j] = Append(log[j], e) BY <2>1, <2>2 DEF Typed, TypeOK
    <3>3. Len(log'[j]) = Len(log[j]) + 1 /\ log'[j][Len(log[j]) + 1] = e BY <3>1, <3>2, Appended
    <3>4. log'[j][Len(log'[j])] = e BY <3>3
    <3>5. j \in adrift' \/ items'[j].qty = e.closing BY <2>1, <2>2
    <3>. QED BY <3>4, <3>5 DEF Agrees, LastClosing
  <2>3. CASE j # i
    <3>1. log'[j] = log[j] BY <2>1, <2>3 DEF Typed, TypeOK
    <3>2. j \in adrift => j \in adrift' BY <2>1, <2>3
    <3>3. ~Between(r, j) BY <2>3 DEF Between
    <3>. QED BY <1>1, <1>2, <2>1, <3>1, <3>2, <3>3, AgreesKept
  <2>. QED BY <2>2, <2>3
<1>4. CASE UpdateItem(r)
  <2>1. req'[r].pc = "log" /\ req'[r].item = i /\ i \in Items
    BY <1>4, Acting DEF UpdateItem, Go, Typed, TypeOK, Request
  <2>2. CASE j = i BY <2>1, <2>2 DEF Agrees, Between
  <2>3. CASE j # i
    <3>1. log' = log /\ adrift' = adrift /\ items'[j] = items[j] /\ ~Between(r, j)
      BY <1>4, <2>3 DEF UpdateItem, Between, Typed, TypeOK
    <3>. QED BY <1>1, <1>2, <3>1, AgreesKept
  <2>. QED BY <2>2, <2>3
<1>5. CASE EditItem(r)
  <2>1. CASE j = i BY <1>5, <2>1 DEF EditItem, Agrees
  <2>2. CASE j # i
    <3>1. log' = log /\ adrift \subseteq adrift' /\ items'[j] = items[j] /\ ~Between(r, j)
      BY <1>5, <2>2 DEF EditItem, Between, Typed, TypeOK
    <3>. QED BY <1>1, <1>2, <3>1, AgreesKept
  <2>. QED BY <2>1, <2>2
<1>6. CASE DeleteItem(r)
  <2>1. log' = log /\ adrift' = adrift /\ ~Between(r, j) BY <1>6 DEF DeleteItem, Between
  <2>2. items[j] \in Item BY DEF Typed, TypeOK
  <2>3. items'[j].qty = items[j].qty BY <1>6, <2>2 DEF DeleteItem, Typed, TypeOK, Item
  <2>. QED BY <1>1, <1>2, <2>1, <2>3, AgreesKept
<1>7. CASE RowGone(r) \/ Interrupt(r)
  <2>1. BreakOff(r) BY <1>7 DEF RowGone, Interrupt
  <2>2. /\ log' = log /\ items' = items /\ adrift \subseteq adrift'
        /\ Between(r, j) => j \in adrift'
    BY <2>1 DEF BreakOff, Between
  <2>. QED BY <1>1, <1>2, <2>2, AgreesKept
<1>8. ASSUME NEW k \in Items, NEW n, CreateItem(r, k, n) PROVE Agrees(j)'
  <2>1. log' = log /\ adrift' = adrift /\ ~Between(r, j)
    BY <1>8 DEF CreateItem, MayStart, Between
  <2>2. CASE j = k
    <3>1. log[j] = <<>> BY <1>8, <2>2 DEF CreateItem, Unissued, Known
    <3>. QED BY <2>1, <3>1 DEF Agrees
  <2>3. CASE j # k
    <3>1. items'[j] = items[j] BY <1>8, <2>3 DEF CreateItem, Typed, TypeOK
    <3>. QED BY <1>1, <1>2, <2>1, <3>1, AgreesKept
  <2>. QED BY <2>2, <2>3
<1>9. CASE UNCHANGED <<items, log, adrift>> /\ req[r].pc # "log"
  BY <1>1, <1>2, <1>9, AgreesKept DEF Between
<1>. QED
  BY <1>3, <1>4, <1>5, <1>6, <1>7, <1>8, <1>9
  DEF Start, StockIn, StockOut, StockFind, EditFind, DeleteFind, SaleStart, MayStart, Step,
      ReadOpening, SaleLine, SaleSkip, SaleOpening, SaleSlug, SaleDone, CreateSlug

LEMMA InitInv == Init => IInv
<1>. SUFFICES ASSUME Init PROVE IInv OBVIOUS
<1>1. Unissued BY KnownIdle DEF Init, Unissued
<1>2. Standing BY IdleType DEF Init, Standing, LogStands, QtyStands
<1>3. LogChain /\ QtyIsLastClosing BY DEF Init, LogChain, QtyIsLastClosing
<1>. QED BY <1>1, <1>2, <1>3, InitType DEF IInv

LEMMA NextInv == IInv /\ [Next]_vars => IInv'
<1>1. ASSUME IInv, UNCHANGED vars PROVE IInv'
  <2>1. Typed' BY <1>1, NextType DEF IInv
  <2>2. Unissued' BY <1>1 DEF IInv, vars, Unissued, Known
  <2>3. Standing' BY <1>1 DEF IInv, vars, Standing, LogStands, QtyStands, LastClosing
  <2>4. LogChain' /\ QtyIsLastClosing'
    BY <1>1 DEF IInv, vars, LogChain, QtyIsLastClosing, LastClosing
  <2>. QED BY <2>1, <2>2, <2>3, <2>4 DEF IInv
<1>2. ASSUME IInv, Next, NEW r \in Requests, Start(r) \/ Step(r) \/ Interrupt(r) PROVE IInv'
  <2>1. Typed' BY <1>2, NextType DEF IInv
  <2>2. Unissued' BY <1>2, UnissuedStart, UnissuedStep DEF IInv
  <2>3. Standing' BY <1>2, StandingNext DEF IInv
  <2>4. LogChain' BY <1>2, ChainNext DEF IInv
  <2>5. QtyIsLastClosing' BY <1>2, QtyNext DEF IInv
  <2>. QED BY <2>1, <2>2, <2>3, <2>4, <2>5 DEF IInv
<1>. QED BY <1>1, <1>2 DEF Next

\* The strengthening: the items nobody has created yet, what each request may rely on,
\* and the two properties below.
THEOREM Safety == Spec => []IInv
  BY InitInv, NextInv, PTL DEF Spec

\* The logs of an item form a chain: each opens where the one before closed, unless
\* another movement of the item was logged between the findFirst and the create of this
\* one (inventory.service.ts and order.listener.ts: neither holds a transaction).
THEOREM LogChainTheorem == Spec => []LogChain
<1>1. IInv => LogChain BY DEF IInv
<1>. QED BY <1>1, Safety, PTL

\* inventoryQty is the closing stock of the last log, unless a movement stands between its
\* two writes, broke off there or was overtaken there, or updateItem set the quantity.
THEOREM QtyTheorem == Spec => []QtyIsLastClosing
<1>1. IInv => QtyIsLastClosing BY DEF IInv
<1>. QED BY <1>1, Safety, PTL

-----------------------------------------------------------------------------
(***************************************************************************)
(* The inventory report.                                                   *)
(***************************************************************************)

\* A total over the logs of an item when one more is written, and over none.
Counted(kinds, e) == IF e.kind \in kinds THEN e.qty ELSE 0

LEMMA TotalGrows ==
  ASSUME NEW kinds, NEW s \in Seq(Entry), NEW e \in Entry
  PROVE  TotalOf(kinds, Append(s, e)) = TotalOf(kinds, s) + Counted(kinds, e)
<1>. DEFINE t == Append(s, e)
            f == [k \in DOMAIN s |-> Counted(kinds, s[k])]
            g == [k \in DOMAIN t |-> Counted(kinds, t[k])]
            n == Len(s)
<1>1. /\ n \in Nat /\ DOMAIN s = 1..n /\ DOMAIN t = 1..(n + 1) /\ t[n + 1] = e
      /\ \A k \in 1..n : t[k] = s[k] /\ k \in 1..(n + 1)
  BY Appended
<1>2. ASSUME NEW w \in Entry PROVE Counted(kinds, w) \in Int
  BY EntryFields DEF Counted
<1>3. \A k \in 1..n : s[k] \in Entry BY <1>1
<1>. HIDE DEF t, n
<1>4. DOMAIN f = 1..n /\ DOMAIN g = 1..(n + 1) BY <1>1
<1>5. \A k \in 1..n : f[k] \in Int /\ g[k] = f[k] BY <1>1, <1>2, <1>3
<1>6. g[n + 1] = Counted(kinds, e) /\ Counted(kinds, e) \in Int BY <1>1, <1>2
<1>7. TotalOf(kinds, s) = SumFunction(f) /\ TotalOf(kinds, t) = SumFunction(g)
  BY DEF TotalOf, Counted
<1>. HIDE DEF f, g
<1>8. SumFunction(g) = SumFunction(f) + g[n + 1] BY <1>1, <1>4, <1>5, <1>6, SumAppend
<1>. QED BY <1>6, <1>7, <1>8 DEF t

LEMMA TotalEmpty == ASSUME NEW kinds PROVE TotalOf(kinds, <<>>) = 0
<1>. DEFINE f == [k \in DOMAIN <<>> |-> Counted(kinds, <<>>[k])]
<1>1. TotalOf(kinds, <<>>) = SumFunctionOnSet(f, DOMAIN f) BY DEF TotalOf, SumFunction, Counted
<1>2. DOMAIN f = {} OBVIOUS
<1>. HIDE DEF f
<1>. QED BY <1>1, <1>2, SumEmpty

LEMMA TotalType == ASSUME NEW kinds, NEW s \in Seq(Entry) PROVE TotalOf(kinds, s) \in Int
<1>. DEFINE f == [k \in DOMAIN s |-> Counted(kinds, s[k])]
<1>1. \A k \in DOMAIN s : f[k] \in Int BY EntryFields DEF Counted
<1>2. DOMAIN f = 1..Len(s) /\ IsFiniteSet(1..Len(s)) BY FS_Interval
<1>3. TotalOf(kinds, s) = SumFunctionOnSet(f, DOMAIN f) BY DEF TotalOf, SumFunction, Counted
<1>. HIDE DEF f
<1>. QED BY <1>1, <1>2, <1>3, SumInt

\* What the report says of the logs s of an item.
Balanced(s) ==
  \/ s = <<>> \/ \E n \in DOMAIN s : s[n].raced
  \/ s[Len(s)].closing = s[1].opening + TotalOf({"in", "initial"}, s) - TotalOf({"out"}, s)
                           - TotalOf({"sold"}, s)

\* An entry that says what it did to the stock, and opens where the log closed, keeps
\* the balance.
LEMMA BalanceGrows ==
  ASSUME NEW s \in Seq(Entry), NEW e \in Entry, Balanced(s),
         s = <<>> \/ e.raced \/ e.opening = s[Len(s)].closing,
         e.closing = ClosingStock(e.kind, e.opening, e.qty)
  PROVE  Balanced(Append(s, e))
<1>. DEFINE t == Append(s, e)
            In(w) == TotalOf({"in", "initial"}, w)
            Out(w) == TotalOf({"out"}, w)
            Sold(w) == TotalOf({"sold"}, w)
<1>1. /\ Len(s) \in Nat /\ Len(t) = Len(s) + 1 /\ t[Len(s) + 1] = e
      /\ DOMAIN s = 1..Len(s) /\ DOMAIN t = 1..Len(t) /\ \A k \in 1..Len(s) : t[k] = s[k]
  BY Appended
<1>2. /\ e.kind \in Kinds /\ e.qty \in Int /\ e.opening \in Int BY EntryFields
<1>3. /\ In(t) = In(s) + Counted({"in", "initial"}, e)
      /\ Out(t) = Out(s) + Counted({"out"}, e)
      /\ Sold(t) = Sold(s) + Counted({"sold"}, e)
  BY TotalGrows
<1>4. In(s) \in Int /\ Out(s) \in Int /\ Sold(s) \in Int BY TotalType
<1>. DEFINE a == Counted({"in", "initial"}, e)
            b == Counted({"out"}, e)
            c == Counted({"sold"}, e)
<1>5. a \in Int /\ b \in Int /\ c \in Int /\ e.closing = e.opening + a - b - c
  BY <1>2 DEF Counted, ClosingStock, Kinds
<1>6. CASE s = <<>>
  <2>1. In(s) = 0 /\ Out(s) = 0 /\ Sold(s) = 0 BY <1>6, TotalEmpty
  <2>2. Len(t) = 1 /\ t[1] = e BY <1>1, <1>6
  <2>. HIDE DEF t, a, b, c, In, Out, Sold
  <2>3. e.closing = e.opening + In(t) - Out(t) - Sold(t)
    BY <1>2, <1>5, <2>1, <1>3 DEF a, b, c
  <2>. QED BY <2>2, <2>3 DEF Balanced, t, In, Out, Sold
<1>7. CASE e.raced
  <2>1. Len(s) + 1 \in DOMAIN t BY <1>1
  <2>. HIDE DEF t
  <2>. QED BY <1>1, <1>7, <2>1 DEF Balanced, t
<1>8. CASE \E n \in DOMAIN s : s[n].raced
  <2>1. PICK n \in 1..Len(s) : s[n].raced BY <1>1, <1>8
  <2>2. n \in DOMAIN t /\ t[n].raced BY <1>1, <2>1
  <2>. HIDE DEF t
  <2>. QED BY <2>2 DEF Balanced, t
<1>9. CASE s # <<>> /\ ~e.raced /\ ~\E n \in DOMAIN s : s[n].raced
  <2>1. e.opening = s[1].opening + In(s) - Out(s) - Sold(s) BY <1>9 DEF Balanced
  <2>2. s[1] \in Entry /\ t[1] = s[1] /\ t[Len(t)] = e BY <1>1, <1>9
  <2>3. s[1].opening \in Int BY <2>2, EntryFields
  <2>. HIDE DEF t, a, b, c, In, Out, Sold
  <2>4. e.closing = s[1].opening + In(t) - Out(t) - Sold(t)
    BY <1>2, <1>3, <1>4, <1>5, <2>1, <2>3 DEF a, b, c
  <2>. QED BY <2>2, <2>4 DEF Balanced, t, In, Out, Sold
<1>. QED BY <1>6, <1>7, <1>8, <1>9

LEMMA ReportSays == ReportBalances <=> \A i \in Items : Balanced(log[i])
  BY DEF ReportBalances, Balanced, Summary, LastClosing

LEMMA ReportSaysNext == (\A i \in Items : Balanced(log'[i])) => ReportBalances'
  BY DEF ReportBalances, Balanced, Summary, LastClosing

LEMMA ReportNext ==
  ASSUME IInv, ReportBalances, [Next]_vars PROVE ReportBalances'
<1>1. CASE log' = log BY <1>1, ReportSays, ReportSaysNext
<1>2. ASSUME NEW r \in Requests, RecordLog(r) \/ CreateLog(r) PROVE ReportBalances'
  <2>. DEFINE i == req[r].item
  <2>1. PICK e \in Entry : /\ i \in Items /\ log' = [log EXCEPT ![i] = Append(log[i], e)]
                           /\ log[i] = <<>> \/ e.raced \/ e.opening = LastClosing(i)
                           /\ e.closing = ClosingStock(e.kind, e.opening, e.qty)
    BY <1>2, LogWritten DEF IInv
  <2>2. log \in [Items -> Seq(Entry)] BY DEF IInv, Typed, TypeOK
  <2>3. log'[i] = Append(log[i], e) /\ \A j \in Items \ {i} : log'[j] = log[j]
    BY <2>1, <2>2
  <2>4. Balanced(log[i]) /\ log[i] \in Seq(Entry) BY <2>1, <2>2, ReportSays
  <2>5. Balanced(Append(log[i], e)) BY <2>1, <2>4, BalanceGrows DEF LastClosing
  <2>. QED BY <2>3, <2>5, ReportSays, ReportSaysNext
<1>. QED
  BY <1>1, <1>2
  DEF Next, vars, Start, StockIn, StockOut, StockFind, CreateItem, EditFind, DeleteFind,
      SaleStart, Step, ReadOpening, UpdateItem, SaleLine, SaleSkip, SaleOpening, SaleSlug,
      SaleDone, CreateSlug, EditItem, DeleteItem, RowGone, Interrupt, BreakOff

\* The inventory report balances: where no two movements raced, the first opening stock
\* and calculateSummary's totals give the stock that is left.
THEOREM ReportTheorem == Spec => []ReportBalances
<1>1. Init => ReportBalances BY DEF Init, ReportBalances
<1>. QED BY <1>1, InitInv, NextInv, ReportNext, PTL DEF Spec

-----------------------------------------------------------------------------
(***************************************************************************)
(* The paid orders leave the stock.                                        *)
(***************************************************************************)

\* What the moves that a handler has before it take of item i, and what it still has to
\* take in all.
ToMove(moves, i) ==
  SumFunction([k \in DOMAIN moves |-> IF moves[k].item = i THEN moves[k].qty ELSE 0])

Left(q, i) == ToMove(q.moves, i) + Demand(q.lines, i)

\* Only a handler has lines and moves, and what it is moving is the first of its moves.
Selling(q) ==
  /\ q.kind = "sold" => q.pc \in {"update", "log", "slug"}
  /\ q.kind # "sold" /\ q.pc # "line" => q.moves = <<>> /\ q.lines = <<>>
  /\ q.kind = "sold" /\ q.pc # "slug" =>
       q.moves # <<>> /\ q.item = Head(q.moves).item /\ q.qty = Head(q.moves).qty

\* What a handler has to move has been created, S being what has; and what it found
\* deleted, or will pass over, is in B.
Asked(q, S, B) ==
  /\ \A k \in DOMAIN q.lines : \A n \in DOMAIN q.lines[k].choices :
       LET i == q.lines[k].choices[n].item IN i \in S /\ q.rows[i].status # "UNISSUED"
  /\ \A i \in Items : q.rows[i].status = "DELETED" => i \in B
  /\ \A k \in DOMAIN q.moves : ~q.moves[k].listed => q.moves[k].item \in B

Handling ==
  /\ \A i \in Items : items[i].status = "DELETED" => i \in broken
  /\ \A r \in Requests : Selling(req[r]) /\ Asked(req[r], Known, broken)

\* What the requests in S still have to take of item i.
LeftOf(S, i) == SumFunctionOnSet([r \in S |-> Left(req[r], i)], S)

Settled(S, i) == i \in broken \/ TotalOf({"sold"}, log[i]) + LeftOf(S, i) = Owed(i)

\* Only a finite number of requests has ever begun: those in S.
Accounted ==
  \E S \in SUBSET Requests :
    /\ IsFiniteSet(S)
    /\ \A r \in Requests \ S : req[r].moves = <<>> /\ req[r].lines = <<>>
    /\ \A i \in Items : Settled(S, i)

LEMMA TimesPositive == ASSUME NEW a \in Nat \ {0}, NEW b \in Nat \ {0} PROVE a * b \in Nat \ {0}
  OBVIOUS

LEMMA ChoiceFields ==
  ASSUME NEW l \in Line, NEW n \in 1..Len(l.choices)
  PROVE  /\ l.choices[n].item \in Items
         /\ l.choices[n].qty * l.qty \in Nat \ {0}
<1>1. l.choices \in Seq(Choice) /\ l.qty \in Nat \ {0} BY DEF Line
<1>2. l.choices[n] \in Choice BY <1>1
<1>3. l.choices[n].item \in Items /\ l.choices[n].qty \in Nat \ {0} BY <1>2 DEF Choice
<1>. QED BY <1>1, <1>3, TimesPositive

\* What a line, a list of lines and a list of moves take of an item.
Asks(l, i)  == [n \in DOMAIN l.choices |->
                  IF l.choices[n].item = i THEN l.choices[n].qty * l.qty ELSE 0]
Takes(s, i) == [k \in DOMAIN s |-> IF s[k].item = i THEN s[k].qty ELSE 0]

LEMMA LineTakes ==
  ASSUME NEW l \in Line, NEW i
  PROVE  /\ LineDemand(l, i) \in Nat
         /\ (\E n \in DOMAIN l.choices : l.choices[n].item = i) => LineDemand(l, i) > 0
         /\ ~(\E n \in DOMAIN l.choices : l.choices[n].item = i) => LineDemand(l, i) = 0
         /\ \A R : LineDemand(l, i) = ToMove(MovesOf(l, R), i)
<1>. DEFINE f == Asks(l, i)
            N == Len(l.choices)
<1>1. l.choices \in Seq(Choice) /\ N \in Nat /\ DOMAIN l.choices = 1..N BY LineFields
<1>2. DOMAIN f = 1..N /\ IsFiniteSet(1..N) BY <1>1, FS_Interval DEF Asks
<1>3. LineDemand(l, i) = SumFunctionOnSet(f, 1..N) BY <1>2 DEF LineDemand, SumFunction, Asks
<1>4. ASSUME NEW n \in 1..N
      PROVE  /\ f[n] \in Nat /\ (l.choices[n].item = i => f[n] > 0)
             /\ (l.choices[n].item # i => f[n] = 0)
  BY <1>1, ChoiceFields DEF Asks
<1>5. ASSUME NEW R PROVE LineDemand(l, i) = ToMove(MovesOf(l, R), i)
  <2>. DEFINE s == MovesOf(l, R)
  <2>1. DOMAIN s = 1..N BY DEF MovesOf
  <2>2. ASSUME NEW k \in 1..N
        PROVE  s[k].item = l.choices[k].item /\ s[k].qty = l.choices[k].qty * l.qty
    BY DEF MovesOf, ChoiceQty
  <2>. HIDE DEF s, N
  <2>3. Takes(s, i) = f BY <1>1, <2>1, <2>2 DEF Takes, Asks
  <2>4. ToMove(s, i) = SumFunction(f) BY <2>3 DEF ToMove, Takes
  <2>. QED BY <1>2, <1>3, <2>4 DEF SumFunction, s
<1>. HIDE DEF f, N
<1>6. LineDemand(l, i) \in Nat BY <1>2, <1>3, <1>4, SumNat
<1>7. ASSUME NEW n \in 1..N, l.choices[n].item = i PROVE LineDemand(l, i) > 0
  BY <1>2, <1>3, <1>4, <1>7, SumPositive
<1>8. (\A n \in 1..N : l.choices[n].item # i) => LineDemand(l, i) = 0
  BY <1>2, <1>3, <1>4, SumZero
<1>. QED BY <1>1, <1>5, <1>6, <1>7, <1>8

LEMMA DemandType ==
  ASSUME NEW lines \in Seq(Line), NEW i
  PROVE  /\ Demand(lines, i) \in Nat
         /\ (\E k \in DOMAIN lines : \E n \in DOMAIN lines[k].choices :
               lines[k].choices[n].item = i) => Demand(lines, i) > 0
         /\ ~(\E k \in DOMAIN lines : \E n \in DOMAIN lines[k].choices :
               lines[k].choices[n].item = i) => Demand(lines, i) = 0
<1>. DEFINE f == [k \in DOMAIN lines |-> LineDemand(lines[k], i)]
            N == Len(lines)
<1>1. N \in Nat /\ DOMAIN lines = 1..N /\ IsFiniteSet(1..N) BY FS_Interval
<1>2. Demand(lines, i) = SumFunctionOnSet(f, 1..N) BY <1>1 DEF Demand, SumFunction
<1>3. ASSUME NEW k \in 1..N
      PROVE  /\ f[k] \in Nat
             /\ (\E n \in DOMAIN lines[k].choices : lines[k].choices[n].item = i) => f[k] > 0
             /\ ~(\E n \in DOMAIN lines[k].choices : lines[k].choices[n].item = i) => f[k] = 0
  <2>1. lines[k] \in Line BY <1>1
  <2>2. f[k] = LineDemand(lines[k], i) BY <1>1
  <2>. HIDE DEF f
  <2>. QED BY <2>1, <2>2, LineTakes
<1>. HIDE DEF f, N
<1>4. Demand(lines, i) \in Nat BY <1>1, <1>2, <1>3, SumNat
<1>5. ASSUME NEW k \in 1..N, \E n \in DOMAIN lines[k].choices : lines[k].choices[n].item = i
      PROVE  Demand(lines, i) > 0
  <2>1. f[k] > 0 BY <1>3, <1>5
  <2>. QED BY <1>1, <1>2, <1>3, <2>1, SumPositive
<1>6. ASSUME \A k \in 1..N : ~\E n \in DOMAIN lines[k].choices : lines[k].choices[n].item = i
      PROVE  Demand(lines, i) = 0
  <2>1. \A k \in 1..N : f[k] = 0 BY <1>3, <1>6
  <2>. QED BY <1>1, <1>2, <2>1, SumZero
<1>. QED BY <1>1, <1>4, <1>5, <1>6

LEMMA DemandEmpty == ASSUME NEW i PROVE Demand(<<>>, i) = 0 /\ ToMove(<<>>, i) = 0
<1>1. <<>> \in Seq(Line) /\ DOMAIN <<>> = {} OBVIOUS
<1>2. Demand(<<>>, i) = 0 BY <1>1, DemandType
<1>3. ToMove(<<>>, i) = SumFunctionOnSet(Takes(<<>>, i), {})
  BY <1>1 DEF ToMove, SumFunction, Takes
<1>. QED BY <1>2, <1>3, SumEmpty

LEMMA DemandTail ==
  ASSUME NEW lines \in Seq(Line), lines # <<>>, NEW i
  PROVE  Demand(lines, i) = LineDemand(Head(lines), i) + Demand(Tail(lines), i)
<1>. DEFINE rest == Tail(lines)
            f == [k \in DOMAIN lines |-> LineDemand(lines[k], i)]
            g == [k \in DOMAIN rest |-> LineDemand(rest[k], i)]
            n == Len(lines) - 1
<1>1. /\ n \in Nat /\ DOMAIN lines = 1..(n + 1) /\ DOMAIN rest = 1..n /\ 1 \in 1..(n + 1)
      /\ Head(lines) = lines[1] /\ \A k \in 1..n : rest[k] = lines[k + 1] /\ k + 1 \in 1..(n + 1)
  OBVIOUS
<1>2. \A k \in 1..(n + 1) : LineDemand(lines[k], i) \in Int
  <2>1. \A k \in 1..(n + 1) : lines[k] \in Line BY <1>1
  <2>. QED BY <2>1, LineTakes
<1>3. Demand(lines, i) = SumFunction(f) /\ Demand(rest, i) = SumFunction(g) BY DEF Demand
<1>. HIDE DEF n, rest
<1>4. DOMAIN f = 1..(n + 1) /\ DOMAIN g = 1..n BY <1>1
<1>5. \A k \in 1..(n + 1) : f[k] \in Int BY <1>1, <1>2
<1>6. \A k \in 1..n : g[k] = f[k + 1] BY <1>1
<1>7. f[1] = LineDemand(Head(lines), i) BY <1>1
<1>. HIDE DEF f, g
<1>. QED BY <1>1, <1>3, <1>4, <1>5, <1>6, <1>7, SumTail DEF rest

LEMMA MoveType ==
  ASSUME NEW s \in Seq(Move), NEW i
  PROVE  /\ ToMove(s, i) \in Int
         /\ ~(\E k \in DOMAIN s : s[k].item = i) => ToMove(s, i) = 0
<1>. DEFINE f == Takes(s, i)
<1>1. DOMAIN s = 1..Len(s) /\ IsFiniteSet(1..Len(s)) BY FS_Interval
<1>2. ToMove(s, i) = SumFunctionOnSet(f, 1..Len(s)) BY <1>1 DEF ToMove, SumFunction, Takes
<1>3. ASSUME NEW k \in 1..Len(s) PROVE f[k] \in Int /\ (s[k].item # i => f[k] = 0)
  <2>1. s[k] \in Move BY <1>1
  <2>. QED BY <1>1, <2>1, MoveFields DEF Takes
<1>. HIDE DEF f
<1>4. ToMove(s, i) \in Int BY <1>1, <1>2, <1>3, SumInt
<1>5. (\A k \in 1..Len(s) : s[k].item # i) => ToMove(s, i) = 0 BY <1>1, <1>2, <1>3, SumZero
<1>. QED BY <1>1, <1>4, <1>5

LEMMA MoveTail ==
  ASSUME NEW s \in Seq(Move), s # <<>>, NEW i
  PROVE  ToMove(s, i) = (IF Head(s).item = i THEN Head(s).qty ELSE 0) + ToMove(Tail(s), i)
<1>. DEFINE rest == Tail(s)
            f == Takes(s, i)
            g == Takes(rest, i)
            n == Len(s) - 1
<1>0. n \in Nat OBVIOUS
<1>1. /\ DOMAIN s = 1..(n + 1) /\ DOMAIN rest = 1..n /\ 1 \in 1..(n + 1)
      /\ Head(s) = s[1] /\ \A k \in 1..n : rest[k] = s[k + 1] /\ k + 1 \in 1..(n + 1)
      /\ \A k \in 1..(n + 1) : s[k] \in Move
  OBVIOUS
<1>2. ToMove(s, i) = SumFunction(f) /\ ToMove(rest, i) = SumFunction(g) BY DEF ToMove, Takes
<1>. HIDE DEF n, rest
<1>3. DOMAIN f = 1..(n + 1) /\ DOMAIN g = 1..n BY <1>1 DEF Takes
<1>4. \A k \in 1..(n + 1) : f[k] \in Int BY <1>1, MoveFields DEF Takes
<1>5. \A k \in 1..n : g[k] = f[k + 1] BY <1>1 DEF Takes
<1>6. f[1] = IF Head(s).item = i THEN Head(s).qty ELSE 0 BY <1>1 DEF Takes
<1>. HIDE DEF f, g
<1>7. SumFunction(f) = f[1] + SumFunction(g) BY <1>0, <1>3, <1>4, <1>5, SumTail
<1>. QED BY <1>2, <1>6, <1>7 DEF rest

LEMMA LeftType ==
  ASSUME NEW q \in Request, NEW i
  PROVE  /\ Left(q, i) \in Int
         /\ q.moves = <<>> /\ q.lines = <<>> => Left(q, i) = 0
<1>1. q.moves \in Seq(Move) /\ q.lines \in Seq(Line) BY RequestFields
<1>2. ToMove(q.moves, i) \in Int /\ Demand(q.lines, i) \in Nat BY <1>1, MoveType, DemandType
<1>3. Demand(<<>>, i) = 0 /\ ToMove(<<>>, i) = 0 BY DemandEmpty
<1>. QED BY <1>2, <1>3 DEF Left

\* What the handlers owe of an item when one more order has been read.
OwedBy(orders, i) == SumFunction([k \in DOMAIN orders |-> Demand(orders[k], i)])

LEMMA OwedGrows ==
  ASSUME NEW s \in Seq(Sales), NEW e \in Sales, NEW i
  PROVE  /\ OwedBy(s, i) \in Int /\ Demand(e, i) \in Int
         /\ OwedBy(Append(s, e), i) = OwedBy(s, i) + Demand(e, i)
<1>. DEFINE t == Append(s, e)
            f == [k \in DOMAIN s |-> Demand(s[k], i)]
            g == [k \in DOMAIN t |-> Demand(t[k], i)]
            n == Len(s)
<1>0. n \in Nat OBVIOUS
<1>1. /\ DOMAIN s = 1..n /\ DOMAIN t = 1..(n + 1) /\ t[n + 1] = e
      /\ \A k \in 1..n : t[k] = s[k] /\ k \in 1..(n + 1)
  BY Appended
<1>2. ASSUME NEW w \in Sales PROVE Demand(w, i) \in Int
  <2>1. w \in Seq(Line) BY StockAssumption
  <2>. QED BY <2>1, DemandType
<1>3. \A k \in 1..n : s[k] \in Sales BY <1>1
<1>. HIDE DEF t, n
<1>4. DOMAIN f = 1..n /\ DOMAIN g = 1..(n + 1) BY <1>1
<1>5. \A k \in 1..n : f[k] \in Int /\ g[k] = f[k] BY <1>1, <1>2, <1>3
<1>6. n + 1 \in 1..(n + 1) BY <1>0
<1>7. g[n + 1] = Demand(e, i) /\ Demand(e, i) \in Int BY <1>1, <1>2, <1>6
<1>8. OwedBy(s, i) = SumFunction(f) /\ OwedBy(t, i) = SumFunction(g) BY DEF OwedBy
<1>. HIDE DEF f, g
<1>9. SumFunction(g) = SumFunction(f) + g[n + 1] BY <1>0, <1>4, <1>5, <1>7, SumAppend
<1>10. SumFunction(f) \in Int
  <2>1. SumFunction(f) = SumFunctionOnSet(f, 1..n) BY <1>4 DEF SumFunction
  <2>2. IsFiniteSet(1..n) BY <1>0, FS_Interval
  <2>. QED BY <1>5, <2>1, <2>2, SumInt
<1>. QED BY <1>7, <1>8, <1>9, <1>10 DEF t

LEMMA OwedType ==
  ASSUME NEW s \in Seq(Sales), NEW i PROVE OwedBy(s, i) \in Int
<1>. DEFINE f == [k \in DOMAIN s |-> Demand(s[k], i)]
<1>1. DOMAIN f = 1..Len(s) /\ IsFiniteSet(1..Len(s)) BY FS_Interval
<1>2. ASSUME NEW k \in DOMAIN s PROVE f[k] \in Int
  <2>1. s[k] \in Seq(Line) BY StockAssumption
  <2>. QED BY <2>1, DemandType
<1>3. OwedBy(s, i) = SumFunctionOnSet(f, 1..Len(s)) BY <1>1 DEF OwedBy, SumFunction
<1>. HIDE DEF f
<1>. QED BY <1>1, <1>2, <1>3, SumInt

LEMMA OwedIs == \A i : Owed(i) = OwedBy(accepted, i) /\ Owed(i)' = OwedBy(accepted', i)
  BY DEF Owed, OwedBy

-----------------------------------------------------------------------------
LEMMA AskedMore ==
  ASSUME NEW q, NEW S, NEW T, NEW A, NEW B, S \subseteq T, A \subseteq B, Asked(q, S, A)
  PROVE  Asked(q, T, B)
  BY DEF Asked

LEMMA AskedNothing ==
  ASSUME NEW q, NEW S, NEW B, q.lines = <<>>, q.moves = <<>>, q.rows = NoRows
  PROVE  Asked(q, S, B)
  BY DEF Asked, NoRows

LEMMA IdleAsks == ASSUME NEW S, NEW B PROVE Selling(Idle) /\ Asked(Idle, S, B)
<1>1. Idle.lines = <<>> /\ Idle.moves = <<>> /\ Idle.rows = NoRows /\ Idle.kind = "in"
  BY DEF Idle
<1>. QED BY <1>1, AskedNothing DEF Selling

LEMMA HandlingGo ==
  ASSUME Typed, Handling, NEW r \in Requests, NEW state, Go(r, state), Known \subseteq Known',
         broken \subseteq broken', Selling(state), Asked(state, Known', broken'),
         \A i \in Items : items'[i].status = "DELETED" => i \in broken'
  PROVE  Handling'
<1>1. \A q \in Requests : req'[q] = IF q = r THEN state ELSE req[q]
  BY DEF Go, Typed, TypeOK
<1>2. ASSUME NEW q \in Requests PROVE Selling(req'[q]) /\ Asked(req'[q], Known', broken')
  <2>1. Selling(req[q]) /\ Asked(req[q], Known', broken') BY AskedMore DEF Handling
  <2>. QED BY <1>1, <2>1
<1>. QED BY <1>2 DEF Handling

\* An item is deleted by deleteItem, and nobody makes it again.
LEMMA DeletedBroken ==
  ASSUME Typed, Handling, NEW r \in Requests, Start(r) \/ Step(r) \/ Interrupt(r)
  PROVE  /\ broken \subseteq broken'
         /\ \A i \in Items : items'[i].status = "DELETED" => i \in broken'
<1>1. broken \subseteq broken'
  BY DEF Start, StockIn, StockOut, StockFind, CreateItem, EditFind, DeleteFind, SaleStart, Step,
         ReadOpening, UpdateItem, RecordLog, SaleLine, SaleSkip, SaleOpening, SaleSlug, SaleDone,
         CreateSlug, CreateLog, EditItem, DeleteItem, RowGone, Interrupt, BreakOff
<1>2. CASE items' = items BY <1>1, <1>2 DEF Handling
<1>3. ASSUME NEW i \in Items, NEW n, CreateItem(r, i, n)
      PROVE  \A j \in Items : items'[j].status = "DELETED" => j \in broken'
  <2>1. \A j \in Items \ {i} : items'[j] = items[j] BY <1>3 DEF CreateItem, Typed, TypeOK
  <2>2. items'[i].status = "LISTED" BY <1>3 DEF CreateItem, Typed, TypeOK
  <2>. QED BY <1>1, <2>1, <2>2 DEF Handling
<1>4. CASE UpdateItem(r) \/ EditItem(r) \/ DeleteItem(r)
  <2>. DEFINE i == req[r].item
  <2>1. i \in Items BY <1>4, Acting DEF UpdateItem, EditItem, DeleteItem
  <2>2. items[i] \in Item BY <2>1 DEF Typed, TypeOK
  <2>3. \A j \in Items \ {i} : items'[j] = items[j]
    BY <1>4 DEF UpdateItem, EditItem, DeleteItem, Typed, TypeOK
  <2>4. items'[i].status = items[i].status \/ i \in broken'
    BY <1>4, <2>1, <2>2 DEF UpdateItem, EditItem, DeleteItem, Typed, TypeOK, Item
  <2>. QED BY <1>1, <2>1, <2>3, <2>4 DEF Handling
<1>. QED
  BY <1>1, <1>2, <1>3, <1>4
  DEF Start, Step, StockIn, StockOut, StockFind, EditFind, DeleteFind, SaleStart, ReadOpening,
      RecordLog, SaleLine, SaleSkip, SaleOpening, SaleSlug, SaleDone, CreateSlug, CreateLog,
      RowGone, Interrupt, BreakOff

LEMMA HandlingStart ==
  ASSUME Typed, Handling, NEW r \in Requests, Start(r) PROVE Handling'
<1>1. /\ Known \subseteq Known' /\ broken \subseteq broken'
      /\ \A i \in Items : items'[i].status = "DELETED" => i \in broken'
  BY KnownStays, DeletedBroken
<1>2. ASSUME NEW state, Go(r, state), state.lines = <<>>, state.moves = <<>>,
             state.rows = NoRows, state.kind # "sold"
      PROVE  Handling'
  <2>1. Asked(state, Known', broken') BY <1>2, AskedNothing
  <2>2. Selling(state) BY <1>2 DEF Selling
  <2>. QED BY <1>1, <1>2, <2>1, <2>2, HandlingGo
<1>3. ASSUME NEW i \in Items, NEW n, NEW kind \in {"in", "out"}, StockFind(r, i, n, kind)
      PROVE  Handling'
  <2>. DEFINE state == [Idle EXCEPT !.pc = "opening", !.item = i, !.kind = kind, !.qty = n,
                                    !.seen = items[i].qty]
  <2>1. Go(r, state) BY <1>3 DEF StockFind
  <2>2. /\ state.lines = <<>> /\ state.moves = <<>> /\ state.rows = NoRows
        /\ state.kind # "sold"
    BY DEF Idle
  <2>. HIDE DEF state
  <2>. QED BY <1>2, <2>1, <2>2
<1>4. ASSUME NEW i \in Items, NEW n, CreateItem(r, i, n) PROVE Handling'
  <2>. DEFINE state == [Idle EXCEPT !.pc = "createSlug", !.item = i, !.kind = "initial", !.qty = n]
  <2>1. Go(r, state) BY <1>4 DEF CreateItem
  <2>2. /\ state.lines = <<>> /\ state.moves = <<>> /\ state.rows = NoRows
        /\ state.kind # "sold"
    BY DEF Idle
  <2>. HIDE DEF state
  <2>. QED BY <1>2, <2>1, <2>2
<1>5. ASSUME NEW i \in Items, NEW n, EditFind(r, i, n) PROVE Handling'
  <2>. DEFINE state == [Idle EXCEPT !.pc = "edit", !.item = i, !.qty = n]
  <2>1. Go(r, state) BY <1>5 DEF EditFind
  <2>2. /\ state.lines = <<>> /\ state.moves = <<>> /\ state.rows = NoRows
        /\ state.kind # "sold"
    BY DEF Idle
  <2>. HIDE DEF state
  <2>. QED BY <1>2, <2>1, <2>2
<1>6. ASSUME NEW i \in Items, DeleteFind(r, i) PROVE Handling'
  <2>. DEFINE state == [Idle EXCEPT !.pc = "delete", !.item = i]
  <2>1. Go(r, state) BY <1>6 DEF DeleteFind
  <2>2. /\ state.lines = <<>> /\ state.moves = <<>> /\ state.rows = NoRows
        /\ state.kind # "sold"
    BY DEF Idle
  <2>. HIDE DEF state
  <2>. QED BY <1>2, <2>1, <2>2
<1>7. ASSUME NEW lines \in Sales, SaleStart(r, lines) PROVE Handling'
  <2>. DEFINE state == [Idle EXCEPT !.pc = "line", !.lines = lines, !.rows = items]
  <2>1. Go(r, state) /\ items' = items BY <1>7 DEF SaleStart
  <2>2. /\ state.pc = "line" /\ state.lines = lines /\ state.moves = <<>> /\ state.rows = items
        /\ state.kind = "in"
    BY DEF Idle
  <2>. HIDE DEF state
  <2>3. ASSUME NEW k \in DOMAIN lines, NEW n \in DOMAIN lines[k].choices
        PROVE  /\ lines[k].choices[n].item \in Items
               /\ items[lines[k].choices[n].item].status # "UNISSUED"
    <3>. DEFINE i == lines[k].choices[n].item
    <3>1. lines \in Seq(Line) BY StockAssumption
    <3>2. lines[k] \in Line BY <3>1
    <3>3. n \in 1..Len(lines[k].choices)
      <4>1. lines[k].choices \in Seq(Choice) BY <3>2, LineFields
      <4>. QED BY <4>1
    <3>4. i \in Items BY <3>2, <3>3, ChoiceFields
    <3>5. Demand(lines, i) > 0 BY <3>1, DemandType
    <3>. QED BY <1>7, <3>4, <3>5 DEF SaleStart
  <2>4. Asked(state, Known, broken) BY <2>2, <2>3 DEF Asked, Known, Handling
  <2>5. Asked(state, Known', broken') BY <1>1, <2>4, AskedMore
  <2>6. Selling(state) BY <2>2 DEF Selling
  <2>. QED BY <1>1, <2>1, <2>5, <2>6, HandlingGo
<1>. QED BY <1>3, <1>4, <1>5, <1>6, <1>7 DEF Start, StockIn, StockOut

\* The moves of a line, of which those passed over are of items that were deleted.
LEMMA MovesAsked ==
  ASSUME NEW l \in Line, NEW R \in [Items -> Item], NEW B,
         \A n \in DOMAIN l.choices : R[l.choices[n].item].status # "UNISSUED",
         \A i \in Items : R[i].status = "DELETED" => i \in B
  PROVE  \A k \in DOMAIN MovesOf(l, R) :
           ~MovesOf(l, R)[k].listed => MovesOf(l, R)[k].item \in B
<1>1. l.choices \in Seq(Choice) BY LineFields
<1>2. ASSUME NEW k \in DOMAIN MovesOf(l, R), ~MovesOf(l, R)[k].listed
      PROVE  MovesOf(l, R)[k].item \in B
  <2>. DEFINE c == l.choices[k]
  <2>1. k \in 1..Len(l.choices) /\ k \in DOMAIN l.choices BY <1>1, <1>2 DEF MovesOf
  <2>2. c.item \in Items BY <2>1, ChoiceFields
  <2>3. /\ MovesOf(l, R)[k].item = c.item
        /\ MovesOf(l, R)[k].listed = (R[c.item].status = "LISTED")
    BY <2>1 DEF MovesOf
  <2>4. R[c.item].status \in {"UNISSUED", "LISTED", "DELETED"} BY <2>2, ItemFields
  <2>5. R[c.item].status # "UNISSUED" BY <2>1
  <2>. QED BY <1>2, <2>2, <2>3, <2>4, <2>5
<1>. QED BY <1>2

LEMMA HandlingStep ==
  ASSUME Typed, Handling, NEW r \in Requests, Step(r) \/ Interrupt(r) PROVE Handling'
<1>. DEFINE q == req[r]
<1>1. /\ Known \subseteq Known' /\ broken \subseteq broken'
      /\ \A i \in Items : items'[i].status = "DELETED" => i \in broken'
  BY KnownStays, DeletedBroken
<1>2. /\ q \in Request /\ Selling(q) /\ Asked(q, Known, broken) /\ Asked(q, Known', broken')
  BY <1>1, Acting, AskedMore DEF Handling
<1>3. q.moves \in Seq(Move) /\ q.lines \in Seq(Line) /\ q.rows \in [Items -> Item]
  BY <1>2, RequestFields
<1>4. CASE Go(r, Idle) BY <1>1, <1>4, IdleAsks, HandlingGo
<1>5. ASSUME NEW state, Go(r, state), state.lines = q.lines, state.moves = q.moves,
             state.rows = q.rows, Selling(state)
      PROVE  Handling'
  <2>1. Asked(state, Known', broken') BY <1>2, <1>5 DEF Asked
  <2>. QED BY <1>1, <1>5, <2>1, HandlingGo
<1>6. CASE ReadOpening(r) /\ ~Go(r, Idle)
  <2>. DEFINE state == [q EXCEPT !.pc = "update", !.opening = OpeningStock(q.item, q.seen)]
  <2>1. Go(r, state) /\ q.pc = "opening" BY <1>6 DEF ReadOpening
  <2>2. /\ state.moves = q.moves /\ state.rows = q.rows /\ state.lines = q.lines
        /\ state.kind = q.kind /\ state.pc = "update"
    BY <1>2 DEF Request
  <2>. HIDE DEF state
  <2>3. Selling(state) BY <1>2, <2>1, <2>2 DEF Selling
  <2>. QED BY <1>5, <2>1, <2>2, <2>3
<1>7. CASE UpdateItem(r)
  <2>. DEFINE state == [q EXCEPT !.pc = "log"]
  <2>1. Go(r, state) /\ q.pc = "update" BY <1>7 DEF UpdateItem
  <2>2. /\ state.moves = q.moves /\ state.rows = q.rows /\ state.lines = q.lines
        /\ state.kind = q.kind /\ state.item = q.item /\ state.qty = q.qty /\ state.pc = "log"
    BY <1>2 DEF Request
  <2>. HIDE DEF state
  <2>3. Selling(state) BY <1>2, <2>1, <2>2 DEF Selling
  <2>. QED BY <1>5, <2>1, <2>2, <2>3
<1>8. CASE CreateSlug(r) /\ ~Go(r, Idle)
  <2>. DEFINE state == [q EXCEPT !.pc = "createLog"]
  <2>1. Go(r, state) /\ q.pc = "createSlug" BY <1>8 DEF CreateSlug
  <2>2. /\ state.moves = q.moves /\ state.rows = q.rows /\ state.lines = q.lines
        /\ state.kind = q.kind /\ state.pc = "createLog"
    BY <1>2 DEF Request
  <2>. HIDE DEF state
  <2>3. Selling(state) BY <1>2, <2>1, <2>2 DEF Selling
  <2>. QED BY <1>5, <2>1, <2>2, <2>3
<1>9. CASE SaleSlug(r)
  <2>. DEFINE state == [Idle EXCEPT !.pc = "line", !.lines = q.lines, !.moves = q.moves,
                                    !.rows = q.rows]
  <2>1. Go(r, state) BY <1>9 DEF SaleSlug
  <2>2. /\ state.moves = q.moves /\ state.rows = q.rows /\ state.lines = q.lines
        /\ state.pc = "line" /\ state.kind = "in"
    BY DEF Idle
  <2>. HIDE DEF state
  <2>3. Selling(state) BY <2>2 DEF Selling
  <2>. QED BY <1>5, <2>1, <2>2, <2>3
<1>10. CASE SaleOpening(r)
  <2>. DEFINE m == Head(q.moves)
              state == [q EXCEPT !.pc = "update", !.kind = "sold", !.item = m.item,
                                 !.qty = m.qty, !.opening = OpeningStock(m.item, m.seen)]
  <2>1. Go(r, state) /\ q.moves # <<>> BY <1>10 DEF SaleOpening
  <2>2. /\ state.moves = q.moves /\ state.rows = q.rows /\ state.lines = q.lines
        /\ state.item = m.item /\ state.qty = m.qty /\ state.pc = "update" /\ state.kind = "sold"
    BY <1>2 DEF Request
  <2>. HIDE DEF state
  <2>3. Selling(state) BY <2>1, <2>2 DEF Selling
  <2>. QED BY <1>5, <2>1, <2>2, <2>3
<1>11. CASE SaleLine(r)
  <2>. DEFINE l == Head(q.lines)
              rest == Tail(q.lines)
              seen == IF Len(q.lines) = 1 THEN NoRows ELSE q.rows
              rows == IF l.packet THEN items ELSE q.rows
              moves == MovesOf(l, rows)
              state == [q EXCEPT !.lines = rest, !.rows = seen, !.moves = moves]
  <2>1. Go(r, state) /\ q.pc = "line" /\ q.lines # <<>> BY <1>11 DEF SaleLine
  <2>2. l \in Line /\ l = q.lines[1] /\ 1 \in DOMAIN q.lines BY <1>3, <2>1
  <2>3. rows \in [Items -> Item] BY <1>3 DEF Typed, TypeOK
  <2>4. \A i \in Items : rows[i].status = "DELETED" => i \in broken
    BY <1>2 DEF Asked, Handling
  <2>5. \A n \in DOMAIN l.choices : rows[l.choices[n].item].status # "UNISSUED"
    BY <1>2, <2>2 DEF Asked, Known
  <2>. HIDE DEF rows
  <2>6. \A k \in DOMAIN moves : ~moves[k].listed => moves[k].item \in broken'
    BY <1>1, <2>2, <2>3, <2>4, <2>5, MovesAsked
  <2>7. \A k \in DOMAIN rest : /\ rest[k] = q.lines[k + 1] /\ k + 1 \in DOMAIN q.lines
                               /\ seen = q.rows
    BY <1>3, <2>1
  <2>8. \A i \in Items : seen[i].status = "DELETED" => i \in broken'
    BY <1>2 DEF Asked, NoRows
  <2>. HIDE DEF moves, seen, rest
  <2>9. /\ state.pc = "line" /\ state.lines = rest /\ state.rows = seen /\ state.moves = moves
        /\ state.kind = q.kind
    BY <1>2, <2>1 DEF Request
  <2>. HIDE DEF state
  <2>10. \A k \in DOMAIN state.lines : \A n \in DOMAIN state.lines[k].choices :
           LET i == state.lines[k].choices[n].item
           IN i \in Known' /\ state.rows[i].status # "UNISSUED"
    BY <1>2, <2>7, <2>9 DEF Asked
  <2>11. Asked(state, Known', broken') BY <2>6, <2>8, <2>9, <2>10 DEF Asked
  <2>12. Selling(state) BY <1>2, <2>1, <2>9 DEF Selling
  <2>. QED BY <1>1, <2>1, <2>11, <2>12, HandlingGo
<1>12. ASSUME NEW state, NEW rest, Go(r, state), q.moves # <<>>, rest = Tail(q.moves),
              state.lines = q.lines, state.moves = rest, state.rows = q.rows, Selling(state)
       PROVE  Handling'
  <2>1. \A k \in DOMAIN rest : rest[k] = q.moves[k + 1] /\ k + 1 \in DOMAIN q.moves
    BY <1>3, <1>12
  <2>2. Asked(state, Known', broken') BY <1>2, <1>12, <2>1 DEF Asked
  <2>. QED BY <1>1, <1>12, <2>2, HandlingGo
<1>13. CASE SaleSkip(r)
  <2>. DEFINE rest == Tail(q.moves)
              state == [q EXCEPT !.moves = rest]
  <2>1. Go(r, state) /\ q.pc = "line" /\ q.moves # <<>> BY <1>13 DEF SaleSkip
  <2>2. rest = Tail(q.moves) OBVIOUS
  <2>. HIDE DEF rest
  <2>3. /\ state.pc = "line" /\ state.lines = q.lines /\ state.rows = q.rows
        /\ state.moves = rest /\ state.kind = q.kind
    BY <1>2, <2>1 DEF Request
  <2>. HIDE DEF state
  <2>4. Selling(state) BY <1>2, <2>1, <2>3 DEF Selling
  <2>. QED BY <1>12, <2>1, <2>2, <2>3, <2>4
<1>14. CASE RecordLog(r) /\ ~Go(r, Idle)
  <2>. DEFINE rest == Tail(q.moves)
              state == [q EXCEPT !.pc = "slug", !.moves = rest]
  <2>1. Go(r, state) /\ q.pc = "log" /\ q.kind = "sold" BY <1>14 DEF RecordLog
  <2>2. rest = Tail(q.moves) /\ q.moves # <<>> BY <1>2, <2>1 DEF Selling
  <2>. HIDE DEF rest
  <2>3. /\ state.pc = "slug" /\ state.lines = q.lines /\ state.rows = q.rows
        /\ state.moves = rest /\ state.kind = q.kind
    BY <1>2, <2>1 DEF Request
  <2>. HIDE DEF state
  <2>4. Selling(state) BY <2>1, <2>3 DEF Selling
  <2>. QED BY <1>12, <2>1, <2>2, <2>3, <2>4
<1>. QED
  BY <1>4, <1>6, <1>7, <1>8, <1>9, <1>10, <1>11, <1>13, <1>14
  DEF Step, SaleDone, CreateLog, EditItem, DeleteItem, RowGone, Interrupt, BreakOff

\* A step leaves what is sold, and still to be taken, of an item against what is owed,
\* unless the item is among the broken.
SameAccount(r, i) ==
  (TotalOf({"sold"}, log'[i]) + Left(req'[r], i)) - OwedBy(accepted', i)
    = (TotalOf({"sold"}, log[i]) + Left(req[r], i)) - OwedBy(accepted, i)

LEMMA AccountStart ==
  ASSUME Typed, Handling, NEW r \in Requests, Start(r), NEW i \in Items
  PROVE  SameAccount(r, i)
<1>1. log' = log
  BY DEF Start, StockIn, StockOut, StockFind, CreateItem, EditFind, DeleteFind, SaleStart
<1>2. req[r].moves = <<>> /\ req[r].lines = <<>>
  <2>1. req[r].pc = "idle"
    BY DEF Start, StockIn, StockOut, StockFind, CreateItem, EditFind, DeleteFind, SaleStart, MayStart
  <2>. QED BY <2>1 DEF Handling, Selling
<1>3. Left(req[r], i) = 0 BY <1>2, Acting, LeftType
<1>4. ASSUME NEW state, Go(r, state) PROVE req'[r] = state
  BY <1>4 DEF Go, Typed, TypeOK
<1>5. ASSUME NEW state, Go(r, state), state.lines = <<>>, state.moves = <<>>, accepted' = accepted
      PROVE  SameAccount(r, i)
  <2>1. Left(req'[r], i) = 0
    <3>1. Demand(<<>>, i) = 0 /\ ToMove(<<>>, i) = 0 BY DemandEmpty
    <3>. QED BY <1>4, <1>5, <3>1 DEF Left
  <2>. QED BY <1>1, <1>3, <1>5, <2>1 DEF SameAccount
<1>6. ASSUME NEW j \in Items, NEW n, NEW kind, StockFind(r, j, n, kind) PROVE SameAccount(r, i)
  <2>. DEFINE state == [Idle EXCEPT !.pc = "opening", !.item = j, !.kind = kind, !.qty = n,
                                    !.seen = items[j].qty]
  <2>1. Go(r, state) /\ accepted' = accepted BY <1>6 DEF StockFind
  <2>2. state.lines = <<>> /\ state.moves = <<>> BY DEF Idle
  <2>. HIDE DEF state
  <2>. QED BY <1>5, <2>1, <2>2
<1>7. ASSUME NEW j \in Items, NEW n, CreateItem(r, j, n) PROVE SameAccount(r, i)
  <2>. DEFINE state == [Idle EXCEPT !.pc = "createSlug", !.item = j, !.kind = "initial", !.qty = n]
  <2>1. Go(r, state) /\ accepted' = accepted BY <1>7 DEF CreateItem
  <2>2. state.lines = <<>> /\ state.moves = <<>> BY DEF Idle
  <2>. HIDE DEF state
  <2>. QED BY <1>5, <2>1, <2>2
<1>8. ASSUME NEW j \in Items, NEW n, EditFind(r, j, n) PROVE SameAccount(r, i)
  <2>. DEFINE state == [Idle EXCEPT !.pc = "edit", !.item = j, !.qty = n]
  <2>1. Go(r, state) /\ accepted' = accepted BY <1>8 DEF EditFind
  <2>2. state.lines = <<>> /\ state.moves = <<>> BY DEF Idle
  <2>. HIDE DEF state
  <2>. QED BY <1>5, <2>1, <2>2
<1>9. ASSUME NEW j \in Items, DeleteFind(r, j) PROVE SameAccount(r, i)
  <2>. DEFINE state == [Idle EXCEPT !.pc = "delete", !.item = j]
  <2>1. Go(r, state) /\ accepted' = accepted BY <1>9 DEF DeleteFind
  <2>2. state.lines = <<>> /\ state.moves = <<>> BY DEF Idle
  <2>. HIDE DEF state
  <2>. QED BY <1>5, <2>1, <2>2
<1>10. ASSUME NEW lines \in Sales, SaleStart(r, lines) PROVE SameAccount(r, i)
  <2>. DEFINE state == [Idle EXCEPT !.pc = "line", !.lines = lines, !.rows = items]
  <2>1. Go(r, state) /\ accepted' = Append(accepted, lines) BY <1>10 DEF SaleStart
  <2>2. state.lines = lines /\ state.moves = <<>> BY DEF Idle
  <2>. HIDE DEF state
  <2>3. /\ OwedBy(accepted, i) \in Int /\ Demand(lines, i) \in Int
        /\ OwedBy(accepted', i) = OwedBy(accepted, i) + Demand(lines, i)
    BY <2>1, OwedGrows DEF Typed, TypeOK
  <2>4. Left(req'[r], i) = Demand(lines, i)
    <3>1. ToMove(<<>>, i) = 0 BY DemandEmpty
    <3>. QED BY <1>4, <2>1, <2>2, <2>3, <3>1 DEF Left
  <2>5. TotalOf({"sold"}, log[i]) \in Int BY TotalType DEF Typed, TypeOK
  <2>. QED BY <1>1, <1>3, <2>3, <2>4, <2>5 DEF SameAccount
<1>. QED BY <1>6, <1>7, <1>8, <1>9, <1>10 DEF Start, StockIn, StockOut

LEMMA AccountStep ==
  ASSUME Typed, Handling, NEW r \in Requests, Step(r) \/ Interrupt(r),
         NEW i \in Items, i \notin broken'
  PROVE  SameAccount(r, i)
<1>. DEFINE q == req[r]
<1>1. accepted' = accepted
  BY DEF Step, ReadOpening, UpdateItem, RecordLog, SaleLine, SaleSkip, SaleOpening, SaleSlug,
         SaleDone, CreateSlug, CreateLog, EditItem, DeleteItem, RowGone, Interrupt, BreakOff
<1>2. q \in Request /\ Selling(q) /\ Asked(q, Known, broken) BY Acting DEF Handling
<1>3. q.moves \in Seq(Move) /\ q.lines \in Seq(Line) BY <1>2, RequestFields
<1>4. ASSUME NEW state, Go(r, state) PROVE req'[r] = state
  BY <1>4 DEF Go, Typed, TypeOK
<1>5. ASSUME log'[i] = log[i], Left(req'[r], i) = Left(q, i) PROVE SameAccount(r, i)
  BY <1>1, <1>5 DEF SameAccount
<1>6. Left(Idle, i) = 0 BY IdleType, LeftType DEF Idle
<1>7. ASSUME Go(r, Idle), log'[i] = log[i], q.moves = <<>>, q.lines = <<>>
      PROVE  SameAccount(r, i)
  <2>1. Left(q, i) = 0 BY <1>2, <1>7, LeftType
  <2>. QED BY <1>4, <1>5, <1>6, <1>7, <2>1
<1>8. ASSUME NEW state, Go(r, state), log' = log, state.lines = q.lines, state.moves = q.moves
      PROVE  SameAccount(r, i)
  <2>1. Left(req'[r], i) = Left(q, i) BY <1>4, <1>8 DEF Left
  <2>. QED BY <1>5, <1>8, <2>1
<1>9. CASE ReadOpening(r)
  <2>. DEFINE o == OpeningStock(q.item, q.seen)
              state == [q EXCEPT !.pc = "update", !.opening = o]
  <2>1. log' = log /\ q.pc = "opening" /\ (Go(r, state) \/ Go(r, Idle)) BY <1>9 DEF ReadOpening
  <2>2. state.lines = q.lines /\ state.moves = q.moves BY <1>2 DEF Request
  <2>3. q.moves = <<>> /\ q.lines = <<>> BY <1>2, <2>1 DEF Selling
  <2>. HIDE DEF state
  <2>. QED BY <1>7, <1>8, <2>1, <2>2, <2>3
<1>10. CASE UpdateItem(r)
  <2>. DEFINE state == [q EXCEPT !.pc = "log"]
  <2>1. log' = log /\ Go(r, state) BY <1>10 DEF UpdateItem
  <2>2. state.lines = q.lines /\ state.moves = q.moves BY <1>2 DEF Request
  <2>. HIDE DEF state
  <2>. QED BY <1>8, <2>1, <2>2
<1>11. CASE CreateSlug(r)
  <2>. DEFINE state == [q EXCEPT !.pc = "createLog"]
  <2>1. log' = log /\ q.pc = "createSlug" /\ (Go(r, state) \/ Go(r, Idle)) BY <1>11 DEF CreateSlug
  <2>2. state.lines = q.lines /\ state.moves = q.moves BY <1>2 DEF Request
  <2>3. q.moves = <<>> /\ q.lines = <<>> BY <1>2, <2>1 DEF Selling
  <2>. HIDE DEF state
  <2>. QED BY <1>7, <1>8, <2>1, <2>2, <2>3
<1>12. CASE SaleSlug(r)
  <2>. DEFINE state == [Idle EXCEPT !.pc = "line", !.lines = q.lines, !.moves = q.moves,
                                    !.rows = q.rows]
  <2>1. log' = log /\ Go(r, state) BY <1>12 DEF SaleSlug
  <2>2. state.lines = q.lines /\ state.moves = q.moves BY DEF Idle
  <2>. HIDE DEF state
  <2>. QED BY <1>8, <2>1, <2>2
<1>13. CASE SaleOpening(r)
  <2>. DEFINE m == Head(q.moves)
              state == [q EXCEPT !.pc = "update", !.kind = "sold", !.item = m.item,
                                 !.qty = m.qty, !.opening = OpeningStock(m.item, m.seen)]
  <2>1. log' = log /\ Go(r, state) BY <1>13 DEF SaleOpening
  <2>2. state.lines = q.lines /\ state.moves = q.moves BY <1>2 DEF Request
  <2>. HIDE DEF state
  <2>. QED BY <1>8, <2>1, <2>2
<1>14. CASE SaleDone(r)
  BY <1>7, <1>14 DEF SaleDone
<1>15. CASE EditItem(r) \/ DeleteItem(r)
  <2>1. q.moves = <<>> /\ q.lines = <<>> BY <1>2, <1>15 DEF EditItem, DeleteItem, Selling
  <2>. QED BY <1>7, <1>15, <2>1 DEF EditItem, DeleteItem
<1>16. CASE SaleLine(r)
  <2>. DEFINE l == Head(q.lines)
              rest == Tail(q.lines)
              seen == IF Len(q.lines) = 1 THEN NoRows ELSE q.rows
              rows == IF l.packet THEN items ELSE q.rows
              moves == MovesOf(l, rows)
              state == [q EXCEPT !.lines = rest, !.rows = seen, !.moves = moves]
  <2>1. log' = log /\ Go(r, state) /\ q.lines # <<>> /\ q.moves = <<>> BY <1>16 DEF SaleLine
  <2>2. l \in Line /\ rest \in Seq(Line) BY <1>3, <2>1
  <2>3. Demand(q.lines, i) = LineDemand(l, i) + Demand(rest, i) BY <1>3, <2>1, DemandTail
  <2>. HIDE DEF rows
  <2>4. ToMove(moves, i) = LineDemand(l, i) BY <2>2, LineTakes
  <2>5. LineDemand(l, i) \in Nat /\ Demand(rest, i) \in Nat BY <2>2, LineTakes, DemandType
  <2>6. ToMove(q.moves, i) = 0 BY <2>1, DemandEmpty
  <2>. HIDE DEF moves, seen, rest
  <2>7. state.lines = rest /\ state.moves = moves BY <1>2 DEF Request
  <2>. HIDE DEF state, l
  <2>8. req'[r].lines = rest /\ req'[r].moves = moves BY <1>4, <2>1, <2>7
  <2>9. Left(req'[r], i) = Left(q, i) BY <2>3, <2>4, <2>5, <2>6, <2>8 DEF Left
  <2>. QED BY <1>5, <2>1, <2>9
<1>17. CASE SaleSkip(r)
  <2>. DEFINE rest == Tail(q.moves)
              state == [q EXCEPT !.moves = rest]
  <2>1. /\ log' = log /\ Go(r, state) /\ q.moves # <<>> /\ ~Head(q.moves).listed
        /\ broken' = broken
    BY <1>17 DEF SaleSkip
  <2>2. Head(q.moves) = q.moves[1] /\ 1 \in DOMAIN q.moves BY <1>3, <2>1
  <2>3. Head(q.moves).item # i BY <1>2, <2>1, <2>2 DEF Asked
  <2>4. ToMove(q.moves, i) = 0 + ToMove(rest, i) BY <1>3, <2>1, <2>3, MoveTail
  <2>5. ToMove(rest, i) \in Int
    <3>1. rest \in Seq(Move) BY <1>3, <2>1
    <3>. QED BY <3>1, MoveType
  <2>. HIDE DEF rest
  <2>6. state.lines = q.lines /\ state.moves = rest BY <1>2 DEF Request
  <2>. HIDE DEF state
  <2>7. req'[r].lines = q.lines /\ req'[r].moves = rest BY <1>4, <2>1, <2>6
  <2>8. Left(req'[r], i) = Left(q, i) BY <2>4, <2>5, <2>7 DEF Left
  <2>. QED BY <1>5, <2>1, <2>8
<1>18. CASE RecordLog(r)
  <2>. DEFINE j == q.item
              e == Logged(r)
              rest == Tail(q.moves)
              state == [q EXCEPT !.pc = "slug", !.moves = rest]
  <2>1. q.pc = "log" /\ j \in Items BY <1>18, Acting DEF RecordLog
  <2>2. log' = [log EXCEPT ![j] = Append(log[j], e)]
    BY <1>18, <2>1 DEF RecordLog, Logged, Typed, TypeOK
  <2>3. e \in Entry /\ e.kind = q.kind /\ e.qty = q.qty BY LoggedType DEF Logged
  <2>4. log \in [Items -> Seq(Entry)] BY DEF Typed, TypeOK
  <2>. HIDE DEF e
  <2>5. CASE q.kind # "sold"
    <3>1. Go(r, Idle) BY <1>18, <2>5 DEF RecordLog
    <3>2. q.moves = <<>> /\ q.lines = <<>> BY <1>2, <2>1, <2>5 DEF Selling
    <3>3. TotalOf({"sold"}, log'[i]) = TotalOf({"sold"}, log[i])
      <4>1. CASE i # j BY <2>1, <2>2, <2>4, <4>1
      <4>2. CASE i = j
        <5>1. log'[i] = Append(log[i], e) BY <2>1, <2>2, <2>4, <4>2
        <5>2. Counted({"sold"}, e) = 0 BY <2>3, <2>5 DEF Counted
        <5>3. TotalOf({"sold"}, log'[i]) = TotalOf({"sold"}, log[i]) + 0
          BY <2>3, <2>4, <5>1, <5>2, TotalGrows
        <5>4. TotalOf({"sold"}, log[i]) \in Int BY <2>4, TotalType
        <5>. QED BY <5>3, <5>4
      <4>. QED BY <4>1, <4>2
    <3>4. Left(req'[r], i) = Left(q, i)
      <4>1. Left(q, i) = 0 BY <1>2, <3>2, LeftType
      <4>. QED BY <1>4, <1>6, <3>1, <4>1
    <3>. QED BY <1>1, <3>3, <3>4 DEF SameAccount
  <2>6. CASE q.kind = "sold"
    <3>1. Go(r, state) BY <1>18, <2>6 DEF RecordLog
    <3>2. /\ q.moves # <<>> /\ j = Head(q.moves).item /\ q.qty = Head(q.moves).qty
      BY <1>2, <2>1, <2>6 DEF Selling
    <3>3. ToMove(q.moves, i) = (IF j = i THEN q.qty ELSE 0) + ToMove(rest, i)
      BY <1>3, <3>2, MoveTail
    <3>4. ToMove(rest, i) \in Int /\ q.qty \in Int /\ Demand(q.lines, i) \in Nat
      <4>1. rest \in Seq(Move) BY <1>3, <3>2
      <4>2. ToMove(rest, i) \in Int BY <4>1, MoveType
      <4>. QED BY <1>2, <1>3, <4>2, RequestFields, DemandType
    <3>. HIDE DEF rest
    <3>5. state.lines = q.lines /\ state.moves = rest BY <1>2 DEF Request
    <3>. HIDE DEF state
    <3>6. req'[r].lines = q.lines /\ req'[r].moves = rest BY <1>4, <3>1, <3>5
    <3>7. Left(q, i) = Left(req'[r], i) + (IF j = i THEN q.qty ELSE 0) /\ Left(req'[r], i) \in Int
      BY <3>3, <3>4, <3>6 DEF Left
    <3>8. TotalOf({"sold"}, log'[i]) = TotalOf({"sold"}, log[i]) + (IF j = i THEN q.qty ELSE 0)
      <4>1. TotalOf({"sold"}, log[i]) \in Int BY <2>4, TotalType
      <4>2. CASE i # j
        <5>1. log'[i] = log[i] BY <2>1, <2>2, <2>4, <4>2
        <5>. QED BY <4>1, <4>2, <5>1
      <4>3. CASE i = j
        <5>1. log'[i] = Append(log[i], e) BY <2>1, <2>2, <2>4, <4>3
        <5>2. Counted({"sold"}, e) = q.qty BY <2>3, <2>6 DEF Counted
        <5>3. TotalOf({"sold"}, log'[i]) = TotalOf({"sold"}, log[i]) + q.qty
          BY <2>3, <2>4, <5>1, <5>2, TotalGrows
        <5>. QED BY <4>3, <5>3
      <4>. QED BY <4>2, <4>3
    <3>9. TotalOf({"sold"}, log[i]) \in Int BY <2>4, TotalType
    <3>. DEFINE before == TotalOf({"sold"}, log[i]) + Left(q, i)
                after == TotalOf({"sold"}, log'[i]) + Left(req'[r], i)
    <3>10. after = before BY <3>4, <3>7, <3>8, <3>9
    <3>. HIDE DEF before, after
    <3>11. after - OwedBy(accepted', i) = before - OwedBy(accepted, i) BY <1>1, <3>10
    <3>. QED BY <3>11 DEF SameAccount, before, after
  <2>. QED BY <2>5, <2>6
<1>19. CASE CreateLog(r)
  <2>. DEFINE j == q.item
              e == First(r)
  <2>1. q.pc = "createLog" /\ j \in Items /\ Go(r, Idle) BY <1>19, Acting DEF CreateLog
  <2>2. log' = [log EXCEPT ![j] = Append(log[j], e)]
    BY <1>19, <2>1 DEF CreateLog, First, Typed, TypeOK
  <2>3. e \in Entry /\ e.kind = "initial" BY LoggedType DEF First
  <2>4. log \in [Items -> Seq(Entry)] BY DEF Typed, TypeOK
  <2>. HIDE DEF e
  <2>5. q.moves = <<>> /\ q.lines = <<>> BY <1>2, <2>1 DEF Selling
  <2>6. TotalOf({"sold"}, log'[i]) = TotalOf({"sold"}, log[i])
    <3>1. CASE i # j BY <2>1, <2>2, <2>4, <3>1
    <3>2. CASE i = j
      <4>1. log'[i] = Append(log[i], e) BY <2>1, <2>2, <2>4, <3>2
      <4>2. Counted({"sold"}, e) = 0 BY <2>3 DEF Counted
      <4>3. TotalOf({"sold"}, log'[i]) = TotalOf({"sold"}, log[i]) + 0
        BY <2>3, <2>4, <4>1, <4>2, TotalGrows
      <4>4. TotalOf({"sold"}, log[i]) \in Int BY <2>4, TotalType
      <4>. QED BY <4>3, <4>4
    <3>. QED BY <3>1, <3>2
  <2>7. Left(req'[r], i) = Left(q, i)
    <3>1. Left(q, i) = 0 BY <1>2, <2>5, LeftType
    <3>. QED BY <1>4, <1>6, <2>1, <3>1
  <2>. QED BY <1>1, <2>6, <2>7 DEF SameAccount
<1>20. CASE RowGone(r) \/ Interrupt(r)
  <2>1. Go(r, Idle) /\ log' = log /\ broken' = broken \cup Unmoved(q)
    BY <1>20 DEF RowGone, Interrupt, BreakOff
  <2>2. i \notin Unmoved(q) BY <2>1
  <2>3. ToMove(q.moves, i) = 0
    <3>1. ~\E k \in DOMAIN q.moves : q.moves[k].item = i BY <2>2 DEF Unmoved
    <3>. QED BY <1>3, <3>1, MoveType
  <2>4. Demand(q.lines, i) = 0
    <3>1. ~\E k \in DOMAIN q.lines : \E n \in DOMAIN q.lines[k].choices :
             q.lines[k].choices[n].item = i
      BY <2>2 DEF Unmoved
    <3>. QED BY <1>3, <3>1, DemandType
  <2>5. Left(q, i) = 0 BY <2>3, <2>4 DEF Left
  <2>. QED BY <1>4, <1>5, <1>6, <2>1, <2>5
<1>. QED
  BY <1>9, <1>10, <1>11, <1>12, <1>13, <1>14, <1>15, <1>16, <1>17, <1>18, <1>19, <1>20 DEF Step

\* What is left to all the requests in T, r among them, when r takes a step.
LEMMA LeftChanges ==
  ASSUME Typed, NEW R \in [Requests -> Request], NEW r \in Requests,
         \A p \in Requests \ {r} : R[p] = req[p],
         NEW S \in SUBSET Requests, IsFiniteSet(S), NEW i,
         r \notin S => Left(req[r], i) = 0
  PROVE  /\ LeftOf(S, i) \in Int
         /\ SumFunctionOnSet([p \in S \cup {r} |-> Left(R[p], i)], S \cup {r})
              = LeftOf(S, i) + Left(R[r], i) - Left(req[r], i)
<1>. DEFINE T == S \cup {r}
            f == [p \in T |-> Left(req[p], i)]
            g == [p \in T |-> Left(R[p], i)]
            h == [p \in S |-> Left(req[p], i)]
<1>1. IsFiniteSet(T) /\ r \in T /\ T \subseteq Requests BY FS_AddElement
<1>2. ASSUME NEW p \in T
      PROVE  f[p] \in Int /\ g[p] \in Int /\ (p # r => g[p] = f[p])
  <2>1. req[p] \in Request /\ R[p] \in Request BY <1>1 DEF Typed, TypeOK
  <2>2. Left(req[p], i) \in Int /\ Left(R[p], i) \in Int BY <2>1, LeftType
  <2>. QED BY <1>1, <2>2
<1>3. f[r] = Left(req[r], i) /\ g[r] = Left(R[r], i) BY <1>1
<1>4. \A p \in S : h[p] = f[p] OBVIOUS
<1>5. LeftOf(S, i) = SumFunctionOnSet(h, S) BY DEF LeftOf
<1>. HIDE DEF f, g, h
<1>6. \A p \in S : f[p] \in Int BY <1>2
<1>7. SumFunctionOnSet(h, S) = SumFunctionOnSet(f, S) BY <1>4, <1>6, SumSame
<1>8. SumFunctionOnSet(f, S) \in Int BY <1>6, SumInt
<1>9. SumFunctionOnSet(f, T) = SumFunctionOnSet(f, S)
  <2>1. CASE r \in S
    <3>1. T = S BY <2>1
    <3>. QED BY <3>1
  <2>2. CASE r \notin S
    <3>1. SumFunctionOnSet(f, T) = f[r] + SumFunctionOnSet(f, S) BY <1>2, <2>2, SumWith
    <3>2. f[r] = 0 BY <1>3, <2>2
    <3>. QED BY <1>8, <3>1, <3>2
  <2>. QED BY <2>1, <2>2
<1>. HIDE DEF T
<1>10. SumFunctionOnSet(g, T) = SumFunctionOnSet(f, T) + g[r] - f[r]
  BY <1>1, <1>2, SumChange
<1>11. f[r] \in Int /\ g[r] \in Int BY <1>1, <1>2
<1>12. SumFunctionOnSet(g, T) = LeftOf(S, i) + Left(R[r], i) - Left(req[r], i)
  BY <1>3, <1>5, <1>7, <1>8, <1>9, <1>10, <1>11
<1>13. LeftOf(S, i) \in Int BY <1>5, <1>7, <1>8
<1>. QED BY <1>12, <1>13 DEF g, T

LEMMA SettledNext ==
  ASSUME NEW S, NEW i,
         i \notin broken' =>
           TotalOf({"sold"}, log'[i]) + SumFunctionOnSet([p \in S |-> Left(req'[p], i)], S)
             = OwedBy(accepted', i)
  PROVE  Settled(S, i)'
<1>1. Owed(i)' = OwedBy(accepted', i) BY OwedIs
<1>. QED BY <1>1 DEF Settled, LeftOf

\* What one step moves for its request, it moves for all of them together.
LEMMA Carried ==
  ASSUME NEW sold \in Int, NEW soldNow \in Int, NEW owed \in Int, NEW owedNow \in Int,
         NEW own \in Int, NEW ownNow \in Int, NEW all \in Int, NEW allNow,
         (soldNow + ownNow) - owedNow = (sold + own) - owed, sold + all = owed,
         allNow = all + ownNow - own
  PROVE  soldNow + allNow = owedNow
  OBVIOUS

LEMMA AccountedNext ==
  ASSUME Typed, Typed', Handling, Accounted, NEW r \in Requests,
         Start(r) \/ Step(r) \/ Interrupt(r)
  PROVE  Accounted'
<1>1. PICK S \in SUBSET Requests :
        /\ IsFiniteSet(S)
        /\ \A p \in Requests \ S : req[p].moves = <<>> /\ req[p].lines = <<>>
        /\ \A i \in Items : Settled(S, i)
  BY DEF Accounted
<1>. DEFINE T == S \cup {r}
<1>2. IsFiniteSet(T) /\ T \in SUBSET Requests BY <1>1, FS_AddElement
<1>3. \A p \in Requests \ {r} : req'[p] = req[p] BY OneActs
<1>4. req' \in [Requests -> Request] /\ req[r] \in Request /\ req'[r] \in Request
  BY DEF Typed, TypeOK
<1>5. ASSUME NEW i \in Items PROVE Settled(T, i)'
  <2>1. CASE i \in broken' BY <2>1, SettledNext
  <2>2. CASE i \notin broken'
    <3>1. SameAccount(r, i) BY <2>2, AccountStart, AccountStep
    <3>2. i \notin broken BY <2>2, DeletedBroken
    <3>3. TotalOf({"sold"}, log[i]) + LeftOf(S, i) = OwedBy(accepted, i)
      BY <1>1, <3>2, OwedIs DEF Settled
    <3>4. r \notin S => Left(req[r], i) = 0 BY <1>1, <1>4, LeftType
    <3>. DEFINE left == SumFunctionOnSet([p \in T |-> Left(req'[p], i)], T)
    <3>5. /\ LeftOf(S, i) \in Int
          /\ left = LeftOf(S, i) + Left(req'[r], i) - Left(req[r], i)
      BY <1>1, <1>3, <1>4, <3>4, LeftChanges
    <3>6. Left(req'[r], i) \in Int /\ Left(req[r], i) \in Int BY <1>4, LeftType
    <3>7. TotalOf({"sold"}, log[i]) \in Int /\ TotalOf({"sold"}, log'[i]) \in Int
      BY TotalType DEF Typed, TypeOK
    <3>8. OwedBy(accepted', i) \in Int /\ OwedBy(accepted, i) \in Int
      <4>1. accepted' \in Seq(Sales) /\ accepted \in Seq(Sales) BY DEF Typed, TypeOK
      <4>. QED BY <4>1, OwedType
    <3>. HIDE DEF left
    <3>9. TotalOf({"sold"}, log'[i]) + left = OwedBy(accepted', i)
      BY <3>1, <3>3, <3>5, <3>6, <3>7, <3>8, Carried DEF SameAccount
    <3>. QED BY <3>9, SettledNext DEF left
  <2>. QED BY <2>1, <2>2
<1>6. \A p \in Requests \ T : req'[p].moves = <<>> /\ req'[p].lines = <<>> BY <1>1, <1>3
<1>. HIDE DEF T
<1>. QED BY <1>2, <1>5, <1>6 DEF Accounted

\* The strengthening: what each handler under way has to move, and that what is sold,
\* with what the handlers still have to take, is what the orders they have read ask for.
HInv == Typed /\ Handling /\ Accounted

LEMMA InitHandled == Init => HInv
<1>. SUFFICES ASSUME Init PROVE HInv OBVIOUS
<1>1. Typed BY InitType
<1>2. Handling
  <2>1. \A i \in Items : items[i].status = "UNISSUED" BY DEF Init, NoRows
  <2>2. \A r \in Requests : Selling(req[r]) /\ Asked(req[r], Known, broken)
    BY IdleAsks DEF Init
  <2>. QED BY <2>1, <2>2 DEF Handling
<1>3. Accounted
  <2>1. IsFiniteSet({}) /\ {} \in SUBSET Requests BY FS_EmptySet
  <2>2. \A r \in Requests : req[r].moves = <<>> /\ req[r].lines = <<>> BY DEF Init, Idle
  <2>3. ASSUME NEW i \in Items PROVE Settled({}, i)
    <3>1. LeftOf({}, i) = 0 BY SumEmpty DEF LeftOf
    <3>2. TotalOf({"sold"}, log[i]) = 0 BY TotalEmpty DEF Init
    <3>3. Owed(i) = 0
      <4>. DEFINE f == [k \in DOMAIN accepted |-> Demand(accepted[k], i)]
      <4>1. DOMAIN f = {} BY DEF Init
      <4>2. Owed(i) = SumFunctionOnSet(f, DOMAIN f) BY DEF Owed, SumFunction
      <4>. HIDE DEF f
      <4>. QED BY <4>1, <4>2, SumEmpty
    <3>. QED BY <3>1, <3>2, <3>3 DEF Settled
  <2>. QED BY <2>1, <2>2, <2>3 DEF Accounted
<1>. QED BY <1>1, <1>2, <1>3 DEF HInv

LEMMA NextHandled == HInv /\ [Next]_vars => HInv'
<1>1. ASSUME HInv, UNCHANGED vars PROVE HInv'
  <2>1. Typed' BY <1>1, NextType DEF HInv
  <2>2. Handling' BY <1>1 DEF HInv, vars, Handling, Known
  <2>3. Accounted'
    <3>1. PICK S \in SUBSET Requests :
            /\ IsFiniteSet(S)
            /\ \A p \in Requests \ S : req[p].moves = <<>> /\ req[p].lines = <<>>
            /\ \A i \in Items : Settled(S, i)
      BY <1>1 DEF HInv, Accounted
    <3>2. \A i \in Items : Settled(S, i)'
      BY <1>1, <3>1 DEF vars, Settled, LeftOf, Owed
    <3>3. \A p \in Requests \ S : req'[p].moves = <<>> /\ req'[p].lines = <<>>
      BY <1>1, <3>1 DEF vars
    <3>. QED BY <3>1, <3>2, <3>3 DEF Accounted
  <2>. QED BY <2>1, <2>2, <2>3 DEF HInv
<1>2. ASSUME HInv, Next, NEW r \in Requests, Start(r) \/ Step(r) \/ Interrupt(r) PROVE HInv'
  <2>1. Typed' BY <1>2, NextType DEF HInv
  <2>2. Handling' BY <1>2, HandlingStart, HandlingStep DEF HInv
  <2>3. Accounted' BY <1>2, <2>1, AccountedNext DEF HInv
  <2>. QED BY <2>1, <2>2, <2>3 DEF HInv
<1>. QED BY <1>1, <1>2 DEF Next

\* Where no handler has anything left to move, nothing is left to add up.
LEMMA MovedThen == HInv => PaidOrdersAreMoved
<1>. SUFFICES ASSUME HInv, NEW i \in Items, i \notin broken,
                     \A r \in Requests : i \notin Unmoved(req[r])
              PROVE  TotalOf({"sold"}, log[i]) = Owed(i)
  BY DEF PaidOrdersAreMoved
<1>1. PICK S \in SUBSET Requests : IsFiniteSet(S) /\ Settled(S, i)
  BY DEF HInv, Accounted
<1>2. ASSUME NEW r \in Requests PROVE Left(req[r], i) = 0
  <2>1. req[r].moves \in Seq(Move) /\ req[r].lines \in Seq(Line)
    BY RequestFields DEF HInv, Typed, TypeOK
  <2>2. ToMove(req[r].moves, i) = 0
    <3>1. ~\E k \in DOMAIN req[r].moves : req[r].moves[k].item = i BY DEF Unmoved
    <3>. QED BY <2>1, <3>1, MoveType
  <2>3. Demand(req[r].lines, i) = 0
    <3>1. ~\E k \in DOMAIN req[r].lines : \E n \in DOMAIN req[r].lines[k].choices :
             req[r].lines[k].choices[n].item = i
      BY DEF Unmoved
    <3>. QED BY <2>1, <3>1, DemandType
  <2>. QED BY <2>2, <2>3 DEF Left
<1>3. LeftOf(S, i) = 0
  <2>. DEFINE f == [r \in S |-> Left(req[r], i)]
  <2>1. \A r \in S : f[r] = 0 BY <1>2
  <2>2. LeftOf(S, i) = SumFunctionOnSet(f, S) BY DEF LeftOf
  <2>. HIDE DEF f
  <2>. QED BY <1>1, <2>1, <2>2, SumZero
<1>4. TotalOf({"sold"}, log[i]) \in Int BY TotalType DEF HInv, Typed, TypeOK
<1>. QED BY <1>1, <1>3, <1>4 DEF Settled

\* What the paid orders hold has left the stock, packets with each choice as often as it
\* is in the packet times the packets sold (order.listener.ts): of an item that is still
\* listed, that no handler still has to move and that none failed to move.
THEOREM PaidOrdersTheorem == Spec => []PaidOrdersAreMoved
  BY InitHandled, NextHandled, MovedThen, PTL DEF Spec
=============================================================================
