-------------------------- MODULE StockMovements --------------------------
(***************************************************************************)
(* Stock: inventory.service.ts, the items of item.service.ts as far as     *)
(* they carry stock, and the order.paid handler of order.listener.ts.      *)
(*                                                                         *)
(* The stock of an item is kept twice: items.inventoryQty and the          *)
(* closingStock of the item's last inventory log.  Every movement reads    *)
(* the last log, writes the item and then the log, in queries of their     *)
(* own and without a transaction; each action is one query of one request  *)
(* (or of one event handler) with the code up to the next await.           *)
(* A quantity that is null counts as 0, as `?? 0` has it.  The logs are    *)
(* ordered by the date of their movement and then by their creation; no    *)
(* movement here lasts over midnight, so that is the order of creation.    *)
(***************************************************************************)
EXTENDS Integers, Sequences, FiniteSetsExt

CONSTANTS
  Items,          \* item ids; autoincrement never issues one twice
  Requests,       \* requests and event handlers that can be under way at once
  Quantities,     \* quantities an item is created with or edited to
  Amounts,        \* quantities stocked in or out
  Sales,          \* the contents of paid orders
  NoItem,         \* the item of an idle request
  Interruptions,  \* TRUE: a query may reject, or the process die, at any await
  MaxCalls        \* bound: the requests and events of one behaviour

\* An INDIVIDUAL line has itself as its only choice; a PACKET line its
\* packetChoices (its own item, which carries no stock, is taken to be there).
Choice == [item : Items, qty : Nat \ {0}]
Line   == [packet : BOOLEAN, qty : Nat \ {0}, choices : Seq(Choice)]

ASSUME StockAssumption ==
  /\ NoItem \notin Items
  /\ Quantities \subseteq Nat /\ Amounts \subseteq Nat \ {0}
  /\ Sales \subseteq Seq(Line)
  /\ Interruptions \in BOOLEAN /\ MaxCalls \in Nat

VARIABLES
  items,    \* the items table: is the row there, and its inventoryQty
  log,      \* the inventory_logs of each item, in the order they were created
  req,      \* the requests and handlers under way
  \* History variables: nothing in the code corresponds to them.
  missed,   \* what others wrote, since r read or wrote it, to r's item
  adrift,   \* items whose quantity and last log were last written apart
  accepted, \* the contents of the orders the handler has read
  broken,   \* items a handler that broke off did not move, and deleted items
  calls     \* how many requests and events there have been

vars == <<items, log, req, missed, adrift, accepted, broken, calls>>

-----------------------------------------------------------------------------
Kinds == {"initial", "in", "out", "sold"}

Item  == [status : {"UNISSUED", "LISTED", "DELETED"}, qty : Int]

\* raced is history: another log of the item came between the read and this log.
Entry == [kind : Kinds, qty : Int, opening : Int, closing : Int, raced : BOOLEAN]

\* A choice about to be moved: seen is the inventoryQty read with it, listed
\* whether the row was there.
Move == [item : Items, qty : Int, listed : BOOLEAN, seen : Int]

Pc == {"idle", "opening", "update", "log", "slug", "line", "edit", "delete",
       "createSlug", "createLog"}

Request == [pc : Pc, item : Items \cup {NoItem}, kind : Kinds, qty : Int,
            seen : Int, opening : Int, lines : Seq(Line), moves : Seq(Move),
            rows : [Items -> Item]]

NoRows == [i \in Items |-> [status |-> "UNISSUED", qty |-> 0]]

Idle == [pc |-> "idle", item |-> NoItem, kind |-> "in", qty |-> 0, seen |-> 0,
         opening |-> 0, lines |-> <<>>, moves |-> <<>>, rows |-> NoRows]

\* Who has an item, and who goes back to the lines of an order.
Sound(q) == /\ q.pc \notin {"idle", "line"} => q.item \in Items
            /\ q.pc = "slug" => q.kind = "sold"

TypeOK ==
  /\ items \in [Items -> Item]
  /\ log \in [Items -> Seq(Entry)]
  /\ req \in [Requests -> Request]
  /\ \A r \in Requests : Sound(req[r])
  /\ missed \in [Requests -> SUBSET {"log", "qty"}]
  /\ adrift \in SUBSET Items
  /\ accepted \in Seq(Sales)
  /\ broken \in SUBSET Items
  /\ calls \in Nat

Init ==
  /\ items = NoRows
  /\ log = [i \in Items |-> <<>>]
  /\ req = [r \in Requests |-> Idle]
  /\ missed = [r \in Requests |-> {}]
  /\ adrift = {} /\ accepted = <<>> /\ broken = {} /\ calls = 0

-----------------------------------------------------------------------------
Listed(i)      == items[i].status = "LISTED"
LastClosing(i) == log[i][Len(log[i])].closing

\* lastLog?.closingStock ?? item.inventoryQty ?? 0
OpeningStockMut(i, seen) == seen
OpeningStock(i, seen) == IF log[i] = <<>> THEN seen ELSE LastClosing(i)

ClosingStock(kind, opening, qty) ==
  IF kind \in {"in", "initial"} THEN opening + qty ELSE opening - qty

MayStart(r) == req[r].pc = "idle" /\ calls < MaxCalls /\ calls' = calls + 1

Go(r, state) == req' = [req EXCEPT ![r] = state]

\* The requests that rely on what the last log, or the quantity, of item i is:
\* a movement from its read on, respectively from its own update on.
ReliesOn(q, what, i) ==
  /\ req[q].item = i
  /\ \/ req[q].pc \in {"log", "createSlug", "createLog"}
     \/ what = "log" /\ req[q].pc = "update"

\* r writes that of item i: the others have missed it, r has not.
Missed(r, what, i) ==
  [q \in Requests |-> IF q = r THEN missed[q] \ {what}
                      ELSE IF ReliesOn(q, what, i) THEN missed[q] \cup {what}
                      ELSE missed[q]]

-----------------------------------------------------------------------------
\* stockIn and stockOut: findUnique of the item, 404 when it is not there.
StockFind(r, i, q, kind) ==
  /\ MayStart(r) /\ Listed(i)
  /\ Go(r, [Idle EXCEPT !.pc = "opening", !.item = i, !.kind = kind, !.qty = q,
                        !.seen = items[i].qty])
  /\ UNCHANGED <<items, log, missed, adrift, accepted, broken>>

StockIn(r, i, q)  == StockFind(r, i, q, "in")
StockOut(r, i, q) == StockFind(r, i, q, "out")

\* stockOut refuses to go below zero; a sale does not look.
Covered(kind, opening, qty) == kind = "out" => ClosingStock(kind, opening, qty) >= 0

\* findFirst of the last log: the opening stock, and from it the closing stock.
ReadOpening(r) ==
  LET q == req[r]
      opening == OpeningStock(q.item, q.seen)
  IN /\ q.pc = "opening"
     /\ IF Covered(q.kind, opening, q.qty)
        THEN Go(r, [q EXCEPT !.pc = "update", !.opening = opening])
        ELSE Go(r, Idle)
     /\ missed' = [missed EXCEPT ![r] = {}]
     /\ UNCHANGED <<items, log, adrift, accepted, broken>>

UpdateItemMut(r) ==
  LET q == req[r]
  IN /\ q.pc = "update" /\ Listed(q.item)
     /\ items' = [items EXCEPT ![q.item].qty = ClosingStock(q.kind, @, q.qty)]
     /\ Go(r, [q EXCEPT !.pc = "log"])
     /\ missed' = Missed(r, "qty", q.item)
     /\ UNCHANGED <<log, adrift, accepted, broken>>

\* item.update of the quantity.
UpdateItem(r) ==
  LET q == req[r]
  IN /\ q.pc = "update" /\ Listed(q.item)
     /\ items' = [items EXCEPT ![q.item].qty = ClosingStock(q.kind, q.opening, q.qty)]
     /\ Go(r, [q EXCEPT !.pc = "log"])
     /\ missed' = Missed(r, "qty", q.item)
     /\ UNCHANGED <<log, adrift, accepted, broken>>

\* inventoryLog.create.
RecordLog(r) ==
  LET q == req[r]
  IN /\ q.pc = "log"
     /\ log' = [log EXCEPT ![q.item] = Append(@,
                  [kind |-> q.kind, qty |-> q.qty, opening |-> q.opening,
                   closing |-> ClosingStock(q.kind, q.opening, q.qty),
                   raced |-> "log" \in missed[r]])]
     /\ Go(r, IF q.kind = "sold" THEN [q EXCEPT !.pc = "slug", !.moves = Tail(q.moves)]
              ELSE Idle)
     /\ missed' = Missed(r, "log", q.item)
     /\ adrift' = IF "qty" \in missed[r] THEN adrift \cup {q.item} ELSE adrift \ {q.item}
     /\ UNCHANGED <<items, accepted, broken>>

-----------------------------------------------------------------------------
\* What an order asks of item i.
LineDemand(line, i) ==
  SumFunction([n \in DOMAIN line.choices |->
                 IF line.choices[n].item = i THEN line.choices[n].qty * line.qty ELSE 0])

Demand(lines, i) == SumFunction([k \in DOMAIN lines |-> LineDemand(lines[k], i)])

\* handleOrderPaid: findUnique of the order with its lines and their items.
SaleStart(r, lines) ==
  /\ MayStart(r)
  /\ \A i \in Items : Demand(lines, i) > 0 => items[i].status # "UNISSUED"
  /\ Go(r, [Idle EXCEPT !.pc = "line", !.lines = lines, !.rows = items])
  /\ accepted' = Append(accepted, lines)
  /\ UNCHANGED <<items, log, missed, adrift, broken>>

ChoiceQtyMut(line, choice) == choice.qty
\* (choice.quantity ?? 1) * qty
ChoiceQty(line, choice) == choice.qty * line.qty

\* What a line moves, its items looked up in rows.
MovesOf(line, rows) ==
  [k \in 1..Len(line.choices) |->
     LET c == line.choices[k]
     IN [item |-> c.item, qty |-> ChoiceQty(line, c), seen |-> rows[c.item].qty,
         listed |-> rows[c.item].status = "LISTED"]]

\* The next line.  The items of a packet are read now, in one findMany; those
\* of an individual line came with the order, and this step reads nothing.
SaleLine(r) ==
  LET q == req[r]
  IN /\ q.pc = "line" /\ q.moves = <<>> /\ q.lines # <<>>
     /\ LET line == Head(q.lines)
        IN Go(r, [q EXCEPT !.lines = Tail(q.lines),
                           !.rows = IF Len(q.lines) = 1 THEN NoRows ELSE q.rows,
                           !.moves = MovesOf(line, IF line.packet THEN items ELSE q.rows)])
     /\ UNCHANGED <<items, log, missed, adrift, accepted, broken>>

\* An item that was not there is passed over.
SaleSkip(r) ==
  LET q == req[r]
  IN /\ q.pc = "line" /\ q.moves # <<>> /\ ~Head(q.moves).listed
     /\ Go(r, [q EXCEPT !.moves = Tail(q.moves)])
     /\ UNCHANGED <<items, log, missed, adrift, accepted, broken>>

SaleOpeningMut(r) ==
  LET q == req[r]
      m == Head(q.moves)
  IN /\ q.pc = "line" /\ q.moves # <<>> /\ m.listed
     /\ Go(r, [q EXCEPT !.pc = "update", !.kind = "sold", !.qty = m.qty,
                        !.opening = OpeningStock(m.item, m.seen)])
     /\ missed' = [missed EXCEPT ![r] = {}]
     /\ UNCHANGED <<items, log, adrift, accepted, broken>>

\* findFirst of the last log of the next item.
SaleOpening(r) ==
  LET q == req[r]
      m == Head(q.moves)
  IN /\ q.pc = "line" /\ q.moves # <<>> /\ m.listed
     /\ Go(r, [q EXCEPT !.pc = "update", !.kind = "sold", !.item = m.item, !.qty = m.qty,
                        !.opening = OpeningStock(m.item, m.seen)])
     /\ missed' = [missed EXCEPT ![r] = {}]
     /\ UNCHANGED <<items, log, adrift, accepted, broken>>

\* inventoryLog.update of the slug; then the next item, if any.
SaleSlug(r) ==
  LET q == req[r]
  IN /\ q.pc = "slug"
     /\ Go(r, [Idle EXCEPT !.pc = "line", !.lines = q.lines, !.moves = q.moves, !.rows = q.rows])
     /\ UNCHANGED <<items, log, missed, adrift, accepted, broken>>

SaleDone(r) ==
  LET q == req[r]
  IN /\ q.pc = "line" /\ q.moves = <<>> /\ q.lines = <<>>
     /\ Go(r, Idle)
     /\ UNCHANGED <<items, log, missed, adrift, accepted, broken>>

-----------------------------------------------------------------------------
\* createItem: insert the row with its quantity ...
CreateItem(r, i, n) ==
  /\ MayStart(r) /\ items[i].status = "UNISSUED"
  /\ items' = [items EXCEPT ![i] = [status |-> "LISTED", qty |-> n]]
  /\ Go(r, [Idle EXCEPT !.pc = "createSlug", !.item = i, !.kind = "initial", !.qty = n])
  /\ missed' = [missed EXCEPT ![r] = {}]
  /\ UNCHANGED <<log, adrift, accepted, broken>>

\* ... add the slug, and for a positive quantity go on to the initial log.
CreateSlug(r) ==
  LET q == req[r]
  IN /\ q.pc = "createSlug" /\ Listed(q.item)
     /\ Go(r, IF q.qty > 0 THEN [q EXCEPT !.pc = "createLog"] ELSE Idle)
     /\ UNCHANGED <<items, log, missed, adrift, accepted, broken>>

\* ... which says that the stock was 0 and has become the quantity.
CreateLog(r) ==
  LET q == req[r]
  IN /\ q.pc = "createLog"
     /\ log' = [log EXCEPT ![q.item] = Append(@,
                  [kind |-> "initial", qty |-> q.qty, opening |-> 0, closing |-> q.qty,
                   raced |-> "log" \in missed[r]])]
     /\ Go(r, Idle)
     /\ missed' = Missed(r, "log", q.item)
     /\ adrift' = IF "qty" \in missed[r] THEN adrift \cup {q.item} ELSE adrift \ {q.item}
     /\ UNCHANGED <<items, accepted, broken>>

\* updateItem: findUnique, then the update, here of the quantity: no log.
EditFind(r, i, n) ==
  /\ MayStart(r) /\ Listed(i)
  /\ Go(r, [Idle EXCEPT !.pc = "edit", !.item = i, !.qty = n])
  /\ UNCHANGED <<items, log, missed, adrift, accepted, broken>>

EditItem(r) ==
  LET q == req[r]
  IN /\ q.pc = "edit" /\ Listed(q.item)
     /\ items' = [items EXCEPT ![q.item].qty = q.qty]
     /\ Go(r, Idle)
     /\ missed' = Missed(r, "qty", q.item)
     /\ adrift' = adrift \cup {q.item}
     /\ UNCHANGED <<log, accepted, broken>>

\* deleteItem: findUnique, then the delete.  The logs have no foreign key and stay.
DeleteFind(r, i) ==
  /\ MayStart(r) /\ Listed(i)
  /\ Go(r, [Idle EXCEPT !.pc = "delete", !.item = i])
  /\ UNCHANGED <<items, log, missed, adrift, accepted, broken>>

DeleteItem(r) ==
  LET q == req[r]
  IN /\ q.pc = "delete" /\ Listed(q.item)
     /\ items' = [items EXCEPT ![q.item].status = "DELETED"]
     /\ Go(r, Idle)
     /\ broken' = broken \cup {q.item}
     /\ UNCHANGED <<log, missed, adrift, accepted>>

-----------------------------------------------------------------------------
\* The items r still had to move.
Unmoved(q) == {q.moves[k].item : k \in DOMAIN q.moves} \cup
              {i \in Items : \E k \in DOMAIN q.lines :
                               \E n \in DOMAIN q.lines[k].choices : q.lines[k].choices[n].item = i}

\* r ends here.  The handler of order.paid catches what it threw and stops.
BreakOff(r) ==
  LET q == req[r]
  IN /\ Go(r, Idle)
     /\ adrift' = IF q.pc = "log" THEN adrift \cup {q.item} ELSE adrift
     /\ broken' = broken \cup Unmoved(q)
     /\ UNCHANGED <<items, log, missed, accepted>>

\* The row to update is gone (P2025).
RowGone(r) ==
  /\ req[r].pc \in {"update", "edit", "delete", "createSlug"} /\ ~Listed(req[r].item)
  /\ BreakOff(r)

\* A query rejects, or the process ends.
Interrupt(r) ==
  /\ Interruptions /\ req[r].pc # "idle"
  /\ BreakOff(r)

Start(r) ==
  \/ \E i \in Items, q \in Amounts : StockIn(r, i, q) \/ StockOut(r, i, q)
  \/ \E i \in Items, n \in Quantities : CreateItem(r, i, n) \/ EditFind(r, i, n)
  \/ \E i \in Items : DeleteFind(r, i)
  \/ \E lines \in Sales : SaleStart(r, lines)

Step(r) ==
  \/ ReadOpening(r) \/ UpdateItem(r) \/ RecordLog(r)
  \/ SaleLine(r) \/ SaleSkip(r) \/ SaleOpening(r) \/ SaleSlug(r) \/ SaleDone(r)
  \/ CreateSlug(r) \/ CreateLog(r) \/ EditItem(r) \/ DeleteItem(r)
  \/ RowGone(r)

Next == \E r \in Requests :
          Start(r) \/ ((Step(r) \/ Interrupt(r)) /\ UNCHANGED calls)

Spec == Init /\ [][Next]_vars

-----------------------------------------------------------------------------
\* calculateSummary, and the totals below the exported sheet.
TotalOf(kinds, entries) ==
  SumFunction([k \in DOMAIN entries |->
                 IF entries[k].kind \in kinds THEN entries[k].qty ELSE 0])

SummaryMut(entries) ==
  [stockIn |-> TotalOf({"in"}, entries), stockOut |-> TotalOf({"out"}, entries),
   sold |-> TotalOf({"sold"}, entries)]
Summary(entries) ==
  [stockIn |-> TotalOf({"in", "initial"}, entries), stockOut |-> TotalOf({"out"}, entries),
   sold |-> TotalOf({"sold"}, entries)]

\* What the handlers that have read an order owe item i.
Owed(i) == SumFunction([k \in DOMAIN accepted |-> Demand(accepted[k], i)])

-----------------------------------------------------------------------------
(***************************************************************************)
(* Correctness.                                                            *)
(***************************************************************************)

\* The logs of an item form a chain: each opens where the one before closed,
\* unless another movement of the item was logged between the findFirst and
\* the create of this one.
LogChain ==
  \A i \in Items : \A n \in 2..Len(log[i]) :
    log[i][n].raced \/ log[i][n].opening = log[i][n-1].closing

\* The two records of the stock agree: inventoryQty is the closing stock of
\* the last log, unless a movement stands between its two writes, or broke off
\* there, or another wrote the item in between, or updateItem set the quantity
\* and no movement has followed.
QtyIsLastClosing ==
  \A i \in Items :
    \/ log[i] = <<>> \/ i \in adrift
    \/ \E r \in Requests : req[r].pc = "log" /\ req[r].item = i
    \/ items[i].qty = LastClosing(i)

\* The inventory report balances: where no two movements raced, the first
\* opening stock and the report's totals give the stock that is left.
ReportBalances ==
  \A i \in Items :
    LET entries == log[i]
        total   == Summary(entries)
    IN \/ entries = <<>> \/ \E n \in DOMAIN entries : entries[n].raced
       \/ LastClosing(i) = entries[1].opening + total.stockIn - total.stockOut - total.sold

\* What the paid orders hold has left the stock, packets with each choice as
\* often as it is in the packet times the packets sold: of an item that is still
\* listed, that no handler still has to move and that none failed to move.
PaidOrdersAreMoved ==
  \A i \in Items :
    \/ ~Listed(i) \/ i \in broken \/ \E r \in Requests : i \in Unmoved(req[r])
    \/ TotalOf({"sold"}, log[i]) = Owed(i)
=============================================================================
