# Y-PoS in TLA+

Y-PoS is a restaurant point of sale: a NestJS backend over PostgreSQL (Prisma), Redis and
Socket.IO.  These modules model the parts of it that are hard to test, check them with TLC
and prove their main invariants with TLAPS.  All source paths are relative to `src/`.

Two facts about the code shape everything here:

- **No handler runs in a database transaction.**  A request is a sequence of queries.  Each
  query is atomic; between two of them any other request may run, and the request may end (a
  query rejects, the pool times out, the process dies), leaving what it has written so far.
- **Almost no rule is backed by the schema.**  Apart from primary keys, foreign keys and
  `users.resetToken` nothing is unique or constrained, so every rule is "read, check, then
  write", and holds only as far as what was read still stands.

## Inventory

| Component | Source | State | Operations |
|---|---|---|---|
| Orders and payments | `src/modules/order/order.service.ts`, `order.controller.ts` | `orders`, `order_items`, `payments` | create, edit, adjust prices, cancel, send, accept, ready, pick up, pay, delete |
| Pricing | the same | none | unit price, subtotal, total, rounding by the columns |
| Order events | `order.listener.ts` | `items.inventoryQty`, `inventory_logs` | `order.paid` moves stock; broadcasts |
| Inventory | `src/modules/inventory` | the same | stock in, stock out, logs, reports |
| Catalogue | `item`, `menu`, `section`, `table`, `production-station` | one table each | CRUD with cascades |
| Pricing adjustments | `pricing-adjustment` | two tables | CRUD; copied into orders when they are created |
| Payment verification | `src/modules/payment` | `payments` flags, `payment_verifies` | verify, set status, verify the day, nightly report |
| Shifts | `src/modules/shift` | `shift_sessions`, cash proofs | open, close, upload and verify proofs |
| Response cache | `src/common/interceptors/cache.interceptor.ts`, `src/infra/redis` | Redis keys | read through, invalidate after a write |
| Accounts | `auth`, `user`, `operating-hours` | `users`, business profile, hours | login, password recovery, CRUD, singletons |
| Reporting, analytics | `reporting`, `analytics` | none | aggregates over orders and payments |
| Receipts, mail, uploads, sockets, HTTP shell | `order/services`, `infra`, `common`, `main.ts` | none the handlers read | output, configuration |

**How they interact.**  Handlers call the database and nothing else synchronously, with three
exceptions.  The payment route calls `submitOrderPayment` and then `sendOrderToProduction`
(`order.controller.ts:84-86`).  Services emit in-process events (`order.created`,
`order.paid`, ...), whose asynchronous listeners run concurrently with the rest of the request,
swallow their errors and are lost with the process.  The cache interceptor wraps every route.
All other interaction is through shared tables: payments freeze prices, orders copy the
adjustments in force, the order listener and the stock routes share the log chain, reports read
everything.

**What is hard, and what makes each part correct.**

- *Orders and payments.*  Overlapping requests on one order; the gap of `editOrder` between
  deleting the old items and inserting the new ones; the payment route, which records a
  payment four queries before the order leaves `PENDING`.  Correct: at most one payment, for the
  order's total; items, subtotal, adjustments and total agree; nothing paid is edited,
  cancelled or deleted; a paid order reaches production.
- *Order events and inventory.*  Read-modify-write of the last log by the listener and by the
  stock routes; a listener that fails half way.  Correct: `inventoryQty` is the last log's
  closing stock, logs chain, every sold unit is moved once, stock out never goes below zero.
- *Payment verification and shifts.*  Check-then-create of shifts; two flags for one fact;
  carried-over cash chosen among rows of equal date; 0 taken for "missing".  Correct: one open
  shift a user a day; the flags agree; the opening cash of a day is the closing cash of the
  day before.
- *Response cache.*  A stale answer stored after the invalidation; patterns that match nothing.
  Correct: an answer that a write made old is deleted by that write.
- *Accounts.*  One-time codes used twice; rows "created if missing" twice.
- *Catalogue, adjustments.*  Cascades, and answers that show the rows of other tables.  Correct: no row
  refers to one that is gone; a write invalidates every answer that shows what it wrote.

`PROJECT.json` lists every component with its status, and every hazard at its line with the
properties that would catch it.

## Modules

| Module | What it is |
|---|---|
| `Money` | Amounts finer than a cent, and what a column of two decimals makes of them |
| `OrderPricing` | The arithmetic of an order's price, as operators |
| `MCOrderPricing` | Carts and adjustment lists built up one element at a time, for TLC |
| `OrderLifecycle` | Orders, payments and the requests in flight, one action per query |
| `OrderLedger` | What the order service promises: each request one atomic step |
| `MCOrderLifecycle` | Carts, adjustments and symmetry for TLC |
| `OrderProofs` | Type correctness of `OrderLifecycle`, its inductive invariant and the safety theorems; without overlap, it implements `OrderLedger` |
| `StockMovements` | Items, their logs, the stock routes and the handler of `order.paid`, one action per query |
| `ShiftDesk` | Shift sessions, cash proofs and the users they refer to |
| `SalesReports` | What the screens and reports read of orders and payments, each by its calendar, as operators over the tables |
| `PaymentDesk` | Payments after they are recorded: verification, summary, mails; the reports over its tables |
| `Accounts` | Users, password recovery, business profile and opening hours |
| `Catalogue` | The tables behind the cached routes: foreign keys, cascades, what each service writes and what each answer shows |
| `ResponseCache` | The cache interceptor around `Catalogue`, one action per query or Redis command |
| `MCStockMovements`, `MCShiftDesk`, `MCPaymentDesk`, `MCAccounts`, `MCResponseCache` | Values and symmetry for TLC |
| `SumProofs` | What the community modules' sums over finite sets compute: the lemmas `PricingProofs`, `StockProofs` and `PaymentProofs` rest on |
| `PricingProofs` | The total of any cart and any adjustments: what their order can change, and that it is rounded once |
| `StockProofs`, `ShiftProofs`, `PaymentProofs`, `AccountProofs`, `CacheProofs` | Inductive invariants and theorems |

All the concurrent modules are built alike.  `req[r]` is the request (or event handler, or job) in slot
`r`: `pc` says which query it sends next, the other fields what it has read and still uses.  A look
at rows that are never deleted, or fields that never change, is part of the query after it; a
request refused before its first write leaves no trace.  `Interrupt(r)` ends a request at any await: a
query rejects or the process dies.  History variables (`missed` above all) record which reads
have gone stale; no guard reads them.  They let a property say exactly *which* race, failure or
call excuses a wrong state, rather than "something overlapped".  So a property here has two halves:
what holds, and the complete list of the ways in which the code loses it.

### OrderPricing

Prices are in cents, as their columns are.  What is computed from them, and an adjustment's value, which
`order.dto.ts:94-95` does not hold to two decimals, is in the units of `Money`, `Scale` of them to a cent.
`ToCents` is what a `Decimal(10, 2)` column makes of an amount.

The code adds JavaScript doubles in the order of the list (`order.service.ts:31-46`).  A double is
modelled by what it can be off: each step of `Sums` may come to anything `Near` its exact result, within
`Err` units in either direction.  So a subtotal and a list have a *set* of totals, `TotalAmounts`, and
which of them is stored depends on numbers and order in a way the model leaves open; `OrderLifecycle`
chooses one at every write.  On a subtotal of 1, `[15%, 11.5%, +0.40]` and `[15%, +0.40, 11.5%]` both
come to 1.665, which the doubles make 1.67 and 1.66.  A promo price of 0 counts as
a promo because Prisma hands it over as a `Decimal` object, and an object is true.

### OrderLifecycle

`row[o]` is an order with its items (`lines`: one cart for each query that inserted items),
its subtotal, its snapshot of adjustments and its total; `UNISSUED` and `DELETED` stand for
the two ways of not being there, which differ because ids are never issued again.  `payments`
is the table: every payment is created `PAID` (`order.service.ts:875`) and nothing changes
that.  A request pays an order at most once, so the pair of its slot and the order stands for
the payment's id.  `req[r]` is what request `r` has read and still uses, and the query it will
send next.

| Handler | Actions |
|---|---|
| `createOrder` 49-182 | `CreateOrder`, `CreateSlug` |
| `editOrder` 437-521 | `EditRead`, `EditRefused`, `EditDeleteItems`, `EditWrite` |
| `updatePricingAdjustments` 523-585 | `AdjustRead`, `AdjustWrite` |
| `cancelOrder` 587, `sendOrderToProduction` 677, `acceptOrder` 736, `markOrderReady` 766, `markOrderPickedUp` 807 | `XRead`, `XWrite` |
| the payment route (`submitOrderPayment` 848, then the controller's send) | `PayRead`, `PayCreate`, `PaySlug`, `PayAssign` or `PayAssignFails`, `PaySendRead` or `PaySendRefused`, `PaySendWrite` |
| `deleteOrder` 958 | `DeleteRead`, `DeleteWrite` |
| a write to an order that is gone | `OrderVanished` |
| a query that rejects, a process that dies | `Interrupt` |

Folded together: reads that touch neither orders nor payments (the table, the catalogue, the
adjustments in force) become the choice of an action's arguments; a request refused before
its first write leaves no trace and is no step.  `updateOrder` (363-435) has no caller and is
left out.

Four history variables record what the code does not: `missed[r]`, the writes of others since
`r`'s read to what `r` relies on (`ReliedOnBy` says who relies on what); `priceRaced` and
`linesRaced`, the orders whose last edit or adjustment missed one; `abandoned`, the orders
whose payment route ended before its last query.

### OrderLedger

The promise, in terms a cashier would use: an order is always priced by its subtotal and
adjustments, edited and cancelled only while `PENDING`, re-priced only while unpaid, charged at
most once and exactly its total, deleted only while unpaid.  It has no queries and no requests,
and how a price is computed is a parameter of it.
`OrderLifecycle!Ledger` instantiates it by forgetting the requests, the items and the
announcements.

### StockMovements

The stock of an item is kept twice: `items.inventoryQty` (`items[i].qty`) and the closing stock of
the item's last log (`log[i]`).

| Handler | Actions |
|---|---|
| `stockIn`, `stockOut` (`inventory.service.ts`) | `StockIn` or `StockOut`, `ReadOpening`, `UpdateItem`, `RecordLog` |
| `handleOrderPaid` (`order.listener.ts`), line by line | `SaleStart`, `SaleLine`, `SaleSkip`, `SaleOpening`, `UpdateItem`, `RecordLog`, `SaleSlug`, `SaleDone` |
| `createItem` (`item.service.ts`) | `CreateItem`, `CreateSlug`, `CreateLog` |
| `updateItem` of the quantity, `deleteItem` | `EditFind`, `EditItem`; `DeleteFind`, `DeleteItem` |
| an item that is gone; a query that rejects | `RowGone`, `Interrupt` |

The source of `order.paid` is the choice of the order's contents (`Sales`), which may come at any time,
as `OrderLifecycle` announces payments at any time.  The items of an individual line are those
read with the order; those of a packet are read when its line comes.  `Summary` is the total of the
inventory report.  Logs are ordered by the date of the movement and then by creation: a movement that
lasts over midnight is left out, so that is the order of creation.

### ShiftDesk

`openShift` is `OpenFind`, `OpenLook`, `OpenCreate`; `closeShift` `CloseRead`, `CloseWrite`; the two
proof routes `UploadFind`, `UploadProof` and `VerifyFind`, `VerifyProof`; `deleteUser` is one action,
since what matters here is what its foreign keys do to sessions and proofs (`SetNull`).  `Current`,
`HistoryPage` and `TotalPages` are the reads.  The three confirmations are treated alike by the
code and are one flag, as are the three `skipped...` flags.  `Closed` keeps the code's tests: an
amount of 0 is falsy, a flag is compared with `null`.  The amounts of a body are any numbers
(`shift.dto.ts:11-15`), here in the units of `Money`; opening amount, closing amount and the difference of the
two are `Stored` by three columns, which round each by itself.  So 0.004 is true and stored as 0.00, and
1.004 and 2.006 are stored as 1.00 and 2.01 beside a discrepancy of 1.00.  The one subtraction is exact here:
in doubles it is off by much less than a cent, which could only turn a tie of an amount with
more than two decimals.

### SalesReports and PaymentDesk

`SalesReports` translates the filters and sums of `order.service.ts`, `payment.service.ts`,
`analytics.service.ts` and `reporting.service.ts` into operators over a table of orders and one of payments.

There are two calendars.  The lists, the metrics, the summary and the reports use `setHours` and so the days of
the server, whose clock is UTC, since no image or composition sets another (`Day`, `Rows`).  The dashboard
uses the days of Asia/Bangkok, which begin seven hours earlier (`BangkokDay`, `BangkokRows`, `PaidIn`;
`analytics.service.ts:56`, `:220`).  Time is in ticks, three a day of the server: up to 17:00, when both calendars name the same day;
17:00 to the millisecond, midnight in Bangkok, where the dashboard's ranges begin and its `<=` shows; and the
rest of the day, when Bangkok is a day ahead (`Night`).  A payment has two times: `paid`, which the
server gives it (`paidAt`, `order.service.ts:876`), and `at`, which the database gives it on storing
(`createdAt`) and which may be up to two ticks later; the dashboard's revenue goes by the first, its join with orders
by the order's `createdAt`, the metrics and lists by the second.

`PaymentDesk` makes the tables grow (`PlaceOrder`, `MoveOrder`, `RecordPayment`: what `OrderLifecycle` has in
detail, cut down to what the reports see) and adds the routes: `VerifyPayment`,
`UpdateVerificationStatus`; `getTodayPaymentsSummary` in its five queries (`SummaryTotal`, `SummaryCash`,
`SummaryTransfer`, `SummaryOpening`, `SummaryCount`); `VerifyDay`, which goes on as the handler of its own
event; `EveningReport`, the job; and for these two `Export` and `Send`.  A business without an
e-mail address, for which nothing is sent, is left out.  Payments are never deleted here: the one way to lose
one, a `deleteOrder` that overlaps the payment and cascades to it (`order.service.ts:978`), is
`OrderLifecycle`'s subject (`PaidOrderLostOnlyToRace`), and a report simply no longer counts what is gone.

### Accounts

`createUser` is `CreateLook`, `Insert`, `AddSlug` (and so is a guest's login); `updateUser` `UpdateFind`,
`UpdateLook`, `UpdateWrite`; `changePassword` `ChangeFind`, `ChangeWrite`; `deleteUser` `DeleteFind`, `DeleteWrite`;
`forgotPassword` `ForgotFind`, `ForgotWrite`, `Mail`; `verifyOtp` `VerifyFind`, `VerifyWrite`; `resetPassword`
`ResetFind`, `ResetWrite`; the business profile and the opening hours, both "the first row, or create it",
`SingleFind`, `SingleCreate`; and `Expire` is the clock.  Codes and tokens are the numbers of the list
`secrets` in the order they were drawn, no two alike (the code draws them at random).  What a password is, and the JWT, make no difference
and are left out.

### Catalogue and ResponseCache

`Catalogue` has one state, `rows`, for all tables: whether the row is there, which rows it refers to, and a
version for what it says.  `Deleted` is a delete with its cascades (`prisma/schema`), `Renumbered` the
change of a table's id, which is its number.  A row has one foreign key to each table above it, but
an order two to the users, of who made it and of who was paid (`Fits`).  Each service is the set of writes it can make to the
rows, each answer the set of rows it shows.  A 404 look is merged with the write after it,
which fails in the same way (P2025, P2003) when the row has gone.  Users are made by `UserService` and, through
`POST /auth/user-login`, by `AuthService`: a guest without a number gets a row of its own.

`ResponseCache` wraps them: `Lookup`, `Query`, `Store` for a read; `WriteRow`, `WriteSlug` (or `BulkLook`,
`BulkWrite`, `BulkFails`) and one `Clear` for each name the route gives, in any order, for a
write; `Expire` for the TTL, at any time.  `Names` holds the `@InvalidateCache` names of every controller
(none for the login of a guest), `Matches` what `deleteByPattern` deletes for them.  `Interrupt` covers a Redis command that fails as well as a
handler that does.  The queries of one read are a single step; lists show every row of their
table, since which page a key is about makes no difference to what must be deleted.

## Runs

| Run | What it shows | Bounds |
|---|---|---|
| `pricing` | The order of the adjustments moves the total by a cent at most, next to a half cent only, and it is rounded once | 2 lines of 5 items, 3 of 7 adjustments, 100,000 units to a cent, a step 1 unit off; 44,400 states |
| `order_concurrent` | The safety invariants under full overlap and interruption | 1 order, 2 requests, 2 carts, 2 adjustment lists; 1.9 million states |
| `order_serial` | Without overlap the handlers implement `OrderLedger`, wherever they are interrupted | the same, `OneAtATime`; 7,629 states |
| `order_progress` | A paid order leaves `PENDING` unless its route broke off | 1 cart, no adjustments, `FairSpec`; 64,303 states |
| `stock_movements` | Logs chain, quantity and log agree, the report balances, paid orders leave the stock | 2 items, 2 requests, 4 calls; quantities 0 and 2, amount 1; an order of a single, one of a single and a packet sold twice; 329,144 states |
| `shift_desk` | One open shift a day, and what a close stores belongs together | 2 users, 2 requests, 2 days, 5 calls, 6 bodies of a close (nothing, both amounts, one, a 0, parts of a cent), 10 units to a cent; 440,305 states |
| `payment_desk` | Flags, sums, mails and the figures of different screens agree | 2 kinds of order, 2 requests, 3 ticks (a night, the next day, midnight in Bangkok), 4 calls; 876,976 states |
| `accounts` | E-mails unique, codes and tokens served once, a reset ends the recovery, settings one row | 2 users, 2 e-mails, 2 requests, 5 calls; 1.4 million states |
| `response_cache` | What is cached is fresh, but for the races, failures and unnamed keys listed | 3 catalogues of up to 8 rows in which every foreign key is set, 2 requests, 3 calls, 1 key at a time; 825,252 states |
| `order_two_payments` | *Violation*: two payments for one order | no interruptions |
| `order_edit_after_payment` | *Violation*: a paid order is edited | no overlap, one interruption |
| `order_status_order` | *Violation*: `READY` without `PROCESSING` | neither |

`pricing`:

- `ListOrderMovesACent`: two orders of a list give totals at most a cent apart, and the same total unless the
  exact price lies as near to a half cent as the doubles can be off;
- `TotalIsRoundedOnce`: the total is within half a cent, and what the doubles can be off, of the subtotal, the sum of
  the percentages of the subtotal, and the fixed amounts.

`order_concurrent` checks, besides types:

- `ReferencesResolve`: no payment outlives its order, whatever a delete races with;
- `PriceIsConsistent`: a total is one that its subtotal and adjustments can come to, unless the
  last edit missed an adjustment or the last adjustment an edit;
- `LinesMatchSubtotal`: the items are one list that adds up to the subtotal, except in the gap
  of an edit, after an edit was interrupted in its gap, and after two edits overlapped;
- `ReadsAndChecksHold`: what a handler read, and what it checked of payments and of the status, still
  holds when it writes, unless another request wrote just that in between;
- `PaidPendingIsInFlight`, `EveryPaymentAnnounced`: a paid order is `PENDING`, and its stock not
  yet moved, only while its payment route is on its way or after that broke off;
- `PaidOrderLostOnlyToRace`, `CancellationOnlyRaces`: a paid order is deleted, an order in
  production cancelled, a cancelled order revived, only by a request that missed the change.

`stock_movements`:

- `LogChain`, `QtyIsLastClosing`: each log opens where the one before closed, and the quantity is the last
  closing stock, unless two movements overlapped, one broke off between its two writes, or `updateItem`
  set the quantity, which leaves no log;
- `ReportBalances`: first opening stock and totals give what is left, unless movements raced;
- `PaidOrdersAreMoved`: what paid orders hold has been taken out, packets multiplied out, except for items
  a handler still has to move or failed to move.

`shift_desk`:

- `OneOpenShiftADay`: a second open shift comes only from two openings that overlapped;
- `CurrentIsTheOneOpened`: the answer of `openShift`, the current shift and the history name the same session,
  and the pages of the history hold every session once;
- `DiscrepancyHolds`: a discrepancy is that of the stored amounts, to the cent after a close with whole cents and
  within a cent otherwise, unless the last close gave a 0, which enters the discrepancy and is not stored;
- `CountsStand`: a close keeps what it is not given, unless it overlapped another;
- `TypeOK` here is referential integrity: sessions, proofs and requests against users deleted at any time.

`payment_desk`:

- `FlagsAgree`: the three records of a verification agree, unless `verifyPayment`, which leaves the status
  alone, wrote last;
- `SummaryAddsUp`, `OpeningIsLastClosing`: the five queries of the summary fit together unless a payment came
  in between, or two verifications share the last date;
- `MailsHoldTheirDay`: a mail holds the payments of the day it names, unless midnight passed before its
  handler read them;
- `ReportsReconcile` (`DashboardAgrees` and `ReportsAgree`): the same orders and payments through different filters of one calendar give the
  same figures, except where the properties say how the filters differ (orders paid twice, a payment at the
  first instant of a period, a search among unpaid orders);
- `EarningsAgree`: today's and yesterday's earnings, by the server's days, are the dashboard's revenue of the same
  dates, by Bangkok's, unless something of either day was paid in the hours when the calendars differ, or one of
  yesterday's payments has been verified, which takes it out of yesterday's earnings.  By day the dashboard's
  today is never less than today's earnings; in the night it is never more.

`accounts`:

- `EmailsAreUnique`, `SingletonsStand`: lost only to requests that both looked before either wrote;
- `SecretServesOnce`, `SecretsStand`, `ResetRevokes`: a code buys one token and a token one password; what the
  user was last told works until something named ends it; after a reset nothing older is stored.

`response_cache`:

- `AnswersAreFresh`: a stale entry has its invalidation still to come, lost, or too early (the reader
  stored after it), or was made stale by a write whose route does not name its key;
- `NamesCoverWrites`: the list of those last writes, route by route, is `Unnamed`: no other write leaves a
  stale answer behind.

**Why the bounds are enough.**  *Orders*: rows of different orders never meet, since an action reads and
writes the order of its request only, and the properties speak of one order at a time.  So one order
is enough, and the proofs, which have any number, confirm it.  Two requests give every overlap of two
handlers; a request slot is used again and again, so a third and a fourth handler run before,
after and in the gaps of the two.  Two carts and two lists suffice for the properties to tell a
right price from a stale one, and are chosen so that the four totals differ.

*The other runs* bound the calls as well, for their tables only grow.  Every race the properties name needs
two requests under way and one state left by an earlier call; the bounds allow at least one call more than the
longest of these, and every mutant is caught within them.  Two items are needed for a handler
that moves one and not the other; two users for one who gets another's e-mail; two days for a
shift of yesterday and for the opening cash; three ticks, over which both
calendars change their day, and with a night for what is of different days on them.  One cache key at a time is enough because
entries of different keys never meet: `Clear`, `Store` and `Expire` treat each by itself, and both properties
speak of one key; over the behaviours every key of every table has its turn.  Where bounds are a
worry the proofs help: `OrderProofs`, `PricingProofs`, `StockProofs`, `ShiftProofs`, `PaymentProofs`, `AccountProofs` and `CacheProofs` have none.

**Deadlock checks are off** where behaviours end by their bounds: order ids, calls or inputs run out, and
then nothing is left to call.

**Fairness.**  `FairSpec` of `OrderLifecycle` is weak fairness of `Step(r)` for each request: a query that was sent
comes back, or rejects.  The Node event loop and the Prisma pool, which times out rather than blocks,
give that.  Nothing makes a client call, and `Interrupt` is under no fairness, so progress never rests
on a failure.  The other modules state no liveness: their requests are straight lines of queries, and
what should eventually happen (a stale entry goes) the code leaves to a TTL.

### Findings

1. *Two payments* (`order_two_payments`).  `submitOrderPayment` looks for a payment and inserts
   one in a later query; two overlapping requests both insert.  `order.service.ts:860` says
   "Check if payment already exists".
2. *An edit after the payment* (`order_edit_after_payment`).  `editOrder` looks at the status
   only, and the payment route changes the status long after it recorded the payment.
   `docs/architecture.md:467`: "Orders cannot be edited after `Payment` is submitted".
3. *The lifecycle* (`order_status_order`).  `acceptOrder`, `markOrderReady` and
   `markOrderPickedUp` look at no status; `docs/architecture.md:433-455` draws an order.

Other places where the program does not do what a reader may expect are not runs of their own, because a passing
property already names them as the exception it allows: the evening report covers the day up to 23:00 only;
a search among unpaid orders shows paid ones (`DashboardAgrees`); two screens that both say "today" count different
payments for seven hours of each day (`EarningsAgree`); a close with 0 keeps the
old amount, and amounts with a third decimal do not add up (`DiscrepancyHolds`); the order of a list decides a cent
(`ListOrderMovesACent`); two first calls make two business profiles (`SingletonsStand`);
details of sections, items and tables stay cached after writes to what they show, and a list of users without the
guest who has just come (`Unnamed`).

## Proofs

`tlapm` checks every theorem for any values of the constants: any orders, users, items, requests, carts,
catalogues, keys, and any bounds.  The assumptions are the named `ASSUME`s of the modules
(`OrderAssumption`, `StockAssumption`, `ShiftAssumption`, `PaymentAssumption`, `AccountAssumption`,
`CatalogueAssumption`, `CacheAssumption`, `MoneyAssumption`, `PricingAssumption`): the null values are no members of the sets, inputs are of
their types, catalogues are whole to begin with, ids are none of the words of a path, switches are Booleans,
bounds are numbers, a cent has at least one unit.  TLC evaluates them on every run.  The `ErrAssumption` of
`MCOrderPricing`, that the steps of the longest list are together less than half a cent off, is about the doubles: with
prices below 10^8, which is what the columns hold, a list of adjustments of that size is off by far less.

### Orders

Here the arithmetic is never unfolded; `Subtotal` and `TotalAmounts` are just operators.

All of this is in `OrderProofs`.

- `TypeCorrect`: `Spec => []TypeOK`.
- `Safety`: `Spec => []IInv`, and from it `ReferencesTheorem`,
  `PriceTheorem`, `LinesTheorem`, `ChecksTheorem`, `PaymentRouteTheorem`, `AnnouncedTheorem`, and the
  action properties
  `PaidOrderTheorem` and `CancellationTheorem`.
- `Refinement`: `Spec => ActsAsLedger`, and `ChargedTotalTheorem`:
  `Spec => []ChargedTotalStands`, both with the one further assumption `OneAtATime`.

**The argument.**  `IInv` is the conjunction of `TypeOK` and the other invariants of
`order_concurrent`.  None of the interesting ones is inductive alone: that an edit writes the right total
(`PriceIsConsistent`) needs that the adjustments it carries are still the order's
(`ReadsAndChecksHold`), that needs that it works on an order that exists (`ReferencesResolve`), and so on.
The proof splits a step in two.  For the *other* requests there is one lemma, `Noninterference`:
if every change to an order adds its kind to what those who rely on it have missed (`Told`),
then what they checked and read stands or is marked (`Local`).  `OthersKeep` shows that each of the
actions meets its hypotheses.  For the request that takes the step, `OwnKeeps` shows that its
new claims are true when made.  With `Local` known, the lemmas about the tables (`PriceStep`,
`LinesStep`, `PendingStep`, `AnnouncedStep`, `PaymentsHaveOrdersStep`) are short.

The refinement adds to `IInv` that no order has two requests (`Alone`) and that therefore nobody
misses anything (`Unmissed`), so what each request read and checked stands, unexcused, when it
writes (`AllStands`).  A write is then the ledger's atomic step (`PlaceStep`, `EditStep`,
`AdjustStep`, `MovesLedger`, `PayStep`, `DeleteStep`) and every other query a stutter (`Unseen`).
The charged total stands because an edit, the one handler that re-prices and does not look for
payments, finds the order `PENDING` only before it is paid (`EditFindsNoCharge`).

### Pricing

`PricingProofs` is about the arithmetic the proofs of orders leave folded.  `AnyOrderSameCent` and `RoundedOnce`
are about any subtotal and any list of adjustments, whether or not a run builds it, and any `Scale` and `Err`: two
lists that are rearrangements of each other give totals at most a cent apart, and the same one unless a half cent lies
within what the doubles can be off; and a total is within half a cent, and that, of the exact
price.  `ListOrderTheorem` and `RoundingTheorem` state the two properties of the run `pricing` from them,
for reversals and rotations are rearrangements.

`FoldLeft` is defined by a `CHOOSE` of the loop it runs.  Any such loop over the prices has added up, at each place,
what came before it, so what the code adds up in a `for` is a sum over the places of the list; any loop over sets of
doubles has, at each place, exactly the numbers no further from that sum than `Err` for each step (`SumsAre`).  A sum does not
know an order (`SumRenamed`), so all orders of a list have the same exact price (`SamePrice`), and differ only in where
next to it they end.  Rounding grows with the amount and moves it by half a cent at most (`RoundingGrows`), from which the
cent between two orders follows (`CentApart`).

### Stock

`StockProofs` proves a theorem for each property of the run.  For `LogChainTheorem` and `QtyTheorem`,
`IInv` adds to the two properties `Standing`:
a movement that has missed nothing still holds the true last closing (`LogStands`) and, once it has written
the item, the true quantity (`QtyStands`).  That others' writes keep this or are noticed is
`OthersStand`; a new chain link or agreement then follows from the acting request's own claim.  `Unissued`
says that an item not yet created has no logs and that no request holds it, without which its creation
could surprise a movement.

`ReportTheorem` follows the logs as they grow: each new log adds to the report what it adds to the chain.

`PaidOrdersAreMoved` is not inductive, for a handler half way through an order owes the rest of it.  `HInv` says of
every item that no handler has failed to move: what is logged as sold, and what the handlers under way still have to
take out of it, make up what is owed (`Accounted`, `Settled`); and of each handler that the movement it is writing
is the first of its moves, and that what it has still to move has been created (`Handling`).  A step then takes an amount
from one side of the equation to the other; a handler that is interrupted, or finds an item gone, leaves its items
to `broken`.  There may be any number of requests, even infinitely many, but only finitely many have ever begun, so
that what they owe has a sum.

### Shifts

`ShiftProofs` proves a theorem for each property of the run.  One open shift a day is not inductive:
a close of any session, of any day, may come at any time.  What is: where no opening of the day
raced, only the *last* of a user's sessions of that day can be open (`OnlyLastOpen`), no
session is of a day to come (`DaysPast`), and an opening that missed nothing still finds its user without an open shift
((`LookStands`).  `ReadStands` is the same for what a close has read.

That three roundings keep a difference within a cent, and whole cents exactly, is `DifferenceStored`, from what
one rounding does to any amount (`Rounding`, `WholeStored`).

`CurrentTheorem` needs an invariant for its first part and none for the others.  `Answered`: the session a user was
last answered with is the last of all of the user's.  For `openShift` looks at today's sessions only, this needs
`DaysGrow`: rows are numbered in the order of their days.  The others are about one state: the first of the rows
sorted is the latest of them (`FirstIsLatest`), and the pages put end to end are the rows (`PagesHoldRows`,
`HistoryIs`), because each page adds the next two (`PageAdds`).  `ShiftAssumption` says for this that the null value is
neither of the two types, as a filter by type that is null filters nothing.

### Payments

`PaymentProofs` proves a theorem for each property of the run.  That the *latest* verification is the one made last
needs that dates grow (`DatesGrow`); that a mail holds its day needs what its handler carries
(`InFlight`), and that payments added later do not belong to what was already attached (`MailsBounded`).

`SummaryTheorem` follows a summary through its queries (`SumsStand`): while no payment has come in, each
sum it has read is still what the table gives; a verification changes no total, method or time.
`ReportsTheorem` and `DashboardTheorem` are about one state: for tables of the right types, whatever the orders,
payments and periods, the filters cover each other just as the properties say.

`EarningsTheorem` is about more than one state, since a payment's two times may lie on different days: it needs that every payment
is stored within two ticks of being paid, and neither after the present (`StoredSoon`, kept by
`SoonNext`).  Then a payment that is counted on one calendar and not on the other was paid in the night (`SameDay`), and what
one screen counts beyond the other is of a known side (`EarnedLess`).

### Sums

Totals are `SumFunctionOnSet` of the community modules, a recursive function on the subsets of a finite
set.  The induction it calls for is not taken from a theorem with an operator parameter, which the
provers cannot instantiate, but from the library's fact that the strict subset relation is well-founded: were there
counterexamples, a smallest one would have none below it (`SmallestSubset`).  So `SumProofs` shows
that the sum is computed as it is defined (`SumStep`), that any element can be taken out first
(`SumWithout`), and from these that sums of two disjoint sets, of a sum of functions, with a factor, by key, after a
renaming, and of a sequence that grows are what one expects.

### Accounts

`AccountProofs` proves a theorem for each property of the run.  `IInv` says of each request that it holds
what it thinks, unless it missed a write (`Informed`); of each user, that its stored code and token are of the
present era (`UserFine`); and of each secret, that it works, or that one of the listed things has ended it
(`SecretFine`: `Works` or `Excused`).  `Excused` is stable (`StillExcused`).  The actions split into those that
write e-mails (`UserWritten`, `OthersAfterUser`) and those that write codes and tokens (`Recovers`,
`RecoveryStep`, `OthersAfterRecovery`).

### Response cache

`CacheProofs` proves a theorem for each property of the run.

`FreshTheorem`: `AnswersAreFresh` is inductive once requests are known to be records (`Shape`).
The proof never looks at what services write, how names match or what answers show: whichever they are, a
stale entry has one of the four causes.  So it says which causes there are, and leaves to
`NamesCoverWrites`, a matter of the controllers and the names they give, to say where the last one occurs.

`TypeCorrect` says that the rows stay `Whole`: no foreign key leads nowhere, a row refers to one row of each table at
most, and has the references its service insists on.  The columns are nullable in the schema, so the last is the work of
the services and the cascades.  What an insert, an update, a delete and a new number do to the rows is stated and
proved once (`WrittenWhole`, `DeletedIs`, `RenumberedIs`); the services are gone through only to see that each of their
writes is one of these (`ServicesAre`, `OthersAre`).

`CoverTheorem` holds two long tables of the source, what each service writes and what each answer includes, against
a third, the names of each route.  `CInv` adds to the property only the types and, for requests that
write in two steps, that they carry the names of the write they began (`Prepared`).  `Effect` says all that coverage
needs to know of a write: the tables whose rows it can change (`Touched`, with `Below` for the cascades) and which rows keep
what refers to them.  Every write has its effect; and given an effect that changes an answer no name matches
(`Misses`), the proof goes through the answers: that pair is on the list `Unnamed` (`Covers`).

### Only model-checked

- `PaidOrderLeavesPending`: liveness under fairness is out of the prover's reach.  Every other property of a passing run is stated by
  a theorem.

## Plan

1. *Orders* (done): `OrderPricing`, `OrderLedger`, `OrderLifecycle`.
2. *Stock* (done): `StockMovements`, with the listener.
3. *Shifts and payments* (done): `ShiftDesk`, `PaymentDesk`, `SalesReports`.
4. *Response cache* (done): `Catalogue`, `ResponseCache`.
5. *Accounts* (done): `Accounts`.
6. Left, in this order: a counter per item, moved once per sale, as an abstract specification of
   `StockMovements` with one movement at a time, and the refinement; movements that last over midnight, which sort
   before logs made earlier; the pages and filters of the reports that are lists.

## Not modelled

- *Reporting*: the production and efficiency reports read `order_items.readyAt`, which nothing writes, so they are
  always empty; the list of proof images; sheets and layouts.
- *Receipts, mail, uploads, sockets, HTTP shell*: output and configuration.  No handler reads what they keep.
- *Orders*: `updateOrder` (`order.service.ts:363-435`), which has no caller; negative totals, for no document
  sets a floor.
- *Catalogue*: the limits of `docs/architecture.md:462-467` that no code enforces.
- Everywhere: payload contents of events, texts of errors, who may call a route, rate limits.
