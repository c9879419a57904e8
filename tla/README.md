# A formal model of the shop backend

The backend in `src/src` (NestJS, Drizzle, Postgres, Redis) runs shops: tills
ring up sales, customers order from a storefront, goods are delivered, moved
between branches, counted, returned and written off, while money is owed, paid
and closed into shifts. This directory holds TLA+ models of its core, TLC
configurations that check them on small instances, and TLAPS proofs of what
matters most for instances of every size.

1. [The system](#1-the-system): parts, state, interactions
2. [Inventory](#2-inventory-by-component): per component, what is hard and what makes it correct
3. [Modules](#3-the-modules): which module models which code, and how
4. [Runs](#4-the-runs): what each checks, its bounds and why they are enough
5. [Fairness](#5-fairness)
6. [Proofs](#6-proofs)
7. [Known divergences](#7-known-divergences): where the code does not do what it says
8. [Abstractions](#8-abstractions)
9. [Plan](#9-plan): what is left, in order

File names below are relative to `src/src/`.

## 1. The system

One Node process serves HTTP requests; every handler is asynchronous, so two
handlers interleave at each `await`, and several processes may share one
Postgres and one Redis. Nothing serialises requests but the database: READ
COMMITTED transactions, `SELECT ... FOR UPDATE`, unique indexes and relative
updates (`quantity = quantity + n`). Whatever a handler reads outside its
transaction, or inside it without a lock, may be stale when it writes.

Shared state and who moves it:

| state | moved by |
|---|---|
| `products.quantity`, `branch_stock`, `inventory_batches` (FIFO lots) | sales, returns, deletes, deliveries, transfers, write-offs, counts, defective store, BiLLZ import, product edits |
| `orders`, `order_items`, `order_status_events` | till (`order/order.service.ts`), storefront (`order/online-order.service.ts`), returns (`order/sale-return.service.ts`) |
| `receipt_sequences` | every till sale |
| `stock_takes`, `stock_take_items`, the freeze flag in Redis | `stock-take/`, and every document that asks `common/stock-take-lock.ts` |
| `shifts`, `cash_movements` | `shift/`; sales, returns and debts are booked into the open shift |
| `user_debts`, `debt_payments`, `users.bonus_balance`, `loyalty_transactions` | `debt/`, `loyalty/`; sales on credit, returns, deletes |
| `financial_transactions`, `account_balances` | `finance/`, and every part that pays: shifts, payroll, suppliers, hand-overs |
| `goods_receipts`, `supplier_payments`, `supplier_credits` | `receipt/`, `supplier/`, the till (paying a supplier from the drawer), `defective/` |
| `defective_lots`, `supplier_returns` | `defective/`, returns of broken goods |
| `billz_import_jobs`, `billz_staging` | the import's HTTP calls and its two worker lanes |
| `products.price_out`, `product_price_steps`, `product_price_history` | deliveries, sales, the sweep, the card's form |
| `payroll_entries`, `staff.salary_balance` | `payroll/`, by hand and by cron |

The parts meet in the stock rows (every document), in the order row (the till,
the storefront and returns all write `orders`), in the shift (money is booked
into it), in the money ledger (tills, wages and suppliers write their rows
through it), in the delivery note (goods, payments and returns to the supplier),
and in the freeze flag (documents ask it, counts set it).

## 2. Inventory, by component

For each part: its state and operations, what is hard to get right, and the
properties that make it correct. *Modelled* says where; `PROJECT.json` lists
the same parts with their sources.

**Stock rows and lots** (`common/branch-stock.ts`, `order/costing.ts`). State:
a product's row, one row per branch, its open lots. Operations: add to a branch
and to the total, draw lots oldest first under `FOR UPDATE`, insert a lot, trim
the lots to the stock. Hard: the three places are written by separate
statements of transactions that interleave; documents lock rows in different
orders; some look at the shelf first, some do not. Correct when the total is
the sum of the shelves, no lot is drawn twice, a document that looks never
takes more than there is, and lots hold what the shelf holds. *StockTx.*

**Till sales** (`order/order.service.ts`). State: `orders` in
Held/Completed/Cancelled, `receipt_sequences`. Operations: `create`
(checkout, perhaps of a parked cart, perhaps resent), `hold`, `createBatch`
(`create` per sale), `updateStatus`, `remove`. Hard: a till resends a sale
whose answer it missed; handlers read the row first and write it by id later.
Correct when a sale is rung up once, numbers have no gaps, and goods are out
exactly for what rows say. *TillSale*; what it costs and who owes it is *CreditSale*.

**Sale returns** (`order/sale-return.service.ts`, `order/return-math.ts`).
State: `returned_quantity`, the return documents. Operation: `create` under the
sale's row lock. Hard: partial returns in many steps, rounding, the delivery
fee, a debt that nobody locks. Correct when no more comes back than was sold, no
more is refunded than was paid, and parts net to the whole. *TillSale,
OnlineOrder, ReturnMath, CreditSale.*

**Debts** (`debt/`), **loyalty** (`loyalty/`, `order/`). State: a debt's amount and
status, its payments; a customer's points and their ledger. Operations: lend,
edit, forgive, pay, take a payment back; spend, earn, restore, claw back. Hard:
`DebtService` has no transactions, and a return writes the debt from what it
read. Correct when payments fit the debt, the status is the one the amounts
call for, and the balance is what the ledger says. *CreditSale.*

**Storefront orders** (`order/online-order.service.ts`, `online-order.rules.ts`).
State: the order's status, lines, payment, history. Operations: accept,
dispatch, ready, complete, cancel, customer's cancel, trim; and the till's
return and delete on the same row. Hard: staff and customer act at once; the
tender is settled before the lock. Correct when the status moves along its
state machine once, every unit is accounted for, and the money fits the goods.
*OnlinePromise, OnlineOrder.*

**Inventory counts** (`stock-take/stock-take.service.ts`) and the **freeze**
(`common/stock-take-lock.ts`, `cache/`). State: counts and their rows, the
cached flag. Operations: start (full or partial), count (scan), complete,
cancel; every document asks the flag. Hard: two statements between a check and
what it guards, a cache that loses writes, restarts between commit and flag.
Correct when one count is open at a time, its adjustments land once and land
the stock at the count, and the till is never frozen for good. *StockFreeze.*

**Stock transfers, write-offs, dishes**. What they do to the stock rows is in
*StockTx*; recipe graphs are not modelled.

**Deliveries** (`receipt/receipt.service.ts`). State: the note, its lines, its lots,
what was paid and sent back. Operations: type, edit, receive, take back, delete,
change the supplier, move to another branch, send back in part. Hard: lots are
sold from meanwhile; each handler reads the note before its transaction and few
look again. Correct when a note is on the shelf once, no lot that was sold from
is dropped, and a paid note stays. *Delivery.*

**Prices** (`price-step/`, `common/price-steps.ts`, `product/`). The card's price, the
lower prices that wait, the history. Operations: propose, write, queue, settle
after a sale, sweep, apply now, cancel, save the card. Hard: proposals and forms
are read before they are written; goods go while a price is decided; a settle
may fail after its sale. Correct when no drop reaches older goods, every due
price takes effect, and the history is the whole account. *PriceSteps.*

**Suppliers and their credit** (`receipt/`, `supplier/`). Pay one note, pay oldest
first, an advance, an advance that changes hands, a cancelled payment. Hard:
one sum becomes several payments, ledger rows and credit. Correct when a note's
paid figure, the credit and the ledger agree. *SupplierAccount.*

**Defective store** (`defective/`, `common/defective-stock.ts`). Lots of broken goods
that come from the shelf, from customers or as opening stock and leave by
write-off, sale, exchange or hand-over to the supplier, which can be undone.
Hard: what is already a loss must not become one again; a hand-over against a
note reads it first. *DefectiveStore.*

**Money ledger** (`finance/`). Rows that are never deleted, balances, pairs paid out
of pocket, storno. Hard: a row may be reversed from its own page or from the
part that wrote it. Correct when each row is reversed once and in full. *MoneyLedger.*

**Shifts and cash** (`shift/`). Open, cash movements, pay a supplier, close with
a reconciliation that posts the shift's sales. Hard: status checks outside the
transaction; one open shift per register is checked, not indexed. Correct when
the Z-report is what the drawer held and nothing is posted twice. *ShiftCash.*

**Payroll** (`payroll/`). Accrual once a month, by hand or by cron, payments,
bonuses, fines, undo; a running balance. Hard: the preview and the entry to undo
are read before their transactions. Correct when balances, entries and the
ledger agree and a marked month is accrued. *Payroll.*

**BiLLZ import** (`billz/`). A job fetches an outside catalogue page by page
into staging and loads it into the shop; two worker lanes, HTTP calls that
start, pause, resume, cancel and delete a job, checkpoints that survive a
crash. Hard: calls and lanes write one row by id; a crash between a page and
its checkpoint; a failure that cannot be written. Module *BillzImport*.

**Left out**: prompts and outside models (`ai/`, `ai-sql/`), the BiLLZ HTTP
client, reads (`report/`, `mobile/`), CRUD over reference data, sign-in and
permissions, notifications. They keep no state a concurrency or a sequence
could spoil, or none that is the shop's; section 9 says which may follow.

## 3. The modules

| module | role |
|---|---|
| `StockDocuments` | the kinds of stock document, by the order in which their transaction touches the rows; what each means for a shelf and the total |
| `StockBalance` | abstract: a document happens in one step or not at all |
| `StockTx` | the documents' transactions, one SQL statement per step, with row locks, deadlocks, crashes |
| `OnlinePromise` | abstract: the state machine of a storefront order |
| `OnlineOrder` | the handlers that race for one storefront order |
| `TillSale` | the till's orders: carts, checkouts, voids, deletes, returns |
| `StockFreeze` | inventory counts and the freeze flag |
| `BillzImport` | the import of a BiLLZ catalogue: calls, two worker lanes, restarts |
| `Desk` | a request of the back office: enter, go on, leave, be dropped |
| `ReturnMath` | the arithmetic of returns, as functions |
| `CreditSale` | the money of one customer: sales, debts, points, returns |
| `MoneyLedger` | accounts, rows, pairs, storno |
| `ShiftCash`, `Payroll`, `SupplierAccount` | what writes into the ledger: drawers, wages, suppliers; each extends `MoneyLedger` |
| `Delivery` | the goods of delivery notes; extends `SupplierAccount` |
| `DefectiveStore` | broken goods and hand-overs to the supplier; extends `Delivery` |
| `PriceSteps` | the selling price: what deliveries propose, what waits, what moves it |
| `Sums` | lemmas on sums over finite sets, functions and sequences |
| `StockTxProofs`, `OnlineOrderProofs`, `TillSaleProofs`, `StockFreezeProofs`, `BillzImportProofs` | the theorems of the module of that name |
| `LedgerProofs` | the money ledger, and the theorems of the supply side: `SupplierAccount`, `Delivery`, `DefectiveStore` |
| `MoneyProofs` | the theorems of `CreditSale`, `ShiftCash` and `Payroll`, and those of `DefectiveStore` on losses and debts; extends `LedgerProofs` |
| `MC*` | instances for TLC: model values, symmetry, loads |

In every module a *session* (or, in `StockTx`, a transaction) is one request.
Its `phase` (`pc`) names the step it runs next; the steps between two phases
are exactly the reads and writes the code makes without an `await` that another
request could use, or under a row lock that makes such an `await` harmless.
`GiveUp` (`Rollback`) is a refusal, an error or the death of the process: the
database undoes the transaction. What sits in memory is lost with it.

### StockTx

`stock`, `quantity`, `lots` are the committed `branch_stock`, `products.quantity`
and `inventory_batches` of one product. A transaction's own uncommitted writes
are private (`dStock`, `dQuantity`, `draw`, `mint`): every write in the code is
relative and keeps the row locked until the end, so a row is its committed
value plus what its one writer added.

| action | code |
|---|---|
| `LockProduct`, `CheckShelf`, `Refuse` | `FOR UPDATE` on the product, the plain read of the shelf and the refusal (transfers, write-offs, defective) |
| `SelectLots`, `GatherLot` | the `FOR UPDATE` on open lots: the snapshot of ids, then the row locks one by one, each read at its latest version |
| `StartTaking`, `TakeFromLot`, `FinishTaking` | the FIFO loop of `costing.ts`, and of the trim |
| `MintLot` | the insert of a lot, with the `FOR KEY SHARE` its foreign key takes on the product |
| `WriteStock`, `WriteQuantity`, `WriteDestination` | the increments of a shelf, the total and, for a transfer, the other shelf |
| `Commit`, `Rollback`, `BreakDeadlock` | the end of the transaction; Postgres ends one member of a cycle |

Documents differ only by the sequence of these statements, and kinds with one
sequence stand for each other: `toDefective` runs like `writeOff`, `shortage`
like `sale`, `return` like `restock`, `restoreDish` and `surplus` like
`receive`. The runs use one of each; the proofs cover all.

### OnlinePromise, OnlineOrder

`OnlinePromise` says in eight lines of actions which status may follow which,
and that goods come back only with a cancellation, a trim, a return or a delete.
`OnlineOrder` has the row (`status`, `lines`, `returned`, `paid`, `refunded`,
`booked`, `events`), the goods it moved (`back` on the shelf, `gone` unfit for
it) and one record per session. `Load` and `ReadShift` are the reads before the
transaction (`complete`, `remove`), `LockOrder` the `FOR UPDATE`, `Move` the
common body of accept/dispatch/ready/complete/cancel with its compare of the
payable, `Trim` is `updateItems`, `Return` is `SaleReturnService.create`,
`Remove` is `OrderService.remove`. `legacyStatus` of the older endpoint only
calls accept, complete or cancel, so it adds no step. A dish's share of its
ingredients is rounded as the code rounds it (`Share`).

### TillSale

Rows of `orders` over the whole life of an id; `lastNo` is `receipt_sequences`.
`FindSale`/`FindsSale` is the look-up by client id, `TakeNumber` the upsert
that locks the counter's row until the sale commits, `Sell` the rest of the
transaction, `LosesRace` the unique index's refusal (23505, answered with the
sale that won). `LookAt` is the read by which `hold`, `updateStatus` and
`remove` decide; `SaveDraft`, `Cancel` and `Remove` are their writes by id.
`LockSale` and `Return` are the return's transaction.

### StockFreeze

`flag` is the cached answer, `status`/`rows`/`applied` the tables, `stock` the
product's shelf. A guarded document asks the cache (`AskCache`), on a miss the
table (`AskTable`) and caches the answer (`PutAnswer`), or goes ahead when the
table cannot be read (`FailOpen`, as the code does), then moves stock (`Move`).
A count is started (`Look`, `Start`, `SetFlag`), counted (`Scan`, `Count`),
completed (`LockTake`, `Complete`) or cancelled (`Cancel`), each followed by a
write of the flag. Faults: `Restart` ends every request, cache writes are
dropped, the table cannot be read, entries `Expire`. The guarded documents are
sales, returns, deliveries, transfers, write-offs and defective moves; `restock`
stands for the writes to stock that never ask: a storefront cancel or trim and
a manual edit of a quantity.

### BillzImport

`status`, `phase`, `shop` and `at` are a row of `billz_import_jobs` (`at` is its
checkpoint); `pending`, `loaded` and `failed` count a record's staging rows,
the last two with the audit row written in the same transaction; `applied` is
what reached the shop's own tables. Job ids are numbers in the order of
`created_at`. `Windows` is the account's catalogue as BiLLZ hands it out: per
entity the pages, or the pages of its categories, in the order they are walked;
a record may be in several windows of a catalogue (products, images), never in
two pages of customers. It does not change while it is imported.

| action | code |
|---|---|
| `LookToStart`, `LookToControl`, `LookToReset` | the read of the shop's latest job and the refusals |
| `Start`, `Control`, `Reset` | the insert, the update by id, the delete of everything |
| `Pick`, `Claim`, `Open`, `CheckStop` | a lane takes the oldest queued job of its phase, claims it, reads where to resume an entity, and asks before each window or batch whether to go on |
| `FetchPage`, `PageOfGoneJob`, `PastTheEnd`, `FetchStatus`, `FlipToLoad` | a window is staged with its checkpoint in one transaction; or breaks a foreign key; or lies past the last customer; then on, out, or to the other lane |
| `ReadBatch`, `LoadRow`, `CommitBatch`, `BatchOfGoneJob`, `LoadStatus`, `Complete` | rows go into the shop one by one, each in a transaction of its own, then their fate is written for the batch |
| `Throw`, `FailJob`, `LoseFailure`, `Restart` | an exception; the job marked failed, or not; the server stops and queues again what was running, or cannot |

`lost` is a history variable: jobs whose end or restart could not be written.

### Desk

The later modules share it. `Enter` is what a handler reads before its first
`await` that matters, `Proceed` the next statement, `Leave` the answer, `Abandon`
a refusal or a crash. `job` is what was asked, `seen` what was read and may be
stale. Where a transaction locks every row it decides by, the handler is one
step and needs no session.

### ReturnMath, CreditSale

`ReturnMath` is `order/return-math.ts` as pure functions over whole coins:
`LineWorth`, `LineNet`, `ReturnTotal` (the last return takes the rest), `Settlement` (debt,
then points, then money), `Reversed` (cashback taken back). `CreditSale`:

| action | code |
|---|---|
| `Sell` | the money of `create`: discount, points, tender, debt, cashback, in one transaction under the customer's row |
| `ListDebts`, `DueDatePasses`, `Lend`, `EditDebt`, `ForgiveDebt` | `DebtService`: every read marks the late ones; the owner's edits |
| `LookToPay` → `EnterPayment` → `SumPaid` → `MarkDebt`; `LookToUnpay` → `DropPayment` → … | `addPayment`, `deletePayment` and `recomputeDebtStatus`, statement by statement |
| `TakeBack` → `Settle` | the return: lock the sale, read its debt; settle and write by what was read |
| `LookToDelete` → `ReadMoves` → `LockCustomer` → `Erase` | the owner's delete, with the points it takes back |

`received`, `taken`, `byHand` and `waived` are history variables: what was ever
paid, how many payments, whether a person changed the debt, and the points a
delete could not take back.

### MoneyLedger and what writes into it

`Write` appends rows and moves balances. An expense from the owner's pocket
(`outside`) is a pair: the money put in and the money spent. `CanReverse` and
`WriteReversal` are the storno, of both legs of a pair. `Income`,
`SpendManually`, `Transfer`, `CancelManually` are the finance page, which may
cancel only rows it wrote.

`ShiftCash`: `LookToOpen`/`OpenShift`, `LookToSell` then `BookSale` or
`BookRefund` (a till that was offline names its shift, open or not), `VoidSale`,
`LookToMove`/`BookMovement` (mirrored in the ledger at once),
`LookToClose`/`SumSales`/`CloseShift` (reads the movements, then the sales, then
writes the report and posts the net). `events`, `late`, `voided` are history.

`Payroll`: `RecordPayment` and `RecordAdjustment` are one transaction each;
`LookToUndo`/`UndoEntry`, `LookToAccrue`/`AccruePeriod` and
`LookToAutoAccrue`/`AutoAccrue`/`MarkAuto` read first. The unique index on
employee and month is `Collides`, which refuses a whole accrual. `undone` is
history: accruals a person took back.

`SupplierAccount`: every payment locks its notes, then the account, then the
supplier, so `PayNote`, `PayFromCredit`, `PaySupplier` (oldest first, the rest an
advance), `TransferAdvance` and `CancelPayment` are one step each. `advanced` is
history: all credit ever given.

`Delivery`: `CreateNote`, then the handlers that read the note first and write
later: `ReceiveNote`, `EditNote`, `Unreceive`, `RemoveNote`, `Relabel` (another
supplier, or another branch with its lots), `SendBack`. `Sale` is the till, which
draws oldest lots first and may oversell. A lot's `sold`, `back` and `off` are history: where
its units went.

`DefectiveStore`: `FromShelf`, `FromCustomer`, `OpeningStore` in; `WriteOff`,
`BackOnShelf`, `HandOverForCredit`, `HandOverForCash`,
`LookToHandOver`/`HandOverOffDebt` out; `UndoHandOver`. `broken` is history: units
that came in and were not a loss before.

### PriceSteps

`card` is the product's price, `chain` its rows of `product_price_steps`, in the
order `Before` (the goods a row waits for, then when it was made),
`notes` the deliveries with the figure of their line and what is left of their
lot. `awaited` and `told` are what `product_price_history` comes to: the deliveries
whose last row says a price waits, and the figure the card was last said to take.

| action | code |
|---|---|
| `Receive`, `Review` → `Propose` → `WritePrices` or `CorrectNote` | a delivery received, or its list asked for; the proposal is built outside the transaction, then planned again under the card's lock (`Plan`): now, into the queue, or nothing; or the line takes the card's figure |
| `Sell`, `TakeBack`, `Sweep` → `PickDue` → `ApplyDue` | stock is gone, and committed, before a transaction of its own locks the steps that are due, skipping those another holds, then the card |
| `WriteOff` | goods leave and nothing is settled until the sweep |
| `ApplyNow`, `Cancel` | the buttons on the card |
| `LookAtCard` → `SaveCard` | the form: what it changes is told by the card as it was read |

`meant` is a history variable: the price a delivery's goods are to sell at, once
that is decided; a person who sets or applies a price decides anew.

### The MC modules

`MCTillSale`, `MCOnlineOrder`, `MCStockTx` and `MCStockFreeze` add one constant variable,
`load`: one in which requests overlap, and `alone`, where one runs at a time over
more orders, handlers or counts. One run then asks the concurrent properties of
the first and the `Alone...` properties of the second. `MCTillSale` also runs
`PriceSteps`, under requests of its own, while the orders rest. `MCMoney` and `MCSupply`
use the same device to check several modules on one instance: a load runs one of
them while the others rest, and names what it leaves out. *Alone* means one
request at a time and nothing else while it runs; it is what the code
needs for the `Alone...` properties, and section 7 says how overlap breaks them.

## 4. The runs

| run | instance | what it shows |
|---|---|---|
| `stock_tx` | 3 documents of 5 kinds, quantities 1–2, 2 branches, 3 lots | `NeverDrift`: total = sum of the shelves; `LotsNeverOverdrawn`; `GuardedNeverOverdraws`: a document that looked first leaves the shelf at zero or above although a sale may be half way; `LotsMatchStock` while nothing is sold unguarded; `NoDeadlock` among sales and restocks; the refinement `BalanceSpec` |
| `stock_tx_ends` | 2 documents (sale, transfer, delivery); or 3 deliveries and 2 requests that move the price | `DocumentsEnd`: documents do deadlock, and the server breaks the cycle; `DueTakesEffect`: a waiting price that is due takes effect, whatever became of the sale that made it due |
| `stock_tx_race` | a sale and a delivery | **violation** of `LotsNeverExceedStock` |
| `online_order` | 2 requests, two lines (one a dish), all handlers but the delete, 2 shifts; one at a time the delete too | `GoodsConserved`, `CompletedPaysItsGoods`, `RefundsCovered`, the refinement `PromiseSpec` (the history is a chain, and never goes backwards: proved, section 6) |
| `online_order_delete` | delete, return and complete | **violation** of `GoodsConserved` |
| `till_sale` | 2 requests over 2 orders; 1 at a time over 3; the price over 3 deliveries, 1 request at a time or 2 | `OneSalePerClient`, `ReceiptNumbersGapFree`, `ReturnedWithinSold`; alone: `AloneSalesKept`: goods are out exactly for completed sales, and a sale with returns stays; `DropsWait`: no lower price reaches goods that were there before it, and waiting prices fall along the chain; `PricesTold`: the history ends on the card's price, and a delivery's page tells which of its prices wait |
| `till_sale_cart` | checkout and hold, one at a time | **violation** of `CartSoldOnce` |
| `stock_freeze` | 1 count, 2 requests, all faults; and 2 counts, one request at a time, no faults | `AppliedOnce`, `EndedStays`, the liveness property `NotStuck`; alone: `AloneCountsTrue` (one count open, one row each, the flag honest), `AloneCountLands` |
| `stock_freeze_gap` | 1 count, 2 requests, no faults | **violation** of `CountLands` |
| `billz_import` | 2 jobs, 2 concurrent calls, both lanes, all faults | `StagedOnce`, `NothingSkipped`, `CompletedLoaded`, the liveness property `JobSettles` |
| `money` | a customer's two sales; two shifts on one till; two employees over two months; seven loads | `RefundsWithinPaid`, `NetsBack`; `ReversedOnce`; `PayrollMatchesLedger`; alone: `AloneCustomersTrue` (debts are capped and called what they are, points add up), `AloneDrawerTrue`, `AloneWagesTrue` (wages add up, the cron leaves nobody out) |
| `supply` | 2 notes, 2 suppliers, 2 branches, 2 defective lots; five loads | `LotsKeepTheirSales`; `PaidAddsUp`: what a note says is paid is the sum of its payments; `LedgerTrue`; `LossBookedOnce`, `DebtNotOverdrawn`; alone: `AloneSupplyTrue` (a note is on the shelf once and the shelves add up; a paid note stays; the credit given is spent, standing or handed back) |

Every property of a passing run is also shown to be breakable by a plausible bug
in the code: the `mutants` of `PROJECT.json`, whose definitions stand in the
modules before the ones they replace, marked *Mutant*.

Bounds, and why they are enough:

- `stock_tx`: the shelf at home opens with two lots of one unit, so a quantity
  of 2 spans lots and empties them, a second withdrawal finds nothing, and an
  unguarded sale oversells; three documents are what it takes for one to slip
  between two others (a guarded one that waits, a sale half way, a delivery).
  Two branches suffice, since a transfer involves two and rows of a third are
  never touched by it. Deadlock is not checked by TLC here: all documents end.
- `stock_tx_ends`: cycles need two transactions; liveness forbids symmetry. The
  price's load leaves out what drops a waiting price by hand or by taking goods
  back, which helps the property.
- `online_order`: a line of 2 and a line of 1, so a trim or a return may take
  some or all of a line; the dish's ingredients are drawn whole. Prices 1 and
  3 and a fee of 2 tell apart what was refunded. Two shifts, so one may close
  and another open while an order completes. The run takes the delivery flow;
  pickup differs only in its middle step, and the theorems cover both. Orders
  end: the history and the trims bound the state space, no bound is added.
- `till_sale`: two ids suffice for every property that relates two orders; the
  third of the `alone` load allows cart, sale and resend in one sequence. One
  client id is contended for; the other case is a sale without one. Ids run
  out: a checkout that finds none unused can only give up. Prices: the goods of
  one delivery on the shelf and two more to come, at two lower figures, so that
  a chain of two waits, is lifted from either end, overtaken, dropped and
  applied in one move. `MaxTime` bounds how often goods are received: a delivery
  may be taken back and received again in place of another. Saving the card's
  form and correcting a note run in different loads.
- `stock_freeze`: one count that starts, ends and is asked about by two
  requests is where flag and table disagree; two counts are needed only for
  what relates counts, and the load `alone` has them. Stock is 0..1 (0..2),
  so a document can move between the snapshot and the end.
- `billz_import`: two products, one of them in two windows, so a walk has a
  window to resume at and a record to skip; one customer, because customers
  resume differently; a job without a second entity never advances. Two jobs
  occupy both lanes, or are two of one shop. `MaxEvents = 3` bounds calls,
  restarts and failures of the database together (failures of BiLLZ are not
  bounded): start, stop and reset under a working lane; two starts at once and
  a pause; a start, a crash, a crash of the recovery. Beside the run,
  one session with `MaxEvents = 6` was explored with every property, and two
  sessions with 4 with the invariants.

- `money`: two units for 6 and one for 3, with a fifth off or none, make shares
  that do not divide; a tender in full, in part or not at all makes a debt or
  none; 5 points asked of 4 held hit the cap. Two sales share the customer's points; a debt
  gets two payments, which is what it takes to overpay it. Two sessions overlap
  on one sale (`credit together`), one at a time go on for longer (`credit
  alone`, `credit points`). A shift has two events, so a movement and a sale fall
  on either side of a close. Two months let the cron look back at one; three
  entries let one be accrued, undone and accrued again. `MaxRows = 4` holds two
  pairs and so a pair with its reversal.
- `supply`: two notes, so a sum pays oldest first and leaves a rest; lines of
  up to 2 with cuts of 1, so a lot is sold or sent back in part; three lots, so a
  moved lot splits. Two suppliers let an advance change hands, two branches let a
  note move. Loads keep apart what does not meet: goods in and out, papers and
  payments, payments alone over more of them, defective goods with credit. In
  `defects` a hand-over is not undone once there is opening stock (section 7).

## 5. Fairness

- `StockTx.FairSpec`: weak fairness of each transaction's `Progress`. Postgres
  runs every statement that is not blocked, and its deadlock detector ends one
  member of every cycle; `BreakDeadlock` is part of `Progress` for that reason.
  No client is assumed to retry, and a crash is never required.
- `StockFreeze.LiveSpec`: weak fairness of `Expire` only: Redis drops an entry
  when its time is up (`TTL.STOCK_TAKE_ACTIVE`, `cache/cache.util.ts`). No handler is
  assumed to run or to end. `NotStuck` therefore shows what the code's comment
  promises, that the time limit alone frees the till.

- `PriceFairness` (in `MCStockTx`): weak fairness of each request, which ends one
  way or the other; strong fairness of the sweep, which a cron calls every five
  minutes, and of the two steps of applying what is due: the database does not
  refuse every attempt. A sale's own attempt may fail each time.

- `BillzImport.LiveSpec`: weak fairness of each lane, which the poll kicks every
  five seconds (`IDLE_POLL_MS`) and whose requests time out; strong fairness of
  `Claim`: the database does not refuse every attempt to claim a job. No call,
  restart or success of BiLLZ is assumed. `JobSettles` leaves out the jobs in
  `lost`, which do hang (section 7).

## 6. Proofs

| module | theorem | statement |
|---|---|---|
| `StockTxProofs` | `Inductive`, `Types` | `Spec => []IInv`, `[]TypeOK` |
| | `NeverDriftThm` | `Spec => []NeverDrift` |
| | `NoLotOverdrawn`, `GuardedNeverOverdrawsThm` | `Spec => []LotsNeverOverdrawn`, `Spec => GuardedNeverOverdraws` |
| | `LotsMatchStockThm` | `Spec => []LotsMatchStock` under `OpeningBacked` |
| | `NoDeadlockThm` | `Spec => []NoDeadlock` |
| | `ImplementsBalance` | `Spec => BalanceSpec` |
| `OnlineOrderProofs` | `OrderInductive`, `OrderTypes` | under `Kept` |
| | `GoodsConservedThm`, `PaidInFull`, `RefundsCoveredThm`, `HistoryThm`, `NeverBackwardsThm`, `ImplementsPromise` | under `Kept` |
| `TillSaleProofs` | `TillInductive`, `TillTypes` | `Spec => []IInv`, `[]TypeOK` |
| | `RungUpOnce`, `GapFree`, `ReturnsBounded` | one sale per client id, numbers 1..lastNo, returns bounded |
| | `GoodsOfSales` | `[]GoodsFollowSales` while nobody deletes |
| | `SalesKeptThm`, `AloneSalesKeptThm` | one request at a time, deletes included: `[](GoodsFollowSales /\ ReturnedSalesStay)`; the same of `MCTillSale!MCSpec` |
| | `DropsWaitThm`, `PricesToldThm` | `MCTillSale!MCSpec => []DropsWait`, `=> []PricesTold` |
| `StockFreezeProofs` | `FreezeInductive`, `Once`, `Ended` | `[]IInv`, `[]AppliedOnce`, `EndedStays` |
| | `AloneCounted`, `AloneLanded` | `MCStockFreeze!MCSpec => []AloneCountsTrue`, `=> AloneCountLands` |
| `BillzImportProofs` | `RecordsStagedOnce`, `NoRecordSkipped`, `CompletedImportLoaded` | `[]StagedOnce`, `[]NothingSkipped`, `[]CompletedLoaded`, whatever calls, crashes and failures |
| `LedgerProofs` | `LotsKeepTheirSalesThm` | `StoreSpec => []LotsKeepTheirSales` |
| | `PaidAddsUpThm` | `StoreSpec => []PaidAddsUp` |
| | `LedgerTrueThm` | `StoreSpec /\ [][DeletesUnpaid]_storeVars => []LedgerTrue` |
| | `GoodsOnShelfThm` | `StoreInit /\ [][Deliver /\ OneByOne /\ NotOversold]_storeVars => [](NotesOnShelf /\ ShelvesAddUp)` |
| | `PaidNotesStayThm` | `StoreInit /\ [][Deliver /\ OneByOne]_storeVars => []PaidNotesStay` |
| | `CreditAccountedThm` | `StoreSpec /\ []NoPapers => []CreditAccounted` |
| | `AloneSupplyThm` | `MCSupply!SupplySpec => []AloneSupplyTrue` |
| `MoneyProofs` | `PayrollTrue`, `PayrollReversedOnce` | `[]PayrollMatchesLedger`: overlapping undo, accruals, the finance page; `[]ReversedOnce` |
| | `RefundsStayWithinPaid`, `NetsBackThm` | `[]RefundsWithinPaid`, `[]NetsBack` |
| | `DebtsStandThm` | one request at a time, `Recorded`: `[](AtRest => DebtCapped /\ StandingTrue)` |
| | `PointsAddUpThm`, `WagesAddUpThm` | one request at a time: `[](PointsAddUp /\ PointsNotOverspent)`, `[](WagesAddUp /\ CronCovers)` |
| | `AloneCustomersThm`, `AloneDrawerThm`, `AloneWagesThm` | `MCMoney!MCSpec => []AloneCustomersTrue`, `=> []AloneDrawerTrue`, `=> []AloneWagesTrue` |
| | `LossBookedOnceThm` | `StoreSpec /\ []OpeningNotUndone => []LossBookedOnce` |
| | `DebtNotOverdrawnThm` | `StoreSpec /\ [][EditsUntouched]_storeVars => []DebtNotOverdrawn` |
| `Sums` | (lemmas) | how the sum of a function over a finite set, and of a sequence, changes when one value changes, one is added, all are non-negative |

They hold for every number of requests, orders, branches, lots, notes,
quantities and prices. Assumptions on constants are the `ASSUME`s of the modules
(names are distinct, quantities are naturals, branches are finitely many, the
opening lots are well formed).
Where a theorem has a hypothesis of its own, the code needs it:

- `Kept` (no line is a dish and nobody deletes the order): with a dish or a delete
  the goods are provably not conserved (section 7). `GoodsOfSales` asks
  `"remove" \notin Handlers` for the same reason.
- `OpeningBacked` (the lots a branch opens with hold what its shelf holds): a
  shelf whose lots were never entered stays without them.
- `NoTies`, inside `NoDeadlock` itself: two lots of one branch with one `created_at`
  have no order, so two sales may lock them either way round.
- `DeletesUnpaid` (no payment stands on the note a delete removes, when it removes it):
  the delete asks before its transaction and not again, so a payment that
  commits in between cascades away and leaves its expense behind.
- `OpeningNotUndone` (once there is opening stock, no hand-over has been taken back):
  taken back, such a unit comes in as `supplier_cancel`, and its write-off is
  booked although it was a loss already.
- `EditsUntouched` (a draft is only rewritten when nothing is paid on it or sent
  back): the edit sets a new total and looks at neither.

- `InOrder`, inside `MCTillSale!MCSpec` (a price is decided for the newest delivery): a
  price of an older one, decided later, queues ahead of goods that asked for more.
- `NoPapers` (no relabelling of a note under way, and no deletion): credit goes back
  to the supplier a note has when its payment is cancelled, which need not be the one
  it came from; a deleted note takes its payments from credit with it.

The last five are behaviours section 7 lists; each theorem says that nothing else
spoils its property.

- `OneByOne`, `Alone`, `OneAtATime` (a request begins when no other is there): what
  a long sequence of legal calls keeps; section 7 says what two at once do to the same
  properties. `NotOversold`: below nothing, a branch and the sum of its
  lots part, since lots stop at nothing. `Recorded`: between a payment on a debt and
  the two statements that give the debt its status, the server does not stop.

The theorems named `Alone...` are about a load of a run, for every value of the
constants; where a load also bounds how many rows there are, or leaves a kind of
request out to stay small, the theorem beside it (`SalesKeptThm`, `GoodsOnShelfThm`,
`PaidNotesStayThm`, `CreditAccountedThm`, `DebtsStandThm`, `PointsAddUpThm`,
`WagesAddUpThm`) asks for neither; `GoodsOnShelfThm` and `PaidNotesStayThm` are about
deliveries, payments and sales (`Deliver`), the defective store resting.

Along which argument:

- **StockTx.** What makes documents atomic is that a row is written by one
  transaction at a time (`LocksExclusive`), that what a transaction has written
  when it reaches a statement is exactly what the document means so far
  (`Written`), and that a guarded document which found enough on the shelf
  holds the product's row, which every other writer of that shelf must pass
  before it commits (`ShelfPromised`). The last is the crux: the shelf was read
  without a lock, and only because every document that takes from it also
  writes `products.quantity` is it still there at commit. `DrawsCovered` (what
  was taken from a locked lot is still in it) gives `LotsNeverOverdrawn`.
  `NeverDrift` follows since a commit adds one number to one shelf and to the
  total, or the transfer's to two shelves and nothing to the total.
  `LotsMatchStock`: while only guarded documents take, whoever visits lots
  holds the product's row (`VisitorsAlone`), so what is drawn and what leaves the
  shelf are the same. `NoDeadlock`: `LocksInOrder` and `RowsLast` rank every row a sale
  or a return holds below the one it waits for, so a circle would have to
  climb for ever.
- **OnlineOrder.** Under the row lock, what a handler saw is what is there
  (`LockExclusive`, `SeenCurrent`); with `ReturnsBounded` (returns only of a
  completed order, never more than its lines) every handler keeps the goods
  balance and the payable. `RefundsAccounted` bounds what has been refunded by the
  price of what came back, with the fee once everything is back, so it fits what was paid.
- **TillSale.** The counter's row lock makes `number = lastNo + 1` still true
  at the sale (`CounterExclusive`, `SeenCurrent`); the unique index makes the
  insert's guard the property itself; `OnPlan` and `Blank` say which rows the
  writes by id may reach, so that none gives a sale's client id, number or
  returns to another row. `AloneIInv` is for the loads that run one request at a
  time: the sale a request has looked at is still as it found it (`LooksTrue`), so a
  void knows of every return and what a delete puts back is what was out.
- **StockFreeze.** `Holders`: whoever completes a count holds its row, found it
  in progress, and is alone. That is what keeps a second complete or a cancel out.
  `AloneIInv`, one request at a time and no faults: what the request read is still so
  (`Knows`), the flag says what the rows say (`FlagFits`), and therefore no document
  moves while a count is open, so the book a row was scanned against is still the
  stock (`RowTrue`) when the count lands.

- **BillzImport.** A checkpoint and the rows up to it are written together, so a
  job that fetches is `Resumable` from its row alone, and what a lane remembers
  agrees with rows nobody else writes; calls touch statuses only. So wherever a
  job dies, what is staged is exactly a prefix of its walk.
- **The supply side.** `SupplyOK` is the shape of all rows at once and what each lot owes
  its history: what is left, sold, sent back or moved off adds up to what came in (`KeptLots`). A handler may have read its note long ago, so the argument never uses what
  it read but for a name; that a lot with sales is not dropped rests on the look at
  the lots inside the transaction. `PaidSums`: a note's figure is the sum of the
  payments that stand on it; every payment writes both in one step, and the walk of
  `PaySupplier` over the notes adds to each what it takes from the rest.
  `BookedOK`: the row a payment names is its own and falls with it. `LossOK`: what was booked
  and what new goods may still be booked fit what came in, and, as long as
  no opening stock came, so do they with the units out at suppliers (`Out`), which
  an undo may bring back. `DebtOK`: what was handed over off a note's
  debt is among what was sent back, and with nothing else sent back fits beside the
  payments (`DebtFits`). One request at a time, what a request read of its note is still
  so (`RequestTold`, `PaperRead`). `GoodsOK`: a lot that is there names a received
  note by its line, and what is left of it is where the note is (`LotsNamed`), so
  every figure is a weighing of the lots (`Weigh`): what came in under a note, what
  is left at a branch. A lot's weight changes only where it is drawn, dropped or moved,
  and moving splits a lot into two that weigh the same. `PapersOK`: what is about to be
  taken back has nothing on it. `CreditsOK` needs no order of requests: credit held,
  plus what stands paid from credit, moves with what is given (`CreditAddsUp`), and the
  supplier of a payment from credit has an account to give it back to (`Named`).
- **MoneyLedger, Payroll.** `LedgerOK`: legs of a pair stand side by side, a
  cancelled row is answered once. `PayrollOK`: the row a payment names is its own
  from the moment both are written, rows and entries only grow, and the entry a
  request is about to undo was a payment's if and only if it has a row; the
  second of two undos of one payment finds its row cancelled. `WagesOK`, one request at a
  time, adds what a request in hand read (`Reckoning`): the entry about to be undone
  still stands, and a month the cron is accruing lacks nobody its queue does not name.
  So each commit moves a balance by exactly one entry that comes or goes.
- **ShiftCash.** `DrawerOK`, one request at a time: what the request looked at is still
  so (`Counting`), in particular the movements and sales a close has summed are those
  of the shift it closes; nothing is late or voided on a shift before its close
  (`Unopened`). A row appended to the ledger changes the sum of its own
  shift's rows and of no other (`RowSumGrows`), and a close appends what the ledger
  did not have yet.
- **CreditSale.** `CreditOK`: money goes back only once debt and points are
  settled (`MoneyLast`), and what a sale left to pay is still owed or was
  returned (`DebtFollowsSale`). The sale's lock makes the debt a return read the
  debt it writes (`Reading`), since only a return or a person changes it;
  payments may overlap, but what a return thinks is paid was paid at some time,
  which is what `received` counts. `NetFits` is about one sale's returns: a line that is
  not finished has come to its share and half a coin per unit at most, one that is to its worth
  (or, where a return was worth less than nothing and counted as nothing, as much as it
  could have overshot); from line to line, the sum of what returns came to is bounded
  by those figures, net of the discount, and half a coin per unit more. One request at
  a time, `DebtsOK`: a debt is called what its amounts make it but while somebody is
  between a payment and its status (`Unmarked`), what was read of it for a payment is
  still so (`DebtRead`), and a payment may only bring it to its amount; debts a person
  changed are left out, as in `DebtCapped`. `PointsOK`: the sum over the
  ledger moves with the balance; what a deletion read of a sale's points is what the
  ledger has (`PointsRead`), and what it cannot take back it waives.
- **PriceSteps.** `SoldAsMeant` speaks of the next unit to sell, but the steps that take
  effect later decide what it will cost, so `ShelfTrue` says more: whoever is on the
  shelf and came no earlier than a step's trigger asked for no more than the step
  gives. A step takes effect when all older goods are gone, hence only
  such deliveries are left. `ChainTrue`: no two steps share a trigger (a new one takes
  the place of one it lifts, or waits for its own goods, which are the newest), so
  the chain has a first and a last. One request at a time, `ChainAlone`: prices fall along
  it, later places belong to later deliveries, and each delivery waits at most
  once: reviewed again, the newest one finds its own step at the end and plans nothing. What
  a request read at the card is still so when it writes (`Deciding`); with requests
  all at once that is true of the figure of a proposal and of the steps a settle has
  locked, and nothing more is needed.

Sums are finite folds, and induction over data is out of the prover's reach as a
scheme; the lemmas of `Sums` get what is needed of them from `FunctionTheorems` and
`FiniteSetTheorems`, or by the least place where a recursive function would go
wrong.

Only model-checked: liveness (`DocumentsEnd`, `DueTakesEffect`, `NotStuck`,
`JobSettles`), which the provers do not reach. Every invariant and action property
that a passing run checks has a theorem.

`StockFreezeProofs`, `TillSaleProofs`, `LedgerProofs` and `MoneyProofs` extend the MC
modules, where the loads and the properties about one of them are defined; their
theorems are about those definitions for every value of the constants, not about
the instances.

## 7. Known divergences

Found while modelling; each is a behaviour of the code the modules contain.

Shown by a run (`findings` in `PROJECT.json`):

- *Lots above the shelf* (`stock_tx_race`): a sale that chose its lots before a
  delivery committed and commits after it leaves the new lot too full; the trim
  ran too early to see it.
- *Deleted twice* (`online_order_delete`): two deletes, or a delete and a
  return, put one order's goods back twice.
- *One cart, two sales* (`till_sale_cart`): a checkout does not ask whether the
  parked cart is still there.
- *Count beside the count* (`stock_freeze_gap`): a document that asked before
  the count began moves stock after its snapshot.

Visible in the modules, kept out of the passing runs by their loads or
constants:

- A storefront sale may be booked into a shift that closed between the read of
  the shift and the commit (`OnlineOrder!BookedInOpenShift` fails).
- A dish that was partly trimmed and is then cancelled gives back its
  ingredients again for the trimmed part: the components still record the whole
  draw. With one dish of quantity 1 it cannot be trimmed in part, which is the
  instance `online_order` runs.
- A held cart that is cancelled and then deleted "restocks" goods that never
  left (`TillSale!CartsHoldNoGoods` fails): the delete cannot tell a cancelled
  cart from a cancelled sale.
- A void that overlaps a return goes through, and the sale ends Cancelled with
  returns (`ReturnedSalesStay` fails under overlap; alone it holds).
- A cart's auto-save in flight while the cart is cancelled brings it back
  (no property says it may not; one request at a time it does not happen).
- Counts: two starts at once open two; a storefront cancel, a trim and a manual
  edit do not ask the flag; a restart between the commit of a start and the
  write of the flag leaves the till open until the next miss; two scans of one
  product insert two rows; a scan in flight while the count completes rewrites
  a row of a completed count. What `AloneCountsTrue` and `AloneCountLands`
  say therefore holds one request at a time, and the
  concurrent run checks what survives: a count lands once and stays ended.
- Import: a job whose failure cannot be written stays `running` with no lane at
  work on it (`JobSettles` leaves out `lost`), although the
  comment on crash recovery says a leftover running job means the process died;
  a pause or a cancel writes by id over a job that has completed in between,
  and a resume revives one that was cancelled in between; two starts at once
  make two jobs of one shop; a job paused after the last page of customers
  whose number BiLLZ does not report fails on every resume if the page past the
  end is an error.
- Debts: two payments each fit the balance they read and together exceed it
  (`debt.service.ts` 566-581); a crash between a payment and its status leaves
  the status behind (590-596); a return writes the debt from what it read, so a
  payment's status, or an edit, in between is overwritten
  (`sale-return.service.ts` 403-414). `DebtCapped` and `StandingTrue` are
  therefore asked one request at a time, with the server staying up.
- A sale is deleted while its debt is being paid: the check of payments stands
  outside the transaction (`order.service.ts` 2036-2060), and the payment
  cascades away. A delete locks the customer and then the order, a return the
  order and then the customer: they can deadlock, and one of them is refused.
- Partial returns round each part twice, in the line and net of the discount: their
  sum may overshoot the total, by a coin per unit at most, before the last one
  takes the rest, or nothing (`return-math.ts` 94-125), so "always nets back to the
  cent" (line 12) is not quite so. `NetsBack` states the bound. Points are whole so'm,
  rounded: a sale may spend half a so'm more than the balance holds
  (`order.service.ts` 770-776, `PointsNotOverspent`).
- A debt that was forgiven is nobody's any more: a return afterwards refunds
  money that never came in. `RefundsWithinPaid` leaves out debts a person changed.
- Shifts: a shift closed twice at once posts its sales twice, although the
  comment at `shift.service.ts` 893 speaks of "no double-counting"; a sale or a
  movement that commits between the reads and the close is not in the report;
  two sign-ins open two shifts on one register (383-391); a sale a till made
  offline is booked on a shift that is closed and never reaches the ledger
  (`order.service.ts` 320-335). `AloneDrawerTrue` holds one request at a time.
- Payroll: an accrual confirmed by hand for one employee, while the cron is
  between its preview and its insert, refuses the cron's whole accrual, and the
  month is marked all the same (`payroll.service.ts` 862-919); two undos of one
  bonus take it back twice (531). The undo of a payment is safe: its ledger row
  refuses the second (`PayrollTrue`).
- Deliveries: a note is paid between the check and the transaction that takes it
  back or deletes it, which looks again only at the lots, although the comment at
  `receipt.service.ts` 782-783 says everything is looked at again: a draft with
  payments, or payments that cascade away while their expenses stay. A draft
  received twice at once is shelved twice (644-660 against 713-729); one edited
  while it is received is shelved with lines it no longer has; `updateHeader`
  (1227) writes back the supplier or the branch it read. Returns to the supplier
  are not capped by what was paid. Where tills oversold, clamping at zero
  (1054, 1087, 1451, 3335) parts `products.quantity` from the sum of the branches.
- A payment from credit that is cancelled after its note got another supplier
  gives the credit to that one, or to nobody (2400-2412); one made while its note is
  being deleted cascades away and the credit is not given back. The loads that ask
  `CreditAccounted`, and `CreditAccountedThm`, leave both out.
- Opening stock of the defective store is a loss already; handed to the supplier
  and taken back, it comes in as `supplier_cancel`, and its write-off books an
  expense, although `defective.service.ts` 664-669 says a loss is not booked
  twice. The load `defects` leaves that sequence out.

- Prices: two settles at once may apply two steps in the wrong order, the one
  that skipped the other's rows first (`price-steps.ts` 537-574), though the module
  says a price moves forward; a delivery taken back between its proposal and
  its writing has no lots to be younger than, so its drop goes onto the card at
  once; prices of an older delivery decided after a newer one's queue ahead of
  it and break the falling chain; one reviewed twice lifts its own step and its
  page says cancelled while it waits (252-261). A form read before a price moved
  writes the old one back and its history tells nothing
  (`product.service.ts` 1224, 1297-1344). `ChainFalls` and `RecordTrue` therefore hold one
  request at a time; `DropsWait` is asked while the newest delivery's price is decided.
- `writePrices` and the card's form lock the card and then its steps, a settle the
  steps and then the card: they can deadlock, one of them is refused, and the
  sweep makes up for a settle (`DueTakesEffect`).

Read in code that is not modelled: the BiLLZ load sets a branch's stock
absolutely, so a load repeated after a crash loses the sales in between; its
counter of failed records counts them again on resume. A manual edit of a
quantity leaves the lots as they were.

## 8. Abstractions

- **Quantities** are whole smallest units (the code keeps three decimals);
  **money** is whole so'm, so the code's comparison within `EPSILON = 0.5` is
  equality of integers. Rounding appears where a property is about it (a dish's
  share).
- `StockTx` is about one product: documents of many lines lock products in the
  order of their lines, which differs between documents, so a deadlock over two
  products is possible and ends as `DocumentsEnd` says. Lot prices are
  left out.
- `OnlineOrder` leaves out order-level discounts, the courier, notes and the
  messages to the shopper. `Begin` of a delete waits for nothing.
- `TillSale`: one line per sale, sales are born Completed. In the MC module
  carts are full, and a return takes one unit or everything.
- `StockFreeze`: one product of one branch; a document moves one unit; requests
  that miss the cache together are not merged, which is the weaker assumption.
  `setChecked` (a tick in a list) is left out.
- `BillzImport`: the mapping of a record into a product, a customer or an image is
  a row that goes or fails; records without an id, which are counted and not
  staged, do not exist; retries inside a request are the request; progress
  counters and labels are left out. A category deleted in BiLLZ between two
  halves of a walk, which restarts the walk from the top, is not modelled.
- `CreditSale`, `ReturnMath`: one customer; a tender is cash and card; sums are
  whole coins, of which two make a so'm in the run (a hundred in the code), so
  that rounding to either is seen. The code's floats, rounded to two decimals,
  are taken as exact.
- `MoneyLedger` and its users: one currency; categories and planned payments are
  left out. `ShiftCash` tells cash only: the other tenders take the same way to
  another account. A wage is a sum per month: percent schemes compute one.
- `Delivery`, `SupplierAccount`, `DefectiveStore`: one product whose unit costs one unit
  of money, one line per document; markups, selling prices and tags are left out.
- `PriceSteps`: one product in one branch, one of its three prices; the card always
  has one, lines of new deliveries name one; the shop's switch for waiting prices is on.
  Drafts are not retyped. Whoever receives may or may not change prices.
- The database is Postgres at READ COMMITTED; a handler's in-memory work
  between two `await`s is one step.

Not modelled, and why: reads and reports (no state), CRUD over reference data
and permissions (single statements), outside models and HTTP clients (inputs,
not decisions), notifications and file uploads (fire and forget).

## 9. Plan

Done: stock documents, storefront orders, till orders, counts and the freeze,
the BiLLZ import with its proofs, returns' arithmetic, credit sales, the money
ledger, shifts, payroll, suppliers' accounts, deliveries, the defective store,
waiting prices.

Parts that share an instance are checked by one run with a `load`, so that a run
stays one question asked of the system. What is left, in order:

1. `Recipe`: no cycle in the graph of ingredients under concurrent saves
   (an advisory lock serialises them), and the menu import beside it.
2. `CachedRead` (invalidation after writes), subscriptions (a prepaid balance read
   and written absolutely), the AI budget (checked before, charged after).
