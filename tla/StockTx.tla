------------------------------ MODULE StockTx -------------------------------
(***************************************************************************)
(* Concurrent stock documents over the rows of one product, at the grain   *)
(* of the SQL statements their transactions run (READ COMMITTED):          *)
(*                                                                         *)
(*   products         one row: quantity, and the row lock documents take   *)
(*   branch_stock     one row per branch                                   *)
(*   inventory_batches  the lots, oldest first                             *)
(*                                                                         *)
(* stock, quantity and lots are the committed rows.  What a transaction    *)
(* has written and not yet committed is private to it (dStock, dQuantity,  *)
(* draw, mint): every write is relative and holds the row's lock until the *)
(* transaction ends, so a row is its committed value plus what its one     *)
(* writer added.  A plain SELECT sees the committed rows and the           *)
(* transaction's own writes; a SELECT FOR UPDATE takes the rows its        *)
(* snapshot saw, one at a time, and reads each one's latest version.       *)
(***************************************************************************)
EXTENDS StockDocuments, Sequences, FiniteSetsExt

CONSTANTS OpeningLots,       \* the lots before the first document
          OpeningStock,      \* branch_stock before the first document
          OpeningQuantity    \* products.quantity before the first document

Product == "product"         \* the products row, next to the branch_stock rows
Rows == Branches \cup {Product}
Lot == [branch : Branches, age : Nat, left : Int]

ASSUME OpeningAssumption ==
  /\ OpeningLots \in Seq(Lot)
  /\ \A l \in DOMAIN OpeningLots : OpeningLots[l].left >= 0
  /\ OpeningStock \in [Branches -> Int]
  /\ OpeningQuantity = SumFunction(OpeningStock)
  /\ Product \notin Branches

ASSUME FiniteAssumption == IsFiniteSet(Tx) /\ IsFiniteSet(Branches)

VARIABLES
  lots,        \* inventory_batches, in insertion order; age is created_at
  stock,       \* branch_stock.quantity
  quantity,    \* products.quantity
  req,         \* the document each transaction runs
  pc,          \* the statement each transaction runs next
  rows,        \* the products and branch_stock rows it has locked
  share,       \* does it hold the products row FOR KEY SHARE (foreign keys)
  queue,       \* the lots its SELECT FOR UPDATE, then its loop, still has to visit
  draw,        \* the lots it has locked, with the units it took from each
  held,        \* the units in the lots it has locked
  need,        \* the units it still has to take
  mint,        \* the lots it has inserted
  dStock,      \* what it has added to each branch_stock row
  dQuantity    \* what it has added to products.quantity

committed == <<lots, stock, quantity>>
private == <<req, rows, share, queue, draw, held, need, mint, dStock, dQuantity>>
vars == <<committed, private, pc>>

------------------------------------------------------------------------------
\* Where a document's transaction starts, and what follows each statement.

\* Mutant: the guarded documents read the shelf without locking the product.
FirstStepNoProductLock(k) == CASE k \in Guarded   -> "check"
                               [] k \in Unguarded -> "select"
                               [] k \in Arrivals  -> "mint"

FirstStep(k) == CASE k \in Guarded   -> "lock"
                  [] k \in Unguarded -> "select"
                  [] k \in Arrivals  -> "mint"

\* Mutant: a withdrawal moves the product's total and not the branch shelf.
AfterTakeNoShelf(k) == IF k \in Trimming THEN "commit" ELSE "quantity"

AfterTake(k) == IF k \in Trimming THEN "commit" ELSE "stock"

\* Mutant: a return trims the lots too, and so locks them last.
AfterQuantityTrimAll(k) == CASE k = "transfer"   -> "arrive"
                             [] k \in Arrivals   -> "select"
                             [] OTHER            -> "commit"

AfterQuantity(k) == CASE k = "transfer"   -> "arrive"
                      [] k \in Trimming   -> "select"
                      [] OTHER            -> "commit"

Finished(t) == pc[t] \in {"committed", "rolledBack"}

Init == /\ lots = OpeningLots
        /\ stock = OpeningStock
        /\ quantity = OpeningQuantity
        /\ req \in [Tx -> Request]
        /\ pc = [t \in Tx |-> FirstStep(req[t].kind)]
        /\ rows = [t \in Tx |-> {}]
        /\ share = [t \in Tx |-> FALSE]
        /\ queue = [t \in Tx |-> {}]
        /\ draw = [t \in Tx |-> <<>>]
        /\ held = [t \in Tx |-> 0]
        /\ need = [t \in Tx |-> 0]
        /\ mint = [t \in Tx |-> <<>>]
        /\ dStock = [t \in Tx |-> [b \in Branches |-> 0]]
        /\ dQuantity = [t \in Tx |-> 0]

------------------------------------------------------------------------------
\* Row locks.

Holders(r) == {u \in Tx : r \in rows[u]}

\* Mutant: the lots are read without FOR UPDATE.
LotHoldersNone(l) == {}
LotHolders(l) == {u \in Tx : l \in DOMAIN draw[u]}

\* FOR UPDATE (the guarded documents' lock on the product) also excludes the
\* FOR KEY SHARE an insert with a foreign key to the product takes; the plain
\* UPDATE of products.quantity does not.
Sharers == {u \in Tx : share[u]}
Exclusive == {u \in Holders(Product) : req[u].kind \in Guarded}

Oldest(S) == {l \in S : \A m \in S : lots[l].age <= lots[m].age}

OldestHolders(t) == UNION {LotHolders(l) : l \in Oldest(queue[t])}

\* The transactions t cannot pass with the statement it runs next.
Blockers(t) ==
  LET wanted == CASE pc[t] = "lock"     -> Holders(Product) \cup Sharers
                  [] pc[t] = "mint"     -> Exclusive
                  [] pc[t] = "gather"   -> OldestHolders(t)
                  [] pc[t] = "stock"    -> Holders(req[t].from)
                  [] pc[t] = "quantity" -> Holders(Product)
                  [] pc[t] = "arrive"   -> Holders(req[t].to)
                  [] OTHER              -> {}
  IN  wanted \ {t}

Waiting(t) == Blockers(t) # {}

\* t waits, through others that wait, for itself.
InCycle(t) == \E C \in SUBSET Tx :
                /\ t \in C
                /\ \A u \in C : /\ Blockers(u) \cap C # {}
                                /\ \E v \in C : u \in Blockers(v)

------------------------------------------------------------------------------
\* The statements.

Run(t, here, there) == /\ pc[t] = here
                       /\ ~Waiting(t)
                       /\ pc' = [pc EXCEPT ![t] = there]

\* SELECT ... FROM products ... FOR UPDATE
LockProduct(t) ==
  /\ Run(t, "lock", "check")
  /\ rows' = [rows EXCEPT ![t] = @ \cup {Product}]
  /\ UNCHANGED <<committed, req, share, queue, draw, held, need, mint, dStock, dQuantity>>

\* Mutant: the shelf is not checked.
CheckShelfNever(t) ==
  /\ Run(t, "check", "select")
  /\ UNCHANGED <<committed, private>>

\* getBranchStock: no lock; more than the shelf holds refuses the document.
CheckShelf(t) ==
  /\ Run(t, "check", "select")
  /\ req[t].qty <= stock[req[t].from]
  /\ UNCHANGED <<committed, private>>

OpenLots(b) == {l \in DOMAIN lots : lots[l].branch = b /\ lots[l].left > 0}

\* The statement's snapshot of the branch's open lots (own inserts are visible
\* too, and are locked by nobody else: they are in mint).
SelectLots(t) ==
  /\ Run(t, "select", "gather")
  /\ queue' = [queue EXCEPT ![t] = OpenLots(req[t].from)]
  /\ UNCHANGED <<committed, req, rows, share, draw, held, need, mint, dStock, dQuantity>>

\* ... ORDER BY created_at FOR UPDATE: wait for the next row (any of those that
\* tie), read its latest version, drop it when it no longer qualifies.
GatherLot(t) ==
  /\ pc[t] = "gather"
  /\ pc' = pc
  /\ \E l \in Oldest(queue[t]) :
       /\ LotHolders(l) \subseteq {t}
       /\ queue' = [queue EXCEPT ![t] = @ \ {l}]
       /\ IF lots[l].left > 0
          THEN /\ draw' = [draw EXCEPT ![t] = [m \in DOMAIN @ \cup {l} |->
                                                 IF m = l THEN 0 ELSE @[m]]]
               /\ held' = [held EXCEPT ![t] = @ + lots[l].left]
          ELSE UNCHANGED <<draw, held>>
  /\ UNCHANGED <<committed, req, rows, share, need, mint, dStock, dQuantity>>

\* What trimLotsToStockTx takes: the lots' excess over the shelf, read after
\* the document's own writes.
Excess(t) == LET onHand  == stock[req[t].from] + dStock[t][req[t].from]
                 backing == IF onHand > 0 THEN onHand ELSE 0
                 inLots  == held[t] + req[t].qty
             IN  IF inLots > backing THEN inLots - backing ELSE 0

\* All lots locked: the loop over them starts, oldest first.
StartTaking(t) ==
  /\ Run(t, "gather", "take")
  /\ queue[t] = {}
  /\ queue' = [queue EXCEPT ![t] = DOMAIN draw[t]]
  /\ need' = [need EXCEPT ![t] = IF req[t].kind \in Trimming THEN Excess(t) ELSE req[t].qty]
  /\ UNCHANGED <<committed, req, rows, share, draw, held, mint, dStock, dQuantity>>

NewLot(b, age, n) == [branch |-> b, age |-> age, left |-> n]

TakenFrom(t, l) == IF need[t] < lots[l].left THEN need[t] ELSE lots[l].left

\* One round of the loop; a transfer reopens what it took at the destination,
\* with the lot's own age.
TakeFromLot(t) ==
  /\ Run(t, "take", "take")
  /\ need[t] > 0
  /\ \E l \in Oldest(queue[t]) :
       LET n == TakenFrom(t, l)
       IN  /\ queue' = [queue EXCEPT ![t] = @ \ {l}]
           /\ draw' = [draw EXCEPT ![t][l] = n]
           /\ need' = [need EXCEPT ![t] = @ - n]
           /\ mint' = IF req[t].kind = "transfer"
                      THEN [mint EXCEPT ![t] = Append(@, NewLot(req[t].to, lots[l].age, n))]
                      ELSE mint
  /\ UNCHANGED <<committed, req, rows, share, held, dStock, dQuantity>>

\* The lots are done.  What they could not cover: a sale sells it all the same,
\* a transfer opens a lot for it at the destination, a trim takes it from the
\* lot the document itself inserted (the youngest).
FinishTaking(t) ==
  /\ Run(t, "take", AfterTake(req[t].kind))
  /\ need[t] = 0 \/ queue[t] = {}
  /\ queue' = [queue EXCEPT ![t] = {}]
  /\ need' = [need EXCEPT ![t] = 0]
  /\ mint' = CASE req[t].kind = "transfer" /\ need[t] > 0 ->
                    [mint EXCEPT ![t] =
                       Append(@, NewLot(req[t].to, Len(lots) + 1, need[t]))]
               [] req[t].kind \in Trimming ->
                    [mint EXCEPT ![t][1].left =
                       IF need[t] < @ THEN @ - need[t] ELSE 0]
               [] OTHER -> mint
  /\ UNCHANGED <<committed, req, rows, share, draw, held, dStock, dQuantity>>

\* INSERT INTO inventory_batches: checks the foreign key to the product.
MintLot(t) ==
  /\ Run(t, "mint", "stock")
  /\ share' = [share EXCEPT ![t] = TRUE]
  /\ mint' = [mint EXCEPT ![t] =
       Append(@, NewLot(req[t].from, Len(lots) + 1, req[t].qty))]
  /\ UNCHANGED <<committed, req, rows, queue, draw, held, need, dStock, dQuantity>>

Signed(t) == IF req[t].kind \in Arrivals THEN req[t].qty ELSE -req[t].qty

\* INSERT INTO branch_stock ... ON CONFLICT DO UPDATE quantity + delta
WriteStock(t) ==
  /\ Run(t, "stock", "quantity")
  /\ rows' = [rows EXCEPT ![t] = @ \cup {req[t].from}]
  /\ dStock' = [dStock EXCEPT ![t][req[t].from] = @ + Signed(t)]
  /\ UNCHANGED <<committed, req, share, queue, draw, held, need, mint, dQuantity>>

\* UPDATE products SET quantity = quantity + delta
WriteQuantity(t) ==
  /\ Run(t, "quantity", AfterQuantity(req[t].kind))
  /\ rows' = [rows EXCEPT ![t] = @ \cup {Product}]
  /\ dQuantity' = [dQuantity EXCEPT ![t] = @ + Signed(t)]
  /\ UNCHANGED <<committed, req, share, queue, draw, held, need, mint, dStock>>

\* A transfer's second applyBranchStockDelta: the destination shelf, and the
\* product it already holds.
WriteDestination(t) ==
  /\ Run(t, "arrive", "commit")
  /\ rows' = [rows EXCEPT ![t] = @ \cup {req[t].to}]
  /\ dStock' = [dStock EXCEPT ![t][req[t].to] = @ + req[t].qty]
  /\ dQuantity' = [dQuantity EXCEPT ![t] = @ + req[t].qty]
  /\ UNCHANGED <<committed, req, share, queue, draw, held, need, mint>>

------------------------------------------------------------------------------
\* The end of a transaction: its locks go, its writes are kept or dropped.

Release(t) == /\ rows' = [rows EXCEPT ![t] = {}]
              /\ share' = [share EXCEPT ![t] = FALSE]
              /\ queue' = [queue EXCEPT ![t] = {}]
              /\ draw' = [draw EXCEPT ![t] = <<>>]
              /\ held' = [held EXCEPT ![t] = 0]
              /\ need' = [need EXCEPT ![t] = 0]
              /\ mint' = [mint EXCEPT ![t] = <<>>]
              /\ dStock' = [dStock EXCEPT ![t] = [b \in Branches |-> 0]]
              /\ dQuantity' = [dQuantity EXCEPT ![t] = 0]
              /\ UNCHANGED req

Commit(t) ==
  /\ Run(t, "commit", "committed")
  /\ lots' = [l \in DOMAIN lots |->
                IF l \in DOMAIN draw[t]
                THEN [lots[l] EXCEPT !.left = @ - draw[t][l]] ELSE lots[l]] \o mint[t]
  /\ stock' = [b \in Branches |-> stock[b] + dStock[t][b]]
  /\ quantity' = quantity + dQuantity[t]
  /\ Release(t)

Rollback(t) == /\ ~Finished(t)
               /\ pc' = [pc EXCEPT ![t] = "rolledBack"]
               /\ Release(t)
               /\ UNCHANGED committed

\* TRANSFER_EXCEEDS_STOCK, WRITE_OFF_EXCEEDS_STOCK, DEFECTIVE_SHELF_EXCEEDS_STOCK
Refuse(t) == /\ pc[t] = "check"
             /\ req[t].qty > stock[req[t].from]
             /\ Rollback(t)

\* Mutant: nobody notices a deadlock.
BreakDeadlockNever(t) == FALSE

\* Postgres ends one transaction of a cycle of waiting ones.
BreakDeadlock(t) == InCycle(t) /\ Rollback(t)

\* The process dies or loses its connection: nothing of the document remains.
Crash(t) == Rollback(t)

Statement(t) == \/ LockProduct(t) \/ CheckShelf(t)
                \/ SelectLots(t) \/ GatherLot(t) \/ StartTaking(t)
                \/ TakeFromLot(t) \/ FinishTaking(t)
                \/ MintLot(t) \/ WriteStock(t) \/ WriteQuantity(t)
                \/ WriteDestination(t) \/ Commit(t)

Progress(t) == Statement(t) \/ Refuse(t) \/ BreakDeadlock(t)

Next == \E t \in Tx : Progress(t) \/ Crash(t)

Spec == Init /\ [][Next]_vars

\* Every statement the server can run is run, and a deadlock is noticed.
FairSpec == Spec /\ \A t \in Tx : WF_vars(Progress(t))

------------------------------------------------------------------------------
\* Properties.

Steps == {"lock", "check", "select", "gather", "take", "mint", "stock", "quantity",
          "arrive", "commit", "committed", "rolledBack"}

TablesOK == /\ lots \in Seq(Lot)
            /\ stock \in [Branches -> Int]
            /\ quantity \in Int

ControlOK == /\ req \in [Tx -> Request]
             /\ pc \in [Tx -> Steps]
             /\ rows \in [Tx -> SUBSET Rows]
             /\ share \in [Tx -> BOOLEAN]

LoopOK == /\ queue \in [Tx -> SUBSET (DOMAIN lots)]
          /\ DOMAIN draw = Tx
          /\ \A t \in Tx : /\ DOMAIN draw[t] \subseteq DOMAIN lots
                           /\ \A l \in DOMAIN draw[t] : draw[t][l] \in Nat
          /\ held \in [Tx -> Int]
          /\ need \in [Tx -> Nat]

WritesOK == /\ mint \in [Tx -> Seq(Lot)]
            /\ dStock \in [Tx -> [Branches -> Int]]
            /\ dQuantity \in [Tx -> Int]

TypeOK == TablesOK /\ ControlOK /\ LoopOK /\ WritesOK

\* The product's total is always the sum of its branch shelves: however the
\* documents interleave, fail or are rolled back, "the two never drift"
\* (common/branch-stock.ts:9).
NeverDrift == quantity = SumFunction(stock)

\* No lot is drained below zero: two documents can never both take the last
\* units of one lot (costing.ts:44, "can't drain the same lot twice").
LotsNeverOverdrawn == \A l \in DOMAIN lots : lots[l].left >= 0

\* A transfer, a write-off or a move to the defective store that commits has
\* not taken the shelf below zero, although it read the shelf without a lock and
\* a sale may have been half way through taking from it ("Lock the product so a
\* concurrent sale can't let the source over-draw").
GuardedNeverOverdraws ==
  [][\A t \in Tx : (pc[t] = "commit" /\ pc'[t] = "committed"
                      /\ req[t].kind \in Guarded) => stock'[req[t].from] >= 0]_vars

UnitsIn(some, b) ==
  SumFunction([l \in DOMAIN some |-> IF some[l].branch = b THEN some[l].left ELSE 0])
UnitsInLots(b) == UnitsIn(lots, b)

\* While only documents that lock the product first take from the shelf, its
\* open lots hold exactly its stock, whatever arrives meanwhile.
OnlyGuarded == \A t \in Tx : req[t].kind \notin Unguarded
LotsMatchStock == OnlyGuarded => \A b \in Branches : UnitsInLots(b) = stock[b]

\* Between documents, the open lots of a branch never hold more units than its
\* shelf: FIFO cannot sell again what was already sold ahead of a delivery
\* (common/branch-stock.ts:117).
Quiet == \A t \in Tx : rows[t] = {} /\ draw[t] = <<>> /\ mint[t] = <<>>
LotsNeverExceedStock ==
  Quiet => \A b \in Branches :
             UnitsInLots(b) <= IF stock[b] > 0 THEN stock[b] ELSE 0

\* Two lots of one branch with one created_at: the lines of one delivery, say.
\* Nothing orders them.
NoTies == \A l, m \in DOMAIN lots :
            l # m /\ lots[l].branch = lots[m].branch => lots[l].age # lots[m].age

\* Sales, returns and stock-take shortages of one product take its rows in one
\* order, so they never wait for each other in a circle; unless lots tie.
NoDeadlock ==
  NoTies /\ (\A t \in Tx : req[t].kind \in Unguarded \cup Restocking)
    => \A t \in Tx : ~InCycle(t)

\* Every document ends: waiting for a row lock always ends, by the holder's
\* commit or rollback, or by the server breaking a cycle.
EveryDocumentEnds == \A t \in Tx : <>Finished(t)

\* The inductive invariant behind the theorems of StockTxProofs.

\* A row and a lot are locked by one transaction at a time.
LocksExclusive == \A t, u \in Tx : t # u => /\ rows[t] \cap rows[u] = {}
                                            /\ DOMAIN draw[t] \cap DOMAIN draw[u] = {}

\* What a transaction took from a lot it holds is still there, its loop only
\* visits lots it holds, and it owes nothing to the lots it inserted.
DrawsCovered == \A t \in Tx : /\ \A l \in DOMAIN draw[t] : draw[t][l] <= lots[l].left
                              /\ pc[t] = "take" => queue[t] \subseteq DOMAIN draw[t]
                              /\ \A k \in DOMAIN mint[t] : mint[t][k].left >= 0

\* Which documents reach which statement.
OnPlan(t) == /\ pc[t] \in {"lock", "check"} => req[t].kind \in Guarded
             /\ pc[t] = "mint" => req[t].kind \in Arrivals
             /\ pc[t] = "arrive" => req[t].kind = "transfer"
             /\ pc[t] \in {"select", "gather", "take"} =>
                  req[t].kind \in Withdrawals \cup Trimming

\* What it has written by then.
Written(t) ==
  LET none  == [b \in Branches |-> 0]
      first == [b \in Branches |-> IF b = req[t].from THEN Signed(t) ELSE 0]
      whole == [b \in Branches |-> StockDelta(req[t], b)]
  IN  CASE pc[t] = "quantity" -> dStock[t] = first /\ dQuantity[t] = 0
        [] pc[t] = "arrive"   -> dStock[t] = first /\ dQuantity[t] = Signed(t)
        [] pc[t] = "commit" \/ (pc[t] \in {"select", "gather", "take"} /\ req[t].kind \in Trimming) ->
             /\ dStock[t] = whole
             /\ dQuantity[t] = QuantityDelta(req[t])
             /\ Product \in rows[t]
        [] OTHER -> dStock[t] = none /\ dQuantity[t] = 0

\* A guarded document that found enough on the shelf holds the product, and the
\* shelf still has it.
ShelfPromised(t) ==
  req[t].kind \in Guarded /\ pc[t] \notin {"lock", "committed", "rolledBack"} =>
    /\ Product \in rows[t]
    /\ pc[t] # "check" => req[t].qty <= stock[req[t].from]

IInv == /\ TypeOK
        /\ LotsNeverOverdrawn
        /\ LocksExclusive
        /\ DrawsCovered
        /\ \A t \in Tx : OnPlan(t) /\ Written(t) /\ ShelfPromised(t)

\* While only documents that lock the product first take from the shelf (no
\* Unguarded ones), whoever visits lots holds the product, so nobody commits
\* meanwhile: the lots it found are the open lots, what it took from them and
\* what it still needs make up the document, and what it inserts is what
\* arrives.
Drawn(t) == SumFunction(draw[t])

LotsFound(t) == /\ queue[t] \cap DOMAIN draw[t] = {}
                /\ queue[t] \cup DOMAIN draw[t] = OpenLots(req[t].from)
                /\ \A l \in DOMAIN draw[t] : draw[t][l] = 0
                /\ held[t] = SumFunction([l \in DOMAIN draw[t] |-> lots[l].left])

LotsVisited(t) == /\ DOMAIN draw[t] = OpenLots(req[t].from)
                  /\ \A l \in queue[t] : draw[t][l] = 0
                  /\ need[t] > 0 =>
                       \A l \in DOMAIN draw[t] \ queue[t] : draw[t][l] = lots[l].left
                  /\ need[t] + Drawn(t) = IF req[t].kind \in Trimming THEN 0 ELSE req[t].qty

LotsDone(t) == /\ \A l \in DOMAIN draw[t] : lots[l].branch = req[t].from
               /\ Drawn(t) = IF req[t].kind \in Guarded THEN req[t].qty ELSE 0

NoLotsYet(t) == draw[t] = <<>> /\ held[t] = 0

Taken(t) == CASE pc[t] = "gather" -> LotsFound(t)
              [] pc[t] = "take"   -> LotsVisited(t)
              [] pc[t] = "commit" -> LotsDone(t)
              [] pc[t] \in {"stock", "quantity", "arrive"} /\ req[t].kind \in Guarded -> LotsDone(t)
              [] OTHER            -> NoLotsYet(t)

Opened(t) ==
  IF req[t].kind \in Arrivals
  THEN IF pc[t] \in {"mint", "committed", "rolledBack"} THEN mint[t] = <<>>
       ELSE /\ Len(mint[t]) = 1
            /\ mint[t][1].branch = req[t].from
            /\ mint[t][1].left = req[t].qty
  ELSE /\ req[t].kind # "transfer" => mint[t] = <<>>
       /\ \A k \in DOMAIN mint[t] : mint[t][k].branch = req[t].to
       /\ UnitsIn(mint[t], req[t].to) = IF req[t].kind = "transfer" THEN Drawn(t) ELSE 0

LotsInv == LotsMatchStock /\ (OnlyGuarded => \A t \in Tx : Taken(t) /\ Opened(t))

\* A transaction locks a branch's lots oldest first, and the shelf and the
\* product after them.
LotsInOrder(t) ==
  /\ \/ pc[t] \in {"lock", "check", "mint", "select"}
     \/ req[t].kind \in Arrivals /\ pc[t] \in {"stock", "quantity"}
     => draw[t] = <<>>
  /\ pc[t] = "gather" =>
       /\ \A l \in DOMAIN draw[t] \cup queue[t] : lots[l].branch = req[t].from
       /\ \A l \in DOMAIN draw[t], m \in queue[t] : l # m /\ lots[l].age <= lots[m].age

RowsLast(t) ==
  req[t].kind \in Unguarded \cup Restocking =>
    /\ rows[t] # {} => pc[t] \in {"quantity", "commit"}
    /\ Product \in rows[t] => pc[t] = "commit"

LocksInOrder == \A t \in Tx : LotsInOrder(t) /\ RowsLast(t)

\* The documents behave as if each happened in one step (StockBalance).
Balance == INSTANCE StockBalance WITH
             status <- [t \in Tx |-> CASE pc[t] = "committed"  -> "done"
                                       [] pc[t] = "rolledBack" -> "failed"
                                       [] OTHER                -> "open"]
BalanceSpec == Balance!Spec
=============================================================================
