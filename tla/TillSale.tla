------------------------------ MODULE TillSale ------------------------------
(***************************************************************************)
(* Rows of the orders table as the tills use it: carts are parked          *)
(* (hold), resumed and rung up (create), voided (updateStatus), deleted    *)
(* (remove) and taken back (SaleReturnService.create), by requests that    *)
(* run at the same time.                                                   *)
(*                                                                         *)
(* Only a return locks the sale before it decides.  The others look at the *)
(* row first and write it in a later statement or transaction, by its id.  *)
(* A till resends a sale whose answer it missed, under the same client id. *)
(* A sale is one line of goods here; quantities are whole units.           *)
(***************************************************************************)
EXTENDS Integers

CONSTANTS Ids,        \* the order ids that exist (UUIDs)
          Clients,    \* the ids tills give their sales
          NoClient,   \* a sale sent without one (orders.client_id is null)
          NoId,       \* no order: nothing to resume, no draft to save over
          Quantities, \* the quantities a cart or a return may hold
          Handlers,   \* the handlers this instance runs
          Sessions    \* concurrent requests

AllHandlers == {"checkout", "hold", "cancel", "remove", "return"}

ASSUME NamesAssumption == NoClient \notin Clients /\ NoId \notin Ids
ASSUME QuantitiesAssumption == Quantities \subseteq Nat \ {0}
ASSUME HandlersAssumption == Handlers \subseteq AllHandlers

VARIABLES
  status,     \* orders.status; "Unused" before the row, "Deleted" after it
  client,     \* orders.client_id
  resumed,    \* the parked cart a sale was rung up from (create's heldOrderId)
  receiptNo,  \* orders.receipt_no; 0 is null
  qty,        \* order_items.quantity
  returned,   \* order_items.returned_quantity
  out,        \* units that left the shop's books for this order
  lastNo,     \* receipt_sequences.last_no
  phase,      \* where each session is
  job,        \* what it was asked to do
  seen,       \* the order it read: status, returned, qty
  number      \* the receipt number its transaction took

row == <<status, client, resumed, receiptNo, qty, returned>>
goods == out
session == <<phase, job, seen, number>>
vars == <<row, goods, lastNo, session>>

NoJob == [kind |-> "none", id |-> NoId, client |-> NoClient, qty |-> 0]
NothingSeen == [status |-> "Unused", returned |-> 0, qty |-> 0]

Init == /\ status = [i \in Ids |-> "Unused"]
        /\ client = [i \in Ids |-> NoClient]
        /\ resumed = [i \in Ids |-> NoId]
        /\ receiptNo = [i \in Ids |-> 0]
        /\ qty = [i \in Ids |-> 0]
        /\ returned = [i \in Ids |-> 0]
        /\ out = [i \in Ids |-> 0]
        /\ lastNo = 0
        /\ phase = [s \in Sessions |-> "idle"]
        /\ job = [s \in Sessions |-> NoJob]
        /\ seen = [s \in Sessions |-> NothingSeen]
        /\ number = [s \in Sessions |-> 0]

Live(i) == status[i] \notin {"Unused", "Deleted"}
IsSale(i) == receiptNo[i] # 0

------------------------------------------------------------------------------
\* A request comes in, and goes.

Step(s, here, there) == phase[s] = here /\ phase' = [phase EXCEPT ![s] = there]

End(s, here) == /\ Step(s, here, "idle")
                /\ job' = [job EXCEPT ![s] = NoJob]
                /\ seen' = [seen EXCEPT ![s] = NothingSeen]
                /\ number' = [number EXCEPT ![s] = 0]

FirstPhase == [checkout |-> "find", hold |-> "look", cancel |-> "look",
               remove |-> "look", return |-> "lock"]

\* What a till can name: any cart it ever parked, any sale it ever rang up.
Known(kind, i) == CASE kind = "checkout" -> i = NoId \/ (i \in Ids /\ status[i] # "Unused" /\ ~IsSale(i))
                    [] kind = "hold"     -> i = NoId \/ (i \in Ids /\ status[i] # "Unused" /\ ~IsSale(i))
                    [] kind = "return"   -> i \in Ids /\ IsSale(i)
                    [] OTHER             -> i \in Ids /\ status[i] # "Unused"

Begin(s) ==
  \E kind \in Handlers, i \in Ids \cup {NoId}, c \in Clients \cup {NoClient}, n \in Quantities :
    /\ Step(s, "idle", FirstPhase[kind])
    /\ Known(kind, i)
    /\ kind # "checkout" => c = NoClient
    /\ kind \in {"cancel", "remove"} => \A m \in Quantities : n <= m
    /\ job' = [job EXCEPT ![s] = [kind |-> kind, id |-> i, client |-> c, qty |-> n]]
    /\ UNCHANGED <<row, goods, lastNo, seen, number>>

\* Refused, or dead: what its transaction did is rolled back.
GiveUp(s) == /\ phase[s] # "idle"
             /\ End(s, phase[s])
             /\ UNCHANGED <<row, goods, lastNo>>

------------------------------------------------------------------------------
\* create(): find a sale with this client id; take the receipt number, which
\* locks the counter to the end of the transaction; insert and commit.

\* Mutant: no unique index on (business_id, client_id).
RungUpNever(c) == FALSE

\* The sale that already has this client id.
RungUp(c) == c # NoClient /\ \E i \in Ids : Live(i) /\ client[i] = c

FindSale(s) == /\ ~RungUp(job[s].client)
               /\ Step(s, "find", "number")
               /\ UNCHANGED <<row, goods, lastNo, job, seen, number>>

\* A settled retry: the sale is returned as it is.
FindsSale(s) == /\ RungUp(job[s].client)
                /\ End(s, "find")
                /\ UNCHANGED <<row, goods, lastNo>>

\* Mutant: the counter is not locked.
CounterFreeAlways == TRUE

CounterFree == \A u \in Sessions : phase[u] # "sell"

TakeNumber(s) == /\ Step(s, "number", "sell")
                 /\ CounterFree
                 /\ number' = [number EXCEPT ![s] = lastNo + 1]
                 /\ UNCHANGED <<row, goods, lastNo, job, seen>>

\* The parked cart is dropped with the sale, whether or not there still is one.
Sell(s) ==
  LET j == job[s]
  IN  /\ End(s, "sell")
      /\ ~RungUp(j.client)
      /\ \E i \in Ids :
           /\ status[i] = "Unused"
           /\ status' = [k \in Ids |-> IF k = i THEN "Completed"
                                       ELSE IF k = j.id /\ status[k] = "Held" THEN "Deleted"
                                       ELSE status[k]]
           /\ client' = [client EXCEPT ![i] = j.client]
           /\ resumed' = [resumed EXCEPT ![i] = j.id]
           /\ receiptNo' = [receiptNo EXCEPT ![i] = number[s]]
           /\ qty' = [qty EXCEPT ![i] = j.qty]
           /\ out' = [out EXCEPT ![i] = j.qty]
      /\ lastNo' = number[s]
      /\ UNCHANGED returned

\* Lost the race on the unique index: rolled back, the winner is returned.
LosesRace(s) == /\ RungUp(job[s].client)
                /\ End(s, "sell")
                /\ UNCHANGED <<row, goods, lastNo>>

------------------------------------------------------------------------------
\* hold(), updateStatus() and remove(): look at the row...

StillDraft(i) == status[i] = "Held"

\* hold() saves over its draft only if it is still one; the other two need it.
LookAt(s) ==
  LET j == job[s]
  IN  /\ Step(s, "look", j.kind)
      /\ IF j.kind = "hold"
         THEN /\ job' = [job EXCEPT ![s].id =
                           IF j.id # NoId /\ StillDraft(j.id) THEN j.id ELSE NoId]
              /\ UNCHANGED seen
         ELSE /\ Live(j.id)
              /\ seen' = [seen EXCEPT ![s] = [status |-> status[j.id],
                                              returned |-> returned[j.id], qty |-> qty[j.id]]]
              /\ UNCHANGED job
      /\ UNCHANGED <<row, goods, lastNo, number>>

\* A row is locked while a return works on it.
\* Mutant: the sale is read without FOR UPDATE.
UnlockedAlways(i) == TRUE

Unlocked(i) == \A u \in Sessions : ~(phase[u] = "locked" /\ job[u].id = i)

\* ... and write it.  The draft is rewritten as "Held" by its id; its new lines
\* cannot be inserted when the row has gone.
SaveDraft(s) ==
  LET j == job[s]
  IN  /\ End(s, "hold")
      /\ \E i \in Ids :
           /\ IF j.id = NoId THEN status[i] = "Unused" ELSE i = j.id /\ Live(i)
           /\ status' = [status EXCEPT ![i] = "Held"]
           /\ qty' = [qty EXCEPT ![i] = j.qty]
      /\ UNCHANGED <<client, resumed, receiptNo, returned, goods, lastNo>>

\* An UPDATE by id: no row, no effect.
Cancel(s) ==
  LET i == job[s].id
  IN  /\ End(s, "cancel")
      /\ Unlocked(i)
      /\ seen[s].status # "Cancelled"
      /\ seen[s].returned = 0
      /\ status' = IF Live(i) THEN [status EXCEPT ![i] = "Cancelled"] ELSE status
      /\ UNCHANGED <<client, resumed, receiptNo, qty, returned, goods, lastNo>>

\* Mutant: a sale with returns can be deleted.
RemoveReturned(s) ==
  LET i == job[s].id
  IN  /\ End(s, "remove")
      /\ Unlocked(i)
      /\ status' = [status EXCEPT ![i] = "Deleted"]
      /\ out' = IF seen[s].status = "Held" THEN out ELSE [out EXCEPT ![i] = @ - seen[s].qty]
      /\ UNCHANGED <<client, resumed, receiptNo, qty, returned, lastNo>>

\* A parked cart is only a row; otherwise the lines it read go back on the shelf.
Remove(s) ==
  LET i == job[s].id
  IN  /\ End(s, "remove")
      /\ Unlocked(i)
      /\ seen[s].returned = 0
      /\ status' = [status EXCEPT ![i] = "Deleted"]
      /\ out' = IF seen[s].status = "Held" THEN out ELSE [out EXCEPT ![i] = @ - seen[s].qty]
      /\ UNCHANGED <<client, resumed, receiptNo, qty, returned, lastNo>>

------------------------------------------------------------------------------
\* SaleReturnService.create: SELECT ... FOR UPDATE, decide, write.

LockSale(s) ==
  LET i == job[s].id
  IN  /\ Step(s, "lock", "locked")
      /\ Unlocked(i)
      /\ status[i] = "Completed"
      /\ seen' = [seen EXCEPT ![s] = [status |-> status[i], returned |-> returned[i],
                                    qty |-> qty[i]]]
      /\ UNCHANGED <<row, goods, lastNo, job, number>>

Return(s) ==
  LET i == job[s].id
      n == job[s].qty
  IN  /\ End(s, "locked")
      /\ n <= qty[i] - seen[s].returned
      /\ returned' = [returned EXCEPT ![i] = @ + n]
      /\ out' = [out EXCEPT ![i] = @ - n]
      /\ UNCHANGED <<status, client, resumed, receiptNo, qty, lastNo>>

Next == \E s \in Sessions : \/ Begin(s) \/ GiveUp(s)
                            \/ FindSale(s) \/ FindsSale(s)
                            \/ TakeNumber(s) \/ Sell(s) \/ LosesRace(s)
                            \/ LookAt(s) \/ SaveDraft(s) \/ Cancel(s) \/ Remove(s)
                            \/ LockSale(s) \/ Return(s)

Spec == Init /\ [][Next]_vars

------------------------------------------------------------------------------
\* Properties.

Statuses == {"Unused", "Held", "Completed", "Cancelled", "Deleted"}
Phases == {"idle", "find", "number", "sell", "look", "hold", "cancel", "remove",
           "lock", "locked"}

TypeOK == /\ status \in [Ids -> Statuses]
          /\ client \in [Ids -> Clients \cup {NoClient}]
          /\ resumed \in [Ids -> Ids \cup {NoId}]
          /\ receiptNo \in [Ids -> Nat]
          /\ qty \in [Ids -> Nat]
          /\ returned \in [Ids -> Nat]
          /\ out \in [Ids -> Int]
          /\ lastNo \in Nat
          /\ phase \in [Sessions -> Phases]
          /\ job \in [Sessions -> [kind : AllHandlers \cup {"none"}, id : Ids \cup {NoId},
                                   client : Clients \cup {NoClient}, qty : Nat]]
          /\ seen \in [Sessions -> [status : Statuses, returned : Nat, qty : Nat]]
          /\ number \in [Sessions -> Nat]

\* A till that resends a sale, even while the first try is still running, never
\* rings it up twice ("the unique index is the real guard").
OneSalePerClient ==
  \A i, k \in Ids : Live(i) /\ Live(k) /\ client[i] = client[k] /\ client[i] # NoClient => i = k

\* Concurrent tills get "distinct, gap-free-on-success numbers": the sales ever
\* committed are numbered 1, 2, ... lastNo.
ReceiptNumbersGapFree ==
  /\ \A i, k \in Ids : IsSale(i) /\ receiptNo[i] = receiptNo[k] => i = k
  /\ \A n \in 1..lastNo : \E i \in Ids : receiptNo[i] = n
  /\ \A i \in Ids : receiptNo[i] <= lastNo

\* Two tills cannot return the same units: no more comes back than was sold.
ReturnedWithinSold == \A i \in Ids : returned[i] <= qty[i]

\* A sale's goods are out for exactly what its row says: it took its line once,
\* and a return or a deletion brought it back once.
GoodsFollowSales ==
  \A i \in Ids : IsSale(i) => out[i] = IF status[i] = "Deleted" THEN 0 ELSE qty[i] - returned[i]

\* "A parked cart is only a saved cart - no stock, money or customer was ever
\* touched" (order.service.ts:1994).
CartsHoldNoGoods == \A i \in Ids : ~IsSale(i) => out[i] = 0

\* A parked cart is dropped with the sale it became "so it can't be resumed or
\* completed twice" (order.service.ts:975).
CartSoldOnce ==
  \A i, k \in Ids : IsSale(i) /\ IsSale(k) /\ resumed[i] = resumed[k] /\ resumed[i] # NoId => i = k

\* A sale with returns cannot be cancelled or deleted any more
\* (order.service.ts:1779, ORDER_HAS_RETURNS).
ReturnedSalesStay ==
  \A i \in Ids : returned[i] > 0 => status[i] = "Completed"

\* The inductive invariant behind the theorems of TillSaleProofs.

CounterExclusive == \A s, u \in Sessions : phase[s] = "sell" /\ phase[u] = "sell" => s = u
LockExclusive ==
  \A s, u \in Sessions : phase[s] = "locked" /\ phase[u] = "locked" /\ job[s].id = job[u].id => s = u

\* What a transaction read under a lock is still so.
SeenCurrent ==
  \A s \in Sessions :
    /\ phase[s] = "sell" => number[s] = lastNo + 1
    /\ phase[s] = "locked" => /\ job[s].id \in Ids
                              /\ seen[s].returned = returned[job[s].id]

\* Rows before they exist, and drafts, have no number, no client id, no returns.
Blank == \A i \in Ids : /\ ~IsSale(i) => client[i] = NoClient /\ returned[i] = 0
                        /\ status[i] = "Unused" => ~IsSale(i) /\ qty[i] = 0
                        /\ status[i] = "Held" => ~IsSale(i)

\* Whom the handlers that write by id look at.
OnPlan == \A s \in Sessions :
            /\ phase[s] \in {"cancel", "remove"} => job[s].id \in Ids /\ status[job[s].id] # "Unused"
            /\ phase[s] = "hold" /\ job[s].id # NoId => ~IsSale(job[s].id) /\ status[job[s].id] # "Unused"
            /\ phase[s] \in {"lock", "locked"} => job[s].id \in Ids /\ IsSale(job[s].id)
            /\ phase[s] = "look" => /\ job[s].kind \in {"hold", "cancel", "remove"}
                                    /\ job[s].kind = "hold" /\ job[s].id # NoId =>
                                         ~IsSale(job[s].id) /\ status[job[s].id] # "Unused"
                                    /\ job[s].kind # "hold" =>
                                         job[s].id \in Ids /\ status[job[s].id] # "Unused"

IInv == /\ TypeOK
        /\ CounterExclusive /\ LockExclusive /\ SeenCurrent /\ Blank /\ OnPlan
        /\ OneSalePerClient /\ ReceiptNumbersGapFree /\ ReturnedWithinSold
=============================================================================
