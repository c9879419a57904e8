---------------------------- MODULE DefectiveStore ----------------------------
(***************************************************************************)
(* The store of defective goods: units come in from the shelf, from        *)
(* customers and, once, as opening stock; they are written off, put back   *)
(* on sale, exchanged, or handed to the supplier: off a note's debt, for   *)
(* credit, or for cash.  A hand-over can be undone.  Its lots are locked   *)
(* before they are counted, so a handler that only moves goods is one      *)
(* step; a hand-over against a note reads the note before its transaction. *)
(* A document has one line.                                                *)
(***************************************************************************)
EXTENDS Delivery

CONSTANTS MaxDefects,   \* bound: defective lots ever opened
          MaxHandOvers  \* bound: hand-overs ever made

VARIABLES
  defects,    \* defective_lots, oldest first
  handOvers,  \* supplier_returns with source 'defective', and their movements
  booked,     \* SUM of the write-off expenses
  broken      \* units that ever came in and were not a loss before

store == <<defects, handOvers, booked, broken>>
storeVars == <<store, account, books, goods, desk>>

StoreInit == DeliveryInit /\ defects = <<>> /\ handOvers = <<>> /\ booked = 0 /\ broken = 0

InStore(b) == {k \in DOMAIN defects : defects[k].branch = b}
DefectsIn(set) == SumFunction([k \in set |-> defects[k].left])
Defective(b) == DefectsIn(InStore(b))

PutInStore(b, q, source) ==
  /\ Len(defects) < MaxDefects
  /\ defects' = Append(defects, [branch |-> b, left |-> q, source |-> source])

\* consumeDefectiveLotsTx(): oldest lot first, and of it the part that was not
\* yet a loss.
TakeDefect(k, b, q) ==
  IF k \in InStore(b)
    THEN Least(defects[k].left, OrZero(q - DefectsIn({j \in InStore(b) : j < k})))
    ELSE 0

TakeFromStore(b, q) ==
  /\ q <= Defective(b)
  /\ defects' = [k \in DOMAIN defects |-> [defects[k] EXCEPT !.left = @ - TakeDefect(k, b, q)]]

\* Mutant: opening stock is a loss like any other.
LossOfAll(b, q) == q

Loss(b, q) == LET new == {k \in InStore(b) : defects[k].source # "opening"}
              IN  SumFunction([k \in new |-> TakeDefect(k, b, q)])

------------------------------------------------------------------------------
\* moveFromShelf(), opening(), and the till's return of a defective unit

FromShelf ==
  \E b \in Branches, q \in Cuts :
    LET which == OnShelf(b)
    IN  /\ q <= shelf[b]
        /\ lots' = [k \in DOMAIN lots |-> [lots[k] EXCEPT !.left = @ - Take(k, which, q),
                                                          !.off = @ + Take(k, which, q)]]
        /\ shelf' = [shelf EXCEPT ![b] = @ - q]
        /\ stock' = stock - q
        /\ PutInStore(b, q, "shelf")
        /\ broken' = broken + q
        /\ UNCHANGED <<handOvers, booked, account, books, desk>>

FromCustomer ==
  \E b \in Branches, q \in Cuts :
    /\ PutInStore(b, q, "customer_return")
    /\ broken' = broken + q
    /\ UNCHANGED <<handOvers, booked, account, books, goods, desk>>

OpeningStore ==
  \E b \in Branches, q \in Cuts :
    /\ PutInStore(b, q, "opening")
    /\ UNCHANGED <<handOvers, booked, broken, account, books, goods, desk>>

\* writeOff(): what was not a loss before becomes one now.
WriteOff ==
  \E b \in Branches, q \in Cuts :
    /\ TakeFromStore(b, q)
    /\ booked' = booked + Loss(b, q)
    /\ UNCHANGED <<handOvers, broken, account, books, goods, desk>>

\* toSale() and exchange(): a fresh lot on the shelf.
BackOnShelf ==
  \E b \in Branches, q \in Cuts :
    /\ TakeFromStore(b, q)
    /\ Len(lots) < MaxLots
    /\ lots' = Append(lots, Lot(0, 0, b, q))
    /\ shelf' = [shelf EXCEPT ![b] = @ + q]
    /\ stock' = stock + q
    /\ UNCHANGED <<handOvers, booked, broken, account, books, desk>>

------------------------------------------------------------------------------
\* supplierReturn() and settle()

HandOver(way, r, p, b, q, value, row) ==
  /\ TakeFromStore(b, q)
  /\ Len(handOvers) < MaxHandOvers
  /\ handOvers' = Append(handOvers, [way |-> way, note |-> r, supplier |-> p, branch |-> b,
                                     units |-> q, value |-> value, row |-> row, undone |-> FALSE])
  /\ UNCHANGED <<booked, broken, goods>>

\* moneyReturnTx(): the value is what was agreed with the agent.
HandOverForCredit ==
  \E b \in Branches, p \in Suppliers, q \in Cuts, x \in Remits :
    /\ HandOver("credit", 0, p, b, q, x, 0)
    /\ credit' = [credit EXCEPT ![p] = @ + x]
    /\ advanced' = advanced + x
    /\ UNCHANGED <<notes, remitted, books, desk>>

HandOverForCash ==
  \E b \in Branches, p \in Suppliers, q \in Cuts, x \in Remits, a \in ShopAccounts :
    /\ HandOver("cash", 0, p, b, q, x, Len(rows) + 1)
    /\ Write(<<Leg("income", "supplier_refund", a, x, 0)>>)
    /\ UNCHANGED <<account, desk>>

\* debtReturnTx(): the note is read, then locked; its debt must cover it.
LookToHandOver(s) ==
  \E r \in Notes, b \in Branches, q \in Cuts :
    /\ notes[r].status = "received"
    /\ Enter(s, "hand", [kind |-> "hand", note |-> r, branch |-> b, units |-> q], notes[r])
    /\ UNCHANGED <<store, account, books, goods>>

\* Mutant: the debt is not compared with the value.
DebtAlways(r, q) == TRUE

DebtCovers(r, q) == Owed(r) > 0 /\ q <= Owed(r)

HandOverOffDebt(s) ==
  LET r == job[s].note
      q == job[s].units
  IN  /\ Leave(s, "hand")
      /\ There(r) /\ DebtCovers(r, q)
      /\ HandOver("debt", r, seen[s].supplier, job[s].branch, q, q, 0)
      /\ notes' = [notes EXCEPT ![r].sentBack = @ + q, ![r].returns = TRUE]
      /\ UNCHANGED <<remitted, credit, advanced, books>>

------------------------------------------------------------------------------
\* cancelSupplierReturn(): the settlement is reversed, the goods come back.

CreditStill(p, x) == credit[p] >= x

UndoHandOver ==
  \E n \in DOMAIN handOvers :
    LET h == handOvers[n]
    IN  /\ ~h.undone
        /\ PutInStore(h.branch, h.units, "supplier_cancel")
        /\ handOvers' = [handOvers EXCEPT ![n].undone = TRUE]
        /\ \/ /\ h.way = "credit"
              /\ CreditStill(h.supplier, h.value)
              /\ credit' = [credit EXCEPT ![h.supplier] = @ - h.value]
              /\ advanced' = advanced - h.value
              /\ UNCHANGED <<notes, remitted, books>>
           \/ /\ h.way = "cash"
              /\ CanReverse(h.row, FALSE, FALSE) /\ WriteReversal(h.row)
              /\ UNCHANGED account
           \/ /\ h.way = "debt"
              /\ notes' = [notes EXCEPT ![h.note].sentBack = OrZero(@ - h.value)]
              /\ UNCHANGED <<remitted, credit, advanced, books>>
        /\ UNCHANGED <<booked, broken, goods, desk>>

Deliver == DeliveryNext /\ UNCHANGED store

DefectsNext ==
  \/ FromShelf \/ FromCustomer \/ OpeningStore \/ WriteOff \/ BackOnShelf
  \/ HandOverForCredit \/ HandOverForCash \/ UndoHandOver
  \/ \E s \in Sessions : LookToHandOver(s) \/ HandOverOffDebt(s)

StoreNext == DefectsNext \/ Deliver

StoreSpec == StoreInit /\ [][StoreNext]_storeVars

------------------------------------------------------------------------------
\* Goods are a loss once: what is written off is never more than what came in
\* as goods, opening stock having been a loss before it came.
LossBookedOnce == booked <= broken

\* Defective units are taken off a note's debt, not beyond it: paid for and
\* returned that way it is never settled for more than its total.
DebtNotOverdrawn ==
  \A r \in Notes :
    LET standing == {n \in DOMAIN handOvers : handOvers[n].note = r /\ ~handOvers[n].undone}
        handed == SumFunction([n \in standing |-> handOvers[n].value])
    IN  notes[r].sentBack = handed => notes[r].paid + handed <= notes[r].total

\* A refund in cash and its kirim stand or fall together.
RefundsInLedger ==
  LET cash == {n \in DOMAIN handOvers : handOvers[n].way = "cash"}
  IN  /\ \A n \in cash : /\ rows[handOvers[n].row].amount = handOvers[n].value
                         /\ rows[handOvers[n].row].cancelled = handOvers[n].undone
      /\ \A m, n \in cash : handOvers[m].row = handOvers[n].row => m = n

\* The ledger tells of the money that went to suppliers and came from them.
LedgerTrue == PaymentsInLedger /\ RefundsInLedger
=============================================================================
