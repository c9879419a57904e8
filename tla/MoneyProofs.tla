------------------------------ MODULE MoneyProofs ------------------------------
(***************************************************************************)
(* Theorems about the money of customers and employees, and about losses   *)
(* and debts of the store of defective goods, for any sales, baskets,      *)
(* tenders, staff, notes, accounts and number of requests at once.         *)
(*                                                                         *)
(* Customers: a return refunds no more than the sale and its debt brought  *)
(* in.  The sale's lock keeps what it has settled; nothing but a person's  *)
(* edit or a return changes a debt's amount, so the amount a return read   *)
(* is the one it overwrites; and what it read as paid was received, even   *)
(* if an entry was corrected since.  So the debt is always what the sale   *)
(* left to pay less what returns wrote off, and once money goes back, what *)
(* is left of it was received.                                             *)
(*                                                                         *)
(* Their parts: rounding adds at most half a coin for a unit to what a     *)
(* line has come to, and half a coin for a line to what a return comes to, *)
(* so the returns of a sale stay within its total and a coin for a unit    *)
(* (NetFits); the last one takes what the others left.                     *)
(*                                                                         *)
(* Employees: the payments that stand and the payroll expenses that are    *)
(* not cancelled are the same.  An entry to undo is read outside its       *)
(* transaction, but a payment's row is its own from the moment both are    *)
(* written (rows and entries only grow, an entry's place is never given to *)
(* another), so by the time the undo commits either the entry it read      *)
(* still stands, or it is gone and its row is cancelled, and then the undo *)
(* is refused.                                                             *)
(*                                                                         *)
(* One request at a time, drawers, wages, points and debts add up: what    *)
(* the request read is still so when it commits, and a commit changes a    *)
(* sum by one row or by one entry, or a debt with its status.              *)
(*                                                                         *)
(* The store of defective goods: what was booked as a loss, what could     *)
(* still be and what was handed over is within what came in (LossOK); what *)
(* was handed over off a note's debt was sent back, within its total       *)
(* (DebtOK).  Both rest on what the code does not check, named as          *)
(* hypotheses where they are used.                                         *)
(***************************************************************************)
EXTENDS LedgerProofs, MCMoney

Receipts == [state : {"sold", "deleted"}, basket : Baskets, total : Nat, redeemed : Nat,
             earned : Nat, down : Nat]

\* Points come back only as far as they were spent.
PointsCapped(i) == Sold(i) => restored[i] <= receipt[i].redeemed

\* Money goes back only once the debt and the points are settled.
MoneyLast(i) ==
  Sold(i) /\ ~byHand[i] /\ refunded[i] > 0 =>
    owed[i] <= received[i] /\ restored[i] = receipt[i].redeemed

\* While nobody edits the debt, it is what the sale left to pay less what
\* returns wrote off it.
DebtFollowsSale(i) ==
  Sold(i) /\ ~byHand[i] =>
    returned[i] - restored[i] - refunded[i] + owed[i]
      >= receipt[i].total - receipt[i].redeemed - receipt[i].down - Half

Untouched(i) == receipt[i] = NoReceipt => returned[i] = 0 /\ restored[i] = 0 /\ refunded[i] = 0

Typed(i) ==
  /\ receipt[i] \in Receipts \union {NoReceipt}
  /\ returned[i] \in Int /\ restored[i] \in Int /\ refunded[i] \in Int
  /\ owed[i] \in Nat /\ received[i] \in Nat /\ paid[i] \in Int /\ paid[i] <= received[i]
  /\ \A p \in payments[i] : p.amount \in Nat
  /\ ~HasDebt(i) => owed[i] = 0

Books(i) == /\ Typed(i) /\ Untouched(i)
            /\ PointsCapped(i) /\ MoneyLast(i) /\ DebtFollowsSale(i)

\* What a request under way holds.
Reading(s) ==
  LET i == job[s].id
      n == seen[s]
  IN  phase[s] = "settle" =>
        /\ i \in Sales /\ Sold(i)
        /\ n.owed \in Int /\ n.paid \in Int /\ n.paid <= received[i]
        /\ ~byHand[i] => n.owed = owed[i] /\ (n.standing = "none" <=> ~HasDebt(i))

Working(s) ==
  /\ phase[s] \in {"pay", "unpay", "sum", "mark", "moves", "claw", "erase"} => job[s].id \in Sales
  /\ phase[s] = "pay" => job[s].amount \in Nat
  /\ phase[s] = "mark" => seen[s].status # "none"
  /\ phase[s] \in {"moves", "claw", "erase"} => receipt[job[s].id] # NoReceipt

\* One return of a sale at a time.
OneReturn == \A s, t \in Sessions :
               phase[s] = "settle" /\ phase[t] = "settle" /\ job[s].id = job[t].id => s = t

Shaped == /\ DOMAIN receipt = Sales /\ DOMAIN returned = Sales /\ DOMAIN restored = Sales
          /\ DOMAIN refunded = Sales /\ DOMAIN owed = Sales /\ DOMAIN standing = Sales
          /\ DOMAIN payments = Sales /\ DOMAIN paid = Sales /\ DOMAIN received = Sales
          /\ DOMAIN byHand = Sales
          /\ DOMAIN phase = Sessions /\ DOMAIN job = Sessions /\ DOMAIN seen = Sessions

CreditOK == /\ Shaped
            /\ \A i \in Sales : Books(i)
            /\ \A s \in Sessions : Reading(s) /\ Working(s)
            /\ OneReturn

------------------------------------------------------------------------------
LEMMA HalfIsSmall == Half \in Nat
  BY UnitAssumption DEF Half

\* The waterfall, of any amounts: what is written off, given back and refunded is the value.
LEMMA Waterfall ==
  ASSUME NEW value \in Nat, NEW debtLeft \in Nat, NEW pointsLeft \in Nat
  PROVE  LET way == Settlement(value, debtLeft, pointsLeft)
         IN  /\ way.debt \in Nat /\ way.points \in Nat /\ way.refund \in Nat
             /\ way.debt <= debtLeft /\ way.points <= pointsLeft
             /\ way.debt + way.points + way.refund = value
             /\ way.refund > 0 => way.debt = debtLeft /\ way.points = pointsLeft
PROOF
  <1> DEFINE d == IF debtLeft <= value THEN debtLeft ELSE value
             p == IF pointsLeft <= value - d THEN pointsLeft ELSE value - d
  <1>1. d \in Nat /\ d <= debtLeft /\ d <= value /\ (d # debtLeft => d = value)
    OBVIOUS
  <1> HIDE DEF d
  <1>2. /\ p \in Nat /\ p <= pointsLeft /\ p <= value - d
        /\ (p # pointsLeft => p = value - d)
    BY <1>1
  <1>3. Settlement(value, debtLeft, pointsLeft) = [debt |-> d, points |-> p, refund |-> value - d - p]
    BY DEF Settlement, d
  <1> HIDE DEF p
  <1> QED
    BY <1>1, <1>2, <1>3

\* Every tender but credit covers the bill, give or take half a so'm.
LEMMA TenderCovers ==
  ASSUME NEW t \in Tenders, NEW payable \in Int, TenderFits(t, payable)
  PROVE  /\ Credit(t, payable, Booked(t, payable)) \in Int
         /\ Credit(t, payable, Booked(t, payable)) >= 0
         /\ Credit(t, payable, Booked(t, payable)) >= payable - Booked(t, payable) - Half
PROOF
  <1>1. t.credit \in BOOLEAN /\ t.cash \in Nat /\ t.card \in Nat
    BY SalesAssumption
  <1>2. Half \in Nat
    BY HalfIsSmall
  <1>3. CASE t.credit
    BY <1>1, <1>2, <1>3 DEF Credit, Booked, OrZero
  <1>4. CASE ~t.credit
    <2>1. Credit(t, payable, Booked(t, payable)) = 0
      BY <1>4 DEF Credit
    <2>2. Booked(t, payable) = t.card + OrZero(Least(t.cash, payable - t.card))
      BY <1>4 DEF Booked
    <2>3. t.card <= payable + Half /\ t.cash + t.card >= payable - Half
      BY <1>4 DEF TenderFits
    <2> QED
      BY <1>1, <1>2, <2>1, <2>2, <2>3 DEF OrZero, Least
  <1> QED
    BY <1>3, <1>4

\* The property, from the books of one sale.
LEMMA BooksCover == ASSUME CreditOK PROVE RefundsWithinPaid
PROOF
  <1> SUFFICES ASSUME NEW i \in Sales, Sold(i), ~byHand[i], refunded[i] > 0
               PROVE  refunded[i] <= receipt[i].down + received[i] + Half
                                      + OrZero(returned[i] - receipt[i].total)
    BY DEF RefundsWithinPaid
  <1>1. /\ owed[i] <= received[i] /\ restored[i] = receipt[i].redeemed
        /\ returned[i] - restored[i] - refunded[i] + owed[i]
             >= receipt[i].total - receipt[i].redeemed - receipt[i].down - Half
    BY DEF CreditOK, Books, MoneyLast, DebtFollowsSale
  <1>2. /\ returned[i] \in Int /\ restored[i] \in Int /\ refunded[i] \in Int
        /\ owed[i] \in Nat /\ received[i] \in Nat
    BY DEF CreditOK, Books, Typed
  <1>3. receipt[i] \in Receipts
    BY DEF CreditOK, Books, Typed, Sold, NoReceipt
  <1>4. receipt[i].total \in Nat /\ receipt[i].redeemed \in Nat /\ receipt[i].down \in Nat
    BY <1>3 DEF Receipts
  <1>5. Half \in Nat
    BY HalfIsSmall
  <1> QED
    BY <1>1, <1>2, <1>4, <1>5 DEF OrZero

------------------------------------------------------------------------------
\* What a step leaves of a sale's books.
SameBut(i) ==
  /\ receipt'[i] = receipt[i] /\ returned'[i] = returned[i] /\ restored'[i] = restored[i]
  /\ refunded'[i] = refunded[i] /\ byHand'[i] = byHand[i]

Alike(i) ==
  /\ SameBut(i)
  /\ owed'[i] = owed[i] /\ payments'[i] = payments[i] /\ paid'[i] = paid[i]
  /\ received'[i] = received[i] /\ (standing'[i] = "none" <=> standing[i] = "none")

LEMMA AlikeKeeps == ASSUME NEW i, Books(i), Alike(i) PROVE Books(i)'
PROOF
  <1> USE DEF Alike, SameBut
  <1>1. Typed(i)'
    BY DEF Books, Typed, HasDebt
  <1>2. Untouched(i)' /\ PointsCapped(i)' /\ MoneyLast(i)' /\ DebtFollowsSale(i)'
    BY DEF Books, Untouched, PointsCapped, MoneyLast, DebtFollowsSale, Sold
  <1> QED
    BY <1>1, <1>2 DEF Books

\* What a return under way counts on.
StillHeld(i) ==
  Sold(i) => /\ Sold(i)'
             /\ received'[i] \in Int /\ received'[i] >= received[i]
             /\ ~byHand'[i] => /\ ~byHand[i] /\ owed'[i] = owed[i]
                               /\ (standing'[i] = "none" <=> standing[i] = "none")

Known == \A i \in Sales : receipt[i] # NoReceipt => receipt'[i] # NoReceipt

LEMMA AlikeHeld == ASSUME CreditOK, NEW i \in Sales, Alike(i) PROVE StillHeld(i)
  BY DEF CreditOK, Books, Typed, Alike, SameBut, StillHeld, Sold

Waits(s) == phase'[s] = phase[s] /\ job'[s] = job[s] /\ seen'[s] = seen[s]

LEMMA Holding ==
  ASSUME CreditOK, NEW s \in Sessions, Waits(s), Known, phase[s] = "settle" => StillHeld(job[s].id)
  PROVE  Reading(s)' /\ Working(s)'
PROOF
  <1>1. Reading(s) /\ Working(s)
    BY DEF CreditOK
  <1>2. Working(s)'
    BY <1>1 DEF Working, Waits, Known
  <1>3. Reading(s)'
    <2> SUFFICES ASSUME phase'[s] = "settle" PROVE Reading(s)'
      BY DEF Reading
    <2> DEFINE i == job[s].id
               n == seen[s]
    <2>1. /\ i \in Sales /\ Sold(i)
          /\ n.owed \in Int /\ n.paid \in Int /\ n.paid <= received[i]
          /\ ~byHand[i] => n.owed = owed[i] /\ (n.standing = "none" <=> ~HasDebt(i))
      BY <1>1 DEF Reading, Waits
    <2>2. /\ Sold(i)'
          /\ received'[i] \in Int /\ received'[i] >= received[i]
          /\ ~byHand'[i] => /\ ~byHand[i] /\ owed'[i] = owed[i]
                            /\ (standing'[i] = "none" <=> standing[i] = "none")
      BY <2>1 DEF Waits, StillHeld
    <2>3. received[i] \in Int
      BY <2>1 DEF CreditOK, Books, Typed
    <2>4. n.paid <= received'[i]
      BY <2>1, <2>2, <2>3
    <2> QED
      BY <2>1, <2>2, <2>4 DEF Reading, Waits, HasDebt, Sold
  <1> QED
    BY <1>2, <1>3

DeskShaped == DOMAIN phase = Sessions /\ DOMAIN job = Sessions /\ DOMAIN seen = Sessions

LEMMA OneMoves ==
  ASSUME CreditOK, NEW s \in Sessions, NEW a, NEW b, NEW c,
         \/ Enter(s, a, b, c) \/ Proceed(s, a, b, c) \/ Leave(s, a)
  PROVE  DeskShaped' /\ \A t \in Sessions \ {s} : Waits(t)
  BY DEF CreditOK, Shaped, DeskShaped, Enter, Proceed, Leave, Waits

LEMMA StillOne ==
  ASSUME CreditOK, NEW s \in Sessions, \A t \in Sessions \ {s} : Waits(t), phase'[s] # "settle"
  PROVE  OneReturn'
  BY DEF CreditOK, OneReturn, Waits

\* A step of one request that does not leave it in a return.
LEMMA RequestStep ==
  ASSUME CreditOK, NEW s \in Sessions, Shaped', \A t \in Sessions \ {s} : Waits(t),
         phase'[s] # "settle", Working(s)', Known, \A i \in Sales : Books(i)',
         \A t \in Sessions \ {s} : phase[t] = "settle" => StillHeld(job[t].id)
  PROVE  CreditOK'
PROOF
  <1>1. OneReturn'
    BY StillOne
  <1>2. Reading(s)'
    BY DEF Reading
  <1>3. \A t \in Sessions : Reading(t)' /\ Working(t)'
    BY <1>2, Holding
  <1> QED
    BY <1>1, <1>3 DEF CreditOK

\* A step of no request.
LEMMA DirectStep ==
  ASSUME CreditOK, Shaped', \A t \in Sessions : Waits(t), Known, \A i \in Sales : Books(i)',
         \A t \in Sessions : phase[t] = "settle" => StillHeld(job[t].id)
  PROVE  CreditOK'
PROOF
  <1>1. OneReturn'
    BY DEF CreditOK, OneReturn, Waits
  <1>2. \A t \in Sessions : Reading(t)' /\ Working(t)'
    BY Holding
  <1> QED
    BY <1>1, <1>2 DEF CreditOK

\* Whoever waits in a return waits on a sale that is sold.
LEMMA HeldSales ==
  ASSUME CreditOK, NEW t \in Sessions, phase[t] = "settle"
  PROVE  job[t].id \in Sales /\ Sold(job[t].id)
  BY DEF CreditOK, Reading

------------------------------------------------------------------------------
\* The actions.
LEMMA SellKeeps == ASSUME CreditOK, NEW i \in Sales, Sell(i) PROVE CreditOK'
PROOF
  <1>1. PICK b \in Baskets, d \in Discounts, t \in Tenders, asked \in Redeems : RingUp(i, b, d, t, asked)
    BY DEF Sell
  <1> DEFINE total == Discounted(Subtotal(b), d)
             use == PointsSpent(asked, total)
             down == Booked(t, total - use)
             onTab == Credit(t, total - use, down)
             earned == Cashback(total)
             r == [state |-> "sold", basket |-> b, total |-> total,
                   redeemed |-> use, earned |-> earned, down |-> down]
  <1>2. receipt[i] = NoReceipt /\ ~HasDebt(i)
    BY <1>1 DEF RingUp
  <1>3. {total, use, down, earned} \subseteq 0..MaxMoney
    BY <1>1 DEF RingUp
  <1>4. TenderFits(t, total - use)
    BY <1>1 DEF RingUp
  <1>5. /\ receipt' = [receipt EXCEPT ![i] = r]
        /\ owed' = [owed EXCEPT ![i] = onTab]
        /\ standing' = [standing EXCEPT ![i] = IF onTab > 0 THEN "Pending" ELSE "none"]
        /\ UNCHANGED <<returned, restored, refunded, payments, paid, received, byHand, desk>>
    BY <1>1 DEF RingUp
  <1>6. total - use \in Int
    <2> HIDE DEF total, use, down, earned
    <2> QED
      BY <1>3
  <1>7. onTab \in Int /\ onTab >= 0 /\ onTab >= (total - use) - down - Half
    <2> DEFINE payable == total - use
    <2> HIDE DEF payable
    <2>1. /\ Credit(t, payable, Booked(t, payable)) \in Int
          /\ Credit(t, payable, Booked(t, payable)) >= 0
          /\ Credit(t, payable, Booked(t, payable)) >= payable - Booked(t, payable) - Half
      BY <1>4, <1>6, TenderCovers DEF payable
    <2> QED
      BY <2>1 DEF payable
  <1> HIDE DEF total, use, down, onTab, earned
  <1>8. /\ total \in Nat /\ use \in Nat /\ down \in Nat /\ earned \in Nat
    BY <1>3
  <1>9. /\ r \in Receipts /\ r.state = "sold" /\ r.total = total /\ r.redeemed = use /\ r.down = down
    BY <1>8 DEF Receipts
  <1> HIDE DEF r
  <1>10. /\ receipt'[i] = r /\ owed'[i] = onTab
         /\ (onTab > 0 => standing'[i] = "Pending") /\ (~(onTab > 0) => standing'[i] = "none")
         /\ \A k \in Sales \ {i} : receipt'[k] = receipt[k] /\ owed'[k] = owed[k] /\ standing'[k] = standing[k]
         /\ DOMAIN receipt' = Sales /\ DOMAIN owed' = Sales /\ DOMAIN standing' = Sales
    BY <1>5 DEF CreditOK, Shaped
  <1>11. Shaped'
    BY <1>5, <1>10 DEF CreditOK, Shaped, desk
  <1>12. \A k \in Sales \ {i} : Alike(k)
    BY <1>5, <1>10 DEF Alike, SameBut
  <1>13. Books(i)'
    <2>1. /\ returned[i] = 0 /\ restored[i] = 0 /\ refunded[i] = 0
      BY <1>2 DEF CreditOK, Books, Untouched
    <2>2. /\ received[i] \in Nat /\ paid[i] \in Int /\ paid[i] <= received[i]
          /\ \A p \in payments[i] : p.amount \in Nat
      BY DEF CreditOK, Books, Typed
    <2>3. Half \in Nat
      BY HalfIsSmall
    <2>4. Typed(i)'
      BY <1>5, <1>7, <1>9, <1>10, <2>1, <2>2 DEF Typed, HasDebt
    <2>5. Untouched(i)'
      BY <1>5, <2>1 DEF Untouched
    <2>6. PointsCapped(i)' /\ MoneyLast(i)'
      BY <1>5, <1>8, <1>9, <1>10, <2>1 DEF PointsCapped, MoneyLast
    <2>7. DebtFollowsSale(i)'
      BY <1>5, <1>7, <1>8, <1>9, <1>10, <2>1, <2>3 DEF DebtFollowsSale
    <2> QED
      BY <2>4, <2>5, <2>6, <2>7 DEF Books
  <1>14. \A k \in Sales : Books(k)'
    BY <1>12, <1>13, AlikeKeeps DEF CreditOK
  <1>15. \A q \in Sessions : phase[q] = "settle" => StillHeld(job[q].id)
    <2> SUFFICES ASSUME NEW q \in Sessions, phase[q] = "settle" PROVE StillHeld(job[q].id)
      OBVIOUS
    <2>1. job[q].id \in Sales \ {i}
      BY <1>2, HeldSales DEF Sold, NoReceipt
    <2> QED
      BY <1>12, <2>1, AlikeHeld
  <1>16. Known
    BY <1>2, <1>10 DEF Known
  <1>17. \A q \in Sessions : Waits(q)
    BY <1>5 DEF desk, Waits
  <1> QED
    BY <1>11, <1>14, <1>15, <1>16, <1>17, DirectStep

\* A step that leaves every sale's books as they are, but for a mark on a debt.
LEMMA NothingMoves ==
  ASSUME CreditOK, UNCHANGED <<order, owed, payments, paid, received, byHand>>,
         DOMAIN standing' = Sales,
         \A i \in Sales : standing'[i] = "none" <=> standing[i] = "none"
  PROVE  /\ \A i \in Sales : Books(i)' /\ StillHeld(i)
         /\ Known
         /\ DeskShaped' => Shaped'
PROOF
  <1>1. UNCHANGED <<receipt, returned, restored, refunded>>
    BY DEF order
  <1>2. \A i \in Sales : Alike(i)
    BY <1>1 DEF Alike, SameBut
  <1>3. \A i \in Sales : Books(i)' /\ StillHeld(i)
    BY <1>2, AlikeKeeps, AlikeHeld DEF CreditOK
  <1>4. Known
    BY <1>1 DEF Known
  <1>5. DeskShaped' => Shaped'
    BY <1>1 DEF CreditOK, Shaped, DeskShaped
  <1> QED
    BY <1>3, <1>4, <1>5

LEMMA MarkedIsAlike == \A i \in Sales : Marked[i] = "none" <=> standing[i] = "none"
  BY DEF Marked

LEMMA AllWait == ASSUME CreditOK, UNCHANGED desk PROVE DeskShaped' /\ \A s \in Sessions : Waits(s)
  BY DEF CreditOK, Shaped, DeskShaped, desk, Waits

LEMMA MarkingKeeps ==
  ASSUME CreditOK, ListDebts \/ \E i \in Sales : DueDatePasses(i)
  PROVE  CreditOK'
PROOF
  <1>1. /\ UNCHANGED <<order, owed, payments, paid, received, byHand, desk>>
        /\ standing' = standing \/ standing' = Marked
    BY DEF ListDebts, DueDatePasses
  <1>2. DOMAIN standing' = Sales /\ \A i \in Sales : standing'[i] = "none" <=> standing[i] = "none"
    BY <1>1, MarkedIsAlike DEF Marked, CreditOK, Shaped
  <1>3. DeskShaped' /\ \A s \in Sessions : Waits(s)
    BY <1>1, AllWait
  <1>4. /\ \A i \in Sales : Books(i)' /\ StillHeld(i)
        /\ Known /\ Shaped'
    BY <1>1, <1>2, <1>3, NothingMoves
  <1> QED
    BY <1>3, <1>4, HeldSales, DirectStep

\* A debt lent, edited or forgiven: from then on its amount is a person's.
LEMMA ByHandKeeps ==
  ASSUME CreditOK, NEW i \in Sales, Lend(i) \/ EditDebt(i) \/ ForgiveDebt(i)
  PROVE  CreditOK'
PROOF
  <1>1. /\ UNCHANGED <<receipt, returned, restored, refunded, received, desk>>
        /\ owed'[i] \in Nat /\ (standing'[i] = "none" => owed'[i] = 0)
        /\ \A k \in Sales \ {i} : /\ owed'[k] = owed[k] /\ byHand'[k] = byHand[k]
                                  /\ payments'[k] = payments[k] /\ paid'[k] = paid[k]
                                  /\ standing'[k] = "none" <=> standing[k] = "none"
        /\ paid'[i] \in {paid[i], 0} /\ (payments'[i] = payments[i] \/ payments'[i] = {})
        /\ byHand'[i] \/ receipt[i] = NoReceipt
        /\ DOMAIN owed' = Sales /\ DOMAIN standing' = Sales /\ DOMAIN payments' = Sales
        /\ DOMAIN paid' = Sales /\ DOMAIN byHand' = Sales
    <2>1. CASE Lend(i)
      BY <2>1, SalesAssumption DEF Lend, order, CreditOK, Shaped
    <2>2. CASE EditDebt(i)
      <3>1. Marked[i] # "none"
        BY <2>2, MarkedIsAlike DEF EditDebt, HasDebt
      <3>2. DOMAIN Marked = Sales
        BY DEF Marked
      <3> QED
        BY <2>2, <3>1, <3>2, SalesAssumption, MarkedIsAlike DEF EditDebt, order, CreditOK, Shaped
    <2>3. CASE ForgiveDebt(i)
      <3>1. DOMAIN Marked = Sales
        BY DEF Marked
      <3> QED
        BY <2>3, <3>1, MarkedIsAlike DEF ForgiveDebt, order, CreditOK, Shaped
    <2> QED
      BY <2>1, <2>2, <2>3
  <1>2. \A k \in Sales \ {i} : Alike(k)
    BY <1>1 DEF Alike, SameBut
  <1>3. Books(i)'
    <2>1. Typed(i) /\ Untouched(i) /\ PointsCapped(i)
      BY DEF CreditOK, Books
    <2>2. paid'[i] \in Int /\ paid'[i] <= received[i]
      BY <1>1, <2>1 DEF Typed
    <2>3. Typed(i)'
      BY <1>1, <2>1, <2>2 DEF Typed, HasDebt
    <2>4. Untouched(i)' /\ PointsCapped(i)'
      BY <1>1, <2>1 DEF Untouched, PointsCapped, Sold
    <2>5. MoneyLast(i)' /\ DebtFollowsSale(i)'
      BY <1>1 DEF MoneyLast, DebtFollowsSale, Sold, NoReceipt
    <2> QED
      BY <2>3, <2>4, <2>5 DEF Books
  <1>4. \A k \in Sales : Books(k)'
    BY <1>2, <1>3, AlikeKeeps DEF CreditOK
  <1>5. \A k \in Sales : StillHeld(k)
    <2>1. StillHeld(i)
      <3>1. received[i] \in Nat
        BY DEF CreditOK, Books, Typed
      <3> QED
        BY <1>1, <3>1 DEF StillHeld, Sold, NoReceipt
    <2> QED
      BY <1>2, <2>1, AlikeHeld
  <1>6. Known
    BY <1>1 DEF Known
  <1>7. DeskShaped' /\ \A s \in Sessions : Waits(s)
    BY <1>1, AllWait
  <1>8. Shaped'
    BY <1>1, <1>7 DEF CreditOK, Shaped, DeskShaped
  <1> QED
    BY <1>4, <1>5, <1>6, <1>7, <1>8, HeldSales, DirectStep

\* A request that is let in, or whose note is all that changes.
LEMMA LookingKeeps ==
  ASSUME CreditOK, NEW s \in Sessions,
         \/ LookToPay(s) \/ LookToUnpay(s) \/ SumPaid(s) \/ LookToDelete(s)
         \/ ReadMoves(s) \/ LockCustomer(s) \/ CreditGivesUp(s)
  PROVE  CreditOK'
PROOF
  <1>1. /\ UNCHANGED <<order, owed, payments, paid, received, byHand>>
        /\ standing' = standing \/ standing' = Marked
    BY DEF LookToPay, LookToUnpay, SumPaid, LookToDelete, ReadMoves, LockCustomer, CreditGivesUp, debt
  <1>2. DOMAIN standing' = Sales /\ \A i \in Sales : standing'[i] = "none" <=> standing[i] = "none"
    BY <1>1, MarkedIsAlike DEF Marked, CreditOK, Shaped
  <1>3. /\ \A i \in Sales : Books(i)' /\ StillHeld(i)
        /\ Known /\ (DeskShaped' => Shaped')
    BY <1>1, <1>2, NothingMoves
  <1>4. DOMAIN phase = Sessions /\ DOMAIN job = Sessions /\ DOMAIN seen = Sessions /\ Working(s)
    BY DEF CreditOK, Shaped
  <1>5. /\ DeskShaped' /\ \A t \in Sessions \ {s} : Waits(t)
        /\ phase'[s] # "settle" /\ Working(s)'
    <2>1. CASE LookToPay(s)
      <3>1. PICK i \in Sales, a \in Installments :
              Enter(s, "pay", [kind |-> "pay", id |-> i, amount |-> a],
                              [kind |-> "debt", owed |-> owed[i], due |-> due[i]])
        BY <2>1 DEF LookToPay
      <3>2. phase'[s] = "pay" /\ job'[s].id = i /\ job'[s].amount = a
        BY <1>4, <3>1 DEF Enter
      <3>3. a \in Nat
        BY SalesAssumption
      <3> QED
        BY <3>1, <3>2, <3>3, OneMoves DEF Working
    <2>2. CASE LookToUnpay(s)
      <3>1. PICK i \in Sales, p \in UNION {payments[k] : k \in Sales} :
              Enter(s, "unpay", [kind |-> "unpay", id |-> i, payment |-> p],
                                [kind |-> "debt", owed |-> owed[i], due |-> due[i]])
        BY <2>2 DEF LookToUnpay
      <3>2. phase'[s] = "unpay" /\ job'[s].id = i
        BY <1>4, <3>1 DEF Enter
      <3> QED
        BY <3>1, <3>2, OneMoves DEF Working
    <2>3. CASE SumPaid(s)
      <3> DEFINE n == [kind |-> "status",
                       status |-> StandingOf(paid[job[s].id], seen[s].owed, seen[s].due)]
      <3>1. Proceed(s, "sum", "mark", n)
        BY <2>3 DEF SumPaid
      <3>2. n.status # "none"
        BY DEF StandingOf
      <3> HIDE DEF n
      <3>3. phase[s] = "sum" /\ phase'[s] = "mark" /\ job'[s] = job[s] /\ seen'[s] = n
        BY <1>4, <3>1 DEF Proceed
      <3> QED
        BY <1>4, <3>1, <3>2, <3>3, OneMoves DEF Working
    <2>4. CASE LookToDelete(s)
      <3>1. PICK i \in {j \in Sales : Sold(j)} :
              Enter(s, "moves", [kind |-> "delete", id |-> i], NothingSeen)
        BY <2>4 DEF LookToDelete
      <3>2. phase'[s] = "moves" /\ job'[s].id = i
        BY <1>4, <3>1 DEF Enter
      <3>3. receipt'[i] = receipt[i] /\ receipt[i] # NoReceipt
        BY <1>1 DEF order, Sold, NoReceipt
      <3> QED
        BY <3>1, <3>2, <3>3, OneMoves DEF Working
    <2>5. ASSUME NEW here \in {"moves", "claw"}, NEW there \in {"claw", "erase"}, NEW n,
                 Proceed(s, here, there, n)
          PROVE  /\ DeskShaped' /\ \A t \in Sessions \ {s} : Waits(t)
                 /\ phase'[s] # "settle" /\ Working(s)'
      <3>1. phase[s] = here /\ phase'[s] = there /\ job'[s] = job[s]
        BY <1>4, <2>5 DEF Proceed
      <3>2. receipt' = receipt
        BY <1>1 DEF order
      <3> QED
        BY <1>4, <2>5, <3>1, <3>2, OneMoves DEF Working
    <2>6. CASE CreditGivesUp(s)
      <3>1. Leave(s, phase[s])
        BY <2>6 DEF CreditGivesUp, Abandon
      <3>2. phase'[s] = "idle"
        BY <1>4, <3>1 DEF Leave
      <3> QED
        BY <3>1, <3>2, OneMoves DEF Working
    <2> QED
      BY <2>1, <2>2, <2>3, <2>4, <2>5, <2>6 DEF ReadMoves, LockCustomer
  <1> QED
    BY <1>3, <1>5, HeldSales, RequestStep

\* Payments entered and corrected: what was ever received only grows.
LEMMA PaymentKeeps ==
  ASSUME CreditOK, NEW s \in Sessions, EnterPayment(s) \/ DropPayment(s)
  PROVE  CreditOK'
PROOF
  <1>1. /\ phase[s] \in {"pay", "unpay"}
        /\ Proceed(s, phase[s], "sum", seen[s])
        /\ UNCHANGED <<receipt, returned, restored, refunded, owed, standing, byHand>>
    BY DEF EnterPayment, DropPayment, Proceed, order
  <1>a. PICK i \in Sales : i = job[s].id
    BY <1>1 DEF CreditOK, Working
  <1>2. i \in Sales /\ (phase[s] = "pay" => job[s].amount \in Nat)
    BY <1>1 DEF CreditOK, Working
  <1>3. /\ owed[i] \in Nat /\ received[i] \in Nat /\ paid[i] \in Int /\ paid[i] <= received[i]
        /\ \A p \in payments[i] : p.amount \in Nat
    BY <1>2 DEF CreditOK, Books, Typed
  <1>4. DOMAIN phase = Sessions /\ DOMAIN job = Sessions /\ DOMAIN seen = Sessions
    BY DEF CreditOK, Shaped
  <1>5. DeskShaped' /\ \A t \in Sessions \ {s} : Waits(t)
    BY <1>1, OneMoves
  <1>6. phase'[s] = "sum" /\ job'[s] = job[s]
    BY <1>1, <1>4 DEF Proceed
  <1>7. /\ received'[i] \in Nat /\ received'[i] >= received[i]
        /\ paid'[i] \in Int /\ paid'[i] <= received'[i]
        /\ \A p \in payments'[i] : p.amount \in Nat
        /\ \A k \in Sales \ {i} : /\ payments'[k] = payments[k] /\ paid'[k] = paid[k]
                                  /\ received'[k] = received[k]
        /\ DOMAIN payments' = Sales /\ DOMAIN paid' = Sales /\ DOMAIN received' = Sales
    <2>1. CASE EnterPayment(s)
      <3> DEFINE a == job[s].amount
                 row == [no |-> taken[i] + 1, amount |-> a]
      <3>1. /\ payments' = [payments EXCEPT ![i] = @ \cup {row}]
            /\ paid' = [paid EXCEPT ![i] = @ + a]
            /\ received' = [received EXCEPT ![i] = @ + a]
            /\ phase[s] = "pay"
        BY <1>a, <2>1 DEF EnterPayment, Proceed
      <3>2. row.amount = a /\ a \in Nat
        BY <1>2, <3>1
      <3> HIDE DEF a, row
      <3> QED
        BY <1>2, <1>3, <3>1, <3>2 DEF CreditOK, Shaped
    <2>2. CASE DropPayment(s)
      <3>1. /\ payments' = [payments EXCEPT ![i] = @ \ {job[s].payment}]
            /\ paid' = [paid EXCEPT ![i] = IF job[s].payment \in payments[i]
                                      THEN @ - job[s].payment.amount ELSE @]
            /\ received' = received
        BY <1>a, <2>2 DEF DropPayment
      <3>2. job[s].payment \in payments[i] => job[s].payment.amount \in Nat
        BY <1>3
      <3> QED
        BY <1>2, <1>3, <3>1, <3>2 DEF CreditOK, Shaped
    <2> QED
      BY <2>1, <2>2
  <1>8. \A k \in Sales \ {i} : Alike(k)
    BY <1>1, <1>7 DEF Alike, SameBut
  <1>9. Books(i)'
    <2>1. Typed(i) /\ Untouched(i) /\ PointsCapped(i) /\ MoneyLast(i) /\ DebtFollowsSale(i)
      BY <1>2 DEF CreditOK, Books
    <2>2. Typed(i)'
      BY <1>1, <1>7, <2>1 DEF Typed, HasDebt
    <2>3. Untouched(i)' /\ PointsCapped(i)' /\ DebtFollowsSale(i)'
      BY <1>1, <2>1 DEF Untouched, PointsCapped, DebtFollowsSale, Sold
    <2>4. MoneyLast(i)'
      BY <1>1, <1>3, <1>7, <2>1 DEF MoneyLast, Sold
    <2> QED
      BY <2>2, <2>3, <2>4 DEF Books
  <1>10. \A k \in Sales : Books(k)'
    BY <1>8, <1>9, AlikeKeeps DEF CreditOK
  <1>11. \A k \in Sales : StillHeld(k)
    <2>1. StillHeld(i)
      BY <1>1, <1>7 DEF StillHeld, Sold
    <2> QED
      BY <1>8, <2>1, AlikeHeld
  <1>12. Known
    BY <1>1 DEF Known
  <1>13. Shaped'
    BY <1>1, <1>5, <1>7 DEF CreditOK, Shaped, DeskShaped
  <1>14. Working(s)'
    BY <1>a, <1>2, <1>6 DEF Working
  <1> QED
    BY <1>5, <1>6, <1>10, <1>11, <1>12, <1>13, <1>14, HeldSales, RequestStep

\* The status is written over whatever stands there, but never brings a debt back.
LEMMA MarkDebtKeeps == ASSUME CreditOK, NEW s \in Sessions, MarkDebt(s) PROVE CreditOK'
PROOF
  <1> DEFINE i == job[s].id
  <1>1. /\ Leave(s, "mark") /\ phase[s] = "mark"
        /\ standing' = [standing EXCEPT ![i] = IF HasDebt(i) THEN seen[s].status ELSE @]
        /\ UNCHANGED <<order, owed, payments, paid, received, byHand>>
    BY DEF MarkDebt, Leave
  <1>2. i \in Sales /\ seen[s].status # "none"
    BY <1>1 DEF CreditOK, Working
  <1>3. DOMAIN standing' = Sales /\ \A k \in Sales : standing'[k] = "none" <=> standing[k] = "none"
    <2> HIDE DEF i
    <2> QED
      BY <1>1, <1>2 DEF CreditOK, Shaped, HasDebt
  <1>4. /\ \A k \in Sales : Books(k)' /\ StillHeld(k)
        /\ Known /\ (DeskShaped' => Shaped')
    BY <1>1, <1>3, NothingMoves
  <1>5. DeskShaped' /\ \A t \in Sessions \ {s} : Waits(t)
    BY <1>1, OneMoves
  <1>6. phase'[s] = "idle"
    BY <1>1 DEF CreditOK, Shaped, Leave
  <1>7. Working(s)'
    BY <1>6 DEF Working
  <1> QED
    BY <1>4, <1>5, <1>6, <1>7, HeldSales, RequestStep

\* A return that locks its sale notes the debt as it is.
LEMMA TakeBackKeeps == ASSUME CreditOK, NEW s \in Sessions, TakeBack(s) PROVE CreditOK'
PROOF
  <1>0. PICK i \in {j \in Sales : Sold(j)} : \E req \in Requests(i) :
          /\ ~SaleLocked(i)
          /\ Enter(s, "settle", [kind |-> "return", id |-> i, req |-> req],
             [kind |-> "debt", owed |-> owed[i], paid |-> paid[i], standing |-> standing[i]])
          /\ UNCHANGED <<order, debt, points>>
    BY Zenon DEF TakeBack
  <1>1. PICK req \in Requests(i) :
          /\ ~SaleLocked(i)
          /\ Enter(s, "settle", [kind |-> "return", id |-> i, req |-> req],
             [kind |-> "debt", owed |-> owed[i], paid |-> paid[i], standing |-> standing[i]])
          /\ UNCHANGED <<order, debt, points>>
    BY <1>0
  <1>2. DOMAIN phase = Sessions /\ DOMAIN job = Sessions /\ DOMAIN seen = Sessions
    BY DEF CreditOK, Shaped
  <1>3. /\ phase[s] = "idle" /\ phase'[s] = "settle" /\ job'[s].id = i
        /\ seen'[s].owed = owed[i] /\ seen'[s].paid = paid[i] /\ seen'[s].standing = standing[i]
    BY <1>1, <1>2 DEF Enter
  <1>4. /\ UNCHANGED <<order, owed, standing, payments, paid, received, byHand>>
        /\ DOMAIN standing' = Sales
        /\ \A k \in Sales : standing'[k] = "none" <=> standing[k] = "none"
    BY <1>1 DEF debt, CreditOK, Shaped
  <1>5. /\ \A k \in Sales : Books(k)' /\ StillHeld(k)
        /\ Known /\ (DeskShaped' => Shaped')
    BY <1>4, NothingMoves
  <1>6. DeskShaped' /\ \A t \in Sessions \ {s} : Waits(t)
    BY <1>1, OneMoves
  <1>7. i \in Sales /\ Sold(i) /\ owed[i] \in Int /\ paid[i] \in Int /\ paid[i] <= received[i]
    BY DEF CreditOK, Books, Typed
  <1>8. Reading(s)'
    BY <1>3, <1>4, <1>7 DEF Reading, Sold, HasDebt, order
  <1>9. Working(s)'
    BY <1>3 DEF Working
  <1>10. OneReturn'
    <2>1. \A t \in Sessions : phase[t] = "settle" => job[t].id # i
      BY <1>1 DEF SaleLocked
    <2> QED
      BY <1>3, <1>6, <2>1 DEF CreditOK, OneReturn, Waits
  <1>11. \A t \in Sessions : Reading(t)' /\ Working(t)'
    BY <1>5, <1>6, <1>8, <1>9, HeldSales, Holding
  <1> QED
    BY <1>5, <1>6, <1>10, <1>11 DEF CreditOK

\* A return settles against what it read of the debt.
LEMMA SettleKeeps == ASSUME CreditOK, NEW s \in Sessions, Settle(s) PROVE CreditOK'
PROOF
  <1>0. phase[s] = "settle" /\ DOMAIN job = Sessions
    BY Zenon DEF Settle, Leave, CreditOK, Shaped
  <1>a. PICK i \in Sales : i = job[s].id
    BY <1>0, SMTT(60) DEF CreditOK, Reading
  <1> DEFINE req == job[s].req
             r == receipt[i]
             n == seen[s]
             value == ReturnTotal(r.basket, r.total, back[i], backWorth[i], returned[i], req)
             left == DebtLeft(n)
             pts == OrZero(r.redeemed - restored[i])
             way == Settlement(value, left, pts)
             written == way.debt > 0 /\ HasDebt(i)
  <1>1. /\ Leave(s, "settle") /\ phase[s] = "settle"
        /\ value \in 0..MaxMoney
        /\ returned' = [returned EXCEPT ![i] = @ + value]
        /\ restored' = [restored EXCEPT ![i] = @ + way.points]
        /\ refunded' = [refunded EXCEPT ![i] = @ + way.refund]
        /\ owed' = [owed EXCEPT ![i] = IF written THEN WrittenDown(n, way.debt).owed ELSE @]
        /\ standing' = [standing EXCEPT ![i] =
                          IF written THEN WrittenDown(n, way.debt).standing ELSE @]
        /\ UNCHANGED <<receipt, payments, paid, received, byHand>>
    BY <1>a, ZenonT(60) DEF Settle, Leave
  <1>2. /\ i \in Sales /\ Sold(i)
        /\ n.owed \in Int /\ n.paid \in Int /\ n.paid <= received[i]
        /\ ~byHand[i] => n.owed = owed[i] /\ (n.standing = "none" <=> ~HasDebt(i))
    BY <1>1, <1>a DEF CreditOK, Reading
  <1>3. /\ returned[i] \in Int /\ restored[i] \in Int /\ refunded[i] \in Int
        /\ owed[i] \in Nat /\ received[i] \in Nat /\ paid[i] \in Int
        /\ ~HasDebt(i) => owed[i] = 0
    BY <1>2 DEF CreditOK, Books, Typed
  <1>4. r \in Receipts
    BY <1>2 DEF CreditOK, Books, Typed, Sold, NoReceipt
  <1>5. r.total \in Nat /\ r.redeemed \in Nat /\ r.down \in Nat
    BY <1>4 DEF Receipts
  <1>6. restored[i] <= r.redeemed
    BY <1>2 DEF CreditOK, Books, PointsCapped
  <1>7. value \in Nat
    <2> HIDE DEF value
    <2> QED
      BY <1>1
  <1>8. left = IF n.standing = "none" THEN 0 ELSE OrZero(n.owed - n.paid)
    BY DEF DebtLeft
  <1>9. /\ left \in Nat /\ pts \in Nat /\ pts = r.redeemed - restored[i]
        /\ left >= n.owed - n.paid \/ n.standing = "none"
        /\ n.standing = "none" => left = 0
    <2> HIDE DEF left, r, n, value
    <2> QED
      BY <1>2, <1>3, <1>5, <1>6, <1>8 DEF OrZero
  <1> HIDE DEF value, left, pts
  <1>10. /\ way.debt \in Nat /\ way.points \in Nat /\ way.refund \in Nat
         /\ way.debt <= left /\ way.points <= pts
         /\ way.debt + way.points + way.refund = value
         /\ way.refund > 0 => way.debt = left /\ way.points = pts
    <2>1. value \in Nat /\ left \in Nat /\ pts \in Nat
      BY <1>7, <1>9
    <2> QED
      BY ONLY <2>1, Waterfall, Zenon DEF way
  <1>11. /\ WrittenDown(n, way.debt).owed = OrZero(n.owed - way.debt)
         /\ WrittenDown(n, way.debt).standing # "none"
    BY DEF WrittenDown
  <1> DEFINE down == way.debt
             given == way.points
             money == way.refund
             after == WrittenDown(n, down)
  <1>12. /\ returned'[i] = returned[i] + value /\ restored'[i] = restored[i] + given
         /\ refunded'[i] = refunded[i] + money
         /\ owed'[i] = (IF down > 0 /\ HasDebt(i) THEN after.owed ELSE owed[i])
         /\ standing'[i] = (IF down > 0 /\ HasDebt(i) THEN after.standing ELSE standing[i])
         /\ \A k \in Sales \ {i} : /\ returned'[k] = returned[k] /\ restored'[k] = restored[k]
                                   /\ refunded'[k] = refunded[k] /\ owed'[k] = owed[k]
                                   /\ standing'[k] = standing[k]
         /\ DOMAIN returned' = Sales /\ DOMAIN restored' = Sales /\ DOMAIN refunded' = Sales
         /\ DOMAIN owed' = Sales /\ DOMAIN standing' = Sales
    <2> HIDE DEF way, n
    <2> QED
      BY <1>1, <1>2 DEF CreditOK, Shaped
  <1>13. /\ down \in Nat /\ given \in Nat /\ money \in Nat
         /\ down <= left /\ given <= pts /\ down + given + money = value
         /\ (money > 0 => down = left /\ given = pts)
         /\ after.owed = OrZero(n.owed - down) /\ after.standing # "none"
    BY <1>10, <1>11
  <1>14. DeskShaped' /\ \A t \in Sessions \ {s} : Waits(t)
    BY <1>1, OneMoves
  <1>15. phase'[s] = "idle"
    BY <1>1 DEF CreditOK, Shaped, Leave
  <1>16. \A t \in Sessions \ {s} : phase[t] = "settle" => job[t].id \in Sales \ {i}
    BY <1>1, <1>a, HeldSales DEF CreditOK, OneReturn
  <1>17. UNCHANGED <<receipt, payments, paid, received, byHand>>
    BY <1>1
  <1>18. receipt'[i].redeemed = r.redeemed /\ receipt'[i].total = r.total /\ receipt'[i].down = r.down
    BY <1>17
  <1> HIDE DEF r, n, way, written, down, given, money, after
  <1>19. \A k \in Sales \ {i} : Alike(k)
    BY <1>12, <1>17 DEF Alike, SameBut
  <1>20. after.owed \in Nat
    BY <1>2, <1>13 DEF OrZero
  <1>21. Books(i)'
    <2>1. Typed(i) /\ MoneyLast(i) /\ DebtFollowsSale(i)
      BY <1>2 DEF CreditOK, Books
    <2>2. /\ returned'[i] \in Int /\ restored'[i] \in Int /\ refunded'[i] \in Int
          /\ owed'[i] \in Nat /\ (standing'[i] = "none" => owed'[i] = 0)
      <3>1. /\ returned'[i] \in Int /\ restored'[i] \in Int /\ refunded'[i] \in Int
        BY <1>3, <1>7, <1>12, <1>13
      <3>2. owed'[i] \in Nat /\ (standing'[i] = "none" => owed'[i] = 0)
        BY <1>3, <1>12, <1>13, <1>20 DEF HasDebt
      <3> QED
        BY <3>1, <3>2
    <2>3. Typed(i)'
      BY <1>17, <2>1, <2>2 DEF Typed, HasDebt
    <2>4. Untouched(i)'
      BY <1>2, <1>17 DEF Untouched, Sold, NoReceipt
    <2>5. PointsCapped(i)'
      <3>1. restored'[i] <= r.redeemed
        BY <1>3, <1>5, <1>9, <1>12, <1>13
      <3> QED
        BY <1>18, <3>1 DEF PointsCapped
    <2>6. ASSUME ~byHand[i]
          PROVE  /\ owed'[i] >= owed[i] - down
                 /\ owed'[i] <= owed[i]
                 /\ money > 0 => owed'[i] <= received[i]
      <3>1. n.owed = owed[i] /\ (n.standing = "none" <=> ~HasDebt(i))
        BY <1>2, <2>6
      <3>2. CASE HasDebt(i) /\ down > 0
        <4>1. owed'[i] = OrZero(owed[i] - down)
          BY <1>12, <1>13, <3>1, <3>2
        <4>2. left >= owed[i] - n.paid
          BY <1>9, <3>1, <3>2
        <4> QED
          BY <1>2, <1>3, <1>9, <1>13, <4>1, <4>2 DEF OrZero
      <3>3. CASE HasDebt(i) /\ ~(down > 0)
        <4>1. owed'[i] = owed[i] /\ down = 0
          BY <1>12, <1>13, <3>3
        <4>2. left >= owed[i] - n.paid
          BY <1>9, <3>1, <3>3
        <4> QED
          BY <1>2, <1>3, <1>9, <1>13, <4>1, <4>2
      <3>4. CASE ~HasDebt(i)
        <4>1. owed'[i] = owed[i] /\ owed[i] = 0
          BY <1>3, <1>12, <3>4
        <4> QED
          BY <1>3, <1>13, <4>1
      <3> QED
        BY <3>2, <3>3, <3>4
    <2>7. DebtFollowsSale(i)'
      <3>1. ~byHand[i] => returned[i] - restored[i] - refunded[i] + owed[i]
                            >= r.total - r.redeemed - r.down - Half
        BY <1>2, <2>1 DEF DebtFollowsSale, r
      <3>2. Half \in Nat
        BY HalfIsSmall
      <3>3. ~byHand[i] => returned'[i] - restored'[i] - refunded'[i] + owed'[i]
                            >= r.total - r.redeemed - r.down - Half
        BY <1>3, <1>5, <1>7, <1>12, <1>13, <2>2, <2>6, <3>1, <3>2
      <3> QED
        BY <1>17, <1>18, <3>3 DEF DebtFollowsSale
    <2>8. MoneyLast(i)'
      <3>1. ~byHand[i] /\ refunded[i] > 0 => owed[i] <= received[i] /\ restored[i] = r.redeemed
        BY <1>2, <2>1 DEF MoneyLast, r
      <3>2. ~byHand[i] /\ refunded'[i] > 0 => owed'[i] <= received[i] /\ restored'[i] = r.redeemed
        <4>1. CASE money > 0
          BY <1>3, <1>5, <1>9, <1>12, <1>13, <2>6, <4>1
        <4>2. CASE ~(money > 0)
          <5>1. refunded'[i] = refunded[i]
            BY <1>3, <1>12, <1>13, <4>2
          <5> QED
            BY <1>3, <1>5, <1>9, <1>12, <1>13, <2>2, <2>6, <3>1, <5>1, SMTT(60)
        <4> QED
          BY <4>1, <4>2
      <3> QED
        BY <1>17, <1>18, <3>2 DEF MoneyLast
    <2> QED
      BY <2>3, <2>4, <2>5, <2>7, <2>8 DEF Books
  <1>22. \A k \in Sales : Books(k)'
    BY <1>19, <1>21, AlikeKeeps DEF CreditOK
  <1>23. \A t \in Sessions \ {s} : phase[t] = "settle" => StillHeld(job[t].id)
    BY <1>16, <1>19, AlikeHeld
  <1>24. Known
    BY <1>17 DEF Known
  <1>25. Shaped'
    BY <1>12, <1>14, <1>17 DEF CreditOK, Shaped, DeskShaped
  <1>26. Working(s)'
    BY <1>15 DEF Working
  <1> QED
    BY <1>14, <1>15, <1>22, <1>23, <1>24, <1>25, <1>26, RequestStep

\* A sale that is deleted has no books, and is in no return.
LEMMA EraseKeeps == ASSUME CreditOK, NEW s \in Sessions, Erase(s) PROVE CreditOK'
PROOF
  <1>a. phase[s] = "erase"
    BY DEF Erase, Leave
  <1>b. PICK i \in Sales : i = job[s].id
    BY <1>a DEF CreditOK, Working
  <1>1. /\ Leave(s, "erase") /\ phase[s] = "erase" /\ ~SaleLocked(i)
        /\ receipt' = [receipt EXCEPT ![i].state = "deleted"]
        /\ returned' = [returned EXCEPT ![i] = 0]
        /\ restored' = [restored EXCEPT ![i] = 0]
        /\ refunded' = [refunded EXCEPT ![i] = 0]
        /\ owed' = [owed EXCEPT ![i] = 0]
        /\ standing' = [standing EXCEPT ![i] = "none"]
        /\ payments' = [payments EXCEPT ![i] = {}]
        /\ paid' = [paid EXCEPT ![i] = 0]
        /\ UNCHANGED <<received, byHand>>
    BY <1>b DEF Erase, Leave
  <1>2. i \in Sales /\ receipt[i] # NoReceipt
    BY <1>1, <1>b DEF CreditOK, Working
  <1>3. receipt[i] \in Receipts /\ received[i] \in Nat
    BY <1>2 DEF CreditOK, Books, Typed
  <1>4. DeskShaped' /\ \A t \in Sessions \ {s} : Waits(t)
    BY <1>1, OneMoves
  <1>5. phase'[s] = "idle"
    BY <1>1 DEF CreditOK, Shaped, Leave
  <1>6. \A t \in Sessions \ {s} : phase[t] = "settle" => job[t].id \in Sales \ {i}
    BY <1>1, HeldSales DEF SaleLocked
  <1>7. /\ receipt'[i] = [receipt[i] EXCEPT !.state = "deleted"]
        /\ returned'[i] = 0 /\ restored'[i] = 0 /\ refunded'[i] = 0 /\ owed'[i] = 0
        /\ standing'[i] = "none" /\ payments'[i] = {} /\ paid'[i] = 0
        /\ \A k \in Sales \ {i} :
             /\ receipt'[k] = receipt[k] /\ returned'[k] = returned[k] /\ restored'[k] = restored[k]
             /\ refunded'[k] = refunded[k] /\ owed'[k] = owed[k] /\ standing'[k] = standing[k]
             /\ payments'[k] = payments[k] /\ paid'[k] = paid[k]
        /\ DOMAIN receipt' = Sales /\ DOMAIN returned' = Sales /\ DOMAIN restored' = Sales
        /\ DOMAIN refunded' = Sales /\ DOMAIN owed' = Sales /\ DOMAIN standing' = Sales
        /\ DOMAIN payments' = Sales /\ DOMAIN paid' = Sales
    BY <1>1, <1>2 DEF CreditOK, Shaped
  <1>8. receipt'[i] \in Receipts /\ receipt'[i].state = "deleted"
    BY <1>3, <1>7 DEF Receipts
  <1>9. receipt'[i] # NoReceipt
    BY <1>8 DEF NoReceipt
  <1>10. Books(i)'
    <2>1. Typed(i)'
      BY <1>1, <1>3, <1>7, <1>8 DEF Typed, HasDebt
    <2>2. Untouched(i)' /\ PointsCapped(i)' /\ MoneyLast(i)' /\ DebtFollowsSale(i)'
      BY <1>8, <1>9 DEF Untouched, PointsCapped, MoneyLast, DebtFollowsSale, Sold
    <2> QED
      BY <2>1, <2>2 DEF Books
  <1>11. \A k \in Sales \ {i} : Alike(k)
    BY <1>1, <1>7 DEF Alike, SameBut
  <1>12. \A k \in Sales : Books(k)'
    BY <1>10, <1>11, AlikeKeeps DEF CreditOK
  <1>13. \A t \in Sessions \ {s} : phase[t] = "settle" => StillHeld(job[t].id)
    BY <1>6, <1>11, AlikeHeld
  <1>14. Known
    BY <1>7, <1>9 DEF Known
  <1>15. Shaped'
    BY <1>1, <1>4, <1>7 DEF CreditOK, Shaped, DeskShaped
  <1>16. Working(s)'
    BY <1>5 DEF Working
  <1> QED
    BY <1>4, <1>5, <1>12, <1>13, <1>14, <1>15, <1>16, RequestStep

------------------------------------------------------------------------------
LEMMA CreditStarts == CreditInit => CreditOK
PROOF
  <1> SUFFICES ASSUME CreditInit PROVE CreditOK
    OBVIOUS
  <1>1. Shaped /\ \A s \in Sessions : phase[s] = "idle"
    BY DEF CreditInit, DeskInit, Shaped
  <1>2. ASSUME NEW i \in Sales PROVE Books(i)
    <2>1. /\ receipt[i] = NoReceipt /\ returned[i] = 0 /\ restored[i] = 0 /\ refunded[i] = 0
          /\ owed[i] = 0 /\ standing[i] = "none" /\ payments[i] = {} /\ paid[i] = 0 /\ received[i] = 0
      BY DEF CreditInit
    <2> QED
      BY <2>1 DEF Books, Typed, Untouched, PointsCapped, MoneyLast, DebtFollowsSale, Sold,
                  HasDebt, NoReceipt
  <1> QED
    BY <1>1, <1>2 DEF CreditOK, Reading, Working, OneReturn

LEMMA CreditSteps == CreditOK /\ [CreditNext]_creditVars => CreditOK'
PROOF
  <1> SUFFICES ASSUME CreditOK, [CreditNext]_creditVars PROVE CreditOK'
    OBVIOUS
  <1>1. CASE ListDebts
    BY <1>1, MarkingKeeps
  <1>2. ASSUME NEW i \in Sales, Sell(i) \/ DueDatePasses(i) \/ Lend(i) \/ EditDebt(i) \/ ForgiveDebt(i)
        PROVE  CreditOK'
    BY <1>2, SellKeeps, MarkingKeeps, ByHandKeeps
  <1>3. ASSUME NEW s \in Sessions,
               \/ LookToPay(s) \/ EnterPayment(s) \/ LookToUnpay(s) \/ DropPayment(s)
               \/ SumPaid(s) \/ MarkDebt(s)
               \/ TakeBack(s) \/ Settle(s)
               \/ LookToDelete(s) \/ ReadMoves(s) \/ LockCustomer(s) \/ Erase(s)
               \/ CreditGivesUp(s)
        PROVE  CreditOK'
    BY <1>3, LookingKeeps, PaymentKeeps, MarkDebtKeeps, TakeBackKeeps, SettleKeeps, EraseKeeps
  <1>4. CASE UNCHANGED creditVars
    <2>1. /\ UNCHANGED <<order, owed, payments, paid, received, byHand, desk>> /\ standing' = standing
      BY <1>4 DEF creditVars, debt
    <2>2. DOMAIN standing' = Sales /\ \A i \in Sales : standing'[i] = "none" <=> standing[i] = "none"
      BY <2>1 DEF CreditOK, Shaped
    <2>3. DeskShaped' /\ \A s \in Sessions : Waits(s)
      BY <2>1, AllWait
    <2>4. /\ \A i \in Sales : Books(i)' /\ StillHeld(i)
          /\ Known /\ Shaped'
      BY <2>1, <2>2, <2>3, NothingMoves
    <2> QED
      BY <2>3, <2>4, HeldSales, DirectStep
  <1> QED
    BY <1>1, <1>2, <1>3, <1>4 DEF CreditNext

\* However payments, corrections, returns and deletions interleave, the money a
\* sale's returns give back is no more than what the sale and its debt brought
\* in, half a so'm of tender tolerance and the coins its parts were rounded up
\* by apart (sale-return.service.ts create, debt.service.ts addPayment).
THEOREM RefundsStayWithinPaid == CreditSpec => []RefundsWithinPaid
PROOF
  <1>1. CreditOK => RefundsWithinPaid
    BY BooksCover
  <1> QED
    BY CreditStarts, CreditSteps, <1>1, PTL DEF CreditSpec

------------------------------------------------------------------------------
\* What the returns of one sale come to.

\* Rounding a * b / c adds at most a half.
LEMMA RoundedUp ==
  ASSUME NEW a \in Int, NEW b \in Int, NEW c \in Nat \ {0}
  PROVE  /\ Rounded(a, b, c) \in Int
         /\ 2 * c * Rounded(a, b, c) <= 2 * a * b + c
         /\ a * b = 0 => Rounded(a, b, c) = 0
         /\ a * b >= 0 => Rounded(a, b, c) >= 0
PROOF
  <1> DEFINE x == 2 * a * b + c
             d == 2 * c
  <1>1. x \in Int /\ d \in Nat \ {0}
    OBVIOUS
  <1>2. Rounded(a, b, c) = x \div d
    BY DEF Rounded
  <1>3. a * b = 0 => x = c
    OBVIOUS
  <1>4. c \div d = 0
    <2>1. c < d
      OBVIOUS
    <2> HIDE DEF d
    <2> QED
      BY <2>1, <1>1
  <1>6. a * b >= 0 => x >= 0
    OBVIOUS
  <1> HIDE DEF x, d
  <1>5. x \div d \in Int /\ d * (x \div d) <= x /\ (x >= 0 => x \div d >= 0)
    BY <1>1
  <1> QED
    BY <1>2, <1>3, <1>4, <1>5, <1>6 DEF x, d

\* What a line that is not finished may be worth so far, doubled, and what one
\* that is was worth at most.
Ceiling(b, n, w) ==
  [l \in DOMAIN b.sold |-> IF n[l] = b.sold[l] THEN 2 * b.worth[l] + b.sold[l] ELSE 2 * w[l]]

\* Each unit that came back was rounded up by half a coin at most.
LinesFit(b, n, w) ==
  /\ n \in [DOMAIN b.sold -> Nat] /\ w \in [DOMAIN b.sold -> Int]
  /\ \A l \in DOMAIN b.sold :
       /\ n[l] <= b.sold[l]
       /\ n[l] < b.sold[l] => 2 * b.sold[l] * w[l] <= 2 * b.worth[l] * n[l] + b.sold[l] * n[l]

Unfinished(b, n) == \E l \in DOMAIN b.sold : n[l] < b.sold[l]

NetFits(b, total, n, w, value) ==
  /\ LinesFit(b, n, w)
  /\ total \in 0..Subtotal(b) /\ value \in Nat
  /\ Unfinished(b, n) =>
       2 * Subtotal(b) * value <= total * SumFunction(Ceiling(b, n, w)) + Subtotal(b) * SumFunction(n)
  /\ value <= total + SumFunction(n)
  /\ ~Unfinished(b, n) => value >= total

\* A basket.
LEMMA Basketed ==
  ASSUME NEW b \in Baskets
  PROVE  /\ IsFiniteSet(DOMAIN b.sold)
         /\ \A l \in DOMAIN b.sold : b.sold[l] \in Nat \ {0} /\ b.worth[l] \in Nat
         /\ DOMAIN b.worth = DOMAIN b.sold
         /\ Subtotal(b) \in Nat \ {0}
PROOF
  <1>1. /\ b.sold \in [DOMAIN b.sold -> Nat \ {0}] /\ IsFiniteSet(DOMAIN b.sold)
        /\ b.worth \in [DOMAIN b.sold -> Nat] /\ Subtotal(b) > 0
    BY SalesAssumption
  <1>2. DOMAIN b.worth = DOMAIN b.sold /\ \A l \in DOMAIN b.sold : b.worth[l] \in Nat
    BY <1>1
  <1>3. SumFunctionOnSet(b.worth, DOMAIN b.sold) \in Nat
    BY <1>1, <1>2, SumNat
  <1>4. Subtotal(b) \in Nat
    BY <1>2, <1>3 DEF Subtotal, SumFunction
  <1>5. \A l \in DOMAIN b.sold : b.sold[l] \in Nat \ {0}
    BY <1>1
  <1> QED
    BY <1>1, <1>2, <1>4, <1>5

\* One line of a return.
LineBack(b, n, w, req, l) == IF req[l] = 0 THEN w[l] ELSE w[l] + LineWorth(b, n, w, req, l)

LEMMA LineStep ==
  ASSUME NEW sold \in Nat \ {0}, NEW worth \in Nat, NEW n \in Nat, NEW w \in Int, NEW q \in Nat,
         n + q < sold, 2 * sold * w <= 2 * worth * n + sold * n, q > 0
  PROVE  2 * sold * (w + Rounded(worth, q, sold)) <= 2 * worth * (n + q) + sold * (n + q)
PROOF
  <1> DEFINE R == Rounded(worth, q, sold)
  <1>1. R \in Int /\ 2 * sold * R <= 2 * worth * q + sold
    BY RoundedUp
  <1>2. sold <= sold * q
    BY SMT
  <1> HIDE DEF R
  <1>3. 2 * sold * (w + R) = 2 * sold * w + 2 * sold * R
    BY <1>1
  <1>4. 2 * worth * (n + q) + sold * (n + q) = (2 * worth * n + sold * n) + (2 * worth * q + sold * q)
    OBVIOUS
  <1> QED
    BY <1>1, <1>2, <1>3, <1>4 DEF R

\* A line never counts for more than it was worth, and a coin for two units.
LEMMA Ceilinged ==
  ASSUME NEW sold \in Nat \ {0}, NEW worth \in Nat, NEW n \in Nat, NEW w \in Int, n <= sold,
         2 * sold * w <= 2 * worth * n + sold * n
  PROVE  2 * w <= 2 * worth + n
PROOF
  <1>1. 2 * worth * n <= 2 * worth * sold
    BY SMT
  <1>2. 2 * sold * w <= sold * (2 * worth + n)
    BY <1>1
  <1>3. SUFFICES ASSUME 2 * w >= 2 * worth + n + 1 PROVE FALSE
    OBVIOUS
  <1>4. sold * (2 * w) >= sold * (2 * worth + n + 1)
    BY <1>3, SMT
  <1>5. sold * (2 * worth + n + 1) = sold * (2 * worth + n) + sold
    OBVIOUS
  <1> QED
    BY <1>2, <1>4, <1>5

\* One line of a return that leaves something on the receipt.
LEMMA LineReturns ==
  ASSUME NEW b \in Baskets, NEW n, NEW w, LinesFit(b, n, w), NEW total \in 0..Subtotal(b),
         NEW req \in [DOMAIN b.sold -> Nat], \A l \in DOMAIN b.sold : req[l] <= b.sold[l] - n[l],
         NEW n1, NEW w1, NEW l \in DOMAIN b.sold,
         n1[l] = n[l] + req[l], w1[l] = LineBack(b, n, w, req, l)
  PROVE  /\ n1[l] \in Nat /\ n1[l] <= b.sold[l] /\ w1[l] \in Int
         /\ n1[l] < b.sold[l] =>
              2 * b.sold[l] * w1[l] <= 2 * b.worth[l] * n1[l] + b.sold[l] * n1[l]
         /\ LineNet(b, total, n, w, req)[l] \in Int
         /\ Ceiling(b, n, w)[l] \in Int /\ Ceiling(b, n1, w1)[l] \in Int
         /\ Ceiling(b, n, w)[l] <= Ceiling(b, n1, w1)[l]
         /\ 2 * Subtotal(b) * LineNet(b, total, n, w, req)[l]
              <= total * (Ceiling(b, n1, w1)[l] - Ceiling(b, n, w)[l]) + Subtotal(b) * req[l]
PROOF
  <1> DEFINE sold == b.sold[l]
             worth == b.worth[l]
             m == n[l]
             v == w[l]
             q == req[l]
             S == Subtotal(b)
             LW == LineWorth(b, n, w, req, l)
             LN == LineNet(b, total, n, w, req)[l]
             C == Ceiling(b, n, w)[l]
             D == Ceiling(b, n1, w1)[l]
  <1>1. sold \in Nat \ {0} /\ worth \in Nat /\ S \in Nat \ {0}
    BY Basketed
  <1>2. m \in Nat /\ v \in Int /\ m <= sold /\ q \in Nat /\ m + q <= sold
    <2>1. m \in Nat /\ v \in Int /\ m <= sold /\ q \in Nat /\ q <= sold - m
      BY DEF LinesFit
    <2> HIDE DEF m, v, q, sold
    <2> QED
      BY <1>1, <2>1
  <1>3. m < sold => 2 * sold * v <= 2 * worth * m + sold * m
    BY DEF LinesFit
  <1>4. total \in Nat /\ total <= S
    <2> HIDE DEF S
    <2>1. total \in 0..S
      BY DEF S
    <2> QED
      BY <1>1, <2>1
  <1>5. LN = Rounded(LW, total, S)
    BY DEF LineNet
  <1>6. C = IF m = sold THEN 2 * worth + sold ELSE 2 * v
    BY DEF Ceiling
  <1>7. D = IF m + q = sold THEN 2 * worth + sold ELSE 2 * w1[l]
    BY DEF Ceiling
  <1>8. LW = IF m + q >= sold THEN IF q = 0 THEN 0 ELSE worth - v ELSE Rounded(worth, q, sold)
    BY DEF LineWorth
  <1>9. w1[l] = IF q = 0 THEN v ELSE v + LW
    BY DEF LineBack
  <1>10. n1[l] = m + q
    OBVIOUS
  <1> DEFINE v1 == w1[l]
             m1 == n1[l]
  <1>11. SUFFICES /\ m1 \in Nat /\ m1 <= sold /\ v1 \in Int
                  /\ m1 < sold => 2 * sold * v1 <= 2 * worth * m1 + sold * m1
                  /\ LN \in Int /\ C \in Int /\ D \in Int /\ C <= D
                  /\ 2 * S * LN <= total * (D - C) + S * q
    OBVIOUS
  <1>12. v1 = (IF q = 0 THEN v ELSE v + LW) /\ m1 = m + q
         /\ D = (IF m + q = sold THEN 2 * worth + sold ELSE 2 * v1)
    BY <1>7, <1>9, <1>10
  <1> HIDE DEF sold, worth, m, v, q, S, LW, LN, C, D, v1, m1
  <1>13. m1 \in Nat /\ m1 <= sold
    BY <1>2, <1>12
  <1>14. CASE q = 0
    <2>1. v1 = v /\ m1 = m /\ D = C
      BY <1>2, <1>6, <1>12, <1>14
    <2>2. LW = 0
      <3>1. worth * q = 0
        BY <1>1, <1>14
      <3>2. Rounded(worth, q, sold) = 0
        BY <1>1, <1>2, <3>1, RoundedUp
      <3> QED
        BY <1>8, <1>14, <3>2
    <2>3. LN = 0
      BY <1>1, <1>4, <1>5, <2>2, RoundedUp
    <2> QED
      BY <1>1, <1>2, <1>3, <1>4, <1>6, <1>13, <1>14, <2>1, <2>3
  <1>15. CASE q > 0
    <2>1. m < sold /\ C = 2 * v
      BY <1>1, <1>2, <1>6, <1>15
    <2>2. 2 * sold * v <= 2 * worth * m + sold * m
      BY <1>3, <2>1
    <2>3. 2 * v <= 2 * worth + m
      BY <1>1, <1>2, <2>2, Ceilinged
    <2>4. v1 = v + LW
      BY <1>12, <1>15, <1>2
    <2>5. S <= S * q
      BY <1>1, <1>2, <1>15
    <2>6. CASE m + q = sold
      <3>1. LW = worth - v /\ D = 2 * worth + sold
        BY <1>2, <1>1, <1>8, <1>12, <1>15, <2>6
      <3>2. LN \in Int /\ 2 * S * LN <= 2 * LW * total + S
        BY <1>1, <1>2, <1>4, <1>5, <3>1, RoundedUp
      <3>3. 2 * LW * total <= total * (D - C)
        <4>1. D - C = 2 * LW + sold
          BY <1>1, <1>2, <2>1, <3>1
        <4>2. total * (2 * LW + sold) = 2 * LW * total + total * sold
          BY <1>1, <1>2, <1>4, <3>1
        <4>3. total * sold >= 0
          BY <1>1, <1>4
        <4>4. LW \in Int
          BY <1>1, <1>2, <3>1
        <4> QED
          BY <1>1, <1>4, <4>1, <4>2, <4>3, <4>4
      <3>4. C \in Int /\ D \in Int /\ C <= D /\ v1 \in Int
        BY <1>1, <1>2, <2>1, <2>3, <2>4, <3>1
      <3>5. ~(m1 < sold)
        BY <1>1, <1>2, <1>12, <2>6
      <3>6. 2 * S * LN <= total * (D - C) + S * q
        <4> DEFINE x == 2 * S * LN
                   y == 2 * LW * total
                   z == total * (D - C)
                   u == S * q
        <4>1. x \in Int /\ y \in Int /\ z \in Int /\ u \in Int
          BY <1>1, <1>2, <1>4, <3>1, <3>2, <3>4
        <4>2. x <= y + S /\ y <= z /\ S <= u
          BY <3>2, <3>3, <2>5
        <4> HIDE DEF x, y, z, u
        <4>3. x <= z + u
          BY <1>1, <4>1, <4>2
        <4> QED
          BY <4>3 DEF x, z, u
      <3> QED
        BY <1>13, <3>2, <3>4, <3>5, <3>6
    <2>7. CASE m + q < sold
      <3>1. LW = Rounded(worth, q, sold) /\ D = 2 * v1
        BY <1>2, <1>1, <1>8, <1>12, <2>7
      <3>2. LW \in Int /\ LW >= 0
        <4>1. worth * q >= 0 /\ worth \in Int /\ q \in Int
          BY <1>1, <1>2
        <4>2. Rounded(worth, q, sold) \in Int /\ Rounded(worth, q, sold) >= 0
          BY <1>1, <4>1, RoundedUp
        <4> QED
          BY <3>1, <4>2
      <3>3. LN \in Int /\ 2 * S * LN <= 2 * LW * total + S
        BY <1>1, <1>4, <1>5, <3>2, RoundedUp
      <3>4. C \in Int /\ D \in Int /\ C <= D /\ v1 \in Int /\ D - C = 2 * LW
        BY <1>2, <2>1, <2>4, <3>1, <3>2
      <3>5. 2 * sold * v1 <= 2 * worth * m1 + sold * m1
        <4>1. 2 * sold * (v + Rounded(worth, q, sold)) <= 2 * worth * (m + q) + sold * (m + q)
          BY <1>1, <1>2, <1>15, <2>2, <2>7, LineStep
        <4> QED
          BY <4>1, <1>12, <2>4, <3>1
      <3>6. 2 * S * LN <= total * (D - C) + S * q
        <4> DEFINE x == 2 * S * LN
                   y == 2 * LW * total
                   z == total * (D - C)
                   u == S * q
        <4>1. x \in Int /\ y \in Int /\ z = y /\ u \in Int
          BY <1>1, <1>2, <1>4, <3>2, <3>3, <3>4
        <4>2. x <= y + S /\ S <= u
          BY <3>3, <2>5
        <4> HIDE DEF x, y, z, u
        <4>3. x <= z + u
          BY <1>1, <4>1, <4>2
        <4> QED
          BY <4>3 DEF x, z, u
      <3> QED
        BY <1>13, <3>3, <3>4, <3>5, <3>6
    <2> QED
      BY <1>1, <1>2, <2>6, <2>7
  <1> QED
    BY <1>2, <1>14, <1>15

\* A return keeps what came back within the total, and the last one completes it.
LEMMA ReturnFits ==
  ASSUME NEW b \in Baskets, NEW total, NEW n, NEW w, NEW value, NetFits(b, total, n, w, value),
         NEW req \in [DOMAIN b.sold -> Nat], \A l \in DOMAIN b.sold : req[l] <= b.sold[l] - n[l],
         \E l \in DOMAIN b.sold : req[l] > 0,
         NEW n1, NEW w1, DOMAIN n1 = DOMAIN b.sold, DOMAIN w1 = DOMAIN b.sold,
         n1 = [l \in DOMAIN n1 |-> n1[l]], w1 = [l \in DOMAIN w1 |-> w1[l]],
         \A l \in DOMAIN b.sold : n1[l] = n[l] + req[l] /\ w1[l] = LineBack(b, n, w, req, l)
  PROVE  NetFits(b, total, n1, w1, value + ReturnTotal(b, total, n, w, value, req))
PROOF
  <1> DEFINE L == DOMAIN b.sold
             S == Subtotal(b)
             N == LineNet(b, total, n, w, req)
             C == Ceiling(b, n, w)
             D == Ceiling(b, n1, w1)
             V == ReturnTotal(b, total, n, w, value, req)
  <1>1. IsFiniteSet(L) /\ S \in Nat \ {0} /\ \A l \in L : b.sold[l] \in Nat \ {0} /\ b.worth[l] \in Nat
    BY Basketed
  <1>2. LinesFit(b, n, w) /\ total \in 0..S /\ value \in Nat
    BY DEF NetFits
  <1>3. total \in Nat /\ total <= S
    <2> HIDE DEF S
    <2>1. total \in 0..S
      BY <1>2
    <2> QED
      BY <1>1, <2>1
  <1>4. n \in [L -> Nat] /\ w \in [L -> Int] /\ \A l \in L : n[l] \in Nat /\ n[l] <= b.sold[l]
    BY <1>2 DEF LinesFit
  <1>5. ASSUME NEW l \in L
        PROVE  /\ n1[l] \in Nat /\ n1[l] <= b.sold[l] /\ w1[l] \in Int
               /\ n1[l] < b.sold[l] =>
                    2 * b.sold[l] * w1[l] <= 2 * b.worth[l] * n1[l] + b.sold[l] * n1[l]
               /\ N[l] \in Int /\ C[l] \in Int /\ D[l] \in Int /\ C[l] <= D[l]
               /\ 2 * S * N[l] <= total * (D[l] - C[l]) + S * req[l]
    <2>1. n1[l] = n[l] + req[l] /\ w1[l] = LineBack(b, n, w, req, l) /\ l \in DOMAIN b.sold
      BY <1>5
    <2>2. LinesFit(b, n, w) /\ total \in 0..Subtotal(b)
      BY <1>2
    <2>3. \A k \in DOMAIN b.sold : req[k] <= b.sold[k] - n[k]
      OBVIOUS
    <2> QED
      BY ONLY <2>1, <2>2, <2>3, b \in Baskets, req \in [DOMAIN b.sold -> Nat], LineReturns
  <1>6. LinesFit(b, n1, w1)
    <2>1. n1 \in [L -> Nat] /\ w1 \in [L -> Int]
      BY <1>5
    <2> QED
      BY <1>5, <2>1 DEF LinesFit
  <1>7. DOMAIN N = L /\ DOMAIN C = L /\ DOMAIN D = L /\ DOMAIN n = L
    BY <1>4 DEF LineNet, Ceiling
  <1>8. Unfinished(b, n)
    <2>1. PICK l \in L : req[l] > 0
      OBVIOUS
    <2>2. req[l] \in Nat /\ req[l] <= b.sold[l] - n[l] /\ n[l] \in Nat /\ b.sold[l] \in Nat
      BY <1>1, <1>4
    <2>3. n[l] < b.sold[l]
      BY <2>1, <2>2
    <2> QED
      BY <2>3 DEF Unfinished
  <1>9. IsFinal(b, n, req) <=> ~Unfinished(b, n1)
    <2>1. \A l \in L : n[l] + req[l] >= b.sold[l] <=> ~(n1[l] < b.sold[l])
      <3> SUFFICES ASSUME NEW l \in L PROVE n[l] + req[l] >= b.sold[l] <=> ~(n1[l] < b.sold[l])
        OBVIOUS
      <3>1. n1[l] = n[l] + req[l] /\ n1[l] \in Nat /\ b.sold[l] \in Nat
        BY <1>1, <1>5
      <3> QED
        BY <3>1
    <2> QED
      BY <2>1 DEF IsFinal, Unfinished
  <1> DEFINE sumN == SumFunction(N)
             sumC == SumFunction(C)
             sumD == SumFunction(D)
             units == SumFunction(n)
             asked == SumFunction(req)
             units1 == SumFunction(n1)
             E == [l \in L |-> D[l] - C[l]]
  <1>10. /\ sumN \in Int /\ sumC \in Int /\ sumD \in Int
         /\ units \in Nat /\ asked \in Nat /\ units1 \in Nat
    <2>1. SumFunctionOnSet(N, L) \in Int /\ SumFunctionOnSet(C, L) \in Int /\ SumFunctionOnSet(D, L) \in Int
      BY <1>1, <1>5, SumInt
    <2>2. SumFunctionOnSet(n, L) \in Nat /\ SumFunctionOnSet(n1, L) \in Nat
      BY <1>1, <1>4, <1>5, SumNat
    <2>3. SumFunctionOnSet(req, L) \in Nat /\ DOMAIN req = L
      <3>1. \A l \in L : req[l] \in Nat
        OBVIOUS
      <3> QED
        BY <1>1, <3>1, SumNat
    <2> QED
      BY <1>7, <2>1, <2>2, <2>3 DEF SumFunction
  <1>11. units1 = units + asked
    <2>1. \A l \in L : n[l] \in Int /\ req[l] \in Int /\ n1[l] = n[l] + req[l]
      BY <1>4
    <2>2. SumFunctionOnSet(n1, L) = SumFunctionOnSet(n, L) + SumFunctionOnSet(req, L)
      BY <1>1, <2>1, SumPlus
    <2> QED
      BY <1>7, <2>2 DEF SumFunction
  <1>12. sumD = sumC + SumFunctionOnSet(E, L)
    <2>1. \A l \in L : C[l] \in Int /\ E[l] \in Int /\ D[l] = C[l] + E[l]
      <3> SUFFICES ASSUME NEW l \in L PROVE C[l] \in Int /\ E[l] \in Int /\ D[l] = C[l] + E[l]
        OBVIOUS
      <3>1. C[l] \in Int /\ D[l] \in Int /\ E[l] = D[l] - C[l]
        BY <1>5
      <3> HIDE DEF C, D, E
      <3> QED
        BY <3>1
    <2> HIDE DEF C, D, E
    <2>2. SumFunctionOnSet(D, L) = SumFunctionOnSet(C, L) + SumFunctionOnSet(E, L)
      BY <1>1, <2>1, SumPlus
    <2> QED
      BY <1>7, <2>2 DEF SumFunction
  <1>13. SumFunctionOnSet(E, L) \in Nat
    <2>1. \A l \in L : E[l] \in Nat
      <3> SUFFICES ASSUME NEW l \in L PROVE E[l] \in Nat
        OBVIOUS
      <3>1. C[l] \in Int /\ D[l] \in Int /\ E[l] = D[l] - C[l] /\ C[l] <= D[l]
        BY <1>5
      <3> HIDE DEF C, D, E
      <3> QED
        BY <3>1
    <2> HIDE DEF E
    <2> QED
      BY <1>1, <2>1, SumNat
  <1>14. 2 * S * sumN <= total * SumFunctionOnSet(E, L) + S * asked
    <2>1. \A l \in L : /\ N[l] \in Int /\ E[l] \in Int /\ req[l] \in Int
                       /\ (2 * S) * N[l] <= total * E[l] + S * req[l]
      <3> SUFFICES ASSUME NEW l \in L
                   PROVE  /\ N[l] \in Int /\ E[l] \in Int /\ req[l] \in Int
                          /\ (2 * S) * N[l] <= total * E[l] + S * req[l]
        OBVIOUS
      <3>1. /\ N[l] \in Int /\ C[l] \in Int /\ D[l] \in Int /\ E[l] = D[l] - C[l] /\ req[l] \in Int
            /\ 2 * S * N[l] <= total * (D[l] - C[l]) + S * req[l]
        BY <1>5
      <3> HIDE DEF C, D, E, N, S
      <3>2. E[l] \in Int
        BY <3>1
      <3> QED
        BY <3>1, <3>2
    <2>2. 2 * S \in Int /\ total \in Int /\ S \in Int
      BY <1>1, <1>3
    <2> HIDE DEF N, E, S
    <2>3. (2 * S) * SumFunctionOnSet(N, L) <= total * SumFunctionOnSet(E, L) + S * SumFunctionOnSet(req, L)
      BY <1>1, <2>1, <2>2, SumBounded
    <2>4. sumN = SumFunctionOnSet(N, L) /\ asked = SumFunctionOnSet(req, L)
      BY <1>7 DEF SumFunction
    <2> QED
      BY <2>3, <2>4
  <1>15. sumD <= 2 * S + units1
    <2>1. ASSUME NEW l \in L PROVE D[l] <= 2 * b.worth[l] + n1[l]
      <3> DEFINE sold == b.sold[l]
                 worth == b.worth[l]
                 m == n1[l]
                 v == w1[l]
      <3>1. D[l] = IF m = sold THEN 2 * worth + sold ELSE 2 * v
        BY DEF Ceiling
      <3>2. /\ sold \in Nat \ {0} /\ worth \in Nat /\ m \in Nat /\ v \in Int /\ m <= sold
            /\ m < sold => 2 * sold * v <= 2 * worth * m + sold * m
        BY <1>1, <1>5
      <3> HIDE DEF sold, worth, m, v, D
      <3>3. D[l] <= 2 * worth + m
        BY <3>1, <3>2, Ceilinged, SMTT(60)
      <3> QED
        BY <3>3 DEF worth, m
    <2> DEFINE one == 1
               two == 2
    <2>2. \A l \in L : /\ D[l] \in Int /\ b.worth[l] \in Int /\ n1[l] \in Int
                       /\ one * D[l] <= two * b.worth[l] + one * n1[l]
      <3> SUFFICES ASSUME NEW l \in L PROVE /\ D[l] \in Int /\ b.worth[l] \in Int /\ n1[l] \in Int
                                            /\ one * D[l] <= two * b.worth[l] + one * n1[l]
        OBVIOUS
      <3>1. D[l] \in Int /\ b.worth[l] \in Int /\ n1[l] \in Int
        BY <1>1, <1>5
      <3>2. D[l] <= 2 * b.worth[l] + n1[l]
        BY <2>1
      <3> HIDE DEF D
      <3> QED
        BY <3>1, <3>2
    <2>3. sumD = SumFunctionOnSet(D, L) /\ S = SumFunctionOnSet(b.worth, L)
          /\ units1 = SumFunctionOnSet(n1, L)
      BY <1>7, Basketed DEF SumFunction, Subtotal
    <2>4. one \in Int /\ two \in Int
      OBVIOUS
    <2> HIDE DEF D, one, two
    <2>5. one * SumFunctionOnSet(D, L) <= two * SumFunctionOnSet(b.worth, L) + one * SumFunctionOnSet(n1, L)
      BY <1>1, <2>2, <2>4, SumBounded
    <2> HIDE DEF sumD, S, units1
    <2> QED
      BY <1>10, <1>1, <2>3, <2>5 DEF one, two
  <1>16. V = LET x == IF IsFinal(b, n, req) THEN total - value ELSE sumN IN IF x > 0 THEN x ELSE 0
    BY DEF ReturnTotal
  <1>17. /\ 2 * S * value <= total * sumC + S * units
         /\ value <= total + units
    BY <1>8 DEF NetFits
  <1> DEFINE Z == SumFunctionOnSet(E, L)
             fin == IsFinal(b, n, req)
  <1>18. SUFFICES /\ value + V \in Nat
                  /\ ~fin => 2 * S * (value + V) <= total * sumD + S * units1
                  /\ value + V <= total + units1
                  /\ fin => value + V >= total
    BY <1>2, <1>6, <1>9 DEF NetFits
  <1>19. Z \in Nat /\ sumD = sumC + Z /\ 2 * S * sumN <= total * Z + S * asked
    BY <1>12, <1>13, <1>14
  <1>20. V = IF fin THEN IF total - value > 0 THEN total - value ELSE 0
             ELSE IF sumN > 0 THEN sumN ELSE 0
    BY <1>16
  <1> HIDE DEF L, S, N, C, D, V, sumN, sumC, sumD, units, asked, units1, Z, fin, E
  <1>21. CASE fin
    BY <1>2, <1>3, <1>10, <1>11, <1>17, <1>20, <1>21
  <1>22. CASE ~fin
    <2>1. V \in Nat /\ 2 * S * V <= total * Z + S * asked
      <3>1. total * Z >= 0 /\ S * asked >= 0
        BY <1>1, <1>3, <1>10, <1>19
      <3>2. CASE sumN > 0
        BY <1>10, <1>19, <1>20, <1>22, <3>2
      <3>3. CASE ~(sumN > 0)
        <4>1. V = 0
          BY <1>20, <1>22, <3>3
        <4>2. 2 * S * V = 0
          BY <4>1, <1>1
        <4>3. total * Z \in Int /\ S * asked \in Int
          BY <1>1, <1>3, <1>10, <1>19
        <4> QED
          BY <3>1, <4>1, <4>2, <4>3
      <3> QED
        BY <3>2, <3>3
    <2>2. 2 * S * (value + V) <= total * sumD + S * units1
      <3>1. 2 * S * (value + V) = 2 * S * value + 2 * S * V
        BY <1>1, <1>2, <2>1
      <3>2. total * sumD = total * sumC + total * Z /\ S * units1 = S * units + S * asked
        BY <1>1, <1>3, <1>10, <1>11, <1>19
      <3> DEFINE a1 == 2 * S * value
                 a2 == 2 * S * V
                 b1 == total * sumC
                 b2 == total * Z
                 c1 == S * units
                 c2 == S * asked
      <3>3. a1 \in Int /\ a2 \in Int /\ b1 \in Int /\ b2 \in Int /\ c1 \in Int /\ c2 \in Int
        BY <1>1, <1>2, <1>3, <1>10, <1>19, <2>1
      <3>4. a1 <= b1 + c1 /\ a2 <= b2 + c2
        BY <1>17, <2>1
      <3> HIDE DEF a1, a2, b1, b2, c1, c2
      <3>5. a1 + a2 <= (b1 + b2) + (c1 + c2)
        BY <3>3, <3>4
      <3> QED
        BY <3>1, <3>2, <3>5 DEF a1, a2, b1, b2, c1, c2
    <2>3. value + V <= total + units1
      <3> DEFINE X == value + V
                 T == total + units1
      <3>1. X \in Nat /\ T \in Nat
        BY <1>2, <1>3, <1>10, <2>1
      <3>2. total * sumD <= total * (2 * S + units1)
        BY <1>1, <1>3, <1>10, <1>15, SMT
      <3>3. total * units1 <= S * units1
        BY <1>1, <1>3, <1>10, SMT
      <3>4. total * (2 * S + units1) = 2 * S * total + total * units1
        BY <1>1, <1>3, <1>10
      <3>5. 2 * S * X <= 2 * S * T
        <4> DEFINE a1 == 2 * S * X
                   b1 == total * sumD
                   b2 == total * (2 * S + units1)
                   b3 == 2 * S * total
                   c1 == total * units1
                   c2 == S * units1
        <4>1. /\ a1 \in Int /\ b1 \in Int /\ b2 \in Int /\ b3 \in Int /\ c1 \in Int /\ c2 \in Int
              /\ 2 * S * T = b3 + 2 * c2
          BY <1>1, <1>2, <1>3, <1>10, <2>1
        <4>2. a1 <= b1 + c2 /\ b1 <= b2 /\ b2 = b3 + c1 /\ c1 <= c2
          BY <2>2, <3>2, <3>3, <3>4
        <4> HIDE DEF a1, b1, b2, b3, c1, c2
        <4>3. a1 <= b3 + 2 * c2
          BY <4>1, <4>2
        <4> QED
          BY <4>1, <4>3 DEF a1
      <3> HIDE DEF X, T
      <3>6. SUFFICES ASSUME X >= T + 1 PROVE FALSE
        BY <3>1 DEF X, T
      <3>7. 2 * S * X >= 2 * S * (T + 1)
        BY <1>1, <3>1, <3>6, SMT
      <3>8. 2 * S * (T + 1) = 2 * S * T + 2 * S
        BY <1>1, <3>1
      <3>9. 2 * S * T \in Int /\ 2 * S * X \in Int
        BY <1>1, <3>1
      <3> QED
        BY <1>1, <3>5, <3>7, <3>8, <3>9
    <2> QED
      BY <1>2, <1>22, <2>1, <2>2, <2>3
  <1> QED
    BY <1>21, <1>22

------------------------------------------------------------------------------
\* The lines of a sale and what came back of them.
NetBooks(i) == Sold(i) => NetFits(receipt[i].basket, receipt[i].total, back[i], backWorth[i], returned[i])

\* What a return under way was asked for is still to be had.
Asked(s) ==
  LET i == job[s].id
      sold == receipt[i].basket.sold
      req == job[s].req
  IN  phase[s] = "settle" =>
        /\ req \in [DOMAIN sold -> Nat] /\ \E l \in DOMAIN sold : req[l] > 0
        /\ \A l \in DOMAIN sold : req[l] <= sold[l] - back[i][l]

NetsOK == /\ DOMAIN back = Sales /\ DOMAIN backWorth = Sales
          /\ \A i \in Sales : NetBooks(i)
          /\ \A s \in Sessions : Asked(s)

\* Nothing about the goods changes, and no return begins.
NoGoods == /\ UNCHANGED <<receipt, back, backWorth, returned>>
           /\ \A s \in Sessions : phase'[s] = "settle" => phase[s] = "settle" /\ job'[s] = job[s]

LEMMA NoGoodsKeeps == ASSUME NetsOK, NoGoods PROVE NetsOK'
PROOF
  <1>1. ASSUME NEW i \in Sales PROVE NetBooks(i)'
    BY DEF NetsOK, NoGoods, NetBooks, Sold
  <1>2. ASSUME NEW s \in Sessions PROVE Asked(s)'
    BY DEF NetsOK, NoGoods, Asked
  <1>3. DOMAIN back' = Sales /\ DOMAIN backWorth' = Sales
    BY DEF NetsOK, NoGoods
  <1> QED
    BY <1>1, <1>2, <1>3 DEF NetsOK

\* A step of one request that comes to another statement than the return's.
LEMMA Elsewhere ==
  ASSUME CreditOK, NEW s \in Sessions, NEW here, NEW there, NEW asked, NEW read,
         \/ Enter(s, there, asked, read) \/ Proceed(s, here, there, read)
         \/ Leave(s, here) /\ there = "idle",
         there # "settle", UNCHANGED <<receipt, back, backWorth, returned>>
  PROVE  NoGoods
PROOF
  <1>1. phase'[s] = there /\ \A t \in Sessions \ {s} : phase'[t] = phase[t] /\ job'[t] = job[t]
    BY DEF CreditOK, Shaped, Enter, Proceed, Leave
  <1> QED
    BY <1>1 DEF NoGoods

LEMMA AtTheTill ==
  ASSUME UNCHANGED desk, UNCHANGED <<receipt, back, backWorth, returned>>
  PROVE  NoGoods
  BY DEF desk, NoGoods

LEMMA SellNets == ASSUME CreditOK, NetsOK, NEW i \in Sales, Sell(i) PROVE NetsOK'
PROOF
  <1>1. PICK b \in Baskets, d \in Discounts, t \in Tenders, asked \in Redeems : RingUp(i, b, d, t, asked)
    BY DEF Sell
  <1> DEFINE total == Discounted(Subtotal(b), d)
             use == PointsSpent(asked, total)
             down == Booked(t, total - use)
             earned == Cashback(total)
             r == [state |-> "sold", basket |-> b, total |-> total,
                   redeemed |-> use, earned |-> earned, down |-> down]
             n == [l \in DOMAIN b.sold |-> 0]
  <1>2. /\ receipt[i] = NoReceipt /\ {total, use, down, earned} \subseteq 0..MaxMoney
        /\ receipt' = [receipt EXCEPT ![i] = r]
        /\ back' = [back EXCEPT ![i] = n] /\ backWorth' = [backWorth EXCEPT ![i] = n]
        /\ returned' = returned /\ desk' = desk
    BY <1>1 DEF RingUp
  <1>3. returned[i] = 0
    BY <1>2 DEF CreditOK, Books, Untouched
  <1>4. total \in 0..Subtotal(b)
    <2>1. d \in 0..100 /\ Subtotal(b) \in Nat \ {0}
      BY SalesAssumption, Basketed
    <2>2. d \in Int /\ Subtotal(b) \in Int /\ Subtotal(b) * d >= 0 /\ 100 \in Nat \ {0}
      BY <2>1
    <2>3. Rounded(Subtotal(b), d, 100) \in Int /\ Rounded(Subtotal(b), d, 100) >= 0
      BY <2>2, RoundedUp
    <2>4. total = Subtotal(b) - Rounded(Subtotal(b), d, 100)
      BY DEF Discounted
    <2>5. total \in 0..MaxMoney /\ MaxMoney \in Nat
      BY <1>2, SalesAssumption
    <2> HIDE DEF total
    <2> QED
      BY <2>1, <2>3, <2>4, <2>5
  <1> HIDE DEF total, use, down, earned
  <1>5. r.basket = b /\ r.total = total
    OBVIOUS
  <1> HIDE DEF r
  <1>6. /\ receipt'[i] = r /\ back'[i] = n /\ backWorth'[i] = n /\ returned'[i] = 0
        /\ \A k \in Sales \ {i} : /\ receipt'[k] = receipt[k] /\ back'[k] = back[k]
                                  /\ backWorth'[k] = backWorth[k] /\ returned'[k] = returned[k]
        /\ DOMAIN back' = Sales /\ DOMAIN backWorth' = Sales
    BY <1>2, <1>3 DEF CreditOK, Shaped, NetsOK
  <1>7. NetFits(b, total, n, n, 0)
    <2> DEFINE L == DOMAIN b.sold
               C == Ceiling(b, n, n)
    <2>1. IsFiniteSet(L) /\ Subtotal(b) \in Nat \ {0} /\ \A l \in L : b.sold[l] \in Nat \ {0}
      BY Basketed
    <2>2. LinesFit(b, n, n)
      <3>1. \A l \in L : b.worth[l] \in Nat /\ b.sold[l] \in Nat
        BY Basketed
      <3>2. n \in [L -> Nat] /\ n \in [L -> Int] /\ \A l \in L : n[l] = 0
        OBVIOUS
      <3>3. \A x, y \in Nat : 0 <= x /\ 2 * x * 0 <= 2 * y * 0 + x * 0
        OBVIOUS
      <3> HIDE DEF n
      <3> QED
        BY <3>1, <3>2, <3>3 DEF LinesFit
    <2>3. \A l \in L : C[l] = 0 /\ n[l] = 0
      BY <2>1 DEF Ceiling
    <2>4. DOMAIN C = L /\ DOMAIN n = L
      BY DEF Ceiling
    <2>5. L # {}
      <3>1. Subtotal(b) = SumFunctionOnSet(b.worth, L)
        BY Basketed DEF Subtotal, SumFunction
      <3> QED
        BY <2>1, <3>1, SumEmpty
    <2>6. Unfinished(b, n)
      BY <2>1, <2>3, <2>5 DEF Unfinished
    <2> HIDE DEF C, n
    <2>7. SumFunction(C) = 0 /\ SumFunction(n) = 0
      BY <2>1, <2>3, <2>4, SumZero DEF SumFunction
    <2>8. total \in Nat
      <3>1. Subtotal(b) \in Nat
        BY <2>1
      <3> QED
        BY <1>4, <3>1
    <2>9. 2 * Subtotal(b) * 0 <= total * 0 + Subtotal(b) * 0 /\ 0 <= total + 0
      BY <2>1, <2>8
    <2> QED
      BY <1>4, <2>2, <2>6, <2>7, <2>9 DEF NetFits, C
  <1>8. NetBooks(i)'
    BY <1>5, <1>6, <1>7 DEF NetBooks
  <1>9. ASSUME NEW k \in Sales \ {i} PROVE NetBooks(k)'
    BY <1>6 DEF NetsOK, NetBooks, Sold
  <1>10. ASSUME NEW s \in Sessions PROVE Asked(s)'
    <2>1. phase' = phase /\ job' = job
      BY <1>2 DEF desk
    <2>2. CASE phase[s] = "settle"
      <3>1. job[s].id \in Sales /\ Sold(job[s].id)
        BY <2>2, HeldSales
      <3>2. job[s].id # i
        BY <1>2, <3>1 DEF Sold, NoReceipt
      <3>3. receipt'[job[s].id] = receipt[job[s].id] /\ back'[job[s].id] = back[job[s].id]
        BY <1>6, <3>1, <3>2
      <3> QED
        BY <2>1, <3>3 DEF NetsOK, Asked
    <2>3. CASE phase[s] # "settle"
      BY <2>1, <2>3 DEF Asked
    <2> QED
      BY <2>2, <2>3
  <1> QED
    BY <1>6, <1>8, <1>9, <1>10 DEF NetsOK

LEMMA TakeBackNets == ASSUME CreditOK, NetsOK, NEW s \in Sessions, TakeBack(s) PROVE NetsOK'
PROOF
  <1>1. PICK i \in {j \in Sales : Sold(j)} : \E req \in Requests(i) :
          /\ ~SaleLocked(i)
          /\ Enter(s, "settle", [kind |-> "return", id |-> i, req |-> req],
                   [kind |-> "debt", owed |-> owed[i], paid |-> paid[i], standing |-> standing[i]])
          /\ UNCHANGED <<order, debt, points>>
    BY DEF TakeBack
  <1>2. PICK req \in Requests(i) :
          /\ Enter(s, "settle", [kind |-> "return", id |-> i, req |-> req],
                   [kind |-> "debt", owed |-> owed[i], paid |-> paid[i], standing |-> standing[i]])
          /\ UNCHANGED <<order, debt, points>>
    BY <1>1
  <1> DEFINE j == [kind |-> "return", id |-> i, req |-> req]
  <1>3. /\ phase'[s] = "settle" /\ job'[s] = j
        /\ \A t \in Sessions \ {s} : phase'[t] = phase[t] /\ job'[t] = job[t]
    BY <1>2 DEF CreditOK, Shaped, Enter
  <1>4. UNCHANGED <<receipt, back, backWorth, returned>>
    BY <1>2 DEF order
  <1>5. j.id = i /\ j.req = req
    OBVIOUS
  <1> HIDE DEF j
  <1> DEFINE sold == receipt[i].basket.sold
  <1>6. /\ req \in [DOMAIN sold -> Nat] /\ \E l \in DOMAIN sold : req[l] > 0
        /\ \A l \in DOMAIN sold : req[l] <= sold[l] - back[i][l]
    <2>1. /\ req \in [DOMAIN sold -> 0..MaxUnits] /\ \E l \in DOMAIN sold : req[l] > 0
          /\ \A l \in DOMAIN sold : req[l] <= sold[l] - back[i][l]
      BY <1>2 DEF Requests
    <2>2. \A l \in DOMAIN sold : req[l] \in Nat
      BY <2>1
    <2> QED
      BY <2>1, <2>2
  <1>7. Asked(s)'
    BY <1>3, <1>4, <1>5, <1>6 DEF Asked
  <1>8. ASSUME NEW t \in Sessions \ {s} PROVE Asked(t)'
    BY <1>3, <1>4 DEF NetsOK, Asked
  <1>9. ASSUME NEW k \in Sales PROVE NetBooks(k)'
    BY <1>4 DEF NetsOK, NetBooks, Sold
  <1> QED
    BY <1>4, <1>7, <1>8, <1>9 DEF NetsOK

LEMMA SettleNets == ASSUME CreditOK, NetsOK, NEW s \in Sessions, Settle(s) PROVE NetsOK'
PROOF
  <1>0. PICK i : i = job[s].id
    BY SMTT(60)
  <1> DEFINE req == job[s].req
             r == receipt[i]
             b == r.basket
             n == back[i]
             w == backWorth[i]
             value == ReturnTotal(r.basket, r.total, back[i], backWorth[i], returned[i], req)
             n1 == [l \in DOMAIN n |-> n[l] + req[l]]
             w1 == [l \in DOMAIN w |-> IF req[l] = 0 THEN w[l]
                                       ELSE w[l] + LineWorth(r.basket, back[i], backWorth[i], req, l)]
  <1>1. /\ Leave(s, "settle")
        /\ back' = [back EXCEPT ![i] = n1] /\ backWorth' = [backWorth EXCEPT ![i] = w1]
        /\ returned' = [returned EXCEPT ![i] = @ + value]
        /\ receipt' = receipt
    BY <1>0, Zenon DEF Settle
  <1>2. /\ phase[s] = "settle" /\ phase'[s] = "idle"
        /\ \A t \in Sessions \ {s} : phase'[t] = phase[t] /\ job'[t] = job[t]
    BY <1>1 DEF CreditOK, Shaped, Leave
  <1>3. i \in Sales /\ Sold(i)
    BY <1>0, <1>2, HeldSales
  <1>4. b \in Baskets
    <2>1. r \in Receipts
      BY <1>3 DEF CreditOK, Books, Typed, Sold, NoReceipt
    <2> QED
      BY <2>1 DEF Receipts
  <1>5. NetFits(b, r.total, n, w, returned[i])
    BY <1>3 DEF NetsOK, NetBooks
  <1>6. /\ req \in [DOMAIN b.sold -> Nat] /\ \E l \in DOMAIN b.sold : req[l] > 0
        /\ \A l \in DOMAIN b.sold : req[l] <= b.sold[l] - n[l]
    BY <1>0, <1>2 DEF NetsOK, Asked
  <1>7. DOMAIN n = DOMAIN b.sold /\ DOMAIN w = DOMAIN b.sold
    BY <1>5 DEF NetFits, LinesFit
  <1>8. /\ DOMAIN n1 = DOMAIN b.sold /\ DOMAIN w1 = DOMAIN b.sold
        /\ n1 = [l \in DOMAIN n1 |-> n1[l]] /\ w1 = [l \in DOMAIN w1 |-> w1[l]]
        /\ \A l \in DOMAIN b.sold : n1[l] = n[l] + req[l] /\ w1[l] = LineBack(b, n, w, req, l)
    BY <1>7 DEF LineBack
  <1>9. /\ receipt'[i] = r /\ back'[i] = n1 /\ backWorth'[i] = w1 /\ returned'[i] = returned[i] + value
        /\ \A k \in Sales \ {i} : /\ receipt'[k] = receipt[k] /\ back'[k] = back[k]
                                  /\ backWorth'[k] = backWorth[k] /\ returned'[k] = returned[k]
        /\ DOMAIN back' = Sales /\ DOMAIN backWorth' = Sales
    BY <1>1, <1>3 DEF CreditOK, Shaped, NetsOK
  <1>10. NetFits(b, r.total, n1, w1, returned[i] + value)
    <2> DEFINE total == r.total
               before == returned[i]
    <2>1. value = ReturnTotal(b, total, n, w, before, req)
      OBVIOUS
    <2>2. NetFits(b, total, n, w, before)
      BY <1>5
    <2> HIDE DEF b, total, n, w, n1, w1, req, value, before
    <2>3. NetFits(b, total, n1, w1, before + ReturnTotal(b, total, n, w, before, req))
      BY <1>4, <1>6, <1>8, <2>2, ReturnFits
    <2> QED
      BY <2>1, <2>3 DEF total, before
  <1>11. NetBooks(i)'
    <2>1. NetFits(receipt'[i].basket, receipt'[i].total, back'[i], backWorth'[i], returned'[i])
      BY <1>9, <1>10
    <2> QED
      BY <2>1 DEF NetBooks
  <1>12. ASSUME NEW k \in Sales \ {i} PROVE NetBooks(k)'
    BY <1>9 DEF NetsOK, NetBooks, Sold
  <1>13. Asked(s)'
    BY <1>2 DEF Asked
  <1>14. ASSUME NEW t \in Sessions \ {s} PROVE Asked(t)'
    <2>1. CASE phase[t] = "settle"
      <3>1. job[t].id \in Sales /\ job[t].id # i
        BY <1>0, <1>2, <2>1, HeldSales DEF CreditOK, OneReturn
      <3>2. receipt'[job[t].id] = receipt[job[t].id] /\ back'[job[t].id] = back[job[t].id]
        BY <1>9, <3>1
      <3>3. phase'[t] = phase[t] /\ job'[t] = job[t] /\ Asked(t)
        BY <1>2 DEF NetsOK
      <3> QED
        BY <3>2, <3>3 DEF Asked
    <2>2. CASE phase[t] # "settle"
      BY <1>2, <2>2 DEF Asked
    <2> QED
      BY <2>1, <2>2
  <1>15. DOMAIN back' = Sales /\ DOMAIN backWorth' = Sales
    BY <1>9
  <1>16. \A k \in Sales : NetBooks(k)'
    BY <1>11, <1>12
  <1>17. \A t \in Sessions : Asked(t)'
    BY <1>13, <1>14
  <1> QED
    BY <1>15, <1>16, <1>17 DEF NetsOK

LEMMA EraseNets == ASSUME CreditOK, NetsOK, NEW s \in Sessions, Erase(s) PROVE NetsOK'
PROOF
  <1>0. PICK i : i = job[s].id
    OBVIOUS
  <1>1. /\ Leave(s, "erase") /\ ~SaleLocked(i)
        /\ receipt' = [receipt EXCEPT ![i].state = "deleted"]
        /\ returned' = [returned EXCEPT ![i] = 0]
        /\ back' = back /\ backWorth' = backWorth
    BY <1>0 DEF Erase
  <1>2. /\ phase[s] = "erase" /\ phase'[s] = "idle"
        /\ \A t \in Sessions \ {s} : phase'[t] = phase[t] /\ job'[t] = job[t]
    BY <1>1 DEF CreditOK, Shaped, Leave
  <1>3. i \in Sales /\ receipt[i] \in Receipts
    BY <1>0, <1>2 DEF CreditOK, Working, Books, Typed
  <1>4. /\ receipt'[i].state = "deleted"
        /\ \A k \in Sales \ {i} : receipt'[k] = receipt[k] /\ returned'[k] = returned[k]
    BY <1>1, <1>3 DEF CreditOK, Shaped, Receipts
  <1>5. NetBooks(i)'
    BY <1>4 DEF NetBooks, Sold
  <1>6. ASSUME NEW k \in Sales \ {i} PROVE NetBooks(k)'
    BY <1>1, <1>4 DEF NetsOK, NetBooks, Sold
  <1>7. Asked(s)'
    BY <1>2 DEF Asked
  <1>8. ASSUME NEW t \in Sessions \ {s} PROVE Asked(t)'
    <2>1. CASE phase[t] = "settle"
      <3>1. job[t].id \in Sales /\ job[t].id # i
        BY <1>1, <2>1, HeldSales DEF SaleLocked
      <3>2. receipt'[job[t].id] = receipt[job[t].id] /\ back' = back
        BY <1>1, <1>4, <3>1
      <3>3. phase'[t] = phase[t] /\ job'[t] = job[t] /\ Asked(t)
        BY <1>2 DEF NetsOK
      <3> QED
        BY <3>2, <3>3 DEF Asked
    <2>2. CASE phase[t] # "settle"
      BY <1>2, <2>2 DEF Asked
    <2> QED
      BY <2>1, <2>2
  <1>9. DOMAIN back' = Sales /\ DOMAIN backWorth' = Sales
    BY <1>1 DEF NetsOK
  <1>10. \A k \in Sales : NetBooks(k)'
    BY <1>5, <1>6
  <1>11. \A t \in Sessions : Asked(t)'
    BY <1>7, <1>8
  <1> QED
    BY <1>9, <1>10, <1>11 DEF NetsOK

LEMMA QuietNets ==
  ASSUME CreditOK, NEW s \in Sessions,
         \/ LookToPay(s) \/ EnterPayment(s) \/ LookToUnpay(s) \/ DropPayment(s)
         \/ SumPaid(s) \/ MarkDebt(s) \/ LookToDelete(s) \/ ReadMoves(s) \/ LockCustomer(s)
         \/ CreditGivesUp(s)
  PROVE  NoGoods
PROOF
  <1>1. UNCHANGED <<receipt, back, backWorth, returned>>
    BY DEF LookToPay, EnterPayment, LookToUnpay, DropPayment, SumPaid, MarkDebt, LookToDelete,
           ReadMoves, LockCustomer, CreditGivesUp, order
  <1>2. CASE LookToPay(s)
    <2>1. PICK i, a : Enter(s, "pay", [kind |-> "pay", id |-> i, amount |-> a],
                                      [kind |-> "debt", owed |-> owed[i], due |-> due[i]])
      BY <1>2 DEF LookToPay
    <2> QED
      BY <1>1, <2>1, Elsewhere
  <1>3. CASE LookToUnpay(s)
    <2>1. PICK i, p : Enter(s, "unpay", [kind |-> "unpay", id |-> i, payment |-> p],
                            [kind |-> "debt", owed |-> owed[i], due |-> due[i]])
      BY <1>3 DEF LookToUnpay
    <2> QED
      BY <1>1, <2>1, Elsewhere
  <1>4. CASE LookToDelete(s)
    <2>1. PICK i : Enter(s, "moves", [kind |-> "delete", id |-> i], NothingSeen)
      BY <1>4 DEF LookToDelete
    <2> QED
      BY <1>1, <2>1, Elsewhere
  <1>5. CASE EnterPayment(s)
    BY <1>1, <1>5, Elsewhere DEF EnterPayment
  <1>6. CASE DropPayment(s)
    BY <1>1, <1>6, Elsewhere DEF DropPayment
  <1>7. CASE SumPaid(s)
    BY <1>1, <1>7, Elsewhere DEF SumPaid
  <1>8. CASE MarkDebt(s)
    BY <1>1, <1>8, Elsewhere DEF MarkDebt
  <1>9. CASE ReadMoves(s)
    BY <1>1, <1>9, Elsewhere DEF ReadMoves
  <1>10. CASE LockCustomer(s)
    BY <1>1, <1>10, Elsewhere DEF LockCustomer
  <1>11. CASE CreditGivesUp(s)
    BY <1>1, <1>11, Elsewhere DEF CreditGivesUp, Abandon
  <1> QED
    BY <1>2, <1>3, <1>4, <1>5, <1>6, <1>7, <1>8, <1>9, <1>10, <1>11

LEMMA NetsStart == CreditInit => NetsOK
  BY DEF CreditInit, DeskInit, NetsOK, NetBooks, Asked, Sold, NoReceipt

LEMMA NetsSteps == CreditOK /\ NetsOK /\ [CreditNext]_creditVars => NetsOK'
PROOF
  <1> SUFFICES ASSUME CreditOK, NetsOK, [CreditNext]_creditVars PROVE NetsOK'
    OBVIOUS
  <1>1. CASE ListDebts
    <2>1. UNCHANGED desk /\ UNCHANGED <<receipt, back, backWorth, returned>>
      BY <1>1 DEF ListDebts, order
    <2> QED
      BY <2>1, AtTheTill, NoGoodsKeeps
  <1>2. ASSUME NEW i \in Sales, DueDatePasses(i) \/ Lend(i) \/ EditDebt(i) \/ ForgiveDebt(i)
        PROVE  NetsOK'
    <2>1. UNCHANGED desk /\ UNCHANGED <<receipt, back, backWorth, returned>>
      BY <1>2 DEF DueDatePasses, Lend, EditDebt, ForgiveDebt, order
    <2> QED
      BY <2>1, AtTheTill, NoGoodsKeeps
  <1>3. ASSUME NEW i \in Sales, Sell(i) PROVE NetsOK'
    BY <1>3, SellNets
  <1>4. ASSUME NEW s \in Sessions,
               \/ LookToPay(s) \/ EnterPayment(s) \/ LookToUnpay(s) \/ DropPayment(s)
               \/ SumPaid(s) \/ MarkDebt(s)
               \/ TakeBack(s) \/ Settle(s)
               \/ LookToDelete(s) \/ ReadMoves(s) \/ LockCustomer(s) \/ Erase(s)
               \/ CreditGivesUp(s)
        PROVE  NetsOK'
    BY <1>4, QuietNets, NoGoodsKeeps, TakeBackNets, SettleNets, EraseNets
  <1>5. CASE UNCHANGED creditVars
    <2>1. UNCHANGED desk /\ UNCHANGED <<receipt, back, backWorth, returned>>
      BY <1>5 DEF creditVars, order
    <2> QED
      BY <2>1, AtTheTill, NoGoodsKeeps
  <1> QED
    BY <1>1, <1>2, <1>3, <1>4, <1>5 DEF CreditNext

\* Lines that came back as often as they were sold leave none unfinished.
LEMMA AllBack ==
  ASSUME NEW b \in Baskets, NEW n, NEW w, LinesFit(b, n, w), SumFunction(n) = SumFunction(b.sold)
  PROVE  ~Unfinished(b, n)
PROOF
  <1> DEFINE L == DOMAIN b.sold
             left == [l \in L |-> b.sold[l] - n[l]]
  <1>1. IsFiniteSet(L) /\ n \in [L -> Nat] /\ DOMAIN n = L
        /\ \A l \in L : b.sold[l] \in Nat /\ n[l] \in Nat /\ n[l] <= b.sold[l]
    BY Basketed DEF LinesFit
  <1>2. \A l \in L : left[l] \in Nat /\ left[l] = b.sold[l] - n[l]
    BY <1>1
  <1>3. \A l \in L : n[l] \in Int /\ left[l] \in Int /\ b.sold[l] = n[l] + left[l]
    BY <1>1, <1>2
  <1> HIDE DEF left
  <1>4. SumFunctionOnSet(b.sold, L) = SumFunctionOnSet(n, L) + SumFunctionOnSet(left, L)
    BY <1>1, <1>3, SumPlus
  <1>5. SumFunctionOnSet(n, L) \in Nat /\ SumFunctionOnSet(left, L) \in Nat
    BY <1>1, <1>2, SumNat
  <1>6. SumFunctionOnSet(left, L) = 0
    BY <1>1, <1>4, <1>5 DEF SumFunction
  <1>7. SUFFICES ASSUME NEW l \in L, n[l] < b.sold[l] PROVE FALSE
    BY DEF Unfinished
  <1>8. left[l] <= SumFunctionOnSet(left, L)
    BY <1>1, <1>2, SumMember
  <1> QED
    BY <1>1, <1>2, <1>6, <1>7, <1>8

\* "A sale returned in several goes always nets back to the cent" (return-math.ts
\* 12): whatever the basket, the discount and the parts it comes back in, its
\* returns come to its total at least, once all is back, and never to more than
\* the total and a coin for each unit, rounding being all that parts them.
THEOREM NetsBackThm == CreditSpec => []NetsBack
PROOF
  <1>1. CreditOK /\ NetsOK => NetsBack
    <2> SUFFICES ASSUME CreditOK, NetsOK, NEW i \in Sales, Sold(i)
                 PROVE  LET units == SumFunction(back[i])
                        IN  /\ OrZero(returned[i] - receipt[i].total) <= units
                            /\ units = SumFunction(receipt[i].basket.sold)
                                 => returned[i] >= receipt[i].total
      BY DEF NetsBack
    <2> DEFINE b == receipt[i].basket
               total == receipt[i].total
               units == SumFunction(back[i])
               value == returned[i]
    <2>1. receipt[i] \in Receipts
      BY DEF CreditOK, Books, Typed, Sold, NoReceipt
    <2>2. b \in Baskets /\ total \in Nat
      BY <2>1 DEF Receipts
    <2>3. /\ LinesFit(b, back[i], backWorth[i]) /\ value \in Nat /\ value <= total + units
          /\ ~Unfinished(b, back[i]) => value >= total
      BY DEF NetsOK, NetBooks, NetFits
    <2>4. units \in Nat
      <3>1. back[i] \in [DOMAIN b.sold -> Nat] /\ IsFiniteSet(DOMAIN b.sold)
        BY <2>2, <2>3, Basketed DEF LinesFit
      <3>2. DOMAIN back[i] = DOMAIN b.sold /\ \A l \in DOMAIN b.sold : back[i][l] \in Nat
        BY <3>1
      <3> QED
        BY <3>1, <3>2, SumNat DEF SumFunction
    <2>5. units = SumFunction(b.sold) => value >= total
      BY <2>2, <2>3, AllBack
    <2> HIDE DEF units, total, value
    <2>6. OrZero(value - total) <= units
      BY <2>2, <2>3, <2>4 DEF OrZero
    <2> QED
      BY <2>5, <2>6 DEF units, total, value
  <1>2. CreditInit => CreditOK /\ NetsOK
    BY CreditStarts, NetsStart
  <1>3. CreditOK /\ NetsOK /\ [CreditNext]_creditVars => CreditOK' /\ NetsOK'
    BY CreditSteps, NetsSteps
  <1> QED
    BY <1>1, <1>2, <1>3, PTL DEF CreditSpec

--------------------------------------------------------------------------------
\* Employees.

Owners == Staff \union {"none"}

EntryTypes == {"payment", "bonus", "deduction", "accrual"}

EntrySet == [type : EntryTypes, of : Staff, amount : Int, month : Int, row : Nat]

PaidByRow(entry) == entry.row # 0 <=> entry.type = "payment"

EntriesOK ==
  /\ entries \in Seq(EntrySet \union {Gone})
  /\ \A n \in Live : PaidByRow(entries[n])

\* What a request about to undo an entry holds: the entry as it stands, or one that is gone;
\* and the row of a payment is no other entry's.
Undoing(s) ==
  phase[s] = "undo" =>
    /\ job[s].entry \in DOMAIN entries
    /\ seen[s] \in EntrySet /\ PaidByRow(seen[s])
    /\ seen[s].row # 0 => /\ seen[s].row \in DOMAIN rows
                          /\ rows[seen[s].row].source = "payroll"
                          /\ \A n \in Live : entries[n].row = seen[s].row => n = job[s].entry
    /\ entries[job[s].entry] \in {seen[s], Gone}

Accruing(s) == phase[s] \in {"accrue", "auto"} => seen[s] \subseteq Staff /\ job[s].month \in Int

DeskOK == DOMAIN phase = Sessions /\ DOMAIN job = Sessions /\ DOMAIN seen = Sessions

PayrollOK ==
  /\ today \in Nat
  /\ LedgerOK(rows, Owners)
  /\ EntriesOK
  /\ PayrollMatchesLedger
  /\ DeskOK
  /\ \A s \in Sessions : Undoing(s) /\ Accruing(s)

------------------------------------------------------------------------------
LEMMA GoneIsNoEntry == Gone \notin EntrySet
  BY DEF Gone, EntrySet, EntryTypes

LEMMA LiveEntries ==
  ASSUME EntriesOK
  PROVE  /\ \A n \in Live : n \in DOMAIN entries /\ entries[n] \in EntrySet
         /\ \A n \in DOMAIN entries : entries[n] \in EntrySet \union {Gone}
  BY DEF EntriesOK, Live

\* Entries are added at the end, with new rows or none, or go; rows only grow.
EntriesGrow ==
  /\ \A n \in DOMAIN entries : n \in DOMAIN entries' /\ entries'[n] \in {entries[n], Gone}
  /\ \A n \in Live' : n \in DOMAIN entries \/ entries'[n].row \notin DOMAIN rows

RowsGrow ==
  \A m \in DOMAIN rows : /\ m \in DOMAIN rows' /\ rows'[m].source = rows[m].source
                         /\ rows'[m].amount = rows[m].amount /\ rows'[m].of = rows[m].of

\* Whoever is not moving keeps what it holds.
LEMMA Waiting ==
  ASSUME PayrollOK, NEW s \in Sessions, EntriesGrow, RowsGrow,
         phase'[s] = phase[s], job'[s] = job[s], seen'[s] = seen[s]
  PROVE  Undoing(s)' /\ Accruing(s)'
PROOF
  <1>1. Undoing(s) /\ Accruing(s)
    BY DEF PayrollOK
  <1>2. Accruing(s)'
    BY <1>1 DEF Accruing
  <1>3. ASSUME phase'[s] = "undo" PROVE Undoing(s)'
    <2>1. /\ job[s].entry \in DOMAIN entries
          /\ seen[s] \in EntrySet /\ PaidByRow(seen[s])
          /\ seen[s].row # 0 => /\ seen[s].row \in DOMAIN rows
                                /\ rows[seen[s].row].source = "payroll"
                                /\ \A n \in Live : entries[n].row = seen[s].row => n = job[s].entry
          /\ entries[job[s].entry] \in {seen[s], Gone}
      BY <1>1, <1>3 DEF Undoing
    <2>2. job'[s].entry \in DOMAIN entries' /\ entries'[job'[s].entry] \in {seen'[s], Gone}
      BY <2>1 DEF EntriesGrow
    <2>3. ASSUME seen[s].row # 0, NEW n \in Live', entries'[n].row = seen[s].row
          PROVE  n = job[s].entry
      <3>1. n \in DOMAIN entries
        BY <2>1, <2>3 DEF EntriesGrow
      <3>2. entries'[n] # Gone
        BY DEF Live
      <3>3. n \in Live /\ entries'[n] = entries[n]
        BY <3>1, <3>2 DEF EntriesGrow, Live
      <3> QED
        BY <2>1, <2>3, <3>3
    <2>4. PaidByRow(seen'[s])
      BY <2>1 DEF PaidByRow
    <2>5. seen'[s].row # 0 => /\ seen'[s].row \in DOMAIN rows'
                              /\ rows'[seen'[s].row].source = "payroll"
                              /\ \A n \in Live' : entries'[n].row = seen'[s].row => n = job'[s].entry
      BY <2>1, <2>3 DEF RowsGrow
    <2> QED
      BY <2>1, <2>2, <2>4, <2>5 DEF Undoing, PaidByRow
  <1>4. Undoing(s)'
    BY <1>3 DEF Undoing
  <1> QED
    BY <1>2, <1>4

\* A request that is let in, goes on or leaves moves alone.
LEMMA RequestMoves ==
  ASSUME DeskOK, NEW s \in Sessions, NEW a, NEW b, NEW c,
         \/ Enter(s, a, b, c) \/ Proceed(s, a, b, c) \/ Leave(s, a)
  PROVE  /\ DeskOK'
         /\ \A t \in Sessions \ {s} : phase'[t] = phase[t] /\ job'[t] = job[t] /\ seen'[t] = seen[t]
  BY DEF DeskOK, Enter, Proceed, Leave

LEMMA Left ==
  ASSUME DeskOK, NEW s \in Sessions, NEW a, Leave(s, a)
  PROVE  Undoing(s)' /\ Accruing(s)'
PROOF
  <1>1. phase'[s] = "idle"
    BY DEF DeskOK, Leave
  <1> QED
    BY <1>1 DEF Undoing, Accruing

\* The payroll's expenses stay as they are.
ExpensesStay ==
  /\ RowsGrow
  /\ \A m \in DOMAIN rows : rows[m].source = "payroll" => rows'[m].cancelled = rows[m].cancelled
  /\ \A m \in DOMAIN rows' \ DOMAIN rows : rows'[m].source # "payroll"

\* So do its payments.
PaymentsStay ==
  /\ \A n \in Live : entries[n].type = "payment" => n \in Live' /\ entries'[n] = entries[n]
  /\ \A n \in Live' : entries'[n].type = "payment" => n \in Live /\ entries'[n] = entries[n]

LEMMA MatchStays ==
  ASSUME PayrollMatchesLedger, ExpensesStay, PaymentsStay
  PROVE  PayrollMatchesLedger'
PROOF
  <1> DEFINE paidOut == {n \in Live : entries[n].type = "payment"}
             expenses == {r \in DOMAIN rows : rows[r].source = "payroll" /\ ~rows[r].cancelled}
  <1>1. paidOut' = paidOut /\ \A n \in paidOut : entries'[n] = entries[n]
    BY DEF PaymentsStay
  <1>2. expenses' = expenses
    BY DEF ExpensesStay, RowsGrow
  <1>3. \A r \in expenses : rows'[r].amount = rows[r].amount /\ rows'[r].of = rows[r].of
    BY DEF ExpensesStay, RowsGrow
  <1>4. /\ \A n \in paidOut : /\ entries[n].row \in expenses
                               /\ rows[entries[n].row].amount = entries[n].amount
                               /\ rows[entries[n].row].of = entries[n].of
        /\ \A r \in expenses : \E n \in paidOut : entries[n].row = r
        /\ \A m, n \in paidOut : entries[m].row = entries[n].row => m = n
    BY DEF PayrollMatchesLedger
  <1>5. /\ \A n \in paidOut' : /\ entries'[n].row \in expenses'
                                /\ rows'[entries'[n].row].amount = entries'[n].amount
                                /\ rows'[entries'[n].row].of = entries'[n].of
        /\ \A r \in expenses' : \E n \in paidOut' : entries'[n].row = r
        /\ \A m, n \in paidOut' : entries'[m].row = entries'[n].row => m = n
    <2> HIDE DEF paidOut, expenses
    <2> QED
      BY <1>1, <1>2, <1>3, <1>4
  <1> QED
    BY <1>5 DEF PayrollMatchesLedger

------------------------------------------------------------------------------
\* Entries that are added come after the ones there are.
LEMMA EntriesAdded ==
  ASSUME EntriesOK, rows \in Seq(Row(Owners)), NEW new \in Seq(EntrySet),
         entries' = entries \o new,
         \A k \in DOMAIN new : PaidByRow(new[k]) /\ new[k].row \notin DOMAIN rows
  PROVE  /\ EntriesOK' /\ EntriesGrow
         /\ Live \subseteq Live' /\ \A n \in Live : entries'[n] = entries[n]
         /\ Len(entries) \in Nat
         /\ \A n \in Live' : n \in Live \/ \E k \in DOMAIN new : n = Len(entries) + k /\ entries'[n] = new[k]
         /\ \A k \in DOMAIN new : Len(entries) + k \in Live' \ Live /\ entries'[Len(entries) + k] = new[k]
PROOF
  <1> DEFINE S == EntrySet \union {Gone}
  <1>0. entries \in Seq(S) /\ new \in Seq(S)
    <2>1. EntrySet \subseteq S
      OBVIOUS
    <2>2. new \in Seq(S)
      <3> HIDE DEF S
      <3> QED
        BY <2>1
    <2> QED
      BY <2>2 DEF EntriesOK
  <1>1. /\ entries' \in Seq(S)
        /\ Len(entries) \in Nat /\ Len(new) \in Nat
        /\ DOMAIN entries = 1..Len(entries) /\ DOMAIN new = 1..Len(new)
        /\ DOMAIN entries' = 1..(Len(entries) + Len(new))
        /\ \A m \in 1..Len(entries) : entries'[m] = entries[m]
        /\ \A k \in 1..Len(new) : entries'[Len(entries) + k] = new[k]
    <2> HIDE DEF S
    <2> QED
      BY <1>0, Concatenated
  <1>2. \A k \in DOMAIN new : new[k] \in EntrySet /\ new[k] # Gone
    BY <1>1, GoneIsNoEntry
  <1>3. \A n \in DOMAIN entries : n \in DOMAIN entries' /\ entries'[n] = entries[n]
    BY <1>1
  <1>4. Live \subseteq Live' /\ \A n \in Live : entries'[n] = entries[n]
    BY <1>3 DEF Live
  <1>5. ASSUME NEW n \in Live'
        PROVE  n \in Live \/ \E k \in DOMAIN new : n = Len(entries) + k /\ entries'[n] = new[k]
    <2>1. n \in DOMAIN entries' /\ entries'[n] # Gone
      BY DEF Live
    <2>2. CASE n \in DOMAIN entries
      BY <1>3, <2>1, <2>2 DEF Live
    <2>3. CASE n \notin DOMAIN entries
      <3> DEFINE k == n - Len(entries)
      <3>1. k \in 1..Len(new) /\ n = Len(entries) + k
        BY <1>1, <2>1, <2>3
      <3> QED
        BY <1>1, <3>1
    <2> QED
      BY <2>2, <2>3
  <1>6. ASSUME NEW k \in DOMAIN new
        PROVE  Len(entries) + k \in Live' \ Live /\ entries'[Len(entries) + k] = new[k]
    BY <1>1, <1>2 DEF Live
  <1>7. EntriesGrow
    BY <1>3, <1>5 DEF EntriesGrow, Live
  <1>8. \A n \in Live' : PaidByRow(entries'[n])
    BY <1>4, <1>5 DEF EntriesOK
  <1>9. EntriesOK'
    BY <1>1, <1>8 DEF EntriesOK, PaidByRow
  <1> QED
    BY <1>1, <1>4, <1>5, <1>6, <1>7, <1>9

\* One entry is posted.
LEMMA Posted ==
  ASSUME EntriesOK, rows \in Seq(Row(Owners)), NEW new \in EntrySet, PaidByRow(new),
         new.row \notin DOMAIN rows, Post(new)
  PROVE  /\ EntriesOK' /\ EntriesGrow
         /\ Live \subseteq Live' /\ \A n \in Live : entries'[n] = entries[n]
         /\ \E p \in Live' \ Live : entries'[p] = new /\ Live' = Live \union {p}
PROOF
  <1> DEFINE add == <<new>>
  <1>1. add \in Seq(EntrySet) /\ DOMAIN add = {1} /\ add[1] = new
    OBVIOUS
  <1>2. entries' = entries \o add
    <2>1. entries \in Seq(EntrySet \union {Gone})
      BY DEF EntriesOK
    <2> QED
      BY <2>1 DEF Post
  <1> HIDE DEF add
  <1>3. /\ EntriesOK' /\ EntriesGrow
        /\ Live \subseteq Live' /\ \A n \in Live : entries'[n] = entries[n]
        /\ \A n \in Live' : n \in Live \/ \E k \in DOMAIN add : n = Len(entries) + k /\ entries'[n] = add[k]
        /\ \A k \in DOMAIN add : Len(entries) + k \in Live' \ Live /\ entries'[Len(entries) + k] = add[k]
    BY <1>1, <1>2, EntriesAdded
  <1>4. Len(entries) + 1 \in Live' \ Live /\ entries'[Len(entries) + 1] = new
        /\ Live' = Live \union {Len(entries) + 1}
    BY <1>1, <1>3
  <1> QED
    BY <1>3, <1>4

\* Accruals of a month for a set of employees.
LEMMA Enumerated ==
  ASSUME NEW T, IsFiniteSet(T)
  PROVE  /\ Cardinality(T) \in Nat
         /\ SetToSeq(T) \in [1..Cardinality(T) -> T]
PROOF
  <1>1. Cardinality(T) \in Nat /\ ExistsBijection(1..Cardinality(T), T)
    BY FS_CardinalityType
  <1>2. \E f \in [1..Cardinality(T) -> T] : IsInjective(f)
    BY <1>1 DEF ExistsBijection, Bijection, Injection
  <1> QED
    BY <1>1, <1>2 DEF SetToSeq

LEMMA Accruals ==
  ASSUME EntriesOK, rows \in Seq(Row(Owners)), NEW staff \in SUBSET Staff, NEW month \in Int,
         AccrueAll(staff, month)
  PROVE  EntriesOK' /\ EntriesGrow /\ PaymentsStay
PROOF
  <1> DEFINE queue == SetToSeq(staff)
             new == [k \in 1..Len(queue) |-> Entry("accrual", queue[k], Wage[queue[k]], month, 0)]
  <1>1. IsFiniteSet(staff)
    BY PayrollAssumption, FS_Subset
  <1>2. queue \in Seq(staff)
    BY <1>1, Enumerated
  <1>3. \A k \in 1..Len(queue) : queue[k] \in Staff /\ Wage[queue[k]] \in Int
    BY <1>2, PayrollAssumption
  <1>4. entries' = entries \o new
    BY DEF AccrueAll
  <1>5. \A k \in 1..Len(queue) :
          /\ new[k] \in EntrySet /\ new[k].row = 0 /\ new[k].type = "accrual"
    BY <1>3 DEF Entry, EntrySet, EntryTypes
  <1>6. Len(queue) \in Nat /\ DOMAIN new = 1..Len(queue)
    BY <1>2
  <1> HIDE DEF queue, new
  <1>7. new \in Seq(EntrySet)
    <2>1. new \in [1..Len(queue) -> EntrySet]
      BY <1>5, <1>6 DEF new
    <2> QED
      BY <1>6, <2>1
  <1>8. 0 \notin DOMAIN rows
    OBVIOUS
  <1>9. \A k \in DOMAIN new : PaidByRow(new[k]) /\ new[k].row \notin DOMAIN rows
    BY <1>5, <1>6, <1>8 DEF PaidByRow
  <1>10. /\ EntriesOK' /\ EntriesGrow
         /\ Live \subseteq Live' /\ \A n \in Live : entries'[n] = entries[n]
         /\ \A n \in Live' : n \in Live \/ \E k \in DOMAIN new : n = Len(entries) + k /\ entries'[n] = new[k]
    BY <1>4, <1>7, <1>9, EntriesAdded
  <1>11. PaymentsStay
    BY <1>5, <1>6, <1>10 DEF PaymentsStay
  <1> QED
    BY <1>10, <1>11

------------------------------------------------------------------------------
\* The actions.
LEMMA WagePaidKeeps == ASSUME PayrollOK, RecordPayment PROVE PayrollOK'
PROOF
  <1>1. PICK e \in Staff, x \in Fines, a \in Accounts :
          /\ Write(Expense("payroll", a, x, e))
          /\ Post(Entry("payment", e, x, 0, ExpenseRow(a)))
          /\ UNCHANGED <<today, desk>>
    BY DEF RecordPayment, PayrollExpense
  <1> DEFINE row == ExpenseRow(a)
             new == Entry("payment", e, x, 0, row)
  <1>2. /\ LedgerOK(rows, Owners) /\ EntriesOK /\ PayrollMatchesLedger /\ DeskOK
        /\ rows \in Seq(Row(Owners))
    BY DEF PayrollOK, LedgerOK
  <1>3. "payroll" \in Sources \ {"reversal"} /\ e \in Owners /\ x \in Int
    BY PayrollAssumption DEF Sources, Owners
  <1>4. /\ LedgerOK(rows', Owners)
        /\ DOMAIN rows \subseteq DOMAIN rows' /\ \A m \in DOMAIN rows : rows'[m] = rows[m]
        /\ row \in DOMAIN rows' \ DOMAIN rows
        /\ rows'[row].source = "payroll" /\ rows'[row].amount = x
        /\ rows'[row].of = e /\ ~rows'[row].cancelled
        /\ \A m \in DOMAIN rows' : m \in DOMAIN rows \/ m = row \/ rows'[m].source = "external"
    BY <1>1, <1>2, <1>3, ExpenseWritten
  <1>5. row \in Nat \ {0}
    BY <1>4 DEF LedgerOK
  <1>6. new \in EntrySet /\ PaidByRow(new) /\ new.row = row /\ new.type = "payment"
        /\ new.amount = x /\ new.of = e
    BY <1>3, <1>5 DEF Entry, EntrySet, EntryTypes, PaidByRow
  <1>7. new.row \notin DOMAIN rows /\ Post(new)
    BY <1>1, <1>4, <1>6
  <1> HIDE DEF new, row
  <1>8. /\ EntriesOK' /\ EntriesGrow
        /\ Live \subseteq Live' /\ \A n \in Live : entries'[n] = entries[n]
        /\ \E p \in Live' \ Live : entries'[p] = new /\ Live' = Live \union {p}
    BY <1>2, <1>6, <1>7, Posted
  <1>9. PICK p \in Live' \ Live : entries'[p] = new /\ Live' = Live \union {p}
    BY <1>8
  <1>10. PayrollMatchesLedger'
    <2> DEFINE paidOut == {n \in Live : entries[n].type = "payment"}
               expenses == {r \in DOMAIN rows : rows[r].source = "payroll" /\ ~rows[r].cancelled}
    <2>1. paidOut' = paidOut \union {p} /\ \A n \in paidOut : entries'[n] = entries[n]
      BY <1>6, <1>8, <1>9
    <2>2. expenses' = expenses \union {row} /\ \A r \in expenses : rows'[r] = rows[r]
      BY <1>4
    <2>3. expenses \subseteq DOMAIN rows
      OBVIOUS
    <2>4. /\ \A n \in paidOut : /\ entries[n].row \in expenses
                                 /\ rows[entries[n].row].amount = entries[n].amount
                                 /\ rows[entries[n].row].of = entries[n].of
          /\ \A r \in expenses : \E n \in paidOut : entries[n].row = r
          /\ \A m, n \in paidOut : entries[m].row = entries[n].row => m = n
      BY <1>2 DEF PayrollMatchesLedger
    <2>5. /\ \A n \in paidOut' : /\ entries'[n].row \in expenses'
                                  /\ rows'[entries'[n].row].amount = entries'[n].amount
                                  /\ rows'[entries'[n].row].of = entries'[n].of
          /\ \A r \in expenses' : \E n \in paidOut' : entries'[n].row = r
          /\ \A m, n \in paidOut' : entries'[m].row = entries'[n].row => m = n
      <3> HIDE DEF paidOut, expenses
      <3>1. entries'[p].row = row /\ entries'[p].amount = x /\ entries'[p].of = e /\ row \notin expenses
        BY <1>4, <1>6, <1>9, <2>3
      <3>2. \A n \in paidOut' : /\ entries'[n].row \in expenses'
                                 /\ rows'[entries'[n].row].amount = entries'[n].amount
                                 /\ rows'[entries'[n].row].of = entries'[n].of
        BY <1>4, <2>1, <2>2, <2>4, <3>1
      <3>3. \A r \in expenses' : \E n \in paidOut' : entries'[n].row = r
        BY <2>1, <2>2, <2>4, <3>1
      <3>4. \A m, n \in paidOut' : entries'[m].row = entries'[n].row => m = n
        BY <2>1, <2>4, <3>1
      <3> QED
        BY <3>2, <3>3, <3>4
    <2> QED
      BY <2>5 DEF PayrollMatchesLedger
  <1>11. RowsGrow
    BY <1>4 DEF RowsGrow
  <1>12. DeskOK' /\ \A s \in Sessions : Undoing(s)' /\ Accruing(s)'
    BY <1>1, <1>2, <1>8, <1>11, Waiting DEF desk, DeskOK
  <1>13. today' \in Nat
    BY <1>1 DEF PayrollOK
  <1> QED
    BY <1>4, <1>8, <1>10, <1>12, <1>13 DEF PayrollOK

\* A step that leaves payments and payroll expenses as they are, of at most one request.
LEMMA Aside ==
  ASSUME PayrollOK, today' \in Nat, LedgerOK(rows', Owners), EntriesOK', EntriesGrow,
         ExpensesStay, PaymentsStay, DeskOK',
         \A s \in Sessions : \/ phase'[s] = phase[s] /\ job'[s] = job[s] /\ seen'[s] = seen[s]
                             \/ Undoing(s)' /\ Accruing(s)'
  PROVE  PayrollOK'
PROOF
  <1>1. PayrollMatchesLedger'
    BY MatchStays DEF PayrollOK
  <1>2. RowsGrow
    BY DEF ExpensesStay
  <1>3. \A s \in Sessions : Undoing(s)' /\ Accruing(s)'
    BY <1>2, Waiting
  <1> QED
    BY <1>1, <1>3 DEF PayrollOK

LEMMA RowsAside == ASSUME UNCHANGED rows PROVE ExpensesStay
  BY DEF ExpensesStay, RowsGrow

LEMMA EntriesAside ==
  ASSUME UNCHANGED entries, EntriesOK PROVE EntriesOK' /\ EntriesGrow /\ PaymentsStay
PROOF
  <1>1. Live' = Live
    BY DEF Live
  <1>2. EntriesOK'
    BY <1>1 DEF EntriesOK, PaidByRow
  <1>3. EntriesGrow
    BY <1>1 DEF EntriesGrow, Live
  <1>4. PaymentsStay
    BY <1>1 DEF PaymentsStay
  <1> QED
    BY <1>2, <1>3, <1>4

LEMMA AdjustmentKeeps == ASSUME PayrollOK, RecordAdjustment PROVE PayrollOK'
PROOF
  <1>1. PICK e \in Staff, x \in Fines, type \in {"bonus", "deduction"} :
          /\ Post(Entry(type, e, x, 0, 0))
          /\ UNCHANGED <<today, books, desk>>
    BY DEF RecordAdjustment
  <1> DEFINE new == Entry(type, e, x, 0, 0)
  <1>2. new \in EntrySet /\ PaidByRow(new) /\ new.row = 0 /\ new.type # "payment"
    BY PayrollAssumption DEF Entry, EntrySet, EntryTypes, PaidByRow
  <1>3. rows \in Seq(Row(Owners)) /\ EntriesOK /\ DeskOK /\ LedgerOK(rows, Owners)
    BY DEF PayrollOK, LedgerOK
  <1>4. new.row \notin DOMAIN rows /\ Post(new)
    BY <1>1, <1>2, <1>3
  <1> HIDE DEF new
  <1>5. /\ EntriesOK' /\ EntriesGrow
        /\ Live \subseteq Live' /\ \A n \in Live : entries'[n] = entries[n]
        /\ \E p \in Live' \ Live : entries'[p] = new /\ Live' = Live \union {p}
    BY <1>2, <1>3, <1>4, Posted
  <1>6. PaymentsStay
    BY <1>2, <1>5 DEF PaymentsStay
  <1>7. ExpensesStay /\ LedgerOK(rows', Owners)
    BY <1>1, <1>3, RowsAside DEF books
  <1>8. DeskOK' /\ \A s \in Sessions : phase'[s] = phase[s] /\ job'[s] = job[s] /\ seen'[s] = seen[s]
    BY <1>1, <1>3 DEF desk, DeskOK
  <1>9. today' \in Nat
    BY <1>1 DEF PayrollOK
  <1> QED
    BY <1>5, <1>6, <1>7, <1>8, <1>9, Aside

LEMMA PageAside == ASSUME PayrollOK, OwnersPage PROVE PayrollOK'
PROOF
  <1>1. FinanceNext /\ UNCHANGED <<entries, today, desk>>
    BY DEF OwnersPage, payroll
  <1>2. LedgerOK(rows, Owners) /\ EntriesOK /\ DeskOK
    BY DEF PayrollOK
  <1>3. "none" \in Owners
    BY DEF Owners
  <1>4. PageStep(Owners)
    BY <1>1, <1>2, <1>3, PageKeeps
  <1>5. ExpensesStay /\ LedgerOK(rows', Owners)
    BY <1>4 DEF PageStep, ExpensesStay, RowsGrow
  <1>6. EntriesOK' /\ EntriesGrow /\ PaymentsStay
    BY <1>1, <1>2, EntriesAside
  <1>7. DeskOK' /\ \A s \in Sessions : phase'[s] = phase[s] /\ job'[s] = job[s] /\ seen'[s] = seen[s]
    BY <1>1, <1>2 DEF desk, DeskOK
  <1>8. today' \in Nat
    BY <1>1 DEF PayrollOK
  <1> QED
    BY <1>5, <1>6, <1>7, <1>8, Aside

LEMMA LookToUndoKeeps == ASSUME PayrollOK, NEW s \in Sessions, LookToUndo(s) PROVE PayrollOK'
PROOF
  <1>1. PICK n \in Live :
          /\ Enter(s, "undo", [kind |-> "undo", entry |-> n], entries[n])
          /\ UNCHANGED <<payroll, books>>
    BY DEF LookToUndo
  <1>2. LedgerOK(rows, Owners) /\ EntriesOK /\ DeskOK /\ PayrollMatchesLedger
    BY DEF PayrollOK
  <1>3. DeskOK' /\ \A t \in Sessions \ {s} : phase'[t] = phase[t] /\ job'[t] = job[t] /\ seen'[t] = seen[t]
    BY <1>1, <1>2, RequestMoves
  <1>4. phase'[s] = "undo" /\ job'[s].entry = n /\ seen'[s] = entries[n]
    BY <1>1, <1>2 DEF Enter, DeskOK
  <1>5. n \in DOMAIN entries /\ entries[n] \in EntrySet /\ PaidByRow(entries[n])
    BY <1>2, LiveEntries DEF EntriesOK
  <1>6. UNCHANGED <<entries, rows, today>> /\ Live' = Live
    BY <1>1 DEF payroll, books, Live
  <1>7. ASSUME entries[n].row # 0
        PROVE  /\ entries[n].row \in DOMAIN rows /\ rows[entries[n].row].source = "payroll"
               /\ \A m \in Live : entries[m].row = entries[n].row => m = n
    <2>1. \A m \in Live : entries[m].row # 0 => entries[m].type = "payment"
      BY <1>2 DEF EntriesOK, PaidByRow
    <2> QED
      BY <1>2, <1>7, <2>1 DEF PayrollMatchesLedger
  <1>8. Undoing(s)'
    BY <1>4, <1>5, <1>6, <1>7 DEF Undoing, PaidByRow
  <1>9. Accruing(s)'
    BY <1>4 DEF Accruing
  <1>10. EntriesOK' /\ EntriesGrow /\ PaymentsStay
    BY <1>2, <1>6, EntriesAside
  <1>11. ExpensesStay /\ LedgerOK(rows', Owners) /\ today' \in Nat
    BY <1>2, <1>6, RowsAside DEF PayrollOK
  <1> QED
    BY <1>3, <1>8, <1>9, <1>10, <1>11, Aside

LEMMA UndoKeeps == ASSUME PayrollOK, NEW s \in Sessions, UndoEntry(s) PROVE PayrollOK'
PROOF
  <1> DEFINE entry == seen[s]
             j == job[s].entry
             row == seen[s].row
  <1>1. /\ Leave(s, "undo")
        /\ IF row # 0 THEN UndoExpense(row) ELSE UNCHANGED books
        /\ entries' = [entries EXCEPT ![j] = Gone]
        /\ today' = today
    BY DEF UndoEntry
  <1>2. LedgerOK(rows, Owners) /\ EntriesOK /\ DeskOK /\ PayrollMatchesLedger /\ Undoing(s)
    BY DEF PayrollOK
  <1>3. /\ j \in DOMAIN entries
        /\ entry \in EntrySet /\ PaidByRow(entry)
        /\ row # 0 => /\ row \in DOMAIN rows
                      /\ rows[row].source = "payroll"
                      /\ \A n \in Live : entries[n].row = row => n = j
        /\ entries[j] \in {entry, Gone}
    BY <1>1, <1>2 DEF Undoing, Leave
  <1>4. DeskOK' /\ \A t \in Sessions \ {s} : phase'[t] = phase[t] /\ job'[t] = job[t] /\ seen'[t] = seen[t]
    BY <1>1, <1>2, RequestMoves
  <1>5. Undoing(s)' /\ Accruing(s)'
    BY <1>1, <1>2, Left
  <1> HIDE DEF entry, j, row
  <1>6. /\ DOMAIN entries' = DOMAIN entries /\ entries'[j] = Gone
        /\ \A n \in DOMAIN entries \ {j} : entries'[n] = entries[n]
        /\ entries' \in Seq(EntrySet \union {Gone})
    <2> DEFINE S == EntrySet \union {Gone}
    <2>1. entries \in Seq(S) /\ Gone \in S
      BY <1>2 DEF EntriesOK
    <2> HIDE DEF S
    <2>2. entries' \in Seq(S) /\ DOMAIN entries' = DOMAIN entries
      BY <1>1, <1>3, <2>1
    <2>3. entries'[j] = Gone /\ \A n \in DOMAIN entries \ {j} : entries'[n] = entries[n]
      BY <1>1, <1>3, <2>1
    <2> QED
      BY <2>2, <2>3 DEF S
  <1>7. Live' = Live \ {j} /\ \A n \in Live' : entries'[n] = entries[n]
    BY <1>6 DEF Live
  <1>8. EntriesGrow
    BY <1>6, <1>7 DEF EntriesGrow, Live
  <1>9. EntriesOK'
    BY <1>2, <1>6, <1>7 DEF EntriesOK, PaidByRow
  <1>10. today' \in Nat
    BY <1>1 DEF PayrollOK
  <1>11. CASE row = 0
    <2>1. UNCHANGED rows
      BY <1>1, <1>11 DEF books
    <2>2. \A n \in Live : entries[n].type = "payment" => n # j
      BY <1>3, <1>11 DEF Live, PaidByRow, entry, row
    <2>3. PaymentsStay
      BY <1>7, <2>2 DEF PaymentsStay
    <2>4. ExpensesStay /\ LedgerOK(rows', Owners)
      BY <1>2, <2>1, RowsAside
    <2> QED
      BY <1>4, <1>5, <1>8, <1>9, <1>10, <2>3, <2>4, Aside
  <1>12. CASE row # 0
    <2>1. CanReverse(row, FALSE, FALSE) /\ WriteReversal(row) /\ row \in DOMAIN rows
      BY <1>1, <1>3, <1>12 DEF UndoExpense
    <2>2. LedgerOK(rows', Owners)
      BY <1>2, <2>1, ReversingKeeps
    <2>3. /\ DOMAIN rows \subseteq DOMAIN rows'
          /\ \A m \in DOMAIN rows :
               /\ rows'[m].source = rows[m].source
               /\ rows'[m].amount = rows[m].amount /\ rows'[m].of = rows[m].of
               /\ rows'[m].cancelled = (rows[m].cancelled \/ m \in LegsOf(row))
          /\ \A m \in DOMAIN rows' \ DOMAIN rows : rows'[m].source = "reversal"
      BY <1>2, <2>1, Reversing
    <2>4. row \in LegsOf(row) /\ ~rows[row].cancelled
      BY <2>1 DEF CanReverse, NotCancelled, LegsOf
    <2>5. RowsGrow
      BY <2>3 DEF RowsGrow
    <2>6. \A m \in LegsOf(row) : m \in DOMAIN rows /\ rows[m].source = "payroll" => m = row
      <3> SUFFICES ASSUME NEW m \in LegsOf(row), rows[m].source = "payroll" PROVE m = row
        OBVIOUS
      <3>1. LedgerOK(rows, Owners) /\ row \in DOMAIN rows /\ rows[row].source = "payroll"
        BY <1>2, <1>3, <1>12, <2>1
      <3> QED
        BY <3>1, OneOwnLeg
    <2> DEFINE paidOut == {n \in Live : entries[n].type = "payment"}
               expenses == {r \in DOMAIN rows : rows[r].source = "payroll" /\ ~rows[r].cancelled}
    <2>7. /\ \A n \in paidOut : /\ entries[n].row \in expenses
                                 /\ rows[entries[n].row].amount = entries[n].amount
                                 /\ rows[entries[n].row].of = entries[n].of
          /\ \A r \in expenses : \E n \in paidOut : entries[n].row = r
          /\ \A m, n \in paidOut : entries[m].row = entries[n].row => m = n
      BY <1>2 DEF PayrollMatchesLedger
    <2>8. row \in expenses
      BY <1>3, <1>12, <2>1, <2>4
    <2>9. j \in paidOut /\ entries[j].row = row
      BY <1>3, <1>12, <2>7, <2>8
    <2>10. paidOut' = paidOut \ {j} /\ \A n \in paidOut' : entries'[n] = entries[n]
      BY <1>7
    <2>11. expenses' = expenses \ {row}
      BY <2>3, <2>4, <2>6
    <2>12. \A r \in expenses : rows'[r].amount = rows[r].amount /\ rows'[r].of = rows[r].of
      BY <2>3
    <2>13. /\ \A n \in paidOut' : /\ entries'[n].row \in expenses'
                                   /\ rows'[entries'[n].row].amount = entries'[n].amount
                                   /\ rows'[entries'[n].row].of = entries'[n].of
           /\ \A r \in expenses' : \E n \in paidOut' : entries'[n].row = r
           /\ \A m, n \in paidOut' : entries'[m].row = entries'[n].row => m = n
      <3> HIDE DEF paidOut, expenses
      <3>1. \A n \in paidOut' : n \in paidOut /\ n # j /\ entries'[n] = entries[n] /\ entries[n].row # row
        BY <2>7, <2>9, <2>10
      <3>2. \A n \in paidOut' : /\ entries'[n].row \in expenses'
                                 /\ rows'[entries'[n].row].amount = entries'[n].amount
                                 /\ rows'[entries'[n].row].of = entries'[n].of
        BY <2>7, <2>11, <2>12, <3>1
      <3>3. \A r \in expenses' : \E n \in paidOut' : entries'[n].row = r
        <4> SUFFICES ASSUME NEW r \in expenses' PROVE \E n \in paidOut' : entries'[n].row = r
          OBVIOUS
        <4>1. r \in expenses /\ r # row
          BY <2>11
        <4>2. PICK n \in paidOut : entries[n].row = r
          BY <2>7, <4>1
        <4>3. n \in paidOut'
          BY <2>9, <2>10, <4>1, <4>2
        <4> QED
          BY <3>1, <4>2, <4>3
      <3>4. \A m, n \in paidOut' : entries'[m].row = entries'[n].row => m = n
        BY <2>7, <3>1
      <3> QED
        BY <3>2, <3>3, <3>4
    <2>14. PayrollMatchesLedger'
      BY <2>13 DEF PayrollMatchesLedger
    <2>15. \A t \in Sessions : Undoing(t)' /\ Accruing(t)'
      BY <1>4, <1>5, <1>8, <2>5, Waiting
    <2> QED
      BY <1>4, <1>9, <1>10, <2>2, <2>14, <2>15 DEF PayrollOK
  <1> QED
    BY <1>11, <1>12

\* A request that reads, and one that is answered or dies, when nothing else changes.
LEMMA DeskOnly ==
  ASSUME PayrollOK, NEW s \in Sessions, NEW a, NEW b, NEW c,
         \/ Enter(s, a, b, c) \/ Proceed(s, a, b, c) \/ Leave(s, a),
         UNCHANGED <<entries, rows>>, today' \in Nat, Undoing(s)' /\ Accruing(s)'
  PROVE  PayrollOK'
PROOF
  <1>1. LedgerOK(rows, Owners) /\ EntriesOK /\ DeskOK
    BY DEF PayrollOK
  <1>2. DeskOK' /\ \A t \in Sessions \ {s} : phase'[t] = phase[t] /\ job'[t] = job[t] /\ seen'[t] = seen[t]
    BY <1>1, RequestMoves
  <1>3. EntriesOK' /\ EntriesGrow /\ PaymentsStay
    BY <1>1, EntriesAside
  <1>4. ExpensesStay /\ LedgerOK(rows', Owners)
    BY <1>1, RowsAside
  <1> QED
    BY <1>2, <1>3, <1>4, Aside

LEMMA ReadingKeeps ==
  ASSUME PayrollOK, NEW s \in Sessions, LookToAccrue(s) \/ LookToAutoAccrue(s)
  PROVE  PayrollOK'
PROOF
  <1>1. DeskOK /\ today \in Nat
    BY DEF PayrollOK
  <1>2. \A chosen \in SUBSET Staff, month \in Int : Pending(chosen, month) \subseteq Staff
    BY DEF Pending
  <1>3. CASE LookToAccrue(s)
    <2>1. PICK month \in 1..today, chosen \in (SUBSET Staff) \ {{}} :
            /\ Enter(s, "accrue", [kind |-> "hand", month |-> month], Pending(chosen, month))
            /\ UNCHANGED <<payroll, books>>
      BY <1>3 DEF LookToAccrue
    <2>2. phase'[s] = "accrue" /\ job'[s].month = month /\ seen'[s] = Pending(chosen, month)
      BY <1>1, <2>1 DEF Enter, DeskOK
    <2>3. Undoing(s)' /\ Accruing(s)'
      BY <1>1, <1>2, <2>2 DEF Undoing, Accruing
    <2>4. UNCHANGED <<entries, rows>> /\ today' \in Nat
      BY <1>1, <2>1 DEF payroll, books
    <2> QED
      BY <2>1, <2>3, <2>4, DeskOnly
  <1>4. CASE LookToAutoAccrue(s)
    <2> DEFINE month == today - 1
    <2>1. PICK there \in {"mark", "auto"} :
            Enter(s, there, [kind |-> "cron", month |-> month], Pending(Staff, month))
      BY <1>4 DEF LookToAutoAccrue
    <2>2. UNCHANGED <<payroll, books>>
      BY <1>4 DEF LookToAutoAccrue
    <2>3. phase'[s] = there /\ job'[s].month = month /\ seen'[s] = Pending(Staff, month)
      BY <1>1, <2>1 DEF Enter, DeskOK
    <2>4. Undoing(s)' /\ Accruing(s)'
      BY <1>1, <1>2, <2>3 DEF Undoing, Accruing
    <2>5. UNCHANGED <<entries, rows>> /\ today' \in Nat
      BY <1>1, <2>2 DEF payroll, books
    <2> QED
      BY <2>1, <2>4, <2>5, DeskOnly
  <1> QED
    BY <1>3, <1>4

\* A month is accrued, by hand or by the cron, or refused because someone was faster.
LEMMA AccruingKeeps ==
  ASSUME PayrollOK, NEW s \in Sessions, AccruePeriod(s) \/ AutoAccrue(s)
  PROVE  PayrollOK'
PROOF
  <1>1. LedgerOK(rows, Owners) /\ EntriesOK /\ DeskOK /\ today \in Nat /\ rows \in Seq(Row(Owners))
    BY DEF PayrollOK, LedgerOK
  <1>2. /\ Leave(s, "accrue") \/ Proceed(s, "auto", "mark", seen[s])
        /\ UNCHANGED entries \/ AccrueAll(seen[s], job[s].month)
        /\ UNCHANGED <<rows, today>>
    BY DEF AccruePeriod, AutoAccrue, AccrueOrHandled, books
  <1>3. phase[s] \in {"accrue", "auto"}
    BY <1>2 DEF Leave, Proceed
  <1>4. seen[s] \in SUBSET Staff /\ job[s].month \in Int
    BY <1>3 DEF PayrollOK, Accruing
  <1>5. EntriesOK' /\ EntriesGrow /\ PaymentsStay
    BY <1>1, <1>2, <1>4, Accruals, EntriesAside
  <1>6. DeskOK' /\ \A t \in Sessions \ {s} : phase'[t] = phase[t] /\ job'[t] = job[t] /\ seen'[t] = seen[t]
    BY <1>1, <1>2, RequestMoves
  <1>7. phase'[s] \in {"idle", "mark"}
    BY <1>1, <1>2 DEF Leave, Proceed, DeskOK
  <1>8. Undoing(s)' /\ Accruing(s)'
    BY <1>7 DEF Undoing, Accruing
  <1>9. ExpensesStay /\ LedgerOK(rows', Owners) /\ today' \in Nat
    BY <1>1, <1>2, RowsAside
  <1> QED
    BY <1>5, <1>6, <1>8, <1>9, Aside

LEMMA AnsweredKeeps ==
  ASSUME PayrollOK, NEW s \in Sessions, MarkAuto(s) \/ PayrollGivesUp(s)
  PROVE  PayrollOK'
PROOF
  <1>1. PICK here : Leave(s, here)
    BY DEF MarkAuto, PayrollGivesUp, Abandon
  <1>2. UNCHANGED <<entries, rows, today>>
    BY DEF MarkAuto, PayrollGivesUp, payroll, books
  <1>3. Undoing(s)' /\ Accruing(s)'
    BY <1>1, Left DEF PayrollOK
  <1>4. today' \in Nat
    BY <1>2 DEF PayrollOK
  <1> QED
    BY <1>1, <1>2, <1>3, <1>4, DeskOnly

LEMMA StandingStill == ASSUME PayrollOK, UNCHANGED <<entries, rows, desk>>, today' \in Nat PROVE PayrollOK'
PROOF
  <1>1. LedgerOK(rows, Owners) /\ EntriesOK /\ DeskOK
    BY DEF PayrollOK
  <1>2. EntriesOK' /\ EntriesGrow /\ PaymentsStay
    BY <1>1, EntriesAside
  <1>3. ExpensesStay /\ LedgerOK(rows', Owners)
    BY <1>1, RowsAside
  <1>4. DeskOK' /\ \A s \in Sessions : phase'[s] = phase[s] /\ job'[s] = job[s] /\ seen'[s] = seen[s]
    BY <1>1 DEF desk, DeskOK
  <1> QED
    BY <1>2, <1>3, <1>4, Aside

------------------------------------------------------------------------------
LEMMA PayrollStarts == PayrollInit => PayrollOK
PROOF
  <1> SUFFICES ASSUME PayrollInit PROVE PayrollOK
    OBVIOUS
  <1>1. rows = <<>> /\ entries = <<>> /\ today = 1
    BY DEF PayrollInit, BooksInit
  <1>2. LedgerOK(rows, Owners)
    BY <1>1, EmptyLedger
  <1>3. Live = {} /\ EntriesOK
    BY <1>1 DEF Live, EntriesOK
  <1>4. PayrollMatchesLedger
    BY <1>1, <1>3 DEF PayrollMatchesLedger
  <1>5. DeskOK /\ \A s \in Sessions : phase[s] = "idle"
    BY DEF PayrollInit, DeskInit, DeskOK
  <1> QED
    BY <1>1, <1>2, <1>3, <1>4, <1>5 DEF PayrollOK, Undoing, Accruing

LEMMA PayrollSteps == PayrollOK /\ [PayrollNext]_payrollVars => PayrollOK'
PROOF
  <1> SUFFICES ASSUME PayrollOK, [PayrollNext]_payrollVars PROVE PayrollOK'
    OBVIOUS
  <1>1. CASE RecordPayment
    BY <1>1, WagePaidKeeps
  <1>2. CASE RecordAdjustment
    BY <1>2, AdjustmentKeeps
  <1>3. CASE NextMonth
    <2>1. UNCHANGED <<entries, rows, desk>> /\ today' = today + 1
      BY <1>3 DEF NextMonth, books
    <2>2. today' \in Nat
      BY <2>1 DEF PayrollOK
    <2> QED
      BY <2>1, <2>2, StandingStill
  <1>4. CASE OwnersPage
    BY <1>4, PageAside
  <1>5. ASSUME NEW s \in Sessions,
               \/ LookToUndo(s) \/ UndoEntry(s)
               \/ LookToAccrue(s) \/ AccruePeriod(s)
               \/ LookToAutoAccrue(s) \/ AutoAccrue(s) \/ MarkAuto(s)
               \/ PayrollGivesUp(s)
        PROVE  PayrollOK'
    BY <1>5, LookToUndoKeeps, UndoKeeps, ReadingKeeps, AccruingKeeps, AnsweredKeeps
  <1>6. CASE UNCHANGED payrollVars
    <2>1. UNCHANGED <<entries, rows, desk>> /\ today' = today
      BY <1>6 DEF payrollVars, payroll, books
    <2>2. today' \in Nat
      BY <2>1 DEF PayrollOK
    <2> QED
      BY <2>1, <2>2, StandingStill
  <1> QED
    BY <1>1, <1>2, <1>3, <1>4, <1>5, <1>6 DEF PayrollNext

\* However the back office's requests, the cron and the Moliya page interleave,
\* the payments that stand are exactly the payroll expenses that are not
\* cancelled, one to one and of the same amount (payroll.service.ts recordPayment,
\* removeEntry; finance.service.ts reverseTx).
THEOREM PayrollTrue == PayrollSpec => []PayrollMatchesLedger
PROOF
  <1>1. PayrollOK => PayrollMatchesLedger
    BY DEF PayrollOK
  <1> QED
    BY PayrollStarts, PayrollSteps, <1>1, PTL DEF PayrollSpec

\* And no row of the ledger is ever reversed twice, or one leg of a pair without
\* the other (finance.service.ts reverseTx, cancelManual).
THEOREM PayrollReversedOnce == PayrollSpec => []ReversedOnce
PROOF
  <1>1. PayrollOK => ReversedOnce
    BY OrderedAnswers DEF PayrollOK
  <1> QED
    BY PayrollStarts, PayrollSteps, <1>1, PTL DEF PayrollSpec

------------------------------------------------------------------------------
\* The drawer, one request at a time: the ledger has a shift's movements and,
\* once it is closed, what its sales and refunds came to.

ShiftSet == [status : {"open", "closed"}, register : Registers, float : Floats]

\* What the rows of a shift do to an account.
RowSum(R, h, a) == SumFunction([n \in DOMAIN R |-> IF R[n].of = h THEN Effect(R[n], a) ELSE 0])

LEMMA EffectIsNumber == ASSUME NEW owners, NEW r \in Row(owners), NEW a PROVE Effect(r, a) \in Int
  BY DEF Row, Effect, Kinds

LEMMA RowSumIs ==
  ASSUME NEW R \in Seq(Row(Shifts)), NEW h, NEW a, NEW f,
         \A n \in DOMAIN R : f[n] = IF R[n].of = h THEN Effect(R[n], a) ELSE 0
  PROVE  RowSum(R, h, a) = SumFunctionOnSet(f, DOMAIN R)
PROOF
  <1> DEFINE g == [n \in DOMAIN R |-> IF R[n].of = h THEN Effect(R[n], a) ELSE 0]
  <1>1. DOMAIN g = DOMAIN R /\ \A n \in DOMAIN R : g[n] = f[n]
    OBVIOUS
  <1>2. IsFiniteSet(DOMAIN R)
    BY FS_Interval
  <1> HIDE DEF g
  <1>3. SumFunctionOnSet(g, DOMAIN R) = SumFunctionOnSet(f, DOMAIN R)
    BY <1>1, <1>2, SumEqual
  <1> QED
    BY <1>1, <1>3 DEF RowSum, SumFunction, g

LEMMA RowSumNone ==
  ASSUME NEW R \in Seq(Row(Shifts)), NEW h, NEW a, \A n \in DOMAIN R : R[n].of # h
  PROVE  RowSum(R, h, a) = 0
PROOF
  <1> DEFINE f == [n \in DOMAIN R |-> 0]
  <1>1. \A n \in DOMAIN R : f[n] = 0
    OBVIOUS
  <1>2. IsFiniteSet(DOMAIN R)
    BY FS_Interval
  <1> HIDE DEF f
  <1>3. RowSum(R, h, a) = SumFunctionOnSet(f, DOMAIN R)
    BY <1>1, RowSumIs
  <1> QED
    BY <1>1, <1>2, <1>3, SumZero

LEMMA RowSumGrows ==
  ASSUME NEW R \in Seq(Row(Shifts)), NEW r \in Row(Shifts), NEW h, NEW a
  PROVE  /\ R \o <<r>> \in Seq(Row(Shifts))
         /\ DOMAIN (R \o <<r>>) = DOMAIN R \cup {Len(R) + 1}
         /\ (R \o <<r>>)[Len(R) + 1] = r
         /\ \A n \in DOMAIN R : (R \o <<r>>)[n] = R[n]
         /\ RowSum(R, h, a) \in Int
         /\ RowSum(R \o <<r>>, h, a) = RowSum(R, h, a) + (IF r.of = h THEN Effect(r, a) ELSE 0)
PROOF
  <1> DEFINE S == Row(Shifts)
             new == R \o <<r>>
             z == Len(R) + 1
             f == [n \in DOMAIN new |-> IF new[n].of = h THEN Effect(new[n], a) ELSE 0]
  <1>1. /\ new \in Seq(S) /\ DOMAIN new = DOMAIN R \cup {z} /\ new[z] = r
        /\ \A n \in DOMAIN R : new[n] = R[n] /\ R[n] \in S
        /\ z \notin DOMAIN R
    <2> HIDE DEF S
    <2> QED
      BY DEF S
  <1>2. IsFiniteSet(DOMAIN R)
    BY FS_Interval
  <1>3. \A n \in DOMAIN new : f[n] = IF new[n].of = h THEN Effect(new[n], a) ELSE 0
    OBVIOUS
  <1>4. \A n \in DOMAIN new : f[n] \in Int
    <2> SUFFICES ASSUME NEW n \in DOMAIN new PROVE f[n] \in Int
      OBVIOUS
    <2>1. new[n] \in Row(Shifts)
      BY <1>1
    <2>2. Effect(new[n], a) \in Int
      BY <2>1, EffectIsNumber
    <2> QED
      BY <2>2
  <1>5. \A n \in DOMAIN R : f[n] = IF R[n].of = h THEN Effect(R[n], a) ELSE 0
    BY <1>1, <1>3
  <1>6. f[z] = IF r.of = h THEN Effect(r, a) ELSE 0
    BY <1>1, <1>3
  <1> HIDE DEF f, new, z
  <1>7. RowSum(new, h, a) = SumFunctionOnSet(f, DOMAIN new)
    BY <1>1, <1>3, RowSumIs DEF S
  <1>8. RowSum(R, h, a) = SumFunctionOnSet(f, DOMAIN R)
    BY <1>5, RowSumIs
  <1>9. SumFunctionOnSet(f, DOMAIN R \cup {z}) = SumFunctionOnSet(f, DOMAIN R) + f[z]
    BY <1>1, <1>2, <1>4, SumAdd
  <1>10. SumFunctionOnSet(f, DOMAIN R) \in Int
    BY <1>1, <1>2, <1>4, SumInt
  <1> QED
    BY <1>1, <1>6, <1>7, <1>8, <1>9, <1>10 DEF new, z, S

------------------------------------------------------------------------------
\* The invariant.
DrawerTyped ==
  /\ shift \in [Shifts -> ShiftSet \cup {NoShift}]
  /\ sales \in [Shifts -> Int] /\ refunds \in [Shifts -> Int]
  /\ movedIn \in [Shifts -> Int] /\ movedOut \in [Shifts -> Int]
  /\ zReport \in [Shifts -> Int] /\ late \in [Shifts -> Int] /\ voided \in [Shifts -> Int]
  /\ rows \in Seq(Row(Shifts))

\* A shift that was never opened has nothing; before the close nothing is late.
Unopened ==
  /\ \A h \in Shifts : shift[h] = NoShift => movedIn[h] = 0 /\ movedOut[h] = 0
  /\ \A h \in Shifts : ~IsClosed(h) => late[h] = 0 /\ voided[h] = 0
  /\ \A n \in DOMAIN rows : /\ shift[rows[n].of] # NoShift
                            /\ rows[n].source \notin {"manual", "external"}

\* What a request at the drawer looked at is still so.
Counting(s) ==
  /\ phase[s] = "open" => /\ job[s].register \in Registers /\ job[s].float \in Floats
                          /\ Free(job[s].register)
  /\ phase[s] \in {"sale", "refund"} => /\ job[s].shift \in Shifts /\ job[s].amount \in Int
                                        /\ shift[job[s].shift] # NoShift
  /\ phase[s] = "move" => job[s].shift \in Shifts /\ job[s].amount \in Int /\ IsOpen(job[s].shift)
  /\ phase[s] \in {"sum", "close"} => /\ job[s].shift \in Shifts /\ IsOpen(job[s].shift)
                                      /\ seen[s].movedIn = movedIn[job[s].shift]
                                      /\ seen[s].movedOut = movedOut[job[s].shift]
  /\ phase[s] = "close" => /\ seen[s].sales = sales[job[s].shift]
                           /\ seen[s].refunds = refunds[job[s].shift]

AtTheDrawer == /\ DeskShaped
               /\ \A s, t \in Sessions : phase[s] # "idle" /\ phase[t] # "idle" => s = t
               /\ \A s \in Sessions : Counting(s)

DrawerOK == /\ DrawerTyped /\ Unopened /\ AtTheDrawer
            /\ OneOpenShift /\ ReportTrue /\ PostedOnce

------------------------------------------------------------------------------
\* The desk: whoever moves is alone.
LEMMA OneAtDrawer ==
  ASSUME AtTheDrawer, OneAtATime, NEW s \in Sessions, NEW a, NEW b, NEW c,
         \/ Enter(s, a, b, c) /\ a # "idle"
         \/ Proceed(s, a, b, c) /\ a # "idle"
         \/ Leave(s, a) /\ a # "idle",
         Counting(s)'
  PROVE  AtTheDrawer'
PROOF
  <1>1. DeskShaped' /\ \A t \in Sessions \ {s} : Waits(t)
    BY DEF AtTheDrawer, DeskShaped, Enter, Proceed, Leave, Waits
  <1>2. phase[s] # "idle" \/ phase'[s] # "idle"
    BY DEF AtTheDrawer, DeskShaped, Enter, Proceed, Leave
  <1>3. \A t \in Sessions \ {s} : phase'[t] = "idle"
    BY <1>1, <1>2 DEF AtTheDrawer, OneAtATime, Waits
  <1>4. \A t \in Sessions \ {s} : Counting(t)'
    BY <1>3 DEF Counting
  <1> QED
    BY <1>1, <1>3, <1>4 DEF AtTheDrawer

\* An answered request holds nothing.
LEMMA LeftDrawer ==
  ASSUME AtTheDrawer, OneAtATime, NEW s \in Sessions, NEW a, Leave(s, a), a # "idle"
  PROVE  AtTheDrawer'
PROOF
  <1>1. phase'[s] = "idle"
    BY DEF AtTheDrawer, DeskShaped, Leave
  <1>2. Counting(s)'
    BY <1>1 DEF Counting
  <1> QED
    BY <1>2, OneAtDrawer

\* What the drawer and the ledger say stays while they stay.
LEMMA DrawerStays ==
  ASSUME DrawerOK, UNCHANGED <<shift, drawer, zReport, books>>
  PROVE  DrawerTyped' /\ Unopened' /\ OneOpenShift' /\ ReportTrue' /\ PostedOnce'
  BY DEF DrawerOK, DrawerTyped, Unopened, OneOpenShift, ReportTrue, PostedOnce, InLedger, TakenBy,
         OpenOn, IsOpen, IsClosed, drawer, books

------------------------------------------------------------------------------
\* The looks before the transactions.
LEMMA EnteredWith ==
  ASSUME AtTheDrawer, NEW s \in Sessions, NEW a, NEW b, NEW c, Enter(s, a, b, c)
  PROVE  phase'[s] = a /\ job'[s] = b /\ seen'[s] = c
  BY DEF AtTheDrawer, DeskShaped, Enter

LEMMA LooksAtDrawer ==
  ASSUME DrawerOK, OneAtATime, NEW s \in Sessions,
         \/ LookToOpen(s) \/ LookToSell(s) \/ LookToMove(s) \/ LookToClose(s)
         \/ SumSales(s) \/ ShiftGivesUp(s)
  PROVE  DrawerOK'
PROOF
  <1>1. UNCHANGED <<shift, drawer, zReport, books>>
    BY DEF LookToOpen, LookToSell, LookToMove, LookToClose, SumSales, ShiftGivesUp
  <1>2. DrawerTyped' /\ Unopened' /\ OneOpenShift' /\ ReportTrue' /\ PostedOnce'
    BY <1>1, DrawerStays
  <1>3. AtTheDrawer /\ DrawerTyped
    BY DEF DrawerOK
  <1>4. /\ \A h \in Shifts : IsOpen(h)' = IsOpen(h)
        /\ \A r \in Registers : Free(r)' = Free(r)
        /\ shift' = shift /\ movedIn' = movedIn /\ movedOut' = movedOut
        /\ sales' = sales /\ refunds' = refunds
    BY <1>1 DEF IsOpen, Free, OpenOn, drawer
  <1>5. Amounts \subseteq Int
    BY AmountsAssumption
  <1>6. CASE LookToOpen(s)
    <2>1. PICK r \in Registers, f \in Floats :
            /\ Free(r) /\ Enter(s, "open", [kind |-> "open", register |-> r, float |-> f], NothingSeen)
      BY <1>6 DEF LookToOpen
    <2>2. phase'[s] = "open" /\ job'[s] = [kind |-> "open", register |-> r, float |-> f]
      BY <1>3, <2>1, EnteredWith
    <2>3. Counting(s)'
      BY <1>4, <2>1, <2>2 DEF Counting
    <2>9. AtTheDrawer'
      BY <1>3, <2>1, <2>3, OneAtDrawer
    <2> QED
      BY <1>2, <2>9 DEF DrawerOK
  <1>7. CASE LookToSell(s)
    <2>1. PICK h \in Shifts, x \in Amounts, kind \in {"sale", "refund"} :
            /\ shift[h] # NoShift
            /\ Enter(s, kind, [kind |-> kind, shift |-> h, amount |-> x], NothingSeen)
      BY <1>7 DEF LookToSell
    <2>2. phase'[s] = kind /\ job'[s] = [kind |-> kind, shift |-> h, amount |-> x]
      BY <1>3, <2>1, EnteredWith
    <2>3. Counting(s)'
      BY <1>4, <1>5, <2>1, <2>2 DEF Counting
    <2>9. AtTheDrawer'
      BY <1>3, <2>1, <2>3, OneAtDrawer
    <2> QED
      BY <1>2, <2>9 DEF DrawerOK
  <1>8. CASE LookToMove(s)
    <2>1. PICK h \in Shifts, x \in Amounts, way \in {"in", "out", "supplier"} :
            /\ IsOpen(h)
            /\ Enter(s, "move", [kind |-> "move", shift |-> h, amount |-> x, way |-> way], NothingSeen)
      BY <1>8 DEF LookToMove
    <2>2. phase'[s] = "move" /\ job'[s] = [kind |-> "move", shift |-> h, amount |-> x, way |-> way]
      BY <1>3, <2>1, EnteredWith
    <2>3. Counting(s)'
      BY <1>4, <1>5, <2>1, <2>2 DEF Counting
    <2>9. AtTheDrawer'
      BY <1>3, <2>1, <2>3, OneAtDrawer
    <2> QED
      BY <1>2, <2>9 DEF DrawerOK
  <1>9. CASE LookToClose(s)
    <2>1. PICK h \in Shifts :
            /\ IsOpen(h)
            /\ Enter(s, "sum", [kind |-> "close", shift |-> h],
                     [kind |-> "moves", movedIn |-> movedIn[h], movedOut |-> movedOut[h]])
      BY <1>9 DEF LookToClose
    <2>2. /\ phase'[s] = "sum" /\ job'[s] = [kind |-> "close", shift |-> h]
          /\ seen'[s] = [kind |-> "moves", movedIn |-> movedIn[h], movedOut |-> movedOut[h]]
      BY <1>3, <2>1, EnteredWith
    <2>3. Counting(s)'
      BY <1>4, <2>1, <2>2 DEF Counting
    <2>9. AtTheDrawer'
      BY <1>3, <2>1, <2>3, OneAtDrawer
    <2> QED
      BY <1>2, <2>9 DEF DrawerOK
  <1>10. CASE SumSales(s)
    <2> DEFINE read == [kind |-> "totals", movedIn |-> seen[s].movedIn, movedOut |-> seen[s].movedOut,
                        sales |-> sales[job[s].shift], refunds |-> refunds[job[s].shift]]
    <2>1. Proceed(s, "sum", "close", read)
      BY <1>10 DEF SumSales
    <2>2. phase[s] = "sum" /\ phase'[s] = "close" /\ job'[s] = job[s] /\ seen'[s] = read
      BY <1>3, <2>1 DEF Proceed, AtTheDrawer, DeskShaped
    <2>3. /\ job[s].shift \in Shifts /\ IsOpen(job[s].shift)
          /\ seen[s].movedIn = movedIn[job[s].shift] /\ seen[s].movedOut = movedOut[job[s].shift]
      BY <1>3, <2>2 DEF AtTheDrawer, Counting
    <2>4. Counting(s)'
      BY <1>4, <2>2, <2>3 DEF Counting
    <2> HIDE DEF read
    <2>9. AtTheDrawer'
      BY <1>3, <2>1, <2>4, OneAtDrawer
    <2> QED
      BY <1>2, <2>9 DEF DrawerOK
  <1>11. CASE ShiftGivesUp(s)
    <2>1. phase[s] # "idle" /\ Leave(s, phase[s])
      BY <1>11 DEF ShiftGivesUp, Abandon
    <2>9. AtTheDrawer'
      BY <1>3, <2>1, LeftDrawer
    <2> QED
      BY <1>2, <2>9 DEF DrawerOK
  <1> QED
    BY <1>6, <1>7, <1>8, <1>9, <1>10, <1>11

------------------------------------------------------------------------------
\* The transactions.

\* The request that commits held what it looked at.
LEMMA HeldAtDrawer ==
  ASSUME AtTheDrawer, NEW s \in Sessions, NEW a, Leave(s, a)
  PROVE  phase[s] = a /\ Counting(s)
  BY DEF AtTheDrawer, Leave

LEMMA OpeningKeeps == ASSUME DrawerOK, OneAtATime, NEW s \in Sessions, OpenShift(s) PROVE DrawerOK'
PROOF
  <1> DEFINE r == job[s].register
             new == [status |-> "open", register |-> r, float |-> job[s].float]
  <1>1. PICK h \in Shifts : shift[h] = NoShift /\ shift' = [shift EXCEPT ![h] = new]
    BY DEF OpenShift
  <1>2. Leave(s, "open") /\ UNCHANGED <<drawer, zReport, books>>
    BY DEF OpenShift
  <1>3. r \in Registers /\ job[s].float \in Floats /\ Free(r)
    BY <1>2, HeldAtDrawer DEF DrawerOK, Counting
  <1>4. new \in ShiftSet /\ new.status = "open" /\ new.register = r /\ new # NoShift
    BY <1>3 DEF ShiftSet, NoShift
  <1> HIDE DEF new
  <1>5. /\ shift'[h] = new /\ \A g \in Shifts \ {h} : shift'[g] = shift[g]
        /\ shift' \in [Shifts -> ShiftSet \cup {NoShift}]
    BY <1>1, <1>4 DEF DrawerOK, DrawerTyped
  <1>6. /\ IsOpen(h)' /\ ~IsClosed(h)' /\ ~IsClosed(h)
        /\ \A g \in Shifts \ {h} : (IsOpen(g)' <=> IsOpen(g)) /\ (IsClosed(g)' <=> IsClosed(g))
    BY <1>1, <1>4, <1>5 DEF IsOpen, IsClosed, NoShift
  <1>7. DrawerTyped'
    BY <1>2, <1>5 DEF DrawerOK, DrawerTyped, drawer, books
  <1>8. /\ rows \in Seq(Row(Shifts)) /\ \A n \in DOMAIN rows : rows[n].of \in Shifts
        /\ \A n \in DOMAIN rows : rows[n].of # h
    <2>1. rows \in Seq(Row(Shifts))
      BY DEF DrawerOK, DrawerTyped
    <2>2. \A n \in DOMAIN rows : rows[n] \in Row(Shifts)
      BY <2>1
    <2>3. \A n \in DOMAIN rows : rows[n].of \in Shifts
      BY <2>2 DEF Row
    <2> QED
      BY <1>1, <2>1, <2>3 DEF DrawerOK, Unopened
  <1>9. Unopened'
    <2>1. \A n \in DOMAIN rows : rows[n].of \in Shifts \ {h}
      BY <1>8
    <2>2. \A n \in DOMAIN rows : shift'[rows[n].of] # NoShift
      BY <1>5, <2>1 DEF DrawerOK, Unopened
    <2> QED
      BY <1>2, <1>4, <1>5, <1>6, <2>2 DEF DrawerOK, Unopened, drawer, books
  <1>10. OneOpenShift'
    <2> SUFFICES ASSUME NEW q \in Registers, NEW g \in OpenOn(q)', NEW k \in OpenOn(q)' PROVE g = k
      BY DEF OneOpenShift
    <2>1. g \in Shifts /\ k \in Shifts
      BY DEF OpenOn
    <2>2. ASSUME NEW j \in OpenOn(q)', j # h PROVE j \in OpenOn(q) /\ q # r
      <3>1. j \in OpenOn(q)
        BY <1>5, <1>6, <2>2 DEF OpenOn
      <3> QED
        BY <1>3, <3>1 DEF Free
    <2>3. h \in OpenOn(q)' => q = r
      BY <1>4, <1>5 DEF OpenOn
    <2>4. CASE g = h \/ k = h
      BY <2>2, <2>3, <2>4
    <2>5. CASE g # h /\ k # h
      BY <2>2, <2>5 DEF DrawerOK, OneOpenShift
    <2> QED
      BY <2>4, <2>5
  <1>11. ReportTrue'
    BY <1>2, <1>5, <1>6 DEF DrawerOK, ReportTrue, TakenBy, drawer
  <1>12. PostedOnce'
    <2> SUFFICES ASSUME NEW g \in Shifts, shift'[g] # NoShift
                 PROVE  InLedger(g)' = movedIn[g] - movedOut[g] + (IF IsClosed(g)' THEN TakenBy(g) ELSE 0)
      BY <1>2 DEF PostedOnce, TakenBy, drawer
    <2>1. InLedger(g)' = RowSum(rows, g, shift'[g].register)
      BY <1>2 DEF InLedger, RowSum, books
    <2>2. CASE g = h
      <3>1. RowSum(rows, g, shift'[g].register) = 0
        BY <1>8, <2>2, RowSumNone
      <3>2. movedIn[g] = 0 /\ movedOut[g] = 0
        BY <1>1, <2>2 DEF DrawerOK, Unopened
      <3> QED
        BY <1>6, <2>1, <2>2, <3>1, <3>2
    <2>3. CASE g # h
      <3>1. InLedger(g)' = InLedger(g)
        BY <1>5, <2>1, <2>3 DEF InLedger, RowSum
      <3>2. shift[g] # NoShift /\ (IsClosed(g)' <=> IsClosed(g))
        BY <1>5, <1>6, <2>3
      <3>3. InLedger(g) = movedIn[g] - movedOut[g] + (IF IsClosed(g) THEN TakenBy(g) ELSE 0)
        BY <3>2 DEF DrawerOK, PostedOnce
      <3> QED
        BY <3>1, <3>2, <3>3
    <2> QED
      BY <2>2, <2>3
  <1>13. AtTheDrawer'
    BY <1>2, LeftDrawer DEF DrawerOK
  <1> QED
    BY <1>7, <1>9, <1>10, <1>11, <1>12, <1>13 DEF DrawerOK

\* Sales, refunds and voids: shifts and rows stay, and so does what the drawer
\* took before the close.
LEMMA TakingKeeps ==
  ASSUME DrawerOK, UNCHANGED <<shift, movedIn, movedOut, zReport, books>>,
         sales' \in [Shifts -> Int], refunds' \in [Shifts -> Int],
         late' \in [Shifts -> Int], voided' \in [Shifts -> Int],
         \A h \in Shifts : IF IsClosed(h) THEN TakenBy(h)' = TakenBy(h)
                           ELSE late'[h] = late[h] /\ voided'[h] = voided[h]
  PROVE  DrawerTyped' /\ Unopened' /\ OneOpenShift' /\ ReportTrue' /\ PostedOnce'
PROOF
  <1>1. \A h \in Shifts : (IsOpen(h)' <=> IsOpen(h)) /\ (IsClosed(h)' <=> IsClosed(h))
    BY DEF IsOpen, IsClosed
  <1>2. DrawerTyped'
    BY DEF DrawerOK, DrawerTyped, books
  <1>3. Unopened'
    BY <1>1 DEF DrawerOK, Unopened, books
  <1>4. OneOpenShift'
    BY DEF DrawerOK, OneOpenShift, OpenOn, IsOpen
  <1>5. ReportTrue'
    BY <1>1 DEF DrawerOK, ReportTrue
  <1>6. PostedOnce'
    <2> SUFFICES ASSUME NEW h \in Shifts, shift[h] # NoShift
                 PROVE  InLedger(h)' = movedIn[h] - movedOut[h] + (IF IsClosed(h)' THEN TakenBy(h)' ELSE 0)
      BY DEF PostedOnce
    <2>1. InLedger(h)' = InLedger(h)
      BY DEF InLedger, books
    <2>2. InLedger(h) = movedIn[h] - movedOut[h] + (IF IsClosed(h) THEN TakenBy(h) ELSE 0)
      BY DEF DrawerOK, PostedOnce
    <2> QED
      BY <1>1, <2>1, <2>2
  <1> QED
    BY <1>2, <1>3, <1>4, <1>5, <1>6

LEMMA SaleOrRefundKeeps ==
  ASSUME DrawerOK, OneAtATime, NEW s \in Sessions, BookSale(s) \/ BookRefund(s)
  PROVE  DrawerOK'
PROOF
  <1> DEFINE h == job[s].shift
             x == job[s].amount
  <1>1. PICK here \in {"sale", "refund"} : Leave(s, here)
    BY DEF BookSale, BookRefund
  <1>2. h \in Shifts /\ x \in Int
    BY <1>1, HeldAtDrawer DEF DrawerOK, Counting
  <1>3. UNCHANGED <<shift, movedIn, movedOut, zReport, books>> /\ voided' = voided
    BY DEF BookSale, BookRefund
  <1>4. /\ sales \in [Shifts -> Int] /\ refunds \in [Shifts -> Int]
        /\ late \in [Shifts -> Int] /\ voided \in [Shifts -> Int]
    BY DEF DrawerOK, DrawerTyped
  <1> DEFINE Typed4 == /\ sales' \in [Shifts -> Int] /\ refunds' \in [Shifts -> Int]
                       /\ late' \in [Shifts -> Int] /\ voided' \in [Shifts -> Int]
             Same(g) == IF IsClosed(g) THEN TakenBy(g)' = TakenBy(g)
                        ELSE late'[g] = late[g] /\ voided'[g] = voided[g]
  <1>5. ASSUME BookSale(s) PROVE Typed4 /\ \A g \in Shifts : Same(g)
    <2>1. /\ sales' = [sales EXCEPT ![h] = @ + x] /\ refunds' = refunds
          /\ late' = [late EXCEPT ![h] = IF IsClosed(h) THEN @ + x ELSE @]
      BY <1>5 DEF BookSale, Book
    <2> HIDE DEF h, x
    <2>2. Typed4
      BY <1>2, <1>3, <1>4, <2>1
    <2>3. ASSUME NEW g \in Shifts PROVE Same(g)
      <3>1. CASE g = h
        BY <1>2, <1>3, <1>4, <2>1, <3>1 DEF TakenBy
      <3>2. CASE g # h
        BY <1>2, <1>3, <1>4, <2>1, <3>2 DEF TakenBy
      <3> QED
        BY <3>1, <3>2
    <2> QED
      BY <2>2, <2>3
  <1>6. ASSUME BookRefund(s) PROVE Typed4 /\ \A g \in Shifts : Same(g)
    <2>1. /\ refunds' = [refunds EXCEPT ![h] = @ + x] /\ sales' = sales
          /\ late' = [late EXCEPT ![h] = IF IsClosed(h) THEN @ + (0 - x) ELSE @]
      BY <1>6 DEF BookRefund, Book
    <2> HIDE DEF h, x
    <2>2. Typed4
      BY <1>2, <1>3, <1>4, <2>1
    <2>3. ASSUME NEW g \in Shifts PROVE Same(g)
      <3>1. CASE g = h
        BY <1>2, <1>3, <1>4, <2>1, <3>1 DEF TakenBy
      <3>2. CASE g # h
        BY <1>2, <1>3, <1>4, <2>1, <3>2 DEF TakenBy
      <3> QED
        BY <3>1, <3>2
    <2> QED
      BY <2>2, <2>3
  <1>7. Typed4 /\ \A g \in Shifts : Same(g)
    BY <1>5, <1>6
  <1>8. DrawerTyped' /\ Unopened' /\ OneOpenShift' /\ ReportTrue' /\ PostedOnce'
    BY <1>3, <1>7, TakingKeeps
  <1>9. AtTheDrawer'
    BY <1>1, LeftDrawer DEF DrawerOK
  <1> QED
    BY <1>8, <1>9 DEF DrawerOK

LEMMA VoidKeeps ==
  ASSUME DrawerOK, VoidSale, \A s \in Sessions : phase'[s] = "idle"
  PROVE  DrawerOK'
PROOF
  <1>1. PICK h \in Shifts, x \in Amounts :
          /\ sales' = [sales EXCEPT ![h] = @ - x]
          /\ voided' = [voided EXCEPT ![h] = IF IsClosed(h) THEN @ + x ELSE @]
          /\ UNCHANGED <<shift, refunds, movedIn, movedOut, events, late, zReport, books, desk>>
    BY DEF VoidSale
  <1>2. x \in Int
    BY AmountsAssumption
  <1>3. /\ sales \in [Shifts -> Int] /\ refunds \in [Shifts -> Int]
        /\ late \in [Shifts -> Int] /\ voided \in [Shifts -> Int]
    BY DEF DrawerOK, DrawerTyped
  <1>4. /\ sales' \in [Shifts -> Int] /\ refunds' \in [Shifts -> Int]
        /\ late' \in [Shifts -> Int] /\ voided' \in [Shifts -> Int]
    BY <1>1, <1>2, <1>3
  <1>5. ASSUME NEW g \in Shifts
        PROVE  IF IsClosed(g) THEN TakenBy(g)' = TakenBy(g)
               ELSE late'[g] = late[g] /\ voided'[g] = voided[g]
    BY <1>1, <1>2, <1>3 DEF TakenBy
  <1>6. DrawerTyped' /\ Unopened' /\ OneOpenShift' /\ ReportTrue' /\ PostedOnce'
    BY <1>1, <1>4, <1>5, TakingKeeps
  <1>7. AtTheDrawer'
    <2>1. DeskShaped'
      BY <1>1 DEF DrawerOK, AtTheDrawer, DeskShaped, desk
    <2> QED
      BY <2>1 DEF AtTheDrawer, Counting
  <1> QED
    BY <1>6, <1>7 DEF DrawerOK

\* A row of a shift that is open or has been.
LEMMA ShiftRow ==
  ASSUME DrawerOK, NEW h \in Shifts, shift[h] # NoShift, NEW r \in Row(Shifts), r.of = h,
         r.source \notin {"manual", "external"}, Write(<<r>>),
         \A g \in Shifts : shift[g] # NoShift => shift'[g] # NoShift /\ shift'[g].register = shift[g].register
  PROVE  /\ rows' \in Seq(Row(Shifts))
         /\ \A n \in DOMAIN rows' : /\ shift'[rows'[n].of] # NoShift
                                   /\ rows'[n].source \notin {"manual", "external"}
         /\ \A g \in Shifts \ {h} : shift[g] # NoShift => InLedger(g)' = InLedger(g)
         /\ InLedger(h)' = InLedger(h) + Effect(r, shift[h].register)
         /\ InLedger(h) \in Int
PROOF
  <1>1. rows' = rows \o <<r>>
    BY DEF Write
  <1>2. rows \in Seq(Row(Shifts))
    BY DEF DrawerOK, DrawerTyped
  <1>3. /\ rows' \in Seq(Row(Shifts)) /\ DOMAIN rows' = DOMAIN rows \cup {Len(rows) + 1}
        /\ rows'[Len(rows) + 1] = r /\ \A n \in DOMAIN rows : rows'[n] = rows[n]
    BY <1>1, <1>2, RowSumGrows
  <1>4. ASSUME NEW g \in Shifts, shift[g] # NoShift
        PROVE  /\ InLedger(g)' = InLedger(g) + (IF r.of = g THEN Effect(r, shift[g].register) ELSE 0)
               /\ InLedger(g) \in Int
    <2>1. /\ RowSum(rows, g, shift[g].register) \in Int
          /\ RowSum(rows', g, shift[g].register)
               = RowSum(rows, g, shift[g].register) + (IF r.of = g THEN Effect(r, shift[g].register) ELSE 0)
      BY <1>1, <1>2, RowSumGrows
    <2>2. shift'[g].register = shift[g].register
      BY <1>4
    <2> QED
      BY <2>1, <2>2 DEF InLedger, RowSum
  <1>5. \A n \in DOMAIN rows : rows[n].of \in Shifts
    <2>1. \A n \in DOMAIN rows : rows[n] \in Row(Shifts)
      BY <1>2
    <2> QED
      BY <2>1 DEF Row
  <1>6. ASSUME NEW n \in DOMAIN rows'
        PROVE  shift'[rows'[n].of] # NoShift /\ rows'[n].source \notin {"manual", "external"}
    <2>1. CASE n \in DOMAIN rows
      BY <1>3, <1>5, <2>1 DEF DrawerOK, Unopened
    <2>2. CASE n = Len(rows) + 1
      BY <1>3, <2>2
    <2> QED
      BY <1>3, <2>1, <2>2
  <1>7. ASSUME NEW g \in Shifts \ {h}, shift[g] # NoShift PROVE InLedger(g)' = InLedger(g)
    BY <1>4, <1>7
  <1> QED
    BY <1>3, <1>4, <1>6, <1>7

\* What a shift took stays, while it may close; the ledger answers with a row.
LEMMA MovementKeeps ==
  ASSUME DrawerOK, OneAtATime, NEW s \in Sessions, BookMovement(s)
  PROVE  DrawerOK'
PROOF
  <1>0. PICK h, x, way, on : /\ h = job[s].shift /\ x = job[s].amount /\ way = job[s].way
                             /\ on = shift[h].register
    OBVIOUS
  <1> DEFINE kind == IF way = "in" THEN "income" ELSE "expense"
             source == IF way \in {"in", "out"} THEN "cash_movement" ELSE "supplier_payment"
             r == Leg(kind, source, on, x, h)
  <1>1. /\ Leave(s, "move") /\ Mirror(job[s], on)
        /\ movedIn' = [movedIn EXCEPT ![h] = IF way = "in" THEN @ + x ELSE @]
        /\ movedOut' = [movedOut EXCEPT ![h] = IF way = "in" THEN @ ELSE @ + x]
        /\ UNCHANGED <<shift, sales, refunds, late, voided, zReport>>
    BY <1>0 DEF BookMovement
  <1>2. h \in Shifts /\ x \in Int /\ IsOpen(h)
    BY <1>0, <1>1, HeldAtDrawer DEF DrawerOK, Counting
  <1>3. Write(<<r>>)
    BY <1>0, <1>1 DEF Mirror
  <1>4. shift[h] # NoShift /\ on \in Accounts /\ ~IsClosed(h)
    <2>1. shift[h] \in ShiftSet \cup {NoShift}
      BY <1>2 DEF DrawerOK, DrawerTyped
    <2>2. shift[h] # NoShift /\ ~IsClosed(h)
      BY <1>2 DEF IsOpen, IsClosed, NoShift
    <2>3. on \in Registers
      BY <1>0, <2>1, <2>2 DEF ShiftSet
    <2> QED
      BY <2>2, <2>3, RegistersAssumption DEF ShopAccounts
  <1>5. /\ r \in Row(Shifts) /\ r.of = h /\ r.source \notin {"manual", "external"}
        /\ Effect(r, on) = IF way = "in" THEN x ELSE 0 - x
    <2>1. kind \in Kinds /\ source \in Sources \ {"reversal"} /\ source \notin {"manual", "external"}
      BY DEF Kinds, Sources
    <2>2. r.kind = kind /\ r.account = on /\ r.amount = x
      BY DEF Leg
    <2>3. Effect(r, on) = IF way = "in" THEN x ELSE 0 - x
      BY <1>2, <2>2 DEF Effect
    <2> HIDE DEF kind, source
    <2> QED
      BY <1>2, <1>4, <2>1, <2>3, LegIsARow
  <1> HIDE DEF r, kind, source
  <1>6. /\ rows' \in Seq(Row(Shifts))
        /\ \A n \in DOMAIN rows' : /\ shift'[rows'[n].of] # NoShift
                                  /\ rows'[n].source \notin {"manual", "external"}
        /\ \A g \in Shifts \ {h} : shift[g] # NoShift => InLedger(g)' = InLedger(g)
        /\ InLedger(h)' = InLedger(h) + Effect(r, on)
        /\ InLedger(h) \in Int
    BY <1>0, <1>1, <1>2, <1>3, <1>4, <1>5, ShiftRow
  <1>7. /\ movedIn \in [Shifts -> Int] /\ movedOut \in [Shifts -> Int]
        /\ movedIn' \in [Shifts -> Int] /\ movedOut' \in [Shifts -> Int]
    BY <1>1, <1>2 DEF DrawerOK, DrawerTyped
  <1>8. /\ movedIn'[h] - movedOut'[h] = movedIn[h] - movedOut[h] + (IF way = "in" THEN x ELSE 0 - x)
        /\ \A g \in Shifts \ {h} : movedIn'[g] = movedIn[g] /\ movedOut'[g] = movedOut[g]
    BY <1>1, <1>2, <1>7
  <1>9. \A g \in Shifts : /\ (IsOpen(g)' <=> IsOpen(g)) /\ (IsClosed(g)' <=> IsClosed(g))
                          /\ TakenBy(g)' = TakenBy(g)
    BY <1>1 DEF IsOpen, IsClosed, TakenBy
  <1>10. DrawerTyped'
    BY <1>1, <1>6, <1>7 DEF DrawerOK, DrawerTyped
  <1>11. Unopened'
    BY <1>1, <1>2, <1>4, <1>6, <1>8, <1>9 DEF DrawerOK, Unopened
  <1>12. OneOpenShift'
    BY <1>1 DEF DrawerOK, OneOpenShift, OpenOn, IsOpen
  <1>13. ReportTrue'
    <2> SUFFICES ASSUME NEW g \in Shifts, IsClosed(g)
                 PROVE  zReport'[g] = shift'[g].float + movedIn'[g] - movedOut'[g] + TakenBy(g)'
      BY <1>9 DEF ReportTrue
    <2>1. g # h
      BY <1>4
    <2> QED
      BY <1>1, <1>8, <1>9, <2>1 DEF DrawerOK, ReportTrue
  <1>14. PostedOnce'
    <2> SUFFICES ASSUME NEW g \in Shifts, shift[g] # NoShift
                 PROVE  InLedger(g)' = movedIn'[g] - movedOut'[g] + (IF IsClosed(g)' THEN TakenBy(g)' ELSE 0)
      BY <1>1 DEF PostedOnce
    <2>1. InLedger(g) = movedIn[g] - movedOut[g] + (IF IsClosed(g) THEN TakenBy(g) ELSE 0)
      BY DEF DrawerOK, PostedOnce
    <2>2. CASE g = h
      BY <1>2, <1>4, <1>5, <1>6, <1>7, <1>8, <1>9, <2>1, <2>2
    <2>3. CASE g # h
      BY <1>6, <1>8, <1>9, <2>1, <2>3
    <2> QED
      BY <2>2, <2>3
  <1>15. AtTheDrawer'
    BY <1>1, LeftDrawer DEF DrawerOK
  <1> QED
    BY <1>10, <1>11, <1>12, <1>13, <1>14, <1>15 DEF DrawerOK

LEMMA ClosingKeeps ==
  ASSUME DrawerOK, OneAtATime, NEW s \in Sessions, CloseShift(s)
  PROVE  DrawerOK'
PROOF
  <1>0. PICK h, net, on : /\ h = job[s].shift /\ net = NetSales(seen[s])
                          /\ on = shift[h].register
    OBVIOUS
  <1> DEFINE r == Leg("shift_close", "shift_close", on, net, h)
  <1>1. /\ Leave(s, "close")
        /\ shift' = [shift EXCEPT ![h].status = "closed"]
        /\ zReport' = [zReport EXCEPT ![h] = Expected(shift[h].float, seen[s])]
        /\ (net = 0 => UNCHANGED books) /\ (net # 0 => Write(<<r>>))
        /\ UNCHANGED drawer
    BY <1>0 DEF CloseShift
  <1>2. /\ h \in Shifts /\ IsOpen(h)
        /\ seen[s].movedIn = movedIn[h] /\ seen[s].movedOut = movedOut[h]
        /\ seen[s].sales = sales[h] /\ seen[s].refunds = refunds[h]
    BY <1>0, <1>1, HeldAtDrawer DEF DrawerOK, Counting
  <1>3. /\ sales[h] \in Int /\ refunds[h] \in Int /\ movedIn[h] \in Int /\ movedOut[h] \in Int
        /\ shift[h] \in ShiftSet \cup {NoShift} /\ zReport \in [Shifts -> Int]
    BY <1>2 DEF DrawerOK, DrawerTyped
  <1>4. shift[h] # NoShift /\ ~IsClosed(h) /\ shift[h] \in ShiftSet
    BY <1>2, <1>3 DEF IsOpen, IsClosed, NoShift
  <1>5. on \in Accounts /\ shift[h].float \in Int
    <2>1. on \in Registers /\ shift[h].float \in Floats
      BY <1>0, <1>4 DEF ShiftSet
    <2>2. on \in Accounts
      BY <2>1, RegistersAssumption DEF ShopAccounts
    <2>3. Floats \subseteq Int
      BY AmountsAssumption
    <2> QED
      BY <2>1, <2>2, <2>3
  <1>6. net = sales[h] - refunds[h] /\ net \in Int
    BY <1>0, <1>2, <1>3 DEF NetSales
  <1>7. late[h] = 0 /\ voided[h] = 0
    BY <1>2, <1>4 DEF DrawerOK, Unopened
  <1>8. /\ r \in Row(Shifts) /\ r.of = h /\ r.source \notin {"manual", "external"}
        /\ Effect(r, on) = net
    <2>1. r.kind = "shift_close" /\ r.account = on /\ r.amount = net
      BY DEF Leg
    <2>2. Effect(r, on) = net
      BY <2>1 DEF Effect
    <2>3. "shift_close" \in Kinds /\ "shift_close" \in Sources \ {"reversal"}
      BY DEF Kinds, Sources
    <2>4. r \in Row(Shifts) /\ r.of = h
      <3> DEFINE kind == "shift_close"
                 source == "shift_close"
                 q == Leg(kind, source, on, net, h)
      <3> HIDE DEF kind, source
      <3>1. kind \in Kinds /\ source \in Sources \ {"reversal"}
        BY <2>3 DEF kind, source
      <3>2. q \in Row(Shifts) /\ q.of = h
        BY <1>2, <1>5, <1>6, <3>1, LegIsARow
      <3> QED
        BY <3>2 DEF kind, source
    <2>5. r.source = "shift_close"
      BY DEF Leg
    <2> QED
      BY <2>2, <2>4, <2>5
  <1>9. /\ shift' \in [Shifts -> ShiftSet \cup {NoShift}]
        /\ shift'[h] \in ShiftSet /\ shift'[h].status = "closed" /\ shift'[h] # NoShift
        /\ shift'[h].register = on /\ shift'[h].float = shift[h].float
        /\ \A g \in Shifts \ {h} : shift'[g] = shift[g]
    <2> DEFINE q == [shift[h] EXCEPT !.status = "closed"]
    <2>1. /\ q \in ShiftSet /\ q.status = "closed" /\ q # NoShift
          /\ q.register = on /\ q.float = shift[h].float
      BY <1>0, <1>4 DEF ShiftSet, NoShift
    <2>2. shift' = [shift EXCEPT ![h] = q]
      BY <1>1
    <2> HIDE DEF q
    <2> QED
      BY <1>2, <2>1, <2>2 DEF DrawerOK, DrawerTyped
  <1>10. /\ IsClosed(h)' /\ ~IsOpen(h)'
         /\ \A g \in Shifts \ {h} : (IsOpen(g)' <=> IsOpen(g)) /\ (IsClosed(g)' <=> IsClosed(g))
         /\ \A g \in Shifts : TakenBy(g)' = TakenBy(g)
    BY <1>1, <1>9 DEF IsOpen, IsClosed, TakenBy, drawer
  <1>11. \A g \in Shifts : shift[g] # NoShift => shift'[g] # NoShift /\ shift'[g].register = shift[g].register
    <2> SUFFICES ASSUME NEW g \in Shifts, shift[g] # NoShift
                 PROVE  shift'[g] # NoShift /\ shift'[g].register = shift[g].register
      OBVIOUS
    <2>1. CASE g = h
      BY <1>0, <1>9, <2>1
    <2>2. CASE g # h
      BY <1>9, <2>2
    <2> QED
      BY <2>1, <2>2
  <1> HIDE DEF r
  <1>12. /\ rows' \in Seq(Row(Shifts))
         /\ \A n \in DOMAIN rows' : /\ shift'[rows'[n].of] # NoShift
                                   /\ rows'[n].source \notin {"manual", "external"}
         /\ \A g \in Shifts \ {h} : shift[g] # NoShift => InLedger(g)' = InLedger(g)
         /\ InLedger(h)' = InLedger(h) + net
         /\ InLedger(h) \in Int
    <2>1. CASE net # 0
      <3>1. Write(<<r>>)
        BY <1>1, <2>1
      <3> QED
        BY <1>0, <1>2, <1>4, <1>8, <1>11, <3>1, ShiftRow
    <2>2. CASE net = 0
      <3>1. rows' = rows
        BY <1>1, <2>2 DEF books
      <3>2. rows \in Seq(Row(Shifts))
        BY DEF DrawerOK, DrawerTyped
      <3>3. \A n \in DOMAIN rows : rows[n].of \in Shifts
        <4>1. \A n \in DOMAIN rows : rows[n] \in Row(Shifts)
          BY <3>2
        <4> QED
          BY <4>1 DEF Row
      <3>4. \A g \in Shifts : shift[g] # NoShift => InLedger(g)' = InLedger(g)
        BY <1>11, <3>1 DEF InLedger
      <3>5. InLedger(h) \in Int
        <4>1. RowSum(rows, h, shift[h].register) \in Int
          BY <1>8, <3>2, RowSumGrows
        <4> QED
          BY <4>1 DEF InLedger, RowSum
      <3>6. \A n \in DOMAIN rows : shift'[rows[n].of] # NoShift /\ rows[n].source \notin {"manual", "external"}
        BY <1>11, <3>3 DEF DrawerOK, Unopened
      <3> QED
        BY <1>2, <1>4, <2>2, <3>1, <3>2, <3>4, <3>5, <3>6
    <2> QED
      BY <2>1, <2>2
  <1>13. DrawerTyped'
    <2>1. Expected(shift[h].float, seen[s]) \in Int
      BY <1>2, <1>3, <1>5 DEF Expected
    <2>2. zReport' \in [Shifts -> Int]
      BY <1>1, <1>2, <1>3, <2>1
    <2> QED
      BY <1>1, <1>9, <1>12, <2>2 DEF DrawerOK, DrawerTyped, drawer
  <1>14. Unopened'
    BY <1>1, <1>2, <1>9, <1>10, <1>12 DEF DrawerOK, Unopened, drawer
  <1>15. OneOpenShift'
    <2>1. \A q \in Registers : OpenOn(q)' \subseteq OpenOn(q)
      BY <1>9, <1>10 DEF OpenOn
    <2> QED
      BY <2>1 DEF DrawerOK, OneOpenShift
  <1>16. TakenBy(h) = net
    BY <1>2, <1>3, <1>6, <1>7 DEF TakenBy
  <1>17. ReportTrue'
    <2> SUFFICES ASSUME NEW g \in Shifts, IsClosed(g)'
                 PROVE  zReport'[g] = shift'[g].float + movedIn'[g] - movedOut'[g] + TakenBy(g)'
      BY DEF ReportTrue
    <2>1. movedIn' = movedIn /\ movedOut' = movedOut
      BY <1>1 DEF drawer
    <2>2. CASE g = h
      <3>1. zReport'[h] = shift[h].float + (sales[h] + movedIn[h]) - (movedOut[h] + refunds[h])
        BY <1>1, <1>2, <1>3 DEF Expected
      <3> QED
        BY <1>3, <1>5, <1>6, <1>9, <1>10, <1>16, <2>1, <2>2, <3>1
    <2>3. CASE g # h
      BY <1>1, <1>3, <1>9, <1>10, <2>1, <2>3 DEF DrawerOK, ReportTrue
    <2> QED
      BY <2>2, <2>3
  <1>18. PostedOnce'
    <2> SUFFICES ASSUME NEW g \in Shifts, shift'[g] # NoShift
                 PROVE  InLedger(g)' = movedIn'[g] - movedOut'[g] + (IF IsClosed(g)' THEN TakenBy(g)' ELSE 0)
      BY DEF PostedOnce
    <2>1. movedIn' = movedIn /\ movedOut' = movedOut
      BY <1>1 DEF drawer
    <2>2. shift[g] # NoShift
      BY <1>4, <1>9
    <2>3. InLedger(g) = movedIn[g] - movedOut[g] + (IF IsClosed(g) THEN TakenBy(g) ELSE 0)
      BY <2>2 DEF DrawerOK, PostedOnce
    <2>4. CASE g = h
      BY <1>2, <1>3, <1>4, <1>6, <1>10, <1>12, <1>16, <2>1, <2>3, <2>4
    <2>5. CASE g # h
      BY <1>10, <1>12, <2>1, <2>2, <2>3, <2>5
    <2> QED
      BY <2>4, <2>5
  <1>19. AtTheDrawer'
    BY <1>1, LeftDrawer DEF DrawerOK
  <1> QED
    BY <1>13, <1>14, <1>15, <1>17, <1>18, <1>19 DEF DrawerOK

\* In this load nobody works on the page of the owner.
LEMMA NobodyOnThePage ==
  ASSUME DrawerOK, ManualRows = {}
  PROVE  ~FinanceNext
PROOF
  <1> SUFFICES ASSUME FinanceNext PROVE FALSE
    OBVIOUS
  <1>1. rows \in Seq(Row(Shifts)) /\ \A n \in DOMAIN rows : rows[n].source \notin {"manual", "external"}
    BY DEF DrawerOK, DrawerTyped, Unopened
  <1>2. ASSUME NEW new, new[1].source \in {"manual", "external"}, Write(new),
               NEW S, new \in Seq(S), Len(new) # 0
        PROVE  FALSE
    <2> DEFINE T == S \cup Row(Shifts)
    <2>1. rows' = rows \o new
      BY <1>2 DEF Write
    <2>2. rows \in Seq(T) /\ new \in Seq(T)
      BY <1>1, <1>2
    <2> HIDE DEF T
    <2>3. /\ DOMAIN rows' = 1..(Len(rows) + Len(new)) /\ rows'[Len(rows) + 1] = new[1]
          /\ Len(rows) + 1 \in DOMAIN rows'
      BY <1>2, <2>1, <2>2, Concatenated
    <2> QED
      BY <1>2, <2>3 DEF ManualRows
  <1>3. CASE Income
    <2>1. PICK a, x : Write(<<Leg("income", "manual", a, x, "none")>>)
      BY <1>3 DEF Income
    <2> DEFINE r == Leg("income", "manual", a, x, "none")
    <2>2. r.source = "manual"
      BY DEF Leg
    <2> HIDE DEF r
    <2> DEFINE new == <<r>>
    <2>3. new \in Seq({r}) /\ new[1].source = "manual" /\ Len(new) # 0
      BY <2>2
    <2>4. Write(new)
      BY <2>1 DEF r
    <2> HIDE DEF new
    <2> QED
      BY <1>2, <2>3, <2>4
  <1>4. CASE SpendManually
    <2>1. PICK a, x : Write(Expense("manual", a, x, "none"))
      BY <1>4 DEF SpendManually
    <2> DEFINE n == Len(rows)
               e == Leg("expense", "manual", outside, x, "none")
               c == Leg("income", "external", outside, x, "none")
               r == [c EXCEPT !.pair = n + 1]
               q == [e EXCEPT !.pair = n + 1]
               o == Leg("expense", "manual", a, x, "none")
    <2>2. r.source = "external" /\ o.source = "manual"
      BY DEF Leg
    <2>3. Expense("manual", a, x, "none") = IF a = outside THEN <<r, q>> ELSE <<o>>
      BY DEF Expense, ExpenseAfter
    <2> HIDE DEF r, q, o
    <2>4. CASE a = outside
      <3> DEFINE new == <<r, q>>
      <3>1. new \in Seq({r, q}) /\ new[1].source = "external" /\ Len(new) # 0
        BY <2>2
      <3>2. Write(new)
        BY <2>1, <2>3, <2>4
      <3> HIDE DEF new
      <3> QED
        BY <1>2, <3>1, <3>2
    <2>5. CASE a # outside
      <3> DEFINE new == <<o>>
      <3>1. new \in Seq({o}) /\ new[1].source = "manual" /\ Len(new) # 0
        BY <2>2
      <3>2. Write(new)
        BY <2>1, <2>3, <2>5
      <3> HIDE DEF new
      <3> QED
        BY <1>2, <3>1, <3>2
    <2> QED
      BY <2>4, <2>5
  <1>5. CASE Transfer
    <2>1. PICK a, b, x : Write(<<[Leg("transfer", "manual", a, x, "none") EXCEPT !.to = b]>>)
      BY <1>5 DEF Transfer
    <2> DEFINE r == [Leg("transfer", "manual", a, x, "none") EXCEPT !.to = b]
    <2>2. r.source = "manual"
      BY DEF Leg
    <2> HIDE DEF r
    <2> DEFINE new == <<r>>
    <2>3. new \in Seq({r}) /\ new[1].source = "manual" /\ Len(new) # 0
      BY <2>2
    <2>4. Write(new)
      BY <2>1 DEF r
    <2> HIDE DEF new
    <2> QED
      BY <1>2, <2>3, <2>4
  <1>6. CASE CancelManually
    <2>1. PICK n \in DOMAIN rows : Reversible(n, TRUE)
      BY <1>6 DEF CancelManually, CanReverse
    <2>2. rows[n].source \in {"manual", "external"}
      BY <2>1 DEF Reversible, LegsOf
    <2> QED
      BY <1>1, <2>2
  <1> QED
    BY <1>3, <1>4, <1>5, <1>6 DEF FinanceNext

LEMMA DrawerStarts == ASSUME ShiftInit PROVE DrawerOK
PROOF
  <1>1. /\ rows = <<>> /\ shift = [h \in Shifts |-> NoShift]
        /\ \A h \in Shifts : shift[h] = NoShift /\ ~IsOpen(h) /\ ~IsClosed(h)
    BY DEF ShiftInit, BooksInit, IsOpen, IsClosed, NoShift
  <1>2. DrawerTyped
    BY <1>1 DEF ShiftInit, DrawerTyped
  <1>3. Unopened
    BY <1>1 DEF ShiftInit, Unopened
  <1>4. AtTheDrawer
    BY DEF ShiftInit, DeskInit, AtTheDrawer, DeskShaped, Counting
  <1>5. OneOpenShift
    BY <1>1 DEF OneOpenShift, OpenOn
  <1>6. ReportTrue /\ PostedOnce
    BY <1>1 DEF ReportTrue, PostedOnce
  <1> QED
    BY <1>2, <1>3, <1>4, <1>5, <1>6 DEF DrawerOK

LEMMA DrawerSteps == ASSUME DrawerOK, ShiftNext, Alone, ManualRows = {} PROVE DrawerOK'
PROOF
  <1>1. OneAtATime
    BY DEF Alone
  <1>2. CASE VoidSale
    <2>1. \A s \in Sessions : phase'[s] = "idle"
      BY <1>2 DEF Alone, VoidSale
    <2> QED
      BY <1>2, <2>1, VoidKeeps
  <1>3. CASE FinancePage
    BY <1>3, NobodyOnThePage DEF FinancePage
  <1>4. ASSUME NEW s \in Sessions,
               \/ LookToOpen(s) \/ OpenShift(s)
               \/ LookToSell(s) \/ BookSale(s) \/ BookRefund(s)
               \/ LookToMove(s) \/ BookMovement(s)
               \/ LookToClose(s) \/ SumSales(s) \/ CloseShift(s)
               \/ ShiftGivesUp(s)
        PROVE  DrawerOK'
    BY <1>1, <1>4, LooksAtDrawer, OpeningKeeps, SaleOrRefundKeeps, MovementKeeps, ClosingKeeps
  <1> QED
    BY <1>2, <1>3, <1>4 DEF ShiftNext

\* One request at a time, a register has one open shift, a Z-report is what the
\* drawer held at the close, and the ledger has every movement once and, from the
\* close on, exactly what the shift's sales and refunds came to (closeShift,
\* addMovement).
THEOREM AloneDrawerThm == MCSpec => []AloneDrawerTrue
PROOF
  <1> DEFINE D == load = "shift alone" => DrawerOK
  <1>1. MCInit => D
    BY DrawerStarts DEF MCInit
  <1>2. D /\ [MCNext]_<<credits, drawers, payroll, books, desk, load>> => D'
    <2> SUFFICES ASSUME D, [MCNext]_<<credits, drawers, payroll, books, desk, load>>,
                        load' = "shift alone"
                 PROVE  DrawerOK'
      OBVIOUS
    <2>1. load' = load
      BY DEF MCNext
    <2>2. DrawerOK
      BY <2>1
    <2>3. CASE MCNext
      <3>1. ShiftNext /\ ShiftStep
        BY <2>1, <2>3 DEF MCNext
      <3>2. Alone /\ ManualRows = {}
        BY <2>1, <3>1 DEF ShiftStep
      <3> QED
        BY <2>2, <3>1, <3>2, DrawerSteps
    <2>4. CASE UNCHANGED <<credits, drawers, payroll, books, desk, load>>
      <3>1. UNCHANGED <<shift, drawer, zReport, books>> /\ UNCHANGED desk
        BY <2>4 DEF drawers
      <3>2. AtTheDrawer'
        BY <2>2, <3>1 DEF DrawerOK, AtTheDrawer, DeskShaped, Counting, desk, drawer, IsOpen, Free, OpenOn
      <3> QED
        BY <2>2, <3>1, <3>2, DrawerStays DEF DrawerOK
    <2> QED
      BY <2>3, <2>4
  <1>3. D => AloneDrawerTrue
    BY DEF DrawerOK, AloneDrawerTrue
  <1> QED
    BY <1>1, <1>2, <1>3, PTL DEF MCSpec

------------------------------------------------------------------------------
\* Wages, one request at a time: what each employee is owed is what the entries
\* that stand say, and the cron leaves nobody out.

\* What the entries of a set say of an employee.
OwedBy(E, L, e) == SumFunction([n \in L |-> IF E[n].of = e THEN Signed(E[n]) ELSE 0])

LEMMA SignedIsNumber == ASSUME NEW entry \in EntrySet PROVE Signed(entry) \in Int
  BY DEF EntrySet, Signed

LEMMA OwedIs ==
  ASSUME NEW E, NEW L, IsFiniteSet(L), NEW e, NEW f,
         \A n \in L : f[n] = IF E[n].of = e THEN Signed(E[n]) ELSE 0
  PROVE  OwedBy(E, L, e) = SumFunctionOnSet(f, L)
PROOF
  <1> DEFINE g == [n \in L |-> IF E[n].of = e THEN Signed(E[n]) ELSE 0]
  <1>1. DOMAIN g = L /\ \A n \in L : g[n] = f[n]
    OBVIOUS
  <1> HIDE DEF g
  <1>2. SumFunctionOnSet(g, L) = SumFunctionOnSet(f, L)
    BY <1>1, SumEqual
  <1> QED
    BY <1>1, <1>2 DEF OwedBy, SumFunction, g

LEMMA OwedSame ==
  ASSUME NEW E, NEW F, NEW L, IsFiniteSet(L), NEW e, \A n \in L : E[n] = F[n]
  PROVE  OwedBy(E, L, e) = OwedBy(F, L, e)
PROOF
  <1> DEFINE f == [n \in L |-> IF E[n].of = e THEN Signed(E[n]) ELSE 0]
  <1>1. /\ \A n \in L : f[n] = IF E[n].of = e THEN Signed(E[n]) ELSE 0
        /\ \A n \in L : f[n] = IF F[n].of = e THEN Signed(F[n]) ELSE 0
    OBVIOUS
  <1> HIDE DEF f
  <1> QED
    BY <1>1, OwedIs

LEMMA OwedNone ==
  ASSUME NEW E, NEW L, IsFiniteSet(L), NEW e, \A n \in L : E[n].of # e
  PROVE  OwedBy(E, L, e) = 0
PROOF
  <1> DEFINE f == [n \in L |-> 0]
  <1>1. \A n \in L : f[n] = 0
    OBVIOUS
  <1> HIDE DEF f
  <1>2. OwedBy(E, L, e) = SumFunctionOnSet(f, L)
    BY <1>1, OwedIs
  <1> QED
    BY <1>1, <1>2, SumZero

LEMMA OwedAlso ==
  ASSUME NEW E, NEW L, IsFiniteSet(L), NEW p, p \notin L, NEW e,
         \A n \in L \cup {p} : E[n] \in EntrySet
  PROVE  /\ OwedBy(E, L \cup {p}, e) = OwedBy(E, L, e) + (IF E[p].of = e THEN Signed(E[p]) ELSE 0)
         /\ OwedBy(E, L, e) \in Int
PROOF
  <1> DEFINE f == [n \in L \cup {p} |-> IF E[n].of = e THEN Signed(E[n]) ELSE 0]
  <1>1. \A n \in L \cup {p} : f[n] = IF E[n].of = e THEN Signed(E[n]) ELSE 0
    OBVIOUS
  <1>2. \A n \in L \cup {p} : f[n] \in Int
    BY SignedIsNumber
  <1>3. IsFiniteSet(L \cup {p})
    BY FS_AddElement
  <1> HIDE DEF f
  <1>4. SumFunctionOnSet(f, L \cup {p}) = SumFunctionOnSet(f, L) + f[p]
    BY <1>2, SumAdd
  <1>5. SumFunctionOnSet(f, L) \in Int
    BY <1>2, SumInt
  <1>6. OwedBy(E, L, e) = SumFunctionOnSet(f, L)
    BY <1>1, OwedIs
  <1>7. OwedBy(E, L \cup {p}, e) = SumFunctionOnSet(f, L \cup {p})
    BY <1>1, <1>3, OwedIs
  <1> QED
    BY <1>1, <1>4, <1>5, <1>6, <1>7

\* The entries of two sets.
LEMMA OwedBoth ==
  ASSUME NEW E, NEW L, NEW M, IsFiniteSet(L), IsFiniteSet(M), L \cap M = {}, NEW e,
         \A n \in L \cup M : E[n] \in EntrySet
  PROVE  /\ OwedBy(E, L \cup M, e) = OwedBy(E, L, e) + OwedBy(E, M, e)
         /\ OwedBy(E, L, e) \in Int /\ OwedBy(E, M, e) \in Int
PROOF
  <1> DEFINE f == [n \in L \cup M |-> IF E[n].of = e THEN Signed(E[n]) ELSE 0]
  <1>1. \A n \in L \cup M : f[n] = IF E[n].of = e THEN Signed(E[n]) ELSE 0
    OBVIOUS
  <1>2. \A n \in L \cup M : f[n] \in Int
    BY SignedIsNumber
  <1>3. IsFiniteSet(L \cup M)
    BY FS_Union
  <1> HIDE DEF f
  <1>4. SumFunctionOnSet(f, L \cup M) = SumFunctionOnSet(f, L) + SumFunctionOnSet(f, M)
    BY <1>2, SumUnion
  <1>5. SumFunctionOnSet(f, L) \in Int /\ SumFunctionOnSet(f, M) \in Int
    BY <1>2, SumInt
  <1>6. OwedBy(E, L, e) = SumFunctionOnSet(f, L) /\ OwedBy(E, M, e) = SumFunctionOnSet(f, M)
    BY <1>1, OwedIs
  <1>7. OwedBy(E, L \cup M, e) = SumFunctionOnSet(f, L \cup M)
    BY <1>1, <1>3, OwedIs
  <1> QED
    BY <1>4, <1>5, <1>6, <1>7

------------------------------------------------------------------------------
\* The invariant.

\* Everyone has the accrual of a month, unless someone undid it.
Covered(month) == \A e \in Staff : Wage[e] > 0 /\ <<e, month>> \notin undone => Accrued(e, month)

\* What a request of the payroll read is still so.
Reckoning(s) ==
  /\ phase[s] = "undo" => job[s].entry \in Live /\ seen[s] = entries[job[s].entry]
  /\ phase[s] = "auto" => /\ \A e \in Staff : Wage[e] > 0 => e \in seen[s] \/ Accrued(e, job[s].month)
                          /\ \A e \in seen[s] : ~Accrued(e, job[s].month)
  /\ phase[s] = "mark" => job[s].month \in Int /\ Covered(job[s].month)

AtThePayroll == /\ DeskOK
                /\ \A s, t \in Sessions : phase[s] # "idle" /\ phase[t] # "idle" => s = t
                /\ \A s \in Sessions : Reckoning(s)

WagesTrue == /\ wages \in [Staff -> Int] /\ lastAuto \in Int
             /\ WagesAddUp /\ CronCovers

WagesOK == PayrollOK /\ WagesTrue /\ AtThePayroll

LEMMA LiveIsFinite == ASSUME EntriesOK PROVE IsFiniteSet(Live) /\ \A n \in Live : entries[n] \in EntrySet
PROOF
  <1>1. IsFiniteSet(DOMAIN entries)
    <2>1. entries \in Seq(EntrySet \cup {Gone})
      BY DEF EntriesOK
    <2> QED
      BY <2>1, FS_Interval
  <1>2. Live \subseteq DOMAIN entries
    BY DEF Live
  <1> QED
    BY <1>1, <1>2, FS_Subset, LiveEntries

LEMMA OwedToAll == WagesAddUp <=> \A e \in Staff : wages[e] = OwedBy(entries, Live, e)
  BY DEF WagesAddUp, OwedBy

\* Whoever moves is alone.
LEMMA OneAtPayroll ==
  ASSUME AtThePayroll, OneAtATime, NEW s \in Sessions, NEW a, NEW b, NEW c,
         \/ Enter(s, a, b, c) /\ a # "idle"
         \/ Proceed(s, a, b, c) /\ a # "idle"
         \/ Leave(s, a) /\ a # "idle",
         Reckoning(s)'
  PROVE  AtThePayroll'
PROOF
  <1>1. DeskOK' /\ \A t \in Sessions \ {s} : Waits(t)
    BY DEF AtThePayroll, DeskOK, Enter, Proceed, Leave, Waits
  <1>2. phase[s] # "idle" \/ phase'[s] # "idle"
    BY DEF AtThePayroll, DeskOK, Enter, Proceed, Leave
  <1>3. \A t \in Sessions \ {s} : phase'[t] = "idle"
    BY <1>1, <1>2 DEF AtThePayroll, OneAtATime, Waits
  <1>4. \A t \in Sessions \ {s} : Reckoning(t)'
    BY <1>3 DEF Reckoning
  <1> QED
    BY <1>1, <1>3, <1>4 DEF AtThePayroll

LEMMA LeftPayroll ==
  ASSUME AtThePayroll, OneAtATime, NEW s \in Sessions, NEW a, Leave(s, a), a # "idle"
  PROVE  AtThePayroll'
PROOF
  <1>1. phase'[s] = "idle"
    BY DEF AtThePayroll, DeskOK, Leave
  <1>2. Reckoning(s)'
    BY <1>1 DEF Reckoning
  <1> QED
    BY <1>2, OneAtPayroll

LEMMA NobodyAtPayroll ==
  ASSUME AtThePayroll, UNCHANGED desk, \A s \in Sessions : phase'[s] = "idle"
  PROVE  AtThePayroll'
PROOF
  <1>1. DeskOK'
    BY DEF AtThePayroll, DeskOK, desk
  <1> QED
    BY <1>1 DEF AtThePayroll, Reckoning

\* Accruals stay while entries are only added.
LEMMA AccruedStays ==
  ASSUME Live \subseteq Live', \A n \in Live : entries'[n] = entries[n], NEW e, NEW month,
         Accrued(e, month)
  PROVE  Accrued(e, month)'
  BY DEF Accrued

LEMMA CoversStay ==
  ASSUME CronCovers, Live \subseteq Live', \A n \in Live : entries'[n] = entries[n],
         UNCHANGED <<lastAuto, undone>>
  PROVE  CronCovers'
PROOF
  <1> SUFFICES ASSUME lastAuto > 0, NEW e \in Staff, Wage[e] > 0, <<e, lastAuto>> \notin undone
               PROVE  Accrued(e, lastAuto)'
    BY DEF CronCovers
  <1>1. Accrued(e, lastAuto)
    BY DEF CronCovers
  <1> QED
    BY <1>1, AccruedStays DEF Accrued

LEMMA WagesStay == ASSUME WagesTrue, UNCHANGED <<entries, wages, lastAuto, undone>> PROVE WagesTrue'
  BY DEF WagesTrue, WagesAddUp, CronCovers, Live, Accrued

\* One entry more.
LEMMA PostingAdds ==
  ASSUME EntriesOK, WagesTrue, NEW new \in EntrySet, Post(new), UNCHANGED <<lastAuto, undone>>
  PROVE  WagesTrue'
PROOF
  <1> DEFINE p == Len(entries) + 1
             S == EntrySet \cup {Gone}
  <1>1. entries \in Seq(S) /\ entries' = Append(entries, new) /\ new \in S
    BY DEF EntriesOK, Post
  <1>2. /\ p \notin DOMAIN entries /\ DOMAIN entries' = DOMAIN entries \cup {p}
        /\ entries'[p] = new /\ \A n \in DOMAIN entries : entries'[n] = entries[n]
    <2> HIDE DEF S
    <2> QED
      BY <1>1
  <1> HIDE DEF p
  <1>3. new # Gone
    BY GoneIsNoEntry
  <1>4. Live' = Live \cup {p} /\ p \notin Live /\ \A n \in Live : entries'[n] = entries[n]
    BY <1>2, <1>3 DEF Live
  <1>5. IsFiniteSet(Live) /\ \A n \in Live : entries[n] \in EntrySet
    BY LiveIsFinite
  <1>6. wages' = [wages EXCEPT ![new.of] = @ + Signed(new)] /\ Signed(new) \in Int
    BY SignedIsNumber DEF Post
  <1>7. wages' \in [Staff -> Int]
    <2>1. new.of \in Staff
      BY DEF EntrySet
    <2> QED
      BY <1>6, <2>1 DEF WagesTrue
  <1>8. ASSUME NEW e \in Staff PROVE wages'[e] = OwedBy(entries', Live', e)
    <2>1. /\ OwedBy(entries', Live \cup {p}, e)
               = OwedBy(entries', Live, e) + (IF entries'[p].of = e THEN Signed(entries'[p]) ELSE 0)
          /\ OwedBy(entries', Live, e) \in Int
      <3>1. \A n \in Live \cup {p} : entries'[n] \in EntrySet
        BY <1>2, <1>4, <1>5
      <3> QED
        BY <1>4, <1>5, <3>1, OwedAlso
    <2>2. OwedBy(entries', Live, e) = OwedBy(entries, Live, e)
      BY <1>4, <1>5, OwedSame
    <2>3. wages[e] = OwedBy(entries, Live, e) /\ wages[e] \in Int
      BY OwedToAll DEF WagesTrue
    <2>4. wages'[e] = IF new.of = e THEN wages[e] + Signed(new) ELSE wages[e]
      BY <1>6 DEF WagesTrue
    <2> QED
      BY <1>2, <1>4, <1>6, <2>1, <2>2, <2>3, <2>4
  <1>9. WagesAddUp'
    BY <1>8 DEF WagesAddUp, OwedBy
  <1>10. CronCovers'
    BY <1>4, CoversStay DEF WagesTrue
  <1> QED
    BY <1>7, <1>9, <1>10 DEF WagesTrue

\* An entry that stands goes.
LEMMA UndoingTakes ==
  ASSUME EntriesOK, WagesTrue, NEW j \in Live, NEW entry, entry = entries[j], TakenBack(entry.of, entry),
         entries' = [entries EXCEPT ![j] = Gone], lastAuto' = lastAuto,
         undone' = IF entry.type = "accrual" THEN undone \union {<<entry.of, entry.month>>} ELSE undone
  PROVE  WagesTrue'
PROOF
  <1>1. IsFiniteSet(Live) /\ \A n \in Live : entries[n] \in EntrySet
    BY LiveIsFinite
  <1>2. /\ entries' [j] = Gone /\ DOMAIN entries' = DOMAIN entries
        /\ \A n \in DOMAIN entries \ {j} : entries'[n] = entries[n]
    BY DEF Live
  <1>3. Live' = Live \ {j} /\ \A n \in Live \ {j} : entries'[n] = entries[n]
    BY <1>2 DEF Live
  <1>4. entry \in EntrySet /\ entry.of \in Staff /\ Signed(entry) \in Int
    BY <1>1, SignedIsNumber DEF EntrySet
  <1>5. wages' = [wages EXCEPT ![entry.of] = @ - Signed(entry)]
    BY DEF TakenBack
  <1>6. wages' \in [Staff -> Int]
    BY <1>4, <1>5 DEF WagesTrue
  <1>7. ASSUME NEW e \in Staff PROVE wages'[e] = OwedBy(entries', Live', e)
    <2> DEFINE L == Live \ {j}
    <2>1. IsFiniteSet(L) /\ j \notin L /\ L \cup {j} = Live
      BY <1>1, FS_RemoveElement
    <2> HIDE DEF L
    <2>2. /\ OwedBy(entries, L \cup {j}, e)
               = OwedBy(entries, L, e) + (IF entries[j].of = e THEN Signed(entries[j]) ELSE 0)
          /\ OwedBy(entries, L, e) \in Int
      BY <1>1, <2>1, OwedAlso
    <2>3. OwedBy(entries', L, e) = OwedBy(entries, L, e)
      <3>1. \A n \in L : entries'[n] = entries[n]
        BY <1>3 DEF L
      <3>2. IsFiniteSet(L)
        BY <2>1
      <3> QED
        BY ONLY <3>1, <3>2, OwedSame
    <2>4. wages[e] = OwedBy(entries, Live, e) /\ wages[e] \in Int
      BY OwedToAll DEF WagesTrue
    <2>5. wages'[e] = IF entry.of = e THEN wages[e] - Signed(entry) ELSE wages[e]
      BY <1>5 DEF WagesTrue
    <2> QED
      BY <1>3, <1>4, <2>1, <2>2, <2>3, <2>4, <2>5 DEF L
  <1>8. WagesAddUp'
    BY <1>7 DEF WagesAddUp, OwedBy
  <1>9. CronCovers'
    <2> SUFFICES ASSUME lastAuto > 0, NEW e \in Staff, Wage[e] > 0, <<e, lastAuto>> \notin undone'
                 PROVE  Accrued(e, lastAuto)'
      BY DEF CronCovers
    <2>1. Accrued(e, lastAuto)
      BY DEF WagesTrue, CronCovers
    <2>2. PICK n \in Live : /\ entries[n].type = "accrual" /\ entries[n].of = e
                            /\ entries[n].month = lastAuto
      BY <2>1 DEF Accrued
    <2>3. n # j
      BY <2>2
    <2> QED
      BY <1>3, <2>2, <2>3 DEF Accrued
  <1> QED
    BY <1>6, <1>8, <1>9 DEF WagesTrue

\* The queue of an accrual names everyone once.
LEMMA EveryoneOnce ==
  ASSUME NEW T, IsFiniteSet(T)
  PROVE  /\ SetToSeq(T) \in Seq(T)
         /\ \A e \in T : \E k \in 1..Len(SetToSeq(T)) : SetToSeq(T)[k] = e
         /\ \A j, k \in 1..Len(SetToSeq(T)) : SetToSeq(T)[j] = SetToSeq(T)[k] => j = k
PROOF
  <1> DEFINE c == Cardinality(T)
  <1>1. c \in Nat /\ ExistsBijection(1..c, T)
    BY FS_CardinalityType
  <1>2. \E f \in [1..c -> T] : IsInjective(f)
    BY <1>1 DEF ExistsBijection, Bijection, Injection
  <1>3. PICK f : f = SetToSeq(T) /\ f \in [1..c -> T] /\ IsInjective(f)
    BY <1>2 DEF SetToSeq
  <1> HIDE DEF c
  <1>4. f \in Seq(T) /\ Len(f) = c /\ DOMAIN f = 1..c
    BY <1>1, <1>3
  <1>5. \A j, k \in 1..c : f[j] = f[k] => j = k
    BY <1>3, <1>4 DEF IsInjective
  <1>6. f \in Injection(1..c, T)
    BY <1>3 DEF Injection
  <1>7. Cardinality(1..c) = c /\ IsFiniteSet(1..c)
    BY <1>1, FS_Interval
  <1>8. f \in Surjection(1..c, T)
    BY <1>6, <1>7, FS_Injection DEF c
  <1>9. \A e \in T : \E k \in 1..c : f[k] = e
    BY <1>8 DEF Surjection
  <1> QED
    BY <1>3, <1>4, <1>5, <1>9

\* A month is accrued for some.
LEMMA AccruingAdds ==
  ASSUME EntriesOK, rows \in Seq(Row(Owners)), WagesTrue, NEW staff \in SUBSET Staff, NEW month \in Int,
         AccrueAll(staff, month), UNCHANGED <<lastAuto, undone>>
  PROVE  /\ WagesTrue' /\ Live \subseteq Live' /\ \A n \in Live : entries'[n] = entries[n]
         /\ \A e \in staff : Accrued(e, month)'
PROOF
  <1>1. PICK queue : queue = SetToSeq(staff)
    OBVIOUS
  <1> DEFINE new == [k \in 1..Len(queue) |-> Entry("accrual", queue[k], Wage[queue[k]], month, 0)]
             at(k) == Len(entries) + k
             M == {at(k) : k \in 1..Len(queue)}
  <1>2. /\ queue \in Seq(staff)
        /\ \A e \in staff : \E k \in 1..Len(queue) : queue[k] = e
        /\ \A j, k \in 1..Len(queue) : queue[j] = queue[k] => j = k
    <2>1. IsFiniteSet(staff)
      BY PayrollAssumption, FS_Subset
    <2> QED
      BY <1>1, <2>1, EveryoneOnce
  <1>3. \A k \in 1..Len(queue) : queue[k] \in staff /\ queue[k] \in Staff /\ Wage[queue[k]] \in Nat
    <2>1. queue \in Seq(staff)
      BY <1>2
    <2>2. \A k \in 1..Len(queue) : queue[k] \in staff
      BY <2>1
    <2> QED
      BY <2>2, PayrollAssumption
  <1>4. entries' = entries \o new
    BY <1>1 DEF AccrueAll
  <1>5. \A k \in 1..Len(queue) :
          /\ new[k] \in EntrySet /\ new[k].row = 0 /\ new[k].type = "accrual" /\ new[k].of = queue[k]
          /\ new[k].month = month /\ Signed(new[k]) = Wage[queue[k]]
    BY <1>3 DEF Entry, EntrySet, EntryTypes, Signed
  <1>6. DOMAIN new = 1..Len(queue) /\ Len(queue) \in Nat
    BY <1>2
  <1> HIDE DEF new
  <1>7. new \in Seq(EntrySet)
    <2>1. new \in [1..Len(queue) -> EntrySet]
      BY <1>5, <1>6 DEF new
    <2> QED
      BY <1>6, <2>1
  <1>8. 0 \notin DOMAIN rows
    OBVIOUS
  <1>9. \A k \in DOMAIN new : PaidByRow(new[k]) /\ new[k].row \notin DOMAIN rows
    BY <1>5, <1>6, <1>8 DEF PaidByRow
  <1>10. /\ Live \subseteq Live' /\ \A n \in Live : entries'[n] = entries[n]
         /\ Len(entries) \in Nat /\ EntriesOK'
         /\ \A n \in Live' : n \in Live \/ \E k \in DOMAIN new : n = Len(entries) + k /\ entries'[n] = new[k]
         /\ \A k \in DOMAIN new : Len(entries) + k \in Live' \ Live /\ entries'[Len(entries) + k] = new[k]
    BY <1>4, <1>7, <1>9, EntriesAdded
  <1>11. /\ Live' = Live \cup M /\ Live \cap M = {}
         /\ \A k \in 1..Len(queue) : at(k) \in M /\ entries'[at(k)] = new[k]
    BY <1>6, <1>10
  <1>12. \A n \in M : \E k \in 1..Len(queue) : n = at(k)
    OBVIOUS
  <1>13. \A j, k \in 1..Len(queue) : at(j) = at(k) => j = k
    BY <1>10
  <1>14. IsFiniteSet(M)
    <2> DEFINE a == Len(entries) + 1
               b == Len(entries) + Len(queue)
    <2>1. a \in Int /\ b \in Int /\ M \subseteq a..b
      BY <1>6, <1>10, <1>12
    <2>2. IsFiniteSet(a..b)
      BY <2>1, FS_Interval
    <2> QED
      BY <2>1, <2>2, FS_Subset
  <1> HIDE DEF at, M
  <1>15. IsFiniteSet(Live) /\ \A n \in Live : entries[n] \in EntrySet
    BY LiveIsFinite
  <1>16. \A n \in Live \cup M : entries'[n] \in EntrySet
    BY <1>5, <1>10, <1>11, <1>12, <1>15
  <1>17. \A e \in Staff : wages'[e] = IF e \in staff THEN wages[e] + Wage[e] ELSE wages[e]
    BY DEF AccrueAll
  <1>18. wages' \in [Staff -> Int]
    BY PayrollAssumption DEF AccrueAll, WagesTrue
  <1>19. ASSUME NEW e \in Staff
         PROVE  OwedBy(entries', M, e) = IF e \in staff THEN Wage[e] ELSE 0
    <2>1. CASE e \notin staff
      <3>1. \A n \in M : entries'[n].of # e
        BY <1>3, <1>5, <1>11, <1>12, <2>1
      <3> QED
        BY <1>14, <2>1, <3>1, OwedNone
    <2>2. CASE e \in staff
      <3>1. PICK k \in 1..Len(queue) : queue[k] = e
        BY <1>2, <2>2
      <3> DEFINE N == M \ {at(k)}
      <3>2. IsFiniteSet(N) /\ at(k) \notin N /\ M = N \cup {at(k)}
        BY <1>11, <1>14, FS_RemoveElement
      <3>3. \A n \in N : entries'[n].of # e
        <4> SUFFICES ASSUME NEW n \in N PROVE entries'[n].of # e
          OBVIOUS
        <4>1. PICK j \in 1..Len(queue) : n = at(j) /\ j # k
          BY <1>12
        <4>2. queue[j] # e
          BY <1>2, <3>1, <4>1
        <4>3. entries'[n] = new[j]
          BY <1>11, <4>1
        <4>4. new[j].of = queue[j]
          BY <1>5
        <4> QED
          BY <4>2, <4>3, <4>4
      <3> HIDE DEF N
      <3>4. \A n \in N \cup {at(k)} : entries'[n] \in EntrySet
        BY <1>16, <3>2
      <3>5. OwedBy(entries', N, e) = 0
        BY <3>2, <3>3, OwedNone
      <3>6. OwedBy(entries', N \cup {at(k)}, e)
              = OwedBy(entries', N, e) + (IF entries'[at(k)].of = e THEN Signed(entries'[at(k)]) ELSE 0)
        BY <3>2, <3>4, OwedAlso
      <3>7. entries'[at(k)].of = e /\ Signed(entries'[at(k)]) = Wage[e] /\ Wage[e] \in Nat
        BY <1>3, <1>5, <1>11, <3>1
      <3> QED
        BY <2>2, <3>2, <3>5, <3>6, <3>7
    <2> QED
      BY <2>1, <2>2
  <1>20. ASSUME NEW e \in Staff PROVE wages'[e] = OwedBy(entries', Live', e)
    <2>1. /\ OwedBy(entries', Live \cup M, e) = OwedBy(entries', Live, e) + OwedBy(entries', M, e)
          /\ OwedBy(entries', Live, e) \in Int
      BY <1>11, <1>14, <1>15, <1>16, OwedBoth
    <2>2. OwedBy(entries', Live, e) = OwedBy(entries, Live, e)
      BY <1>10, <1>15, OwedSame
    <2>3. wages[e] = OwedBy(entries, Live, e) /\ wages[e] \in Int /\ Wage[e] \in Nat
      BY OwedToAll, PayrollAssumption DEF WagesTrue
    <2>4. OwedBy(entries', M, e) = IF e \in staff THEN Wage[e] ELSE 0
      BY <1>19
    <2> QED
      BY <1>11, <1>17, <2>1, <2>2, <2>3, <2>4
  <1>21. WagesAddUp'
    BY <1>20 DEF WagesAddUp, OwedBy
  <1>22. CronCovers'
    BY <1>10, CoversStay DEF WagesTrue
  <1>23. ASSUME NEW e \in staff PROVE Accrued(e, month)'
    <2>1. PICK k \in 1..Len(queue) : queue[k] = e
      BY <1>2
    <2>2. at(k) \in Live' /\ entries'[at(k)] = new[k]
      BY <1>11
    <2> QED
      BY <1>5, <2>1, <2>2 DEF Accrued
  <1> QED
    BY <1>10, <1>18, <1>21, <1>22, <1>23 DEF WagesTrue

------------------------------------------------------------------------------
\* The actions.
LEMMA PayrollReads ==
  ASSUME WagesOK, OneAtATime, NEW s \in Sessions,
         \/ LookToUndo(s) \/ LookToAccrue(s) \/ LookToAutoAccrue(s) \/ PayrollGivesUp(s)
  PROVE  WagesTrue' /\ AtThePayroll'
PROOF
  <1>1. UNCHANGED <<entries, wages, today, lastAuto, undone>>
    BY DEF LookToUndo, LookToAccrue, LookToAutoAccrue, PayrollGivesUp, payroll
  <1>2. WagesTrue'
    BY <1>1, WagesStay DEF WagesOK
  <1>3. AtThePayroll /\ DeskOK
    BY DEF WagesOK, AtThePayroll
  <1>4. Live' = Live /\ \A e, month : Accrued(e, month)' = Accrued(e, month)
    BY <1>1 DEF Live, Accrued
  <1>5. CASE LookToUndo(s)
    <2>1. PICK n \in Live : Enter(s, "undo", [kind |-> "undo", entry |-> n], entries[n])
      BY <1>5 DEF LookToUndo
    <2>2. phase'[s] = "undo" /\ job'[s].entry = n /\ seen'[s] = entries[n]
      BY <1>3, <2>1 DEF Enter, DeskOK
    <2>3. Reckoning(s)'
      BY <1>1, <1>4, <2>2 DEF Reckoning
    <2> QED
      BY <1>2, <1>3, <2>1, <2>3, OneAtPayroll
  <1>6. CASE LookToAccrue(s)
    <2>1. PICK asked, read : Enter(s, "accrue", asked, read)
      BY <1>6 DEF LookToAccrue
    <2>2. phase'[s] = "accrue"
      BY <1>3, <2>1 DEF Enter, DeskOK
    <2>3. Reckoning(s)'
      BY <2>2 DEF Reckoning
    <2> QED
      BY <1>2, <1>3, <2>1, <2>3, OneAtPayroll
  <1>7. CASE LookToAutoAccrue(s)
    <2>0. PICK month : month = today - 1
      OBVIOUS
    <2> DEFINE left == Pending(Staff, month)
               there == IF left = {} THEN "mark" ELSE "auto"
    <2>1. Enter(s, there, [kind |-> "cron", month |-> month], left) /\ month > 0
      BY <1>7, <2>0 DEF LookToAutoAccrue
    <2>2. phase'[s] = there /\ job'[s].month = month /\ seen'[s] = left
      BY <1>3, <2>1 DEF Enter, DeskOK
    <2>3. month \in Int
      BY <2>0 DEF WagesOK, PayrollOK
    <2>4. \A e \in Staff : Wage[e] > 0 => e \in left \/ Accrued(e, month)
      BY DEF Pending
    <2>5. \A e \in left : ~Accrued(e, month)
      BY DEF Pending
    <2>6. left = {} => Covered(month)
      BY <2>4 DEF Covered
    <2> HIDE DEF left
    <2>7. Reckoning(s)'
      <3>1. CASE left = {}
        <4>1. Covered(month)'
          BY <1>1, <1>4, <2>6, <3>1 DEF Covered
        <4> QED
          BY <2>2, <2>3, <3>1, <4>1 DEF Reckoning
      <3>2. CASE left # {}
        BY <1>4, <2>2, <2>4, <2>5, <3>2 DEF Reckoning
      <3> QED
        BY <3>1, <3>2
    <2>8. there # "idle"
      OBVIOUS
    <2> HIDE DEF there
    <2> QED
      BY <1>2, <1>3, <2>1, <2>7, <2>8, OneAtPayroll
  <1>8. CASE PayrollGivesUp(s)
    <2>1. phase[s] # "idle" /\ Leave(s, phase[s])
      BY <1>8 DEF PayrollGivesUp, Abandon
    <2> QED
      BY <1>2, <1>3, <2>1, LeftPayroll
  <1> QED
    BY <1>5, <1>6, <1>7, <1>8

LEMMA EntriesPosted ==
  ASSUME WagesOK, RecordPayment \/ RecordAdjustment
  PROVE  WagesTrue'
PROOF
  <1>1. WagesTrue /\ EntriesOK
    BY DEF WagesOK, PayrollOK
  <1>2. UNCHANGED <<lastAuto, undone>>
    BY DEF RecordPayment, RecordAdjustment
  <1>3. CASE RecordPayment
    <2>1. PICK e \in Staff, x \in Fines, a \in Accounts : Post(Entry("payment", e, x, 0, ExpenseRow(a)))
      BY <1>3 DEF RecordPayment
    <2> DEFINE new == Entry("payment", e, x, 0, ExpenseRow(a))
    <2>2. ExpenseRow(a) \in Nat
      <3>1. rows \in Seq(Row(Owners))
        BY DEF WagesOK, PayrollOK, LedgerOK
      <3>2. Len(rows) \in Nat
        BY <3>1
      <3> QED
        BY <3>2 DEF ExpenseRow, Width
    <2>3. new \in EntrySet
      BY <2>2, PayrollAssumption DEF Entry, EntrySet, EntryTypes
    <2> HIDE DEF new
    <2>4. Post(new)
      BY <2>1 DEF new
    <2> QED
      BY <1>1, <1>2, <2>3, <2>4, PostingAdds
  <1>4. CASE RecordAdjustment
    <2>1. PICK e \in Staff, x \in Fines, type \in {"bonus", "deduction"} : Post(Entry(type, e, x, 0, 0))
      BY <1>4 DEF RecordAdjustment
    <2> DEFINE new == Entry(type, e, x, 0, 0)
    <2>2. new \in EntrySet
      BY PayrollAssumption DEF Entry, EntrySet, EntryTypes
    <2> HIDE DEF new
    <2>3. Post(new)
      BY <2>1 DEF new
    <2> QED
      BY <1>1, <1>2, <2>2, <2>3, PostingAdds
  <1> QED
    BY <1>3, <1>4

LEMMA EntryUndone ==
  ASSUME WagesOK, OneAtATime, NEW s \in Sessions, UndoEntry(s)
  PROVE  WagesTrue' /\ AtThePayroll'
PROOF
  <1>1. PICK entry, j : entry = seen[s] /\ j = job[s].entry
    OBVIOUS
  <1>2. /\ Leave(s, "undo") /\ TakenBack(entry.of, entry)
        /\ entries' = [entries EXCEPT ![j] = Gone] /\ lastAuto' = lastAuto
        /\ undone' = IF entry.type = "accrual" THEN undone \union {<<entry.of, entry.month>>} ELSE undone
    BY <1>1 DEF UndoEntry
  <1>3. AtThePayroll /\ WagesTrue /\ EntriesOK
    BY DEF WagesOK, PayrollOK
  <1>4. j \in Live /\ entry = entries[j]
    BY <1>1, <1>2, <1>3 DEF AtThePayroll, Reckoning, Leave
  <1>5. WagesTrue'
    BY <1>2, <1>3, <1>4, UndoingTakes
  <1> QED
    BY <1>2, <1>3, <1>5, LeftPayroll

LEMMA MonthAccrued ==
  ASSUME WagesOK, OneAtATime, NEW s \in Sessions, AccruePeriod(s) \/ AutoAccrue(s)
  PROVE  WagesTrue' /\ AtThePayroll'
PROOF
  <1>1. PICK staff, month : staff = seen[s] /\ month = job[s].month
    OBVIOUS
  <1>2. AtThePayroll /\ WagesTrue /\ EntriesOK /\ rows \in Seq(Row(Owners)) /\ DeskOK
    BY DEF WagesOK, PayrollOK, LedgerOK, AtThePayroll
  <1>3. phase[s] \in {"accrue", "auto"}
    BY DEF AccruePeriod, AutoAccrue, Leave, Proceed
  <1>4. staff \in SUBSET Staff /\ month \in Int
    BY <1>1, <1>3 DEF WagesOK, PayrollOK, Accruing
  <1>5. /\ UNCHANGED <<lastAuto, undone>>
        /\ IF Collides(staff, month) THEN UNCHANGED <<entries, wages>> ELSE AccrueAll(staff, month)
    BY <1>1 DEF AccruePeriod, AutoAccrue, AccrueOrHandled
  <1>6. WagesTrue'
    <2>1. CASE Collides(staff, month)
      BY <1>2, <1>5, <2>1, WagesStay
    <2>2. CASE ~Collides(staff, month)
      <3>1. AccrueAll(staff, month)
        BY <1>5, <2>2
      <3> QED
        BY <1>2, <1>4, <1>5, <3>1, AccruingAdds
    <2> QED
      BY <2>1, <2>2
  <1>7. CASE AccruePeriod(s)
    <2>1. Leave(s, "accrue")
      BY <1>7 DEF AccruePeriod
    <2> QED
      BY <1>2, <1>6, <2>1, LeftPayroll
  <1>8. CASE AutoAccrue(s)
    <2>1. Proceed(s, "auto", "mark", seen[s])
      BY <1>8 DEF AutoAccrue
    <2>2. phase[s] = "auto" /\ phase'[s] = "mark" /\ job'[s] = job[s]
      BY <1>2, <2>1 DEF Proceed, DeskOK
    <2>3. /\ \A e \in Staff : Wage[e] > 0 => e \in staff \/ Accrued(e, month)
          /\ \A e \in staff : ~Accrued(e, month)
      BY <1>1, <1>2, <2>2 DEF AtThePayroll, Reckoning
    <2>4. AccrueAll(staff, month)
      BY <1>5, <2>3 DEF Collides
    <2>5. /\ Live \subseteq Live' /\ \A n \in Live : entries'[n] = entries[n]
          /\ \A e \in staff : Accrued(e, month)'
      BY <1>2, <1>4, <1>5, <2>4, AccruingAdds
    <2>6. \A e \in Staff : Wage[e] > 0 => Accrued(e, month)'
      BY <2>3, <2>5, AccruedStays
    <2>7. Reckoning(s)'
      BY <1>1, <1>4, <2>2, <2>6 DEF Reckoning, Covered
    <2> QED
      BY <1>2, <1>6, <2>1, <2>7, OneAtPayroll
  <1> QED
    BY <1>7, <1>8

LEMMA MonthMarked ==
  ASSUME WagesOK, OneAtATime, NEW s \in Sessions, MarkAuto(s)
  PROVE  WagesTrue' /\ AtThePayroll'
PROOF
  <1>1. Leave(s, "mark") /\ lastAuto' = job[s].month /\ UNCHANGED <<entries, wages, undone>>
    BY DEF MarkAuto
  <1>2. AtThePayroll /\ WagesTrue
    BY DEF WagesOK
  <1>3. job[s].month \in Int /\ Covered(job[s].month)
    BY <1>1, <1>2 DEF AtThePayroll, Reckoning, Leave
  <1>4. CronCovers'
    BY <1>1, <1>3 DEF CronCovers, Covered, Accrued, Live
  <1>5. WagesTrue'
    BY <1>1, <1>2, <1>3, <1>4 DEF WagesTrue, WagesAddUp, Live
  <1> QED
    BY <1>1, <1>2, <1>5, LeftPayroll

LEMMA WagesStart == ASSUME PayrollInit PROVE WagesOK
PROOF
  <1>1. PayrollOK
    BY PayrollStarts
  <1>2. entries = <<>> /\ lastAuto = 0 /\ wages = [e \in Staff |-> 0] /\ Live = {}
    BY DEF PayrollInit, Live
  <1>3. \A e \in Staff : OwedBy(entries, Live, e) = 0
    BY <1>2, OwedNone, FS_EmptySet
  <1>4. WagesAddUp
    BY <1>2, <1>3, OwedToAll
  <1>5. WagesTrue
    BY <1>2, <1>4 DEF WagesTrue, CronCovers
  <1>6. AtThePayroll
    BY DEF PayrollInit, DeskInit, AtThePayroll, DeskOK, Reckoning
  <1> QED
    BY <1>1, <1>5, <1>6 DEF WagesOK

LEMMA WagesSteps == ASSUME WagesOK, PayrollNext, Alone PROVE WagesOK'
PROOF
  <1>1. PayrollOK'
    BY PayrollSteps DEF WagesOK
  <1>2. OneAtATime /\ AtThePayroll /\ WagesTrue
    BY DEF Alone, WagesOK
  <1>3. ASSUME UNCHANGED desk PROVE AtThePayroll'
    BY <1>2, <1>3, NobodyAtPayroll DEF Alone
  <1>4. CASE RecordPayment \/ RecordAdjustment
    <2>1. UNCHANGED desk
      BY <1>4 DEF RecordPayment, RecordAdjustment
    <2> QED
      BY <1>1, <1>3, <1>4, <2>1, EntriesPosted DEF WagesOK
  <1>5. CASE NextMonth \/ OwnersPage
    <2>1. UNCHANGED desk /\ UNCHANGED <<entries, wages, lastAuto, undone>>
      BY <1>5 DEF NextMonth, OwnersPage, payroll
    <2> QED
      BY <1>1, <1>2, <1>3, <2>1, WagesStay DEF WagesOK
  <1>6. ASSUME NEW s \in Sessions,
               \/ LookToUndo(s) \/ UndoEntry(s)
               \/ LookToAccrue(s) \/ AccruePeriod(s)
               \/ LookToAutoAccrue(s) \/ AutoAccrue(s) \/ MarkAuto(s)
               \/ PayrollGivesUp(s)
        PROVE  WagesTrue' /\ AtThePayroll'
    BY <1>2, <1>6, PayrollReads, EntryUndone, MonthAccrued, MonthMarked
  <1> QED
    BY <1>1, <1>4, <1>5, <1>6 DEF PayrollNext, WagesOK

LEMMA WagesRest == ASSUME WagesOK, UNCHANGED payrollVars PROVE WagesOK'
PROOF
  <1>1. UNCHANGED <<entries, wages, lastAuto, undone>> /\ UNCHANGED desk
    BY DEF payrollVars, payroll
  <1>2. WagesTrue'
    BY <1>1, WagesStay DEF WagesOK
  <1>3. PayrollOK'
    BY PayrollSteps DEF WagesOK
  <1>4. AtThePayroll'
    <2>1. /\ Live' = Live /\ entries' = entries /\ \A e, month : Accrued(e, month)' = Accrued(e, month)
          /\ \A month : Covered(month)' <=> Covered(month)
      <3>1. Live' = Live /\ entries' = entries /\ undone' = undone
        BY <1>1 DEF Live
      <3>2. \A e, month : Accrued(e, month)' = Accrued(e, month)
        BY <3>1 DEF Accrued
      <3>3. ASSUME NEW month PROVE Covered(month)' <=> Covered(month)
        BY <3>1, <3>2 DEF Covered
      <3> QED
        BY <3>1, <3>2, <3>3
    <2>2. phase' = phase /\ job' = job /\ seen' = seen
      BY <1>1 DEF desk
    <2>3. \A s \in Sessions : Reckoning(s) => Reckoning(s)'
      BY <2>1, <2>2 DEF Reckoning
    <2> QED
      BY <2>2, <2>3 DEF WagesOK, AtThePayroll, DeskOK
  <1> QED
    BY <1>2, <1>3, <1>4 DEF WagesOK

\* One request at a time, for any number of employees, months and payments: what
\* an employee is owed is the sum of the entries that stand, and whoever is on the
\* payroll has the accrual of a month the cron marked, unless someone undid it
\* (runAutoAccruals, accruePeriod, removeEntry).
THEOREM WagesAddUpThm == PayrollInit /\ [][PayrollNext /\ Alone]_payrollVars => [](WagesAddUp /\ CronCovers)
PROOF
  <1>1. PayrollInit => WagesOK
    BY WagesStart
  <1>2. WagesOK /\ [PayrollNext /\ Alone]_payrollVars => WagesOK'
    BY WagesSteps, WagesRest
  <1>3. WagesOK => WagesAddUp /\ CronCovers
    BY DEF WagesOK, WagesTrue
  <1> QED
    BY <1>1, <1>2, <1>3, PTL

\* The same of the load that runs so: wages add up to the entries that stand, and
\* the cron leaves nobody out (runAutoAccruals, removeEntry).
THEOREM AloneWagesThm == MCSpec => []AloneWagesTrue
PROOF
  <1> DEFINE W == load = "wages alone" => WagesOK
  <1>1. MCInit => W
    BY WagesStart DEF MCInit
  <1>2. W /\ [MCNext]_<<credits, drawers, payroll, books, desk, load>> => W'
    <2> SUFFICES ASSUME W, [MCNext]_<<credits, drawers, payroll, books, desk, load>>,
                        load' = "wages alone"
                 PROVE  WagesOK'
      OBVIOUS
    <2>1. load' = load
      BY DEF MCNext
    <2>2. WagesOK
      BY <2>1
    <2>3. CASE MCNext
      <3>1. PayrollNext /\ PayrollStep
        BY <2>1, <2>3 DEF MCNext
      <3>2. Alone
        BY <2>1, <3>1 DEF PayrollStep
      <3> QED
        BY <2>2, <3>1, <3>2, WagesSteps
    <2>4. CASE UNCHANGED <<credits, drawers, payroll, books, desk, load>>
      BY <2>2, <2>4, WagesRest DEF payrollVars
    <2> QED
      BY <2>3, <2>4
  <1>3. W => AloneWagesTrue
    BY DEF WagesOK, WagesTrue, AloneWagesTrue
  <1> QED
    BY <1>1, <1>2, <1>3, PTL DEF MCSpec

------------------------------------------------------------------------------
\* The points of customers, one request at a time: what a deletion read of the
\* ledger is still so when it takes the points off.

PointsTrue == /\ DOMAIN ledger = Sales /\ \A i \in Sales : ledger[i] \in Int
              /\ balance \in Int /\ waived \in Int
              /\ \A i \in Sales : receipt[i] = NoReceipt => ledger[i] = 0
              /\ PointsAddUp /\ PointsNotOverspent

PointsRead(s) == phase[s] \in {"claw", "erase"} => seen[s].net = ledger[job[s].id]

AtTheCustomer == \A s, t \in Sessions : phase[s] # "idle" /\ phase[t] # "idle" => s = t

PointsOK == CreditOK /\ PointsTrue /\ AtTheCustomer /\ \A s \in Sessions : PointsRead(s)

\* Whoever moves is alone.
LEMMA OneAtCustomer ==
  ASSUME CreditOK, AtTheCustomer, OneAtATime, NEW s \in Sessions, NEW a, NEW b, NEW c, a # "idle",
         Enter(s, a, b, c) \/ Proceed(s, a, b, c) \/ Leave(s, a)
  PROVE  AtTheCustomer' /\ \A t \in Sessions \ {s} : phase'[t] = "idle"
PROOF
  <1>1. \A t \in Sessions \ {s} : Waits(t)
    BY OneMoves
  <1>2. phase[s] # "idle" \/ phase'[s] # "idle"
    BY DEF CreditOK, Shaped, Enter, Proceed, Leave
  <1> QED
    BY <1>1, <1>2 DEF AtTheCustomer, OneAtATime, Waits

LEMMA PointsStay ==
  ASSUME PointsTrue, UNCHANGED <<balance, waived, ledger>>,
         \A i \in Sales : receipt'[i] = NoReceipt => receipt[i] = NoReceipt
  PROVE  PointsTrue'
  BY DEF PointsTrue, PointsAddUp, PointsNotOverspent

\* A change of the balance with its row.
LEMMA PointsMove ==
  ASSUME PointsTrue, NEW i \in Sales, NEW given \in Int, NEW left \in Int,
         ledger' = [ledger EXCEPT ![i] = given], waived' = waived + left,
         balance' = balance + given - ledger[i] + left, balance' >= -Half,
         receipt'[i] # NoReceipt,
         \A k \in Sales \ {i} : receipt'[k] = receipt[k]
  PROVE  PointsTrue'
PROOF
  <1>1. /\ ledger'[i] = given /\ \A k \in Sales \ {i} : ledger'[k] = ledger[k]
        /\ DOMAIN ledger' = Sales /\ DOMAIN ledger = Sales
        /\ \A k \in Sales : ledger[k] \in Int
    BY DEF PointsTrue
  <1>2. \A k \in Sales : ledger'[k] \in Int
    BY <1>1
  <1>a. IsFiniteSet(Sales)
    BY SalesAssumption
  <1>3. SumFunctionOnSet(ledger', Sales) = SumFunctionOnSet(ledger, Sales) - ledger[i] + given
    <2>1. \A k \in Sales : ledger[k] \in Int /\ ledger'[k] \in Int
      BY <1>1, <1>2
    <2>2. SumFunctionOnSet(ledger', Sales) = SumFunctionOnSet(ledger, Sales) - ledger[i] + ledger'[i]
      BY ONLY <1>1, <1>a, <2>1, SumChange, i \in Sales
    <2> QED
      BY <1>1, <2>2
  <1>4. SumFunctionOnSet(ledger, Sales) \in Int
    BY <1>1, <1>a, SumInt
  <1>5. balance = OpeningPoints + SumFunctionOnSet(ledger, Sales) + waived /\ balance \in Int /\ waived \in Int
    BY <1>1 DEF PointsTrue, PointsAddUp, SumFunction
  <1>6. OpeningPoints \in Int /\ ledger[i] \in Int
    BY <1>1, SalesAssumption
  <1>7. balance' = OpeningPoints + SumFunctionOnSet(ledger', Sales) + waived'
    BY <1>3, <1>4, <1>5, <1>6
  <1>8. PointsAddUp'
    BY <1>1, <1>7 DEF PointsAddUp, SumFunction
  <1>9. balance' \in Int /\ waived' \in Int
    BY <1>5, <1>6
  <1>10. \A k \in Sales : receipt'[k] = NoReceipt => ledger'[k] = 0
    BY <1>1 DEF PointsTrue
  <1> QED
    BY <1>1, <1>2, <1>8, <1>9, <1>10 DEF PointsTrue, PointsNotOverspent

\* A sale spends no more than the balance, rounded to whole so'm.
LEMMA SpentWithin ==
  ASSUME NEW asked \in Redeems, NEW total \in Nat, balance \in Int, balance >= -Half
  PROVE  PointsSpent(asked, total) \in Int /\ balance - PointsSpent(asked, total) >= -Half
PROOF
  <1> DEFINE cap == Unit * ((total * Program.cap) \div (100 * Unit))
             allowed == OrZero(Least(Least(asked, balance), Least(cap, total)))
             q == (2 * allowed + Unit) \div (2 * Unit)
  <1>1. Unit \in Nat /\ Unit > 0 /\ Program.cap \in Nat /\ asked \in Nat
    BY UnitAssumption, SalesAssumption
  <1>2. cap \in Int
    <2>1. total * Program.cap \in Nat
      BY <1>1
    <2>2. 100 * Unit \in Nat /\ 100 * Unit > 0
      BY <1>1
    <2>3. (total * Program.cap) \div (100 * Unit) \in Int
      BY <2>1, <2>2
    <2> QED
      BY <1>1, <2>3
  <1>3. PointsSpent(asked, total) = Unit * q
    BY DEF PointsSpent
  <1> HIDE DEF cap
  <1>4. allowed \in Nat /\ allowed <= OrZero(balance)
    BY <1>1, <1>2 DEF OrZero, Least
  <1> HIDE DEF allowed
  <1>5. q \in Int /\ (2 * Unit) * q <= 2 * allowed + Unit
    <2>1. 2 * Unit \in Nat /\ 2 * Unit > 0 /\ 2 * allowed + Unit \in Nat
      BY <1>1, <1>4
    <2> DEFINE n == 2 * allowed + Unit
               d == 2 * Unit
    <2>2. n \in Nat /\ d \in Nat /\ d > 0
      BY <2>1
    <2> HIDE DEF n, d
    <2>3. n \div d \in Int /\ d * (n \div d) <= n
      BY <2>2
    <2> QED
      BY <2>3 DEF n, d
  <1> HIDE DEF q
  <1>6. PICK u \in Int : u = Unit * q /\ 2 * u <= 2 * allowed + Unit
    <2>1. Unit * q \in Int /\ (2 * Unit) * q = 2 * (Unit * q)
      BY <1>1, <1>5
    <2> QED
      BY <1>5, <2>1
  <1>7. Half \in Nat /\ Unit <= 2 * Half + 1
    BY <1>1 DEF Half
  <1>8. CASE balance >= 0
    BY <1>3, <1>4, <1>6, <1>7, <1>8, <1>1 DEF OrZero
  <1>9. CASE balance < 0
    <2>1. allowed = 0
      BY <1>4, <1>9 DEF OrZero
    <2>2. q <= 0
      <3>1. SUFFICES ASSUME q >= 1 PROVE FALSE
        BY <1>5
      <3>2. (2 * Unit) * q >= 2 * Unit
        BY <1>1, <1>5, <3>1
      <3> QED
        BY <1>1, <1>5, <2>1, <3>2
    <2>3. u <= 0
      <3>1. \A m \in Nat, n \in Int : n <= 0 => m * n <= 0
        OBVIOUS
      <3> QED
        BY <1>1, <1>5, <1>6, <2>2, <3>1
    <2> QED
      BY <1>3, <1>6, <1>7, <2>3
  <1> QED
    BY <1>8, <1>9

------------------------------------------------------------------------------
LEMMA SellPoints == ASSUME PointsOK, Alone, NEW i \in Sales, Sell(i) PROVE PointsOK'
PROOF
  <1>1. PICK b \in Baskets, d \in Discounts, t \in Tenders, asked \in Redeems : RingUp(i, b, d, t, asked)
    BY DEF Sell
  <1> DEFINE total == Discounted(Subtotal(b), d)
             use == PointsSpent(asked, total)
             down == Booked(t, total - use)
             earned == Cashback(total)
             r == [state |-> "sold", basket |-> b, total |-> total,
                   redeemed |-> use, earned |-> earned, down |-> down]
  <1>2. /\ receipt[i] = NoReceipt
        /\ {total, use, down, earned} \subseteq 0..MaxMoney
        /\ receipt' = [receipt EXCEPT ![i] = r]
        /\ balance' = balance - use + earned
        /\ ledger' = [ledger EXCEPT ![i] = earned - use]
        /\ UNCHANGED <<waived, desk>>
    BY <1>1 DEF RingUp
  <1>3. CreditOK'
    BY SellKeeps DEF PointsOK
  <1>4. /\ DOMAIN receipt = Sales /\ PointsTrue
    BY DEF PointsOK, CreditOK, Shaped
  <1>5. total \in Nat /\ earned \in Nat /\ use \in Nat
    <2> HIDE DEF total, use, down, earned
    <2> QED
      BY <1>2
  <1>6. use \in Int /\ balance - use >= -Half
    <2> HIDE DEF total
    <2> QED
      BY <1>4, <1>5, SpentWithin DEF PointsTrue, PointsNotOverspent
  <1>7. r # NoReceipt
    BY DEF NoReceipt
  <1> HIDE DEF total, use, down, earned, r
  <1>8. /\ receipt'[i] = r /\ \A k \in Sales \ {i} : receipt'[k] = receipt[k]
    BY <1>2, <1>4
  <1>9. ledger[i] = 0 /\ balance \in Int /\ waived \in Int
    BY <1>2, <1>4 DEF PointsTrue
  <1>10. PointsTrue'
    <2> DEFINE given == earned - use
    <2>1. given \in Int /\ ledger' = [ledger EXCEPT ![i] = given] /\ waived' = waived + 0
          /\ balance' = balance + given - ledger[i] + 0 /\ balance' >= -Half
          /\ receipt'[i] # NoReceipt
      BY <1>2, <1>5, <1>6, <1>7, <1>8, <1>9, HalfIsSmall
    <2> HIDE DEF given
    <2> QED
      BY ONLY i \in Sales, 0 \in Int, <1>4, <1>8, <2>1, PointsMove
  <1>11. \A s \in Sessions : phase'[s] = "idle"
    BY <1>2 DEF Alone
  <1> QED
    BY <1>3, <1>10, <1>11 DEF PointsOK, AtTheCustomer, PointsRead

LEMMA SettlePoints == ASSUME PointsOK, Alone, NEW s \in Sessions, Settle(s) PROVE PointsOK'
PROOF
  <1>0. phase[s] = "settle" /\ DOMAIN job = Sessions
    BY Zenon DEF Settle, Leave, PointsOK, CreditOK, Shaped
  <1>a. PICK i \in Sales : i = job[s].id
    BY <1>0, SMTT(60) DEF PointsOK, CreditOK, Reading
  <1> DEFINE req == job[s].req
             r == receipt[i]
             n == seen[s]
             value == ReturnTotal(r.basket, r.total, back[i], backWorth[i], returned[i], req)
             left == DebtLeft(n)
             pts == OrZero(r.redeemed - restored[i])
             way == Settlement(value, left, pts)
             reverse == Reversed(IsFinal(r.basket, back[i], req), r.earned,
                                 OrZero(r.earned - reversed[i]), value, r.total)
             claw == Clawed(reverse, balance + way.points)
  <1>1. /\ Leave(s, "settle")
        /\ value \in 0..MaxMoney /\ reverse \in 0..MaxMoney
        /\ balance' = balance + way.points - claw
        /\ ledger' = [ledger EXCEPT ![i] = @ + way.points - claw]
        /\ UNCHANGED <<receipt, waived>>
    BY <1>a, Zenon DEF Settle
  <1>2. CreditOK' /\ CreditOK /\ PointsTrue
    BY SettleKeeps DEF PointsOK
  <1>3. value \in Nat /\ reverse \in Nat
    <2> HIDE DEF value, reverse
    <2> QED
      BY <1>1
  <1>4. Sold(i) /\ n.owed \in Int /\ n.paid \in Int
    BY <1>0, <1>a, <1>2 DEF CreditOK, Reading
  <1>5. receipt[i] \in Receipts /\ restored[i] \in Int
    BY <1>2, <1>4 DEF CreditOK, Books, Typed, Sold, NoReceipt
  <1>6. receipt[i].redeemed \in Nat /\ receipt[i] # NoReceipt
    BY <1>5, <1>4 DEF Receipts, Sold, NoReceipt
  <1>7. left \in Nat /\ pts \in Nat
    BY <1>4, <1>5, <1>6 DEF DebtLeft, OrZero
  <1> HIDE DEF value, left, pts, n, reverse
  <1>8. way.points \in Nat
    BY <1>3, <1>7, Waterfall
  <1> HIDE DEF way
  <1>9. balance \in Int /\ balance >= -Half /\ waived \in Int /\ ledger[i] \in Int /\ DOMAIN ledger = Sales
    BY <1>2 DEF PointsTrue, PointsNotOverspent
  <1>10. claw \in Nat /\ (claw > 0 => claw <= balance + way.points)
    BY <1>3, <1>8, <1>9 DEF Clawed, OrZero, Least
  <1> HIDE DEF claw
  <1>11. PointsTrue'
    <2> DEFINE given == ledger[i] + way.points - claw
    <2>1. given \in Int /\ ledger' = [ledger EXCEPT ![i] = given] /\ waived' = waived + 0
          /\ balance' = balance + given - ledger[i] + 0
      BY <1>1, <1>8, <1>9, <1>10
    <2>2. balance' >= -Half
      BY <1>1, <1>8, <1>9, <1>10, HalfIsSmall
    <2>3. receipt'[i] # NoReceipt /\ \A k \in Sales \ {i} : receipt'[k] = receipt[k]
      BY <1>1, <1>6
    <2> HIDE DEF given
    <2> QED
      BY ONLY i \in Sales, 0 \in Int, <1>2, <2>1, <2>2, <2>3, PointsMove
  <1>12. phase'[s] = "idle"
    BY <1>1, <1>2 DEF CreditOK, Shaped, Leave
  <1>13. AtTheCustomer' /\ \A t \in Sessions \ {s} : phase'[t] = "idle"
    BY <1>1, <1>2, OneAtCustomer DEF PointsOK, Alone
  <1> QED
    BY <1>2, <1>11, <1>12, <1>13, SMTT(60) DEF PointsOK, PointsRead

LEMMA ErasePoints == ASSUME PointsOK, Alone, NEW s \in Sessions, Erase(s) PROVE PointsOK'
PROOF
  <1>1. CreditOK' /\ CreditOK /\ PointsTrue
    BY EraseKeeps DEF PointsOK
  <1>2. Leave(s, "erase") /\ phase[s] = "erase"
    BY DEF Erase, Leave
  <1>3. PICK i \in Sales : i = job[s].id
    BY <1>1, <1>2 DEF CreditOK, Working
  <1>4. seen[s].net = ledger[i] /\ receipt[i] # NoReceipt
    BY <1>1, <1>2, <1>3 DEF PointsOK, PointsRead, CreditOK, Working
  <1> DEFINE left == balance - ledger[i]
  <1>5. /\ balance' = OrZero(left) /\ waived' = waived + OrZero(0 - left)
        /\ ledger' = [ledger EXCEPT ![i] = 0]
        /\ receipt' = [receipt EXCEPT ![i].state = "deleted"]
    BY <1>3, <1>4 DEF Erase, NetPoints
  <1>6. balance \in Int /\ waived \in Int /\ ledger[i] \in Int
    BY <1>1 DEF PointsTrue
  <1>7. receipt'[i] # NoReceipt /\ \A k \in Sales \ {i} : receipt'[k] = receipt[k]
    <2>1. DOMAIN receipt = Sales /\ receipt[i] \in Receipts
      BY <1>1, <1>4 DEF CreditOK, Shaped, Books, Typed
    <2>2. receipt'[i] = [receipt[i] EXCEPT !.state = "deleted"]
      BY <1>5, <2>1
    <2>3. receipt'[i].state = "deleted"
      BY <2>1, <2>2 DEF Receipts
    <2> QED
      BY <1>5, <2>1, <2>3 DEF NoReceipt
  <1>8. PointsTrue'
    <2>1. OrZero(0 - left) \in Int /\ OrZero(left) = left + OrZero(0 - left) /\ OrZero(left) >= 0
      BY <1>6 DEF OrZero
    <2>2. balance' = balance + 0 - ledger[i] + OrZero(0 - left) /\ balance' >= -Half
      BY <1>5, <1>6, <2>1, HalfIsSmall
    <2> HIDE DEF left
    <2> QED
      BY ONLY i \in Sales, 0 \in Int, <1>1, <1>5, <1>7, <2>1, <2>2, PointsMove
  <1>9. phase'[s] = "idle"
    BY <1>1, <1>2 DEF CreditOK, Shaped, Leave
  <1>10. AtTheCustomer' /\ \A t \in Sessions \ {s} : phase'[t] = "idle"
    BY <1>1, <1>2, OneAtCustomer DEF PointsOK, Alone
  <1> QED
    BY <1>1, <1>8, <1>9, <1>10 DEF PointsOK, PointsRead

\* The other requests and the debts leave the points alone.
LEMMA OthersPoints ==
  ASSUME PointsOK, Alone,
         \/ ListDebts
         \/ \E i \in Sales : DueDatePasses(i) \/ Lend(i) \/ EditDebt(i) \/ ForgiveDebt(i)
  PROVE  PointsOK'
PROOF
  <1>1. UNCHANGED <<receipt, balance, waived, ledger, desk>>
    BY DEF ListDebts, DueDatePasses, Lend, EditDebt, ForgiveDebt, order, points
  <1>2. CreditOK'
    BY MarkingKeeps, ByHandKeeps DEF PointsOK
  <1>3. \A s \in Sessions : phase'[s] = "idle"
    BY <1>1 DEF Alone
  <1>4. PointsTrue'
    BY <1>1, PointsStay DEF PointsOK
  <1> QED
    BY <1>2, <1>3, <1>4 DEF PointsOK, AtTheCustomer, PointsRead

LEMMA RequestsPoints ==
  ASSUME PointsOK, Alone, CreditOK', NEW s \in Sessions,
         \/ LookToPay(s) \/ EnterPayment(s) \/ LookToUnpay(s) \/ DropPayment(s)
         \/ SumPaid(s) \/ MarkDebt(s) \/ TakeBack(s)
         \/ LookToDelete(s) \/ ReadMoves(s) \/ LockCustomer(s) \/ CreditGivesUp(s)
  PROVE  PointsOK'
PROOF
  <1>1. UNCHANGED <<receipt, balance, waived, ledger>>
    BY DEF LookToPay, EnterPayment, LookToUnpay, DropPayment, SumPaid, MarkDebt, TakeBack,
           LookToDelete, ReadMoves, LockCustomer, CreditGivesUp, order, points
  <1>2. PointsTrue'
    BY <1>1, PointsStay DEF PointsOK
  <1>3. \E a, b, c : a # "idle" /\ (Enter(s, a, b, c) \/ Proceed(s, a, b, c) \/ Leave(s, a))
    <2>1. CASE LookToPay(s) \/ LookToUnpay(s) \/ TakeBack(s) \/ LookToDelete(s)
      BY <2>1 DEF LookToPay, LookToUnpay, TakeBack, LookToDelete
    <2>2. CASE EnterPayment(s) \/ DropPayment(s) \/ SumPaid(s) \/ ReadMoves(s) \/ LockCustomer(s)
      BY <2>2 DEF EnterPayment, DropPayment, SumPaid, ReadMoves, LockCustomer
    <2>3. CASE MarkDebt(s) \/ CreditGivesUp(s)
      BY <2>3 DEF MarkDebt, CreditGivesUp, Abandon
    <2> QED
      BY <2>1, <2>2, <2>3
  <1>4. AtTheCustomer' /\ \A t \in Sessions \ {s} : phase'[t] = "idle"
    BY <1>3, OneAtCustomer DEF PointsOK, Alone
  <1>5. PointsRead(s)'
    <2>0. DOMAIN phase = Sessions /\ DOMAIN job = Sessions /\ DOMAIN seen = Sessions
      BY DEF PointsOK, CreditOK, Shaped
    <2>1. CASE ReadMoves(s)
      BY <1>1, <2>0, <2>1 DEF ReadMoves, Proceed, PointsRead
    <2>2. CASE LockCustomer(s)
      BY <1>1, <2>0, <2>2 DEF LockCustomer, Proceed, PointsRead, PointsOK
    <2>3. CASE ~ReadMoves(s) /\ ~LockCustomer(s)
      <3>1. phase'[s] \in {"pay", "sum", "unpay", "mark", "settle", "moves", "idle"}
        BY <2>0, <2>3 DEF LookToPay, EnterPayment, LookToUnpay, DropPayment, SumPaid, MarkDebt, TakeBack,
           LookToDelete, CreditGivesUp, Enter, Proceed, Abandon, Leave
      <3> QED
        BY <3>1 DEF PointsRead
    <2> QED
      BY <2>1, <2>2, <2>3
  <1> QED
    BY <1>2, <1>4, <1>5 DEF PointsOK, PointsRead

------------------------------------------------------------------------------
\* Debts, one request of a customer at a time and a payment always followed by
\* its status: what the request read of the debt is still so.

\* The status an amount calls for, or one that the next read makes so.
Stands(now, mark) == mark = now \/ (now = "Overdue" /\ mark = "Pending")

\* A payment on the debt was entered or dropped, its status not yet written.
Unmarked(i) == \E s \in Sessions : phase[s] \in {"sum", "mark"} /\ job[s].id = i

DebtTrue(i) ==
  /\ taken[i] \in Nat /\ (taken[i] = 0 => paid[i] = 0 /\ payments[i] = {})
  /\ HasDebt(i) /\ ~byHand[i] =>
       /\ paid[i] <= owed[i]
       /\ ~Unmarked(i) => Stands(StandingOf(paid[i], owed[i], due[i]), standing[i])

DebtRead(s) ==
  LET i == job[s].id
      n == seen[s]
  IN  /\ phase[s] \in {"pay", "unpay", "sum"} => n.owed = owed[i] /\ n.due = due[i]
      /\ phase[s] = "pay" /\ ~byHand[i] => job[s].amount <= owed[i] - paid[i]
      /\ phase[s] = "mark" => n.status = StandingOf(paid[i], owed[i], due[i])
      /\ phase[s] = "settle" => n.owed = owed[i] /\ n.paid = paid[i] /\ n.standing = standing[i]

DebtsOK == /\ CreditOK /\ DOMAIN due = Sales /\ DOMAIN taken = Sales
           /\ \A i \in Sales : DebtTrue(i)
           /\ AtTheCustomer /\ \A s \in Sessions : DebtRead(s)

LEMMA DebtTypes ==
  ASSUME CreditOK, NEW i \in Sales
  PROVE  /\ owed[i] \in Nat /\ paid[i] \in Int /\ \A p \in payments[i] : p.amount \in Nat
  BY DEF CreditOK, Books, Typed

\* A debt nobody touched, but perhaps for the mark of a late one.
SameDebt(i) ==
  /\ taken'[i] = taken[i] /\ paid'[i] = paid[i] /\ payments'[i] = payments[i]
  /\ owed'[i] = owed[i] /\ due'[i] = due[i] /\ byHand'[i] = byHand[i]
  /\ standing'[i] \in {standing[i], Marked[i]}

LEMMA SameStands ==
  ASSUME NEW i \in Sales, DebtTrue(i), SameDebt(i), CreditOK, Unmarked(i) => Unmarked(i)'
  PROVE  DebtTrue(i)'
PROOF
  <1>1. taken'[i] \in Nat /\ (taken'[i] = 0 => paid'[i] = 0 /\ payments'[i] = {})
    BY DEF DebtTrue, SameDebt
  <1>2. HasDebt(i)' => HasDebt(i)
    BY DEF HasDebt, SameDebt, Marked
  <1>3. ASSUME HasDebt(i)', ~byHand'[i]
        PROVE  /\ paid'[i] <= owed'[i]
               /\ ~Unmarked(i)' => Stands(StandingOf(paid'[i], owed'[i], due'[i]), standing'[i])
    <2>1. HasDebt(i) /\ ~byHand[i] /\ paid[i] <= owed[i]
      BY <1>2, <1>3 DEF DebtTrue, SameDebt
    <2>2. ASSUME ~Unmarked(i)'
          PROVE  Stands(StandingOf(paid'[i], owed'[i], due'[i]), standing'[i])
      <3>1. Stands(StandingOf(paid[i], owed[i], due[i]), standing[i])
        BY <2>1, <2>2 DEF DebtTrue
      <3>2. Marked[i] = IF standing[i] = "Pending" /\ due[i] = "past" THEN "Overdue" ELSE standing[i]
        BY DEF Marked
      <3>3. StandingOf(paid'[i], owed'[i], due'[i]) = StandingOf(paid[i], owed[i], due[i])
        BY DEF SameDebt
      <3> HIDE DEF Marked
      <3> QED
        BY <3>1, <3>2, <3>3 DEF Stands, StandingOf, SameDebt
    <2> QED
      BY <2>1, <2>2 DEF SameDebt
  <1> QED
    BY <1>1, <1>3 DEF DebtTrue, HasDebt

\* A step of no request, on the debt of one sale.
LEMMA DebtWritten ==
  ASSUME DebtsOK, CreditOK', DOMAIN due' = Sales, DOMAIN taken' = Sales, NEW i \in Sales, DebtTrue(i)',
         \A k \in Sales \ {i} : SameDebt(k),
         UNCHANGED desk, \A s \in Sessions : phase'[s] = "idle"
  PROVE  DebtsOK'
PROOF
  <1>1. \A s \in Sessions : phase[s] = "idle"
    BY DEF desk
  <1>2. \A k \in Sales : ~Unmarked(k)
    BY <1>1 DEF Unmarked
  <1>3. \A k \in Sales \ {i} : DebtTrue(k)'
    BY <1>2, SameStands DEF DebtsOK
  <1>4. AtTheCustomer' /\ \A s \in Sessions : DebtRead(s)'
    BY DEF AtTheCustomer, DebtRead
  <1> QED
    BY <1>3, <1>4 DEF DebtsOK

LEMMA DirectDebts ==
  ASSUME DebtsOK, Alone, CreditOK', NEW i \in Sales,
         Sell(i) \/ DueDatePasses(i) \/ Lend(i) \/ EditDebt(i) \/ ForgiveDebt(i)
  PROVE  DebtsOK'
PROOF
  <1>0. /\ DOMAIN owed = Sales /\ DOMAIN standing = Sales /\ DOMAIN due = Sales /\ DOMAIN payments = Sales
        /\ DOMAIN paid = Sales /\ DOMAIN taken = Sales /\ DOMAIN byHand = Sales /\ DOMAIN Marked = Sales
        /\ DebtTrue(i) /\ owed[i] \in Nat /\ paid[i] \in Int
    BY DebtTypes DEF DebtsOK, CreditOK, Shaped, Marked
  <1>1. UNCHANGED desk
    BY DEF Sell, RingUp, DueDatePasses, Lend, EditDebt, ForgiveDebt
  <1>2. \A s \in Sessions : phase[s] = "idle" /\ phase'[s] = "idle"
    BY <1>1 DEF Alone, desk
  <1>3. ~Unmarked(i)
    BY <1>2 DEF Unmarked
  <1>4. /\ DOMAIN due' = Sales /\ DOMAIN taken' = Sales /\ DebtTrue(i)'
        /\ \A k \in Sales \ {i} : SameDebt(k)
    <2>1. CASE Sell(i)
      <3>1. PICK lent \in Int : 
              /\ owed' = [owed EXCEPT ![i] = lent]
              /\ standing' = [standing EXCEPT ![i] = IF lent > 0 THEN "Pending" ELSE "none"]
              /\ due' = [due EXCEPT ![i] = IF lent > 0 THEN "ahead" ELSE "none"]
              /\ UNCHANGED <<payments, paid, taken, byHand>> /\ taken[i] = 0
        <4>1. PICK b \in Baskets, d \in Discounts, t \in Tenders, asked \in Redeems : RingUp(i, b, d, t, asked)
          BY <2>1 DEF Sell
        <4> DEFINE total == Discounted(Subtotal(b), d)
                   use == PointsSpent(asked, total)
                   down == Booked(t, total - use)
                   lent == Credit(t, total - use, down)
        <4>2. owed' = [owed EXCEPT ![i] = lent]
          BY <4>1 DEF RingUp
        <4>3. lent \in Int
          <5> HIDE DEF total, use, down, lent
          <5>1. owed'[i] = lent
            BY <1>0, <4>2
          <5> QED
            BY <5>1 DEF CreditOK, Books, Typed
        <4> QED
          BY <4>1, <4>3 DEF RingUp
      <3>2. /\ DOMAIN due' = Sales /\ DOMAIN taken' = Sales
            /\ \A k \in Sales \ {i} : SameDebt(k)
        BY <1>0, <3>1 DEF SameDebt
      <3>3. /\ taken'[i] \in Nat /\ paid'[i] = 0 /\ payments'[i] = {} /\ owed'[i] = lent
            /\ HasDebt(i)' => lent > 0 /\ standing'[i] = "Pending" /\ due'[i] = "ahead"
        BY <1>0, <3>1 DEF DebtTrue, HasDebt
      <3>4. DebtTrue(i)'
        BY <3>3 DEF DebtTrue, Stands, StandingOf
      <3> QED
        BY <3>2, <3>4
    <2>2. CASE DueDatePasses(i)
      <3>1. /\ due[i] = "ahead" /\ due' = [due EXCEPT ![i] = "past"]
            /\ UNCHANGED <<owed, standing, payments, paid, taken, byHand>>
        BY <2>2 DEF DueDatePasses
      <3>2. /\ DOMAIN due' = Sales /\ DOMAIN taken' = Sales /\ due'[i] = "past"
            /\ \A k \in Sales \ {i} : SameDebt(k)
        BY <1>0, <3>1 DEF SameDebt
      <3>3. DebtTrue(i)'
        BY <1>0, <1>3, <3>1, <3>2 DEF DebtTrue, Stands, StandingOf, HasDebt
      <3> QED
        BY <3>2, <3>3
    <2>3. CASE Lend(i)
      <3>1. PICK a \in Installments, d \in {"none", "ahead"} :
              /\ owed' = [owed EXCEPT ![i] = a] /\ due' = [due EXCEPT ![i] = d]
        BY <2>3 DEF Lend
      <3>2. /\ taken[i] = 0 /\ standing' = [standing EXCEPT ![i] = "Pending"]
            /\ UNCHANGED <<payments, paid, taken, byHand>>
        BY <2>3 DEF Lend
      <3>3. /\ DOMAIN due' = Sales /\ DOMAIN taken' = Sales
            /\ \A k \in Sales \ {i} : SameDebt(k)
        BY <1>0, <3>1, <3>2 DEF SameDebt
      <3>4. a \in Nat /\ a > 0
        BY SalesAssumption
      <3>5. /\ taken'[i] \in Nat /\ paid'[i] = 0 /\ payments'[i] = {} /\ owed'[i] = a
            /\ standing'[i] = "Pending" /\ due'[i] # "past"
        BY <1>0, <3>1, <3>2 DEF DebtTrue
      <3>6. DebtTrue(i)'
        BY <3>4, <3>5 DEF DebtTrue, Stands, StandingOf
      <3> QED
        BY <3>3, <3>6
    <2>4. CASE EditDebt(i) \/ ForgiveDebt(i)
      <3>1. /\ taken' = taken /\ byHand'[i] = TRUE
            /\ ((paid'[i] = 0 /\ payments'[i] = {}) \/ (paid' = paid /\ payments' = payments))
            /\ DOMAIN due' = Sales
            /\ \A k \in Sales \ {i} : SameDebt(k)
        <4>1. CASE EditDebt(i)
          BY <1>0, <4>1 DEF EditDebt, SameDebt
        <4>2. CASE ForgiveDebt(i)
          <5>1. /\ owed' = [owed EXCEPT ![i] = 0] /\ standing' = [Marked EXCEPT ![i] = "none"]
                /\ due' = [due EXCEPT ![i] = "none"] /\ payments' = [payments EXCEPT ![i] = {}]
                /\ paid' = [paid EXCEPT ![i] = 0] /\ byHand' = [byHand EXCEPT ![i] = TRUE]
                /\ taken' = taken
            BY <4>2 DEF ForgiveDebt
          <5>2. \A k \in Sales \ {i} : SameDebt(k)
            BY <1>0, <5>1 DEF SameDebt
          <5>3. byHand'[i] = TRUE /\ paid'[i] = 0 /\ payments'[i] = {} /\ DOMAIN due' = Sales
            BY <1>0, <5>1
          <5> QED
            BY <5>1, <5>2, <5>3
        <4> QED
          BY <2>4, <4>1, <4>2
      <3>2. DebtTrue(i)'
        BY <1>0, <3>1 DEF DebtTrue
      <3> QED
        BY <1>0, <3>1, <3>2
    <2> QED
      BY <2>1, <2>2, <2>3, <2>4
  <1> QED
    BY <1>1, <1>2, <1>4, DebtWritten

LEMMA ListedDebts == ASSUME DebtsOK, Alone, CreditOK', ListDebts PROVE DebtsOK'
PROOF
  <1>1. UNCHANGED <<owed, due, payments, paid, taken, byHand, desk>> /\ standing' = Marked
    BY DEF ListDebts
  <1>2. \A s \in Sessions : phase[s] = "idle" /\ phase'[s] = "idle"
    BY <1>1 DEF Alone, desk
  <1>3. \A k \in Sales : ~Unmarked(k)
    BY <1>2 DEF Unmarked
  <1>4. \A k \in Sales : SameDebt(k)
    BY <1>1 DEF SameDebt
  <1>5. \A k \in Sales : DebtTrue(k)'
    BY <1>3, <1>4, SameStands DEF DebtsOK
  <1>6. AtTheCustomer' /\ \A s \in Sessions : DebtRead(s)'
    BY <1>2 DEF AtTheCustomer, DebtRead
  <1> QED
    BY <1>1, <1>5, <1>6 DEF DebtsOK

------------------------------------------------------------------------------
\* A step of one request; the others are idle before and after.
LEMMA AtOneDebt ==
  ASSUME DebtsOK, Alone, NEW s \in Sessions, NEW a, NEW b, NEW c, a # "idle",
         Enter(s, a, b, c) \/ Proceed(s, a, b, c) \/ Leave(s, a)
  PROVE  /\ AtTheCustomer'
         /\ \A t \in Sessions \ {s} : phase[t] = "idle" /\ phase'[t] = "idle"
         /\ \A k \in Sales : /\ Unmarked(k) <=> phase[s] \in {"sum", "mark"} /\ job[s].id = k
                             /\ Unmarked(k)' <=> phase'[s] \in {"sum", "mark"} /\ job'[s].id = k
PROOF
  <1>1. AtTheCustomer' /\ \A t \in Sessions \ {s} : phase'[t] = "idle"
    BY OneAtCustomer DEF DebtsOK, Alone
  <1>2. \A t \in Sessions \ {s} : phase[t] = "idle"
    BY <1>1, OneMoves DEF DebtsOK, Waits
  <1> QED
    BY <1>1, <1>2 DEF Unmarked

LEMMA RequestDebts ==
  ASSUME DebtsOK, Alone, CreditOK', DOMAIN due' = Sales, DOMAIN taken' = Sales,
         NEW s \in Sessions, NEW a, NEW b, NEW c, a # "idle",
         Enter(s, a, b, c) \/ Proceed(s, a, b, c) \/ Leave(s, a),
         \A i \in Sales : DebtTrue(i)', DebtRead(s)'
  PROVE  DebtsOK'
PROOF
  <1>1. AtTheCustomer' /\ \A t \in Sessions \ {s} : phase'[t] = "idle"
    BY AtOneDebt
  <1>2. \A t \in Sessions \ {s} : DebtRead(t)'
    BY <1>1 DEF DebtRead
  <1> QED
    BY <1>1, <1>2 DEF DebtsOK

\* The looks, and the steps that only go on.
LEMMA LookingDebts ==
  ASSUME DebtsOK, Alone, CreditOK', NEW s \in Sessions,
         \/ LookToPay(s) \/ LookToUnpay(s) \/ SumPaid(s) \/ TakeBack(s)
         \/ LookToDelete(s) \/ ReadMoves(s) \/ LockCustomer(s)
  PROVE  DebtsOK'
PROOF
  <1>0. /\ DOMAIN phase = Sessions /\ DOMAIN job = Sessions /\ DOMAIN seen = Sessions
        /\ DOMAIN due = Sales /\ DOMAIN taken = Sales
    BY DEF DebtsOK, CreditOK, Shaped
  <1>1. /\ UNCHANGED <<owed, due, payments, paid, taken, byHand>>
        /\ standing' = standing \/ standing' = Marked
    BY DEF LookToPay, LookToUnpay, SumPaid, TakeBack, LookToDelete, ReadMoves, LockCustomer, debt
  <1>2. \A k \in Sales : SameDebt(k)
    BY <1>1 DEF SameDebt
  <1>3. PICK a, b, c : a # "idle" /\ (Enter(s, a, b, c) \/ Proceed(s, a, b, c) \/ Leave(s, a))
    <2>1. CASE LookToPay(s) \/ LookToUnpay(s) \/ TakeBack(s) \/ LookToDelete(s)
      BY <2>1 DEF LookToPay, LookToUnpay, TakeBack, LookToDelete
    <2>2. CASE SumPaid(s) \/ ReadMoves(s) \/ LockCustomer(s)
      BY <2>2 DEF SumPaid, ReadMoves, LockCustomer
    <2> QED
      BY <2>1, <2>2
  <1>4. \A k \in Sales : /\ Unmarked(k) <=> phase[s] \in {"sum", "mark"} /\ job[s].id = k
                         /\ Unmarked(k)' <=> phase'[s] \in {"sum", "mark"} /\ job'[s].id = k
    BY <1>3, AtOneDebt
  <1>5. (phase[s] \in {"sum", "mark"} => phase'[s] \in {"sum", "mark"} /\ job'[s].id = job[s].id) /\ DebtRead(s)'
    <2>1. CASE LookToPay(s)
      <3>1. PICK i \in Sales, x \in Installments :
              /\ Fits(x, i)
              /\ Enter(s, "pay", [kind |-> "pay", id |-> i, amount |-> x],
                       [kind |-> "debt", owed |-> owed[i], due |-> due[i]])
        BY <2>1 DEF LookToPay
      <3>2. /\ phase[s] = "idle" /\ phase'[s] = "pay" /\ job'[s].id = i /\ job'[s].amount = x
            /\ seen'[s].owed = owed[i] /\ seen'[s].due = due[i]
        BY <1>0, <3>1 DEF Enter
      <3> QED
        BY <1>1, <3>1, <3>2 DEF DebtRead, Fits
    <2>2. CASE LookToUnpay(s)
      <3>1. PICK i \in Sales : \E p \in payments[i] :
              Enter(s, "unpay", [kind |-> "unpay", id |-> i, payment |-> p],
                       [kind |-> "debt", owed |-> owed[i], due |-> due[i]])
        BY <2>2 DEF LookToUnpay
      <3>2. /\ phase[s] = "idle" /\ phase'[s] = "unpay" /\ job'[s].id = i
            /\ seen'[s].owed = owed[i] /\ seen'[s].due = due[i]
        BY <1>0, <3>1 DEF Enter
      <3> QED
        BY <1>1, <3>2 DEF DebtRead
    <2>3. CASE SumPaid(s)
      <3>1. /\ phase[s] = "sum" /\ phase'[s] = "mark" /\ job'[s] = job[s]
            /\ seen'[s].status = StandingOf(paid[job[s].id], seen[s].owed, seen[s].due)
        BY <1>0, <2>3 DEF SumPaid, Proceed
      <3>2. seen[s].owed = owed[job[s].id] /\ seen[s].due = due[job[s].id]
        BY <3>1 DEF DebtsOK, DebtRead
      <3> QED
        BY <1>1, <3>1, <3>2 DEF DebtRead
    <2>4. CASE TakeBack(s)
      <3>1. UNCHANGED <<owed, paid, standing>>
        BY <2>4 DEF TakeBack, debt
      <3>2. PICK i \in Sales : \E req \in Requests(i) :
              Enter(s, "settle", [kind |-> "return", id |-> i, req |-> req],
                    [kind |-> "debt", owed |-> owed[i], paid |-> paid[i], standing |-> standing[i]])
        BY <2>4 DEF TakeBack
      <3>3. /\ phase[s] = "idle" /\ phase'[s] = "settle" /\ job'[s].id = i
            /\ seen'[s].owed = owed[i] /\ seen'[s].paid = paid[i] /\ seen'[s].standing = standing[i]
        BY <1>0, <3>2 DEF Enter
      <3> QED
        BY <3>1, <3>3 DEF DebtRead
    <2>5. CASE LookToDelete(s) \/ ReadMoves(s) \/ LockCustomer(s)
      <3>1. phase'[s] \in {"moves", "claw", "erase"} /\ phase[s] \in {"idle", "moves", "claw"}
        BY <1>0, <2>5 DEF LookToDelete, ReadMoves, LockCustomer, Enter, Proceed
      <3> QED
        BY <3>1 DEF DebtRead
    <2> QED
      BY <2>1, <2>2, <2>3, <2>4, <2>5
  <1>6. \A k \in Sales : DebtTrue(k)'
    BY <1>2, <1>4, <1>5, SameStands DEF DebtsOK
  <1> QED
    BY <1>0, <1>1, <1>3, <1>5, <1>6, RequestDebts

\* A payment entered or dropped: the status waits for the two steps to come.
LEMMA PaymentDebts ==
  ASSUME DebtsOK, Alone, CreditOK', NEW s \in Sessions, EnterPayment(s) \/ DropPayment(s)
  PROVE  DebtsOK'
PROOF
  <1>1. phase[s] \in {"pay", "unpay"} /\ Proceed(s, phase[s], "sum", seen[s])
    BY DEF EnterPayment, DropPayment, Proceed
  <1>2. PICK i \in Sales : i = job[s].id
    BY <1>1 DEF DebtsOK, CreditOK, Working
  <1>3. /\ DOMAIN phase = Sessions /\ DOMAIN seen = Sessions /\ DOMAIN due = Sales /\ DOMAIN taken = Sales
        /\ DOMAIN paid = Sales /\ DOMAIN payments = Sales
        /\ DebtTrue(i) /\ DebtRead(s) /\ Working(s)
        /\ owed[i] \in Nat /\ paid[i] \in Int /\ \A p \in payments[i] : p.amount \in Nat
    BY DebtTypes DEF DebtsOK, CreditOK, Shaped
  <1>4. phase'[s] = "sum" /\ job'[s] = job[s] /\ seen'[s] = seen[s]
    BY <1>1, <1>3 DEF Proceed
  <1>5. \A k \in Sales : /\ Unmarked(k) <=> phase[s] \in {"sum", "mark"} /\ job[s].id = k
                         /\ Unmarked(k)' <=> phase'[s] \in {"sum", "mark"} /\ job'[s].id = k
    BY <1>1, AtOneDebt
  <1>6. UNCHANGED <<owed, standing, due, byHand>>
    BY DEF EnterPayment, DropPayment
  <1>7. /\ DOMAIN taken' = Sales /\ \A k \in Sales \ {i} : SameDebt(k)
        /\ taken'[i] \in Nat /\ (taken'[i] = 0 => paid'[i] = 0 /\ payments'[i] = {})
        /\ ~byHand[i] /\ HasDebt(i) => paid'[i] <= owed[i]
    <2>1. CASE EnterPayment(s)
      <3>1. /\ taken' = [taken EXCEPT ![i] = @ + 1]
            /\ payments' = [payments EXCEPT ![i] = @ \cup {[no |-> taken[i] + 1, amount |-> job[s].amount]}]
            /\ paid' = [paid EXCEPT ![i] = @ + job[s].amount] /\ phase[s] = "pay"
        BY <1>2, <2>1 DEF EnterPayment, Proceed
      <3>2. job[s].amount \in Nat /\ (~byHand[i] => job[s].amount <= owed[i] - paid[i])
        BY <1>2, <1>3, <3>1 DEF Working, DebtRead
      <3>3. taken[i] \in Nat
        BY <1>3 DEF DebtTrue
      <3>4. DOMAIN taken' = Sales /\ \A k \in Sales \ {i} : SameDebt(k)
        BY <1>3, <1>6, <3>1 DEF SameDebt
      <3>5. taken'[i] = taken[i] + 1 /\ paid'[i] = paid[i] + job[s].amount
        BY <1>3, <3>1
      <3> QED
        BY <1>3, <3>2, <3>3, <3>4, <3>5
    <2>2. CASE DropPayment(s)
      <3>1. /\ taken' = taken
            /\ payments' = [payments EXCEPT ![i] = @ \ {job[s].payment}]
            /\ paid' = [paid EXCEPT ![i] = IF job[s].payment \in payments[i]
                                             THEN @ - job[s].payment.amount ELSE @]
        BY <1>2, <2>2 DEF DropPayment
      <3>2. DOMAIN taken' = Sales /\ \A k \in Sales \ {i} : SameDebt(k)
        BY <1>3, <1>6, <3>1 DEF SameDebt
      <3>3. /\ payments'[i] = payments[i] \ {job[s].payment}
            /\ job[s].payment \notin payments[i] => paid'[i] = paid[i]
            /\ job[s].payment \in payments[i] => paid'[i] = paid[i] - job[s].payment.amount
        BY <1>3, <3>1
      <3>4. paid'[i] \in Int /\ paid'[i] <= paid[i] /\ (payments[i] = {} => paid'[i] = paid[i])
        <4>1. CASE job[s].payment \in payments[i]
          <5>1. job[s].payment.amount \in Nat
            BY <1>3, <4>1
          <5> QED
            BY <1>3, <3>3, <4>1, <5>1
        <4>2. CASE job[s].payment \notin payments[i]
          BY <1>3, <3>3, <4>2
        <4> QED
          BY <4>1, <4>2
      <3>5. taken'[i] = taken[i] /\ taken[i] \in Nat /\ (taken[i] = 0 => paid[i] = 0 /\ payments[i] = {})
        BY <1>3, <3>1 DEF DebtTrue
      <3>6. HasDebt(i) /\ ~byHand[i] => paid[i] <= owed[i]
        BY <1>3 DEF DebtTrue
      <3> QED
        BY <1>3, <3>2, <3>3, <3>4, <3>5, <3>6
    <2> QED
      BY <2>1, <2>2
  <1>8. DebtTrue(i)'
    BY <1>2, <1>4, <1>5, <1>6, <1>7 DEF DebtTrue, HasDebt
  <1>9. \A k \in Sales \ {i} : DebtTrue(k)'
    <2> SUFFICES ASSUME NEW k \in Sales \ {i} PROVE DebtTrue(k)'
      OBVIOUS
    <2>1. Unmarked(k) => Unmarked(k)'
      BY <1>1, <1>5
    <2> QED
      BY <1>7, <2>1, SameStands DEF DebtsOK
  <1>10. DebtRead(s)'
    <2>1. seen[s].owed = owed[i] /\ seen[s].due = due[i]
      BY <1>1, <1>2, <1>3 DEF DebtRead
    <2> QED
      BY <1>2, <1>4, <1>6, <2>1 DEF DebtRead
  <1> QED
    BY <1>1, <1>3, <1>6, <1>7, <1>8, <1>9, <1>10, RequestDebts

LEMMA MarkDebts ==
  ASSUME DebtsOK, Alone, CreditOK', NEW s \in Sessions, MarkDebt(s)
  PROVE  DebtsOK'
PROOF
  <1>1. Leave(s, "mark") /\ phase[s] = "mark"
    BY DEF MarkDebt, Leave
  <1>2. PICK i \in Sales : i = job[s].id
    BY <1>1 DEF DebtsOK, CreditOK, Working
  <1>3. /\ DOMAIN phase = Sessions /\ DOMAIN due = Sales /\ DOMAIN taken = Sales /\ DOMAIN standing = Sales
        /\ DebtTrue(i) /\ seen[s].status = StandingOf(paid[i], owed[i], due[i])
    BY <1>1, <1>2 DEF DebtsOK, CreditOK, Shaped, DebtRead
  <1>4. /\ standing' = [standing EXCEPT ![i] = IF HasDebt(i) THEN seen[s].status ELSE @]
        /\ UNCHANGED <<owed, due, payments, paid, taken, byHand>>
    BY <1>2 DEF MarkDebt
  <1>5. phase'[s] = "idle"
    BY <1>1, <1>3 DEF Leave
  <1>6. \A k \in Sales : /\ Unmarked(k) <=> phase[s] \in {"sum", "mark"} /\ job[s].id = k
                         /\ Unmarked(k)' <=> phase'[s] \in {"sum", "mark"} /\ job'[s].id = k
    BY <1>1, AtOneDebt
  <1>7. DebtTrue(i)'
    <2>1. HasDebt(i)' => HasDebt(i) /\ standing'[i] = StandingOf(paid[i], owed[i], due[i])
      BY <1>3, <1>4 DEF HasDebt
    <2> QED
      BY <1>3, <1>4, <2>1 DEF DebtTrue, Stands
  <1>8. \A k \in Sales \ {i} : DebtTrue(k)'
    <2> SUFFICES ASSUME NEW k \in Sales \ {i} PROVE DebtTrue(k)'
      OBVIOUS
    <2>1. SameDebt(k)
      BY <1>3, <1>4 DEF SameDebt
    <2>2. Unmarked(k) => Unmarked(k)'
      BY <1>2, <1>6
    <2> QED
      BY <2>1, <2>2, SameStands DEF DebtsOK
  <1>9. DebtRead(s)'
    BY <1>5 DEF DebtRead
  <1> QED
    BY <1>1, <1>3, <1>4, <1>7, <1>8, <1>9, RequestDebts

\* Written down by what is left to pay, the debt still covers what was paid on it.
LEMMA WrittenDownStands ==
  ASSUME NEW n, n.owed \in Nat, n.paid \in Int, n.paid <= n.owed, NEW over,
         Stands(StandingOf(n.paid, n.owed, over), n.standing), NEW reduced \in Nat, reduced > 0,
         reduced <= DebtLeft(n)
  PROVE  LET new == WrittenDown(n, reduced)
         IN  n.paid <= new.owed /\ Stands(StandingOf(n.paid, new.owed, over), new.standing)
PROOF
  <1> DEFINE new == WrittenDown(n, reduced)
             x == OrZero(n.owed - reduced)
  <1>1. /\ new.owed = x
        /\ new.standing = IF n.paid >= x THEN "Paid"
                          ELSE IF n.paid > 0 THEN "Partial"
                          ELSE IF n.standing = "Overdue" THEN "Overdue" ELSE "Pending"
    BY DEF WrittenDown
  <1>2. reduced <= OrZero(n.owed - n.paid)
    BY DEF DebtLeft, OrZero
  <1>3. x \in Nat /\ n.paid <= x
    BY <1>2 DEF OrZero
  <1>4. n.standing = "Overdue" /\ n.paid <= 0 => over = "past"
    BY DEF Stands, StandingOf
  <1> HIDE DEF new, x
  <1>5. Stands(StandingOf(n.paid, x, over), new.standing)
    BY <1>1, <1>3, <1>4 DEF Stands, StandingOf
  <1> QED
    BY <1>1, <1>3, <1>5 DEF new

LEMMA SettleDebts ==
  ASSUME DebtsOK, Alone, CreditOK', NEW s \in Sessions, Settle(s)
  PROVE  DebtsOK'
PROOF
  <1>0. phase[s] = "settle" /\ DOMAIN job = Sessions
    BY Zenon DEF Settle, Leave, DebtsOK, CreditOK, Shaped
  <1>a. PICK i \in Sales : i = job[s].id
    BY <1>0, SMTT(60) DEF DebtsOK, CreditOK, Reading
  <1> DEFINE req == job[s].req
             r == receipt[i]
             n == seen[s]
             value == ReturnTotal(r.basket, r.total, back[i], backWorth[i], returned[i], req)
             left == DebtLeft(n)
             pts == OrZero(r.redeemed - restored[i])
             way == Settlement(value, left, pts)
             written == way.debt > 0 /\ HasDebt(i)
  <1>1. /\ Leave(s, "settle") /\ value \in 0..MaxMoney
        /\ owed' = [owed EXCEPT ![i] = IF written THEN WrittenDown(n, way.debt).owed ELSE @]
        /\ standing' = [standing EXCEPT ![i] =
                          IF written THEN WrittenDown(n, way.debt).standing ELSE @]
        /\ UNCHANGED <<due, payments, paid, taken, byHand>>
    BY <1>a, Zenon DEF Settle
  <1>2. /\ DOMAIN phase = Sessions /\ DOMAIN due = Sales /\ DOMAIN taken = Sales
        /\ DOMAIN standing = Sales /\ DOMAIN owed = Sales /\ DebtTrue(i)
        /\ n.owed = owed[i] /\ n.paid = paid[i] /\ n.standing = standing[i]
        /\ owed[i] \in Nat /\ paid[i] \in Int /\ CreditOK
    BY <1>0, <1>a, DebtTypes DEF DebtsOK, CreditOK, Shaped, DebtRead
  <1>3. Sold(i)
    BY <1>0, <1>a, <1>2 DEF CreditOK, Reading
  <1>4. receipt[i] \in Receipts /\ restored[i] \in Int
    BY <1>2, <1>3 DEF CreditOK, Books, Typed, Sold, NoReceipt
  <1>5. receipt[i].redeemed \in Nat
    BY <1>4 DEF Receipts
  <1>6. left \in Nat /\ pts \in Nat
    BY <1>2, <1>4, <1>5 DEF DebtLeft, OrZero
  <1>7. value \in Nat
    <2> HIDE DEF value
    <2> QED
      BY <1>1
  <1> HIDE DEF value, left, pts, r
  <1>8. way.debt \in Nat /\ way.debt <= left
    BY <1>6, <1>7, Waterfall
  <1> HIDE DEF way
  <1>9. phase'[s] = "idle"
    BY <1>1, <1>2 DEF Leave
  <1>10. \A k \in Sales : /\ Unmarked(k) <=> phase[s] \in {"sum", "mark"} /\ job[s].id = k
                          /\ Unmarked(k)' <=> phase'[s] \in {"sum", "mark"} /\ job'[s].id = k
    BY <1>1, AtOneDebt
  <1>11. \A k \in Sales \ {i} : SameDebt(k)
    BY <1>1, <1>2 DEF SameDebt
  <1>12. \A k \in Sales : ~Unmarked(k)
    BY <1>0, <1>10
  <1>13. DebtTrue(i)'
    <2>1. CASE written
      <3>1. /\ owed'[i] = WrittenDown(n, way.debt).owed
            /\ standing'[i] = WrittenDown(n, way.debt).standing
        BY <1>1, <1>2, <2>1
      <3>2. CASE byHand[i]
        BY <1>1, <1>2, <3>2 DEF DebtTrue
      <3>3. CASE ~byHand[i]
        <4>1. /\ paid[i] <= owed[i]
              /\ Stands(StandingOf(n.paid, n.owed, due[i]), n.standing)
          BY <1>2, <1>12, <2>1, <3>3 DEF DebtTrue
        <4> HIDE DEF n
        <4>2. /\ n.paid <= WrittenDown(n, way.debt).owed
              /\ Stands(StandingOf(n.paid, WrittenDown(n, way.debt).owed, due[i]),
                        WrittenDown(n, way.debt).standing)
          BY <1>2, <1>8, <2>1, <4>1, WrittenDownStands DEF left
        <4> QED
          BY <1>1, <1>2, <3>1, <4>2 DEF DebtTrue
      <3> QED
        BY <3>2, <3>3
    <2>2. CASE ~written
      <3>1. owed'[i] = owed[i] /\ standing'[i] = standing[i]
        BY <1>1, <1>2, <2>2
      <3>2. SameDebt(i)
        BY <1>1, <3>1 DEF SameDebt
      <3> QED
        BY <1>2, <1>12, <3>2, SameStands
    <2> QED
      BY <2>1, <2>2
  <1>14. \A k \in Sales \ {i} : DebtTrue(k)'
    BY <1>11, <1>12, SameStands DEF DebtsOK
  <1>15. DebtRead(s)'
    BY <1>9 DEF DebtRead
  <1> QED
    BY <1>1, <1>2, <1>13, <1>14, <1>15, RequestDebts

LEMMA EraseDebts ==
  ASSUME DebtsOK, Alone, CreditOK', NEW s \in Sessions, Erase(s)
  PROVE  DebtsOK'
PROOF
  <1>1. Leave(s, "erase") /\ phase[s] = "erase"
    BY DEF Erase, Leave
  <1>2. PICK i \in Sales : i = job[s].id
    BY <1>1 DEF DebtsOK, CreditOK, Working
  <1>3. /\ DOMAIN phase = Sessions /\ DOMAIN due = Sales /\ DOMAIN taken = Sales
        /\ DOMAIN standing = Sales /\ DOMAIN owed = Sales /\ DOMAIN paid = Sales
        /\ DOMAIN payments = Sales /\ DebtTrue(i)
    BY DEF DebtsOK, CreditOK, Shaped
  <1>4. /\ owed' = [owed EXCEPT ![i] = 0] /\ standing' = [standing EXCEPT ![i] = "none"]
        /\ due' = [due EXCEPT ![i] = "none"] /\ payments' = [payments EXCEPT ![i] = {}]
        /\ paid' = [paid EXCEPT ![i] = 0] /\ UNCHANGED <<taken, byHand>>
    BY <1>2 DEF Erase
  <1>5. phase'[s] = "idle"
    BY <1>1, <1>3 DEF Leave
  <1>6. \A k \in Sales : /\ Unmarked(k) <=> phase[s] \in {"sum", "mark"} /\ job[s].id = k
                         /\ Unmarked(k)' <=> phase'[s] \in {"sum", "mark"} /\ job'[s].id = k
    BY <1>1, AtOneDebt
  <1>7. /\ standing'[i] = "none" /\ paid'[i] = 0 /\ payments'[i] = {}
        /\ DOMAIN due' = Sales /\ DOMAIN taken' = Sales
        /\ \A k \in Sales \ {i} : SameDebt(k)
    <2>1. standing'[i] = "none" /\ paid'[i] = 0 /\ payments'[i] = {} /\ DOMAIN due' = Sales
      BY <1>3, <1>4
    <2>2. \A k \in Sales \ {i} : SameDebt(k)
      BY <1>3, <1>4 DEF SameDebt
    <2> QED
      BY <1>3, <1>4, <2>1, <2>2
  <1>8. DebtTrue(i)'
    BY <1>3, <1>4, <1>7 DEF DebtTrue, HasDebt
  <1>9. \A k \in Sales \ {i} : DebtTrue(k)'
    BY <1>1, <1>6, <1>7, SameStands DEF DebtsOK
  <1>10. DebtRead(s)'
    BY <1>5 DEF DebtRead
  <1> QED
    BY <1>1, <1>7, <1>8, <1>9, <1>10, RequestDebts

LEMMA GivesUpDebts ==
  ASSUME DebtsOK, Alone, Recorded, CreditOK', NEW s \in Sessions, CreditGivesUp(s)
  PROVE  DebtsOK'
PROOF
  <1>1. Leave(s, phase[s]) /\ phase[s] # "idle" /\ UNCHANGED debt
    BY DEF CreditGivesUp, Abandon
  <1>2. /\ DOMAIN phase = Sessions /\ DOMAIN due = Sales /\ DOMAIN taken = Sales
    BY DEF DebtsOK, CreditOK, Shaped
  <1>3. phase'[s] = "idle"
    BY <1>1, <1>2 DEF Leave
  <1>4. CASE phase[s] = "mark"
    BY <1>4, MarkDebts DEF Recorded
  <1>5. CASE phase[s] # "mark"
    <2>1. phase[s] \notin {"sum", "mark"}
      BY <1>3, <1>5 DEF Recorded
    <2>2. \A k \in Sales : Unmarked(k) <=> phase[s] \in {"sum", "mark"} /\ job[s].id = k
      BY <1>1, AtOneDebt
    <2>3. \A k \in Sales : SameDebt(k) /\ ~Unmarked(k)
      BY <1>1, <2>1, <2>2 DEF SameDebt, debt
    <2>4. \A k \in Sales : DebtTrue(k)'
      BY <2>3, SameStands DEF DebtsOK
    <2>5. DebtRead(s)'
      BY <1>3 DEF DebtRead
    <2>6. DOMAIN due' = Sales /\ DOMAIN taken' = Sales
      BY <1>1, <1>2 DEF debt
    <2> QED
      BY <1>1, <2>4, <2>5, <2>6, RequestDebts
  <1> QED
    BY <1>4, <1>5

------------------------------------------------------------------------------
LEMMA MovesAreSteps == CreditMoves => CreditNext
  BY DEF CreditMoves, CreditNext, AtStake

LEMMA PointsSteps == ASSUME PointsOK, CreditNext, Alone PROVE PointsOK'
PROOF
  <1>1. CreditOK'
    BY CreditSteps DEF PointsOK
  <1> QED
    BY <1>1, SellPoints, SettlePoints, ErasePoints, OthersPoints, RequestsPoints DEF CreditNext

LEMMA DebtsSteps == ASSUME DebtsOK, CreditNext, Alone, Recorded PROVE DebtsOK'
PROOF
  <1>1. CreditOK'
    BY CreditSteps DEF DebtsOK
  <1> QED
    BY <1>1, DirectDebts, ListedDebts, LookingDebts, PaymentDebts, MarkDebts, SettleDebts,
       EraseDebts, GivesUpDebts DEF CreditNext

LEMMA PointsStart == ASSUME CreditInit PROVE PointsOK
PROOF
  <1>1. /\ ledger = [i \in Sales |-> 0] /\ balance = OpeningPoints /\ waived = 0
        /\ receipt = [i \in Sales |-> NoReceipt] /\ \A s \in Sessions : phase[s] = "idle"
    BY DEF CreditInit, DeskInit
  <1>2. SumFunctionOnSet(ledger, Sales) = 0
    BY <1>1, SumZero, SalesAssumption
  <1>3. OpeningPoints \in Nat
    BY SalesAssumption
  <1>4. PointsTrue
    BY <1>1, <1>2, <1>3, HalfIsSmall DEF PointsTrue, PointsAddUp, PointsNotOverspent, SumFunction
  <1> QED
    BY <1>1, <1>4, CreditStarts DEF PointsOK, AtTheCustomer, PointsRead

LEMMA DebtsStart == ASSUME CreditInit PROVE DebtsOK
PROOF
  <1>1. /\ due = [i \in Sales |-> "none"] /\ taken = [i \in Sales |-> 0] /\ paid = [i \in Sales |-> 0]
        /\ payments = [i \in Sales |-> {}] /\ standing = [i \in Sales |-> "none"]
        /\ \A s \in Sessions : phase[s] = "idle"
    BY DEF CreditInit, DeskInit
  <1> QED
    BY <1>1, CreditStarts DEF DebtsOK, DebtTrue, HasDebt, AtTheCustomer, DebtRead

LEMMA DebtsHold == ASSUME DebtsOK, AtRest PROVE DebtCapped /\ StandingTrue
  BY DEF DebtsOK, DebtTrue, DebtCapped, StandingTrue, AtRest, Unmarked, Stands

LEMMA DebtsRest == ASSUME DebtsOK, UNCHANGED creditVars PROVE DebtsOK'
PROOF
  <1>1. CreditOK'
    BY CreditSteps DEF DebtsOK
  <1> QED
    BY <1>1 DEF DebtsOK, DebtTrue, HasDebt, Unmarked, DebtRead, AtTheCustomer, creditVars, debt, desk

LEMMA PointsRest == ASSUME PointsOK, UNCHANGED creditVars PROVE PointsOK'
PROOF
  <1>1. CreditOK'
    BY CreditSteps DEF PointsOK
  <1>2. PointsTrue'
    BY PointsStay DEF PointsOK, creditVars, points, order
  <1> QED
    BY <1>1, <1>2 DEF PointsOK, AtTheCustomer, PointsRead, creditVars, points, desk

\* One request at a time, a payment always followed by its status, for any sales,
\* debts and payments: whenever nobody is at work, no debt that people left alone is
\* paid beyond its amount, and each is called what its amounts and its due date make
\* it (debt.service.ts).
THEOREM DebtsStandThm ==
  CreditInit /\ [][CreditNext /\ Alone /\ Recorded]_creditVars
    => [](AtRest => DebtCapped /\ StandingTrue)
PROOF
  <1>1. CreditInit => DebtsOK
    BY DebtsStart
  <1>2. DebtsOK /\ [CreditNext /\ Alone /\ Recorded]_creditVars => DebtsOK'
    BY DebtsSteps, DebtsRest
  <1>3. DebtsOK => (AtRest => DebtCapped /\ StandingTrue)
    BY DebtsHold
  <1> QED
    BY <1>1, <1>2, <1>3, PTL

\* One request at a time, for any sales, on credit or not: the balance of points is
\* what the ledger rows come to and what deletions waived, and rounding alone takes
\* it below nothing, by no more than half a so'm (loyalty.service.ts).
THEOREM PointsAddUpThm ==
  CreditInit /\ [][CreditNext /\ Alone]_creditVars => [](PointsAddUp /\ PointsNotOverspent)
PROOF
  <1>1. CreditInit => PointsOK
    BY PointsStart
  <1>2. PointsOK /\ [CreditNext /\ Alone]_creditVars => PointsOK'
    BY PointsSteps, PointsRest
  <1>3. PointsOK => PointsAddUp /\ PointsNotOverspent
    BY DEF PointsOK, PointsTrue
  <1> QED
    BY <1>1, <1>2, <1>3, PTL

\* One request of a customer at a time, a payment always followed by its
\* status: debts are never paid beyond their amount and say the status the
\* amounts call for; the balance of points is what its ledger says, and only
\* rounding takes it below nothing (debt.service.ts, loyalty.service.ts).
THEOREM AloneCustomersThm == MCSpec => []AloneCustomersTrue
PROOF
  <1> DEFINE D == /\ load = "credit alone" => DebtsOK
                  /\ load = "credit points" => PointsOK
  <1>1. MCInit => D
    BY DebtsStart, PointsStart DEF MCInit
  <1>2. D /\ [MCNext]_<<credits, drawers, payroll, books, desk, load>> => D'
    <2> SUFFICES ASSUME D, [MCNext]_<<credits, drawers, payroll, books, desk, load>> PROVE D'
      OBVIOUS
    <2>1. load' = load
      BY DEF MCNext
    <2>2. ASSUME load = "credit alone" PROVE DebtsOK'
      <3>1. DebtsOK
        BY <2>2
      <3>2. CASE MCNext
        <4>1. CreditMoves /\ CreditStep
          BY <2>2, <3>2 DEF MCNext
        <4> QED
          BY <2>2, <3>1, <4>1, MovesAreSteps, DebtsSteps DEF CreditStep
      <3>3. CASE UNCHANGED <<credits, drawers, payroll, books, desk, load>>
        BY <3>1, <3>3, DebtsRest DEF credits, creditVars
      <3> QED
        BY <3>2, <3>3
    <2>3. ASSUME load = "credit points" PROVE PointsOK'
      <3>1. PointsOK
        BY <2>3
      <3>2. CASE MCNext
        <4>1. CreditMoves /\ CreditStep
          BY <2>3, <3>2 DEF MCNext
        <4> QED
          BY <2>3, <3>1, <4>1, MovesAreSteps, PointsSteps DEF CreditStep
      <3>3. CASE UNCHANGED <<credits, drawers, payroll, books, desk, load>>
        BY <3>1, <3>3, PointsRest DEF credits, creditVars
      <3> QED
        BY <3>2, <3>3
    <2> QED
      BY <2>1, <2>2, <2>3
  <1>3. D => AloneCustomersTrue
    BY DebtsHold DEF AloneCustomersTrue, PointsOK, PointsTrue
  <1> QED
    BY <1>1, <1>2, <1>3, PTL DEF MCSpec

------------------------------------------------------------------------------
\* Goods are a loss once.

New(all) == {k \in DOMAIN all : all[k].source # "opening"}
NewLeft(all) == SumFunctionOnSet(Lefts(all), New(all))
NoOpening(all) == \A k \in DOMAIN all : all[k].source # "opening"

UnitsOut(all) == [n \in DOMAIN all |-> all[n].units]
StillOut(all) == {n \in DOMAIN all : ~all[n].undone}
Out(all) == SumFunctionOnSet(UnitsOut(all), StillOut(all))

\* What was booked, and what may still be, came in.
LossOK == /\ booked + NewLeft(defects) <= broken
          /\ NoOpening(defects) => booked + NewLeft(defects) + Out(handOvers) <= broken

LEMMA LeftsAre ==
  ASSUME DefectsTyped
  PROVE  /\ IsFiniteSet(New(defects)) /\ New(defects) \subseteq DOMAIN defects
         /\ \A k \in DOMAIN defects : Lefts(defects)[k] = defects[k].left /\ Lefts(defects)[k] \in Nat
         /\ \A set \in SUBSET DOMAIN defects : DefectsIn(set) = SumFunctionOnSet(Lefts(defects), set)
         /\ NewLeft(defects) \in Nat
PROOF
  <1>1. /\ New(defects) \in SUBSET DOMAIN defects
        /\ \A set \in SUBSET DOMAIN defects : IsFiniteSet(set)
        /\ \A k \in DOMAIN defects : Lefts(defects)[k] = defects[k].left /\ Lefts(defects)[k] \in Nat
    BY DefectsInPlace DEF New, Lefts
  <1>2. ASSUME NEW set \in SUBSET DOMAIN defects
        PROVE  DefectsIn(set) = SumFunctionOnSet(Lefts(defects), set)
    <2> DEFINE g == [k \in set |-> defects[k].left]
    <2>1. DOMAIN g = set /\ \A k \in set : g[k] = Lefts(defects)[k]
      BY <1>1
    <2> HIDE DEF g
    <2>2. SumFunctionOnSet(g, set) = SumFunctionOnSet(Lefts(defects), set)
      BY <1>1, <2>1, SumEqual
    <2> QED
      BY <2>1, <2>2 DEF DefectsIn, SumFunction, g
  <1>3. NewLeft(defects) \in Nat
    BY <1>1, SumNat DEF NewLeft
  <1> QED
    BY <1>1, <1>2, <1>3

LEMMA LossDrawn ==
  ASSUME DefectsTyped, NEW b, NEW q \in Nat, TakeFromStore(b, q)
  PROVE  /\ Loss(b, q) \in Nat /\ NewLeft(defects') = NewLeft(defects) - Loss(b, q)
         /\ NoOpening(defects) => Loss(b, q) = q
         /\ NoOpening(defects') <=> NoOpening(defects)
PROOF
  <1> DEFINE t == [k \in DOMAIN defects |-> TakeDefect(k, b, q)]
             f == Lefts(defects)
             N == New(defects)
             B == {k \in InStore(b) : defects[k].source # "opening"}
  <1>1. /\ DOMAIN defects' = DOMAIN defects
        /\ \A k \in DOMAIN defects : /\ defects'[k].left = defects[k].left - TakeDefect(k, b, q)
                                     /\ defects'[k].source = defects[k].source
    BY DefectsDrawn
  <1>2. /\ IsFiniteSet(N) /\ N \subseteq DOMAIN defects
        /\ \A k \in DOMAIN defects : f[k] = defects[k].left /\ f[k] \in Nat
        /\ \A set \in SUBSET DOMAIN defects : DefectsIn(set) = SumFunctionOnSet(f, set)
    BY LeftsAre
  <1>3. \A k \in DOMAIN defects : t[k] = TakeDefect(k, b, q) /\ t[k] \in Nat /\ t[k] \in 0..f[k]
                                  /\ (k \notin InStore(b) => t[k] = 0)
    BY <1>2, DefectTaken
  <1>4. N = New(defects') /\ (NoOpening(defects') <=> NoOpening(defects))
    BY <1>1 DEF New, NoOpening
  <1>5. /\ B \subseteq N /\ IsFiniteSet(B) /\ IsFiniteSet(N \ B) /\ N = B \cup (N \ B)
        /\ \A k \in N \ B : k \notin InStore(b)
    <2>1. B \subseteq N
      BY DEF InStore, New
    <2>2. \A k \in N \ B : k \notin InStore(b)
      BY DEF New
    <2> HIDE DEF B, N
    <2> QED
      BY <1>2, <2>1, <2>2, FS_Subset
  <1>6. Loss(b, q) = SumFunctionOnSet(t, B)
    <2> DEFINE g == [k \in B |-> TakeDefect(k, b, q)]
    <2>1. DOMAIN g = B /\ Loss(b, q) = SumFunction(g)
      BY DEF Loss
    <2>2. \A k \in B : g[k] = t[k]
      BY <1>2, <1>3, <1>5
    <2> HIDE DEF g, B, t
    <2> QED
      BY <1>5, <2>1, <2>2, SumEqual DEF SumFunction
  <1> HIDE DEF t, f
  <1>7. SumFunctionOnSet(t, N) = SumFunctionOnSet(t, B)
    <2> HIDE DEF B, N
    <2>1. SumFunctionOnSet(t, N \ B) = 0
      BY <1>2, <1>3, <1>5, SumZero
    <2>2. B \cap (N \ B) = {} /\ \A k \in B \cup (N \ B) : t[k] \in Int
      BY <1>2, <1>3, <1>5
    <2>3. SumFunctionOnSet(t, B \cup (N \ B)) = SumFunctionOnSet(t, B) + SumFunctionOnSet(t, N \ B)
      BY <1>5, <2>2, SumUnion
    <2>4. SumFunctionOnSet(t, B) \in Nat
      BY <1>2, <1>3, <1>5, SumNat
    <2> QED
      BY <1>5, <2>1, <2>3, <2>4
  <1>8. SumFunctionOnSet(f, N) = SumFunctionOnSet(Lefts(defects'), N) + SumFunctionOnSet(t, N)
    <2> DEFINE g == Lefts(defects')
    <2>1. \A k \in N : g[k] = f[k] - t[k]
      BY <1>1, <1>2, <1>3 DEF Lefts
    <2> HIDE DEF g, N
    <2>2. \A k \in N : f[k] \in Nat /\ t[k] \in 0..f[k]
      BY <1>2, <1>3
    <2>3. \A k \in N : g[k] \in Int /\ t[k] \in Int /\ f[k] = g[k] + t[k]
      BY <2>1, <2>2
    <2>4. SumFunctionOnSet(f, N) = SumFunctionOnSet(g, N) + SumFunctionOnSet(t, N)
      BY <1>2, <2>3, SumPlus
    <2> QED
      BY <2>4 DEF g
  <1>9. Loss(b, q) \in Nat
    BY LossIsNumber
  <1>10. SumFunctionOnSet(Lefts(defects'), N) \in Int
    <2>1. \A k \in N : Lefts(defects')[k] \in Int
      <3>1. \A k \in N : Lefts(defects')[k] = f[k] - t[k]
        BY <1>1, <1>2, <1>3 DEF Lefts
      <3>2. \A k \in N : f[k] \in Int /\ t[k] \in Int
        BY <1>2, <1>3
      <3> QED
        BY <3>1, <3>2
    <2> HIDE DEF N
    <2> QED
      BY <1>2, <2>1, SumInt
  <1>11. NewLeft(defects') = NewLeft(defects) - Loss(b, q)
    BY <1>4, <1>6, <1>7, <1>8, <1>9, <1>10 DEF NewLeft, f
  <1>12. ASSUME NoOpening(defects)
         PROVE  Loss(b, q) = q
    <2> DEFINE S == InStore(b)
    <2>1. B = S /\ S \in SUBSET DOMAIN defects /\ S \in SUBSET (1..Len(defects)) /\ Len(defects) \in Nat
      BY <1>12, DefectsInPlace DEF NoOpening
    <2>2. \A k \in S : f[k] \in Nat
      BY <1>2, <2>1
    <2>3. \A k \in S : t[k] = Least(f[k], OrZero(q - SumFunctionOnSet(f, {j \in S : j < k})))
      <3> TAKE k \in S
      <3>1. {j \in S : j < k} \in SUBSET DOMAIN defects
        BY <2>1
      <3>2. DefectsIn({j \in S : j < k}) = SumFunctionOnSet(f, {j \in S : j < k})
        BY <1>2, <3>1
      <3> QED
        BY <1>2, <1>3, <2>1, <3>2 DEF TakeDefect
    <2>4. q <= SumFunctionOnSet(f, S) /\ SumFunctionOnSet(f, S) \in Nat
      <3>1. DefectsIn(S) = SumFunctionOnSet(f, S) /\ q <= Defective(b) /\ Defective(b) \in Nat
        BY <1>2, <2>1, DefectsInPlace DEF TakeFromStore
      <3> QED
        BY <3>1 DEF Defective
    <2> HIDE DEF S
    <2>5. SumFunctionOnSet(t, S) = Least(q, SumFunctionOnSet(f, S))
      BY <2>1, <2>2, <2>3, TakenInAll
    <2> QED
      BY <1>6, <2>1, <2>4, <2>5 DEF Least
  <1> QED
    BY <1>4, <1>9, <1>11, <1>12

LEMMA LossPut ==
  ASSUME DefectsTyped, NEW b \in Branches, NEW q \in Nat,
         NEW source \in {"shelf", "customer_return", "opening", "supplier_cancel"},
         PutInStore(b, q, source)
  PROVE  /\ source # "opening" => /\ NewLeft(defects') = NewLeft(defects) + q
                                  /\ NoOpening(defects') <=> NoOpening(defects)
         /\ source = "opening" => NewLeft(defects') = NewLeft(defects) /\ ~NoOpening(defects')
PROOF
  <1> DEFINE a == Len(defects) + 1
             N == New(defects)
             f == Lefts(defects)
             g == Lefts(defects')
  <1>1. /\ Len(defects) \in Nat /\ DOMAIN defects = 1..Len(defects)
        /\ DOMAIN defects' = 1..a
        /\ \A k \in DOMAIN defects : defects'[k] = defects[k]
        /\ defects'[a] = [branch |-> b, left |-> q, source |-> source]
    BY DefectsPut
  <1>2. /\ IsFiniteSet(N) /\ N \subseteq DOMAIN defects
        /\ \A k \in DOMAIN defects : f[k] = defects[k].left /\ f[k] \in Nat
    BY LeftsAre
  <1>3. /\ a \notin DOMAIN defects /\ a \in DOMAIN defects'
        /\ \A k \in DOMAIN defects' : k \in DOMAIN defects \/ k = a
        /\ \A k \in DOMAIN defects : k \in DOMAIN defects'
    BY <1>1
  <1>4. defects'[a].left = q /\ defects'[a].source = source
    BY <1>1
  <1> HIDE DEF a
  <1>5. \A k \in DOMAIN defects : g[k] = f[k]
    BY <1>1, <1>3, <1>2 DEF Lefts
  <1>6. g[a] = q
    BY <1>3, <1>4 DEF Lefts
  <1> HIDE DEF f, g
  <1>7. SumFunctionOnSet(g, N) = SumFunctionOnSet(f, N)
    BY <1>2, <1>5, SumEqual
  <1>8. CASE source # "opening"
    <2>1. New(defects') = N \cup {a} /\ a \notin N
      BY <1>1, <1>2, <1>3, <1>4, <1>8 DEF New
    <2>2. \A k \in N \cup {a} : g[k] \in Int
      BY <1>2, <1>5, <1>6
    <2>3. SumFunctionOnSet(g, N \cup {a}) = SumFunctionOnSet(g, N) + g[a]
      BY <1>2, <2>1, <2>2, SumAdd
    <2>4. NoOpening(defects') <=> NoOpening(defects)
      BY <1>1, <1>3, <1>4, <1>8 DEF NoOpening
    <2> QED
      BY <1>6, <1>7, <1>8, <2>1, <2>3, <2>4 DEF NewLeft, f, g
  <1>9. CASE source = "opening"
    <2>1. New(defects') = N /\ ~NoOpening(defects')
      BY <1>1, <1>2, <1>3, <1>4, <1>9 DEF New, NoOpening
    <2> QED
      BY <1>7, <1>9, <2>1 DEF NewLeft, f, g
  <1> QED
    BY <1>8, <1>9

\* Opening stock is never handed over and taken back: where some came in, no
\* hand-over is undone.
OpeningNotUndone == NoOpening(defects) \/ \A n \in DOMAIN handOvers : ~handOvers[n].undone

LEMMA OutIs ==
  ASSUME handOvers \in Seq(HandOverSet)
  PROVE  /\ IsFiniteSet(StillOut(handOvers)) /\ StillOut(handOvers) \subseteq DOMAIN handOvers
         /\ \A n \in DOMAIN handOvers : UnitsOut(handOvers)[n] = handOvers[n].units
                                        /\ UnitsOut(handOvers)[n] \in Nat
         /\ Out(handOvers) \in Nat
PROOF
  <1>1. DOMAIN handOvers = 1..Len(handOvers) /\ Len(handOvers) \in Nat
    OBVIOUS
  <1>2. IsFiniteSet(DOMAIN handOvers)
    BY <1>1, FS_Interval
  <1>3. StillOut(handOvers) \subseteq DOMAIN handOvers
    BY DEF StillOut
  <1>4. IsFiniteSet(StillOut(handOvers))
    BY <1>2, <1>3, FS_Subset
  <1>5. \A n \in DOMAIN handOvers : handOvers[n] \in HandOverSet
    OBVIOUS
  <1>6. \A n \in DOMAIN handOvers : UnitsOut(handOvers)[n] = handOvers[n].units
                                    /\ UnitsOut(handOvers)[n] \in Nat
    BY <1>5 DEF UnitsOut, HandOverSet
  <1> QED
    BY <1>3, <1>4, <1>6, SumNat DEF Out

LEMMA OutGrows ==
  ASSUME handOvers \in Seq(HandOverSet), NEW way, NEW r, NEW p, NEW b, NEW q \in Nat, NEW value,
         NEW row, HandOver(way, r, p, b, q, value, row)
  PROVE  Out(handOvers') = Out(handOvers) + q
PROOF
  <1> DEFINE h == [way |-> way, note |-> r, supplier |-> p, branch |-> b, units |-> q,
                   value |-> value, row |-> row, undone |-> FALSE]
             a == Len(handOvers) + 1
             S == StillOut(handOvers)
             f == UnitsOut(handOvers)
             g == UnitsOut(handOvers')
  <1>1. handOvers' = Append(handOvers, h) /\ h.units = q /\ h.undone = FALSE
    BY DEF HandOver
  <1> HIDE DEF h
  <1>2. /\ DOMAIN handOvers = 1..Len(handOvers) /\ Len(handOvers) \in Nat
        /\ DOMAIN handOvers' = 1..a
        /\ \A n \in DOMAIN handOvers : handOvers'[n] = handOvers[n]
        /\ handOvers'[a] = h
    BY <1>1
  <1>3. /\ IsFiniteSet(S) /\ S \subseteq DOMAIN handOvers
        /\ \A n \in DOMAIN handOvers : f[n] = handOvers[n].units /\ f[n] \in Nat
    BY OutIs
  <1>4. /\ a \notin DOMAIN handOvers /\ a \in DOMAIN handOvers'
        /\ \A k \in DOMAIN handOvers' : k \in DOMAIN handOvers \/ k = a
        /\ \A k \in DOMAIN handOvers : k \in DOMAIN handOvers'
    BY <1>2
  <1> HIDE DEF a
  <1>5. \A n \in DOMAIN handOvers : g[n] = f[n]
    BY <1>2, <1>3, <1>4 DEF UnitsOut
  <1>6. g[a] = q
    BY <1>1, <1>2, <1>4 DEF UnitsOut
  <1>7. StillOut(handOvers') = S \cup {a} /\ a \notin S
    BY <1>1, <1>2, <1>3, <1>4 DEF StillOut
  <1> HIDE DEF f, g, S
  <1>8. SumFunctionOnSet(g, S) = SumFunctionOnSet(f, S)
    BY <1>3, <1>5, SumEqual
  <1>9. \A n \in S \cup {a} : g[n] \in Int
    BY <1>3, <1>5, <1>6
  <1>10. SumFunctionOnSet(g, S \cup {a}) = SumFunctionOnSet(g, S) + g[a]
    BY <1>3, <1>7, <1>9, SumAdd
  <1> QED
    BY <1>6, <1>7, <1>8, <1>10 DEF Out, f, g, S

LEMMA OutShrinks ==
  ASSUME handOvers \in Seq(HandOverSet), NEW n \in DOMAIN handOvers, ~handOvers[n].undone,
         handOvers' = [handOvers EXCEPT ![n].undone = TRUE]
  PROVE  /\ Out(handOvers') = Out(handOvers) - handOvers[n].units /\ handOvers[n].units \in Nat
         /\ Out(handOvers') \in Nat
PROOF
  <1> DEFINE S == StillOut(handOvers)
             f == UnitsOut(handOvers)
             g == UnitsOut(handOvers')
  <1>1. /\ IsFiniteSet(S) /\ S \subseteq DOMAIN handOvers
        /\ \A m \in DOMAIN handOvers : f[m] = handOvers[m].units /\ f[m] \in Nat
    BY OutIs
  <1>2. \A m \in DOMAIN handOvers : handOvers[m] \in HandOverSet
    OBVIOUS
  <1>3. /\ DOMAIN handOvers' = DOMAIN handOvers
        /\ \A m \in DOMAIN handOvers : handOvers'[m].units = handOvers[m].units
        /\ \A m \in DOMAIN handOvers \ {n} : handOvers'[m].undone = handOvers[m].undone
        /\ handOvers'[n].undone = TRUE
    BY <1>2 DEF HandOverSet
  <1>4. n \in S /\ StillOut(handOvers') = S \ {n}
    BY <1>3 DEF StillOut
  <1>5. \A m \in DOMAIN handOvers : g[m] = f[m]
    BY <1>1, <1>3 DEF UnitsOut
  <1>10. f[n] = handOvers[n].units /\ f[n] \in Nat
    BY <1>1
  <1>12. Out(handOvers) = SumFunctionOnSet(f, S) /\ Out(handOvers') = SumFunctionOnSet(g, S \ {n})
    BY <1>4 DEF Out
  <1> HIDE DEF f, g, S
  <1>6. IsFiniteSet(S \ {n}) /\ \A m \in S \ {n} : g[m] = f[m]
    BY <1>1, <1>5, FS_Subset
  <1>7. SumFunctionOnSet(g, S \ {n}) = SumFunctionOnSet(f, S \ {n})
    BY <1>6, SumEqual
  <1>8. \A m \in S : f[m] \in Nat /\ f[m] \in Int
    BY <1>1
  <1>9. SumFunctionOnSet(f, S) = f[n] + SumFunctionOnSet(f, S \ {n})
    BY <1>1, <1>4, <1>8, SumRemove
  <1>11. SumFunctionOnSet(f, S \ {n}) \in Nat
    BY <1>6, <1>8, SumNat
  <1> QED
    BY <1>7, <1>9, <1>10, <1>11, <1>12

LEMMA LossSteps ==
  ASSUME SupplyOK, LossOK, OpeningNotUndone', [StoreNext]_storeVars
  PROVE  LossOK'
PROOF
  <1> DEFINE l == NewLeft(defects)
             o == Out(handOvers)
             p == NoOpening(defects)
  <1>1. DefectsTyped /\ handOvers \in Seq(HandOverSet) /\ booked \in Int /\ broken \in Int
    BY DEF SupplyOK, StoreTyped, DefectsTyped
  <1>2. l \in Nat /\ o \in Nat /\ p \in BOOLEAN
    BY <1>1, LeftsAre, OutIs DEF NoOpening
  <1>3. booked + l <= broken /\ (p => booked + l + o <= broken)
    BY DEF LossOK
  <1>4. Cuts \subseteq Nat
    BY DeliveryAssumption
  <1>5. CASE UNCHANGED <<defects, handOvers, booked, broken>>
    BY <1>5 DEF LossOK
  <1>6. CASE FromShelf \/ FromCustomer
    <2>1. PICK b \in Branches, q \in Cuts, source \in {"shelf", "customer_return"} :
            PutInStore(b, q, source) /\ broken' = broken + q /\ UNCHANGED <<handOvers, booked>>
      BY <1>6 DEF FromShelf, FromCustomer
    <2>2. q \in Nat
      BY <1>4
    <2>3. NewLeft(defects') = l + q /\ (NoOpening(defects') <=> p)
      BY <1>1, <2>1, <2>2, LossPut
    <2> HIDE DEF l, o, p
    <2> QED
      BY <1>1, <1>2, <1>3, <2>1, <2>2, <2>3 DEF LossOK, o
  <1>7. CASE OpeningStore
    <2>1. PICK b \in Branches, q \in Cuts :
            PutInStore(b, q, "opening") /\ UNCHANGED <<handOvers, booked, broken>>
      BY <1>7 DEF OpeningStore
    <2>2. q \in Nat
      BY <1>4
    <2>3. NewLeft(defects') = l /\ ~NoOpening(defects')
      BY <1>1, <2>1, <2>2, LossPut
    <2> QED
      BY <1>3, <2>1, <2>3 DEF LossOK
  <1>8. CASE WriteOff
    <2>1. PICK b \in Branches, q \in Cuts :
            TakeFromStore(b, q) /\ booked' = booked + Loss(b, q) /\ UNCHANGED <<handOvers, broken>>
      BY <1>8 DEF WriteOff
    <2>2. q \in Nat
      BY <1>4
    <2>3. Loss(b, q) \in Nat /\ NewLeft(defects') = l - Loss(b, q) /\ (NoOpening(defects') <=> p)
      BY <1>1, <2>1, <2>2, LossDrawn
    <2> HIDE DEF l, o, p
    <2> QED
      BY <1>1, <1>2, <1>3, <2>1, <2>3 DEF LossOK, o
  <1>9. CASE BackOnShelf
    <2>1. PICK b \in Branches, q \in Cuts :
            TakeFromStore(b, q) /\ UNCHANGED <<handOvers, booked, broken>>
      BY <1>9 DEF BackOnShelf
    <2>2. q \in Nat
      BY <1>4
    <2>3. Loss(b, q) \in Nat /\ NewLeft(defects') = l - Loss(b, q) /\ (NoOpening(defects') <=> p)
      BY <1>1, <2>1, <2>2, LossDrawn
    <2> HIDE DEF l, o, p
    <2> QED
      BY <1>1, <1>2, <1>3, <2>1, <2>3 DEF LossOK, o
  <1>10. ASSUME NEW way, NEW r, NEW s, NEW b, NEW q \in Nat, NEW value, NEW row,
                HandOver(way, r, s, b, q, value, row)
         PROVE  LossOK'
    <2>1. TakeFromStore(b, q) /\ UNCHANGED <<booked, broken>>
      BY <1>10 DEF HandOver
    <2>2. /\ Loss(b, q) \in Nat /\ NewLeft(defects') = l - Loss(b, q) /\ (NoOpening(defects') <=> p)
          /\ p => Loss(b, q) = q
      BY <1>1, <2>1, LossDrawn
    <2>3. Out(handOvers') = o + q
      BY <1>1, <1>10, OutGrows
    <2> HIDE DEF l, o, p
    <2> QED
      BY <1>1, <1>2, <1>3, <2>1, <2>2, <2>3 DEF LossOK
  <1>11. CASE HandOverForCredit \/ HandOverForCash
    BY <1>4, <1>10, <1>11 DEF HandOverForCredit, HandOverForCash
  <1>12. ASSUME NEW s \in Sessions, HandOverOffDebt(s)
         PROVE  LossOK'
    <2>1. job[s].units \in Nat
      BY <1>12, HeldBy DEF HandOverOffDebt, SupplyOK
    <2>2. HandOver("debt", job[s].note, seen[s].supplier, job[s].branch, job[s].units, job[s].units, 0)
      BY <1>12 DEF HandOverOffDebt
    <2> QED
      BY <1>10, <2>1, <2>2
  <1>13. CASE UndoHandOver
    <2>1. PICK n \in DOMAIN handOvers :
            /\ ~handOvers[n].undone
            /\ PutInStore(handOvers[n].branch, handOvers[n].units, "supplier_cancel")
            /\ handOvers' = [handOvers EXCEPT ![n].undone = TRUE]
            /\ UNCHANGED <<booked, broken>>
      BY <1>13 DEF UndoHandOver
    <2> DEFINE u == handOvers[n].units
    <2>2. Out(handOvers') = o - u /\ u \in Nat /\ Out(handOvers') \in Nat
      BY <1>1, <2>1, OutShrinks
    <2>3. handOvers[n] \in HandOverSet
      BY <1>1
    <2>4. handOvers[n].branch \in Branches
      BY <2>3 DEF HandOverSet
    <2>5. NewLeft(defects') = l + u /\ (NoOpening(defects') <=> p)
      BY <1>1, <2>1, <2>2, <2>4, LossPut
    <2>6. n \in DOMAIN handOvers' /\ handOvers'[n].undone
      BY <2>1, <2>3 DEF HandOverSet
    <2>7. p
      BY <2>5, <2>6 DEF OpeningNotUndone
    <2> HIDE DEF l, o, p, u
    <2> QED
      BY <1>1, <1>2, <1>3, <2>1, <2>2, <2>5, <2>7 DEF LossOK
  <1>14. CASE \/ Deliver \/ UNCHANGED storeVars \/ \E s \in Sessions : LookToHandOver(s)
    BY <1>5, <1>14 DEF Deliver, storeVars, store, LookToHandOver
  <1> QED
    BY <1>6, <1>7, <1>8, <1>9, <1>11, <1>12, <1>13, <1>14 DEF StoreNext, DefectsNext

LEMMA LossStart == ASSUME StoreInit PROVE LossOK
PROOF
  <1>1. defects = <<>> /\ handOvers = <<>> /\ booked = 0 /\ broken = 0
    BY DEF StoreInit
  <1>2. New(defects) = {} /\ StillOut(handOvers) = {}
    BY <1>1 DEF New, StillOut
  <1>3. NewLeft(defects) = 0 /\ Out(handOvers) = 0
    BY <1>2, SumEmpty DEF NewLeft, Out
  <1> QED
    BY <1>1, <1>3 DEF LossOK

\* Goods are a loss once, as long as no opening stock is handed over and taken
\* back: such units come back as if they had not been a loss.
THEOREM LossBookedOnceThm == StoreSpec /\ []OpeningNotUndone => []LossBookedOnce
PROOF
  <1>1. SupplyOK /\ LossOK => LossBookedOnce
    <2> SUFFICES ASSUME SupplyOK, LossOK
                 PROVE  booked <= broken
      BY DEF LossBookedOnce
    <2>1. NewLeft(defects) \in Nat /\ booked \in Int /\ broken \in Int
      BY LeftsAre DEF SupplyOK, StoreTyped, DefectsTyped
    <2> QED
      BY <2>1 DEF LossOK
  <1>2. StoreInit => SupplyOK /\ LossOK
    BY SupplyStart, LossStart
  <1>3. SupplyOK /\ LossOK /\ OpeningNotUndone' /\ [StoreNext]_storeVars => (SupplyOK /\ LossOK)'
    BY SupplySteps, LossSteps
  <1> QED
    BY <1>1, <1>2, <1>3, PTL DEF StoreSpec

------------------------------------------------------------------------------
\* Units handed over off a debt.

\* The units handed over that stand off a note's debt, and what they come to.
OffDebt(all, r) == {n \in DOMAIN all : all[n].note = r /\ ~all[n].undone}
Values(all) == [n \in DOMAIN all |-> all[n].value]
Handed(all, r) == SumFunctionOnSet(Values(all), OffDebt(all, r))

LEMMA HandedIs ==
  ASSUME handOvers \in Seq(HandOverSet)
  PROVE  /\ \A n \in DOMAIN handOvers : Values(handOvers)[n] = handOvers[n].value
                                        /\ Values(handOvers)[n] \in Nat
         /\ \A r : /\ IsFiniteSet(OffDebt(handOvers, r))
                   /\ OffDebt(handOvers, r) \subseteq DOMAIN handOvers
                   /\ Handed(handOvers, r) \in Nat
PROOF
  <1>1. DOMAIN handOvers = 1..Len(handOvers) /\ Len(handOvers) \in Nat
    OBVIOUS
  <1>2. IsFiniteSet(DOMAIN handOvers)
    BY <1>1, FS_Interval
  <1>3. \A n \in DOMAIN handOvers : handOvers[n] \in HandOverSet
    OBVIOUS
  <1>4. \A n \in DOMAIN handOvers : Values(handOvers)[n] = handOvers[n].value
                                    /\ Values(handOvers)[n] \in Nat
    BY <1>3 DEF Values, HandOverSet
  <1>5. ASSUME NEW r
        PROVE  /\ IsFiniteSet(OffDebt(handOvers, r))
               /\ OffDebt(handOvers, r) \subseteq DOMAIN handOvers
               /\ Handed(handOvers, r) \in Nat
    <2>1. OffDebt(handOvers, r) \subseteq DOMAIN handOvers
      BY DEF OffDebt
    <2>2. IsFiniteSet(OffDebt(handOvers, r))
      BY <1>2, <2>1, FS_Subset
    <2> QED
      BY <1>4, <2>1, <2>2, SumNat DEF Handed
  <1> QED
    BY <1>4, <1>5

LEMMA HandedGrows ==
  ASSUME handOvers \in Seq(HandOverSet), NEW way, NEW r, NEW p, NEW b, NEW q, NEW value \in Nat,
         NEW row, HandOver(way, r, p, b, q, value, row)
  PROVE  \A c : Handed(handOvers', c) = IF c = r THEN Handed(handOvers, c) + value
                                        ELSE Handed(handOvers, c)
PROOF
  <1> DEFINE h == [way |-> way, note |-> r, supplier |-> p, branch |-> b, units |-> q,
                   value |-> value, row |-> row, undone |-> FALSE]
             a == Len(handOvers) + 1
             f == Values(handOvers)
             g == Values(handOvers')
  <1>1. handOvers' = Append(handOvers, h) /\ h.value = value /\ h.undone = FALSE /\ h.note = r
    BY DEF HandOver
  <1> HIDE DEF h
  <1>2. /\ DOMAIN handOvers = 1..Len(handOvers) /\ Len(handOvers) \in Nat
        /\ DOMAIN handOvers' = 1..a
        /\ \A n \in DOMAIN handOvers : handOvers'[n] = handOvers[n]
        /\ handOvers'[a] = h
    BY <1>1
  <1>3. /\ \A n \in DOMAIN handOvers : f[n] = handOvers[n].value /\ f[n] \in Nat
        /\ \A c : /\ IsFiniteSet(OffDebt(handOvers, c))
                  /\ OffDebt(handOvers, c) \subseteq DOMAIN handOvers
    BY HandedIs
  <1>4. /\ a \notin DOMAIN handOvers /\ a \in DOMAIN handOvers'
        /\ \A k \in DOMAIN handOvers' : k \in DOMAIN handOvers \/ k = a
        /\ \A k \in DOMAIN handOvers : k \in DOMAIN handOvers'
    BY <1>2
  <1> HIDE DEF a
  <1>5. (\A n \in DOMAIN handOvers : g[n] = f[n]) /\ g[a] = value
    BY <1>1, <1>2, <1>3, <1>4 DEF Values
  <1> SUFFICES ASSUME NEW c
               PROVE  Handed(handOvers', c) = IF c = r THEN Handed(handOvers, c) + value
                                              ELSE Handed(handOvers, c)
    OBVIOUS
  <1> DEFINE S == OffDebt(handOvers, c)
  <1>6. OffDebt(handOvers', c) = (IF c = r THEN S \cup {a} ELSE S) /\ a \notin S
    BY <1>1, <1>2, <1>3, <1>4 DEF OffDebt
  <1>7. IsFiniteSet(S) /\ S \subseteq DOMAIN handOvers
    BY <1>3
  <1>8. Handed(handOvers, c) = SumFunctionOnSet(f, S)
        /\ Handed(handOvers', c) = SumFunctionOnSet(g, OffDebt(handOvers', c))
    BY DEF Handed
  <1> HIDE DEF f, g, S
  <1>9. SumFunctionOnSet(g, S) = SumFunctionOnSet(f, S)
    BY <1>5, <1>7, SumEqual
  <1>10. \A n \in S \cup {a} : g[n] \in Int
    BY <1>3, <1>5, <1>7
  <1>11. SumFunctionOnSet(g, S \cup {a}) = SumFunctionOnSet(g, S) + g[a]
    BY <1>6, <1>7, <1>10, SumAdd
  <1> QED
    BY <1>5, <1>6, <1>8, <1>9, <1>11

LEMMA HandedShrinks ==
  ASSUME handOvers \in Seq(HandOverSet), NEW n \in DOMAIN handOvers, ~handOvers[n].undone,
         handOvers' = [handOvers EXCEPT ![n].undone = TRUE]
  PROVE  /\ handOvers[n].value \in Nat
         /\ \A c : /\ Handed(handOvers', c) = IF c = handOvers[n].note
                                                THEN Handed(handOvers, c) - handOvers[n].value
                                                ELSE Handed(handOvers, c)
                   /\ Handed(handOvers', c) \in Nat
PROOF
  <1> DEFINE f == Values(handOvers)
             g == Values(handOvers')
  <1>1. /\ \A m \in DOMAIN handOvers : f[m] = handOvers[m].value /\ f[m] \in Nat
        /\ \A c : /\ IsFiniteSet(OffDebt(handOvers, c))
                  /\ OffDebt(handOvers, c) \subseteq DOMAIN handOvers
                  /\ Handed(handOvers, c) \in Nat
    BY HandedIs
  <1>2. \A m \in DOMAIN handOvers : handOvers[m] \in HandOverSet
    OBVIOUS
  <1>3. /\ DOMAIN handOvers' = DOMAIN handOvers
        /\ \A m \in DOMAIN handOvers : /\ handOvers'[m].value = handOvers[m].value
                                       /\ handOvers'[m].note = handOvers[m].note
        /\ \A m \in DOMAIN handOvers \ {n} : handOvers'[m].undone = handOvers[m].undone
        /\ handOvers'[n].undone = TRUE
    BY <1>2 DEF HandOverSet
  <1>4. \A m \in DOMAIN handOvers : g[m] = f[m]
    BY <1>1, <1>3 DEF Values
  <1> SUFFICES ASSUME NEW c
               PROVE  /\ Handed(handOvers', c) = IF c = handOvers[n].note
                                                   THEN Handed(handOvers, c) - handOvers[n].value
                                                   ELSE Handed(handOvers, c)
                      /\ Handed(handOvers', c) \in Nat
    BY <1>1
  <1> DEFINE S == OffDebt(handOvers, c)
  <1>5. /\ OffDebt(handOvers', c) = IF c = handOvers[n].note THEN S \ {n} ELSE S
        /\ c = handOvers[n].note => n \in S
    BY <1>3 DEF OffDebt
  <1>6. IsFiniteSet(S) /\ S \subseteq DOMAIN handOvers /\ f[n] = handOvers[n].value /\ f[n] \in Nat
        /\ IsFiniteSet(S \ {n})
    BY <1>1, FS_RemoveElement
  <1>7. /\ Handed(handOvers, c) = SumFunctionOnSet(f, S) /\ Handed(handOvers, c) \in Nat
        /\ Handed(handOvers', c) = SumFunctionOnSet(g, OffDebt(handOvers', c))
    BY <1>1 DEF Handed
  <1> HIDE DEF f, g, S
  <1>8. \A m \in S : f[m] \in Nat /\ f[m] \in Int /\ g[m] = f[m]
    BY <1>1, <1>4, <1>6
  <1>9. SumFunctionOnSet(g, S \ {n}) = SumFunctionOnSet(f, S \ {n})
        /\ SumFunctionOnSet(g, S) = SumFunctionOnSet(f, S)
    BY <1>6, <1>8, SumEqual
  <1>10. n \in S => SumFunctionOnSet(f, S) = f[n] + SumFunctionOnSet(f, S \ {n})
    BY <1>6, <1>8, SumRemove
  <1>11. SumFunctionOnSet(f, S \ {n}) \in Nat
    BY <1>6, <1>8, SumNat
  <1> QED
    BY <1>5, <1>6, <1>7, <1>9, <1>10, <1>11

\* A draft is only rewritten with nothing paid on it and nothing sent back.
EditsUntouched ==
  \A s \in Sessions :
    EditNote(s) => notes[job[s].note].paid = 0 /\ notes[job[s].note].sentBack = 0

\* A note, and what of its debt was handed over: what was handed over was sent
\* back, and where nothing else was, it and the payments are within the total.
DebtFits(note, handed) ==
  /\ note.status = "none" => note.paid = 0 /\ note.sentBack = 0
  /\ note.status # "none" => /\ note.item # 0 /\ handed <= note.sentBack
                             /\ note.sentBack = handed => note.paid + handed <= note.total
  /\ note.item = 0 => handed = 0

DebtOK == /\ \A r \in Notes : DebtFits(notes[r], Handed(handOvers, r))
          /\ \A n \in DOMAIN handOvers : handOvers[n].way # "debt" => handOvers[n].note = 0

\* Of every note the figures the debt is told by.
FiguresStay ==
  \A r \in Notes :
    /\ (notes'[r].status = "none") = (notes[r].status = "none")
    /\ notes'[r].item = notes[r].item /\ notes'[r].total = notes[r].total
    /\ notes'[r].paid = notes[r].paid /\ notes'[r].sentBack = notes[r].sentBack

LEMMA QuietDebt ==
  ASSUME DebtOK, handOvers' = handOvers, FiguresStay
  PROVE  DebtOK'
  BY DEF DebtOK, DebtFits, FiguresStay, Handed, OffDebt, Values

LEMMA OneNoteDebt ==
  ASSUME NotesTyped, DebtOK, handOvers' = handOvers, NEW r \in Notes, NEW note,
         notes' = [notes EXCEPT ![r] = note], DebtFits(note, Handed(handOvers, r))
  PROVE  DebtOK'
PROOF
  <1>1. \A c \in Notes : Handed(handOvers', c) = Handed(handOvers, c)
                         /\ notes'[c] = (IF c = r THEN note ELSE notes[c])
    BY DEF NotesTyped
  <1>2. \A c \in Notes : DebtFits(notes'[c], Handed(handOvers', c))
    BY <1>1 DEF DebtOK
  <1> QED
    BY <1>2 DEF DebtOK

LEMMA PaysDebt ==
  ASSUME NotesTyped, handOvers \in Seq(HandOverSet), DebtOK, handOvers' = handOvers, NEW new,
         PaysStep(new)
  PROVE  DebtOK'
PROOF
  <1>1. /\ new \in Seq(RemitSet) /\ OnlyPaidMoves
        /\ \A k \in DOMAIN new : notes'[new[k].note].paid = notes[new[k].note].paid + new[k].amount
        /\ \A r \in Notes : (\A k \in DOMAIN new : new[k].note # r) => notes'[r].paid = notes[r].paid
        /\ \A k \in DOMAIN new : /\ notes[new[k].note].status = "received"
                                 /\ new[k].amount <= Owed(new[k].note)
    BY DEF PaysStep
  <1>2. \A c : Handed(handOvers', c) = Handed(handOvers, c) /\ Handed(handOvers, c) \in Nat
    BY HandedIs
  <1>3. ASSUME NEW r \in Notes
        PROVE  DebtFits(notes'[r], Handed(handOvers', r))
    <2> DEFINE h == Handed(handOvers, r)
    <2>1. DebtFits(notes[r], h) /\ h \in Nat /\ Handed(handOvers', r) = h
      BY <1>2 DEF DebtOK
    <2>2. /\ notes'[r].status = notes[r].status /\ notes'[r].item = notes[r].item
          /\ notes'[r].total = notes[r].total /\ notes'[r].sentBack = notes[r].sentBack
      BY <1>1 DEF OnlyPaidMoves
    <2> HIDE DEF h
    <2>3. CASE \A k \in DOMAIN new : new[k].note # r
      <3>1. notes'[r].paid = notes[r].paid
        BY <1>1, <2>3
      <3> QED
        BY <2>1, <2>2, <3>1 DEF DebtFits
    <2>4. ASSUME NEW k \in DOMAIN new, new[k].note = r
          PROVE  DebtFits(notes'[r], Handed(handOvers', r))
      <3>1. new[k] \in RemitSet
        BY <1>1
      <3>2. new[k].amount \in Nat \ {0}
        BY <3>1 DEF RemitSet
      <3>3. notes[r].total \in Nat /\ notes[r].paid \in Nat /\ notes[r].sentBack \in Nat
        BY DEF NotesTyped, NoteSet, NoteFields
      <3>4. /\ notes'[r].paid = notes[r].paid + new[k].amount
            /\ notes[r].status = "received" /\ new[k].amount <= Owed(r)
        BY <1>1, <2>4
      <3> DEFINE x == new[k].amount
      <3> HIDE DEF x
      <3>5. x <= notes[r].total - notes[r].paid - notes[r].sentBack
        BY <3>2, <3>3, <3>4 DEF Owed, OrZero, x
      <3>6. notes'[r].paid = notes[r].paid + x /\ x \in Nat
        BY <3>2, <3>4 DEF x
      <3> QED
        BY <2>1, <2>2, <3>3, <3>4, <3>5, <3>6 DEF DebtFits
    <2> QED
      BY <2>3, <2>4
  <1> QED
    BY <1>3 DEF DebtOK

LEMMA CancelDebt ==
  ASSUME NotesTyped, handOvers \in Seq(HandOverSet), DebtOK, handOvers' = handOvers, NEW n,
         CancelStep(n)
  PROVE  DebtOK'
PROOF
  <1>1. /\ remitted[n] \in RemitSet /\ OnlyPaidMoves
        /\ \A r \in Notes : notes'[r].paid = IF r = remitted[n].note
                                               THEN OrZero(notes[r].paid - remitted[n].amount)
                                               ELSE notes[r].paid
    BY DEF CancelStep
  <1>2. \A c : Handed(handOvers', c) = Handed(handOvers, c) /\ Handed(handOvers, c) \in Nat
    BY HandedIs
  <1>3. ASSUME NEW r \in Notes
        PROVE  DebtFits(notes'[r], Handed(handOvers', r))
    <2> DEFINE h == Handed(handOvers, r)
               x == remitted[n].amount
    <2>1. DebtFits(notes[r], h) /\ h \in Nat /\ Handed(handOvers', r) = h
      BY <1>2 DEF DebtOK
    <2>2. /\ notes'[r].status = notes[r].status /\ notes'[r].item = notes[r].item
          /\ notes'[r].total = notes[r].total /\ notes'[r].sentBack = notes[r].sentBack
      BY <1>1 DEF OnlyPaidMoves
    <2>3. x \in Nat
      BY <1>1 DEF RemitSet
    <2>4. notes[r].total \in Nat /\ notes[r].paid \in Nat /\ notes[r].sentBack \in Nat
      BY DEF NotesTyped, NoteSet, NoteFields
    <2>5. notes'[r].paid = notes[r].paid \/ notes'[r].paid = OrZero(notes[r].paid - x)
      BY <1>1
    <2> HIDE DEF h, x
    <2>6. /\ notes'[r].paid \in Nat /\ notes'[r].paid <= notes[r].paid
      BY <2>3, <2>4, <2>5 DEF OrZero
    <2> QED
      BY <2>1, <2>2, <2>4, <2>6 DEF DebtFits
  <1> QED
    BY <1>3 DEF DebtOK

LEMMA CreateDebt ==
  ASSUME NotesTyped, handOvers \in Seq(HandOverSet), DebtOK, handOvers' = handOvers, CreateNote
  PROVE  DebtOK'
PROOF
  <1>1. PICK r \in Notes, b \in Branches, p \in Suppliers \union {"none"}, q \in Lines,
             draft \in BOOLEAN :
          /\ ~There(r) /\ notes[r].item = 0
          /\ notes' = [notes EXCEPT ![r] =
                   [BlankNote EXCEPT !.status = IF draft THEN "draft" ELSE "received",
                                     !.supplier = p, !.branch = b, !.total = q, !.item = 1]]
          /\ UNCHANGED <<remitted, credit, advanced, books, desk>>
    BY ZenonT(60) DEF CreateNote
  <1> DEFINE note == [BlankNote EXCEPT !.status = IF draft THEN "draft" ELSE "received",
                                       !.supplier = p, !.branch = b, !.total = q, !.item = 1]
  <1>2. note.status # "none" /\ note.item = 1 /\ note.paid = 0 /\ note.sentBack = 0 /\ note.total = q
    BY DEF BlankNote
  <1>3. q \in Nat
    BY DeliveryAssumption
  <1>4. Handed(handOvers, r) = 0
    BY <1>1 DEF DebtOK, DebtFits
  <1>5. notes' = [notes EXCEPT ![r] = note]
    BY <1>1
  <1> HIDE DEF note
  <1>6. DebtFits(note, Handed(handOvers, r))
    BY <1>2, <1>3, <1>4 DEF DebtFits
  <1> QED
    BY <1>5, <1>6, OneNoteDebt

LEMMA RemoveDebt ==
  ASSUME NotesTyped, DeskTyped, handOvers \in Seq(HandOverSet), DebtOK, handOvers' = handOvers,
         NEW s \in Sessions, RemoveNote(s)
  PROVE  DebtOK'
PROOF
  <1> DEFINE r == job[s].note
             note == [BlankNote EXCEPT !.item = notes[r].item]
  <1>1. /\ Leave(s, "reverse") /\ There(r) /\ notes' = [notes EXCEPT ![r] = note]
    BY DEF RemoveNote
  <1>2. r \in Notes
    BY <1>1, HeldBy
  <1>3. note.status = "none" /\ note.item = notes[r].item /\ note.paid = 0 /\ note.sentBack = 0
    BY DEF BlankNote
  <1> HIDE DEF r, note
  <1>4. notes[r].item # 0
    BY <1>1, <1>2 DEF DebtOK, DebtFits, There
  <1>5. DebtFits(note, Handed(handOvers, r))
    BY <1>3, <1>4 DEF DebtFits
  <1> QED
    BY <1>1, <1>2, <1>5, OneNoteDebt

LEMMA RewriteDebt ==
  ASSUME NotesTyped, DeskTyped, handOvers \in Seq(HandOverSet), DebtOK, handOvers' = handOvers,
         NEW s \in Sessions, EditNote(s), notes[job[s].note].paid = 0,
         notes[job[s].note].sentBack = 0
  PROVE  DebtOK'
PROOF
  <1> DEFINE r == job[s].note
             q == job[s].total
             b == job[s].branch
  <1>1. /\ Leave(s, "edit") /\ There(r)
        /\ notes' = [notes EXCEPT ![r].item = @ + 1, ![r].total = q, ![r].branch = b]
        /\ notes[r].paid = 0 /\ notes[r].sentBack = 0
    BY DEF EditNote
  <1>2. r \in Notes /\ q \in Nat
    BY <1>1, HeldBy
  <1> HIDE DEF r, q, b
  <1> DEFINE note == [notes[r] EXCEPT !.item = notes[r].item + 1, !.total = q, !.branch = b]
  <1>3. notes[r] \in NoteSet /\ notes[r].item \in Nat
    BY <1>2 DEF NotesTyped, NoteSet, NoteFields
  <1>4. /\ note.status = notes[r].status /\ note.item = notes[r].item + 1 /\ note.paid = 0
        /\ note.sentBack = 0 /\ note.total = q
    BY <1>1, <1>3 DEF NoteSet, NoteFields
  <1>5. notes' = [notes EXCEPT ![r] = note]
    BY <1>1, <1>2 DEF NotesTyped
  <1> HIDE DEF note
  <1>6. Handed(handOvers, r) = 0 /\ note.status # "none"
    <2>1. DebtFits(notes[r], Handed(handOvers, r)) /\ Handed(handOvers, r) \in Nat
      BY <1>2, HandedIs DEF DebtOK
    <2> QED
      BY <1>1, <1>4, <2>1 DEF DebtFits, There
  <1>7. DebtFits(note, Handed(handOvers, r))
    BY <1>2, <1>3, <1>4, <1>6 DEF DebtFits
  <1> QED
    BY <1>2, <1>5, <1>7, OneNoteDebt

LEMMA SendBackDebt ==
  ASSUME NotesTyped, DeskTyped, handOvers \in Seq(HandOverSet), DebtOK, handOvers' = handOvers,
         NEW s \in Sessions, SendBack(s)
  PROVE  DebtOK'
PROOF
  <1> DEFINE r == job[s].note
             q == job[s].units
  <1>1. /\ Leave(s, "send") /\ There(r)
        /\ notes' = [notes EXCEPT ![r].sentBack = @ + q, ![r].returns = TRUE]
    BY DEF SendBack
  <1>2. r \in Notes /\ q \in Nat \ {0}
    BY <1>1, HeldBy
  <1> HIDE DEF r, q
  <1> DEFINE note == [notes[r] EXCEPT !.sentBack = notes[r].sentBack + q, !.returns = TRUE]
  <1>3. notes[r] \in NoteSet /\ notes[r].sentBack \in Nat
    BY <1>2 DEF NotesTyped, NoteSet, NoteFields
  <1>4. /\ note.status = notes[r].status /\ note.item = notes[r].item
        /\ note.sentBack = notes[r].sentBack + q
    BY <1>3 DEF NoteSet, NoteFields
  <1>5. notes' = [notes EXCEPT ![r] = note]
    BY <1>1, <1>2 DEF NotesTyped
  <1> HIDE DEF note
  <1>6. DebtFits(notes[r], Handed(handOvers, r)) /\ Handed(handOvers, r) \in Nat
    BY <1>2, HandedIs DEF DebtOK
  <1>7. DebtFits(note, Handed(handOvers, r))
    BY <1>1, <1>2, <1>3, <1>4, <1>6 DEF DebtFits, There
  <1> QED
    BY <1>2, <1>5, <1>7, OneNoteDebt

LEMMA OffDebtDebt ==
  ASSUME NotesTyped, DeskTyped, handOvers \in Seq(HandOverSet), DebtOK,
         NEW s \in Sessions, HandOverOffDebt(s)
  PROVE  DebtOK'
PROOF
  <1> DEFINE r == job[s].note
             q == job[s].units
             b == job[s].branch
             p == seen[s].supplier
  <1>1. /\ Leave(s, "hand") /\ There(r) /\ DebtCovers(r, q)
        /\ HandOver("debt", r, p, b, q, q, 0)
        /\ notes' = [notes EXCEPT ![r].sentBack = @ + q, ![r].returns = TRUE]
    BY DEF HandOverOffDebt
  <1>2. r \in Notes /\ q \in Nat \ {0}
    BY <1>1, HeldBy
  <1> HIDE DEF r, q, b, p
  <1> DEFINE note == [notes[r] EXCEPT !.sentBack = notes[r].sentBack + q, !.returns = TRUE]
             h == Handed(handOvers, r)
  <1>3. notes[r] \in NoteSet /\ notes[r].sentBack \in Nat /\ notes[r].paid \in Nat
        /\ notes[r].total \in Nat
    BY <1>2 DEF NotesTyped, NoteSet, NoteFields
  <1>4. /\ note.status = notes[r].status /\ note.item = notes[r].item
        /\ note.sentBack = notes[r].sentBack + q
        /\ note.paid = notes[r].paid /\ note.total = notes[r].total
    BY <1>3 DEF NoteSet, NoteFields
  <1>5. notes' = [notes EXCEPT ![r] = note]
    BY <1>1, <1>2 DEF NotesTyped
  <1>6. DebtFits(notes[r], h) /\ h \in Nat
    BY <1>2, HandedIs DEF DebtOK
  <1>7. \A c : Handed(handOvers', c) = IF c = r THEN Handed(handOvers, c) + q
                                       ELSE Handed(handOvers, c)
    BY <1>1, <1>2, HandedGrows
  <1>8. Handed(handOvers', r) = h + q
    BY <1>7
  <1> HIDE DEF note, h
  <1>9. q <= notes[r].total - notes[r].paid - notes[r].sentBack
    BY <1>1, <1>2, <1>3 DEF DebtCovers, Owed, OrZero
  <1>10. DebtFits(note, h + q)
    BY <1>1, <1>2, <1>3, <1>4, <1>6, <1>9 DEF DebtFits, There
  <1>11. \A c \in Notes : DebtFits(notes'[c], Handed(handOvers', c))
    <2> TAKE c \in Notes
    <2>1. CASE c = r
      <3>1. notes'[c] = note
        BY <1>2, <1>5, <2>1 DEF NotesTyped
      <3> QED
        BY <1>8, <1>10, <2>1, <3>1
    <2>2. CASE c # r
      <3>1. notes'[c] = notes[c] /\ Handed(handOvers', c) = Handed(handOvers, c)
        BY <1>2, <1>5, <1>7, <2>2 DEF NotesTyped
      <3> QED
        BY <3>1 DEF DebtOK
    <2> QED
      BY <2>1, <2>2
  <1>12. \A n \in DOMAIN handOvers' : handOvers'[n].way # "debt" => handOvers'[n].note = 0
    <2> DEFINE e == [way |-> "debt", note |-> r, supplier |-> p, branch |-> b, units |-> q,
                     value |-> q, row |-> 0, undone |-> FALSE]
    <2>1. handOvers' = Append(handOvers, e) /\ e.way = "debt"
      BY <1>1 DEF HandOver
    <2> HIDE DEF e
    <2>2. \A n \in DOMAIN handOvers' : \/ n \in DOMAIN handOvers /\ handOvers'[n] = handOvers[n]
                                       \/ handOvers'[n] = e
      BY <2>1
    <2> QED
      BY <2>1, <2>2 DEF DebtOK
  <1> QED
    BY <1>11, <1>12 DEF DebtOK

LEMMA OtherDebt ==
  ASSUME NotesTyped, handOvers \in Seq(HandOverSet), DebtOK,
         HandOverForCredit \/ HandOverForCash
  PROVE  DebtOK'
PROOF
  <1>1. PICK way, p, b, q, x, row :
          /\ x \in Remits /\ HandOver(way, 0, p, b, q, x, row) /\ UNCHANGED notes
    <2>1. CASE HandOverForCredit
      BY <2>1 DEF HandOverForCredit
    <2>2. CASE HandOverForCash
      BY <2>2 DEF HandOverForCash, account
    <2> QED
      BY <2>1, <2>2
  <1>2. x \in Nat /\ 0 \notin Notes
    BY <1>1, SupplierAssumption
  <1>3. \A c : Handed(handOvers', c) = IF c = 0 THEN Handed(handOvers, c) + x
                                       ELSE Handed(handOvers, c)
    BY <1>1, <1>2, HandedGrows
  <1>4. \A c \in Notes : Handed(handOvers', c) = Handed(handOvers, c) /\ notes'[c] = notes[c]
    BY <1>1, <1>2, <1>3
  <1>5. \A c \in Notes : DebtFits(notes'[c], Handed(handOvers', c))
    BY <1>4 DEF DebtOK
  <1>6. \A n \in DOMAIN handOvers' : handOvers'[n].way # "debt" => handOvers'[n].note = 0
    <2> DEFINE e == [way |-> way, note |-> 0, supplier |-> p, branch |-> b, units |-> q,
                     value |-> x, row |-> row, undone |-> FALSE]
    <2>1. handOvers' = Append(handOvers, e) /\ e.note = 0
      BY <1>1 DEF HandOver
    <2> HIDE DEF e
    <2>2. \A n \in DOMAIN handOvers' : \/ n \in DOMAIN handOvers /\ handOvers'[n] = handOvers[n]
                                       \/ handOvers'[n] = e
      BY <2>1
    <2> QED
      BY <2>1, <2>2 DEF DebtOK
  <1> QED
    BY <1>5, <1>6 DEF DebtOK

LEMMA UndoDebt ==
  ASSUME NotesTyped, handOvers \in Seq(HandOverSet), DebtOK, UndoHandOver
  PROVE  DebtOK'
PROOF
  <1>1. PICK n \in DOMAIN handOvers :
          LET h == handOvers[n]
          IN  /\ ~h.undone
              /\ handOvers' = [handOvers EXCEPT ![n].undone = TRUE]
              /\ \/ h.way = "credit" /\ UNCHANGED notes
                 \/ h.way = "cash" /\ UNCHANGED account
                 \/ h.way = "debt" /\ notes' = [notes EXCEPT ![h.note].sentBack = OrZero(@ - h.value)]
    BY DEF UndoHandOver
  <1> DEFINE r == handOvers[n].note
             x == handOvers[n].value
             w == handOvers[n].way
  <1>2. /\ x \in Nat
        /\ \A c : /\ Handed(handOvers', c) = IF c = r THEN Handed(handOvers, c) - x
                                             ELSE Handed(handOvers, c)
                  /\ Handed(handOvers', c) \in Nat
    BY <1>1, HandedShrinks
  <1>3. /\ w \in {"credit", "cash"} => UNCHANGED notes
        /\ w = "debt" => notes' = [notes EXCEPT ![r].sentBack = OrZero(@ - x)]
        /\ handOvers[n] \in HandOverSet
    BY <1>1 DEF account
  <1>4. w \in {"credit", "cash", "debt"}
    BY <1>3 DEF HandOverSet
  <1>5. w # "debt" => r \notin Notes
    BY <1>3, SupplierAssumption DEF DebtOK
  <1>6. \A c : Handed(handOvers, c) \in Nat
    BY HandedIs
  <1>7. \A m \in DOMAIN handOvers' : handOvers'[m].way # "debt" => handOvers'[m].note = 0
    <2>1. \A m \in DOMAIN handOvers : handOvers[m] \in HandOverSet
      OBVIOUS
    <2>2. \A m \in DOMAIN handOvers' : /\ m \in DOMAIN handOvers
                                       /\ handOvers'[m].way = handOvers[m].way
                                       /\ handOvers'[m].note = handOvers[m].note
      BY <1>1, <2>1 DEF HandOverSet
    <2> QED
      BY <2>2 DEF DebtOK
  <1> HIDE DEF r, x, w
  <1>8. ASSUME NEW c \in Notes
        PROVE  DebtFits(notes'[c], Handed(handOvers', c))
    <2> DEFINE h == Handed(handOvers, c)
               k == Handed(handOvers', c)
    <2>1. DebtFits(notes[c], h) /\ h \in Nat /\ k \in Nat /\ k = (IF c = r THEN h - x ELSE h)
      BY <1>2, <1>6 DEF DebtOK
    <2>2. notes[c] \in NoteSet /\ notes[c].sentBack \in Nat /\ notes[c].paid \in Nat
          /\ notes[c].total \in Nat
      BY DEF NotesTyped, NoteSet, NoteFields
    <2> HIDE DEF h, k
    <2>3. CASE w = "debt" /\ c = r
      <3>1. notes'[c] = [notes[c] EXCEPT !.sentBack = OrZero(notes[c].sentBack - x)]
        BY <1>3, <2>3 DEF NotesTyped
      <3>2. /\ notes'[c].status = notes[c].status /\ notes'[c].item = notes[c].item
            /\ notes'[c].sentBack = OrZero(notes[c].sentBack - x)
            /\ notes'[c].paid = notes[c].paid /\ notes'[c].total = notes[c].total
        BY <2>2, <3>1 DEF NoteSet, NoteFields
      <3>3. CASE notes[c].status = "none"
        <4>1. notes[c].paid = 0 /\ notes[c].sentBack = 0 /\ k = h - x
              /\ (notes[c].item = 0 => h = 0)
          BY <2>1, <2>3, <3>3 DEF DebtFits
        <4>2. OrZero(notes[c].sentBack - x) = 0
          BY <1>2, <4>1 DEF OrZero
        <4>3. notes[c].item = 0 => k = 0
          BY <1>2, <2>1, <4>1
        <4>4. notes'[c].status = "none" /\ notes'[c].paid = 0 /\ notes'[c].sentBack = 0
              /\ (notes'[c].item = 0 => k = 0)
          BY <3>2, <3>3, <4>1, <4>2, <4>3
        <4> QED
          BY <4>4 DEF DebtFits, k
      <3>4. CASE notes[c].status # "none"
        <4>1. notes[c].item # 0 /\ h <= notes[c].sentBack /\ k = h - x
              /\ (notes[c].sentBack = h => notes[c].paid + h <= notes[c].total)
          BY <2>1, <2>3, <3>4 DEF DebtFits
        <4>2. notes'[c].sentBack = notes[c].sentBack - x
          BY <1>2, <2>1, <2>2, <3>2, <4>1 DEF OrZero
        <4> QED
          <5>1. /\ k <= notes'[c].sentBack /\ (notes'[c].item = 0 => k = 0)
                /\ (notes'[c].sentBack = k => notes'[c].paid + k <= notes'[c].total)
            <6> DEFINE before == notes[c].sentBack
                       sum == notes[c].paid
                       total == notes[c].total
                       now == notes'[c].sentBack
            <6>1. /\ before \in Nat /\ sum \in Nat /\ total \in Nat /\ x \in Nat /\ h \in Nat /\ k \in Nat
                  /\ h <= before /\ k = h - x /\ (before = h => sum + h <= total) /\ now = before - x
              BY <1>2, <2>1, <2>2, <4>1, <4>2
            <6>2. /\ notes'[c].paid = sum /\ notes'[c].total = total /\ notes'[c].item # 0
              BY <3>2, <4>1
            <6> HIDE DEF before, sum, total, now
            <6>3. k <= now /\ (now = k => sum + k <= total)
              BY <6>1
            <6> QED
              BY <6>2, <6>3 DEF now
          <5> QED
            BY <3>2, <3>4, <4>1, <5>1 DEF DebtFits, k
      <3> QED
        BY <3>3, <3>4
    <2>4. CASE ~(w = "debt" /\ c = r)
      <3>1. c # r
        BY <1>5, <2>4
      <3>2. notes'[c] = notes[c]
        BY <1>3, <1>4, <3>1 DEF NotesTyped
      <3> QED
        BY <2>1, <3>1, <3>2 DEF h, k
    <2> QED
      BY <2>3, <2>4
  <1> QED
    BY <1>7, <1>8 DEF DebtOK

LEMMA LabelsDebt ==
  ASSUME NotesTyped, DeskTyped, DebtOK, handOvers' = handOvers, NEW s \in Sessions,
         ReceiveNote(s) \/ Unreceive(s) \/ Relabel(s)
  PROVE  DebtOK'
PROOF
  <1> DEFINE r == job[s].note
             q == job[s].supplier
             b == job[s].branch
  <1>1. /\ r \in Notes
        /\ \/ There(r) /\ notes' = [notes EXCEPT ![r].status = "received"]
           \/ There(r) /\ notes' = [notes EXCEPT ![r].status = "draft"]
           \/ notes' = [notes EXCEPT ![r].supplier = q, ![r].branch = b]
    <2>1. CASE ReceiveNote(s)
      BY <2>1, HeldBy DEF ReceiveNote, ItemThere
    <2>2. CASE Unreceive(s)
      BY <2>2, HeldBy DEF Unreceive, There
    <2>3. CASE Relabel(s)
      BY <2>3, HeldBy DEF Relabel
    <2> QED
      BY <2>1, <2>2, <2>3
  <1> HIDE DEF r, q, b
  <1>2. FiguresStay
    BY <1>1 DEF FiguresStay, NotesTyped, NoteSet, NoteFields, There
  <1> QED
    BY <1>2, QuietDebt

LEMMA DebtSteps ==
  ASSUME SupplyOK, DebtOK, [StoreNext]_storeVars,
         \A s \in Sessions :
           EditNote(s) => notes[job[s].note].paid = 0 /\ notes[job[s].note].sentBack = 0
  PROVE  DebtOK'
PROOF
  <1>1. AccountTyped /\ NotesTyped /\ DeskTyped /\ handOvers \in Seq(HandOverSet)
    BY DEF SupplyOK, AccountTyped, StoreTyped
  <1>2. ASSUME UNCHANGED <<notes, handOvers>> PROVE DebtOK'
    <2>1. FiguresStay
      BY <1>2 DEF FiguresStay
    <2> QED
      BY <1>2, <2>1, QuietDebt
  <1>3. CASE DefectsNext
    <2>1. CASE \E s \in Sessions : HandOverOffDebt(s)
      BY <1>1, <2>1, OffDebtDebt
    <2>2. CASE UndoHandOver
      BY <1>1, <2>2, UndoDebt
    <2>3. CASE HandOverForCredit \/ HandOverForCash
      BY <1>1, <2>3, OtherDebt
    <2>4. CASE \/ FromShelf \/ FromCustomer \/ OpeningStore \/ WriteOff \/ BackOnShelf
               \/ \E s \in Sessions : LookToHandOver(s)
      <3>1. UNCHANGED <<notes, handOvers>>
        BY <2>4 DEF FromShelf, FromCustomer, OpeningStore, WriteOff, BackOnShelf, LookToHandOver,
                    account, store
      <3> QED
        BY <1>2, <3>1
    <2> QED
      BY <1>3, <2>1, <2>2, <2>3, <2>4 DEF DefectsNext
  <1>4. CASE GoodsNext /\ UNCHANGED store
    <2>0. handOvers' = handOvers
      BY <1>4 DEF store
    <2>1. CASE CreateNote
      BY <1>1, <2>0, <2>1, CreateDebt
    <2>2. CASE \/ Sale
               \/ \E s \in Sessions : \/ LookToReceive(s) \/ LookToEdit(s) \/ LookToReverse(s)
                                      \/ LookToRelabel(s) \/ LookToSendBack(s) \/ DeliveryGivesUp(s)
      <3>1. UNCHANGED notes
        BY <2>2 DEF Sale, LookToReceive, LookToEdit, LookToReverse, LookToRelabel, LookToSendBack,
                    DeliveryGivesUp, account
      <3> QED
        BY <1>2, <2>0, <3>1
    <2>3. ASSUME NEW s \in Sessions, ReceiveNote(s) \/ Unreceive(s) \/ Relabel(s)
          PROVE  DebtOK'
      BY <1>1, <2>0, <2>3, LabelsDebt
    <2>4. ASSUME NEW s \in Sessions, EditNote(s)
          PROVE  DebtOK'
      BY <1>1, <2>0, <2>4, RewriteDebt
    <2>5. ASSUME NEW s \in Sessions, RemoveNote(s)
          PROVE  DebtOK'
      BY <1>1, <2>0, <2>5, RemoveDebt
    <2>6. ASSUME NEW s \in Sessions, SendBack(s)
          PROVE  DebtOK'
      BY <1>1, <2>0, <2>6, SendBackDebt
    <2> QED
      BY <1>4, <2>1, <2>2, <2>3, <2>4, <2>5, <2>6 DEF GoodsNext
  <1>5. CASE PayDesk /\ UNCHANGED store
    <2>1. handOvers' = handOvers
      BY <1>5 DEF store
    <2>2. (\E new : PaysStep(new)) \/ (\E n : CancelStep(n))
      BY <1>1, <1>5, DeskPays DEF PayDesk
    <2> QED
      BY <1>1, <2>1, <2>2, PaysDebt, CancelDebt
  <1>6. CASE UNCHANGED storeVars
    BY <1>2, <1>6 DEF storeVars, store, account
  <1> QED
    BY <1>3, <1>4, <1>5, <1>6 DEF StoreNext, Deliver, DeliveryNext

LEMMA DebtStart == ASSUME StoreInit PROVE DebtOK
PROOF
  <1>1. /\ handOvers = <<>> /\ notes = [r \in Notes |-> BlankNote]
        /\ BlankNote.status = "none" /\ BlankNote.paid = 0 /\ BlankNote.sentBack = 0
    BY DEF StoreInit, DeliveryInit, AccountInit, BlankNote
  <1>2. \A r \in Notes : OffDebt(handOvers, r) = {}
    BY <1>1 DEF OffDebt
  <1>3. \A r \in Notes : Handed(handOvers, r) = 0
    BY <1>2, SumEmpty DEF Handed
  <1> QED
    BY <1>1, <1>3 DEF DebtOK, DebtFits

\* Goods handed over off a note's debt and the payments on it never exceed its
\* total, as long as no draft is rewritten under payments or returns: the edit
\* alone sets a total without looking at them.
THEOREM DebtNotOverdrawnThm ==
  StoreSpec /\ [][EditsUntouched]_storeVars => []DebtNotOverdrawn
PROOF
  <1>1. SupplyOK /\ DebtOK => DebtNotOverdrawn
    <2> SUFFICES ASSUME SupplyOK, DebtOK, NEW r \in Notes
                 PROVE  LET out == {n \in DOMAIN handOvers : handOvers[n].note = r
                                          /\ ~handOvers[n].undone}
                            handed == SumFunction([n \in out |-> handOvers[n].value])
                        IN  notes[r].sentBack = handed => notes[r].paid + handed <= notes[r].total
      BY DEF DebtNotOverdrawn
    <2> DEFINE out == {n \in DOMAIN handOvers : handOvers[n].note = r /\ ~handOvers[n].undone}
               g == [n \in out |-> handOvers[n].value]
               f == Values(handOvers)
    <2>1. handOvers \in Seq(HandOverSet) /\ NotesTyped
      BY DEF SupplyOK, StoreTyped, AccountTyped
    <2>2. /\ out = OffDebt(handOvers, r) /\ IsFiniteSet(out)
          /\ out \subseteq DOMAIN handOvers
          /\ \A n \in DOMAIN handOvers : f[n] = handOvers[n].value
      BY <2>1, HandedIs DEF OffDebt
    <2>3. DOMAIN g = out /\ \A n \in out : g[n] = handOvers[n].value
      OBVIOUS
    <2> HIDE DEF out, f, g
    <2>4. \A n \in out : g[n] = f[n]
      BY <2>2, <2>3
    <2>5. SumFunction(g) = Handed(handOvers, r)
      BY <2>2, <2>3, <2>4, SumEqual DEF SumFunction, Handed, f
    <2>6. notes[r].sentBack = Handed(handOvers, r)
            => notes[r].paid + Handed(handOvers, r) <= notes[r].total
      <3>1. notes[r].total \in Nat /\ DebtFits(notes[r], Handed(handOvers, r))
        BY <2>1 DEF NotesTyped, NoteSet, NoteFields, DebtOK
      <3> QED
        BY <3>1 DEF DebtFits
    <2> QED
      BY <2>5, <2>6 DEF g, out
  <1>2. StoreInit => SupplyOK /\ DebtOK
    BY SupplyStart, DebtStart
  <1>3. SupplyOK /\ DebtOK /\ [EditsUntouched]_storeVars /\ [StoreNext]_storeVars
          => (SupplyOK /\ DebtOK)'
    <2> SUFFICES ASSUME SupplyOK, DebtOK, [EditsUntouched]_storeVars, [StoreNext]_storeVars
                 PROVE  (SupplyOK /\ DebtOK)'
      OBVIOUS
    <2>1. SupplyOK'
      BY SupplySteps
    <2>2. CASE EditsUntouched
      BY <2>1, <2>2, DebtSteps DEF EditsUntouched
    <2>3. CASE UNCHANGED storeVars
      <3>1. FiguresStay /\ handOvers' = handOvers
        BY <2>3 DEF FiguresStay, storeVars, store, account
      <3> QED
        BY <2>1, <3>1, QuietDebt
    <2> QED
      BY <2>2, <2>3
  <1> QED
    BY <1>1, <1>2, <1>3, PTL DEF StoreSpec
==============================================================================
