----------------------------- MODULE CreditSale ------------------------------
(***************************************************************************)
(* The money of one customer: sales paid for, or given on credit, the      *)
(* debts they raise, the installments paid against a debt, the points a    *)
(* sale spends and earns, the returns that settle against all of it, and   *)
(* the owner's deletion of a sale.                                         *)
(*                                                                         *)
(* A sale and a return run in one transaction and lock the customer's row; *)
(* a return also locks its sale.  Nothing locks a debt: DebtService reads, *)
(* decides and writes in separate statements, and so does the return.      *)
(***************************************************************************)
EXTENDS Desk, ReturnMath, FiniteSets

CONSTANTS Sales,         \* the sales, and the debts written by hand
          Baskets,       \* what is rung up: quantities and totals of the lines
          Discounts,     \* on the whole receipt, in percent
          Tenders,       \* what is handed over: on credit or not, cash, card
          Redeems,       \* points a sale may ask to spend
          Program,       \* the loyalty program: percent, minimum, cap, tiers
          OpeningPoints, \* the customer's balance at first
          Installments,  \* amounts a payment, or a debt written by hand, may have
          MaxPayments,   \* bound: payments a debt ever gets
          MaxUnits,      \* bound: units of a line that come back at once
          MaxMoney       \* bound: what a money column holds

ASSUME SalesAssumption ==
  /\ IsFiniteSet(Sales)
  /\ \A b \in Baskets : /\ b.sold \in [DOMAIN b.sold -> Nat \ {0}] /\ IsFiniteSet(DOMAIN b.sold)
                        /\ b.worth \in [DOMAIN b.sold -> Nat] /\ Subtotal(b) > 0
  /\ \A d \in Discounts : d \in 0..100
  /\ \A t \in Tenders : t \in [credit : BOOLEAN, cash : Nat, card : Nat]
  /\ Redeems \subseteq Nat /\ Program.cap \in Nat
  /\ Installments \subseteq Nat \ {0}
  /\ OpeningPoints \in Nat
  /\ MaxMoney \in Nat

VARIABLES
  receipt,   \* the order: its basket, total, points spent and earned, money paid
  back,      \* order_items.returned_quantity of its lines
  backWorth, \* SUM(sale_return_items.line_total) by line
  returned,  \* orders.returned_amount
  restored,  \* SUM(sale_returns.points_restored)
  reversed,  \* SUM(sale_returns.points_reversed)
  refunded,  \* SUM(sale_returns.refund_amount)
  owed,      \* user_debts.amount
  standing,  \* user_debts.status; "none" when there is no debt
  due,       \* whether the due date has passed; "none" without one
  payments,  \* the rows of debt_payments
  paid,      \* SUM(debt_payments.amount) of the debt
  received,  \* what was ever paid on the debt, corrected entries included
  taken,     \* how many payments were ever entered
  byHand,    \* a person changed the debt's amount, or deleted it
  balance,   \* users.bonus_balance
  spent,     \* users.total_spent
  ledger,    \* SUM(loyalty_transactions.amount) of the order
  waived     \* points a deletion could not take back

order == <<receipt, back, backWorth, returned, restored, reversed, refunded>>
debt == <<owed, standing, due, payments, paid, received, taken, byHand>>
points == <<balance, spent, ledger, waived>>
creditVars == <<order, debt, points, desk>>

NoReceipt == [state |-> "none"]
Sold(i) == receipt[i].state = "sold"
HasDebt(i) == standing[i] # "none"

CreditInit ==
  /\ receipt = [i \in Sales |-> NoReceipt]
  /\ back = [i \in Sales |-> <<>>]
  /\ backWorth = [i \in Sales |-> <<>>]
  /\ returned = [i \in Sales |-> 0]
  /\ restored = [i \in Sales |-> 0]
  /\ reversed = [i \in Sales |-> 0]
  /\ refunded = [i \in Sales |-> 0]
  /\ owed = [i \in Sales |-> 0]
  /\ standing = [i \in Sales |-> "none"]
  /\ due = [i \in Sales |-> "none"]
  /\ payments = [i \in Sales |-> {}]
  /\ paid = [i \in Sales |-> 0]
  /\ received = [i \in Sales |-> 0]
  /\ taken = [i \in Sales |-> 0]
  /\ byHand = [i \in Sales |-> FALSE]
  /\ balance = OpeningPoints
  /\ spent = 0
  /\ ledger = [i \in Sales |-> 0]
  /\ waived = 0
  /\ DeskInit

\* Row locks that last to the end of a transaction.
SaleLocked(i) == \E s \in Sessions : phase[s] = "settle" /\ job[s].id = i
CustomerLocked == \E s \in Sessions : phase[s] = "erase"

------------------------------------------------------------------------------
\* create(): the discount, the points spent, the tenders, the debt, cashback.

Half == Unit \div 2    \* EPSILON of payment-reconcile.ts

Discounted(subtotal, percent) == subtotal - Rounded(subtotal, percent, 100)

\* Points a sale spends: no more than the balance and the cap, in whole so'm.
PointsSpent(asked, total) ==
  LET cap == Unit * ((total * Program.cap) \div (100 * Unit))
      allowed == OrZero(Least(Least(asked, balance), Least(cap, total)))
  IN  Unit * ((2 * allowed + Unit) \div (2 * Unit))

\* Every tender of an ordinary sale adds up to the bill, give or take half a
\* so'm; cash is booked only as far as the bill needs it.
TenderFits(t, payable) ==
  ~t.credit => t.card <= payable + Half /\ t.cash + t.card >= payable - Half

Booked(t, payable) ==
  IF t.credit THEN t.cash + t.card
  ELSE t.card + OrZero(Least(t.cash, payable - t.card))

\* The best rate among the program's and the tiers reached before this sale.
Cashback(total) ==
  LET reached == {Program.percent} \cup
                 {t.percent : t \in {u \in Program.tiers : spent >= u.from}}
      rate == CHOOSE r \in reached : \A q \in reached : q <= r
  IN  IF total >= Program.minimum THEN Whole(total, rate, 100) ELSE 0

\* What a sale on credit leaves to pay.
Credit(t, payable, down) == IF t.credit THEN OrZero(payable - down) ELSE 0

RingUp(i, b, d, t, asked) ==
  LET total == Discounted(Subtotal(b), d)
      use == PointsSpent(asked, total)
      down == Booked(t, total - use)
      credit == Credit(t, total - use, down)
      earned == Cashback(total)
  IN  /\ receipt[i] = NoReceipt /\ ~HasDebt(i) /\ taken[i] = 0
      /\ ~CustomerLocked
      /\ {total, use, down, earned} \subseteq 0..MaxMoney
      /\ TenderFits(t, total - use)
      /\ receipt' = [receipt EXCEPT ![i] =
                       [state |-> "sold", basket |-> b, total |-> total,
                        redeemed |-> use, earned |-> earned, down |-> down]]
      /\ back' = [back EXCEPT ![i] = [l \in DOMAIN b.sold |-> 0]]
      /\ backWorth' = [backWorth EXCEPT ![i] = [l \in DOMAIN b.sold |-> 0]]
      /\ owed' = [owed EXCEPT ![i] = credit]
      /\ standing' = [standing EXCEPT ![i] = IF credit > 0 THEN "Pending" ELSE "none"]
      /\ due' = [due EXCEPT ![i] = IF credit > 0 THEN "ahead" ELSE "none"]
      /\ balance' = balance - use + earned
      /\ spent' = spent + total
      /\ ledger' = [ledger EXCEPT ![i] = earned - use]
      /\ UNCHANGED <<returned, restored, reversed, refunded, payments, paid, received,
                     taken, byHand, waived, desk>>

Sell(i) == \E b \in Baskets, d \in Discounts, t \in Tenders, asked \in Redeems :
             RingUp(i, b, d, t, asked)

------------------------------------------------------------------------------
\* Debts: every read of them first marks the late ones.

Marked == [i \in Sales |-> IF standing[i] = "Pending" /\ due[i] = "past"
                           THEN "Overdue" ELSE standing[i]]

DueDatePasses(i) ==
  /\ due[i] = "ahead"
  /\ due' = [due EXCEPT ![i] = "past"]
  /\ UNCHANGED <<order, points, owed, standing, payments, paid, received, taken, byHand, desk>>

ListDebts == /\ standing' = Marked
             /\ UNCHANGED <<order, points, owed, due, payments, paid, received, taken, byHand, desk>>

\* A debt that no sale raised.
Lend(i) == /\ receipt[i] = NoReceipt /\ ~HasDebt(i) /\ taken[i] = 0
           /\ \E a \in Installments, d \in {"none", "ahead"} :
                /\ owed' = [owed EXCEPT ![i] = a]
                /\ due' = [due EXCEPT ![i] = d]
           /\ standing' = [standing EXCEPT ![i] = "Pending"]
           /\ UNCHANGED <<order, points, payments, paid, received, taken, byHand, desk>>

\* update(): the amount is written; the status is left as it was.
EditDebt(i) == /\ HasDebt(i)
               /\ \E a \in Installments : owed' = [owed EXCEPT ![i] = a]
               /\ standing' = Marked
               /\ byHand' = [byHand EXCEPT ![i] = TRUE]
               /\ UNCHANGED <<order, points, due, payments, paid, received, taken, desk>>

\* remove(): the debt goes, its payments with it.
ForgiveDebt(i) == /\ HasDebt(i)
                  /\ owed' = [owed EXCEPT ![i] = 0]
                  /\ standing' = [Marked EXCEPT ![i] = "none"]
                  /\ due' = [due EXCEPT ![i] = "none"]
                  /\ payments' = [payments EXCEPT ![i] = {}]
                  /\ paid' = [paid EXCEPT ![i] = 0]
                  /\ byHand' = [byHand EXCEPT ![i] = TRUE]
                  /\ UNCHANGED <<order, points, received, taken, desk>>

------------------------------------------------------------------------------
\* addPayment(), deletePayment(): look, write the row, sum, write the status.

\* Mutant: nothing is capped at the remaining balance.
FitsAlways(amount, i) == TRUE

Fits(amount, i) == amount <= owed[i] - paid[i]

LookToPay(s) ==
  \E i \in Sales, a \in Installments :
    /\ HasDebt(i) /\ Fits(a, i) /\ taken[i] < MaxPayments
    /\ Enter(s, "pay", [kind |-> "pay", id |-> i, amount |-> a],
                       [kind |-> "debt", owed |-> owed[i], due |-> due[i]])
    /\ standing' = Marked
    /\ UNCHANGED <<order, points, owed, due, payments, paid, received, taken, byHand>>

EnterPayment(s) ==
  LET i == job[s].id
      a == job[s].amount
  IN  /\ Proceed(s, "pay", "sum", seen[s])
      /\ HasDebt(i) /\ taken[i] < MaxPayments
      /\ taken' = [taken EXCEPT ![i] = @ + 1]
      /\ payments' = [payments EXCEPT ![i] = @ \cup {[no |-> taken[i] + 1, amount |-> a]}]
      /\ paid' = [paid EXCEPT ![i] = @ + a]
      /\ received' = [received EXCEPT ![i] = @ + a]
      /\ UNCHANGED <<order, points, owed, standing, due, byHand>>

LookToUnpay(s) ==
  \E i \in Sales : \E p \in payments[i] :
    /\ Enter(s, "unpay", [kind |-> "unpay", id |-> i, payment |-> p],
                         [kind |-> "debt", owed |-> owed[i], due |-> due[i]])
    /\ standing' = Marked
    /\ UNCHANGED <<order, points, owed, due, payments, paid, received, taken, byHand>>

DropPayment(s) ==
  LET i == job[s].id
  IN  /\ Proceed(s, "unpay", "sum", seen[s])
      /\ payments' = [payments EXCEPT ![i] = @ \ {job[s].payment}]
      /\ paid' = [paid EXCEPT ![i] = IF job[s].payment \in payments[i]
                                      THEN @ - job[s].payment.amount ELSE @]
      /\ UNCHANGED <<order, points, owed, standing, due, received, taken, byHand>>

StandingOf(sum, amount, late) ==
  IF sum >= amount THEN "Paid" ELSE IF sum > 0 THEN "Partial"
  ELSE IF late = "past" THEN "Overdue" ELSE "Pending"

\* recomputeDebtStatus(): the sum is new, the amount is the one read at first.
SumPaid(s) ==
  /\ Proceed(s, "sum", "mark",
       [kind |-> "status", status |-> StandingOf(paid[job[s].id], seen[s].owed, seen[s].due)])
  /\ UNCHANGED <<order, debt, points>>

MarkDebt(s) ==
  LET i == job[s].id
  IN  /\ Leave(s, "mark")
      /\ standing' = [standing EXCEPT ![i] = IF HasDebt(i) THEN seen[s].status ELSE @]
      /\ UNCHANGED <<order, points, owed, due, payments, paid, received, taken, byHand>>

------------------------------------------------------------------------------
\* SaleReturnService.create(): lock the sale, read its debt and its points,
\* settle, write.

Requests(i) == LET sold == receipt[i].basket.sold
               IN  {req \in [DOMAIN sold -> 0..MaxUnits] :
                      /\ \E l \in DOMAIN sold : req[l] > 0
                      /\ \A l \in DOMAIN sold : req[l] <= sold[l] - back[i][l]}

\* Two returns of one sale: the second waits for the first one's lock.
TakeBack(s) ==
  \E i \in {j \in Sales : Sold(j)} : \E req \in Requests(i) :
    /\ ~SaleLocked(i)
    /\ Enter(s, "settle", [kind |-> "return", id |-> i, req |-> req],
             [kind |-> "debt", owed |-> owed[i], paid |-> paid[i], standing |-> standing[i]])
    /\ UNCHANGED <<order, debt, points>>

\* The debt by what was read of it, never below what the code thinks is paid.
WrittenDown(n, reduced) ==
  [owed |-> OrZero(n.owed - reduced),
   standing |-> IF n.paid >= OrZero(n.owed - reduced) THEN "Paid"
                ELSE IF n.paid > 0 THEN "Partial"
                ELSE IF n.standing = "Overdue" THEN "Overdue" ELSE "Pending"]

DebtLeft(n) == IF n.standing = "none" THEN 0 ELSE OrZero(n.owed - n.paid)

\* Cashback the customer no longer has is not taken.
Clawed(reverse, held) == OrZero(Least(reverse, held))

Settle(s) ==
  LET i == job[s].id
      req == job[s].req
      r == receipt[i]
      value == ReturnTotal(r.basket, r.total, back[i], backWorth[i], returned[i], req)
      way == Settlement(value, DebtLeft(seen[s]), OrZero(r.redeemed - restored[i]))
      reverse == Reversed(IsFinal(r.basket, back[i], req), r.earned,
                          OrZero(r.earned - reversed[i]), value, r.total)
      claw == Clawed(reverse, balance + way.points)
      written == way.debt > 0 /\ HasDebt(i)
  IN  /\ Leave(s, "settle")
      /\ ~CustomerLocked
      /\ value \in 0..MaxMoney /\ reverse \in 0..MaxMoney
      /\ back' = [back EXCEPT ![i] = [l \in DOMAIN @ |-> @[l] + req[l]]]
      /\ backWorth' = [backWorth EXCEPT ![i] =
                         [l \in DOMAIN @ |-> IF req[l] = 0 THEN @[l]
                            ELSE @[l] + LineWorth(r.basket, back[i], backWorth[i], req, l)]]
      /\ returned' = [returned EXCEPT ![i] = @ + value]
      /\ restored' = [restored EXCEPT ![i] = @ + way.points]
      /\ reversed' = [reversed EXCEPT ![i] = @ + reverse]
      /\ refunded' = [refunded EXCEPT ![i] = @ + way.refund]
      /\ owed' = [owed EXCEPT ![i] = IF written THEN WrittenDown(seen[s], way.debt).owed ELSE @]
      /\ standing' = [standing EXCEPT ![i] =
                        IF written THEN WrittenDown(seen[s], way.debt).standing ELSE @]
      /\ balance' = balance + way.points - claw
      /\ ledger' = [ledger EXCEPT ![i] = @ + way.points - claw]
      /\ spent' = OrZero(spent - value)
      /\ UNCHANGED <<receipt, due, payments, paid, received, taken, byHand, waived>>

------------------------------------------------------------------------------
\* OrderService.remove(), the owner's: look at the sale and at its payments;
\* then, in a transaction, read its points, take them off the customer's row
\* (which locks it), and delete.  The delete waits for a return's lock.

Uncollected(i) == payments[i] = {}

LookToDelete(s) ==
  \E i \in {j \in Sales : Sold(j)} :
    /\ returned[i] = 0 /\ Uncollected(i)
    /\ Enter(s, "moves", [kind |-> "delete", id |-> i], NothingSeen)
    /\ UNCHANGED <<order, debt, points>>

ReadMoves(s) == /\ Proceed(s, "moves", "claw", [kind |-> "moves", net |-> ledger[job[s].id]])
                /\ UNCHANGED <<order, debt, points>>

LockCustomer(s) == /\ ~CustomerLocked
                   /\ Proceed(s, "claw", "erase", seen[s])
                   /\ UNCHANGED <<order, debt, points>>

\* Mutant: the points the sale spent stay spent.
EarnedOnly(net, i) == IF receipt[i].state = "sold" THEN receipt[i].earned ELSE net

NetPoints(net, i) == net

Erase(s) ==
  LET i == job[s].id
      left == balance - NetPoints(seen[s].net, i)
  IN  /\ Leave(s, "erase")
      /\ ~SaleLocked(i)
      /\ receipt' = [receipt EXCEPT ![i].state = "deleted"]
      /\ returned' = [returned EXCEPT ![i] = 0]
      /\ restored' = [restored EXCEPT ![i] = 0]
      /\ reversed' = [reversed EXCEPT ![i] = 0]
      /\ refunded' = [refunded EXCEPT ![i] = 0]
      /\ owed' = [owed EXCEPT ![i] = 0]
      /\ standing' = [standing EXCEPT ![i] = "none"]
      /\ due' = [due EXCEPT ![i] = "none"]
      /\ payments' = [payments EXCEPT ![i] = {}]
      /\ paid' = [paid EXCEPT ![i] = 0]
      /\ balance' = OrZero(left)
      /\ waived' = waived + OrZero(0 - left)
      /\ spent' = OrZero(spent - receipt[i].total)
      /\ ledger' = [ledger EXCEPT ![i] = 0]
      /\ UNCHANGED <<back, backWorth, received, taken, byHand>>

\* Refused at its next statement, out of time, or the loser of a deadlock:
\* what its transaction did is gone; a payment it entered stays.
CreditGivesUp(s) == Abandon(s) /\ UNCHANGED <<order, debt, points>>

CreditNext ==
  \/ ListDebts
  \/ \E i \in Sales : Sell(i) \/ DueDatePasses(i) \/ Lend(i) \/ EditDebt(i) \/ ForgiveDebt(i)
  \/ \E s \in Sessions :
       \/ LookToPay(s) \/ EnterPayment(s) \/ LookToUnpay(s) \/ DropPayment(s)
       \/ SumPaid(s) \/ MarkDebt(s)
       \/ TakeBack(s) \/ Settle(s)
       \/ LookToDelete(s) \/ ReadMoves(s) \/ LockCustomer(s) \/ Erase(s)
       \/ CreditGivesUp(s)

CreditSpec == CreditInit /\ [][CreditNext]_creditVars

------------------------------------------------------------------------------
\* A return cannot pay the customer more than the sale and its debt ever
\* brought in, whatever payments, corrections and other returns overlap it
\* (half a so'm of tender tolerance, and coins rounded up, apart).
RefundsWithinPaid ==
  \A i \in Sales : Sold(i) /\ ~byHand[i] /\ refunded[i] > 0 =>
    refunded[i] <= receipt[i].down + received[i] + Half + OrZero(returned[i] - receipt[i].total)

\* "A sale returned in several goes always nets back to the cent": once all
\* of it came back its value is its total, and never more, but for a coin for
\* each unit: half of one for its share of the line, half for that of the total.
NetsBack ==
  \A i \in Sales : Sold(i) =>
    LET units == SumFunction(back[i])
    IN  /\ OrZero(returned[i] - receipt[i].total) <= units
        /\ units = SumFunction(receipt[i].basket.sold) => returned[i] >= receipt[i].total

\* The balance is never negative beyond the half so'm rounding can add.
PointsNotOverspent == balance >= -Half

AtRest == \A s \in Sessions : phase[s] = "idle"

\* Payments never exceed the debt they are made on.
DebtCapped == \A i \in Sales : HasDebt(i) /\ ~byHand[i] => paid[i] <= owed[i]

\* The status is the one the amounts call for (Overdue is set when next read).
StandingTrue == \A i \in Sales : HasDebt(i) /\ ~byHand[i] =>
  LET now == StandingOf(paid[i], owed[i], due[i])
  IN  standing[i] = now \/ (now = "Overdue" /\ standing[i] = "Pending")

\* The balance is what it was, plus every row of the ledger, plus what a
\* deletion left the customer for want of points.
PointsAddUp == balance = OpeningPoints + SumFunction(ledger) + waived
=============================================================================
