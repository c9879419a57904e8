--------------------------- MODULE SupplierAccount ---------------------------
(***************************************************************************)
(* What the shop owes its suppliers: delivery notes (goods_receipts) with  *)
(* what was paid and sent back on each, the payments, and the suppliers'   *)
(* credit: advances, and returns they have not yet made good.  Every       *)
(* payment locks its notes, then the account, then the supplier, so each   *)
(* handler of this module is one step.  Payments in money have their row   *)
(* in the ledger.  One unit of goods costs one unit of money.              *)
(***************************************************************************)
EXTENDS MoneyLedger

CONSTANTS Notes,        \* delivery notes, 1..n in the order they are entered
          Suppliers,
          Remits,       \* amounts paid
          MaxRemits     \* bound: payments ever made

ASSUME SupplierAssumption ==
  /\ Remits \subseteq Nat \ {0} /\ Notes \subseteq Nat \ {0}
  /\ IsFiniteSet(Notes) /\ IsFiniteSet(Suppliers) /\ "none" \notin Suppliers

VARIABLES
  notes,     \* goods_receipts
  remitted,  \* supplier_payments; a cancelled one stays as NoRemit
  credit,    \* SUM(supplier_credits.amount) of each supplier
  advanced   \* SUM of what suppliers' credit was ever given: advances, returns on credit

account == <<notes, remitted, credit, advanced>>

NoRemit == [note |-> 0]

AccountInit(blank) ==
  /\ BooksInit
  /\ notes = [r \in Notes |-> blank]
  /\ remitted = <<>>
  /\ credit = [p \in Suppliers |-> 0]
  /\ advanced = 0

Standing(r) == {n \in DOMAIN remitted : remitted[n].note = r}

\* outstandingOf()
Owed(r) == OrZero(notes[r].total - notes[r].paid - notes[r].sentBack)

Remit(r, x, source, row) ==
  [note |-> r, supplier |-> notes[r].supplier, amount |-> x, source |-> source, row |-> row]

------------------------------------------------------------------------------
\* addPayment(): on one note, out of an account or out of the credit.

Payable(r, x) == notes[r].status = "received" /\ x <= Owed(r) /\ Len(remitted) < MaxRemits

PayNote ==
  \E r \in Notes, x \in Remits, a \in Accounts, confirmed \in BOOLEAN :
    /\ Payable(r, x) /\ Covers(a, x, confirmed)
    /\ Write(Expense("supplier_payment", a, x, r))
    /\ remitted' = Append(remitted, Remit(r, x, "money", ExpenseRow(a)))
    /\ notes' = [notes EXCEPT ![r].paid = @ + x]
    /\ UNCHANGED <<credit, advanced>>

PayFromCredit ==
  \E r \in Notes, x \in Remits :
    LET p == notes[r].supplier
    IN  /\ Payable(r, x)
        /\ p # "none" /\ x <= credit[p]
        /\ remitted' = Append(remitted, Remit(r, x, "credit", 0))
        /\ credit' = [credit EXCEPT ![p] = @ - x]
        /\ notes' = [notes EXCEPT ![r].paid = @ + x]
        /\ UNCHANGED <<advanced, books>>

------------------------------------------------------------------------------
\* settleOldestFirstTx(): a sum pays the open notes oldest first.

OpenNotes(p) == {r \in Notes : notes[r].status = "received" /\ notes[r].supplier = p /\ Owed(r) > 0}

OwedOn(set) == SumFunction([r \in set |-> Owed(r)])

Share(r, open, x) == Least(Owed(r), OrZero(x - OwedOn({q \in open : q < r})))

\* Mutant: a note that gets a share is taken as paid.
SharesInFull(open, x) ==
  notes' = [r \in Notes |-> IF r \in open /\ Share(r, open, x) > 0
                            THEN [notes[r] EXCEPT !.paid = notes[r].total] ELSE notes[r]]

SharesPaid(open, x) ==
  notes' = [r \in Notes |-> IF r \in open THEN [notes[r] EXCEPT !.paid = @ + Share(r, open, x)]
                            ELSE notes[r]]

\* The numbers of a set, the smallest first (in one way).
Ascending(S) == {f \in [1..Cardinality(S) -> S] : \A j, k \in DOMAIN f : j < k => f[j] < f[k]}

PaidOnes(open, x) == Ascending({r \in open : Share(r, open, x) > 0})

\* The expense of each note's share, and of the advance after n of them; each
\* is Width(a) rows.
PaymentLegs(a, order, open, x) ==
  [m \in 1..(Len(order) * Width(a)) |->
     LET k == (m - 1) \div Width(a)
     IN  ExpenseAfter(Len(rows) + k * Width(a), "supplier_payment", a,
                      Share(order[k + 1], open, x), order[k + 1])[m - k * Width(a)]]
AdvanceLegs(a, n, left) ==
  IF left = 0 THEN <<>>
  ELSE ExpenseAfter(Len(rows) + n * Width(a), "supplier_payment", a, left, 0)

\* payFromAccount(), and payFromTillTx() out of the drawer's account: what is
\* left over becomes the supplier's advance, with a row of its own.
PaySupplier ==
  \E p \in Suppliers, x \in Remits, a \in Accounts, confirmed \in BOOLEAN :
    LET open == OpenNotes(p)
        left == OrZero(x - OwedOn(open))
    IN  \E order \in PaidOnes(open, x) :
          /\ Covers(a, x, confirmed)
          /\ Len(remitted) + Len(order) <= MaxRemits
          /\ Write(PaymentLegs(a, order, open, x) \o AdvanceLegs(a, Len(order), left))
          /\ remitted' = remitted \o [k \in 1..Len(order) |->
                           Remit(order[k], Share(order[k], open, x), "money", Len(rows) + k * Width(a))]
          /\ SharesPaid(open, x)
          /\ credit' = [credit EXCEPT ![p] = @ + left]
          /\ advanced' = advanced + left

\* transferAdvance(): an advance changes hands and pays the other's notes.
TransferAdvance ==
  \E p, q \in Suppliers, x \in Remits, settle \in BOOLEAN :
    LET open == IF settle THEN OpenNotes(q) ELSE {}
        left == OrZero(x - OwedOn(open))
    IN  \E order \in PaidOnes(open, x) :
          /\ p # q /\ x <= credit[p]
          /\ Len(remitted) + Len(order) <= MaxRemits
          /\ credit' = [credit EXCEPT ![p] = @ - x, ![q] = @ + left]
          /\ remitted' = remitted \o [k \in 1..Len(order) |->
                           Remit(order[k], Share(order[k], open, x), "credit", 0)]
          /\ SharesPaid(open, x)
          /\ UNCHANGED <<advanced, books>>

------------------------------------------------------------------------------
\* cancelPayment(): the credit, or the money, comes back.

CreditBack(payment) ==
  IF payment.source = "credit" /\ payment.supplier # "none"
    THEN credit' = [credit EXCEPT ![payment.supplier] = @ + payment.amount]
    ELSE UNCHANGED credit

\* Mutant: the expense stays in the ledger.
MoneyKept(payment) == UNCHANGED books

MoneyBack(payment) ==
  IF payment.source = "credit" THEN UNCHANGED books
  ELSE CanReverse(payment.row, FALSE, FALSE) /\ WriteReversal(payment.row)

CancelPayment ==
  \E n \in DOMAIN remitted :
    LET payment == remitted[n]
        r == payment.note
    IN  /\ payment # NoRemit
        /\ CreditBack(payment)
        /\ MoneyBack(payment)
        /\ remitted' = [remitted EXCEPT ![n] = NoRemit]
        /\ notes' = [notes EXCEPT ![r].paid = OrZero(@ - payment.amount)]
        /\ UNCHANGED advanced

AccountNext == PayNote \/ PayFromCredit \/ PaySupplier \/ TransferAdvance \/ CancelPayment

------------------------------------------------------------------------------
\* A note's paid figure is the sum of the payments that stand on it, whoever
\* pays, cancels or moves an advance meanwhile.
PaidAddsUp ==
  \A r \in Notes : notes[r].paid = SumFunction([n \in Standing(r) |-> remitted[n].amount])

FromCredit == {n \in DOMAIN remitted : remitted[n] # NoRemit /\ remitted[n].source = "credit"}

\* Credit is neither lost nor made: what suppliers were given is still on
\* their credit, or pays notes; and nobody spends what is not there.
CreditAccounted ==
  /\ \A p \in Suppliers : credit[p] >= 0
  /\ SumFunction(credit) + SumFunction([n \in FromCredit |-> remitted[n].amount]) = advanced

\* A payment in money and its expense stand or fall together.
PaymentsInLedger ==
  LET money == {n \in DOMAIN remitted : remitted[n] # NoRemit /\ remitted[n].source = "money"}
      expenses == {k \in DOMAIN rows : /\ rows[k].source = "supplier_payment"
                                       /\ rows[k].of # 0 /\ ~rows[k].cancelled}
  IN  /\ \A n \in money : remitted[n].row \in expenses
                          /\ rows[remitted[n].row].amount = remitted[n].amount
      /\ \A k \in expenses : \E n \in money : remitted[n].row = k
      /\ \A m, n \in money : remitted[m].row = remitted[n].row => m = n
=============================================================================
