----------------------------- MODULE MoneyLedger -----------------------------
(***************************************************************************)
(* The shop's ledger of money (finance.service.ts): accounts with their    *)
(* balances, and rows that are never deleted.  A row moves balances when   *)
(* it is written; a storno answers it with a reversal that moves them back *)
(* and marks it cancelled.  Tills, wages and suppliers write their rows    *)
(* through it, inside their own transactions.  A transaction that debits   *)
(* an account holds its balance row to the end, so a check of the balance  *)
(* and the write it allows are one step here.  One currency.               *)
(***************************************************************************)
EXTENDS Desk, Sequences, SequencesExt, FiniteSets

CONSTANTS Accounts,  \* the shop's accounts: one per till, the bank, the hidden one
          outside,   \* "Tashqi mablag'": what the owner pays out of pocket
          Sums,      \* amounts people enter
          MaxRows    \* bound: rows of the ledger

ASSUME LedgerAssumption == outside \in Accounts /\ Sums \subseteq Nat \ {0}

VARIABLES
  rows,   \* financial_transactions
  funds   \* account_balances.balance

books == <<rows, funds>>

BooksInit == rows = <<>> /\ funds = [a \in Accounts |-> 0]

ShopAccounts == Accounts \ {outside}

\* A row on one account; "of" is the shift or the wage it belongs to.
Leg(kind, source, account, amount, of) ==
  [kind |-> kind, source |-> source, account |-> account, to |-> account,
   amount |-> amount, of |-> of, pair |-> 0, reverses |-> 0, cancelled |-> FALSE]

\* What a row does to a balance.
Effect(row, a) ==
  CASE row.kind = "transfer" -> (IF row.to = a THEN row.amount ELSE 0)
                                - (IF row.account = a THEN row.amount ELSE 0)
    [] row.kind = "expense"  -> IF row.account = a THEN 0 - row.amount ELSE 0
    [] OTHER                 -> IF row.account = a THEN row.amount ELSE 0

\* Rows are written and their balances move, in one transaction.
Write(new) ==
  /\ Len(rows) + Len(new) <= MaxRows
  /\ rows' = rows \o new
  /\ funds' = [a \in Accounts |-> funds[a] + FoldLeft(LAMBDA sum, r : sum + Effect(r, a), 0, new)]

\* Refused below zero unless the user saw the warning and confirmed.
Covers(a, amount, confirmed) == confirmed \/ a = outside \/ funds[a] >= amount

\* An expense: one leg on a shop account, or, paid out of the owner's pocket,
\* a capital income and the expense as a pair on the hidden account.  It is
\* written after n other rows; its expense leg is the last of it.
ExpenseAfter(n, source, account, amount, of) ==
  IF account = outside
    THEN <<[Leg("income", "external", outside, amount, of) EXCEPT !.pair = n + 1],
           [Leg("expense", source, outside, amount, of) EXCEPT !.pair = n + 1]>>
    ELSE <<Leg("expense", source, account, amount, of)>>

Width(account) == IF account = outside THEN 2 ELSE 1

Expense(source, account, amount, of) == ExpenseAfter(Len(rows), source, account, amount, of)
ExpenseRow(account) == Len(rows) + Width(account)

------------------------------------------------------------------------------
\* Storno.

\* A row and its partner.
LegsOf(n) == {m \in DOMAIN rows : m = n \/ (rows[n].pair # 0 /\ rows[m].pair = rows[n].pair)}

Reversible(n, manualOnly) ==
  \A m \in LegsOf(n) : /\ rows[m].source # "reversal"
                       /\ rows[m].kind \in {"income", "expense", "transfer"}
                       /\ manualOnly => rows[m].source \in {"manual", "external"}

\* Mutant: a row that was cancelled may be cancelled again.
NotCancelledEver(n) == TRUE

NotCancelled(n) == \A m \in LegsOf(n) : ~rows[m].cancelled

\* The account a reversal debits.
Debited(row) == CASE row.kind = "income"   -> {row.account}
                  [] row.kind = "transfer" -> {row.to}
                  [] OTHER                 -> {}

ReversalOf(n) ==
  [rows[n] EXCEPT !.kind = CASE @ = "income" -> "expense" [] @ = "expense" -> "income" [] OTHER -> @,
                  !.account = IF rows[n].kind = "transfer" THEN rows[n].to ELSE @,
                  !.to = rows[n].account,
                  !.source = "reversal", !.pair = 0, !.reverses = n]

CanReverse(n, manualOnly, confirmed) ==
  /\ NotCancelled(n) /\ Reversible(n, manualOnly)
  /\ \A m \in LegsOf(n) : \A a \in Debited(rows[m]) : Covers(a, rows[m].amount, confirmed)

\* A pair is numbered by its first leg; the second follows it.
InOrder(n) == IF rows[n].pair = 0 THEN <<n>> ELSE <<rows[n].pair, rows[n].pair + 1>>

\* Reversal rows for both legs of a pair, the originals marked.
WriteReversal(n) ==
  LET new == [k \in DOMAIN InOrder(n) |-> ReversalOf(InOrder(n)[k])]
  IN  /\ Len(rows) + Len(new) <= MaxRows
      /\ rows' = [m \in DOMAIN rows |-> [rows[m] EXCEPT !.cancelled = @ \/ m \in LegsOf(n)]] \o new
      /\ funds' = [a \in Accounts |->
                     funds[a] + FoldLeft(LAMBDA sum, r : sum + Effect(r, a), 0, new)]

------------------------------------------------------------------------------
\* The Moliya page.

Income == \E a \in ShopAccounts, x \in Sums : Write(<<Leg("income", "manual", a, x, "none")>>)

SpendManually ==
  \E a \in Accounts, x \in Sums, confirmed \in BOOLEAN :
    Covers(a, x, confirmed) /\ Write(Expense("manual", a, x, "none"))

Transfer ==
  \E a, b \in ShopAccounts, x \in Sums, confirmed \in BOOLEAN :
    /\ a # b /\ Covers(a, x, confirmed)
    /\ Write(<<[Leg("transfer", "manual", a, x, "none") EXCEPT !.to = b]>>)

CancelManually ==
  \E n \in DOMAIN rows, confirmed \in BOOLEAN :
    CanReverse(n, TRUE, confirmed) /\ WriteReversal(n)

FinanceNext == Income \/ SpendManually \/ Transfer \/ CancelManually

------------------------------------------------------------------------------
\* A cancelled row has one reversal that undoes it, a live row none, and the
\* two legs of a pair go together.
ReversedOnce ==
  \A n \in DOMAIN rows :
    LET answers == {m \in DOMAIN rows : rows[m].reverses = n}
    IN  /\ rows[n].cancelled => \E m \in answers : answers = {m}
        /\ ~rows[n].cancelled => answers = {}
        /\ \A m \in answers : \A a \in Accounts : Effect(rows[m], a) = 0 - Effect(rows[n], a)
        /\ \A m \in LegsOf(n) : rows[m].cancelled = rows[n].cancelled
=============================================================================
