------------------------------- MODULE Payroll -------------------------------
(***************************************************************************)
(* Wages: what each employee is owed is kept as a running balance next to  *)
(* the entries that explain it.  A month is accrued by hand, for some or   *)
(* all employees, or by the cron on the 1st; payments go through the money *)
(* ledger in the same transaction; any entry can be undone.                *)
(*                                                                         *)
(* The preview of a month and the entry to undo are read before their      *)
(* transactions; a unique index keeps one accrual per employee and month.  *)
(***************************************************************************)
EXTENDS MoneyLedger

CONSTANTS Staff,       \* employees
          Wage,        \* what each earns in a month; 0: payroll is not set up
          Fines,       \* amounts of payments, bonuses and deductions
          MaxMonth,    \* bound: months, counted from 1
          MaxEntries   \* bound: payroll entries ever made

ASSUME PayrollAssumption == /\ IsFiniteSet(Staff)
                            /\ Wage \in [Staff -> Nat] /\ Fines \subseteq Nat \ {0}
                            /\ MaxMonth \in Nat

VARIABLES
  entries,   \* payroll_entries; an undone one stays as Gone
  wages,      \* staff.salary_balance
  today,     \* the current month
  lastAuto,  \* payroll_settings.last_auto_period, 0 if never
  undone      \* <<employee, month>> whose accrual someone undid

payroll == <<entries, wages, today, lastAuto, undone>>
payrollVars == <<payroll, books, desk>>

Gone == [type |-> "gone"]

PayrollInit ==
  /\ BooksInit /\ DeskInit
  /\ entries = <<>> /\ wages = [e \in Staff |-> 0]
  /\ today = 1 /\ lastAuto = 0 /\ undone = {}

Live == {n \in DOMAIN entries : entries[n] # Gone}
Signed(entry) == IF entry.type \in {"accrual", "bonus"} THEN entry.amount ELSE 0 - entry.amount
Accrued(e, month) == \E n \in Live : entries[n].type = "accrual" /\ entries[n].of = e
                                     /\ entries[n].month = month

Entry(type, e, amount, month, row) ==
  [type |-> type, of |-> e, amount |-> amount, month |-> month, row |-> row]

\* An entry and the balance it moves, in one transaction.
Post(new) ==
  /\ Len(entries) < MaxEntries
  /\ entries' = Append(entries, new)
  /\ wages' = [wages EXCEPT ![new.of] = @ + Signed(new)]

------------------------------------------------------------------------------
\* recordPayment() and recordAdjustment()

PayrollExpense(a, x, e) == Write(Expense("payroll", a, x, e))

RecordPayment ==
  \E e \in Staff, x \in Fines, a \in Accounts, confirmed \in BOOLEAN :
    /\ Covers(a, x, confirmed)
    /\ PayrollExpense(a, x, e)
    /\ Post(Entry("payment", e, x, 0, ExpenseRow(a)))
    /\ UNCHANGED <<today, lastAuto, undone, desk>>

RecordAdjustment ==
  \E e \in Staff, x \in Fines, type \in {"bonus", "deduction"} :
    /\ Post(Entry(type, e, x, 0, 0))
    /\ UNCHANGED <<today, lastAuto, undone, books, desk>>

------------------------------------------------------------------------------
\* removeEntry(): the entry is read first; the transaction takes back its
\* balance and its expense and deletes it, there or not.

LookToUndo(s) ==
  \E n \in Live :
    /\ Enter(s, "undo", [kind |-> "undo", entry |-> n], entries[n])
    /\ UNCHANGED <<payroll, books>>

\* Mutant: an undone payment leaves its expense in the ledger.
KeepExpense(row) == UNCHANGED books

UndoExpense(row) == CanReverse(row, FALSE, FALSE) /\ WriteReversal(row)

\* Mutant: the balance is moved the way the entry moved it.
TakenTwice(e, entry) == wages' = [wages EXCEPT ![e] = @ + Signed(entry)]

TakenBack(e, entry) == wages' = [wages EXCEPT ![e] = @ - Signed(entry)]

UndoEntry(s) ==
  LET entry == seen[s]
  IN  /\ Leave(s, "undo")
      /\ TakenBack(entry.of, entry)
      /\ IF entry.row # 0 THEN UndoExpense(entry.row) ELSE UNCHANGED books
      /\ entries' = [entries EXCEPT ![job[s].entry] = Gone]
      /\ undone' = IF entry.type = "accrual" THEN undone \union {<<entry.of, entry.month>>} ELSE undone
      /\ UNCHANGED <<today, lastAuto>>

------------------------------------------------------------------------------
\* accruePeriod()

\* previewPeriod(): who is on the payroll and has no accrual yet.
Pending(chosen, month) == {e \in chosen : Wage[e] > 0 /\ ~Accrued(e, month)}

LookToAccrue(s) ==
  \E month \in 1..today, chosen \in (SUBSET Staff) \ {{}} :
    /\ Pending(chosen, month) # {}
    /\ Enter(s, "accrue", [kind |-> "hand", month |-> month], Pending(chosen, month))
    /\ UNCHANGED <<payroll, books>>

\* One accrual that is there already refuses the whole transaction.
Collides(new, month) == \E e \in new : Accrued(e, month)

AccrueAll(new, month) ==
  LET order == SetToSeq(new)
  IN  /\ Len(entries) + Cardinality(new) <= MaxEntries
      /\ entries' = entries \o [k \in 1..Len(order) |->
                                  Entry("accrual", order[k], Wage[order[k]], month, 0)]
      /\ wages' = [e \in Staff |-> IF e \in new THEN wages[e] + Wage[e] ELSE wages[e]]

AccruePeriod(s) ==
  /\ Leave(s, "accrue")
  /\ IF Collides(seen[s], job[s].month) THEN UNCHANGED <<entries, wages>>
     ELSE AccrueAll(seen[s], job[s].month)
  /\ UNCHANGED <<today, lastAuto, undone, books>>

------------------------------------------------------------------------------
\* runAutoAccruals(), for the month before; "nothing to accrue" and "already
\* accrued" count as done, any other failure leaves the month unmarked.

LookToAutoAccrue(s) ==
  LET month == today - 1
  IN  /\ month > 0 /\ lastAuto # month
      /\ Enter(s, IF Pending(Staff, month) = {} THEN "mark" ELSE "auto",
               [kind |-> "cron", month |-> month], Pending(Staff, month))
      /\ UNCHANGED <<payroll, books>>

\* Mutant: the month is marked whether the accrual was committed or not.
AccrueOrNot(new, month) == UNCHANGED <<entries, wages>> \/ AccrueAll(new, month)

AccrueOrHandled(new, month) ==
  IF Collides(new, month) THEN UNCHANGED <<entries, wages>> ELSE AccrueAll(new, month)

AutoAccrue(s) ==
  /\ Proceed(s, "auto", "mark", seen[s])
  /\ AccrueOrHandled(seen[s], job[s].month)
  /\ UNCHANGED <<today, lastAuto, undone, books>>

MarkAuto(s) ==
  /\ Leave(s, "mark")
  /\ lastAuto' = job[s].month
  /\ UNCHANGED <<entries, wages, today, undone, books>>

NextMonth == /\ today < MaxMonth /\ today' = today + 1
             /\ UNCHANGED <<entries, wages, lastAuto, undone, books, desk>>

PayrollGivesUp(s) == Abandon(s) /\ UNCHANGED <<payroll, books>>

OwnersPage == FinanceNext /\ UNCHANGED <<payroll, desk>>

PayrollNext ==
  \/ RecordPayment \/ RecordAdjustment \/ NextMonth \/ OwnersPage
  \/ \E s \in Sessions :
       \/ LookToUndo(s) \/ UndoEntry(s)
       \/ LookToAccrue(s) \/ AccruePeriod(s)
       \/ LookToAutoAccrue(s) \/ AutoAccrue(s) \/ MarkAuto(s)
       \/ PayrollGivesUp(s)

PayrollSpec == PayrollInit /\ [][PayrollNext]_payrollVars

------------------------------------------------------------------------------
\* The ledger and the payroll tell one story, whoever works at the same time:
\* every payment that stands has its own expense row, of its amount and not
\* cancelled, and every payroll expense that is not cancelled has its payment.
PayrollMatchesLedger ==
  LET payments == {n \in Live : entries[n].type = "payment"}
      expenses == {r \in DOMAIN rows : rows[r].source = "payroll" /\ ~rows[r].cancelled}
  IN  /\ \A n \in payments : /\ entries[n].row \in expenses
                             /\ rows[entries[n].row].amount = entries[n].amount
                             /\ rows[entries[n].row].of = entries[n].of
      /\ \A r \in expenses : \E n \in payments : entries[n].row = r
      /\ \A m, n \in payments : entries[m].row = entries[n].row => m = n

\* "Denormalised mirror of SUM(payroll_entries)": what an employee is owed is
\* what the entries that stand say.
WagesAddUp ==
  \A e \in Staff :
    wages[e] = SumFunction([n \in Live |-> IF entries[n].of = e THEN Signed(entries[n]) ELSE 0])

\* Once the cron has marked a month, everyone on the payroll has the accrual
\* of that month, unless someone undid it.
CronCovers ==
  lastAuto > 0 => \A e \in Staff : Wage[e] > 0 /\ <<e, lastAuto>> \notin undone
                                   => Accrued(e, lastAuto)
=============================================================================
