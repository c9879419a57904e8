------------------------------ MODULE ShiftCash ------------------------------
(***************************************************************************)
(* The drawer: shifts are opened on a register, take sales, refunds and    *)
(* manual movements, and are closed with a Z-report.  Movements go into    *)
(* the ledger when they happen, sales and refunds when the shift closes.   *)
(*                                                                         *)
(* Every handler looks at the shift first and writes in a later statement  *)
(* or transaction, by the shift's id, without looking at its status again; *)
(* no index says a register has one open shift.  Only cash is told here:   *)
(* the other tenders take the same way to the non-cash account.            *)
(***************************************************************************)
EXTENDS MoneyLedger

CONSTANTS Shifts,     \* shift ids
          Registers,  \* the tills; each is also the ledger's account of its cash
          Floats,     \* what the drawer may hold when it is opened
          Amounts,    \* sales, refunds and movements
          MaxEvents   \* bound: sales, refunds and movements of one shift

ASSUME RegistersAssumption == Registers \subseteq ShopAccounts
ASSUME AmountsAssumption == Floats \subseteq Nat /\ Amounts \subseteq Nat \ {0}

VARIABLES
  shift,    \* cash_shifts: its status, register and opening float
  sales,    \* cash tenders of the orders of the shift that are not cancelled
  refunds,  \* cash paid out by its returns
  movedIn,  \* cash_movements into the drawer
  movedOut, \* and out of it
  zReport,  \* cash_shifts.expected_cash, written at the close
  events,   \* how many of these it has had
  late,     \* what was booked on it after it was closed: sales less refunds
  voided    \* sales of it that were cancelled after the close

drawer == <<sales, refunds, movedIn, movedOut, events, late, voided>>
shiftVars == <<shift, drawer, zReport, books, desk>>

NoShift == [status |-> "none"]

ShiftInit ==
  /\ BooksInit /\ DeskInit
  /\ shift = [h \in Shifts |-> NoShift]
  /\ sales = [h \in Shifts |-> 0]
  /\ refunds = [h \in Shifts |-> 0]
  /\ movedIn = [h \in Shifts |-> 0]
  /\ movedOut = [h \in Shifts |-> 0]
  /\ zReport = [h \in Shifts |-> 0]
  /\ events = [h \in Shifts |-> 0]
  /\ late = [h \in Shifts |-> 0]
  /\ voided = [h \in Shifts |-> 0]

IsOpen(h) == shift[h].status = "open"
IsClosed(h) == shift[h].status = "closed"
OpenOn(r) == {h \in Shifts : IsOpen(h) /\ shift[h].register = r}

------------------------------------------------------------------------------
\* openShift()

Free(r) == OpenOn(r) = {}

LookToOpen(s) ==
  \E r \in Registers, f \in Floats :
    /\ Free(r)
    /\ Enter(s, "open", [kind |-> "open", register |-> r, float |-> f], NothingSeen)
    /\ UNCHANGED <<shift, drawer, zReport, books>>

OpenShift(s) ==
  /\ Leave(s, "open")
  /\ \E h \in Shifts :
       /\ shift[h] = NoShift
       /\ shift' = [shift EXCEPT ![h] =
                      [status |-> "open", register |-> job[s].register, float |-> job[s].float]]
  /\ UNCHANGED <<drawer, zReport, books>>

------------------------------------------------------------------------------
\* Sales and returns: resolveShiftForSale() finds the shift, the transaction
\* comes later.  A till that was offline names the shift of its sale itself,
\* open or not.

Book(h, amount) ==
  /\ events[h] < MaxEvents
  /\ events' = [events EXCEPT ![h] = @ + 1]
  /\ late' = [late EXCEPT ![h] = IF IsClosed(h) THEN @ + amount ELSE @]

LookToSell(s) ==
  \E h \in Shifts, x \in Amounts, named \in BOOLEAN, kind \in {"sale", "refund"} :
    /\ shift[h] # NoShift
    /\ ~named => IsOpen(h)
    /\ Enter(s, kind, [kind |-> kind, shift |-> h, amount |-> x], NothingSeen)
    /\ UNCHANGED <<shift, drawer, zReport, books>>

BookSale(s) ==
  LET h == job[s].shift
      x == job[s].amount
  IN  /\ Leave(s, "sale")
      /\ Book(h, x)
      /\ sales' = [sales EXCEPT ![h] = @ + x]
      /\ UNCHANGED <<shift, refunds, movedIn, movedOut, voided, zReport, books>>

BookRefund(s) ==
  LET h == job[s].shift
      x == job[s].amount
  IN  /\ Leave(s, "refund")
      /\ Book(h, 0 - x)
      /\ refunds' = [refunds EXCEPT ![h] = @ + x]
      /\ UNCHANGED <<shift, sales, movedIn, movedOut, voided, zReport, books>>

\* updateStatus() or remove() of a sale: it no longer counts for its shift.
VoidSale ==
  \E h \in Shifts, x \in Amounts :
    /\ x <= sales[h]
    /\ sales' = [sales EXCEPT ![h] = @ - x]
    /\ voided' = [voided EXCEPT ![h] = IF IsClosed(h) THEN @ + x ELSE @]
    /\ UNCHANGED <<shift, refunds, movedIn, movedOut, events, late, zReport, books, desk>>

------------------------------------------------------------------------------
\* addMovement() and paySupplier(): a movement and its ledger row, together.

LookToMove(s) ==
  \E h \in Shifts, x \in Amounts, way \in {"in", "out", "supplier"} :
    /\ IsOpen(h)
    /\ Enter(s, "move", [kind |-> "move", shift |-> h, amount |-> x, way |-> way], NothingSeen)
    /\ UNCHANGED <<shift, drawer, zReport, books>>

Mirror(j, r) ==
  Write(<<CASE j.way = "in"  -> Leg("income", "cash_movement", r, j.amount, j.shift)
            [] j.way = "out" -> Leg("expense", "cash_movement", r, j.amount, j.shift)
            [] OTHER         -> Leg("expense", "supplier_payment", r, j.amount, j.shift)>>)

BookMovement(s) ==
  LET h == job[s].shift
      x == job[s].amount
  IN  /\ Leave(s, "move")
      /\ Mirror(job[s], shift[h].register)
      /\ events[h] < MaxEvents
      /\ events' = [events EXCEPT ![h] = @ + 1]
      /\ movedIn' = [movedIn EXCEPT ![h] = IF job[s].way = "in" THEN @ + x ELSE @]
      /\ movedOut' = [movedOut EXCEPT ![h] = IF job[s].way = "in" THEN @ ELSE @ + x]
      /\ UNCHANGED <<shift, sales, refunds, late, voided, zReport>>

------------------------------------------------------------------------------
\* closeShift(): the status and the movements, then the orders and returns,
\* then the transaction.

LookToClose(s) ==
  \E h \in Shifts :
    /\ IsOpen(h)
    /\ Enter(s, "sum", [kind |-> "close", shift |-> h],
             [kind |-> "moves", movedIn |-> movedIn[h], movedOut |-> movedOut[h]])
    /\ UNCHANGED <<shift, drawer, zReport, books>>

SumSales(s) ==
  LET h == job[s].shift
  IN  /\ Proceed(s, "sum", "close",
           [kind |-> "totals", movedIn |-> seen[s].movedIn, movedOut |-> seen[s].movedOut,
            sales |-> sales[h], refunds |-> refunds[h]])
      /\ UNCHANGED <<shift, drawer, zReport, books>>

\* The cash row of the reconciliation.
Expected(float, n) == float + (n.sales + n.movedIn) - (n.movedOut + n.refunds)

\* Mutant: the close posts the movements again.
SalesWithMoves(n) == n.sales - n.refunds + n.movedIn

\* Net of refunds; movements were mirrored when they were made.
NetSales(n) == n.sales - n.refunds

CloseShift(s) ==
  LET h == job[s].shift
      net == NetSales(seen[s])
  IN  /\ Leave(s, "close")
      /\ shift' = [shift EXCEPT ![h].status = "closed"]
      /\ zReport' = [zReport EXCEPT ![h] = Expected(shift[h].float, seen[s])]
      /\ IF net = 0 THEN UNCHANGED books
         ELSE Write(<<Leg("shift_close", "shift_close", shift[h].register, net, h)>>)
      /\ UNCHANGED drawer

ShiftGivesUp(s) == Abandon(s) /\ UNCHANGED <<shift, drawer, zReport, books>>

\* The owner moves money on the Moliya page.
FinancePage == FinanceNext /\ UNCHANGED <<shift, drawer, zReport, desk>>

ShiftNext ==
  \/ VoidSale
  \/ FinancePage
  \/ \E s \in Sessions :
       \/ LookToOpen(s) \/ OpenShift(s)
       \/ LookToSell(s) \/ BookSale(s) \/ BookRefund(s)
       \/ LookToMove(s) \/ BookMovement(s)
       \/ LookToClose(s) \/ SumSales(s) \/ CloseShift(s)
       \/ ShiftGivesUp(s)

ShiftSpec == ShiftInit /\ [][ShiftNext]_shiftVars

------------------------------------------------------------------------------
\* What the drawer of a closed shift took in net of movements, at its close.
TakenBy(h) == sales[h] + voided[h] - refunds[h] - late[h]

\* The Z-report is what the drawer held when the shift was closed: no sale,
\* refund or movement fell between the reads and the close.
ReportTrue ==
  \A h \in Shifts : IsClosed(h) =>
    zReport[h] = shift[h].float + movedIn[h] - movedOut[h] + TakenBy(h)

\* What the ledger says of a shift.
InLedger(h) == SumFunction([n \in DOMAIN rows |-> IF rows[n].of = h
                                                  THEN Effect(rows[n], shift[h].register) ELSE 0])

\* "No double-counting": the ledger has a shift's movements as they are made
\* and, from its close on, exactly what its sales and refunds came to.
PostedOnce ==
  \A h \in Shifts : shift[h] # NoShift =>
    InLedger(h) = movedIn[h] - movedOut[h] + (IF IsClosed(h) THEN TakenBy(h) ELSE 0)

\* A register has one open shift.
OneOpenShift == \A r \in Registers : \A g, h \in OpenOn(r) : g = h
=============================================================================
