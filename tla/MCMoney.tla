------------------------------- MODULE MCMoney -------------------------------
(***************************************************************************)
(* The money of customers, drawers and employees, one of them at a time:   *)
(* a load runs one module while the others rest.  In a load named "alone"  *)
(* requests come one after another, in one named "together" they overlap.  *)
(***************************************************************************)
EXTENDS CreditSale, ShiftCash, Payroll, TLC

CONSTANTS Loads, s1, s2, till, bank, pocket, e1, e2, h1, h2
VARIABLE load

\* Two units for 6 and one for 3: with a fifth off, shares that do not divide.
Basket == {[sold |-> <<2, 1>>, worth |-> <<6, 3>>]}
Tender == {[credit |-> TRUE, cash |-> 0, card |-> 0],
           [credit |-> TRUE, cash |-> 2, card |-> 0],
           [credit |-> FALSE, cash |-> 20, card |-> 1]}
Points == [percent |-> 20, minimum |-> 4, cap |-> 50, tiers |-> {[from |-> 8, percent |-> 40]}]
MonthlyPay == [e \in Staff |-> IF e = e1 THEN 2 ELSE 1]

credits == <<order, debt, points>>
drawers == <<shift, drawer, zReport>>

------------------------------------------------------------------------------
\* One request at a time, and nothing else while it runs.
OneAtATime == \A s, t \in Sessions : phase'[s] # "idle" /\ phase'[t] # "idle" => s = t
Alone == OneAtATime /\ (desk' = desk => \A s \in Sessions : phase'[s] = "idle")

Rung == {i \in Sales : receipt'[i].state # "none"}
ManualRows == {k \in DOMAIN rows' : rows'[k].source \in {"manual", "external"}}

\* A payment entered on a debt is followed by its status, the server staying up.
Recorded == \A s \in Sessions : /\ phase[s] = "sum" => phase'[s] = "mark"
                                /\ phase[s] = "mark" => MarkDebt(s)

\* CreditNext, with one sale or debt where only points relate two.
AtStake == IF load = "credit points" THEN Sales ELSE Sales \cap {1}

CreditMoves ==
  \/ ListDebts
  \/ \E i \in AtStake : Sell(i) \/ DueDatePasses(i) \/ Lend(i) \/ EditDebt(i) \/ ForgiveDebt(i)
  \/ \E s \in Sessions :
       \/ LookToPay(s) \/ EnterPayment(s) \/ LookToUnpay(s) \/ DropPayment(s)
       \/ SumPaid(s) \/ MarkDebt(s)
       \/ TakeBack(s) \/ Settle(s)
       \/ LookToDelete(s) \/ ReadMoves(s) \/ LockCustomer(s) \/ Erase(s)
       \/ CreditGivesUp(s)

\* What each load leaves out.
CreditStep ==
  CASE load = "credit alone"    -> Alone /\ Recorded
    [] load = "credit points"   -> Alone /\ \A i \in Sales : owed'[i] = 0
    [] load = "credit together" -> /\ \A i \in Sales : ~byHand'[i] /\ due'[i] # "past"
                                   /\ \A i \in Rung : receipt'[i].down = 2 /\ receipt'[i].total = 9

ShiftStep == CASE load = "shift alone" -> Alone /\ ManualRows = {}
               [] load = "page"        -> phase' = phase /\ Len(rows') <= 3

PayrollStep ==
  CASE load = "wages alone"    -> /\ Alone /\ (ManualRows = {} \/ Len(rows') + Len(entries') <= 3)
                                  /\ \A k \in DOMAIN rows' : rows'[k].account # bank
    [] load = "wages together" -> /\ ManualRows = {} /\ Len(rows') <= 2 /\ Len(entries') <= 2
                                  /\ \A k \in DOMAIN rows' : rows'[k].account = till

Symmetric == Permutations(Sessions) \union Permutations(Shifts)

MCInit == CreditInit /\ ShiftInit /\ PayrollInit /\ load \in Loads

MCNext ==
  \/ /\ load \in {"credit alone", "credit points", "credit together"}
     /\ CreditMoves /\ CreditStep
     /\ UNCHANGED <<drawers, payroll, books, load>>
  \/ /\ load \in {"shift alone", "page"}
     /\ ShiftNext /\ ShiftStep
     /\ UNCHANGED <<credits, payroll, load>>
  \/ /\ load \in {"wages alone", "wages together"}
     /\ PayrollNext /\ PayrollStep
     /\ UNCHANGED <<credits, drawers, load>>

------------------------------------------------------------------------------
\* What holds with one request at a time.
AloneCustomersTrue ==
  /\ load = "credit alone" /\ AtRest => DebtCapped /\ StandingTrue
  /\ load = "credit points" => PointsAddUp /\ PointsNotOverspent
AloneDrawerTrue == load = "shift alone" => OneOpenShift /\ ReportTrue /\ PostedOnce
AloneWagesTrue == load = "wages alone" => WagesAddUp /\ CronCovers

MCSpec == MCInit /\ [][MCNext]_<<credits, drawers, payroll, books, desk, load>>
=============================================================================
