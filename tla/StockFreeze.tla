----------------------------- MODULE StockFreeze -----------------------------
(***************************************************************************)
(* Inventory counts (StockTakeService) and the freeze that keeps a book    *)
(* quantity still while one is open: the flag in the cache that documents  *)
(* ask before they move stock, in front of the stock_takes table           *)
(* (stock-take-lock.ts).  One product of one branch.                       *)
(*                                                                         *)
(* The flag lives in a shared Redis: it outlives a restart of the server,  *)
(* entries expire, and an operation that takes too long is a miss, or is   *)
(* dropped.                                                                *)
(***************************************************************************)
EXTENDS Integers, Sequences, Functions

CONSTANTS Takes,     \* the stock-takes that can be started
          NoTake,
          Quantities,\* what a counter may count
          MaxStock,  \* documents move one unit at a time between 0 and this
          Handlers,  \* the handlers this instance runs
          Faults,    \* what can go wrong around them: "restart", "cache", "table"
          Sessions   \* concurrent requests

AllHandlers == {"start full", "start partial", "count", "complete", "cancel", "move", "restock"}

ASSUME NamesAssumption == NoTake \notin Takes
ASSUME QuantitiesAssumption == Quantities \subseteq Nat
ASSUME MaxStockAssumption == MaxStock \in Nat
ASSUME HandlersAssumption == Handlers \subseteq AllHandlers

VARIABLES
  status,   \* stock_takes.status; "unused" before the row
  rows,     \* stock_take_items: the product's rows, book and counted quantity
  applied,  \* what completing it added to the stock (stock_takes.diff_value)
  posted,   \* how many times completing it posted its adjustments
  stock,    \* branch_stock.quantity
  flag,     \* the cached flag: "absent", "open", "clear"
  phase,    \* where each session is
  job,      \* what it was asked to do
  found     \* what it read: the row to update, or the answer of the database

tables == <<status, rows, applied, posted, stock>>
session == <<phase, job, found>>
vars == <<tables, flag, session>>

NoJob == [kind |-> "none", take |-> NoTake, qty |-> 0]

\* What a session may have found: no row, a row (its place), a row that is gone,
\* or whether a count is open.
NoRow == 0
Gone == -1
Answer(yes) == IF yes THEN 1 ELSE 0

Init == /\ status = [t \in Takes |-> "unused"]
        /\ rows = [t \in Takes |-> <<>>]
        /\ applied = [t \in Takes |-> 0]
        /\ posted = [t \in Takes |-> 0]
        /\ stock \in 0..MaxStock
        /\ flag = "absent"
        /\ phase = [s \in Sessions |-> "idle"]
        /\ job = [s \in Sessions |-> NoJob]
        /\ found = [s \in Sessions |-> NoRow]

Counting == \E t \in Takes : status[t] = "in_progress"

------------------------------------------------------------------------------
\* A request comes in, and goes.

Step(s, here, there) == phase[s] = here /\ phase' = [phase EXCEPT ![s] = there]

End(s, here) == /\ Step(s, here, "idle")
                /\ job' = [job EXCEPT ![s] = NoJob]
                /\ found' = [found EXCEPT ![s] = NoRow]

FirstPhase(kind) == CASE kind = "move"    -> "ask"
                      [] kind = "restock" -> "move"
                      [] OTHER            -> "look"

\* Documents move a unit in or out; what the guarded ones do differs only in
\* that they ask first.
Begin(s) ==
  \E kind \in Handlers, t \in Takes \cup {NoTake}, n \in Quantities \cup {-1} :
    /\ Step(s, "idle", FirstPhase(kind))
    /\ (t = NoTake) = (kind \in {"move", "restock", "start full", "start partial"})
    /\ t # NoTake => status[t] # "unused"
    /\ CASE kind = "count"   -> n \in Quantities
         [] kind = "move"    -> n \in {-1, 1}
         [] kind = "restock" -> n = 1
         [] OTHER            -> n = -1
    /\ job' = [job EXCEPT ![s] = [kind |-> kind, take |-> t, qty |-> n]]
    /\ UNCHANGED <<tables, flag, found>>

\* Refused, or dead before its transaction committed.
GiveUp(s) == /\ phase[s] \notin {"idle", "flag"}
             /\ End(s, phase[s])
             /\ UNCHANGED <<tables, flag>>

\* The server restarts; the cache does not.
Restart == /\ "restart" \in Faults
           /\ phase' = [s \in Sessions |-> "idle"]
           /\ job' = [s \in Sessions |-> NoJob]
           /\ found' = [s \in Sessions |-> NoRow]
           /\ UNCHANGED <<tables, flag>>

------------------------------------------------------------------------------
\* The flag (isStockTakeActive, setStockTakeActive, clearStockTakeActive).

\* A write to the cache, which may be dropped.
Write(value) == \/ flag' = value
                \/ "cache" \in Faults /\ UNCHANGED flag

\* Mutant: the flag is kept until it is overwritten.
ExpireNever == FALSE /\ UNCHANGED vars

Expire == /\ flag # "absent"
          /\ flag' = "absent"
          /\ UNCHANGED <<tables, session>>

\* cache.wrap: the cached answer...
\* Mutant: documents do not ask whether a count is open.
AskCacheUnheeded(s) == /\ flag # "absent"
                       /\ Step(s, "ask", "move")
                       /\ UNCHANGED <<tables, flag, job, found>>

AskCache(s) == /\ flag # "absent"
               /\ IF flag = "open" THEN End(s, "ask")
                                   ELSE Step(s, "ask", "move") /\ UNCHANGED <<job, found>>
               /\ UNCHANGED <<tables, flag>>

\* ... or, on a miss, that of the table,
AskTable(s) == /\ flag = "absent" \/ "cache" \in Faults
               /\ Step(s, "ask", "answer")
               /\ found' = [found EXCEPT ![s] = Answer(Counting)]
               /\ UNCHANGED <<tables, flag, job>>

\* which is put in the cache.
PutAnswer(s) == /\ IF found[s] = Answer(TRUE)
                   THEN End(s, "answer") /\ Write("open")
                   ELSE /\ Step(s, "answer", "move") /\ Write("clear")
                        /\ UNCHANGED <<job, found>>
                /\ UNCHANGED tables

\* The table cannot be read: "fail open so the till is never stuck".
FailOpen(s) == /\ "table" \in Faults
               /\ flag = "absent"
               /\ Step(s, "ask", "move")
               /\ UNCHANGED <<tables, flag, job, found>>

\* A document moves its unit.  Guarded ones refuse to go below zero.
Move(s) == LET n == job[s].qty
           IN  /\ End(s, "move")
               /\ stock + n \in 0..MaxStock
               /\ stock' = stock + n
               /\ UNCHANGED <<status, rows, applied, posted, flag>>

------------------------------------------------------------------------------
\* Counts look at the table before their transaction.

Startable == ~Counting

\* Mutant: a completed or cancelled count can be taken up again.
OpenAny(t) == status[t] # "unused"

Open(t) == status[t] = "in_progress"

AfterLook(kind) == CASE kind = "count"    -> "scan"
                     [] kind = "complete" -> "lock"
                     [] kind = "cancel"   -> "cancel"
                     [] OTHER             -> "start"

Look(s) == LET j == job[s]
           IN  /\ Step(s, "look", AfterLook(j.kind))
               /\ IF j.take = NoTake THEN Startable ELSE Open(j.take)
               /\ UNCHANGED <<tables, flag, job, found>>

\* A full count takes the book quantity of everything; a partial one starts empty.
Start(s) ==
  /\ Step(s, "start", "flag")
  /\ \E t \in Takes :
       /\ status[t] = "unused"
       /\ status' = [status EXCEPT ![t] = "in_progress"]
       /\ rows' = IF job[s].kind = "start full"
                  THEN [rows EXCEPT ![t] = <<[book |-> stock, counted |-> 0]>>]
                  ELSE rows
  /\ UNCHANGED <<applied, posted, stock, flag, job, found>>

\* Mutant: the flag is not deleted when a count ends.
SetFlagOnly(s) == /\ End(s, "flag")
                  /\ IF job[s].kind \in {"start full", "start partial"} THEN Write("open")
                                                                        ELSE UNCHANGED flag
                  /\ UNCHANGED tables

\* The flag follows the transaction: set after a start, deleted after the rest.
SetFlag(s) == /\ End(s, "flag")
              /\ Write(IF job[s].kind \in {"start full", "start partial"} THEN "open" ELSE "absent")
              /\ UNCHANGED tables

\* count(): read the product's row in this count, then update or insert it.
Scan(s) == /\ Step(s, "scan", "count")
           /\ LET t == job[s].take
              IN  \E r \in IF rows[t] = <<>> THEN {NoRow} ELSE DOMAIN rows[t] :
                     found' = [found EXCEPT ![s] = r]
           /\ UNCHANGED <<tables, flag, job>>

Count(s) ==
  LET t == job[s].take
      r == found[s]
      n == job[s].qty
  IN  /\ End(s, "count")
      /\ rows' = CASE r = NoRow -> [rows EXCEPT ![t] = Append(@, [book |-> stock, counted |-> n])]
                   [] r = Gone  -> rows
                   [] OTHER     -> [rows EXCEPT ![t][r].counted = n]
      /\ UNCHANGED <<status, applied, posted, stock, flag>>

\* complete() and cancel() lock the stock-take and look again.
Unlocked(t) == \A u \in Sessions : ~(phase[u] = "complete" /\ job[u].take = t)

Diff(r) == r.counted - r.book

\* What the rows of a stock-take add to the stock.
Total(rs) == SumFunction([i \in DOMAIN rs |-> Diff(rs[i])])

\* Reads the rows under the lock...
LockTake(s) == LET t == job[s].take
               IN  /\ Step(s, "lock", "complete")
                   /\ Unlocked(t)
                   /\ Open(t)
                   /\ found' = [found EXCEPT ![s] = Total(rows[t])]
                   /\ UNCHANGED <<tables, flag, job>>

\* ... and applies what they say.
Complete(s) == LET t == job[s].take
               IN  /\ Step(s, "complete", "flag")
                   /\ status' = [status EXCEPT ![t] = "completed"]
                   /\ applied' = [applied EXCEPT ![t] = found[s]]
                   /\ posted' = [posted EXCEPT ![t] = @ + 1]
                   /\ stock' = stock + found[s]
                   /\ UNCHANGED <<rows, flag, job, found>>

\* The rows go: whoever read one updates nothing.
Cancel(s) == LET t == job[s].take
             IN  /\ Step(s, "cancel", "flag")
                 /\ Unlocked(t)
                 /\ Open(t)
                 /\ status' = [status EXCEPT ![t] = "cancelled"]
                 /\ rows' = [rows EXCEPT ![t] = <<>>]
                 /\ found' = [u \in Sessions |-> IF phase[u] = "count" /\ job[u].take = t /\ found[u] # NoRow
                                                 THEN Gone ELSE found[u]]
                 /\ UNCHANGED <<applied, posted, stock, flag, job>>

------------------------------------------------------------------------------
Handle(s) == \/ AskCache(s) \/ AskTable(s) \/ PutAnswer(s) \/ FailOpen(s) \/ Move(s)
             \/ Look(s) \/ Start(s) \/ SetFlag(s) \/ Scan(s) \/ Count(s)
             \/ LockTake(s) \/ Complete(s) \/ Cancel(s)

Next == \/ \E s \in Sessions : Begin(s) \/ GiveUp(s) \/ Handle(s)
        \/ Restart
        \/ Expire

Spec == Init /\ [][Next]_vars

\* Cache entries do expire.
LiveSpec == Spec /\ WF_vars(Expire)

------------------------------------------------------------------------------
\* Properties.

Statuses == {"unused", "in_progress", "completed", "cancelled"}
Phases == {"idle", "ask", "answer", "move", "look", "start", "flag", "scan", "count",
           "lock", "complete", "cancel"}

TypeOK == /\ status \in [Takes -> Statuses]
          /\ posted \in [Takes -> Nat]
          /\ flag \in {"absent", "open", "clear"}
          /\ phase \in [Sessions -> Phases]
          /\ job \in [Sessions -> [kind : AllHandlers \cup {"none"}, take : Takes \cup {NoTake},
                                   qty : Int]]

\* "Two concurrent completes must not both pass the pre-check" and adjust the
\* stock twice, nor a complete and a cancel: the adjustments of a count are
\* posted once if it was completed, else never.
AppliedOnce == \A t \in Takes : posted[t] = IF status[t] = "completed" THEN 1 ELSE 0

\* A count that was completed or cancelled stays so, whatever was on its way.
EndedStays ==
  [][\A t \in Takes : status[t] \in {"completed", "cancelled"} => status'[t] = status[t]]_vars

\* "Only one active count at a time".
OneCount ==
  \A t, u \in Takes : status[t] = "in_progress" /\ status[u] = "in_progress" => t = u

Landed(t) == \/ rows[t] = <<>> /\ stock' = stock
             \/ \E i \in DOMAIN rows[t] : stock' = rows[t][i].counted

\* Completing a count snaps the "stock to the counted reality": sales are frozen,
\* so adding the difference lands the stock at what was counted.
CountLands ==
  [][\A t \in Takes : status[t] = "in_progress" /\ status'[t] = "completed" => Landed(t)]_vars

\* A scan updates the product's row: a count has at most one for it ("upsert
\* scanned rows").
OneRowEach == \A t \in Takes : Len(rows[t]) <= 1

\* A completed count is history: its rows say what was added to the stock
\* ("Stock-take is already completed").
DocumentTrue == \A t \in Takes : status[t] = "completed" => applied[t] = Total(rows[t])

\* Between requests the cached flag agrees with the table.
FlagHonest == (\A s \in Sessions : phase[s] = "idle") =>
                /\ flag = "open" => Counting
                /\ flag = "clear" => ~Counting

\* "The till is never stuck": once no count is open, the flag does not go on
\* saying that one is.
NotStuck == ~Counting ~> (flag # "open" \/ Counting)

\* The inductive invariant behind the theorems of StockFreezeProofs.

\* Only the request that holds a stock-take's lock has it open to complete.
Holders == \A s \in Sessions : phase[s] = "complete" =>
             /\ job[s].take \in Takes
             /\ status[job[s].take] = "in_progress"
             /\ \A u \in Sessions : phase[u] = "complete" /\ job[u].take = job[s].take => u = s

\* Whoever works on a stock-take has one.
Asked == \A s \in Sessions :
           /\ phase[s] \in {"scan", "count", "lock", "cancel"} => job[s].take \in Takes
           /\ phase[s] = "look" /\ job[s].take = NoTake => AfterLook(job[s].kind) = "start"

IInv == TypeOK /\ Holders /\ Asked /\ AppliedOnce
=============================================================================
