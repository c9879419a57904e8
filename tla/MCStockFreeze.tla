---------------------------- MODULE MCStockFreeze ----------------------------
(***************************************************************************)
(* Two loads: "faults" has requests overlap on one stock-take while the    *)
(* server restarts, the cache drops writes and reads of the table fail;    *)
(* "alone" has one request at a time, and nothing fails, on two.           *)
(***************************************************************************)
EXTENDS StockFreeze, TLC

CONSTANTS Loads, t1, t2, s1, s2
VARIABLE load

Faultless == INSTANCE StockFreeze WITH Faults <- {}

OneAtATime == \A s, u \in Sessions : phase'[s] # "idle" /\ phase'[u] # "idle" => s = u

MCInit == Init /\ load \in Loads /\ (load = "faults" => stock <= 1)

MCNext ==
  /\ load' = load
  /\ \/ /\ load = "faults" /\ Next
        /\ stock' <= 1 /\ \A t \in Takes \ {t1} : status'[t] = "unused"
        /\ \A s \in Sessions : job'[s].qty <= 1
     \/ /\ load = "alone" /\ Faultless!Next
        /\ OneAtATime /\ \A s \in Sessions : job'[s].kind # "restock"

MCSpec == MCInit /\ [][MCNext]_<<vars, load>>
MCLiveSpec == MCSpec /\ WF_vars(Expire)

\* What holds with one request at a time and no faults: one open count, one row
\* for the product, a completed count as it was applied, a flag that tells.
AloneCountsTrue == load = "alone" => OneCount /\ OneRowEach /\ DocumentTrue /\ FlagHonest

\* And completing a count lands the stock at it (CountLands).
AloneCountLands ==
  [][\A t \in Takes : load = "alone" /\ status[t] = "in_progress" /\ status'[t] = "completed" =>
       Landed(t)]_vars

\* The inductive invariant behind the theorems of StockFreezeProofs about it.

\* At most one request is at work.
Lone == \A s, u \in Sessions : phase[s] # "idle" /\ phase[u] # "idle" => s = u

\* What it knows is so, from the look at the table to its transaction.
Knows(s) ==
  LET t == job[s].take
  IN  /\ phase[s] = "look" => (t = NoTake) = (AfterLook(job[s].kind) = "start")
      /\ phase[s] \in {"scan", "count", "lock", "complete", "cancel"} =>
           t \in Takes /\ status[t] = "in_progress" /\ AfterLook(job[s].kind) # "start"
      /\ phase[s] = "count" => found[s] = IF rows[t] = <<>> THEN NoRow ELSE 1
      /\ phase[s] = "complete" => found[s] = Total(rows[t])
      /\ phase[s] \in {"start", "move"} => ~Counting
      /\ phase[s] = "answer" => found[s] = Answer(Counting)
      /\ phase[s] = "flag" /\ job[s].kind \in {"start full", "start partial"} => Counting

\* The row of an open count holds the stock as it is: nothing moves meanwhile.
RowTrue(t) ==
  /\ status[t] = "unused" => rows[t] = <<>>
  /\ status[t] = "in_progress" =>
       rows[t] = <<>> \/ \E n \in Int : rows[t] = <<[book |-> stock, counted |-> n]>>
  /\ Len(rows[t]) <= 1
  /\ status[t] = "completed" => applied[t] = Total(rows[t])

\* The flag agrees with the table, but for the step between a transaction and it.
FlagFits == (\A s \in Sessions : phase[s] # "flag") =>
              /\ flag = "open" => Counting
              /\ flag = "clear" => ~Counting

AloneTypes == /\ stock \in Int
              /\ rows \in [Takes -> Seq([book : Int, counted : Int])]
              /\ applied \in [Takes -> Int]
              /\ found \in [Sessions -> Int]

AloneFacts == /\ AloneTypes /\ Lone /\ OneCount /\ FlagFits
              /\ \A s \in Sessions : Knows(s)
              /\ \A t \in Takes : RowTrue(t)

AloneIInv == IInv /\ (load = "alone" => AloneFacts)
=============================================================================
