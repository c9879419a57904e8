----------------------------- MODULE MCTillSale -----------------------------
(***************************************************************************)
(* The tills under two loads: "together", requests that overlap over few   *)
(* orders, and "alone", one request at a time over more orders.  What      *)
(* long sequences of legal calls must keep is asked of the second.  Carts  *)
(* are full; returns take back some of one or all of it.                   *)
(*                                                                         *)
(* Beside them the price the tills sell at, while the orders rest: moved   *)
(* "by hand" and by "deliveries", one request at a time, and by requests   *)
(* that come all at once.                                                  *)
(***************************************************************************)
EXTENDS TillSale, FiniteSets, TLC

CONSTANTS o1, o2, o3, s1, s2, s3, c1, c2,
          Loads,       \* the loads of this instance
          MaxTogether, \* bound: orders that requests which overlap make
          Notes, Figures, Opening, Units, MaxTime

\* Prices are whole tiyin.
ASSUME PricesAssumption == /\ Notes \subseteq Nat /\ Figures \subseteq Nat
                           /\ Opening \in Nat /\ Units \in Nat

VARIABLES load,
          card, notes, chain, awaited, told, now,
          step, task, memo   \* the sessions that move the price

Prices == INSTANCE PriceSteps WITH phase <- step, job <- task, seen <- memo

desk == <<step, task, memo>>
pricing == <<card, notes, chain, awaited, told, now, desk>>

Symmetric == Permutations(Ids) \cup Permutations(Sessions) \cup Permutations(Clients)

OneAtATime == \A s, u \in Sessions : phase'[s] # "idle" /\ phase'[u] # "idle" => s = u

Loaded == /\ load' = load
          /\ load = "alone" => OneAtATime
          /\ load = "together" => Cardinality({i \in Ids : status'[i] # "Unused"}) <= MaxTogether

FullCart(s) == job'[s].kind \in {"checkout", "hold"} => \A n \in Quantities : n <= job'[s].qty

MCInit == Init /\ Prices!PriceInit /\ load \in Loads

TillNext == \E s \in Sessions :
  \/ Begin(s) /\ Loaded /\ FullCart(s)
  \/ GiveUp(s) /\ Loaded
  \/ FindSale(s) /\ Loaded
  \/ FindsSale(s) /\ Loaded
  \/ TakeNumber(s) /\ Loaded
  \/ Sell(s) /\ Loaded
  \/ LosesRace(s) /\ Loaded
  \/ LookAt(s) /\ Loaded
  \/ SaveDraft(s) /\ Loaded
  \/ Cancel(s) /\ Loaded
  \/ Remove(s) /\ Loaded
  \/ LockSale(s) /\ Loaded
  \/ Return(s) /\ Loaded

\* Only the newest delivery's price is decided.
InOrder ==
  \A s \in Sessions :
    step[s] = "write" /\ step'[s] = "idle" /\ <<card, chain, notes>>' # <<card, chain, notes>> =>
      \/ task[s].kind = "toReceipt"
      \/ \A n \in Notes : notes[n].time <= notes[task[s].note].time

\* One request at a time: it begins when no other is there.
OneByOne == /\ \A s, u \in Sessions : step'[s] # "idle" /\ step'[u] # "idle" => s = u
            /\ desk' = desk => \A s \in Sessions : step'[s] = "idle"

Without(kinds) == \A s \in Sessions : task'[s].kind \notin kinds

Priced == /\ load' = load
          /\ InOrder
          /\ IF load = "all at once" THEN Without({"edit", "takeBack", "toReceipt"}) ELSE OneByOne
          /\ load = "by hand" => Without({"toReceipt"})
          /\ load = "deliveries" => Without({"edit"})

\* The last delivery the bound allows has come: no price need move any more.
Exhausted == /\ load \notin {"together", "alone"} /\ now = MaxTime
             /\ UNCHANGED <<vars, pricing, load>>

MCNext ==
  \/ load \in {"together", "alone"} /\ TillNext /\ UNCHANGED pricing
  \/ load \notin {"together", "alone"} /\ Prices!PriceNext /\ Priced /\ UNCHANGED vars
  \/ Exhausted

MCSpec == MCInit /\ [][MCNext]_<<vars, pricing, load>>

\* One request at a time, a sale's goods are out for exactly what its row says
\* (GoodsFollowSales): create took its lines once, a return or a deletion
\* brought them back once; and a sale with returns is neither voided nor deleted.
AloneSalesKept == load = "alone" => GoodsFollowSales /\ ReturnedSalesStay

\* The inductive invariant behind the theorem of TillSaleProofs about it: at most
\* one request is at work, and what it looked at is still so.
Lone == \A s, u \in Sessions : phase[s] # "idle" /\ phase[u] # "idle" => s = u

LooksTrue(s) ==
  LET i == job[s].id
  IN  /\ phase[s] \in {"cancel", "remove"} =>
           /\ Live(i)
           /\ seen[s] = [status |-> status[i], returned |-> returned[i], qty |-> qty[i]]
      /\ phase[s] = "hold" /\ i # NoId => status[i] = "Held"
      /\ phase[s] = "locked" => status[i] = "Completed"

AloneFacts == /\ Lone /\ GoodsFollowSales /\ ReturnedSalesStay
              /\ \A s \in Sessions : LooksTrue(s)

AloneIInv == IInv /\ (load = "alone" => AloneFacts)

\* No drop reaches goods that were there before it; one request at a time, the
\* waiting prices fall along the chain.
DropsWait == /\ Prices!SoldAsMeant
             /\ load # "all at once" => Prices!ChainFalls

\* The history ends on the card's price; one request at a time, a delivery's
\* page tells which of its prices still waits.
PricesTold == /\ Prices!HistoryTrue
              /\ load # "all at once" => Prices!RecordTrue
=============================================================================
