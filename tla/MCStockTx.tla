----------------------------- MODULE MCStockTx ------------------------------
(***************************************************************************)
(* One product under two loads: its stock "documents", as the transactions *)
(* run them, and its "prices", moved by requests that overlap.             *)
(***************************************************************************)
EXTENDS StockTx, PriceSteps, TLC

CONSTANTS t1, t2, t3, s1, s2, home, far,
          Loads     \* the loads of this instance

VARIABLE load

Symmetric == Permutations(Tx) \cup Permutations(Sessions)

\* Two lots at home (the older one nearly sold out), one at the other branch.
TwoLots == <<[branch |-> home, age |-> 1, left |-> 1],
             [branch |-> home, age |-> 2, left |-> 1],
             [branch |-> far,  age |-> 1, left |-> 1]>>
TwoLotsStock == [b \in Branches |-> IF b = home THEN 2 ELSE 1]

\* One unit left at home, nothing elsewhere.
LastUnit == <<[branch |-> home, age |-> 1, left |-> 1]>>
LastUnitStock == [b \in Branches |-> IF b = home THEN 1 ELSE 0]

------------------------------------------------------------------------------
\* Only the newest delivery's price is decided.
InOrder ==
  \A s \in Sessions :
    phase[s] = "write" /\ phase'[s] = "idle" /\ <<card, chain, notes>>' # <<card, chain, notes>> =>
      \A n \in Notes : notes[n].time <= notes[job[s].note].time

Asked(kinds) == \A s \in Sessions : job'[s].kind \in kinds

\* The requests that move the price; the others forget what waits, or reopen it.
Priced == InOrder /\ Asked({"none", "onReceive", "toCard", "sale", "sweep"})

\* Where only the price is at stake, the documents have nothing to say.
AnyRequest == CHOOSE r \in Request : TRUE

MCInit == /\ Init /\ PriceInit /\ load \in Loads
          /\ load = "prices" => req = [t \in Tx |-> AnyRequest]

MCNext == /\ load' = load
          /\ \/ load = "documents" /\ Next /\ UNCHANGED priceVars
             \/ load = "prices" /\ PriceNext /\ Priced /\ UNCHANGED vars

MCSpec == MCInit /\ [][MCNext]_<<vars, priceVars, load>>
MCFairSpec == /\ MCSpec
              /\ \A t \in Tx : WF_vars(load = "documents" /\ Progress(t))
              /\ PriceFairness

------------------------------------------------------------------------------
\* Only stock documents end on their own: a price may wait for ever.
DocumentsEnd == load = "documents" => EveryDocumentEnds
=============================================================================
