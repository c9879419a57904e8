--------------------------- MODULE MCOnlineOrder ----------------------------
(***************************************************************************)
(* One storefront order under a load: "together", where requests overlap   *)
(* and nobody deletes the order; "alone", where every handler runs, one    *)
(* request at a time, while the account opens and closes shifts; or "any". *)
(***************************************************************************)
EXTENDS OnlineOrder, FiniteSets, TLC

CONSTANTS s1, s2, tea, pie,
          Loads        \* the loads of this instance

VARIABLE load

SessionSymmetry == Permutations(Sessions)

\* Two of one line, one of the other.
TwoTeasOnePie == [l \in Lines |-> IF l = tea THEN 2 ELSE 1]
Prices == [l \in Lines |-> IF l = tea THEN 1 ELSE 3]

Loaded == /\ load' = load
          /\ load = "alone" => Cardinality({s \in Sessions : phase'[s] # "idle"}) <= 1
          /\ load = "together" => /\ \A s \in Sessions : handler'[s] # "remove"
                                  /\ shift' = shift

MCInit == Init /\ load \in Loads
MCNext == \/ OpenShift /\ Loaded
          \/ CloseShift /\ Loaded
          \/ \E s \in Sessions : \/ \E h \in Handlers : Begin(s, h) /\ Loaded
                                 \/ Load(s) /\ Loaded
                                 \/ ReadShift(s) /\ Loaded
                                 \/ LockOrder(s) /\ Loaded
                                 \/ Move(s) /\ Loaded
                                 \/ Trim(s) /\ Loaded
                                 \/ Return(s) /\ Loaded
                                 \/ Remove(s) /\ Loaded
                                 \/ GiveUp(s) /\ Loaded
MCSpec == MCInit /\ [][MCNext]_<<vars, load>>
=============================================================================
