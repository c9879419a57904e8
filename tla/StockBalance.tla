---------------------------- MODULE StockBalance ----------------------------
(***************************************************************************)
(* What the stock documents promise about one product, whatever order they *)
(* run in: a document happens in one step or not at all; the shelf of each *)
(* branch (branch_stock) and the product's total (products.quantity) move  *)
(* together; and a document that looks at the shelf before it takes        *)
(* (transfer, write-off, move to the defective store) never takes more     *)
(* than the shelf holds when it happens.  A till sale does not look, and   *)
(* may take the shelf below zero.                                          *)
(***************************************************************************)
EXTENDS StockDocuments

CONSTANTS OpeningStock, OpeningQuantity

VARIABLES stock,      \* branch_stock.quantity, per branch
          quantity,   \* products.quantity
          req,        \* the document each request asks for
          status      \* "open", then "done" or "failed"

balanceVars == <<stock, quantity, req, status>>

Init == /\ stock = OpeningStock
        /\ quantity = OpeningQuantity
        /\ req \in [Tx -> Request]
        /\ status = [t \in Tx |-> "open"]

Happen(t) == /\ status[t] = "open"
             /\ req[t].kind \in Guarded => req[t].qty <= stock[req[t].from]
             /\ stock' = [b \in Branches |-> stock[b] + StockDelta(req[t], b)]
             /\ quantity' = quantity + QuantityDelta(req[t])
             /\ status' = [status EXCEPT ![t] = "done"]
             /\ UNCHANGED req

Fail(t) == /\ status[t] = "open"
           /\ status' = [status EXCEPT ![t] = "failed"]
           /\ UNCHANGED <<stock, quantity, req>>

Next == \E t \in Tx : Happen(t) \/ Fail(t)

Spec == Init /\ [][Next]_balanceVars
=============================================================================
