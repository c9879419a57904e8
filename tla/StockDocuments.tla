--------------------------- MODULE StockDocuments ---------------------------
(***************************************************************************)
(* The documents that move one product's stock, by the order in which      *)
(* their transaction touches the rows of that product.                     *)
(***************************************************************************)
EXTENDS Integers

CONSTANTS Tx,         \* the requests that run, each one database transaction
          Branches,   \* the shop's branches
          Qty,        \* the quantities a document may ask for
          Kinds       \* the kinds of document this instance runs

\* Lock the product, read the branch shelf, refuse to take more than it holds.
Guarded == {"transfer", "writeOff", "toDefective"}

\* Take off the shelf without looking at it: a till sale, and the shortage a
\* stock-take found.
Unguarded == {"sale", "shortage"}

\* Put on the shelf, then trim the lots down to the stock: a delivery, a dish's
\* ingredients, the surplus of a stock-take.
Trimming == {"receive", "restoreDish", "surplus"}

\* Put on the shelf without trimming: a return, a deleted or cancelled sale.
Restocking == {"restock", "return"}

Withdrawals == Guarded \cup Unguarded
Arrivals    == Trimming \cup Restocking
AllKinds    == Withdrawals \cup Arrivals

ASSUME QtyAssumption   == Qty \subseteq Nat \ {0}
ASSUME KindsAssumption == Kinds \subseteq AllKinds

\* A document moves qty units of the product at branch `from`; only a transfer
\* looks at `to`, and it refuses a document between a branch and itself.
Request == {r \in [kind : Kinds, from : Branches, to : Branches, qty : Qty] :
              (r.kind = "transfer") = (r.from # r.to)}

\* What the document means for one branch shelf, and for the product's total.
StockDelta(r, b) ==
  (IF b = r.from THEN (IF r.kind \in Arrivals THEN r.qty ELSE -r.qty) ELSE 0)
  + (IF r.kind = "transfer" /\ b = r.to THEN r.qty ELSE 0)

QuantityDelta(r) == CASE r.kind = "transfer"    -> 0
                      [] r.kind \in Arrivals    -> r.qty
                      [] OTHER                  -> -r.qty
=============================================================================
