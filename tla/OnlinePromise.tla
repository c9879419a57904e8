--------------------------- MODULE OnlinePromise ----------------------------
(***************************************************************************)
(* What the shop promises about one storefront order: it only moves        *)
(* forward, one step at a time, along its own fulfilment; goods leave the  *)
(* order only while it is assembled, when it is cancelled (then all of     *)
(* them), as returns of a completed sale, or when the owner deletes it     *)
(* (all of them again); and it is never emptied while it is still being    *)
(* assembled.                                                              *)
(***************************************************************************)
EXTENDS Integers

CONSTANTS Lines,          \* the order's lines
          Ordered,        \* the quantity of each line at checkout
          DeliveryType    \* "pickup" or "delivery"

VARIABLES status,   \* orders.status
          out       \* per line: what the shop has given out for the order

promiseVars == <<status, out>>

Nothing == [l \in Lines |-> 0]

Open == {"Pending", "Assembling", "Delivering", "ReadyForPickup"}

Stages == {<<"Pending", "Assembling">>, <<"Pending", "Completed">>,
           <<"Assembling", "Completed">>}
          \cup IF DeliveryType = "delivery"
               THEN {"Pending", "Assembling"} \X {"Delivering"} \cup {<<"Delivering", "Completed">>}
               ELSE {"Pending", "Assembling"} \X {"ReadyForPickup"} \cup {<<"ReadyForPickup", "Completed">>}

Init == /\ status = "Pending"
        /\ out = Ordered

Advance == /\ \E to \in Open \cup {"Completed"} : /\ <<status, to>> \in Stages
                                                  /\ status' = to
           /\ UNCHANGED out

Cancel == /\ status \in Open
          /\ status' = "Cancelled"
          /\ out' = Nothing

GiveBack == /\ status \in {"Assembling", "Completed"}
            /\ out' \in [Lines -> Nat]
            /\ \A l \in Lines : out'[l] <= out[l]
            /\ status = "Assembling" => out' # Nothing
            /\ UNCHANGED status

Delete == /\ status # "Deleted"
          /\ status' = "Deleted"
          /\ out' = Nothing

Next == Advance \/ Cancel \/ GiveBack \/ Delete

Spec == Init /\ [][Next]_promiseVars
=============================================================================
