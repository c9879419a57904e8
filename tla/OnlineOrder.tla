---------------------------- MODULE OnlineOrder -----------------------------
(***************************************************************************)
(* One storefront order and the requests that work on it at the same time: *)
(* staff move it along, trim it, cancel or complete it; the customer       *)
(* cancels it; a till takes its goods back; the owner deletes it.          *)
(*                                                                         *)
(* A session is one request.  Every handler but the owner's delete decides *)
(* under the order's row lock (lockOrder, loadOrder ... FOR UPDATE), which *)
(* it holds until it commits; complete() has looked at the order and the   *)
(* account's shift before it asks for the lock, and remove() decides on a  *)
(* read made before its transaction.  A request that is refused, or dies,  *)
(* leaves nothing behind.                                                  *)
(*                                                                         *)
(* Quantities are in the smallest unit the shop sells (three decimals in   *)
(* the code); a dish is counted in the goods its recipe drew for it.       *)
(***************************************************************************)
EXTENDS Integers, Sequences, FiniteSetsExt

CONSTANTS Lines,          \* the order's lines
          Dishes,         \* the lines whose product is a dish
          Ordered,        \* the quantity of each line at checkout
          Quantities,     \* the quantities a trim or a return may name
          Price,          \* what one unit of a line costs
          Fee,            \* orders.delivery_fee, fixed at checkout
          DeliveryType,   \* "pickup" or "delivery"
          Handlers,       \* the handlers this instance runs
          Sessions,       \* concurrent requests
          MaxShifts       \* bound: how many shifts the account opens

Target == [accept |-> "Assembling", dispatch |-> "Delivering", ready |-> "ReadyForPickup",
           complete |-> "Completed", cancel |-> "Cancelled", customerCancel |-> "Cancelled"]
Moves == DOMAIN Target
AllHandlers == Moves \cup {"trim", "return", "remove"}

ASSUME LinesAssumption == /\ Lines # {} /\ IsFiniteSet(Lines) /\ Dishes \subseteq Lines
                          /\ Ordered \in [Lines -> Nat \ {0}]
                          /\ Quantities \subseteq Nat
ASSUME MoneyAssumption == Price \in [Lines -> Nat] /\ Fee \in Nat
ASSUME FlowAssumption == /\ DeliveryType \in {"pickup", "delivery"}
                         /\ Handlers \subseteq AllHandlers
                         /\ MaxShifts \in Nat

VARIABLES
  status,     \* orders.status, "Deleted" once the row is gone
  lines,      \* order_items.quantity; 0 once the row is deleted
  returned,   \* order_items.returned_quantity
  paid,       \* orders.amount_paid
  refunded,   \* money given back by the order's returns
  booked,     \* orders.shift_id; 0 is none
  events,     \* order_status_events: <<from, to>>
  back,       \* per line, what went back on the shelf
  gone,       \* per line, what came back unfit for the shelf
  shift,      \* the completing account's newest shift, and whether it is open
  phase,      \* where each session is
  handler,    \* the handler it runs
  seen        \* what it has read

row == <<status, lines, returned, paid, refunded, booked, events>>
goods == <<back, gone>>
session == <<phase, handler, seen>>
vars == <<row, goods, shift, session>>

Cost(q) == SumFunction([l \in Lines |-> q[l] * Price[l]])
Payable(q) == Cost(q) + Fee

Nothing == [l \in Lines |-> 0]
Plus(f, g) == [l \in Lines |-> f[l] + g[l]]
Minus(f, g) == [l \in Lines |-> f[l] - g[l]]

\* The parts of the order a request reads.
Order == [status |-> status, lines |-> lines, returned |-> returned]
NothingSeen == [order |-> [status |-> "Pending", lines |-> Ordered, returned |-> Nothing],
                payable |-> 0, shift |-> 0]

Init == /\ status = "Pending"
        /\ lines = Ordered
        /\ returned = Nothing
        /\ paid = Cost(Ordered)
        /\ refunded = 0
        /\ booked = 0
        /\ events = <<<<"", "Pending">>>>
        /\ back = Nothing
        /\ gone = Nothing
        /\ shift = [no |-> 0, open |-> FALSE]
        /\ phase = [s \in Sessions |-> "idle"]
        /\ handler = [s \in Sessions |-> "none"]
        /\ seen = [s \in Sessions |-> NothingSeen]

------------------------------------------------------------------------------
\* online-order.rules.ts

Rank == [Pending |-> 0, Assembling |-> 1, Delivering |-> 2, ReadyForPickup |-> 2,
         Completed |-> 3, Cancelled |-> 3]

Final == {"Completed", "Cancelled"}

\* Mutant: an order takes either flow's middle step.
CanTransitionAnyType(from, to) == /\ from \notin Final
                                  /\ to = "Cancelled" \/ Rank[to] > Rank[from]

CanTransition(from, to) == /\ from \notin Final
                           /\ to = "Delivering" => DeliveryType = "delivery"
                           /\ to = "ReadyForPickup" => DeliveryType = "pickup"
                           /\ to = "Cancelled" \/ Rank[to] > Rank[from]

------------------------------------------------------------------------------
\* Before the transaction.

Step(s, here, there) == phase[s] = here /\ phase' = [phase EXCEPT ![s] = there]

\* The request is over, its transaction committed or rolled back.
End(s, here) == /\ Step(s, here, "idle")
                /\ handler' = [handler EXCEPT ![s] = "none"]
                /\ seen' = [seen EXCEPT ![s] = NothingSeen]
                /\ UNCHANGED shift

\* A request comes in.  complete() and remove() read the order first.
Begin(s, h) ==
  /\ Step(s, "idle", IF h \in {"complete", "remove"} THEN "load" ELSE "lock")
  /\ handler' = [handler EXCEPT ![s] = h]
  /\ UNCHANGED <<row, goods, shift, seen>>

Load(s) ==
  /\ Step(s, "load", IF handler[s] = "complete" THEN "shift" ELSE "remove")
  /\ handler[s] = "complete" => Payable(lines) > 0      \* settleTender refuses an empty tender
  /\ status # "Deleted"
  /\ seen' = [seen EXCEPT ![s] = [order |-> Order, payable |-> Payable(lines), shift |-> 0]]
  /\ UNCHANGED <<row, goods, shift, handler>>

\* complete(): the account's newest open shift, or none.
ReadShift(s) ==
  /\ Step(s, "shift", "lock")
  /\ seen' = [seen EXCEPT ![s] = [order |-> @.order, payable |-> @.payable,
                                  shift |-> IF shift.open THEN shift.no ELSE 0]]
  /\ UNCHANGED <<row, goods, shift, handler>>

\* openShift / closeShift of the completing account's register, meanwhile.
OpenShift == /\ ~shift.open /\ shift.no < MaxShifts
             /\ shift' = [no |-> shift.no + 1, open |-> TRUE]
             /\ UNCHANGED <<row, goods, session>>

CloseShift == /\ shift.open
              /\ shift' = [shift EXCEPT !.open = FALSE]
              /\ UNCHANGED <<row, goods, session>>

------------------------------------------------------------------------------
\* The transaction: SELECT ... FOR UPDATE, then decide, then write and commit.

\* Mutant: the order is read without FOR UPDATE.
UnlockedAlways == TRUE

Unlocked == \A s \in Sessions : phase[s] # "locked"

LockOrder(s) ==
  /\ Step(s, "lock", "locked")
  /\ Unlocked
  /\ status # "Deleted"
  /\ seen' = [seen EXCEPT ![s] = [order |-> Order, payable |-> @.payable, shift |-> @.shift]]
  /\ UNCHANGED <<row, goods, shift, handler>>

\* `part` of `whole`, of what the dish drew, to three decimals.
Share(drawn, part, whole) == (2 * drawn * part + whole) \div (2 * whole)

\* Mutant: a trimmed line goes back whole.
RestockedWhole(part, whole) == whole

\* What restockOrderLinesTx puts back for lines of these quantities, `part` of
\* each coming back.  A dish goes back as its share of the ingredients recorded
\* when it was sold (order_item_components, which go with the line's row).
Restocked(part, whole) ==
  [l \in Lines |-> IF l \notin Dishes THEN part[l]
                   ELSE IF lines[l] = 0 \/ status = "Deleted" \/ whole[l] = 0 THEN 0
                   ELSE Share(Ordered[l], part[l], whole[l])]

\* Mutant: complete() is not held to the payable the tender was settled against.
MoveAllowedAnyPayable(h, o, payable) ==
  /\ CanTransition(o.status, Target[h])
  /\ h = "customerCancel" => o.status = "Pending"

MoveAllowed(h, o, payable) ==
  /\ CanTransition(o.status, Target[h])
  /\ h = "customerCancel" => o.status = "Pending"
  /\ h = "complete" => Payable(o.lines) = payable

\* move(): one status move with its history row; a cancellation puts the goods
\* back, a completion takes the money it settled beforehand.
Move(s) ==
  LET h == handler[s]  o == seen[s].order
  IN  /\ h \in Moves
      /\ End(s, "locked")
      /\ MoveAllowed(h, o, seen[s].payable)
      /\ status' = Target[h]
      /\ events' = Append(events, <<o.status, Target[h]>>)
      /\ back' = IF h \in {"cancel", "customerCancel"}
                 THEN Plus(back, Restocked(o.lines, o.lines)) ELSE back
      /\ IF h = "complete" THEN paid' = seen[s].payable /\ booked' = seen[s].shift
                           ELSE UNCHANGED <<paid, booked>>
      /\ UNCHANGED <<lines, returned, refunded, gone>>

\* updateItems(): lines only go down, never all of them to nothing, what comes
\* off goes back on the shelf.
Trim(s) ==
  LET o == seen[s].order
  IN  /\ handler[s] = "trim"
      /\ End(s, "locked")
      /\ o.status = "Assembling"
      /\ \E next \in [Lines -> Quantities] :
           /\ \A l \in Lines : next[l] <= o.lines[l]
           /\ next \notin {o.lines, Nothing}
           /\ lines' = next
           /\ paid' = Cost(next)
           /\ back' = Plus(back, Restocked(Minus(o.lines, next), o.lines))
      /\ events' = Append(events, <<"Assembling", "Assembling">>)
      /\ UNCHANGED <<status, returned, refunded, booked, gone>>

\* Mutant: any return may give the delivery fee back.
FeeRefundAny(o, ask) == {0, Fee}

\* withDeliveryFee: only the return that brings back everything still out may
\* also give the delivery fee back.
FeeRefund(o, ask) == IF Plus(o.returned, ask) = o.lines THEN {0, Fee} ELSE {0}

\* SaleReturnService.create: some of what is still out comes back, each line to
\* the shelf or not; its price, and perhaps the delivery fee, is refunded.
Return(s) ==
  LET o == seen[s].order
  IN  /\ handler[s] = "return"
      /\ End(s, "locked")
      /\ o.status = "Completed"
      /\ \E ask \in [Lines -> Quantities], shelf \in SUBSET Lines :
           LET part == [l \in Lines |-> IF l \in shelf THEN ask[l] ELSE 0]
           IN  /\ ask # Nothing
               /\ \A l \in Lines : ask[l] <= o.lines[l] - o.returned[l]
               /\ returned' = Plus(returned, ask)
               /\ \E fee \in FeeRefund(o, ask) : refunded' = refunded + Cost(ask) + fee
               /\ back' = Plus(back, Restocked(part, o.lines))
               /\ gone' = Plus(gone, Minus(ask, part))
      /\ UNCHANGED <<status, lines, paid, booked, events>>

\* remove(): decided on what was read before the transaction; deleting a row
\* that is no longer there is no error.
Remove(s) ==
  LET o == seen[s].order
  IN  /\ End(s, "remove")
      /\ Unlocked
      /\ Cost(o.returned) = 0
      /\ status' = "Deleted"
      /\ events' = <<>>
      /\ back' = IF o.status = "Cancelled" THEN back
                 ELSE Plus(back, Restocked(o.lines, o.lines))
      /\ UNCHANGED <<lines, returned, paid, refunded, booked, gone>>

\* Refused, or dead: the transaction is rolled back.
GiveUp(s) == /\ phase[s] # "idle"
             /\ End(s, phase[s])
             /\ UNCHANGED <<row, goods>>

Next == \/ OpenShift \/ CloseShift
        \/ \E s \in Sessions : \/ \E h \in Handlers : Begin(s, h)
                               \/ Load(s) \/ ReadShift(s) \/ LockOrder(s)
                               \/ Move(s) \/ Trim(s) \/ Return(s) \/ Remove(s)
                               \/ GiveUp(s)

Spec == Init /\ [][Next]_vars

------------------------------------------------------------------------------
\* Properties.

Statuses == DOMAIN Rank \cup {"Deleted"}
Event == (Statuses \cup {""}) \X Statuses
Phases == {"idle", "load", "shift", "lock", "locked", "remove"}

\* The types of what the theorems are about: the order's rows, the goods and the
\* sessions.
TypeOK == /\ status \in Statuses
          /\ lines \in [Lines -> Nat]
          /\ returned \in [Lines -> Nat]
          /\ events \in Seq(Event)
          /\ booked \in Nat
          /\ back \in [Lines -> Int]
          /\ gone \in [Lines -> Int]
          /\ shift \in [no : Nat, open : BOOLEAN]
          /\ phase \in [Sessions -> Phases]
          /\ handler \in [Sessions -> Handlers \cup {"none"}]
          /\ DOMAIN seen = Sessions
          /\ \A s \in Sessions : seen[s].shift \in Nat

\* What the shop has given out for the order and not got back.
Out == [l \in Lines |-> Ordered[l] - back[l] - gone[l]]

\* Whatever trims, cancellations, completions, returns and deletions race for
\* the order, what it drew is accounted for exactly once: goods are out for what
\* its lines still say, and all of them are back once it is cancelled or deleted.
GoodsConserved ==
  \A l \in Lines : Out[l] = IF status \in {"Cancelled", "Deleted"} THEN 0
                            ELSE lines[l] - returned[l]

\* "Never backwards: the customer was already told, and a completed order has
\* moved money into a shift" (online-order.rules.ts:9), two people pressing at
\* once included.
NeverBackwards ==
  [][status' # status => status' = "Deleted" \/ Rank[status'] > Rank[status]]_vars

\* A completed order was paid exactly what its lines and delivery cost, even
\* though the tender was settled before the lock and somebody may have trimmed
\* the order in between.
CompletedPaysItsGoods == status = "Completed" => paid = Payable(lines)

\* Returns never give back more than the completed order was paid, the delivery
\* fee included.
RefundsCovered == refunded <= paid

\* The history tells one story: it starts with the customer placing the order,
\* every move starts where the one before ended, and the last one is where the
\* order stands.
HistoryIsAChain ==
  status # "Deleted" => /\ Len(events) > 0 /\ events[1][1] = ""
                        /\ \A i \in 1..Len(events) - 1 : events[i][2] = events[i + 1][1]
                        /\ events[Len(events)][2] = status

\* The money goes "into the completing account's open shift" (Q12,
\* online-order.service.ts:331): a shift the sale is booked into is still open
\* when the sale is.
BookedInOpenShift ==
  [][booked' # booked => shift.open /\ booked' = shift.no]_vars

\* The inductive invariant behind the theorems of OnlineOrderProofs.

LockExclusive == \A s, u \in Sessions : phase[s] = "locked" /\ phase[u] = "locked" => s = u

\* What was read under the lock is still so.
SeenCurrent == \A s \in Sessions : phase[s] = "locked" => seen[s].order = Order

\* No more came back than was on the line, and nothing before the sale; only the
\* owner's delete deletes.
ReturnsBounded == /\ \A l \in Lines : returned[l] <= lines[l] /\ lines[l] <= Ordered[l]
                  /\ status # "Completed" => returned = Nothing
                  /\ "remove" \notin Handlers => status # "Deleted"

\* Only the handlers that read first are between their read and their lock.
OnPlan == \A s \in Sessions :
            /\ phase[s] = "load" => handler[s] \in {"complete", "remove"}
            /\ phase[s] = "remove" => handler[s] = "remove"

\* Each fulfilment keeps to its own middle step.
OnFlow == /\ status = "Delivering" => DeliveryType = "delivery"
          /\ status = "ReadyForPickup" => DeliveryType = "pickup"

IInv == /\ TypeOK /\ OnFlow /\ LockExclusive /\ SeenCurrent /\ OnPlan /\ ReturnsBounded
        /\ lines # Nothing
        /\ GoodsConserved /\ CompletedPaysItsGoods /\ HistoryIsAChain

\* What was given back is the price of what came back, and the delivery fee at
\* most once, with the last of it.
RefundsAccounted == /\ paid \in Nat /\ refunded \in Nat
                    /\ status # "Completed" => refunded = 0
                    /\ refunded <= Cost(returned) + IF returned = lines THEN Fee ELSE 0

\* The order behaves as OnlinePromise says.
Promise == INSTANCE OnlinePromise WITH out <- Out
PromiseSpec == Promise!Spec
=============================================================================
