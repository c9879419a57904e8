------------------------- MODULE OnlineOrderProofs --------------------------
(***************************************************************************)
(* Theorems about OnlineOrder for every order, every set of sessions and   *)
(* every mix of handlers, of an order without dishes that nobody deletes.  *)
(* The two exclusions are where the code breaks the promise: a dish that   *)
(* is trimmed in part, and a delete that overlaps anything else (the run   *)
(* OnlineOrderDelete).                                                     *)
(***************************************************************************)
EXTENDS OnlineOrder, Sums

\* The orders the theorems are about.
Kept == Dishes = {} /\ "remove" \notin Handlers

\* No handler is called "none".
LEMMA HandlerNames == "none" \notin Handlers
  BY FlowAssumption DEF AllHandlers, Moves, Target

\* Every target a move names is a status, and none is "Deleted".
LEMMA TargetsAreStatuses ==
  ASSUME NEW h \in Moves
  PROVE  Target[h] \in Statuses /\ Target[h] # "Deleted" /\ Target[h] # "Pending"
  BY DEF Moves, Target, Statuses, Rank

\* Without dishes, what is restocked is what was asked for.
LEMMA RestockedIsPart ==
  ASSUME Kept, NEW part, NEW whole
  PROVE  Restocked(part, whole) = [l \in Lines |-> part[l]]
  BY DEF Kept, Restocked

\* At checkout every line orders something.
LEMMA OrderedPositive == \A l \in Lines : Ordered[l] \in Nat /\ Ordered[l] > 0
  BY LinesAssumption

\* The order starts with everything out and no request under way.
LEMMA InitIInv == Init => IInv
<1> SUFFICES ASSUME Init PROVE IInv
  OBVIOUS
<1>a. /\ status = "Pending" /\ lines = Ordered /\ booked = 0
      /\ returned = Nothing /\ back = Nothing /\ gone = Nothing
  BY DEF Init
<1>e. events = <<<<"", "Pending">>>>
  BY DEF Init
<1>b. /\ phase = [s \in Sessions |-> "idle"]
      /\ handler = [s \in Sessions |-> "none"]
      /\ seen = [s \in Sessions |-> NothingSeen]
      /\ shift = [no |-> 0, open |-> FALSE]
  BY DEF Init
<1>c. Nothing \in [Lines -> Nat] /\ Nothing \in [Lines -> Int] /\ \A l \in Lines : Nothing[l] = 0
  BY DEF Nothing
<1>1. TypeOK
  <2>1. status \in Statuses
    BY <1>a DEF Statuses, Rank
  <2>2. lines \in [Lines -> Nat]
    BY <1>a, LinesAssumption
  <2>3. returned \in [Lines -> Nat] /\ back \in [Lines -> Int] /\ gone \in [Lines -> Int]
    BY <1>a, <1>c
  <2>4. events \in Seq(Event)
    <3> DEFINE placed == <<"", "Pending">>
    <3>1. placed \in Event
      BY DEF Event, Statuses, Rank
    <3>2. events = <<placed>>
      BY <1>e
    <3> HIDE DEF placed
    <3>3. <<placed>> \in Seq(Event)
      BY <3>1
    <3> QED
      BY <3>2, <3>3
  <2>5. shift \in [no : Nat, open : BOOLEAN] /\ booked \in Nat
    BY <1>a, <1>b
  <2>6. phase \in [Sessions -> Phases] /\ handler \in [Sessions -> Handlers \cup {"none"}]
    BY <1>b DEF Phases
  <2>7. DOMAIN seen = Sessions /\ \A s \in Sessions : seen[s].shift \in Nat
    BY <1>b DEF NothingSeen
  <2> QED
    BY <2>1, <2>2, <2>3, <2>4, <2>5, <2>6, <2>7 DEF TypeOK
<1>2. LockExclusive /\ SeenCurrent /\ OnPlan /\ OnFlow
  BY <1>a, <1>b DEF LockExclusive, SeenCurrent, OnPlan, OnFlow
<1>3. ReturnsBounded
  <2>1. \A l \in Lines : returned[l] <= lines[l] /\ lines[l] <= Ordered[l]
    BY <1>a, <1>c, OrderedPositive
  <2>2. returned = Nothing /\ status # "Deleted"
    BY <1>a
  <2> QED
    BY <2>1, <2>2 DEF ReturnsBounded
<1>4. lines # Nothing
  <2>1. PICK l \in Lines : TRUE
    BY LinesAssumption
  <2>2. lines[l] # 0 /\ Nothing[l] = 0
    BY <1>a, <1>c, <2>1, OrderedPositive
  <2> QED
    BY <2>2
<1>5. GoodsConserved
  <2> SUFFICES ASSUME NEW l \in Lines
               PROVE  Ordered[l] - back[l] - gone[l] = lines[l] - returned[l]
    BY <1>a DEF GoodsConserved, Out
  <2>1. back[l] = 0 /\ gone[l] = 0 /\ returned[l] = 0 /\ lines[l] = Ordered[l]
    BY <1>a, <1>c
  <2> QED
    BY <2>1, OrderedPositive
<1>6. CompletedPaysItsGoods
  BY <1>a DEF CompletedPaysItsGoods
<1>7. HistoryIsAChain
  <2>1. Len(events) = 1
    BY <1>e
  <2>2. events[1][1] = "" /\ events[1][2] = status
    BY <1>a, <1>e
  <2>3. ASSUME NEW i \in 1..Len(events) - 1
        PROVE  FALSE
    BY <2>1
  <2>4. Len(events) > 0
    BY <2>1
  <2>5. events[Len(events)][2] = status
    <3>1. events[Len(events)] = events[1]
      BY <2>1
    <3> QED
      BY <3>1, <2>2
  <2> QED
    BY <2>2, <2>3, <2>4, <2>5 DEF HistoryIsAChain
<1> QED
  BY <1>1, <1>2, <1>3, <1>4, <1>5, <1>6, <1>7 DEF IInv

------------------------------------------------------------------------------
\* A session moving outside the transaction disturbs only its own control.
LEMMA ControlStep ==
  ASSUME IInv, NEW s \in Sessions, UNCHANGED <<row, goods>>,
         NEW here, phase[s] = here,
         phase' \in [Sessions -> Phases],
         \A u \in Sessions \ {s} : phase'[u] = phase[u],
         handler' \in [Sessions -> Handlers \cup {"none"}],
         \A u \in Sessions \ {s} : handler'[u] = handler[u],
         DOMAIN seen' = Sessions,
         \A u \in Sessions \ {s} : seen'[u] = seen[u],
         seen'[s].shift \in Nat,
         shift' \in [no : Nat, open : BOOLEAN],
         phase'[s] = "load" => handler'[s] \in {"complete", "remove"},
         phase'[s] = "remove" => handler'[s] = "remove",
         phase'[s] = "locked" => /\ \A u \in Sessions : phase[u] # "locked"
                                 /\ seen'[s].order = Order
  PROVE  IInv'
<1> USE DEF IInv, row, goods
<1>1. TypeOK'
  BY DEF TypeOK
<1>2. Order' = Order
  BY DEF Order
<1>3. LockExclusive' /\ OnFlow'
  BY DEF LockExclusive, OnFlow
<1>4. SeenCurrent'
  BY <1>2 DEF SeenCurrent
<1>5. OnPlan'
  BY DEF OnPlan
<1>6. ReturnsBounded' /\ (lines # Nothing)' /\ CompletedPaysItsGoods' /\ HistoryIsAChain'
  BY DEF ReturnsBounded, CompletedPaysItsGoods, HistoryIsAChain
<1>7. GoodsConserved'
  BY DEF GoodsConserved, Out
<1> QED
  BY <1>1, <1>3, <1>4, <1>5, <1>6, <1>7

\* What the end of a request leaves behind.
LEMMA EndFacts ==
  ASSUME IInv, NEW s \in Sessions, NEW here, End(s, here)
  PROVE  /\ phase[s] = here
         /\ phase' \in [Sessions -> Phases]
         /\ phase'[s] = "idle"
         /\ \A u \in Sessions \ {s} : phase'[u] = phase[u]
         /\ handler' \in [Sessions -> Handlers \cup {"none"}]
         /\ \A u \in Sessions \ {s} : handler'[u] = handler[u]
         /\ DOMAIN seen' = Sessions
         /\ \A u \in Sessions \ {s} : seen'[u] = seen[u]
         /\ seen'[s].shift = 0
         /\ shift' = shift
         /\ \A u \in Sessions : seen'[u].shift \in Nat
<1>1. /\ phase \in [Sessions -> Phases] /\ handler \in [Sessions -> Handlers \cup {"none"}]
      /\ DOMAIN seen = Sessions /\ \A u \in Sessions : seen[u].shift \in Nat
  BY DEF IInv, TypeOK
<1>2. /\ phase[s] = here /\ shift' = shift
      /\ phase' = [phase EXCEPT ![s] = "idle"]
      /\ handler' = [handler EXCEPT ![s] = "none"]
      /\ seen' = [seen EXCEPT ![s] = NothingSeen]
  BY DEF End, Step
<1>3. NothingSeen.shift = 0
  BY DEF NothingSeen
<1>4. /\ phase' \in [Sessions -> Phases] /\ phase'[s] = "idle"
      /\ \A u \in Sessions \ {s} : phase'[u] = phase[u]
  BY <1>1, <1>2 DEF Phases
<1>5. /\ handler' \in [Sessions -> Handlers \cup {"none"}]
      /\ \A u \in Sessions \ {s} : handler'[u] = handler[u]
  BY <1>1, <1>2
<1>6. /\ DOMAIN seen' = Sessions /\ seen'[s].shift = 0
      /\ \A u \in Sessions \ {s} : seen'[u] = seen[u]
  BY <1>1, <1>2, <1>3
<1>7. \A u \in Sessions : seen'[u].shift \in Nat
  BY <1>1, <1>6
<1> QED
  BY <1>2, <1>4, <1>5, <1>6, <1>7

\* The session that holds the lock sees the order as it is, and when its
\* request ends nobody holds it.
LEMMA LockHolder ==
  ASSUME IInv, NEW s \in Sessions, End(s, "locked")
  PROVE  /\ seen[s].order = Order
         /\ \A u \in Sessions : phase'[u] # "locked"
         /\ LockExclusive' /\ SeenCurrent' /\ OnPlan'
<1>1. phase[s] = "locked" /\ phase'[s] = "idle"
  BY EndFacts
<1>2. seen[s].order = Order
  BY <1>1 DEF IInv, SeenCurrent
<1>3. \A u \in Sessions : phase'[u] # "locked"
  BY <1>1, EndFacts DEF IInv, LockExclusive
<1>4. OnPlan'
  BY <1>1, EndFacts DEF IInv, OnPlan
<1> QED
  BY <1>2, <1>3, <1>4 DEF LockExclusive, SeenCurrent

\* What appending one element leaves of a sequence.
LEMMA AppendFacts ==
  ASSUME NEW S, NEW q \in Seq(S), NEW x \in S
  PROVE  /\ Append(q, x) \in Seq(S)
         /\ Len(Append(q, x)) = Len(q) + 1
         /\ Append(q, x)[Len(q) + 1] = x
         /\ \A i \in 1..Len(q) : Append(q, x)[i] = q[i]
  OBVIOUS

\* A history row from where the order stands keeps the history a chain.
LEMMA HistoryGrows ==
  ASSUME Kept, IInv, NEW to \in Statuses, status' = to,
         events' = Append(events, <<status, to>>)
  PROVE  HistoryIsAChain' /\ events' \in Seq(Event)
<1> DEFINE e == <<status, to>>
<1>1. /\ status # "Deleted" /\ status \in Statuses
      /\ events[1][1] = "" /\ events[Len(events)][2] = status
      /\ \A i \in 1..Len(events) - 1 : events[i][2] = events[i + 1][1]
  BY DEF IInv, TypeOK, ReturnsBounded, Kept, HistoryIsAChain
<1>2. e \in Event /\ e[1] = status /\ e[2] = to
  BY <1>1 DEF Event
<1> HIDE DEF e
<1>a. events \in Seq(Event)
  BY DEF IInv, TypeOK
<1>b. Len(events) > 0
  BY DEF IInv, ReturnsBounded, Kept, HistoryIsAChain
<1>3. events \in Seq(Event) /\ Len(events) \in Nat /\ Len(events) > 0
  BY <1>a, <1>b
<1>4. events' = Append(events, e)
  BY DEF e
<1>5. /\ events' \in Seq(Event)
      /\ Len(events') = Len(events) + 1
      /\ events'[Len(events')] = e
      /\ \A i \in 1..Len(events) : events'[i] = events[i]
  <2>1. e \in Event
    BY <1>2
  <2> QED
    BY <2>1, <1>a, <1>4, AppendFacts
<1>6. events'[1][1] = ""
  <2>1. 1 \in 1..Len(events)
    BY <1>3
  <2>2. events'[1] = events[1]
    BY <2>1, <1>5
  <2> QED
    BY <2>2, <1>1
<1>7. events'[Len(events')][2] = status'
  BY <1>2, <1>5
<1>9. Len(events') > 0
  BY <1>3, <1>5
<1>8. ASSUME NEW i \in 1..Len(events') - 1
      PROVE  events'[i][2] = events'[i + 1][1]
  <2>1. i \in 1..Len(events) /\ events'[i] = events[i]
    BY <1>3, <1>5
  <2>2. CASE i = Len(events)
    <3>1. events'[i + 1] = e
      BY <2>2, <1>5
    <3> QED
      BY <3>1, <2>1, <2>2, <1>1, <1>2
  <2>3. CASE i # Len(events)
    <3>1. i \in 1..Len(events) - 1 /\ i + 1 \in 1..Len(events)
      BY <2>1, <2>3, <1>3
    <3>2. events'[i + 1] = events[i + 1]
      BY <3>1, <1>5
    <3> QED
      BY <3>1, <3>2, <2>1, <1>1
  <2> QED
    BY <2>2, <2>3
<1> QED
  BY <1>5, <1>6, <1>7, <1>8, <1>9 DEF HistoryIsAChain

\* move() keeps the invariant: cancelling gives back all the lines still hold,
\* and what is paid at completion was settled against the lines as they are.
LEMMA MoveKeeps ==
  ASSUME IInv, Kept, NEW s \in Sessions, Move(s)
  PROVE  IInv'
<1> DEFINE h == handler[s]
<1>1. /\ h \in Moves /\ End(s, "locked")
      /\ status' = Target[h]
      /\ lines' = lines /\ returned' = returned /\ gone' = gone
  BY DEF Move
<1>2. seen[s].order = Order /\ LockExclusive' /\ SeenCurrent' /\ OnPlan'
  BY <1>1, LockHolder
<1>3. /\ seen[s].order.status = status /\ seen[s].order.lines = lines
      /\ seen[s].order.returned = returned
  BY <1>2 DEF Order
<1>4. /\ CanTransition(status, Target[h])
      /\ h = "complete" => Payable(lines) = seen[s].payable
      /\ events' = Append(events, <<status, Target[h]>>)
      /\ back' = IF h \in {"cancel", "customerCancel"}
                 THEN Plus(back, Restocked(lines, lines)) ELSE back
      /\ h = "complete" => paid' = seen[s].payable /\ booked' = seen[s].shift
      /\ h # "complete" => paid' = paid /\ booked' = booked
  BY <1>3 DEF Move, MoveAllowed
<1>5. /\ status \notin {"Completed", "Cancelled"} /\ status \in Statuses
      /\ Target[h] \in Statuses /\ Target[h] # "Deleted"
  BY <1>1, <1>4, TargetsAreStatuses DEF CanTransition, Final, IInv, TypeOK
<1>6. returned = Nothing /\ status # "Deleted"
  BY <1>5 DEF IInv, ReturnsBounded, Kept
<1>7. HistoryIsAChain' /\ events' \in Seq(Event)
  BY <1>1, <1>4, <1>5, HistoryGrows
<1>8. /\ lines \in [Lines -> Nat] /\ returned \in [Lines -> Nat]
      /\ back \in [Lines -> Int] /\ gone \in [Lines -> Int]
  BY DEF IInv, TypeOK
<1>9. back' \in [Lines -> Int]
  <2>1. CASE h \in {"cancel", "customerCancel"}
    <3>1. back' = [l \in Lines |-> back[l] + lines[l]]
      BY <2>1, <1>4, RestockedIsPart DEF Plus
    <3> QED
      BY <3>1, <1>8
  <2>2. CASE h \notin {"cancel", "customerCancel"}
    BY <2>2, <1>4, <1>8
  <2> QED
    BY <2>1, <2>2
<1>10. booked' \in Nat
  BY <1>4 DEF IInv, TypeOK
<1>11. TypeOK'
  <2>1. /\ phase' \in [Sessions -> Phases] /\ shift' = shift
        /\ handler' \in [Sessions -> Handlers \cup {"none"}]
        /\ DOMAIN seen' = Sessions /\ \A u \in Sessions : seen'[u].shift \in Nat
    BY <1>1, EndFacts DEF IInv, TypeOK
  <2> QED
    BY <1>1, <1>5, <1>7, <1>8, <1>9, <1>10, <2>1 DEF IInv, TypeOK
<1>12. ReturnsBounded' /\ (lines # Nothing)'
  BY <1>1, <1>5, <1>6 DEF IInv, ReturnsBounded, Nothing
<1>13. GoodsConserved'
  <2> SUFFICES ASSUME NEW l \in Lines
               PROVE  Ordered[l] - back'[l] - gone'[l] =
                        IF status' \in {"Cancelled", "Deleted"} THEN 0
                        ELSE lines'[l] - returned'[l]
    BY DEF GoodsConserved, Out
  <2>1. Ordered[l] - back[l] - gone[l] = lines[l] - returned[l]
    BY <1>5, <1>6 DEF IInv, GoodsConserved, Out
  <2>2. /\ Ordered[l] \in Int /\ lines[l] \in Int /\ returned[l] = 0
        /\ back[l] \in Int /\ gone[l] \in Int
    BY <1>6, <1>8, OrderedPositive DEF Nothing
  <2>3. CASE h \in {"cancel", "customerCancel"}
    <3>1. back'[l] = back[l] + lines[l]
      BY <2>3, <1>4, RestockedIsPart DEF Plus
    <3>2. status' = "Cancelled"
      BY <2>3, <1>1 DEF Target
    <3> QED
      BY <3>1, <3>2, <2>1, <2>2, <1>1
  <2>4. CASE h \notin {"cancel", "customerCancel"}
    <3>1. status' \notin {"Cancelled", "Deleted"}
      BY <2>4, <1>1 DEF Target, Moves
    <3>2. back'[l] = back[l]
      BY <2>4, <1>4
    <3> QED
      BY <3>1, <3>2, <2>1, <1>1
  <2> QED
    BY <2>3, <2>4
<1>14. CompletedPaysItsGoods'
  <2> SUFFICES ASSUME status' = "Completed" PROVE paid' = Payable(lines')
    BY DEF CompletedPaysItsGoods
  <2>1. h = "complete"
    BY <1>1 DEF Target, Moves
  <2> QED
    BY <2>1, <1>1, <1>4
<1>15. OnFlow'
  BY <1>1, <1>4 DEF OnFlow, CanTransition
<1> QED
  BY <1>2, <1>7, <1>11, <1>12, <1>13, <1>14, <1>15 DEF IInv

\* updateItems() keeps the invariant: what comes off a line goes back on the
\* shelf, and something stays on the order.
LEMMA TrimKeeps ==
  ASSUME IInv, Kept, NEW s \in Sessions, Trim(s)
  PROVE  IInv'
<1>1. End(s, "locked")
  BY DEF Trim
<1>2. seen[s].order = Order /\ LockExclusive' /\ SeenCurrent' /\ OnPlan'
  BY <1>1, LockHolder
<1>3. seen[s].order.status = status /\ seen[s].order.lines = lines
  BY <1>2 DEF Order
<1>4. /\ status = "Assembling" /\ status' = status /\ returned' = returned
      /\ booked' = booked /\ gone' = gone
      /\ events' = Append(events, <<status, "Assembling">>)
  BY <1>3 DEF Trim
<1>5. PICK next \in [Lines -> Quantities] :
        /\ \A l \in Lines : next[l] <= lines[l]
        /\ next # Nothing
        /\ lines' = next
        /\ back' = Plus(back, Restocked(Minus(lines, next), lines))
  BY <1>3 DEF Trim
<1>6. /\ lines \in [Lines -> Nat] /\ back \in [Lines -> Int] /\ gone \in [Lines -> Int]
      /\ next \in [Lines -> Nat]
  BY LinesAssumption DEF IInv, TypeOK
<1>7. \A l \in Lines : back'[l] = back[l] + (lines[l] - next[l])
  BY <1>5, RestockedIsPart DEF Plus, Minus
<1>8. back' \in [Lines -> Int]
  <2>1. back' = [l \in Lines |-> back[l] + (lines[l] - next[l])]
    BY <1>5, RestockedIsPart DEF Plus, Minus
  <2> QED
    BY <2>1, <1>6
<1>9. HistoryIsAChain' /\ events' \in Seq(Event)
  <2>1. "Assembling" \in Statuses
    BY DEF Statuses, Rank
  <2> QED
    BY <2>1, <1>4, HistoryGrows
<1>10. returned = Nothing
  BY <1>4 DEF IInv, ReturnsBounded
<1>11. TypeOK'
  <2>1. /\ phase' \in [Sessions -> Phases] /\ shift' = shift
        /\ handler' \in [Sessions -> Handlers \cup {"none"}]
        /\ DOMAIN seen' = Sessions /\ \A u \in Sessions : seen'[u].shift \in Nat
    BY <1>1, EndFacts
  <2> QED
    BY <1>4, <1>5, <1>6, <1>8, <1>9, <2>1 DEF IInv, TypeOK
<1>12. ReturnsBounded'
  <2>1. ASSUME NEW l \in Lines
        PROVE  returned'[l] <= lines'[l] /\ lines'[l] <= Ordered[l]
    <3>1. returned'[l] = 0 /\ next[l] \in Nat /\ lines[l] \in Nat /\ Ordered[l] \in Nat
      BY <1>4, <1>6, <1>10, OrderedPositive DEF Nothing
    <3>2. lines[l] <= Ordered[l] /\ next[l] <= lines[l]
      BY <1>5 DEF IInv, ReturnsBounded
    <3> QED
      BY <3>1, <3>2, <1>5
  <2>2. returned' = Nothing
    BY <1>4, <1>10
  <2>3. status' # "Deleted"
    BY <1>4
  <2> QED
    BY <2>1, <2>2, <2>3 DEF ReturnsBounded, Nothing
<1>13. GoodsConserved'
  <2> SUFFICES ASSUME NEW l \in Lines
               PROVE  Ordered[l] - back'[l] - gone'[l] = lines'[l] - returned'[l]
    BY <1>4 DEF GoodsConserved, Out
  <2>1. Ordered[l] - back[l] - gone[l] = lines[l] - returned[l]
    BY <1>4 DEF IInv, GoodsConserved, Out
  <2>2. /\ Ordered[l] \in Int /\ lines[l] \in Int /\ returned[l] = 0
        /\ back[l] \in Int /\ gone[l] \in Int /\ next[l] \in Int
    BY <1>6, <1>10, OrderedPositive DEF Nothing
  <2>3. back'[l] = back[l] + (lines[l] - next[l])
    BY <1>7
  <2>4. gone'[l] = gone[l] /\ returned'[l] = returned[l] /\ lines'[l] = next[l]
    BY <1>4, <1>5
  <2> QED
    BY <2>1, <2>2, <2>3, <2>4
<1>14. (lines # Nothing)' /\ CompletedPaysItsGoods' /\ OnFlow'
  BY <1>4, <1>5 DEF Nothing, CompletedPaysItsGoods, OnFlow
<1> QED
  BY <1>2, <1>9, <1>11, <1>12, <1>13, <1>14 DEF IInv

\* A return keeps the invariant: it brings back only what is still out.
LEMMA ReturnKeeps ==
  ASSUME IInv, Kept, NEW s \in Sessions, Return(s)
  PROVE  IInv'
<1>1. End(s, "locked")
  BY DEF Return
<1>2. seen[s].order = Order /\ LockExclusive' /\ SeenCurrent' /\ OnPlan'
  BY <1>1, LockHolder
<1>3. /\ seen[s].order.status = status /\ seen[s].order.lines = lines
      /\ seen[s].order.returned = returned
  BY <1>2 DEF Order
<1>4. /\ status = "Completed" /\ status' = status /\ lines' = lines
      /\ paid' = paid /\ booked' = booked /\ events' = events
  BY <1>3 DEF Return
<1>5. PICK ask \in [Lines -> Quantities], shelf \in SUBSET Lines :
        LET part == [l \in Lines |-> IF l \in shelf THEN ask[l] ELSE 0]
        IN  /\ \A l \in Lines : ask[l] <= lines[l] - returned[l]
            /\ returned' = Plus(returned, ask)
            /\ back' = Plus(back, Restocked(part, lines))
            /\ gone' = Plus(gone, Minus(ask, part))
  BY <1>3 DEF Return
<1> DEFINE part == [l \in Lines |-> IF l \in shelf THEN ask[l] ELSE 0]
<1>6. /\ \A l \in Lines : ask[l] <= lines[l] - returned[l]
      /\ returned' = Plus(returned, ask)
      /\ back' = Plus(back, Restocked(part, lines))
      /\ gone' = Plus(gone, Minus(ask, part))
  BY <1>5
<1>7. /\ lines \in [Lines -> Nat] /\ returned \in [Lines -> Nat]
      /\ back \in [Lines -> Int] /\ gone \in [Lines -> Int]
      /\ ask \in [Lines -> Nat] /\ part \in [Lines -> Nat]
  <2>1. ask \in [Lines -> Nat]
    BY LinesAssumption
  <2> QED
    BY <2>1 DEF IInv, TypeOK
<1>a. Restocked(part, lines) = [l \in Lines |-> part[l]]
  BY RestockedIsPart
<1> HIDE DEF part
<1>8. /\ returned' = [l \in Lines |-> returned[l] + ask[l]]
      /\ back' = [l \in Lines |-> back[l] + part[l]]
      /\ gone' = [l \in Lines |-> gone[l] + (ask[l] - part[l])]
  BY <1>6, <1>a DEF Plus, Minus
<1>9. returned' \in [Lines -> Nat] /\ back' \in [Lines -> Int] /\ gone' \in [Lines -> Int]
  BY <1>7, <1>8
<1>10. TypeOK'
  <2>1. /\ phase' \in [Sessions -> Phases] /\ shift' = shift
        /\ handler' \in [Sessions -> Handlers \cup {"none"}]
        /\ DOMAIN seen' = Sessions /\ \A u \in Sessions : seen'[u].shift \in Nat
    BY <1>1, EndFacts
  <2> QED
    BY <1>4, <1>7, <1>9, <2>1 DEF IInv, TypeOK
<1>11. ReturnsBounded'
  <2>1. ASSUME NEW l \in Lines
        PROVE  returned'[l] <= lines'[l] /\ lines'[l] <= Ordered[l]
    <3>1. /\ returned'[l] = returned[l] + ask[l] /\ ask[l] <= lines[l] - returned[l]
          /\ lines'[l] = lines[l]
      BY <1>4, <1>6, <1>8
    <3>2. returned[l] \in Nat /\ ask[l] \in Nat /\ lines[l] \in Nat
      BY <1>7
    <3>3. lines[l] <= Ordered[l]
      BY DEF IInv, ReturnsBounded
    <3> QED
      BY <3>1, <3>2, <3>3
  <2> QED
    BY <2>1, <1>4 DEF ReturnsBounded
<1>12. GoodsConserved'
  <2> SUFFICES ASSUME NEW l \in Lines
               PROVE  Ordered[l] - back'[l] - gone'[l] = lines'[l] - returned'[l]
    BY <1>4 DEF GoodsConserved, Out
  <2>1. Ordered[l] - back[l] - gone[l] = lines[l] - returned[l]
    BY <1>4 DEF IInv, GoodsConserved, Out
  <2>2. /\ Ordered[l] \in Int /\ lines[l] \in Int /\ returned[l] \in Int
        /\ back[l] \in Int /\ gone[l] \in Int /\ ask[l] \in Int /\ part[l] \in Int
    BY <1>7, OrderedPositive
  <2>3. /\ back'[l] = back[l] + part[l] /\ gone'[l] = gone[l] + (ask[l] - part[l])
        /\ returned'[l] = returned[l] + ask[l] /\ lines'[l] = lines[l]
    BY <1>4, <1>8
  <2> QED
    BY <2>1, <2>2, <2>3
<1>13. (lines # Nothing)' /\ CompletedPaysItsGoods' /\ HistoryIsAChain' /\ OnFlow'
  BY <1>4 DEF Nothing, CompletedPaysItsGoods, HistoryIsAChain, OnFlow, IInv
<1> QED
  BY <1>2, <1>10, <1>11, <1>12, <1>13 DEF IInv

------------------------------------------------------------------------------
\* Every step keeps the invariant.
LEMMA NextKeeps ==
  ASSUME IInv, Kept, [Next]_vars
  PROVE  IInv'
<1> USE DEF Step
<1>0. /\ phase \in [Sessions -> Phases] /\ handler \in [Sessions -> Handlers \cup {"none"}]
      /\ DOMAIN seen = Sessions /\ \A s \in Sessions : seen[s].shift \in Nat
      /\ shift \in [no : Nat, open : BOOLEAN]
  BY DEF IInv, TypeOK
<1>1. CASE OpenShift \/ CloseShift
  <2>1. shift' \in [no : Nat, open : BOOLEAN]
    <3>1. CASE OpenShift
      BY <3>1, <1>0 DEF OpenShift
    <3>2. CASE CloseShift
      BY <3>2, <1>0 DEF CloseShift
    <3> QED
      BY <1>1, <3>1, <3>2
  <2>2. UNCHANGED <<row, goods, session>>
    BY <1>1 DEF OpenShift, CloseShift
  <2> QED
    BY <2>1, <2>2 DEF IInv, TypeOK, LockExclusive, SeenCurrent, OnPlan, ReturnsBounded, Order,
                      GoodsConserved, Out, CompletedPaysItsGoods, HistoryIsAChain, OnFlow,
                      row, goods, session
<1>2. ASSUME NEW s \in Sessions, NEW h \in Handlers, Begin(s, h)
      PROVE  IInv'
  <2>1. /\ UNCHANGED <<row, goods>> /\ shift' = shift /\ seen' = seen
        /\ phase[s] = "idle" /\ phase' = [phase EXCEPT ![s] =
               IF h \in {"complete", "remove"} THEN "load" ELSE "lock"]
        /\ handler' = [handler EXCEPT ![s] = h]
    BY <1>2 DEF Begin
  <2>2. /\ phase' \in [Sessions -> Phases] /\ phase'[s] \notin {"remove", "locked"}
        /\ \A u \in Sessions \ {s} : phase'[u] = phase[u]
    BY <2>1, <1>0 DEF Phases
  <2>3. /\ handler' \in [Sessions -> Handlers \cup {"none"}] /\ handler'[s] = h
        /\ \A u \in Sessions \ {s} : handler'[u] = handler[u]
    BY <2>1, <1>0
  <2>4. phase'[s] = "load" => h \in {"complete", "remove"}
    BY <2>1, <1>0
  <2> QED
    BY <2>1, <2>2, <2>3, <2>4, <1>0, ControlStep
<1>3. ASSUME NEW s \in Sessions, Load(s)
      PROVE  IInv'
  <2> DEFINE new == [order |-> Order, payable |-> Payable(lines), shift |-> 0]
  <2>1. /\ UNCHANGED <<row, goods>> /\ shift' = shift /\ handler' = handler
        /\ phase[s] = "load" /\ phase' = [phase EXCEPT ![s] =
               IF handler[s] = "complete" THEN "shift" ELSE "remove"]
        /\ seen' = [seen EXCEPT ![s] = new]
    BY <1>3 DEF Load
  <2>2. /\ phase' \in [Sessions -> Phases] /\ phase'[s] \notin {"load", "locked"}
        /\ \A u \in Sessions \ {s} : phase'[u] = phase[u]
    BY <2>1, <1>0 DEF Phases
  <2>3. new.shift = 0
    OBVIOUS
  <2> HIDE DEF new
  <2>4. /\ DOMAIN seen' = Sessions /\ seen'[s].shift \in Nat
        /\ \A u \in Sessions \ {s} : seen'[u] = seen[u]
    BY <2>1, <2>3, <1>0
  <2>5. phase'[s] = "remove" => handler'[s] = "remove"
    BY <2>1, <1>0 DEF IInv, OnPlan
  <2> QED
    BY <2>1, <2>2, <2>4, <2>5, <1>0, ControlStep
<1>4. ASSUME NEW s \in Sessions, ReadShift(s)
      PROVE  IInv'
  <2> DEFINE new == [order |-> seen[s].order, payable |-> seen[s].payable,
                     shift |-> IF shift.open THEN shift.no ELSE 0]
  <2>1. /\ UNCHANGED <<row, goods>> /\ shift' = shift /\ handler' = handler
        /\ phase[s] = "shift" /\ phase' = [phase EXCEPT ![s] = "lock"]
        /\ seen' = [seen EXCEPT ![s] = new]
    BY <1>4, <1>0 DEF ReadShift
  <2>2. /\ phase' \in [Sessions -> Phases] /\ phase'[s] = "lock"
        /\ \A u \in Sessions \ {s} : phase'[u] = phase[u]
    BY <2>1, <1>0 DEF Phases
  <2>3. new.shift \in Nat
    BY <1>0
  <2> HIDE DEF new
  <2>4. /\ DOMAIN seen' = Sessions /\ seen'[s].shift \in Nat
        /\ \A u \in Sessions \ {s} : seen'[u] = seen[u]
    BY <2>1, <2>3, <1>0
  <2> QED
    BY <2>1, <2>2, <2>4, <1>0, ControlStep
<1>5. ASSUME NEW s \in Sessions, LockOrder(s)
      PROVE  IInv'
  <2> DEFINE new == [order |-> Order, payable |-> seen[s].payable, shift |-> seen[s].shift]
  <2>1. /\ UNCHANGED <<row, goods>> /\ shift' = shift /\ handler' = handler
        /\ phase[s] = "lock" /\ phase' = [phase EXCEPT ![s] = "locked"]
        /\ seen' = [seen EXCEPT ![s] = new]
        /\ \A u \in Sessions : phase[u] # "locked"
    BY <1>5, <1>0 DEF LockOrder, Unlocked
  <2>2. /\ phase' \in [Sessions -> Phases] /\ phase'[s] = "locked"
        /\ \A u \in Sessions \ {s} : phase'[u] = phase[u]
    BY <2>1, <1>0 DEF Phases
  <2>3. new.shift \in Nat /\ new.order = Order
    BY <1>0
  <2> HIDE DEF new
  <2>4. /\ DOMAIN seen' = Sessions /\ seen'[s].shift \in Nat /\ seen'[s].order = Order
        /\ \A u \in Sessions \ {s} : seen'[u] = seen[u]
    BY <2>1, <2>3, <1>0
  <2> QED
    BY <2>1, <2>2, <2>4, <1>0, ControlStep
<1>6. ASSUME NEW s \in Sessions, GiveUp(s)
      PROVE  IInv'
  <2>1. UNCHANGED <<row, goods>> /\ End(s, phase[s])
    BY <1>6 DEF GiveUp
  <2>2. /\ phase' \in [Sessions -> Phases] /\ phase'[s] = "idle"
        /\ \A u \in Sessions \ {s} : phase'[u] = phase[u]
        /\ handler' \in [Sessions -> Handlers \cup {"none"}]
        /\ \A u \in Sessions \ {s} : handler'[u] = handler[u]
        /\ DOMAIN seen' = Sessions /\ seen'[s].shift \in Nat
        /\ \A u \in Sessions \ {s} : seen'[u] = seen[u]
        /\ shift' = shift
    BY <2>1, EndFacts
  <2> QED
    BY <2>1, <2>2, <1>0, ControlStep
<1>7. ASSUME NEW s \in Sessions, Remove(s)
      PROVE  FALSE
  <2>1. phase[s] = "remove"
    BY <1>7 DEF Remove, End
  <2>2. handler[s] = "remove"
    BY <2>1 DEF IInv, OnPlan
  <2> QED
    BY <2>2, <1>0 DEF Kept
<1>8. CASE UNCHANGED vars
  BY <1>8 DEF IInv, TypeOK, LockExclusive, SeenCurrent, OnPlan, ReturnsBounded, Order,
              GoodsConserved, Out, CompletedPaysItsGoods, HistoryIsAChain, OnFlow,
              vars, row, goods, session
<1> QED
  BY <1>1, <1>2, <1>3, <1>4, <1>5, <1>6, <1>7, <1>8, MoveKeeps, TrimKeeps, ReturnKeeps DEF Next

------------------------------------------------------------------------------
\* The inductive invariant holds in every reachable state.
THEOREM OrderInductive == ASSUME Kept PROVE Spec => []IInv
<1>1. IInv /\ [Next]_vars => IInv'
  BY NextKeeps
<1> QED
  BY <1>1, InitIInv, PTL DEF Spec

\* Type correctness.
THEOREM OrderTypes == ASSUME Kept PROVE Spec => []TypeOK
<1>1. IInv => TypeOK
  BY DEF IInv
<1> QED
  BY <1>1, OrderInductive, PTL

\* Whatever requests race for the order, its goods are accounted for once.
THEOREM GoodsConservedThm == ASSUME Kept PROVE Spec => []GoodsConserved
<1>1. IInv => GoodsConserved
  BY DEF IInv
<1> QED
  BY <1>1, OrderInductive, PTL

\* A completed order was paid what its lines and delivery cost, although the
\* tender was settled before the lock.
THEOREM PaidInFull == ASSUME Kept PROVE Spec => []CompletedPaysItsGoods
<1>1. IInv => CompletedPaysItsGoods
  BY DEF IInv
<1> QED
  BY <1>1, OrderInductive, PTL

\* The history rows tell one story that ends where the order stands.
THEOREM HistoryThm == ASSUME Kept PROVE Spec => []HistoryIsAChain
<1>1. IInv => HistoryIsAChain
  BY DEF IInv
<1> QED
  BY <1>1, OrderInductive, PTL

------------------------------------------------------------------------------
\* The money: what quantities cost is a number, and adds up.
LEMMA CostNat ==
  ASSUME NEW q \in [Lines -> Nat]
  PROVE  Cost(q) \in Nat
<1> DEFINE f == [l \in Lines |-> q[l] * Price[l]]
<1>1. \A l \in Lines : f[l] \in Nat
  BY MoneyAssumption
<1>2. DOMAIN f = Lines /\ Cost(q) = SumFunction(f)
  BY DEF Cost
<1> HIDE DEF f
<1>3. SumFunctionOnSet(f, Lines) \in Nat
  BY <1>1, LinesAssumption, SumNat
<1> QED
  BY <1>2, <1>3 DEF SumFunction

LEMMA CostPlus ==
  ASSUME NEW q \in [Lines -> Nat], NEW r \in [Lines -> Nat]
  PROVE  Cost(Plus(q, r)) = Cost(q) + Cost(r)
<1> DEFINE f == [l \in Lines |-> q[l] * Price[l]]
           g == [l \in Lines |-> r[l] * Price[l]]
           h == [l \in Lines |-> Plus(q, r)[l] * Price[l]]
<1>1. \A l \in Lines : f[l] \in Int /\ g[l] \in Int /\ h[l] = f[l] + g[l]
  <2> TAKE l \in Lines
  <2>1. q[l] \in Nat /\ r[l] \in Nat /\ Price[l] \in Nat
    BY MoneyAssumption
  <2>2. Plus(q, r)[l] = q[l] + r[l]
    BY DEF Plus
  <2>3. q[l] * Price[l] \in Int /\ r[l] * Price[l] \in Int
    BY <2>1
  <2>4. (q[l] + r[l]) * Price[l] = q[l] * Price[l] + r[l] * Price[l]
    BY <2>1
  <2> QED
    BY <2>2, <2>3, <2>4
<1>2. /\ DOMAIN f = Lines /\ DOMAIN g = Lines /\ DOMAIN h = Lines
      /\ Cost(q) = SumFunction(f) /\ Cost(r) = SumFunction(g) /\ Cost(Plus(q, r)) = SumFunction(h)
  BY DEF Cost
<1> HIDE DEF f, g, h
<1>3. SumFunctionOnSet(h, Lines) = SumFunctionOnSet(f, Lines) + SumFunctionOnSet(g, Lines)
  BY <1>1, LinesAssumption, SumPlus
<1> QED
  BY <1>2, <1>3 DEF SumFunction

\* A return refunds what it brings back, and the fee only with the last of it.
LEMMA ReturnRefunds ==
  ASSUME IInv, Kept, RefundsAccounted, NEW s \in Sessions, Return(s)
  PROVE  RefundsAccounted'
<1>1. End(s, "locked")
  BY DEF Return
<1>2. seen[s].order = Order
  BY <1>1, LockHolder
<1>3. /\ seen[s].order.status = status /\ seen[s].order.lines = lines
      /\ seen[s].order.returned = returned
  BY <1>2 DEF Order
<1>4. status = "Completed" /\ status' = status /\ lines' = lines /\ paid' = paid
  BY <1>3 DEF Return
<1>5. PICK ask \in [Lines -> Quantities], shelf \in SUBSET Lines, fee \in {0, Fee} :
        /\ ask # Nothing
        /\ \A l \in Lines : ask[l] <= lines[l] - returned[l]
        /\ returned' = Plus(returned, ask)
        /\ Plus(returned, ask) # lines => fee = 0
        /\ refunded' = refunded + Cost(ask) + fee
  BY <1>3 DEF Return, FeeRefund
<1>6. /\ ask \in [Lines -> Nat] /\ returned \in [Lines -> Nat] /\ lines \in [Lines -> Nat]
      /\ Fee \in Nat
  BY LinesAssumption, MoneyAssumption DEF IInv, TypeOK
<1>7. returned # lines
  <2> SUFFICES ASSUME returned = lines PROVE FALSE
    OBVIOUS
  <2>1. \A l \in Lines : ask[l] = 0
    <3> TAKE l \in Lines
    <3>1. ask[l] \in Nat /\ lines[l] \in Nat /\ ask[l] <= lines[l] - lines[l]
      BY <1>5, <1>6
    <3> QED
      BY <3>1
  <2>2. ask = Nothing
    BY <1>6, <2>1 DEF Nothing
  <2> QED
    BY <1>5, <2>2
<1>8. Cost(returned') = Cost(returned) + Cost(ask) /\ Cost(returned) \in Nat /\ Cost(ask) \in Nat
  BY <1>5, <1>6, CostPlus, CostNat
<1>9. refunded <= Cost(returned) /\ refunded \in Nat /\ paid \in Nat
  BY <1>7, <1>8 DEF RefundsAccounted
<1>10. refunded' <= Cost(returned') + (IF returned' = lines THEN Fee ELSE 0)
  BY <1>5, <1>6, <1>8, <1>9
<1>11. refunded' \in Nat
  BY <1>5, <1>6, <1>8, <1>9
<1> QED
  BY <1>4, <1>9, <1>10, <1>11 DEF RefundsAccounted

\* Before anything came back, nothing was refunded.
LEMMA NothingRefunded ==
  ASSUME returned' \in [Lines -> Nat], refunded' = 0, paid' \in Nat
  PROVE  RefundsAccounted'
<1>1. Cost(returned') \in Nat
  BY CostNat
<1>2. Cost(returned)' = Cost(returned')
  BY DEF Cost
<1>3. Fee \in Nat
  BY MoneyAssumption
<1> QED
  BY <1>1, <1>2, <1>3 DEF RefundsAccounted

\* Every step keeps the account of the refunds.
LEMMA NextRefunds ==
  ASSUME IInv, Kept, RefundsAccounted, [Next]_vars
  PROVE  RefundsAccounted'
<1>1. CASE UNCHANGED <<status, lines, returned, paid, refunded>>
  BY <1>1 DEF RefundsAccounted, Cost
<1>2. ASSUME NEW s \in Sessions, Move(s) PROVE RefundsAccounted'
  <2>1. /\ End(s, "locked") /\ handler[s] \in Moves
        /\ returned' = returned /\ refunded' = refunded
        /\ paid' = (IF handler[s] = "complete" THEN seen[s].payable ELSE paid)
        /\ MoveAllowed(handler[s], seen[s].order, seen[s].payable)
    BY <1>2 DEF Move
  <2>2. seen[s].order.status = status /\ seen[s].order.lines = lines
    BY <2>1, LockHolder DEF Order
  <2>3. status # "Completed" /\ (handler[s] = "complete" => seen[s].payable = Payable(lines))
    BY <2>1, <2>2 DEF MoveAllowed, CanTransition, Final
  <2>4. Payable(lines) \in Nat
    <3>1. Cost(lines) \in Nat
      BY CostNat DEF IInv, TypeOK
    <3> QED
      BY <3>1, MoneyAssumption DEF Payable
  <2>5. refunded' = 0 /\ paid' \in Nat /\ returned' \in [Lines -> Nat]
    BY <2>1, <2>3, <2>4 DEF RefundsAccounted, IInv, TypeOK
  <2> QED
    BY <2>5, NothingRefunded
<1>3. ASSUME NEW s \in Sessions, Trim(s) PROVE RefundsAccounted'
  <2>1. End(s, "locked")
    BY <1>3 DEF Trim
  <2>2. seen[s].order.status = status
    BY <2>1, LockHolder DEF Order
  <2>3. status = "Assembling" /\ returned' = returned /\ refunded' = refunded
    BY <1>3, <2>2 DEF Trim
  <2>4. PICK next \in [Lines -> Quantities] : paid' = Cost(next)
    BY <1>3 DEF Trim
  <2>5. paid' \in Nat
    <3>1. next \in [Lines -> Nat]
      BY LinesAssumption
    <3> QED
      BY <2>4, <3>1, CostNat
  <2>6. refunded' = 0 /\ returned' \in [Lines -> Nat]
    BY <2>3 DEF RefundsAccounted, IInv, TypeOK
  <2> QED
    BY <2>5, <2>6, NothingRefunded
<1>4. ASSUME NEW s \in Sessions, Remove(s) PROVE FALSE
  BY <1>4, HandlerNames DEF Remove, End, Step, IInv, OnPlan, TypeOK, Kept
<1> QED
  BY <1>1, <1>2, <1>3, <1>4, ReturnRefunds
     DEF Next, OpenShift, CloseShift, Begin, Load, ReadShift, LockOrder, GiveUp,
         vars, row, goods, session

\* Returns never give back more than the completed order was paid, the delivery
\* fee included, whoever returns and completes at the same time.
THEOREM RefundsCoveredThm == ASSUME Kept PROVE Spec => []RefundsCovered
<1>1. Init => RefundsAccounted
  <2> SUFFICES ASSUME Init PROVE RefundsAccounted
    OBVIOUS
  <2>1. paid = Cost(Ordered) /\ refunded = 0 /\ returned = Nothing
    BY DEF Init
  <2>2. Nothing \in [Lines -> Nat] /\ Ordered \in [Lines -> Nat]
    BY LinesAssumption DEF Nothing
  <2>3. Cost(returned) \in Nat /\ paid \in Nat /\ Fee \in Nat
    BY <2>1, <2>2, CostNat, MoneyAssumption
  <2> QED
    BY <2>1, <2>3 DEF RefundsAccounted
<1>2. IInv /\ RefundsAccounted /\ [Next]_vars => RefundsAccounted'
  BY NextRefunds
<1>3. IInv /\ RefundsAccounted => RefundsCovered
  <2> SUFFICES ASSUME IInv, RefundsAccounted PROVE refunded <= paid
    BY DEF RefundsCovered
  <2>1. CASE status # "Completed"
    BY <2>1 DEF RefundsAccounted
  <2>2. CASE status = "Completed"
    <3>1. lines \in [Lines -> Nat] /\ returned \in [Lines -> Nat] /\ Fee \in Nat
      BY MoneyAssumption DEF IInv, TypeOK
    <3>2. paid = Cost(lines) + Fee
      BY <2>2 DEF IInv, CompletedPaysItsGoods, Payable
    <3> DEFINE rest == [l \in Lines |-> lines[l] - returned[l]]
    <3>3. rest \in [Lines -> Nat] /\ Plus(returned, rest) = lines
      <4>1. \A l \in Lines : /\ lines[l] \in Nat /\ returned[l] \in Nat
                            /\ returned[l] <= lines[l]
        BY <3>1 DEF IInv, ReturnsBounded
      <4> QED
        BY <3>1, <4>1 DEF Plus
    <3> HIDE DEF rest
    <3>4. Cost(lines) = Cost(returned) + Cost(rest)
      BY <3>1, <3>3, CostPlus
    <3>5. Cost(returned) \in Nat /\ Cost(rest) \in Nat
      BY <3>1, <3>3, CostNat
    <3>6. refunded \in Nat /\ refunded <= Cost(returned) + Fee
      BY <3>1, <3>5 DEF RefundsAccounted
    <3> QED
      BY <3>1, <3>2, <3>4, <3>5, <3>6
  <2> QED
    BY <2>1, <2>2
<1> QED
  BY <1>1, <1>2, <1>3, OrderInductive, PTL DEF Spec

------------------------------------------------------------------------------
\* Moves along the flow, and the promise the order keeps.

\* What a move does, seen through the lock.
LEMMA MoveFacts ==
  ASSUME IInv, Kept, NEW s \in Sessions, Move(s)
  PROVE  /\ handler[s] \in Moves
         /\ status' = Target[handler[s]]
         /\ CanTransition(status, Target[handler[s]])
         /\ lines' = lines /\ returned' = returned /\ gone' = gone
         /\ back' = IF handler[s] \in {"cancel", "customerCancel"}
                    THEN Plus(back, Restocked(lines, lines)) ELSE back
<1>1. End(s, "locked")
  BY DEF Move
<1>2. seen[s].order.status = status /\ seen[s].order.lines = lines
  BY <1>1, LockHolder DEF Order
<1> QED
  BY <1>2 DEF Move, MoveAllowed

\* Two people pressing at once never take the order backwards or out of a final
\* state.
THEOREM NeverBackwardsThm == ASSUME Kept PROVE Spec => NeverBackwards
<1>1. IInv /\ [Next]_vars
        => (status' # status => status' = "Deleted" \/ Rank[status'] > Rank[status])
  <2> SUFFICES ASSUME IInv, [Next]_vars, status' # status
               PROVE  status' = "Deleted" \/ Rank[status'] > Rank[status]
    OBVIOUS
  <2>1. CASE \E s \in Sessions : Move(s)
    <3>1. PICK s \in Sessions : Move(s)
      BY <2>1
    <3>2. /\ handler[s] \in Moves /\ status' = Target[handler[s]]
          /\ CanTransition(status, Target[handler[s]]) /\ status \in Statuses
          /\ status # "Deleted"
      BY <3>1, MoveFacts DEF IInv, TypeOK, ReturnsBounded, Kept
    <3>3. CASE status' = "Cancelled"
      BY <3>2, <3>3 DEF CanTransition, Final, Statuses, Rank
    <3>4. CASE status' # "Cancelled"
      BY <3>2, <3>4 DEF CanTransition
    <3> QED
      BY <3>3, <3>4
  <2>2. CASE \E s \in Sessions : Remove(s)
    BY <2>2 DEF Remove
  <2> QED
    BY <2>1, <2>2 DEF Next, OpenShift, CloseShift, Begin, Load, ReadShift, LockOrder, Trim,
                      Return, GiveUp, row, vars
<1> QED
  BY <1>1, OrderInductive, PTL DEF Spec, NeverBackwards

\* What is out for the order, while it is neither cancelled nor deleted.
LEMMA OutOpen ==
  ASSUME Kept, IInv, status # "Cancelled"
  PROVE  Out = [l \in Lines |-> lines[l] - returned[l]]
  BY DEF IInv, GoodsConserved, ReturnsBounded, Kept, Out

\* The order behaves as OnlinePromise says.
THEOREM ImplementsPromise == ASSUME Kept PROVE Spec => PromiseSpec
<1>1. Init => Promise!Init
  <2> SUFFICES ASSUME Init PROVE status = "Pending" /\ Out = Ordered
    BY DEF Promise!Init
  <2>1. status = "Pending" /\ back = Nothing /\ gone = Nothing
    BY DEF Init
  <2>2. \A l \in Lines : Ordered[l] - back[l] - gone[l] = Ordered[l]
    BY <2>1, OrderedPositive DEF Nothing
  <2> QED
    BY <2>1, <2>2, LinesAssumption DEF Out
<1>2. IInv /\ IInv' /\ [Next]_vars => [Promise!Next]_(Promise!promiseVars)
  <2> SUFFICES ASSUME IInv, IInv', [Next]_vars
               PROVE  Promise!Next \/ UNCHANGED <<status, Out>>
    BY DEF Promise!promiseVars
  <2>1. ASSUME NEW s \in Sessions, Move(s), handler[s] \in {"cancel", "customerCancel"}
        PROVE  Promise!Cancel
    <3>1. status' = "Cancelled"
      BY <2>1, MoveFacts DEF Target
    <3>2. status \in Promise!Open
      <4>1. status \in Statuses /\ status # "Deleted" /\ status \notin Final
        BY <2>1, MoveFacts DEF CanTransition, IInv, TypeOK, ReturnsBounded, Kept
      <4> QED
        BY <4>1 DEF Promise!Open, Statuses, Rank, Final
    <3>3. Out' = Nothing
      BY <3>1 DEF IInv, GoodsConserved, Out, Nothing
    <3> QED
      BY <3>1, <3>2, <3>3 DEF Promise!Cancel, Promise!Nothing, Nothing
  <2>2. ASSUME NEW s \in Sessions, Move(s), handler[s] \notin {"cancel", "customerCancel"}
        PROVE  Promise!Advance
    <3>1. /\ handler[s] \in Moves /\ status' = Target[handler[s]]
          /\ CanTransition(status, status')
          /\ back' = back /\ gone' = gone
      BY <2>2, MoveFacts
    <3>2. Out' = Out
      BY <3>1 DEF Out
    <3>3. status' \in {"Assembling", "Delivering", "ReadyForPickup", "Completed"}
      BY <2>2, <3>1 DEF Moves, Target
    <3>4. status \in Statuses /\ status # "Deleted" /\ status \notin Final
      BY <3>1 DEF CanTransition, IInv, TypeOK, ReturnsBounded, Kept
    <3>5. status \in Promise!Open
      BY <3>4 DEF Promise!Open, Statuses, Rank, Final
    <3>6. <<status, status'>> \in Promise!Stages
      <4>1. /\ status' = "Delivering" => DeliveryType = "delivery"
            /\ status' = "ReadyForPickup" => DeliveryType = "pickup"
            /\ Rank[status'] > Rank[status]
        BY <3>1, <3>3 DEF CanTransition
      <4>2. CASE status' = "Assembling"
        <5>1. status = "Pending"
          BY <4>1, <4>2, <3>5 DEF Rank, Promise!Open
        <5> QED
          BY <5>1, <4>2 DEF Promise!Stages
      <4>3. CASE status' = "Delivering"
        <5>1. status \in {"Pending", "Assembling"} /\ DeliveryType = "delivery"
          BY <4>1, <4>3, <3>5 DEF Rank, Promise!Open
        <5> QED
          BY <5>1, <4>3 DEF Promise!Stages
      <4>4. CASE status' = "ReadyForPickup"
        <5>1. status \in {"Pending", "Assembling"} /\ DeliveryType = "pickup"
          BY <4>1, <4>4, <3>5 DEF Rank, Promise!Open
        <5> QED
          BY <5>1, <4>4 DEF Promise!Stages
      <4>5. CASE status' = "Completed"
        <5>1. OnFlow
          BY DEF IInv
        <5>2. CASE status \in {"Pending", "Assembling"}
          BY <5>2, <4>5 DEF Promise!Stages
        <5>3. CASE status = "Delivering"
          BY <5>1, <5>3, <4>5 DEF Promise!Stages, OnFlow
        <5>4. CASE status = "ReadyForPickup"
          BY <5>1, <5>4, <4>5, FlowAssumption DEF Promise!Stages, OnFlow
        <5> QED
          BY <5>2, <5>3, <5>4, <3>5 DEF Promise!Open
      <4> QED
        BY <3>3, <4>2, <4>3, <4>4, <4>5
    <3> QED
      BY <3>2, <3>3, <3>6 DEF Promise!Advance, Promise!Open
  <2>3. ASSUME NEW s \in Sessions, Trim(s)
        PROVE  Promise!GiveBack
    <3>1. End(s, "locked")
      BY <2>3 DEF Trim
    <3>2. seen[s].order.status = status /\ seen[s].order.lines = lines
      BY <3>1, LockHolder DEF Order
    <3>3. /\ status = "Assembling" /\ status' = status /\ returned' = returned
          /\ \A l \in Lines : lines'[l] <= lines[l]
      BY <2>3, <3>2 DEF Trim
    <3>4. /\ Out = [l \in Lines |-> lines[l] - returned[l]]
          /\ Out' = [l \in Lines |-> lines'[l] - returned'[l]]
      BY <3>3, OutOpen DEF IInv, GoodsConserved, ReturnsBounded, Out
    <3>5. /\ returned = Nothing /\ lines \in [Lines -> Nat] /\ lines' \in [Lines -> Nat]
          /\ lines' # Nothing
      BY <3>3 DEF IInv, ReturnsBounded, TypeOK, Nothing
    <3>6. Out' = lines'
      BY <3>3, <3>4, <3>5 DEF Nothing
    <3>7. \A l \in Lines : Out'[l] <= Out[l]
      BY <3>3, <3>4, <3>5, <3>6 DEF Nothing
    <3> QED
      BY <3>3, <3>5, <3>6, <3>7 DEF Promise!GiveBack, Promise!Nothing, Nothing
  <2>4. ASSUME NEW s \in Sessions, Return(s)
        PROVE  Promise!GiveBack
    <3>1. End(s, "locked")
      BY <2>4 DEF Return
    <3>2. seen[s].order.status = status
      BY <3>1, LockHolder DEF Order
    <3>3. status = "Completed" /\ status' = status /\ lines' = lines
      BY <2>4, <3>2 DEF Return
    <3>4. /\ Out = [l \in Lines |-> lines[l] - returned[l]]
          /\ Out' = [l \in Lines |-> lines[l] - returned'[l]]
      BY <3>3, OutOpen DEF IInv, GoodsConserved, ReturnsBounded, Out
    <3>5. PICK ask \in [Lines -> Quantities] : returned' = Plus(returned, ask)
      BY <2>4 DEF Return
    <3>6. /\ lines \in [Lines -> Nat] /\ returned \in [Lines -> Nat]
          /\ returned' \in [Lines -> Nat] /\ ask \in [Lines -> Nat]
      BY LinesAssumption DEF IInv, TypeOK
    <3>7. \A l \in Lines : returned'[l] = returned[l] + ask[l] /\ returned'[l] <= lines[l]
      BY <3>3, <3>5 DEF Plus, IInv, ReturnsBounded
    <3>8. \A l \in Lines : lines[l] - returned'[l] \in Nat
                           /\ lines[l] - returned'[l] <= lines[l] - returned[l]
      BY <3>6, <3>7
    <3>9. Out' \in [Lines -> Nat] /\ \A l \in Lines : Out'[l] <= Out[l]
      BY <3>4, <3>8
    <3> QED
      BY <3>3, <3>9 DEF Promise!GiveBack
  <2>5. ASSUME NEW s \in Sessions, Remove(s)
        PROVE  FALSE
    <3>1. handler[s] = "remove" /\ handler \in [Sessions -> Handlers \cup {"none"}]
      BY <2>5 DEF Remove, End, Step, IInv, OnPlan, TypeOK
    <3> QED
      BY <3>1 DEF Kept
  <2>6. CASE OpenShift \/ CloseShift \/ UNCHANGED vars
    <3>1. status' = status /\ back' = back /\ gone' = gone
      BY <2>6 DEF OpenShift, CloseShift, row, goods, vars
    <3> QED
      BY <3>1 DEF Out
  <2>7. ASSUME NEW s \in Sessions,
               \/ \E h \in Handlers : Begin(s, h)
               \/ Load(s) \/ ReadShift(s) \/ LockOrder(s) \/ GiveUp(s)
        PROVE  UNCHANGED <<status, Out>>
    <3>1. status' = status /\ back' = back /\ gone' = gone
      BY <2>7 DEF Begin, Load, ReadShift, LockOrder, GiveUp, row, goods
    <3> QED
      BY <3>1 DEF Out
  <2>8. ASSUME NEW s \in Sessions, Move(s) \/ Trim(s) \/ Return(s) \/ Remove(s)
        PROVE  Promise!Next
    <3>1. CASE Move(s)
      BY <3>1, <2>1, <2>2 DEF Promise!Next
    <3>2. CASE Trim(s) \/ Return(s)
      BY <3>2, <2>3, <2>4 DEF Promise!Next
    <3> QED
      BY <2>8, <3>1, <3>2, <2>5
  <2> QED
    <3>1. CASE OpenShift \/ CloseShift \/ UNCHANGED vars
      BY <3>1, <2>6
    <3>2. CASE \E s \in Sessions : \/ \E h \in Handlers : Begin(s, h)
                                   \/ Load(s) \/ ReadShift(s) \/ LockOrder(s) \/ GiveUp(s)
      BY <3>2, <2>7
    <3>3. CASE \E s \in Sessions : Move(s) \/ Trim(s) \/ Return(s) \/ Remove(s)
      BY <3>3, <2>8
    <3> QED
      BY <3>1, <3>2, <3>3 DEF Next
<1> QED
  BY <1>1, <1>2, OrderInductive, PTL DEF Spec, PromiseSpec, Promise!Spec
=============================================================================
