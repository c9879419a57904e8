--------------------------- MODULE StockTxProofs ----------------------------
(***************************************************************************)
(* StockTx for every set of transactions, branches, kinds of document and  *)
(* quantities: its types; that the product's total is the sum of its       *)
(* shelves; that no lot is overdrawn and no guarded document overdraws its *)
(* shelf; that the open lots hold exactly the shelf while only guarded     *)
(* documents take from it; that the documents never wait for each other in *)
(* a circle; and that the interleaved transactions implement the one-step  *)
(* documents of StockBalance.                                              *)
(* The argument is in IInv: rows and lots are locked exclusively; whoever  *)
(* commits a stock write holds the product row (Written), so a document    *)
(* that took that row before it read the shelf finds it as it read it      *)
(* (ShelfPromised).  LotsInv adds the account of the lots, LocksInOrder    *)
(* the order in which they are locked.                                     *)
(***************************************************************************)
EXTENDS StockTx, Sums

\* Signed quantities and deltas are integers.
LEMMA RequestTypes ==
  ASSUME NEW r \in Request
  PROVE  /\ r.kind \in AllKinds /\ r.from \in Branches /\ r.to \in Branches
         /\ r.qty \in Nat /\ r.qty > 0
         /\ QuantityDelta(r) \in Int
         /\ \A b \in Branches : StockDelta(r, b) \in Int
         /\ r.kind = "transfer" <=> r.from # r.to
BY QtyAssumption, KindsAssumption
   DEF Request, QuantityDelta, StockDelta, AllKinds, Withdrawals, Arrivals,
       Guarded, Unguarded, Trimming, Restocking

\* The opening total is a number: the sum of the opening shelves.
LEMMA OpeningTotal == OpeningQuantity \in Int
<1>1. DOMAIN OpeningStock = Branches /\ \A b \in Branches : OpeningStock[b] \in Int
  BY OpeningAssumption
<1>2. SumFunctionOnSet(OpeningStock, Branches) \in Int
  BY <1>1, FiniteAssumption, SumInt
<1>. QED
  BY <1>1, <1>2, OpeningAssumption DEF SumFunction

\* The opening state is well typed.
LEMMA InitTypeOK == Init => TypeOK
<1> SUFFICES ASSUME Init PROVE TypeOK
    OBVIOUS
<1>1. lots \in Seq(Lot) /\ stock \in [Branches -> Int] /\ quantity \in Int
  BY OpeningAssumption, OpeningTotal DEF Init
<1>2. req \in [Tx -> Request]
  BY DEF Init
<1>3. \A t \in Tx : pc[t] \in {"lock", "select", "mint"}
  BY <1>2, RequestTypes DEF Init, FirstStep, AllKinds, Withdrawals
<1>4. pc = [t \in Tx |-> FirstStep(req[t].kind)]
  BY DEF Init
<1>. QED
  BY <1>1, <1>2, <1>3, <1>4
     DEF Init, TypeOK, TablesOK, ControlOK, LoopOK, WritesOK, Rows, Steps

\* A new lot is a lot.
LEMMA NewLotType ==
  ASSUME NEW b \in Branches, NEW age \in Nat, NEW n \in Int
  PROVE  NewLot(b, age, n) \in Lot
BY DEF NewLot, Lot

\* What every step of a transaction t leaves alone: the requests, the other
\* transactions, and, unless it commits, the committed rows.
LEMMA Frame ==
  ASSUME TypeOK, NEW t \in Tx, Statement(t) \/ Rollback(t)
  PROVE  /\ req' = req
         /\ Commit(t) \/ UNCHANGED committed
         /\ \A u \in Tx \ {t} :
              /\ pc'[u] = pc[u] /\ rows'[u] = rows[u] /\ share'[u] = share[u]
              /\ queue'[u] = queue[u] /\ draw'[u] = draw[u]
              /\ held'[u] = held[u] /\ need'[u] = need[u] /\ mint'[u] = mint[u]
              /\ dStock'[u] = dStock[u] /\ dQuantity'[u] = dQuantity[u]
<1>. USE DEF committed, private, Run, TypeOK, ControlOK, LoopOK, WritesOK
<1>1. CASE LockProduct(t)
  BY <1>1 DEF LockProduct
<1>2. CASE CheckShelf(t)
  BY <1>2 DEF CheckShelf
<1>3. CASE SelectLots(t)
  BY <1>3 DEF SelectLots
<1>4. CASE GatherLot(t)
  BY <1>4 DEF GatherLot
<1>5. CASE StartTaking(t)
  BY <1>5 DEF StartTaking
<1>6. CASE TakeFromLot(t)
  BY <1>6 DEF TakeFromLot
<1>7. CASE FinishTaking(t)
  BY <1>7 DEF FinishTaking
<1>8. CASE MintLot(t)
  BY <1>8 DEF MintLot
<1>9. CASE WriteStock(t)
  BY <1>9 DEF WriteStock
<1>10. CASE WriteQuantity(t)
  BY <1>10 DEF WriteQuantity
<1>11. CASE WriteDestination(t)
  BY <1>11 DEF WriteDestination
<1>12. CASE Commit(t)
  BY <1>12 DEF Commit, Release
<1>13. CASE Rollback(t)
  BY <1>13 DEF Rollback, Release
<1>. QED
  BY <1>1, <1>2, <1>3, <1>4, <1>5, <1>6, <1>7, <1>8, <1>9, <1>10, <1>11, <1>12, <1>13
     DEF Statement

\* What the invariant says of one transaction, and the sorts of what it uses.
LEMMA Sorts ==
  ASSUME TypeOK, NEW t \in Tx
  PROVE  /\ req[t] \in Request /\ req[t].kind \in AllKinds
         /\ req[t].from \in Branches /\ req[t].to \in Branches /\ req[t].qty \in Nat \ {0}
         /\ Signed(t) \in Int
         /\ lots \in Seq(Lot) /\ Len(lots) \in Nat /\ DOMAIN lots \subseteq Nat
         /\ \A l \in DOMAIN lots : /\ lots[l] \in Lot /\ lots[l].left \in Int
                                   /\ lots[l].age \in Nat /\ lots[l].branch \in Branches
         /\ stock \in [Branches -> Int] /\ quantity \in Int
         /\ pc \in [Tx -> Steps] /\ rows \in [Tx -> SUBSET Rows] /\ share \in [Tx -> BOOLEAN]
         /\ queue \in [Tx -> SUBSET (DOMAIN lots)] /\ DOMAIN draw = Tx
         /\ held \in [Tx -> Int] /\ need \in [Tx -> Nat]
         /\ mint \in [Tx -> Seq(Lot)] /\ dStock \in [Tx -> [Branches -> Int]]
         /\ dQuantity \in [Tx -> Int]
<1>1. req[t] \in Request
  BY DEF TypeOK, ControlOK
<1>2. /\ req[t].kind \in AllKinds
      /\ req[t].from \in Branches /\ req[t].to \in Branches /\ req[t].qty \in Nat \ {0}
  BY <1>1, RequestTypes
<1>3. lots \in Seq(Lot) /\ \A l \in DOMAIN lots : lots[l] \in Lot
  BY DEF TypeOK, TablesOK
<1>4. /\ Len(lots) \in Nat /\ DOMAIN lots \subseteq Nat
      /\ \A l \in DOMAIN lots : /\ lots[l].left \in Int /\ lots[l].age \in Nat
                                /\ lots[l].branch \in Branches
  BY <1>3 DEF Lot
<1>. QED
  BY <1>1, <1>2, <1>3, <1>4 DEF TypeOK, TablesOK, ControlOK, LoopOK, WritesOK, Signed

\* The units one round takes are in the lot, if the lot is not overdrawn.
LEMMA TakenBounds ==
  ASSUME TypeOK, LotsNeverOverdrawn, NEW t \in Tx, NEW l \in DOMAIN lots
  PROVE  /\ TakenFrom(t, l) \in Nat
         /\ TakenFrom(t, l) <= lots[l].left /\ TakenFrom(t, l) <= need[t]
         /\ need[t] - TakenFrom(t, l) \in Nat
<1>1. lots[l].left \in Nat /\ need[t] \in Nat
  BY Sorts DEF LotsNeverOverdrawn
<1>. QED
  BY <1>1 DEF TakenFrom

\* Changing what is left of a lot gives a lot of the same branch and age.
LEMMA LotRewritten ==
  ASSUME NEW l \in Lot, NEW n \in Int
  PROVE  /\ [l EXCEPT !.left = n] \in Lot
         /\ [l EXCEPT !.left = n].left = n
         /\ [l EXCEPT !.left = n].branch = l.branch
         /\ [l EXCEPT !.left = n].age = l.age
BY DEF Lot

\* A function on the positions of a sequence of lots, whose values are lots, is
\* a sequence of lots.
LEMMA LotsMapped ==
  ASSUME NEW s \in Seq(Lot), NEW u, u = [l \in DOMAIN s |-> u[l]],
         \A l \in DOMAIN s : u[l] \in Lot
  PROVE  u \in Seq(Lot) /\ Len(u) = Len(s)
<1>1. DOMAIN s = 1 .. Len(s) /\ Len(s) \in Nat
  OBVIOUS
<1>2. u \in [1 .. Len(s) -> Lot]
  BY <1>1
<1>. QED
  BY <1>1, <1>2

\* Every step keeps the types, as long as no lot is overdrawn.
LEMMA StepTypeOK ==
  ASSUME TypeOK, LotsNeverOverdrawn, NEW t \in Tx, Statement(t) \/ Rollback(t)
  PROVE  TypeOK'
<1>. USE Sorts DEF committed, private, Run, Steps
<1>1. CASE LockProduct(t)
  BY <1>1 DEF LockProduct, Rows, TypeOK, TablesOK, ControlOK, LoopOK, WritesOK
<1>2. CASE CheckShelf(t)
  BY <1>2 DEF CheckShelf, TypeOK, TablesOK, ControlOK, LoopOK, WritesOK
<1>3. CASE SelectLots(t)
  BY <1>3 DEF SelectLots, OpenLots, TypeOK, TablesOK, ControlOK, LoopOK, WritesOK
<1>4. CASE GatherLot(t)
  <2>1. PICK l \in Oldest(queue[t]) :
          /\ queue' = [queue EXCEPT ![t] = @ \ {l}]
          /\ IF lots[l].left > 0
             THEN /\ draw' = [draw EXCEPT ![t] = [m \in DOMAIN @ \cup {l} |->
                                                    IF m = l THEN 0 ELSE @[m]]]
                  /\ held' = [held EXCEPT ![t] = @ + lots[l].left]
             ELSE UNCHANGED <<draw, held>>
    BY <1>4 DEF GatherLot
  <2>2. l \in DOMAIN lots
    BY DEF Oldest
  <2>3. queue' \in [Tx -> SUBSET (DOMAIN lots)] /\ held' \in [Tx -> Int]
    BY <2>1, <2>2
  <2>4. /\ DOMAIN draw' = Tx
        /\ \A u \in Tx : /\ DOMAIN draw'[u] \subseteq DOMAIN lots
                         /\ \A m \in DOMAIN draw'[u] : draw'[u][m] \in Nat
    <3>1. CASE lots[l].left > 0
      <4>1. draw' = [draw EXCEPT ![t] = [m \in DOMAIN draw[t] \cup {l} |->
                                           IF m = l THEN 0 ELSE draw[t][m]]]
        BY <2>1, <3>1
      <4>. QED
        BY <4>1, <2>2 DEF TypeOK, LoopOK
    <3>2. CASE ~(lots[l].left > 0)
      BY <2>1, <3>2 DEF TypeOK, LoopOK
    <3>. QED
      BY <3>1, <3>2
  <2>. QED
    BY <1>4, <2>3, <2>4 DEF GatherLot, TypeOK, TablesOK, ControlOK, LoopOK, WritesOK
<1>5. CASE StartTaking(t)
  <2>1. /\ stock[req[t].from] \in Int /\ dStock[t][req[t].from] \in Int
        /\ held[t] \in Int /\ req[t].qty \in Nat
    OBVIOUS
  <2>2. Excess(t) \in Nat
    BY <2>1 DEF Excess
  <2>. QED
    BY <1>5, <2>1, <2>2 DEF StartTaking, TypeOK, TablesOK, ControlOK, LoopOK, WritesOK
<1>6. CASE TakeFromLot(t)
  <2>1. PICK l \in Oldest(queue[t]) :
          /\ queue' = [queue EXCEPT ![t] = @ \ {l}]
          /\ draw' = [draw EXCEPT ![t][l] = TakenFrom(t, l)]
          /\ need' = [need EXCEPT ![t] = @ - TakenFrom(t, l)]
          /\ mint' = IF req[t].kind = "transfer"
                     THEN [mint EXCEPT ![t] =
                             Append(@, NewLot(req[t].to, lots[l].age, TakenFrom(t, l)))]
                     ELSE mint
    BY <1>6 DEF TakeFromLot
  <2>2. l \in DOMAIN lots
    BY DEF Oldest
  <2>3. TakenFrom(t, l) \in Nat /\ need[t] - TakenFrom(t, l) \in Nat
    BY <2>2, TakenBounds
  <2>4. queue' \in [Tx -> SUBSET (DOMAIN lots)] /\ need' \in [Tx -> Nat]
    BY <2>1, <2>3
  <2>5. /\ DOMAIN draw' = Tx
        /\ \A u \in Tx : /\ DOMAIN draw'[u] \subseteq DOMAIN lots
                         /\ \A m \in DOMAIN draw'[u] : draw'[u][m] \in Nat
    <3>1. draw' = [draw EXCEPT ![t] = [draw[t] EXCEPT ![l] = TakenFrom(t, l)]]
      BY <2>1
    <3>. QED
      BY <3>1, <2>3 DEF TypeOK, LoopOK
  <2>6. mint' \in [Tx -> Seq(Lot)]
    <3>1. NewLot(req[t].to, lots[l].age, TakenFrom(t, l)) \in Lot
      BY <2>2, <2>3, NewLotType
    <3>2. Append(mint[t], NewLot(req[t].to, lots[l].age, TakenFrom(t, l))) \in Seq(Lot)
      BY <3>1
    <3>. QED
      BY <2>1, <3>2
  <2>. QED
    BY <1>6, <2>4, <2>5, <2>6 DEF TakeFromLot, TypeOK, TablesOK, ControlOK, LoopOK, WritesOK
<1>7. CASE FinishTaking(t)
  <2>1. Append(mint[t], NewLot(req[t].to, Len(lots) + 1, need[t])) \in Seq(Lot)
    <3>1. NewLot(req[t].to, Len(lots) + 1, need[t]) \in Lot
      BY NewLotType
    <3>. QED
      BY <3>1
  <2>2. [mint[t] EXCEPT ![1].left = IF need[t] < @ THEN @ - need[t] ELSE 0] \in Seq(Lot)
    <3>1. mint[t] \in Seq(Lot) /\ need[t] \in Nat
      OBVIOUS
    <3>2. CASE 1 \in DOMAIN mint[t]
      <4>1. mint[t][1] \in Lot
        BY <3>1, <3>2
      <4>2. (IF need[t] < mint[t][1].left THEN mint[t][1].left - need[t] ELSE 0) \in Int
        BY <3>1, <4>1 DEF Lot
      <4>3. [mint[t][1] EXCEPT !.left =
               IF need[t] < mint[t][1].left THEN mint[t][1].left - need[t] ELSE 0] \in Lot
        BY <4>1, <4>2, LotRewritten
      <4>4. \A s \in Seq(Lot), e \in Lot : 1 \in DOMAIN s => [s EXCEPT ![1] = e] \in Seq(Lot)
        OBVIOUS
      <4>. QED
        BY <3>1, <3>2, <4>3, <4>4
    <3>3. CASE 1 \notin DOMAIN mint[t]
      <4>1. [mint[t] EXCEPT ![1].left = IF need[t] < @ THEN @ - need[t] ELSE 0] = mint[t]
        BY <3>1, <3>3
      <4>. QED
        BY <3>1, <4>1
    <3>. QED
      BY <3>2, <3>3
  <2>3. mint' \in [Tx -> Seq(Lot)]
    <3>1. mint' = CASE req[t].kind = "transfer" /\ need[t] > 0 ->
                       [mint EXCEPT ![t] = Append(mint[t], NewLot(req[t].to, Len(lots) + 1, need[t]))]
                    [] req[t].kind \in Trimming ->
                       [mint EXCEPT ![t] = [mint[t] EXCEPT ![1].left =
                          IF need[t] < @ THEN @ - need[t] ELSE 0]]
                    [] OTHER -> mint
      BY <1>7 DEF FinishTaking
    <3>2. \A s \in Seq(Lot) : [mint EXCEPT ![t] = s] \in [Tx -> Seq(Lot)]
      OBVIOUS
    <3>. QED
      BY <2>1, <2>2, <3>1, <3>2
  <2>4. ControlOK' /\ LoopOK'
    BY <1>7 DEF FinishTaking, AfterTake, TypeOK, ControlOK, LoopOK
  <2>. QED
    BY <1>7, <2>3, <2>4 DEF FinishTaking, TypeOK, TablesOK, WritesOK
<1>8. CASE MintLot(t)
  <2>1. NewLot(req[t].from, Len(lots) + 1, req[t].qty) \in Lot
    <3>1. Len(lots) + 1 \in Nat /\ req[t].qty \in Int
      OBVIOUS
    <3>. QED
      BY <3>1, NewLotType
  <2>. QED
    BY <1>8, <2>1 DEF MintLot, TypeOK, TablesOK, ControlOK, LoopOK, WritesOK
<1>9. CASE WriteStock(t)
  <2>1. dStock' \in [Tx -> [Branches -> Int]]
    <3>1. [dStock[t] EXCEPT ![req[t].from] = @ + Signed(t)] \in [Branches -> Int]
      OBVIOUS
    <3>2. dStock' = [dStock EXCEPT ![t] = [dStock[t] EXCEPT ![req[t].from] = @ + Signed(t)]]
      BY <1>9 DEF WriteStock
    <3>. QED
      BY <3>1, <3>2
  <2>2. rows' \in [Tx -> SUBSET Rows]
    BY <1>9 DEF WriteStock, Rows
  <2>. QED
    BY <1>9, <2>1, <2>2 DEF WriteStock, TypeOK, TablesOK, ControlOK, LoopOK, WritesOK
<1>10. CASE WriteQuantity(t)
  BY <1>10 DEF WriteQuantity, AfterQuantity, Rows,
               TypeOK, TablesOK, ControlOK, LoopOK, WritesOK
<1>11. CASE WriteDestination(t)
  <2>1. dStock' \in [Tx -> [Branches -> Int]]
    <3>1. [dStock[t] EXCEPT ![req[t].to] = @ + req[t].qty] \in [Branches -> Int]
      OBVIOUS
    <3>2. dStock' = [dStock EXCEPT ![t] = [dStock[t] EXCEPT ![req[t].to] = @ + req[t].qty]]
      BY <1>11 DEF WriteDestination
    <3>. QED
      BY <3>1, <3>2
  <2>2. rows' \in [Tx -> SUBSET Rows]
    BY <1>11 DEF WriteDestination, Rows
  <2>3. dQuantity' \in [Tx -> Int]
    BY <1>11 DEF WriteDestination
  <2>4. ControlOK' /\ LoopOK'
    BY <1>11, <2>2 DEF WriteDestination, TypeOK, ControlOK, LoopOK
  <2>. QED
    BY <1>11, <2>1, <2>3, <2>4 DEF WriteDestination, TypeOK, TablesOK, WritesOK
<1>12. CASE Commit(t)
  <2>. DEFINE debited == [l \in DOMAIN lots |-> IF l \in DOMAIN draw[t]
                THEN [lots[l] EXCEPT !.left = @ - draw[t][l]] ELSE lots[l]]
  <2>1. debited \in Seq(Lot) /\ DOMAIN lots = DOMAIN debited
    <3>1. \A l \in DOMAIN draw[t] : l \in DOMAIN lots /\ draw[t][l] \in Int
      BY DEF TypeOK, LoopOK
    <3>2. ASSUME NEW l \in DOMAIN draw[t]
          PROVE  [lots[l] EXCEPT !.left = @ - draw[t][l]] \in Lot
      <4>1. lots[l] \in Lot /\ lots[l].left - draw[t][l] \in Int
        BY <3>1
      <4>. QED
        BY <4>1, LotRewritten
    <3>3. \A l \in DOMAIN lots : debited[l] \in Lot
      BY <3>2
    <3>. QED
      BY <3>3, LotsMapped
  <2>. HIDE DEF debited
  <2>2. lots' = debited \o mint[t]
    BY <1>12 DEF Commit, debited
  <2>3. lots' \in Seq(Lot) /\ DOMAIN lots \subseteq DOMAIN lots'
    BY <2>1, <2>2
  <2>4. TablesOK' /\ ControlOK' /\ WritesOK'
    BY <1>12, <2>3 DEF Commit, Release, TypeOK, TablesOK, ControlOK, WritesOK
  <2>5. LoopOK'
    <3>1. /\ queue' = [queue EXCEPT ![t] = {}] /\ draw' = [draw EXCEPT ![t] = <<>>]
          /\ held' = [held EXCEPT ![t] = 0] /\ need' = [need EXCEPT ![t] = 0]
      BY <1>12 DEF Commit, Release
    <3>2. /\ queue' \in [Tx -> SUBSET (DOMAIN lots')]
          /\ held' \in [Tx -> Int] /\ need' \in [Tx -> Nat]
      BY <2>3, <3>1
    <3>3. /\ DOMAIN draw' = Tx
          /\ \A u \in Tx : /\ DOMAIN draw'[u] \subseteq DOMAIN lots'
                           /\ \A m \in DOMAIN draw'[u] : draw'[u][m] \in Nat
      BY <2>3, <3>1 DEF TypeOK, LoopOK
    <3>. QED
      BY <3>2, <3>3 DEF LoopOK
  <2>. QED
    BY <2>4, <2>5 DEF TypeOK
<1>13. CASE Rollback(t)
  BY <1>13 DEF Rollback, Release, TypeOK, TablesOK, ControlOK, LoopOK, WritesOK
<1>. QED
  BY <1>1, <1>2, <1>3, <1>4, <1>5, <1>6, <1>7, <1>8, <1>9, <1>10, <1>11, <1>12, <1>13
     DEF Statement

------------------------------------------------------------------------------
\* A statement that runs has the row or the lot it asks for to itself.
LEMMA Granted ==
  ASSUME NEW t \in Tx, ~Waiting(t), NEW u \in Tx \ {t}
  PROVE  /\ pc[t] \in {"lock", "quantity"} => Product \notin rows[u]
         /\ pc[t] = "stock" => req[t].from \notin rows[u]
         /\ pc[t] = "arrive" => req[t].to \notin rows[u]
<1>1. u \notin Blockers(t)
  BY DEF Waiting
<1>2. CASE pc[t] \in {"lock", "quantity"}
  BY <1>1, <1>2 DEF Blockers, Holders
<1>3. CASE pc[t] = "stock"
  BY <1>1, <1>3 DEF Blockers, Holders
<1>4. CASE pc[t] = "arrive"
  BY <1>1, <1>4 DEF Blockers, Holders
<1>. QED
  BY <1>2, <1>3, <1>4

\* Rows and lots stay locked by one transaction at a time.
LEMMA StepLocksExclusive ==
  ASSUME TypeOK, LocksExclusive, NEW t \in Tx, Statement(t) \/ Rollback(t)
  PROVE  LocksExclusive'
<1>. USE Sorts DEF committed, private, Run
<1>1. ASSUME NEW u \in Tx \ {t} PROVE rows'[t] \cap rows[u] = {}
  <2>0. rows[t] \cap rows[u] = {}
    BY DEF LocksExclusive
  <2>1. CASE LockProduct(t)
    BY <2>0, <2>1, Granted DEF LockProduct
  <2>2. CASE WriteStock(t)
    BY <2>0, <2>2, Granted DEF WriteStock
  <2>3. CASE WriteQuantity(t)
    BY <2>0, <2>3, Granted DEF WriteQuantity
  <2>4. CASE WriteDestination(t)
    BY <2>0, <2>4, Granted DEF WriteDestination
  <2>5. CASE Commit(t) \/ Rollback(t)
    BY <2>5 DEF Commit, Rollback, Release
  <2>6. CASE UNCHANGED rows
    BY <2>0, <2>6
  <2>. QED
    BY <2>1, <2>2, <2>3, <2>4, <2>5, <2>6
       DEF Statement, CheckShelf, SelectLots, GatherLot, StartTaking, TakeFromLot,
           FinishTaking, MintLot
<1>2. ASSUME NEW u \in Tx \ {t} PROVE DOMAIN draw'[t] \cap DOMAIN draw[u] = {}
  <2>0. DOMAIN draw[t] \cap DOMAIN draw[u] = {}
    BY DEF LocksExclusive
  <2>1. CASE GatherLot(t)
    <3>1. PICK l \in Oldest(queue[t]) :
            /\ LotHolders(l) \subseteq {t}
            /\ \/ draw' = [draw EXCEPT ![t] = [m \in DOMAIN @ \cup {l} |->
                                                  IF m = l THEN 0 ELSE @[m]]]
               \/ draw' = draw
      BY <2>1 DEF GatherLot
    <3>2. l \notin DOMAIN draw[u]
      BY <3>1 DEF LotHolders
    <3>3. DOMAIN draw'[t] \subseteq DOMAIN draw[t] \cup {l}
      BY <3>1
    <3>. QED
      BY <2>0, <3>2, <3>3
  <2>2. CASE TakeFromLot(t)
    <3>1. PICK l \in Oldest(queue[t]) : draw' = [draw EXCEPT ![t][l] = TakenFrom(t, l)]
      BY <2>2 DEF TakeFromLot
    <3>2. DOMAIN draw'[t] = DOMAIN draw[t]
      BY <3>1
    <3>. QED
      BY <2>0, <3>2
  <2>3. CASE Commit(t) \/ Rollback(t)
    <3>1. draw'[t] = <<>>
      BY <2>3 DEF Commit, Rollback, Release
    <3>. QED
      BY <3>1
  <2>4. CASE UNCHANGED draw
    BY <2>0, <2>4
  <2>. QED
    BY <2>1, <2>2, <2>3, <2>4
       DEF Statement, LockProduct, CheckShelf, SelectLots, StartTaking, FinishTaking, MintLot,
           WriteStock, WriteQuantity, WriteDestination
<1>3. \A u \in Tx \ {t} : rows'[u] = rows[u] /\ draw'[u] = draw[u]
  BY Frame
<1>4. SUFFICES ASSUME NEW a \in Tx, NEW b \in Tx, a # b
                 PROVE  /\ rows'[a] \cap rows'[b] = {}
                        /\ DOMAIN draw'[a] \cap DOMAIN draw'[b] = {}
  BY DEF LocksExclusive
<1>5. CASE a = t
  BY <1>1, <1>2, <1>3, <1>4, <1>5
<1>6. CASE b = t
  BY <1>1, <1>2, <1>3, <1>4, <1>6
<1>7. CASE a # t /\ b # t
  BY <1>3, <1>4, <1>7 DEF LocksExclusive
<1>. QED
  BY <1>5, <1>6, <1>7

------------------------------------------------------------------------------
\* Appending a lot with nothing owed to it keeps every lot so.
LEMMA Appended ==
  ASSUME NEW s \in Seq(Lot), NEW e, e.left >= 0, \A k \in DOMAIN s : s[k].left >= 0
  PROVE  \A k \in DOMAIN Append(s, e) : Append(s, e)[k].left >= 0
OBVIOUS

\* The positions and elements of a concatenation.
LEMMA Concatenated ==
  ASSUME NEW a \in Seq(Lot), NEW b \in Seq(Lot)
  PROVE  /\ DOMAIN (a \o b) = 1 .. Len(a) + Len(b)
         /\ \A i \in 1 .. Len(a) : (a \o b)[i] = a[i]
         /\ \A i \in Len(a) + 1 .. Len(a) + Len(b) : (a \o b)[i] = b[i - Len(a)]
OBVIOUS

\* A commit debits the lots its transaction holds, and appends those it inserts.
Debited(t) == [l \in DOMAIN lots |-> IF l \in DOMAIN draw[t]
                THEN [lots[l] EXCEPT !.left = @ - draw[t][l]] ELSE lots[l]]

LEMMA DebitedLots ==
  ASSUME TypeOK, NEW t \in Tx
  PROVE  /\ Debited(t) \in Seq(Lot) /\ Len(Debited(t)) = Len(lots)
         /\ \A l \in DOMAIN lots :
              /\ Debited(t)[l].branch = lots[l].branch
              /\ Debited(t)[l].age = lots[l].age
              /\ Debited(t)[l].left = IF l \in DOMAIN draw[t] THEN lots[l].left - draw[t][l]
                                                              ELSE lots[l].left
<1>1. ASSUME NEW l \in DOMAIN lots
      PROVE  /\ Debited(t)[l] \in Lot
             /\ Debited(t)[l].branch = lots[l].branch
             /\ Debited(t)[l].age = lots[l].age
             /\ Debited(t)[l].left = IF l \in DOMAIN draw[t] THEN lots[l].left - draw[t][l]
                                                             ELSE lots[l].left
  <2>1. lots[l] \in Lot /\ (l \in DOMAIN draw[t] => lots[l].left - draw[t][l] \in Int)
    BY Sorts DEF TypeOK, LoopOK
  <2>2. Debited(t)[l] = IF l \in DOMAIN draw[t]
                        THEN [lots[l] EXCEPT !.left = lots[l].left - draw[t][l]] ELSE lots[l]
    BY DEF Debited
  <2>. QED
    BY <2>1, <2>2, LotRewritten
<1>2. Debited(t) = [l \in DOMAIN lots |-> Debited(t)[l]]
  BY DEF Debited
<1>3. lots \in Seq(Lot)
  BY Sorts
<1>. QED
  BY <1>1, <1>2, <1>3, LotsMapped

\* What a commit does to the lots.
LEMMA CommittedLots ==
  ASSUME TypeOK, NEW t \in Tx, Commit(t)
  PROVE  /\ DOMAIN lots \subseteq DOMAIN lots'
         /\ \A l \in DOMAIN lots :
              lots'[l].left = IF l \in DOMAIN draw[t] THEN lots[l].left - draw[t][l]
                                                      ELSE lots[l].left
         /\ \A l \in DOMAIN lots' \ DOMAIN lots :
              \E k \in DOMAIN mint[t] : lots'[l] = mint[t][k]
<1>1. /\ lots' = Debited(t) \o mint[t] /\ mint[t] \in Seq(Lot) /\ lots \in Seq(Lot)
      /\ Debited(t) \in Seq(Lot) /\ Len(Debited(t)) = Len(lots)
  BY DebitedLots, Sorts DEF Commit, Debited
<1>2. /\ DOMAIN lots' = 1 .. Len(lots) + Len(mint[t])
      /\ \A l \in 1 .. Len(lots) : lots'[l] = Debited(t)[l]
      /\ \A l \in Len(lots) + 1 .. Len(lots) + Len(mint[t]) :
            lots'[l] = mint[t][l - Len(lots)]
  <2>1. /\ DOMAIN (Debited(t) \o mint[t]) = 1 .. Len(Debited(t)) + Len(mint[t])
        /\ \A l \in 1 .. Len(Debited(t)) : (Debited(t) \o mint[t])[l] = Debited(t)[l]
        /\ \A l \in Len(Debited(t)) + 1 .. Len(Debited(t)) + Len(mint[t]) :
              (Debited(t) \o mint[t])[l] = mint[t][l - Len(Debited(t))]
    BY <1>1, Concatenated
  <2>. QED
    BY <1>1, <2>1
<1>3. ASSUME NEW l \in DOMAIN lots' \ DOMAIN lots
      PROVE  \E k \in DOMAIN mint[t] : lots'[l] = mint[t][k]
  <2>1. l - Len(lots) \in DOMAIN mint[t] /\ lots'[l] = mint[t][l - Len(lots)]
    BY <1>1, <1>2
  <2>. QED
    BY <2>1
<1>4. DOMAIN lots \subseteq DOMAIN lots' /\ \A l \in DOMAIN lots : lots'[l] = Debited(t)[l]
  BY <1>1, <1>2
<1>5. \A l \in DOMAIN lots :
        lots'[l].left = IF l \in DOMAIN draw[t] THEN lots[l].left - draw[t][l] ELSE lots[l].left
  BY <1>4, DebitedLots
<1>. QED
  BY <1>3, <1>4, <1>5

\* No step overdraws a lot: a commit debits only lots it holds.
LEMMA StepLotsNeverOverdrawn ==
  ASSUME TypeOK, LotsNeverOverdrawn, DrawsCovered, NEW t \in Tx, Statement(t) \/ Rollback(t)
  PROVE  LotsNeverOverdrawn'
<1>1. CASE Commit(t)
  <2>1. ASSUME NEW l \in DOMAIN lots PROVE lots'[l].left >= 0
    <3>1. lots[l].left \in Nat
      BY Sorts DEF LotsNeverOverdrawn
    <3>2. l \in DOMAIN draw[t] => draw[t][l] \in Nat
      BY DEF TypeOK, LoopOK
    <3>4. l \in DOMAIN draw[t] => draw[t][l] <= lots[l].left
      BY DEF DrawsCovered
    <3>3. lots'[l].left = IF l \in DOMAIN draw[t] THEN lots[l].left - draw[t][l]
                                                  ELSE lots[l].left
      BY <1>1, CommittedLots
    <3>. QED
      BY <3>1, <3>2, <3>3, <3>4
  <2>2. ASSUME NEW l \in DOMAIN lots' \ DOMAIN lots PROVE lots'[l].left >= 0
    <3>1. PICK k \in DOMAIN mint[t] : lots'[l] = mint[t][k]
      BY <1>1, CommittedLots
    <3>2. mint[t][k].left >= 0
      BY DEF DrawsCovered
    <3>. QED
      BY <3>1, <3>2
  <2>. QED
    BY <2>1, <2>2 DEF LotsNeverOverdrawn
<1>2. CASE UNCHANGED committed
  BY <1>2 DEF committed, LotsNeverOverdrawn
<1>. QED
  BY <1>1, <1>2, Frame

\* What was taken from a held lot stays there: only its holder debits it.
LEMMA StepDrawsCovered ==
  ASSUME TypeOK, LotsNeverOverdrawn, LocksExclusive, DrawsCovered,
         NEW t \in Tx, Statement(t) \/ Rollback(t)
  PROVE  DrawsCovered'
<1>. USE Sorts DEF committed, private, Run
<1>. DEFINE Covered(u) == /\ \A l \in DOMAIN draw[u] : draw[u][l] <= lots[l].left
                          /\ pc[u] = "take" => queue[u] \subseteq DOMAIN draw[u]
                          /\ \A k \in DOMAIN mint[u] : mint[u][k].left >= 0
<1>c. \A u \in Tx : Covered(u)
  BY DEF DrawsCovered
<1>1. ASSUME NEW u \in Tx \ {t} PROVE Covered(u)'
  <2>1. /\ pc'[u] = pc[u] /\ queue'[u] = queue[u]
        /\ draw'[u] = draw[u] /\ mint'[u] = mint[u]
    BY Frame
  <2>2. ASSUME NEW l \in DOMAIN draw[u] PROVE lots'[l].left = lots[l].left
    <3>1. l \in DOMAIN lots /\ l \notin DOMAIN draw[t]
      BY DEF TypeOK, LoopOK, LocksExclusive
    <3>2. CASE Commit(t)
      BY <3>1, <3>2, CommittedLots
    <3>3. CASE UNCHANGED lots
      BY <3>3
    <3>. QED
      BY <3>2, <3>3, Frame
  <2>. QED
    BY <1>c, <2>1, <2>2
<1>2. Covered(t)'
  <2>c. Covered(t)
    BY <1>c
  <2>1. CASE GatherLot(t)
    <3>1. PICK l \in Oldest(queue[t]) :
            IF lots[l].left > 0
            THEN draw' = [draw EXCEPT ![t] = [m \in DOMAIN @ \cup {l} |->
                                                IF m = l THEN 0 ELSE @[m]]]
            ELSE UNCHANGED draw
      BY <2>1 DEF GatherLot
    <3>2. /\ pc'[t] = "gather" /\ UNCHANGED <<lots, mint>>
      BY <2>1 DEF GatherLot
    <3>3. CASE lots[l].left > 0
      <4>1. draw'[t] = [m \in DOMAIN draw[t] \cup {l} |-> IF m = l THEN 0 ELSE draw[t][m]]
        BY <3>1, <3>3
      <4>2. \A m \in DOMAIN draw'[t] : draw'[t][m] <= lots[m].left
        <5>1. l \in DOMAIN lots /\ 0 <= lots[l].left
          BY <3>3 DEF Oldest
        <5>. QED
          BY <2>c, <4>1, <5>1
      <4>. QED
        BY <2>c, <3>2, <4>2
    <3>4. CASE ~(lots[l].left > 0)
      BY <2>c, <3>1, <3>2, <3>4
    <3>. QED
      BY <3>3, <3>4
  <2>2. CASE StartTaking(t)
    <3>1. queue'[t] = DOMAIN draw[t] /\ UNCHANGED <<draw, lots, mint>>
      BY <2>2 DEF StartTaking
    <3>. QED
      BY <2>c, <3>1
  <2>3. CASE TakeFromLot(t)
    <3>1. PICK l \in Oldest(queue[t]) :
            /\ queue' = [queue EXCEPT ![t] = @ \ {l}]
            /\ draw' = [draw EXCEPT ![t][l] = TakenFrom(t, l)]
            /\ mint' = IF req[t].kind = "transfer"
                       THEN [mint EXCEPT ![t] =
                               Append(@, NewLot(req[t].to, lots[l].age, TakenFrom(t, l)))]
                       ELSE mint
      BY <2>3 DEF TakeFromLot
    <3>2. l \in DOMAIN lots /\ pc[t] = "take" /\ UNCHANGED lots
      BY <2>3 DEF TakeFromLot, Oldest
    <3>3. TakenFrom(t, l) \in Nat /\ TakenFrom(t, l) <= lots[l].left
      BY <3>2, TakenBounds
    <3>4. /\ DOMAIN draw'[t] = DOMAIN draw[t]
          /\ \A m \in DOMAIN draw[t] :
               draw'[t][m] = IF m = l THEN TakenFrom(t, l) ELSE draw[t][m]
      BY <3>1
    <3>5. /\ \A m \in DOMAIN draw'[t] : draw'[t][m] <= lots'[m].left
          /\ queue'[t] \subseteq DOMAIN draw'[t]
      BY <2>c, <3>1, <3>2, <3>3, <3>4
    <3>6. \A k \in DOMAIN mint'[t] : mint'[t][k].left >= 0
      <4>1. CASE req[t].kind = "transfer"
        <5>1. mint'[t] = Append(mint[t], NewLot(req[t].to, lots[l].age, TakenFrom(t, l)))
          BY <3>1, <4>1
        <5>2. NewLot(req[t].to, lots[l].age, TakenFrom(t, l)).left >= 0
          BY <3>3 DEF NewLot
        <5>. QED
          BY <2>c, <5>1, <5>2, Appended
      <4>. QED
        BY <2>c, <3>1, <4>1
    <3>. QED
      BY <3>5, <3>6
  <2>4. CASE FinishTaking(t)
    <3>1. UNCHANGED <<lots, draw>> /\ queue'[t] = {}
      BY <2>4 DEF FinishTaking
    <3>2. \A k \in DOMAIN mint'[t] : mint'[t][k].left >= 0
      <4>0. mint' = CASE req[t].kind = "transfer" /\ need[t] > 0 ->
                         [mint EXCEPT ![t] =
                            Append(@, NewLot(req[t].to, Len(lots) + 1, need[t]))]
                      [] req[t].kind \in Trimming ->
                         [mint EXCEPT ![t] = [mint[t] EXCEPT ![1].left =
                            IF need[t] < @ THEN @ - need[t] ELSE 0]]
                      [] OTHER -> mint
        BY <2>4 DEF FinishTaking
      <4>1. CASE req[t].kind = "transfer" /\ need[t] > 0
        <5>1. mint'[t] = Append(mint[t], NewLot(req[t].to, Len(lots) + 1, need[t]))
          BY <4>0, <4>1 DEF Trimming
        <5>2. NewLot(req[t].to, Len(lots) + 1, need[t]).left >= 0
          BY DEF NewLot
        <5>. QED
          BY <2>c, <5>1, <5>2, Appended
      <4>2. CASE req[t].kind \in Trimming
        <5>1. mint'[t] = [mint[t] EXCEPT ![1].left = IF need[t] < @ THEN @ - need[t] ELSE 0]
          BY <4>0, <4>2 DEF Trimming
        <5>2. ASSUME NEW k \in DOMAIN mint'[t] PROVE mint'[t][k].left >= 0
          <6>1. k \in DOMAIN mint[t] /\ mint[t][k] \in Lot
            BY <5>1, <5>2
          <6>2. CASE k = 1
            <7>1. mint'[t][k].left = IF need[t] < mint[t][k].left
                                     THEN mint[t][k].left - need[t] ELSE 0
              BY <5>1, <6>1, <6>2 DEF Lot
            <7>. QED
              BY <6>1, <7>1 DEF Lot
          <6>3. CASE k # 1
            BY <2>c, <5>1, <6>1, <6>3
          <6>. QED
            BY <6>2, <6>3
        <5>. QED
          BY <5>2
      <4>3. CASE ~(req[t].kind = "transfer" /\ need[t] > 0) /\ req[t].kind \notin Trimming
        BY <2>c, <4>0, <4>3
      <4>. QED
        BY <4>1, <4>2, <4>3
    <3>. QED
      BY <2>c, <3>1, <3>2
  <2>5. CASE MintLot(t)
    <3>1. /\ UNCHANGED <<lots, draw>> /\ pc'[t] = "stock"
          /\ mint'[t] = Append(mint[t], NewLot(req[t].from, Len(lots) + 1, req[t].qty))
      BY <2>5 DEF MintLot
    <3>2. NewLot(req[t].from, Len(lots) + 1, req[t].qty).left >= 0
      BY DEF NewLot
    <3>3. \A k \in DOMAIN mint'[t] : mint'[t][k].left >= 0
      BY <2>c, <3>1, <3>2, Appended
    <3>. QED
      BY <2>c, <3>1, <3>3
  <2>6. CASE Commit(t) \/ Rollback(t)
    <3>1. draw'[t] = <<>> /\ mint'[t] = <<>> /\ queue'[t] = {}
      BY <2>6 DEF Commit, Rollback, Release
    <3>. QED
      BY <3>1
  <2>7. CASE UNCHANGED <<lots, draw, mint>> /\ pc'[t] # "take"
    BY <2>c, <2>7
  <2>. QED
    BY <2>1, <2>2, <2>3, <2>4, <2>5, <2>6, <2>7
       DEF Statement, LockProduct, CheckShelf, SelectLots, WriteStock, WriteQuantity,
           WriteDestination, AfterQuantity
<1>. QED
  BY <1>1, <1>2 DEF DrawsCovered

------------------------------------------------------------------------------
\* The documents' plans.

\* How the kinds of document exclude each other.
LEMMA KindFacts ==
  ASSUME TypeOK, NEW t \in Tx
  PROVE  /\ req[t].kind \in Withdrawals \cup Arrivals
         /\ req[t].kind \in Guarded \cup Unguarded <=> req[t].kind \notin Arrivals
         /\ req[t].kind \in Guarded => req[t].kind \notin Trimming \cup Unguarded
         /\ req[t].kind = "transfer" => req[t].kind \in Guarded
         /\ req[t].kind \in Trimming => req[t].kind \in Arrivals
         /\ req[t].kind = "transfer" <=> req[t].from # req[t].to
<1>1. req[t].kind \in AllKinds
  BY Sorts
<1>2. req[t].kind = "transfer" <=> req[t].from # req[t].to
  BY RequestTypes, Sorts
<1>. QED
  BY <1>1, <1>2 DEF AllKinds, Withdrawals, Arrivals, Guarded, Unguarded, Trimming, Restocking

\* What a document that is not a transfer means for a shelf.
LEMMA OneShelf ==
  ASSUME NEW r, NEW b, r.qty \in Int, r.kind # "transfer"
  PROVE  StockDelta(r, b) =
           IF b = r.from THEN (IF r.kind \in Arrivals THEN r.qty ELSE -r.qty) ELSE 0
<1>. DEFINE s == IF b = r.from THEN (IF r.kind \in Arrivals THEN r.qty ELSE -r.qty) ELSE 0
<1>1. s \in Int /\ s + 0 = s
  OBVIOUS
<1>2. StockDelta(r, b) = s + 0
  BY DEF StockDelta
<1>. QED
  BY <1>1, <1>2

\* What a transfer means for a shelf.
LEMMA TwoShelves ==
  ASSUME NEW r, NEW b, r.qty \in Int, r.kind = "transfer", r.from # r.to, r.kind \notin Arrivals
  PROVE  StockDelta(r, b) = IF b = r.from THEN -r.qty ELSE IF b = r.to THEN r.qty ELSE 0
<1>1. CASE b = r.from
  BY <1>1 DEF StockDelta
<1>2. CASE b # r.from
  BY <1>2 DEF StockDelta
<1>. QED
  BY <1>1, <1>2

\* Every step keeps a document on its own sequence of statements.
LEMMA StepOnPlan ==
  ASSUME TypeOK, NEW t \in Tx, OnPlan(t), Statement(t) \/ Rollback(t)
  PROVE  OnPlan(t)'
<1>. USE Sorts, KindFacts DEF Run, OnPlan, Withdrawals
<1>0. req' = req
  BY Frame
<1>1. CASE LockProduct(t)
  BY <1>0, <1>1 DEF LockProduct
<1>2. CASE CheckShelf(t)
  BY <1>0, <1>2 DEF CheckShelf
<1>3. CASE SelectLots(t)
  BY <1>0, <1>3 DEF SelectLots
<1>4. CASE GatherLot(t)
  BY <1>0, <1>4 DEF GatherLot
<1>5. CASE StartTaking(t)
  BY <1>0, <1>5 DEF StartTaking
<1>6. CASE TakeFromLot(t)
  BY <1>0, <1>6 DEF TakeFromLot
<1>7. CASE FinishTaking(t)
  BY <1>0, <1>7 DEF FinishTaking, AfterTake
<1>8. CASE MintLot(t)
  BY <1>0, <1>8 DEF MintLot
<1>9. CASE WriteStock(t)
  BY <1>0, <1>9 DEF WriteStock
<1>10. CASE WriteQuantity(t)
  BY <1>0, <1>10 DEF WriteQuantity, AfterQuantity
<1>11. CASE WriteDestination(t)
  BY <1>0, <1>11 DEF WriteDestination
<1>12. CASE Commit(t)
  BY <1>0, <1>12 DEF Commit
<1>13. CASE Rollback(t)
  BY <1>0, <1>13 DEF Rollback
<1>. QED
  BY <1>1, <1>2, <1>3, <1>4, <1>5, <1>6, <1>7, <1>8, <1>9, <1>10, <1>11, <1>12, <1>13
     DEF Statement

\* At each statement a document has written what its plan says.
LEMMA StepWritten ==
  ASSUME TypeOK, NEW t \in Tx, OnPlan(t), Written(t), ShelfPromised(t),
         Statement(t) \/ Rollback(t)
  PROVE  Written(t)'
<1>. USE Sorts, KindFacts DEF Run
<1>0. req' = req
  BY Frame
<1>. DEFINE none  == [b \in Branches |-> 0]
            first == [b \in Branches |-> IF b = req[t].from THEN Signed(t) ELSE 0]
            whole == [b \in Branches |-> StockDelta(req[t], b)]
<1>w. /\ none' = none /\ first' = first /\ whole' = whole
      /\ QuantityDelta(req'[t]) = QuantityDelta(req[t]) /\ Signed(t)' = Signed(t)
  BY <1>0 DEF Signed
<1>k. /\ req[t].kind # "transfer" => first = whole /\ QuantityDelta(req[t]) = Signed(t)
      /\ first = [none EXCEPT ![req[t].from] = @ + Signed(t)]
      /\ req[t].kind = "transfer" =>
           /\ whole = [first EXCEPT ![req[t].to] = @ + req[t].qty]
           /\ QuantityDelta(req[t]) = 0 /\ Signed(t) = -req[t].qty
  <2>1. req[t].from \in Branches /\ req[t].to \in Branches /\ req[t].qty \in Int
    OBVIOUS
  <2>0. /\ Signed(t) \in Int /\ 0 + Signed(t) = Signed(t) /\ Signed(t) + 0 = Signed(t)
        /\ 0 + req[t].qty = req[t].qty
    BY <2>1
  <2>2. first = [none EXCEPT ![req[t].from] = @ + Signed(t)]
    BY <2>0, <2>1
  <2>3. CASE req[t].kind # "transfer"
    <3>1. \A b \in Branches : StockDelta(req[t], b) = IF b = req[t].from THEN Signed(t) ELSE 0
      BY <2>1, <2>3, OneShelf DEF Signed
    <3>2. first = whole
      BY <3>1
    <3>3. QuantityDelta(req[t]) = Signed(t)
      BY <2>3 DEF QuantityDelta, Signed
    <3>. QED
      BY <2>2, <2>3, <3>2, <3>3
  <2>4. CASE req[t].kind = "transfer"
    <3>1. req[t].kind \notin Arrivals /\ req[t].from # req[t].to
      BY <2>4
    <3>2. Signed(t) = -req[t].qty /\ QuantityDelta(req[t]) = 0
      BY <2>4, <3>1 DEF QuantityDelta, Signed
    <3>3. \A b \in Branches : whole[b] = [first EXCEPT ![req[t].to] = @ + req[t].qty][b]
      <4>1. ASSUME NEW b \in Branches
            PROVE  StockDelta(req[t], b) = IF b = req[t].from THEN Signed(t)
                                           ELSE IF b = req[t].to THEN req[t].qty ELSE 0
        BY <2>1, <2>4, <3>1, <3>2, TwoShelves
      <4>. QED
        BY <2>0, <2>1, <3>1, <4>1
    <3>. QED
      BY <2>2, <2>4, <3>2, <3>3
  <2>. QED
    BY <2>3, <2>4
<1>. HIDE DEF none, first, whole
<1>d. Written(t) <=>
        CASE pc[t] = "quantity" -> dStock[t] = first /\ dQuantity[t] = 0
          [] pc[t] = "arrive"   -> dStock[t] = first /\ dQuantity[t] = Signed(t)
          [] pc[t] = "commit" \/ (pc[t] \in {"select", "gather", "take"} /\ req[t].kind \in Trimming) ->
               /\ dStock[t] = whole
               /\ dQuantity[t] = QuantityDelta(req[t])
               /\ Product \in rows[t]
          [] OTHER -> dStock[t] = none /\ dQuantity[t] = 0
  BY DEF Written, none, first, whole
<1>e. Written(t)' <=>
        CASE pc'[t] = "quantity" -> dStock'[t] = first /\ dQuantity'[t] = 0
          [] pc'[t] = "arrive"   -> dStock'[t] = first /\ dQuantity'[t] = Signed(t)
          [] pc'[t] = "commit" \/ (pc'[t] \in {"select", "gather", "take"} /\ req[t].kind \in Trimming) ->
               /\ dStock'[t] = whole
               /\ dQuantity'[t] = QuantityDelta(req[t])
               /\ Product \in rows'[t]
          [] OTHER -> dStock'[t] = none /\ dQuantity'[t] = 0
  BY <1>0, <1>w DEF Written, none, first, whole
<1>1. CASE LockProduct(t)
  BY <1>d, <1>e, <1>1 DEF LockProduct
<1>2. CASE CheckShelf(t)
  <2>1. /\ pc[t] = "check" /\ pc'[t] = "select" /\ req[t].kind \in Guarded
        /\ UNCHANGED <<rows, dStock, dQuantity>>
    BY <1>2 DEF CheckShelf, private, OnPlan
  <2>. QED
    BY <1>d, <1>e, <2>1
<1>3. CASE SelectLots(t)
  BY <1>d, <1>e, <1>3 DEF SelectLots
<1>4. CASE GatherLot(t)
  BY <1>d, <1>e, <1>4 DEF GatherLot
<1>5. CASE StartTaking(t)
  BY <1>d, <1>e, <1>5 DEF StartTaking
<1>6. CASE TakeFromLot(t)
  BY <1>d, <1>e, <1>6 DEF TakeFromLot
<1>7. CASE FinishTaking(t)
  BY <1>d, <1>e, <1>7 DEF FinishTaking, AfterTake
<1>8. CASE MintLot(t)
  BY <1>d, <1>e, <1>8 DEF MintLot
<1>9. CASE WriteStock(t)
  <2>1. dStock'[t] = [dStock[t] EXCEPT ![req[t].from] = @ + Signed(t)]
    BY <1>9 DEF WriteStock
  <2>. QED
    BY <1>d, <1>e, <1>k, <1>9, <2>1 DEF WriteStock
<1>10. CASE WriteQuantity(t)
  <2>1. /\ dStock'[t] = dStock[t] /\ dQuantity'[t] = dQuantity[t] + Signed(t)
        /\ Product \in rows'[t]
    BY <1>10 DEF WriteQuantity
  <2>2. dStock[t] = first /\ dQuantity[t] = 0
    BY <1>d, <1>10 DEF WriteQuantity
  <2>3. pc'[t] = AfterQuantity(req[t].kind)
    BY <1>10 DEF WriteQuantity
  <2>. QED
    BY <1>e, <1>k, <2>1, <2>2, <2>3 DEF AfterQuantity
<1>11. CASE WriteDestination(t)
  <2>1. /\ dStock'[t] = [dStock[t] EXCEPT ![req[t].to] = @ + req[t].qty]
        /\ dQuantity'[t] = dQuantity[t] + req[t].qty
        /\ pc'[t] = "commit"
    BY <1>11 DEF WriteDestination
  <2>2. dStock[t] = first /\ dQuantity[t] = Signed(t) /\ req[t].kind = "transfer"
    BY <1>d, <1>11 DEF WriteDestination, OnPlan
  <2>3. Signed(t) + req[t].qty = 0 /\ QuantityDelta(req[t]) = 0
    BY <1>k, <2>2
  <2>4. dStock'[t] = whole /\ dQuantity'[t] = QuantityDelta(req[t])
    BY <1>k, <2>1, <2>2, <2>3
  <2>5. Product \in rows'[t]
    BY <1>11, <2>2 DEF WriteDestination, ShelfPromised
  <2>. QED
    BY <1>e, <2>1, <2>4, <2>5
<1>12. CASE Commit(t)
  BY <1>e, <1>12 DEF Commit, Release, none
<1>13. CASE Rollback(t)
  BY <1>e, <1>13 DEF Rollback, Release, none
<1>. QED
  BY <1>1, <1>2, <1>3, <1>4, <1>5, <1>6, <1>7, <1>8, <1>9, <1>10, <1>11, <1>12, <1>13
     DEF Statement

\* A shelf a guarded document found sufficient stays so until it ends: whoever
\* commits a stock write holds the product row, and so was not beside it.
LEMMA StepShelfPromised ==
  ASSUME IInv, NEW t \in Tx, Statement(t) \/ Rollback(t), NEW u \in Tx
  PROVE  ShelfPromised(u)'
<1>. USE Sorts, KindFacts DEF Run, ShelfPromised
<1>i. TypeOK /\ LocksExclusive /\ ShelfPromised(u) /\ ShelfPromised(t) /\ Written(t) /\ OnPlan(t)
  BY DEF IInv
<1>0. req' = req /\ (Commit(t) \/ UNCHANGED committed)
  BY <1>i, Frame
<1>1. CASE u # t
  <2>1. pc'[u] = pc[u] /\ rows'[u] = rows[u]
    BY <1>1, <1>i, Frame
  <2>2. CASE Commit(t)
    <3>1. Product \in rows[t]
      BY <1>i, <2>2 DEF Commit, Written
    <3>2. Product \notin rows[u]
      BY <1>1, <1>i, <3>1 DEF LocksExclusive
    <3>. QED
      BY <1>0, <1>i, <2>1, <3>2
  <2>3. CASE UNCHANGED committed
    BY <1>0, <1>i, <2>1, <2>3 DEF committed
  <2>. QED
    BY <1>0, <2>2, <2>3
<1>2. CASE u = t /\ (Commit(t) \/ Rollback(t))
  BY <1>2, <1>i DEF Commit, Rollback
<1>3. CASE u = t /\ ~(Commit(t) \/ Rollback(t))
  <2>0. SUFFICES ASSUME req[t].kind \in Guarded
                 PROVE  /\ Product \in rows'[t]
                        /\ pc'[t] # "check" => req[t].qty <= stock[req[t].from]
    BY <1>0, <1>3 DEF committed
  <2>1. CASE LockProduct(t)
    BY <1>i, <2>1 DEF LockProduct
  <2>2. CASE CheckShelf(t)
    BY <1>3, <1>i, <2>0, <2>2 DEF CheckShelf, private
  <2>3. CASE pc[t] \notin {"lock", "check", "committed", "rolledBack"} /\ rows[t] \subseteq rows'[t]
    BY <1>3, <1>i, <2>0, <2>3
  <2>4. /\ UNCHANGED rows => rows[t] \subseteq rows'[t]
        /\ \A r : rows' = [rows EXCEPT ![t] = @ \cup {r}] => rows[t] \subseteq rows'[t]
    BY <1>i
  <2>. QED
    BY <1>3, <2>1, <2>2, <2>3, <2>4
       DEF Statement, SelectLots, GatherLot, StartTaking, TakeFromLot, FinishTaking, MintLot,
           WriteStock, WriteQuantity, WriteDestination
<1>. QED
  BY <1>1, <1>2, <1>3

------------------------------------------------------------------------------
\* The opening state satisfies the inductive invariant.
LEMMA InitIInv == Init => IInv
<1>. SUFFICES ASSUME Init PROVE IInv
  OBVIOUS
<1>1. TypeOK
  BY InitTypeOK
<1>2. LotsNeverOverdrawn
  BY OpeningAssumption DEF Init, LotsNeverOverdrawn
<1>3. LocksExclusive /\ DrawsCovered
  <2>1. \A t \in Tx : rows[t] = {} /\ draw[t] = <<>> /\ mint[t] = <<>> /\ queue[t] = {}
    BY DEF Init
  <2>. QED
    BY <2>1 DEF LocksExclusive, DrawsCovered
<1>4. ASSUME NEW t \in Tx PROVE OnPlan(t) /\ Written(t) /\ ShelfPromised(t)
  <2>1. /\ pc[t] = FirstStep(req[t].kind)
        /\ dStock[t] = [b \in Branches |-> 0] /\ dQuantity[t] = 0
    BY <1>4 DEF Init
  <2>2. \/ pc[t] = "lock" /\ req[t].kind \in Guarded
        \/ pc[t] = "select" /\ req[t].kind \in Unguarded
        \/ pc[t] = "mint" /\ req[t].kind \in Arrivals
    BY <1>1, <2>1, KindFacts DEF FirstStep, Withdrawals
  <2>3. req[t].kind \in Unguarded => req[t].kind \notin Trimming /\ req[t].kind \notin Guarded
    BY DEF Unguarded, Trimming, Guarded
  <2>4. req[t].kind \in Arrivals => req[t].kind \notin Guarded
    BY DEF Arrivals, Trimming, Restocking, Guarded
  <2>5. OnPlan(t)
    BY <2>2, <2>3 DEF OnPlan, Withdrawals
  <2>6. Written(t)
    BY <2>1, <2>2, <2>3 DEF Written
  <2>7. ShelfPromised(t)
    BY <2>2, <2>3, <2>4 DEF ShelfPromised
  <2>. QED
    BY <2>5, <2>6, <2>7
<1>. QED
  BY <1>1, <1>2, <1>3, <1>4 DEF IInv

\* What the requests can do: run a statement or end.
LEMMA NextSteps ==
  Next <=> \E t \in Tx : Statement(t) \/ Rollback(t)
BY DEF Next, Progress, Refuse, BreakDeadlock, Crash

\* Every step keeps the inductive invariant.
LEMMA StepIInv ==
  ASSUME IInv, NEW t \in Tx, Statement(t) \/ Rollback(t)
  PROVE  IInv'
<1>1. /\ TypeOK /\ LotsNeverOverdrawn /\ LocksExclusive /\ DrawsCovered
      /\ \A u \in Tx : OnPlan(u) /\ Written(u) /\ ShelfPromised(u)
  BY DEF IInv
<1>2. TypeOK'
  BY <1>1, StepTypeOK
<1>3. LotsNeverOverdrawn' /\ LocksExclusive' /\ DrawsCovered'
  BY <1>1, StepLotsNeverOverdrawn, StepLocksExclusive, StepDrawsCovered
<1>4. \A u \in Tx : ShelfPromised(u)'
  BY StepShelfPromised
<1>5. OnPlan(t)' /\ Written(t)'
  BY <1>1, StepOnPlan, StepWritten
<1>6. ASSUME NEW u \in Tx \ {t} PROVE OnPlan(u)' /\ Written(u)'
  <2>1. /\ req' = req /\ pc'[u] = pc[u] /\ rows'[u] = rows[u]
        /\ dStock'[u] = dStock[u] /\ dQuantity'[u] = dQuantity[u]
    BY <1>1, Frame
  <2>2. OnPlan(u)'
    BY <1>1, <2>1 DEF OnPlan
  <2>3. Written(u)'
    BY <1>1, <2>1 DEF Written, Signed
  <2>. QED
    BY <2>2, <2>3
<1>. QED
  BY <1>2, <1>3, <1>4, <1>5, <1>6 DEF IInv

\* IInv is an invariant of the stock documents, whatever the number of
\* transactions, branches, lots and units.
THEOREM Inductive == Spec => []IInv
<1>1. IInv /\ [Next]_vars => IInv'
  <2>. SUFFICES ASSUME IInv, [Next]_vars PROVE IInv'
    OBVIOUS
  <2>1. CASE Next
    BY <2>1, NextSteps, StepIInv
  <2>2. CASE UNCHANGED vars
    BY <2>2 DEF vars, committed, private, IInv, TypeOK, TablesOK, ControlOK, LoopOK, WritesOK,
                LotsNeverOverdrawn, LocksExclusive, DrawsCovered, OnPlan, Written, Signed,
                ShelfPromised
  <2>. QED
    BY <2>1, <2>2
<1>. QED
  BY InitIInv, <1>1, PTL DEF Spec

\* The tables and the transactions' state keep their types.
THEOREM Types == Spec => []TypeOK
<1>1. IInv => TypeOK
  BY DEF IInv
<1>. QED
  BY Inductive, <1>1, PTL

\* FOR UPDATE on the lots is enough: however many documents consume and trim
\* the same lots at once, none is drained below zero (order/costing.ts).
THEOREM NoLotOverdrawn == Spec => []LotsNeverOverdrawn
<1>1. IInv => LotsNeverOverdrawn
  BY DEF IInv
<1>. QED
  BY Inductive, <1>1, PTL

\* A commit writes what the document means.
LEMMA CommitWrites ==
  ASSUME IInv, NEW t \in Tx, Commit(t)
  PROVE  /\ req[t].kind \in Guarded => req[t].qty <= stock[req[t].from]
         /\ stock' = [b \in Branches |-> stock[b] + StockDelta(req[t], b)]
         /\ quantity' = quantity + QuantityDelta(req[t])
         /\ pc[t] = "commit" /\ pc' = [pc EXCEPT ![t] = "committed"] /\ req' = req
<1>1. Written(t) /\ ShelfPromised(t)
  BY DEF IInv
<1>2. pc[t] = "commit" /\ pc' = [pc EXCEPT ![t] = "committed"] /\ req' = req
  BY DEF Commit, Run, Release
<1>3. /\ dStock[t] = [b \in Branches |-> StockDelta(req[t], b)]
      /\ dQuantity[t] = QuantityDelta(req[t])
  BY <1>1, <1>2 DEF Written
<1>4. req[t].kind \in Guarded => req[t].qty <= stock[req[t].from]
  BY <1>1, <1>2 DEF ShelfPromised
<1>. QED
  BY <1>2, <1>3, <1>4 DEF Commit

\* What a document means for the shelves adds up to what it means for the total.
LEMMA DeltasAddUp ==
  ASSUME NEW r \in Request
  PROVE  SumFunctionOnSet([b \in Branches |-> StockDelta(r, b)], Branches) = QuantityDelta(r)
<1>. DEFINE f == [b \in Branches |-> StockDelta(r, b)]
            z == [b \in Branches |-> 0]
            g == [b \in Branches |-> IF b = r.from
                                     THEN (IF r.kind \in Arrivals THEN r.qty ELSE -r.qty) ELSE 0]
<1>1. /\ r.from \in Branches /\ r.to \in Branches /\ r.qty \in Int
      /\ r.kind = "transfer" <=> r.from # r.to
      /\ "transfer" \notin Arrivals
  BY RequestTypes DEF Arrivals, Trimming, Restocking
<1>2. /\ \A b \in Branches : f[b] \in Int /\ g[b] \in Int /\ z[b] = 0
      /\ \A b \in Branches \ {r.from} : z[b] = g[b]
  BY <1>1, RequestTypes
<1>3. SumFunctionOnSet(z, Branches) = 0
  BY <1>2, FiniteAssumption, SumZero
<1>4. SumFunctionOnSet(g, Branches) = g[r.from]
  <2>1. SumFunctionOnSet(g, Branches) = SumFunctionOnSet(z, Branches) - z[r.from] + g[r.from]
    BY <1>1, <1>2, FiniteAssumption, SumChange
  <2>2. g[r.from] \in Int /\ z[r.from] = 0
    BY <1>1, <1>2
  <2>. QED
    BY <1>3, <2>1, <2>2
<1>5. CASE r.kind = "transfer"
  <2>1. \A b \in Branches \ {r.to} : g[b] = f[b]
    BY <1>1, <1>5 DEF StockDelta
  <2>2. SumFunctionOnSet(f, Branches) = SumFunctionOnSet(g, Branches) - g[r.to] + f[r.to]
    BY <1>1, <1>2, <2>1, FiniteAssumption, SumChange
  <2>3. g[r.to] = 0 /\ f[r.to] = r.qty /\ g[r.from] = -r.qty
    BY <1>1, <1>5 DEF StockDelta
  <2>. QED
    BY <1>1, <1>4, <1>5, <2>2, <2>3 DEF QuantityDelta
<1>6. CASE r.kind # "transfer"
  <2>1. \A b \in Branches : g[b] = f[b]
    BY <1>1, <1>6 DEF StockDelta
  <2>2. SumFunctionOnSet(f, Branches) = SumFunctionOnSet(g, Branches)
    BY <2>1, FiniteAssumption, SumEqual
  <2>3. g[r.from] = QuantityDelta(r)
    BY <1>1, <1>6 DEF QuantityDelta
  <2>. QED
    BY <1>4, <2>2, <2>3
<1>. QED
  BY <1>5, <1>6

\* However the documents interleave, fail or are rolled back, the product's total
\* is the sum of its branch shelves (common/branch-stock.ts, "the two never drift").
THEOREM NeverDriftThm == Spec => []NeverDrift
<1>1. Init => NeverDrift
  BY OpeningAssumption DEF Init, NeverDrift
<1>2. IInv /\ NeverDrift /\ [Next]_vars => NeverDrift'
  <2>. SUFFICES ASSUME IInv, NeverDrift, [Next]_vars PROVE NeverDrift'
    OBVIOUS
  <2>t. TypeOK
    BY DEF IInv
  <2>1. CASE UNCHANGED committed
    BY <2>1 DEF committed, NeverDrift
  <2>2. ASSUME NEW t \in Tx, Commit(t) PROVE NeverDrift'
    <3>. DEFINE delta == [b \in Branches |-> StockDelta(req[t], b)]
    <3>1. req[t] \in Request /\ stock \in [Branches -> Int]
      BY <2>t, Sorts
    <3>2. /\ stock' = [b \in Branches |-> stock[b] + StockDelta(req[t], b)]
          /\ quantity' = quantity + QuantityDelta(req[t])
      BY <2>2, CommitWrites
    <3>3. \A b \in Branches : /\ stock[b] \in Int /\ delta[b] \in Int
                              /\ stock'[b] = stock[b] + delta[b]
      BY <3>1, <3>2, RequestTypes
    <3>4. SumFunctionOnSet(stock', Branches)
            = SumFunctionOnSet(stock, Branches) + SumFunctionOnSet(delta, Branches)
      BY <3>3, FiniteAssumption, SumPlus
    <3>5. SumFunctionOnSet(delta, Branches) = QuantityDelta(req[t])
      BY <3>1, DeltasAddUp
    <3>6. DOMAIN stock = Branches /\ DOMAIN stock' = Branches
      BY <3>1, <3>2
    <3>. QED
      BY <3>2, <3>4, <3>5, <3>6 DEF NeverDrift, SumFunction
  <2>3. CASE UNCHANGED vars
    BY <2>1, <2>3 DEF vars
  <2>. QED
    BY <2>1, <2>2, <2>3, <2>t, NextSteps, Frame
<1>. QED
  BY Inductive, <1>1, <1>2, PTL DEF Spec

\* Locking the product before reading the shelf is enough: a transfer, a
\* write-off or a move to the defective store that commits leaves the shelf at
\* zero or above, whatever sales run beside it.
THEOREM GuardedNeverOverdrawsThm == Spec => GuardedNeverOverdraws
<1>. DEFINE A == \A t \in Tx : (pc[t] = "commit" /\ pc'[t] = "committed"
                                  /\ req[t].kind \in Guarded) => stock'[req[t].from] >= 0
<1>1. IInv /\ [Next]_vars => [A]_vars
  <2>. SUFFICES ASSUME IInv, Next, NEW t \in Tx, pc[t] = "commit", pc'[t] = "committed",
                       req[t].kind \in Guarded
                PROVE  stock'[req[t].from] >= 0
    OBVIOUS
  <2>t. TypeOK
    BY DEF IInv
  <2>1. PICK u \in Tx : Statement(u) \/ Rollback(u)
    BY NextSteps
  <2>2. u = t
    BY <2>1, <2>t, Frame
  <2>3. Commit(t)
    BY <2>1, <2>2, <2>t, Sorts
       DEF Statement, Run, Rollback, LockProduct, CheckShelf, SelectLots, GatherLot,
           StartTaking, TakeFromLot, FinishTaking, MintLot, WriteStock, WriteQuantity,
           WriteDestination
  <2>4. /\ req[t].qty <= stock[req[t].from]
        /\ stock'[req[t].from] = stock[req[t].from] + StockDelta(req[t], req[t].from)
    BY <2>3, <2>t, CommitWrites, Sorts
  <2>5. StockDelta(req[t], req[t].from) = -req[t].qty
    <3>1. req[t].kind \notin Arrivals /\ req[t].qty \in Int
      BY <2>t, Sorts DEF Guarded, Arrivals, Trimming, Restocking
    <3>2. CASE req[t].kind = "transfer"
      <4>1. req[t].from # req[t].to
        BY <2>t, <3>2, KindFacts
      <4>. QED
        BY <3>1, <3>2, <4>1, TwoShelves
    <3>3. CASE req[t].kind # "transfer"
      BY <3>1, <3>3, OneShelf
    <3>. QED
      BY <3>2, <3>3
  <2>6. stock[req[t].from] \in Int /\ req[t].qty \in Int
    BY <2>t, Sorts
  <2>. QED
    BY <2>4, <2>5, <2>6
<1>. QED
  BY Inductive, <1>1, PTL DEF Spec, GuardedNeverOverdraws

\* The interleaved transactions implement StockBalance: each document happens
\* at its commit, in one step, or not at all.
THEOREM ImplementsBalance == Spec => BalanceSpec
<1>. DEFINE st == [t \in Tx |-> CASE pc[t] = "committed"  -> "done"
                                  [] pc[t] = "rolledBack" -> "failed"
                                  [] OTHER                -> "open"]
<1>1. Init => Balance!Init
  <2>. SUFFICES ASSUME Init PROVE Balance!Init
    OBVIOUS
  <2>1. stock = OpeningStock /\ quantity = OpeningQuantity /\ req \in [Tx -> Request]
    BY DEF Init
  <2>2. \A t \in Tx : pc[t] \in {"lock", "select", "mint"}
    <3>1. TypeOK
      BY InitTypeOK
    <3>. QED
      BY <3>1, KindFacts DEF Init, FirstStep, Withdrawals
  <2>3. st = [t \in Tx |-> "open"]
    BY <2>2
  <2>. QED
    BY <2>1, <2>3 DEF Balance!Init, Balance!Request, Request
<1>2. IInv /\ [Next]_vars => [Balance!Next]_(Balance!balanceVars)
  <2>. SUFFICES ASSUME IInv, [Next]_vars PROVE [Balance!Next]_(Balance!balanceVars)
    OBVIOUS
  <2>t. TypeOK
    BY DEF IInv
  <2>1. CASE UNCHANGED vars
    BY <2>1 DEF vars, committed, private, Balance!balanceVars
  <2>2. ASSUME NEW t \in Tx, Statement(t) \/ Rollback(t)
        PROVE  [Balance!Next]_(Balance!balanceVars)
    <3>f. /\ req' = req /\ (Commit(t) \/ UNCHANGED committed)
          /\ \A u \in Tx \ {t} : pc'[u] = pc[u]
      BY <2>2, <2>t, Frame
    <3>1. CASE Commit(t)
      <4>1. st[t] = "open" /\ st' = [st EXCEPT ![t] = "done"]
        BY <2>t, <3>1, CommitWrites, Sorts
      <4>2. Balance!Happen(t)
        BY <3>1, <4>1, CommitWrites
           DEF Balance!Happen, Balance!StockDelta, Balance!QuantityDelta, Balance!Guarded,
               Balance!Arrivals, Balance!Trimming, Balance!Restocking,
               StockDelta, QuantityDelta, Guarded, Arrivals, Trimming, Restocking
      <4>. QED
        BY <4>2 DEF Balance!Next
    <3>2. CASE Rollback(t)
      <4>1. st[t] = "open" /\ st' = [st EXCEPT ![t] = "failed"]
        BY <2>t, <3>2, Sorts DEF Rollback, Finished
      <4>2. Balance!Fail(t)
        BY <3>2, <3>f, <4>1 DEF Balance!Fail, Rollback, committed
      <4>. QED
        BY <4>2 DEF Balance!Next
    <3>3. CASE Statement(t) /\ ~Commit(t)
      <4>1. /\ pc[t] \notin {"committed", "rolledBack"}
            /\ pc'[t] \notin {"committed", "rolledBack"}
        BY <2>t, <3>3, Sorts
           DEF Statement, Run, LockProduct, CheckShelf, SelectLots, GatherLot, StartTaking,
               TakeFromLot, FinishTaking, MintLot, WriteStock, WriteQuantity,
               WriteDestination, AfterTake, AfterQuantity
      <4>2. st' = st
        BY <3>f, <4>1
      <4>. QED
        BY <3>3, <3>f, <4>2 DEF committed, Balance!balanceVars
    <3>. QED
      BY <2>2, <3>1, <3>2, <3>3
  <2>. QED
    BY <2>1, <2>2, NextSteps
<1>. QED
  BY Inductive, <1>1, <1>2, PTL DEF Spec, BalanceSpec, Balance!Spec
------------------------------------------------------------------------------
\* What is left of the lots of one branch, lot by lot.
LeftAt(some, b) == [l \in DOMAIN some |-> IF some[l].branch = b THEN some[l].left ELSE 0]

\* The units in some lots are the sum of it, and a number.
LEMMA UnitsSum ==
  ASSUME NEW s \in Seq(Lot), NEW b
  PROVE  /\ UnitsIn(s, b) = SumFunctionOnSet(LeftAt(s, b), 1 .. Len(s))
         /\ Len(s) \in Nat /\ DOMAIN s = 1 .. Len(s) /\ IsFiniteSet(1 .. Len(s))
         /\ \A l \in 1 .. Len(s) :
              LeftAt(s, b)[l] = (IF s[l].branch = b THEN s[l].left ELSE 0) /\ LeftAt(s, b)[l] \in Int
         /\ UnitsIn(s, b) \in Int
<1>0. Len(s) \in Nat /\ DOMAIN s = 1 .. Len(s) /\ \A l \in 1 .. Len(s) : s[l] \in Lot
  OBVIOUS
<1>1. Len(s) \in Nat /\ DOMAIN s = 1 .. Len(s) /\ \A l \in 1 .. Len(s) : s[l].left \in Int
  BY <1>0 DEF Lot
<1>2. IsFiniteSet(1 .. Len(s))
  BY <1>1, FS_Interval
<1>3. \A l \in 1 .. Len(s) :
        LeftAt(s, b)[l] = (IF s[l].branch = b THEN s[l].left ELSE 0) /\ LeftAt(s, b)[l] \in Int
  BY <1>1 DEF LeftAt
<1>4. UnitsIn(s, b) = SumFunctionOnSet(LeftAt(s, b), 1 .. Len(s))
  <2>1. DOMAIN LeftAt(s, b) = 1 .. Len(s)
    BY <1>1 DEF LeftAt
  <2>2. UnitsIn(s, b) = SumFunction(LeftAt(s, b))
    BY DEF UnitsIn, LeftAt
  <2>. QED
    BY <2>1, <2>2 DEF SumFunction
<1>5. SumFunctionOnSet(LeftAt(s, b), 1 .. Len(s)) \in Int
  BY <1>2, <1>3, SumInt
<1>. QED
  BY <1>1, <1>2, <1>3, <1>4, <1>5

\* The units in lots put one after the other add up.
LEMMA UnitsConcat ==
  ASSUME NEW s \in Seq(Lot), NEW r \in Seq(Lot), NEW b
  PROVE  UnitsIn(s \o r, b) = UnitsIn(s, b) + UnitsIn(r, b)
<1>. DEFINE f == LeftAt(s, b)
            g == LeftAt(r, b)
            h == LeftAt(s \o r, b)
<1>1. /\ DOMAIN (s \o r) = 1 .. Len(s) + Len(r)
      /\ \A i \in 1 .. Len(s) : (s \o r)[i] = s[i]
      /\ \A i \in Len(s) + 1 .. Len(s) + Len(r) : (s \o r)[i] = r[i - Len(s)]
      /\ s \o r \in Seq(Lot) /\ Len(s \o r) = Len(s) + Len(r)
  BY Concatenated
<1>2. Len(s) \in Nat /\ Len(r) \in Nat
  OBVIOUS
<1>f. \A i \in 1 .. Len(s) : f[i] = (IF s[i].branch = b THEN s[i].left ELSE 0) /\ f[i] \in Int
  BY UnitsSum
<1>g. \A i \in 1 .. Len(r) : g[i] = (IF r[i].branch = b THEN r[i].left ELSE 0) /\ g[i] \in Int
  BY UnitsSum
<1>h. \A i \in 1 .. Len(s \o r) :
        h[i] = (IF (s \o r)[i].branch = b THEN (s \o r)[i].left ELSE 0)
  <2>1. \A q \in Seq(Lot) : \A i \in 1 .. Len(q) :
          LeftAt(q, b)[i] = (IF q[i].branch = b THEN q[i].left ELSE 0)
    BY UnitsSum
  <2>. QED
    BY <1>1, <2>1
<1>. HIDE DEF f, g, h
<1>3. \A i \in 1 .. Len(s) : f[i] \in Int /\ h[0 + i] = f[i]
  <2>. TAKE i \in 1 .. Len(s)
  <2>1. i \in 1 .. Len(s \o r) /\ 0 + i = i
    BY <1>1, <1>2
  <2>. QED
    BY <1>1, <1>f, <1>h, <2>1
<1>4. \A i \in 1 .. Len(r) : g[i] \in Int /\ h[Len(s) + i] = g[i]
  <2>. TAKE i \in 1 .. Len(r)
  <2>1. Len(s) + i \in 1 .. Len(s \o r) /\ (s \o r)[Len(s) + i] = r[i]
    <3>1. Len(s) + i \in Len(s) + 1 .. Len(s) + Len(r) /\ (Len(s) + i) - Len(s) = i
      BY <1>2
    <3>. QED
      BY <1>1, <1>2, <3>1
  <2>. QED
    BY <1>g, <1>h, <2>1
<1>5. Shifted(f, h, 0, Len(s)) /\ Shifted(g, h, Len(s), Len(r))
  BY <1>3, <1>4 DEF Shifted
<1>6. SumFunctionOnSet(h, 1 .. (Len(s) + Len(r)))
        = SumFunctionOnSet(f, 1 .. Len(s)) + SumFunctionOnSet(g, 1 .. Len(r))
  BY <1>2, <1>5, SumConcat
<1>7. /\ UnitsIn(s \o r, b) = SumFunctionOnSet(h, 1 .. (Len(s) + Len(r)))
      /\ UnitsIn(s, b) = SumFunctionOnSet(f, 1 .. Len(s))
      /\ UnitsIn(r, b) = SumFunctionOnSet(g, 1 .. Len(r))
  BY <1>1, UnitsSum DEF f, g, h
<1>. QED
  BY <1>6, <1>7

\* Lots of other branches hold nothing of a branch.
LEMMA UnitsNone ==
  ASSUME NEW s \in Seq(Lot), NEW b, \A k \in DOMAIN s : s[k].branch # b
  PROVE  UnitsIn(s, b) = 0
<1>1. \A l \in 1 .. Len(s) : LeftAt(s, b)[l] = 0
  BY UnitsSum
<1>2. SumFunctionOnSet(LeftAt(s, b), 1 .. Len(s)) = 0
  BY <1>1, UnitsSum, SumZero
<1>. QED
  BY <1>2, UnitsSum

\* One lot holds what is left of it.
LEMMA UnitsOne ==
  ASSUME NEW s \in Seq(Lot), Len(s) = 1, NEW b
  PROVE  UnitsIn(s, b) = IF s[1].branch = b THEN s[1].left ELSE 0
<1>. DEFINE f == LeftAt(s, b)
<1>1. 1 .. Len(s) = {} \cup {1} /\ f[1] = (IF s[1].branch = b THEN s[1].left ELSE 0)
  BY UnitsSum
<1>2. \A x \in {} \cup {1} : f[x] \in Int
  BY UnitsSum
<1>3. IsFiniteSet({})
  BY FS_EmptySet
<1>. HIDE DEF f
<1>4. SumFunctionOnSet(f, {} \cup {1}) = SumFunctionOnSet(f, {}) + f[1]
  BY <1>2, <1>3, SumAdd
<1>5. SumFunctionOnSet(f, {}) = 0 /\ f[1] \in Int
  BY <1>2, SumEmpty
<1>6. SumFunctionOnSet(f, 1 .. Len(s)) = f[1]
  BY <1>1, <1>4, <1>5
<1>. QED
  BY <1>1, <1>6, UnitsSum DEF f

\* A lot more holds what is left of it more.
LEMMA UnitsAppend ==
  ASSUME NEW s \in Seq(Lot), NEW e \in Lot, NEW b
  PROVE  UnitsIn(Append(s, e), b) = UnitsIn(s, b) + IF e.branch = b THEN e.left ELSE 0
<1>1. <<e>> \in Seq(Lot) /\ Len(<<e>>) = 1 /\ <<e>>[1] = e
  OBVIOUS
<1>2. Append(s, e) = s \o <<e>>
  OBVIOUS
<1>3. UnitsIn(<<e>>, b) = IF e.branch = b THEN e.left ELSE 0
  BY <1>1, UnitsOne
<1>4. UnitsIn(s \o <<e>>, b) = UnitsIn(s, b) + UnitsIn(<<e>>, b)
  BY <1>1, UnitsConcat
<1>. QED
  BY <1>2, <1>3, <1>4

\* The open lots of a branch hold all its units.
LEMMA OpenUnits ==
  ASSUME TypeOK, LotsNeverOverdrawn, NEW b
  PROVE  /\ SumFunctionOnSet([l \in OpenLots(b) |-> lots[l].left], OpenLots(b)) = UnitsInLots(b)
         /\ IsFiniteSet(OpenLots(b))
<1>. DEFINE f == [l \in OpenLots(b) |-> lots[l].left]
            g == LeftAt(lots, b)
            S == 1 .. Len(lots)
<1>1. lots \in Seq(Lot)
  BY DEF TypeOK, TablesOK
<1>2. OpenLots(b) \in SUBSET S
  BY <1>1 DEF OpenLots
<1>3. \A l \in OpenLots(b) : f[l] \in Int /\ g[l] = f[l]
  BY <1>1, <1>2, UnitsSum DEF OpenLots, Lot
<1>4. \A l \in S \ OpenLots(b) : g[l] = 0
  <2>. TAKE l \in S \ OpenLots(b)
  <2>1. lots[l].left \in Int /\ lots[l].left >= 0 /\ l \in DOMAIN lots
    BY <1>1, UnitsSum DEF LotsNeverOverdrawn, Lot
  <2>2. g[l] = IF lots[l].branch = b THEN lots[l].left ELSE 0
    BY <1>1, UnitsSum
  <2>. QED
    BY <2>1, <2>2 DEF OpenLots
<1>5. IsFiniteSet(S)
  BY <1>1, UnitsSum
<1>6. UnitsInLots(b) = SumFunctionOnSet(g, S)
  BY <1>1, UnitsSum DEF UnitsInLots
<1>. HIDE DEF f, g, S
<1>7. SumFunctionOnSet(g, S) = SumFunctionOnSet(f, OpenLots(b))
  BY <1>2, <1>3, <1>4, <1>5, SumSupport
<1>8. IsFiniteSet(OpenLots(b))
  BY <1>2, <1>5, FS_Subset
<1>. QED
  BY <1>6, <1>7, <1>8 DEF f

\* What a commit does to the units in the lots of a branch, when the lots its
\* transaction holds are all in the branch it takes from.
LEMMA CommitUnits ==
  ASSUME TypeOK, NEW t \in Tx, Commit(t), NEW b,
         \A l \in DOMAIN draw[t] : lots[l].branch = req[t].from
  PROVE  /\ UnitsInLots(b)' = UnitsInLots(b) - (IF b = req[t].from THEN Drawn(t) ELSE 0)
                                + UnitsIn(mint[t], b)
         /\ Drawn(t) \in Nat
<1>. DEFINE S == 1 .. Len(lots)
            f == LeftAt(Debited(t), b)
            g == [l \in S |-> IF b = req[t].from /\ l \in DOMAIN draw[t] THEN draw[t][l] ELSE 0]
            h == LeftAt(lots, b)
<1>1. /\ lots \in Seq(Lot) /\ mint[t] \in Seq(Lot) /\ Debited(t) \in Seq(Lot)
      /\ Len(Debited(t)) = Len(lots) /\ DOMAIN lots = S
  BY Sorts, DebitedLots
<1>2. lots' = Debited(t) \o mint[t]
  BY DEF Commit, Debited
<1>3. UnitsIn(Debited(t) \o mint[t], b) = UnitsIn(Debited(t), b) + UnitsIn(mint[t], b)
  BY <1>1, UnitsConcat
<1>4. DOMAIN draw[t] \in SUBSET S /\ \A l \in DOMAIN draw[t] : draw[t][l] \in Nat
  BY <1>1 DEF TypeOK, LoopOK
<1>5. IsFiniteSet(S) /\ IsFiniteSet(DOMAIN draw[t])
  BY <1>1, <1>4, UnitsSum, FS_Subset
<1>6. \A l \in S : f[l] \in Int /\ g[l] \in Int /\ h[l] = f[l] + g[l]
  <2>. TAKE l \in S
  <2>1. f[l] = (IF Debited(t)[l].branch = b THEN Debited(t)[l].left ELSE 0) /\ f[l] \in Int
    BY <1>1, UnitsSum
  <2>2. h[l] = (IF lots[l].branch = b THEN lots[l].left ELSE 0) /\ lots[l].left \in Int
    <3>1. l \in DOMAIN lots
      BY <1>1
    <3>2. lots[l].left \in Int
      BY <3>1, Sorts
    <3>3. \A i \in 1 .. Len(lots) : LeftAt(lots, b)[i] = (IF lots[i].branch = b THEN lots[i].left ELSE 0)
      BY <1>1, UnitsSum
    <3>. QED
      BY <3>2, <3>3
  <2>3. /\ Debited(t)[l].branch = lots[l].branch
        /\ Debited(t)[l].left = IF l \in DOMAIN draw[t] THEN lots[l].left - draw[t][l]
                                                        ELSE lots[l].left
    BY <1>1, DebitedLots
  <2>4. g[l] = IF b = req[t].from /\ l \in DOMAIN draw[t] THEN draw[t][l] ELSE 0
    OBVIOUS
  <2>. HIDE DEF f, g, h, S
  <2>5. CASE l \in DOMAIN draw[t]
    <3>1. draw[t][l] \in Int /\ lots[l].branch = req[t].from
      BY <1>4, <2>5
    <3>. QED
      BY <2>1, <2>2, <2>3, <2>4, <2>5, <3>1
  <2>6. CASE l \notin DOMAIN draw[t]
    BY <2>1, <2>2, <2>3, <2>4, <2>6
  <2>. QED
    BY <2>5, <2>6
<1>7. SumFunctionOnSet(g, S) = IF b = req[t].from THEN Drawn(t) ELSE 0
  <2>1. CASE b = req[t].from
    <3>1. /\ \A l \in DOMAIN draw[t] : draw[t][l] \in Int /\ g[l] = draw[t][l]
          /\ \A l \in S \ DOMAIN draw[t] : g[l] = 0
      BY <1>4, <2>1
    <3>. HIDE DEF g, S
    <3>2. SumFunctionOnSet(g, S) = SumFunctionOnSet(draw[t], DOMAIN draw[t])
      BY <1>4, <1>5, <3>1, SumSupport
    <3>. QED
      BY <2>1, <3>2 DEF Drawn, SumFunction
  <2>2. CASE b # req[t].from
    <3>1. \A l \in S : g[l] = 0
      BY <2>2
    <3>. HIDE DEF g, S
    <3>. QED
      BY <1>5, <2>2, <3>1, SumZero
  <2>. QED
    BY <2>1, <2>2
<1>8. UnitsIn(Debited(t), b) = SumFunctionOnSet(f, S) /\ UnitsIn(lots, b) = SumFunctionOnSet(h, S)
  BY <1>1, UnitsSum
<1>9. /\ UnitsIn(mint[t], b) \in Int /\ UnitsIn(Debited(t), b) \in Int
      /\ UnitsIn(lots, b) \in Int
  BY <1>1, UnitsSum
<1>. HIDE DEF f, g, h, S
<1>10. SumFunctionOnSet(h, S) = SumFunctionOnSet(f, S) + SumFunctionOnSet(g, S)
  BY <1>5, <1>6, SumPlus
<1>11. Drawn(t) \in Nat
  BY <1>4, <1>5, SumNat DEF Drawn, SumFunction
<1>12. UnitsInLots(b)' = UnitsIn(Debited(t) \o mint[t], b) /\ UnitsInLots(b) = UnitsIn(lots, b)
  BY <1>2 DEF UnitsInLots
<1>. QED
  BY <1>3, <1>7, <1>8, <1>9, <1>10, <1>11, <1>12

------------------------------------------------------------------------------
\* Opening lots that back the opening shelves.
OpeningBacked == \A b \in Branches : UnitsIn(OpeningLots, b) = OpeningStock[b]

\* While only guarded documents take from the shelf, whoever visits lots holds
\* the product row, and so nobody else commits.
LEMMA VisitorsAlone ==
  ASSUME IInv, OnlyGuarded, NEW t \in Tx, NEW u \in Tx \ {t}, Commit(t)
  PROVE  pc[u] \notin {"gather", "take"}
<1>1. TypeOK /\ LocksExclusive /\ OnPlan(u) /\ Written(u) /\ ShelfPromised(u) /\ Written(t)
  BY DEF IInv
<1>2. Product \in rows[t]
  BY <1>1 DEF Written, Commit, Run
<1>3. Product \notin rows[u]
  BY <1>1, <1>2 DEF LocksExclusive
<1>4. CASE pc[u] \in {"gather", "take"}
  <2>1. req[u].kind \in Guarded \/ req[u].kind \in Trimming
    BY <1>1, <1>4 DEF OnPlan, OnlyGuarded, Withdrawals
  <2>2. req[u].kind \in Guarded => Product \in rows[u]
    BY <1>1, <1>4 DEF ShelfPromised
  <2>3. req[u].kind \in Trimming => Product \in rows[u]
    BY <1>1, <1>4 DEF Written
  <2>. QED
    BY <1>3, <2>1, <2>2, <2>3
<1>. QED
  BY <1>4

\* What the other transactions hold is as they found it.
LEMMA OthersKeepLots ==
  ASSUME IInv, OnlyGuarded, NEW t \in Tx, Statement(t) \/ Rollback(t), NEW u \in Tx \ {t},
         Taken(u), Opened(u)
  PROVE  Taken(u)' /\ Opened(u)'
<1>1. TypeOK
  BY DEF IInv
<1>2. /\ req' = req /\ pc'[u] = pc[u] /\ queue'[u] = queue[u] /\ draw'[u] = draw[u]
      /\ held'[u] = held[u] /\ need'[u] = need[u] /\ mint'[u] = mint[u]
      /\ Commit(t) \/ UNCHANGED committed
  BY <1>1, Frame
<1>3. Opened(u)'
  BY <1>2 DEF Opened, Drawn
<1>4. CASE UNCHANGED committed
  <2>1. lots' = lots
    BY <1>4 DEF committed
  <2>2. LotsFound(u)' = LotsFound(u)
    BY <1>2, <2>1 DEF LotsFound, OpenLots
  <2>3. LotsVisited(u)' = LotsVisited(u)
    BY <1>2, <2>1 DEF LotsVisited, OpenLots, Drawn
  <2>4. LotsDone(u)' = LotsDone(u) /\ NoLotsYet(u)' = NoLotsYet(u)
    BY <1>2, <2>1 DEF LotsDone, NoLotsYet, Drawn
  <2>. QED
    BY <1>2, <2>2, <2>3, <2>4, <1>3 DEF Taken
<1>5. CASE Commit(t)
  <2>1. pc[u] \notin {"gather", "take"}
    BY <1>5, VisitorsAlone
  <2>2. \A l \in DOMAIN draw[u] : lots'[l].branch = lots[l].branch
    <3>1. DOMAIN draw[u] \subseteq DOMAIN lots /\ DOMAIN lots = 1 .. Len(lots)
      BY <1>1, Sorts DEF TypeOK, LoopOK
    <3>2. lots' = Debited(t) \o mint[t] /\ Debited(t) \in Seq(Lot) /\ mint[t] \in Seq(Lot)
      BY <1>1, <1>5, DebitedLots, Sorts DEF Commit, Debited
    <3>3. \A l \in 1 .. Len(lots) : lots'[l] = Debited(t)[l]
      BY <1>1, <3>2, DebitedLots, Concatenated
    <3>. QED
      BY <1>1, <3>1, <3>3, DebitedLots
  <2>. QED
    BY <1>2, <1>3, <2>1, <2>2 DEF Taken, LotsDone, NoLotsYet, Drawn
<1>. QED
  BY <1>2, <1>3, <1>4, <1>5

\* What a transaction took is a number; nothing was taken from no lots.
LEMMA DrawnNumber ==
  ASSUME TypeOK, NEW t \in Tx
  PROVE  /\ DOMAIN draw[t] \subseteq DOMAIN lots /\ IsFiniteSet(DOMAIN draw[t])
         /\ \A l \in DOMAIN draw[t] : draw[t][l] \in Nat /\ lots[l].left \in Int
         /\ Drawn(t) = SumFunctionOnSet(draw[t], DOMAIN draw[t])
         /\ Drawn(t) \in Nat
         /\ draw[t] = <<>> => Drawn(t) = 0
<1>1. /\ DOMAIN draw[t] \subseteq DOMAIN lots
      /\ \A l \in DOMAIN draw[t] : draw[t][l] \in Nat /\ lots[l].left \in Int
  BY Sorts DEF TypeOK, LoopOK
<1>2. IsFiniteSet(DOMAIN lots)
  BY UnitsSum DEF TypeOK, TablesOK
<1>3. IsFiniteSet(DOMAIN draw[t])
  BY <1>1, <1>2, FS_Subset
<1>4. Drawn(t) = SumFunctionOnSet(draw[t], DOMAIN draw[t])
  BY DEF Drawn, SumFunction
<1>5. DOMAIN <<>> = {}
  OBVIOUS
<1>6. draw[t] = <<>> => Drawn(t) = 0
  BY <1>4, <1>5, SumEmpty
<1>. QED
  BY <1>1, <1>3, <1>4, <1>6, SumNat

\* Without unguarded documents, a document that takes is guarded.
LEMMA GuardedOrArrival ==
  ASSUME TypeOK, OnlyGuarded, NEW t \in Tx
  PROVE  /\ req[t].kind \in Guarded <=> req[t].kind \notin Arrivals
         /\ req[t].kind \in Trimming => req[t].kind \in Arrivals
         /\ req[t].kind = "transfer" => req[t].kind \in Guarded
         /\ req[t].kind = "transfer" <=> req[t].from # req[t].to
BY KindFacts DEF OnlyGuarded

\* Locking one more of the lots it found.
LEMMA GatherLots ==
  ASSUME IInv, NEW t \in Tx, GatherLot(t), LotsFound(t)
  PROVE  LotsFound(t)'
<1>1. TypeOK
  BY DEF IInv
<1>2. PICK l \in Oldest(queue[t]) :
          /\ queue' = [queue EXCEPT ![t] = @ \ {l}]
          /\ IF lots[l].left > 0
             THEN /\ draw' = [draw EXCEPT ![t] = [m \in DOMAIN @ \cup {l} |->
                                                    IF m = l THEN 0 ELSE @[m]]]
                  /\ held' = [held EXCEPT ![t] = @ + lots[l].left]
             ELSE UNCHANGED <<draw, held>>
  BY DEF GatherLot
<1>3. lots' = lots /\ req' = req
  BY DEF GatherLot, committed
<1>4. l \in queue[t] /\ l \in OpenLots(req[t].from) /\ l \notin DOMAIN draw[t]
  BY <1>2 DEF Oldest, LotsFound
<1>5. lots[l].left > 0 /\ l \in DOMAIN lots /\ lots[l].left \in Int
  BY <1>1, <1>4, Sorts DEF OpenLots
<1>6. /\ queue'[t] = queue[t] \ {l}
      /\ draw'[t] = [m \in DOMAIN draw[t] \cup {l} |-> IF m = l THEN 0 ELSE draw[t][m]]
      /\ held'[t] = held[t] + lots[l].left
  BY <1>1, <1>2, <1>5, Sorts
<1>7. DOMAIN draw'[t] = DOMAIN draw[t] \cup {l}
  BY <1>6
<1>8. /\ queue'[t] \cap DOMAIN draw'[t] = {}
      /\ queue'[t] \cup DOMAIN draw'[t] = OpenLots(req[t].from)
      /\ \A m \in DOMAIN draw'[t] : draw'[t][m] = 0
  BY <1>4, <1>6, <1>7 DEF LotsFound
<1>9. held'[t] = SumFunction([m \in DOMAIN draw'[t] |-> lots[m].left])
  <2>. DEFINE f == [m \in DOMAIN draw[t] |-> lots[m].left]
              g == [m \in DOMAIN draw'[t] |-> lots[m].left]
              S == DOMAIN draw[t]
  <2>1. IsFiniteSet(S) /\ \A m \in S \cup {l} : g[m] \in Int
    BY <1>1, <1>5, <1>7, DrawnNumber
  <2>2. \A m \in S : f[m] = g[m]
    BY <1>7
  <2>3. DOMAIN f = S /\ DOMAIN g = S \cup {l} /\ g[l] = lots[l].left /\ l \notin S
    BY <1>4, <1>7
  <2>4. held[t] = SumFunction(f)
    BY DEF LotsFound
  <2>. HIDE DEF f, g, S
  <2>5. SumFunctionOnSet(g, S \cup {l}) = SumFunctionOnSet(g, S) + g[l]
    BY <2>1, <2>3, SumAdd
  <2>6. SumFunctionOnSet(f, S) = SumFunctionOnSet(g, S)
    BY <2>1, <2>2, SumEqual
  <2>7. SumFunction(g) = SumFunction(f) + lots[l].left
    BY <2>3, <2>5, <2>6 DEF SumFunction
  <2>. QED
    BY <1>6, <2>4, <2>7 DEF g
<1>10. OpenLots(req[t].from)' = OpenLots(req[t].from)
  BY <1>3 DEF OpenLots
<1>. QED
  BY <1>3, <1>8, <1>9, <1>10 DEF LotsFound

\* The lots back the shelf exactly, so a trim has no excess to take.
LEMMA StartLots ==
  ASSUME IInv, OnlyGuarded, LotsMatchStock, NEW t \in Tx, StartTaking(t), LotsFound(t)
  PROVE  LotsVisited(t)'
<1>1. TypeOK /\ LotsNeverOverdrawn /\ Written(t) /\ OnPlan(t)
  BY DEF IInv
<1>2. /\ queue[t] = {} /\ queue'[t] = DOMAIN draw[t] /\ draw' = draw /\ req' = req /\ lots' = lots
      /\ need'[t] = IF req[t].kind \in Trimming THEN Excess(t) ELSE req[t].qty
      /\ pc[t] = "gather"
  BY <1>1, Sorts DEF StartTaking, Run, committed
<1>3. DOMAIN draw[t] = OpenLots(req[t].from) /\ \A l \in DOMAIN draw[t] : draw[t][l] = 0
  BY <1>2 DEF LotsFound
<1>4. Drawn(t) = 0
  BY <1>1, <1>3, DrawnNumber, SumZero
<1>5. CASE req[t].kind \in Trimming
  <2>1. held[t] = UnitsInLots(req[t].from)
    <3>1. held[t] = SumFunction([l \in OpenLots(req[t].from) |-> lots[l].left])
      BY <1>3 DEF LotsFound
    <3>. QED
      BY <1>1, <3>1, OpenUnits DEF SumFunction
  <2>2. held[t] = stock[req[t].from] /\ req[t].from \in Branches
    BY <1>1, <2>1, Sorts DEF LotsMatchStock
  <2>3. held[t] \in Nat
    <3>1. held[t] = SumFunctionOnSet([l \in OpenLots(req[t].from) |-> lots[l].left], OpenLots(req[t].from))
      BY <1>1, <2>1, OpenUnits
    <3>2. \A l \in OpenLots(req[t].from) :
            [m \in OpenLots(req[t].from) |-> lots[m].left][l] \in Nat
      BY <1>1, Sorts DEF OpenLots
    <3>. QED
      BY <1>1, <3>1, <3>2, OpenUnits, SumNat
  <2>4. dStock[t][req[t].from] = req[t].qty
    <3>1. dStock[t] = [b \in Branches |-> StockDelta(req[t], b)]
      BY <1>1, <1>2, <1>5 DEF Written
    <3>2. req[t].kind \in Arrivals /\ req[t].kind # "transfer" /\ req[t].qty \in Int
      BY <1>1, <1>5, Sorts DEF Arrivals, Trimming
    <3>. QED
      BY <2>2, <3>1, <3>2, OneShelf
  <2>5. req[t].qty \in Nat \ {0}
    BY <1>1, Sorts
  <2>6. Excess(t) = 0
    BY <2>2, <2>3, <2>4, <2>5 DEF Excess
  <2>. QED
    BY <1>2, <1>3, <1>4, <1>5, <2>6 DEF LotsVisited, Drawn, OpenLots
<1>6. CASE req[t].kind \notin Trimming
  <2>1. req[t].qty \in Nat
    BY <1>1, Sorts
  <2>. QED
    BY <1>2, <1>3, <1>4, <1>6, <2>1 DEF LotsVisited, Drawn, OpenLots
<1>. QED
  BY <1>5, <1>6

\* One round of the loop: what is taken is no longer needed, and a transfer
\* opens it again at the destination.
LEMMA TakeLots ==
  ASSUME IInv, OnlyGuarded, NEW t \in Tx, TakeFromLot(t), LotsVisited(t), Opened(t)
  PROVE  LotsVisited(t)' /\ Opened(t)'
<1>1. TypeOK /\ LotsNeverOverdrawn /\ DrawsCovered /\ OnPlan(t)
  BY DEF IInv
<1>2. PICK l \in Oldest(queue[t]) :
          /\ queue' = [queue EXCEPT ![t] = @ \ {l}]
          /\ draw' = [draw EXCEPT ![t][l] = TakenFrom(t, l)]
          /\ need' = [need EXCEPT ![t] = @ - TakenFrom(t, l)]
          /\ mint' = IF req[t].kind = "transfer"
                     THEN [mint EXCEPT ![t] =
                             Append(@, NewLot(req[t].to, lots[l].age, TakenFrom(t, l)))]
                     ELSE mint
  BY DEF TakeFromLot
<1>3. /\ lots' = lots /\ req' = req /\ pc[t] = "take" /\ pc' = [pc EXCEPT ![t] = "take"]
      /\ need[t] > 0 /\ pc \in [Tx -> Steps]
  BY <1>1, Sorts DEF TakeFromLot, Run, committed
<1>4. l \in queue[t] /\ l \in DOMAIN draw[t] /\ l \in DOMAIN lots
  BY <1>1, <1>2, <1>3, DrawnNumber DEF Oldest, DrawsCovered
<1>. DEFINE n == TakenFrom(t, l)
<1>5. n \in Nat /\ n <= lots[l].left /\ n <= need[t] /\ need[t] - n \in Nat
  BY <1>1, <1>4, TakenBounds
<1>6. need[t] - n > 0 => n = lots[l].left
  BY <1>1, <1>4, <1>5, Sorts DEF TakenFrom
<1>. HIDE DEF n
<1>7. /\ queue'[t] = queue[t] \ {l}
      /\ DOMAIN draw'[t] = DOMAIN draw[t] /\ draw'[t][l] = n
      /\ \A m \in DOMAIN draw[t] \ {l} : draw'[t][m] = draw[t][m]
      /\ need'[t] = need[t] - n
  <2>1. draw' = [draw EXCEPT ![t] = [draw[t] EXCEPT ![l] = n]]
    BY <1>2 DEF n
  <2>. QED
    BY <1>1, <1>2, <1>4, <2>1, Sorts DEF n
<1>8. draw[t][l] = 0
  BY <1>4 DEF LotsVisited
<1>9. Drawn(t)' = Drawn(t) + n /\ Drawn(t) \in Nat
  <2>. DEFINE f == draw[t]
              g == draw'[t]
  <2>1. \A m \in DOMAIN f : f[m] \in Int /\ g[m] \in Int
    BY <1>1, <1>5, <1>7, DrawnNumber
  <2>2. \A m \in DOMAIN f \ {l} : f[m] = g[m]
    BY <1>7
  <2>3. IsFiniteSet(DOMAIN f) /\ l \in DOMAIN f /\ DOMAIN g = DOMAIN f /\ f[l] = 0 /\ g[l] = n
    BY <1>1, <1>4, <1>7, <1>8, DrawnNumber
  <2>4. Drawn(t) = SumFunctionOnSet(f, DOMAIN f) /\ Drawn(t) \in Nat
    BY <1>1, DrawnNumber
  <2>5. Drawn(t)' = SumFunctionOnSet(g, DOMAIN g)
    BY DEF Drawn, SumFunction
  <2>. HIDE DEF f, g
  <2>6. SumFunctionOnSet(g, DOMAIN f) = SumFunctionOnSet(f, DOMAIN f) - f[l] + g[l]
    BY <2>1, <2>2, <2>3, SumChange
  <2>. QED
    BY <1>5, <2>3, <2>4, <2>5, <2>6
<1>10. LotsVisited(t)'
  <2>1. DOMAIN draw'[t] = OpenLots(req[t].from)'
    BY <1>3, <1>7 DEF LotsVisited, OpenLots
  <2>2. \A m \in queue'[t] : draw'[t][m] = 0
    <3>1. queue[t] \subseteq DOMAIN draw[t]
      BY <1>1, <1>3 DEF DrawsCovered
    <3>. QED
      BY <1>7, <3>1 DEF LotsVisited
  <2>3. need'[t] > 0 => \A m \in DOMAIN draw'[t] \ queue'[t] : draw'[t][m] = lots[m].left
    BY <1>3, <1>6, <1>7 DEF LotsVisited
  <2>4. need'[t] + Drawn(t)' = need[t] + Drawn(t)
    <3>1. need[t] \in Nat
      BY <1>1, Sorts
    <3>. QED
      BY <1>5, <1>7, <1>9, <3>1
  <2>. QED
    BY <1>3, <2>1, <2>2, <2>3, <2>4 DEF LotsVisited
<1>11. Opened(t)'
  <2>1. CASE req[t].kind = "transfer"
    <3>. DEFINE e == NewLot(req[t].to, lots[l].age, n)
    <3>1. e \in Lot /\ e.branch = req[t].to /\ e.left = n
      <4>1. lots[l].age \in Nat /\ req[t].to \in Branches /\ n \in Int
        BY <1>1, <1>4, <1>5, Sorts
      <4>. QED
        BY <4>1, NewLotType DEF NewLot
    <3>2. mint[t] \in Seq(Lot) /\ mint'[t] = Append(mint[t], e)
      BY <1>1, <1>2, <2>1, Sorts DEF n
    <3>3. req[t].kind \notin Arrivals
      BY <2>1 DEF Arrivals, Trimming, Restocking
    <3>. HIDE DEF e
    <3>4. \A k \in DOMAIN mint[t] : mint[t][k].branch = req[t].to
      BY <3>3 DEF Opened
    <3>5. \A k \in DOMAIN mint'[t] : mint'[t][k].branch = req[t].to
      BY <3>1, <3>2, <3>4
    <3>6. UnitsIn(mint[t], req[t].to) = Drawn(t)
      BY <2>1, <3>3 DEF Opened
    <3>7. UnitsIn(mint'[t], req[t].to) = Drawn(t) + n
      BY <3>1, <3>2, <3>6, UnitsAppend
    <3>. QED
      BY <1>3, <1>9, <2>1, <3>3, <3>5, <3>7 DEF Opened
  <2>2. CASE req[t].kind # "transfer"
    <3>1. mint'[t] = mint[t] /\ pc'[t] = pc[t]
      BY <1>2, <1>3, <2>2
    <3>. QED
      BY <1>3, <2>2, <3>1 DEF Opened
  <2>. QED
    BY <2>1, <2>2
<1>. QED
  BY <1>10, <1>11

\* When the loop ends nothing is left to take: the lots hold the shelf, and the
\* shelf had enough.
LEMMA NothingLeftToTake ==
  ASSUME IInv, OnlyGuarded, LotsMatchStock, NEW t \in Tx, FinishTaking(t), LotsVisited(t)
  PROVE  need[t] = 0
<1>1. TypeOK /\ LotsNeverOverdrawn /\ OnPlan(t) /\ ShelfPromised(t)
  BY DEF IInv
<1>2. pc[t] = "take" /\ (need[t] = 0 \/ queue[t] = {})
  BY DEF FinishTaking, Run
<1>3. need[t] \in Nat /\ Drawn(t) \in Nat /\ req[t].qty \in Nat /\ req[t].from \in Branches
  BY <1>1, Sorts, DrawnNumber
<1>4. CASE req[t].kind \in Trimming
  <2>1. need[t] + Drawn(t) = 0
    BY <1>4 DEF LotsVisited
  <2>. QED
    BY <1>3, <2>1
<1>5. CASE req[t].kind \notin Trimming
  <2>0. SUFFICES ASSUME need[t] > 0 PROVE FALSE
    BY <1>3
  <2>1. req[t].qty <= stock[req[t].from]
    <3>1. req[t].kind \in Guarded
      BY <1>1, <1>2, <1>5 DEF OnPlan, OnlyGuarded, Withdrawals
    <3>. QED
      BY <1>1, <1>2, <3>1 DEF ShelfPromised
  <2>2. DOMAIN draw[t] = OpenLots(req[t].from) /\ \A l \in DOMAIN draw[t] : draw[t][l] = lots[l].left
    BY <1>2, <2>0 DEF LotsVisited
  <2>3. Drawn(t) = UnitsInLots(req[t].from)
    <3>. DEFINE f == [l \in OpenLots(req[t].from) |-> lots[l].left]
    <3>1. \A l \in DOMAIN draw[t] : draw[t][l] = f[l]
      BY <2>2
    <3>2. SumFunctionOnSet(f, DOMAIN draw[t]) = UnitsInLots(req[t].from)
      BY <1>1, <2>2, OpenUnits
    <3>. HIDE DEF f
    <3>3. SumFunctionOnSet(draw[t], DOMAIN draw[t]) = SumFunctionOnSet(f, DOMAIN draw[t])
      BY <1>1, <3>1, DrawnNumber, SumEqual
    <3>. QED
      BY <1>1, <3>2, <3>3, DrawnNumber
  <2>4. Drawn(t) = stock[req[t].from]
    BY <1>3, <2>3 DEF LotsMatchStock
  <2>5. need[t] + Drawn(t) = req[t].qty
    BY <1>5 DEF LotsVisited
  <2>. QED
    BY <1>3, <2>0, <2>1, <2>4, <2>5
<1>. QED
  BY <1>4, <1>5

\* The loop ends: what was taken is the document's quantity, and the lots the
\* document inserted stay as they are.
LEMMA FinishLots ==
  ASSUME IInv, OnlyGuarded, LotsMatchStock, NEW t \in Tx, FinishTaking(t), LotsVisited(t), Opened(t)
  PROVE  Taken(t)' /\ Opened(t)'
<1>1. TypeOK /\ OnPlan(t)
  BY DEF IInv
<1>2. need[t] = 0
  BY NothingLeftToTake
<1>3. /\ lots' = lots /\ req' = req /\ draw' = draw /\ held' = held /\ pc[t] = "take"
      /\ pc' = [pc EXCEPT ![t] = AfterTake(req[t].kind)]
      /\ pc'[t] = AfterTake(req[t].kind)
      /\ mint' = CASE req[t].kind = "transfer" /\ need[t] > 0 ->
                    [mint EXCEPT ![t] =
                       Append(@, NewLot(req[t].to, Len(lots) + 1, need[t]))]
               [] req[t].kind \in Trimming ->
                    [mint EXCEPT ![t][1].left =
                       IF need[t] < @ THEN @ - need[t] ELSE 0]
               [] OTHER -> mint
  BY <1>1, Sorts DEF FinishTaking, Run, committed
<1>4. \A l \in DOMAIN draw[t] : lots[l].branch = req[t].from
  BY DEF LotsVisited, OpenLots
<1>5. Drawn(t) = IF req[t].kind \in Trimming THEN 0 ELSE req[t].qty
  BY <1>1, <1>2, DrawnNumber DEF LotsVisited
<1>6. CASE req[t].kind \in Trimming
  <2>1. req[t].kind \in Arrivals /\ req[t].kind \notin Guarded /\ req[t].kind # "transfer"
    BY <1>1, <1>6, GuardedOrArrival
  <2>2. LotsDone(t)' /\ pc'[t] = "commit"
    BY <1>3, <1>4, <1>5, <1>6, <2>1 DEF LotsDone, Drawn, AfterTake
  <2>3. /\ mint[t] \in Seq(Lot) /\ Len(mint[t]) = 1
        /\ mint[t][1].branch = req[t].from /\ mint[t][1].left = req[t].qty
    BY <1>1, <1>3, <2>1, Sorts DEF Opened
  <2>4. req[t].qty \in Nat /\ req[t].qty > 0
    BY <1>1, Sorts
  <2>5. mint'[t] = [mint[t] EXCEPT ![1] = [mint[t][1] EXCEPT !.left =
                       IF need[t] < mint[t][1].left THEN mint[t][1].left - need[t] ELSE 0]]
    <3>1. mint' = [mint EXCEPT ![t] = [mint[t] EXCEPT ![1] = [mint[t][1] EXCEPT !.left =
                       IF need[t] < mint[t][1].left THEN mint[t][1].left - need[t] ELSE 0]]]
      BY <1>3, <1>6, <2>1
    <3>. QED
      BY <1>1, <3>1, Sorts
  <2>6. 1 \in DOMAIN mint[t] /\ mint[t][1] \in Lot
    BY <2>3
  <2>7. (IF need[t] < mint[t][1].left THEN mint[t][1].left - need[t] ELSE 0) = req[t].qty
    BY <1>2, <2>3, <2>4
  <2>8. /\ mint'[t][1] = [mint[t][1] EXCEPT !.left = req[t].qty]
        /\ DOMAIN mint'[t] = DOMAIN mint[t] /\ Len(mint'[t]) = 1
    BY <2>3, <2>5, <2>6, <2>7
  <2>9. mint'[t][1].branch = req[t].from /\ mint'[t][1].left = req[t].qty
    BY <2>3, <2>4, <2>6, <2>8, LotRewritten
  <2>10. Opened(t)'
    BY <1>3, <2>1, <2>2, <2>8, <2>9 DEF Opened
  <2>. QED
    BY <2>2, <2>10 DEF Taken
<1>7. CASE req[t].kind \notin Trimming
  <2>1. req[t].kind \in Guarded /\ req[t].kind \notin Arrivals
    BY <1>1, <1>3, <1>7, GuardedOrArrival DEF OnPlan, OnlyGuarded, Withdrawals
  <2>2. mint' = mint
    BY <1>2, <1>3, <1>7
  <2>3. LotsDone(t)' /\ pc'[t] = "stock"
    BY <1>3, <1>4, <1>5, <1>7, <2>1 DEF LotsDone, Drawn, AfterTake
  <2>4. Opened(t)'
    BY <1>3, <2>1, <2>2, <2>3 DEF Opened, Drawn
  <2>. QED
    BY <1>3, <2>1, <2>3, <2>4 DEF Taken
<1>. QED
  BY <1>6, <1>7

\* What a transaction's own step does to its account of the lots.
LEMMA OwnLots ==
  ASSUME IInv, OnlyGuarded, LotsMatchStock, NEW t \in Tx, Statement(t) \/ Rollback(t),
         Taken(t), Opened(t)
  PROVE  Taken(t)' /\ Opened(t)'
<1>. USE DEF Run
<1>0. TypeOK /\ OnPlan(t)
  BY DEF IInv
<1>1. /\ req' = req /\ (Commit(t) \/ UNCHANGED committed) /\ pc \in [Tx -> Steps]
      /\ rows \in [Tx -> SUBSET Rows]
  BY <1>0, Frame, Sorts
<1>2. /\ req[t].kind \in Guarded <=> req[t].kind \notin Arrivals
      /\ req[t].kind \in Trimming => req[t].kind \in Arrivals
      /\ req[t].kind = "transfer" => req[t].kind \in Guarded
  BY <1>0, GuardedOrArrival
\* Statements that leave lots, draw, held and mint alone.
<1>3. ASSUME UNCHANGED <<lots, draw, held, mint>>, pc[t] \notin {"gather", "take"},
             pc'[t] \notin {"gather", "take"},
             NoLotsYet(t) => Taken(t)', LotsDone(t) => Taken(t)',
             pc[t] # "mint", pc[t] \notin {"committed", "rolledBack"},
             pc'[t] \notin {"mint", "committed", "rolledBack"}
      PROVE  Taken(t)' /\ Opened(t)'
  <2>1. Taken(t)'
    BY <1>3 DEF Taken
  <2>2. Opened(t)'
    BY <1>1, <1>3 DEF Opened, Drawn
  <2>. QED
    BY <2>1, <2>2
<1>4. CASE LockProduct(t) \/ CheckShelf(t)
  <2>1. /\ UNCHANGED <<lots, draw, held, mint>> /\ pc[t] \in {"lock", "check"}
        /\ pc'[t] \in {"check", "select"}
    BY <1>1, <1>4 DEF LockProduct, CheckShelf, committed, private
  <2>2. NoLotsYet(t) /\ NoLotsYet(t)'
    BY <2>1 DEF Taken, NoLotsYet
  <2>. QED
    BY <1>1, <2>1, <2>2 DEF Taken, Opened, Drawn
<1>5. CASE SelectLots(t)
  <2>1. /\ UNCHANGED <<lots, draw, held, mint>> /\ pc[t] = "select" /\ pc'[t] = "gather"
        /\ queue'[t] = OpenLots(req[t].from)
    BY <1>0, <1>1, <1>5, Sorts DEF SelectLots, committed
  <2>2. draw[t] = <<>> /\ held[t] = 0
    BY <2>1 DEF Taken, NoLotsYet
  <2>3. DOMAIN draw'[t] = {}
    BY <2>1, <2>2
  <2>4. OpenLots(req[t].from)' = OpenLots(req[t].from)
    BY <1>1, <2>1 DEF OpenLots
  <2>5. SumFunction([l \in DOMAIN draw'[t] |-> lots'[l].left]) = 0
    <3>. DEFINE f == [l \in DOMAIN draw'[t] |-> lots'[l].left]
    <3>1. DOMAIN f = {}
      BY <2>3
    <3>. HIDE DEF f
    <3>2. SumFunction(f) = 0
      BY <3>1, SumEmpty DEF SumFunction
    <3>. QED
      BY <3>2 DEF f
  <2>6. LotsFound(t)'
    BY <1>1, <2>1, <2>2, <2>3, <2>4, <2>5 DEF LotsFound
  <2>. QED
    BY <1>1, <2>1, <2>6 DEF Taken, Opened, Drawn
<1>6. CASE GatherLot(t)
  <2>1. pc[t] = "gather" /\ pc' = pc /\ mint' = mint
    BY <1>6 DEF GatherLot
  <2>2. LotsFound(t)'
    BY <1>6, <2>1, GatherLots DEF Taken
  <2>3. Opened(t)'
    <3>1. CASE req[t].kind \in Arrivals
      BY <1>1, <2>1, <3>1 DEF Opened
    <3>2. CASE req[t].kind \notin Arrivals
      <4>1. Drawn(t) = 0
        BY <1>0, <2>1, DrawnNumber, SumZero DEF Taken, LotsFound
      <4>2. Drawn(t)' = 0
        <5>1. \A l \in DOMAIN draw'[t] : draw'[t][l] = 0
          BY <2>2 DEF LotsFound
        <5>2. IsFiniteSet(DOMAIN draw'[t])
          <6>1. DOMAIN draw'[t] \subseteq OpenLots(req[t].from)
            BY <1>1, <1>6, <2>2 DEF LotsFound, OpenLots, GatherLot, committed
          <6>2. IsFiniteSet(OpenLots(req[t].from))
            BY OpenUnits DEF IInv
          <6>. QED
            BY <6>1, <6>2, FS_Subset
        <5>. QED
          BY <5>1, <5>2, SumZero DEF Drawn, SumFunction
      <4>. QED
        BY <1>1, <2>1, <3>2, <4>1, <4>2 DEF Opened
    <3>. QED
      BY <3>1, <3>2
  <2>. QED
    BY <2>1, <2>2, <2>3 DEF Taken
<1>7. CASE StartTaking(t)
  <2>1. pc[t] = "gather" /\ pc'[t] = "take" /\ mint' = mint /\ draw' = draw
    BY <1>1, <1>7 DEF StartTaking
  <2>2. LotsVisited(t)'
    BY <1>7, <2>1, StartLots DEF Taken
  <2>3. Opened(t)'
    BY <1>1, <2>1 DEF Opened, Drawn
  <2>. QED
    BY <2>1, <2>2, <2>3 DEF Taken
<1>8. CASE TakeFromLot(t)
  <2>1. pc[t] = "take" /\ pc'[t] = "take"
    BY <1>1, <1>8 DEF TakeFromLot
  <2>. QED
    BY <1>8, <2>1, TakeLots DEF Taken
<1>9. CASE FinishTaking(t)
  <2>1. pc[t] = "take"
    BY <1>9 DEF FinishTaking
  <2>. QED
    BY <1>9, <2>1, FinishLots DEF Taken
<1>10. CASE MintLot(t)
  <2>. DEFINE e == NewLot(req[t].from, Len(lots) + 1, req[t].qty)
  <2>1. /\ UNCHANGED <<lots, draw, held>> /\ pc[t] = "mint" /\ pc'[t] = "stock"
        /\ mint'[t] = Append(mint[t], e)
    BY <1>0, <1>1, <1>10, Sorts DEF MintLot, committed
  <2>2. req[t].kind \in Arrivals
    BY <1>0, <2>1 DEF OnPlan
  <2>3. mint[t] = <<>> /\ NoLotsYet(t)
    BY <2>1, <2>2 DEF Opened, Taken
  <2>4. Len(mint'[t]) = 1 /\ mint'[t][1] = e
    BY <2>1, <2>3
  <2>5. e.branch = req[t].from /\ e.left = req[t].qty
    BY DEF NewLot
  <2>. HIDE DEF e
  <2>6. Opened(t)'
    BY <1>1, <2>1, <2>2, <2>4, <2>5 DEF Opened
  <2>7. Taken(t)'
    BY <1>1, <1>2, <2>1, <2>2, <2>3 DEF Taken, NoLotsYet
  <2>. QED
    BY <2>6, <2>7
<1>11. CASE WriteStock(t) \/ WriteDestination(t)
  <2>1. /\ UNCHANGED <<lots, draw, held, mint>>
        /\ \/ pc[t] = "stock" /\ pc'[t] = "quantity"
           \/ pc[t] = "arrive" /\ pc'[t] = "commit" /\ req[t].kind = "transfer"
    BY <1>0, <1>1, <1>11 DEF WriteStock, WriteDestination, committed, OnPlan
  <2>2. Taken(t)'
    BY <1>1, <1>2, <2>1 DEF Taken, LotsDone, NoLotsYet, Drawn
  <2>. QED
    BY <1>3, <2>1, <2>2
<1>12. CASE WriteQuantity(t)
  <2>1. /\ UNCHANGED <<lots, draw, held, mint>> /\ pc[t] = "quantity"
        /\ pc'[t] = AfterQuantity(req[t].kind)
    BY <1>1, <1>12 DEF WriteQuantity, committed
  <2>2. pc'[t] \in {"arrive", "select", "commit"}
    BY <2>1 DEF AfterQuantity
  <2>3. CASE req[t].kind \in Guarded
    <3>1. pc'[t] \in {"arrive", "commit"} /\ LotsDone(t)
      BY <1>2, <2>1, <2>3 DEF AfterQuantity, Taken
    <3>2. LotsDone(t)'
      BY <1>1, <2>1, <3>1 DEF LotsDone, Drawn
    <3>3. Taken(t)'
      BY <1>1, <2>3, <3>1, <3>2 DEF Taken
    <3>. QED
      BY <1>3, <2>1, <3>1, <3>3
  <2>4. CASE req[t].kind \notin Guarded
    <3>1. pc'[t] \in {"select", "commit"} /\ NoLotsYet(t)
      BY <1>2, <2>1, <2>4 DEF AfterQuantity, Taken
    <3>2. NoLotsYet(t)' /\ LotsDone(t)'
      <4>1. NoLotsYet(t)'
        BY <2>1, <3>1 DEF NoLotsYet
      <4>2. Drawn(t) = 0 /\ DOMAIN draw[t] = {}
        BY <1>0, <3>1, DrawnNumber DEF NoLotsYet
      <4>3. LotsDone(t)'
        BY <1>1, <2>1, <2>4, <4>2 DEF LotsDone, Drawn
      <4>. QED
        BY <4>1, <4>3
    <3>3. Taken(t)'
      BY <1>1, <2>4, <3>1, <3>2 DEF Taken
    <3>. QED
      BY <1>3, <2>1, <3>1, <3>3
  <2>. QED
    BY <2>3, <2>4
<1>13. CASE Commit(t) \/ Rollback(t)
  <2>1. /\ pc'[t] \in {"committed", "rolledBack"} /\ draw'[t] = <<>> /\ held'[t] = 0
        /\ mint'[t] = <<>>
    BY <1>0, <1>1, <1>13, Sorts DEF Commit, Rollback, Release
  <2>2. Taken(t)'
    BY <2>1 DEF Taken, NoLotsYet
  <2>3. Drawn(t)' = 0
    <3>1. DOMAIN <<>> = {}
      OBVIOUS
    <3>. QED
      BY <2>1, <3>1, SumEmpty DEF Drawn, SumFunction
  <2>4. UnitsIn(mint'[t], req[t].to) = 0
    <3>1. <<>> \in Seq(Lot) /\ DOMAIN <<>> = {}
      OBVIOUS
    <3>. QED
      BY <2>1, <3>1, UnitsNone
  <2>5. Opened(t)'
    BY <1>1, <2>1, <2>3, <2>4 DEF Opened
  <2>. QED
    BY <2>2, <2>5
<1>. QED
  BY <1>4, <1>5, <1>6, <1>7, <1>8, <1>9, <1>10, <1>11, <1>12, <1>13 DEF Statement

\* A commit changes a branch's lots as it changes its shelf.
LEMMA CommitKeepsMatch ==
  ASSUME IInv, OnlyGuarded, LotsMatchStock, NEW t \in Tx, Commit(t), Taken(t), Opened(t),
         NEW b \in Branches
  PROVE  UnitsInLots(b)' = stock'[b]
<1>1. TypeOK
  BY DEF IInv
<1>2. pc[t] = "commit" /\ stock'[b] = stock[b] + StockDelta(req[t], b)
  BY CommitWrites
<1>3. LotsDone(t)
  BY <1>2 DEF Taken
<1>4. /\ UnitsInLots(b)' = UnitsInLots(b) - (IF b = req[t].from THEN Drawn(t) ELSE 0)
                                + UnitsIn(mint[t], b)
      /\ Drawn(t) \in Nat
  BY <1>1, <1>3, CommitUnits DEF LotsDone
<1>5. UnitsInLots(b) = stock[b] /\ stock[b] \in Int
  BY <1>1, Sorts DEF LotsMatchStock
<1>6. Drawn(t) = IF req[t].kind \in Guarded THEN req[t].qty ELSE 0
  BY <1>3 DEF LotsDone
<1>7. req[t].qty \in Int /\ mint[t] \in Seq(Lot)
  BY <1>1, Sorts
<1>8. CASE req[t].kind \in Arrivals
  <2>1. Len(mint[t]) = 1 /\ mint[t][1].branch = req[t].from /\ mint[t][1].left = req[t].qty
    BY <1>2, <1>8 DEF Opened
  <2>2. UnitsIn(mint[t], b) = IF req[t].from = b THEN req[t].qty ELSE 0
    BY <1>7, <2>1, UnitsOne
  <2>3. req[t].kind # "transfer" /\ req[t].kind \notin Guarded
    BY <1>8 DEF Arrivals, Trimming, Restocking, Guarded
  <2>4. StockDelta(req[t], b) = IF b = req[t].from THEN req[t].qty ELSE 0
    BY <1>7, <1>8, <2>3, OneShelf
  <2>. QED
    BY <1>2, <1>4, <1>5, <1>6, <1>7, <2>2, <2>3, <2>4
<1>9. CASE req[t].kind = "transfer"
  <2>1. /\ req[t].kind \notin Arrivals /\ req[t].kind \in Guarded /\ req[t].from # req[t].to
    BY <1>1, <1>9, GuardedOrArrival
  <2>2. /\ \A k \in DOMAIN mint[t] : mint[t][k].branch = req[t].to
        /\ UnitsIn(mint[t], req[t].to) = Drawn(t)
    BY <1>9, <2>1 DEF Opened
  <2>3. StockDelta(req[t], b)
          = IF b = req[t].from THEN -req[t].qty ELSE IF b = req[t].to THEN req[t].qty ELSE 0
    BY <1>7, <1>9, <2>1, TwoShelves
  <2>4. b # req[t].to => UnitsIn(mint[t], b) = 0
    BY <1>7, <2>2, UnitsNone
  <2>. QED
    BY <1>2, <1>4, <1>5, <1>6, <1>7, <2>1, <2>2, <2>3, <2>4
<1>10. CASE req[t].kind \notin Arrivals /\ req[t].kind # "transfer"
  <2>1. mint[t] = <<>> /\ req[t].kind \in Guarded
    BY <1>1, <1>10, GuardedOrArrival DEF Opened
  <2>2. DOMAIN mint[t] = {}
    BY <2>1
  <2>3. UnitsIn(mint[t], b) = 0
    BY <1>7, <2>2, UnitsNone
  <2>4. StockDelta(req[t], b) = IF b = req[t].from THEN -req[t].qty ELSE 0
    BY <1>7, <1>10, OneShelf
  <2>. QED
    BY <1>2, <1>4, <1>5, <1>6, <1>7, <2>1, <2>3, <2>4
<1>. QED
  BY <1>8, <1>9, <1>10

\* Every step keeps the account of the lots.
LEMMA StepLotsInv ==
  ASSUME IInv, LotsInv, NEW t \in Tx, Statement(t) \/ Rollback(t)
  PROVE  LotsInv'
<1>1. TypeOK
  BY DEF IInv
<1>2. req' = req /\ (Commit(t) \/ UNCHANGED committed)
  BY <1>1, Frame
<1>3. OnlyGuarded' = OnlyGuarded
  BY <1>2 DEF OnlyGuarded
<1>4. CASE ~OnlyGuarded
  BY <1>3, <1>4 DEF LotsInv, LotsMatchStock
<1>5. CASE OnlyGuarded
  <2>1. LotsMatchStock /\ \A u \in Tx : Taken(u) /\ Opened(u)
    BY <1>5 DEF LotsInv
  <2>2. Taken(t)' /\ Opened(t)'
    BY <1>5, <2>1, OwnLots
  <2>3. \A u \in Tx \ {t} : Taken(u)' /\ Opened(u)'
    BY <1>5, <2>1, OthersKeepLots
  <2>4. LotsMatchStock'
    <3>1. CASE UNCHANGED committed
      BY <1>3, <2>1, <3>1 DEF committed, LotsMatchStock, UnitsInLots
    <3>2. CASE Commit(t)
      BY <1>5, <2>1, <3>2, CommitKeepsMatch DEF LotsMatchStock
    <3>. QED
      BY <1>2, <3>1, <3>2
  <2>. QED
    BY <2>2, <2>3, <2>4 DEF LotsInv
<1>. QED
  BY <1>4, <1>5

\* While only documents that lock the product first take from the shelf, its
\* open lots hold exactly its stock, if they did at the start.
THEOREM LotsMatchStockThm ==
  ASSUME OpeningBacked
  PROVE  Spec => []LotsMatchStock
<1>1. Init => LotsInv
  <2>. SUFFICES ASSUME Init PROVE LotsInv
    OBVIOUS
  <2>1. LotsMatchStock
    BY DEF Init, OpeningBacked, LotsMatchStock, UnitsInLots
  <2>2. ASSUME NEW t \in Tx, OnlyGuarded PROVE Taken(t) /\ Opened(t)
    <3>1. /\ draw[t] = <<>> /\ held[t] = 0 /\ mint[t] = <<>> /\ pc[t] = FirstStep(req[t].kind)
      BY DEF Init
    <3>2. TypeOK
      BY InitTypeOK
    <3>3. IF req[t].kind \in Arrivals THEN pc[t] = "mint" ELSE pc[t] = "lock"
      BY <2>2, <3>1, <3>2, GuardedOrArrival DEF FirstStep, OnlyGuarded
    <3>4. Drawn(t) = 0
      BY <3>1, <3>2, DrawnNumber
    <3>5. UnitsIn(mint[t], req[t].to) = 0
      <4>1. <<>> \in Seq(Lot) /\ DOMAIN <<>> = {}
        OBVIOUS
      <4>. QED
        BY <3>1, <4>1, UnitsNone
    <3>6. Taken(t)
      BY <3>1, <3>3 DEF Taken, NoLotsYet
    <3>7. Opened(t)
      BY <3>1, <3>3, <3>4, <3>5 DEF Opened
    <3>. QED
      BY <3>6, <3>7
  <2>. QED
    BY <2>1, <2>2 DEF LotsInv
<1>2. IInv /\ LotsInv /\ [Next]_vars => LotsInv'
  <2>. SUFFICES ASSUME IInv, LotsInv, [Next]_vars PROVE LotsInv'
    OBVIOUS
  <2>1. CASE Next
    BY <2>1, NextSteps, StepLotsInv
  <2>2. CASE UNCHANGED vars
    <3>1. UNCHANGED <<lots, stock, req, pc, queue, draw, held, need, mint>>
      BY <2>2 DEF vars, committed, private
    <3>2. LotsMatchStock' = LotsMatchStock /\ OnlyGuarded' = OnlyGuarded
      BY <3>1 DEF LotsMatchStock, OnlyGuarded, UnitsInLots
    <3>3. \A t \in Tx : Opened(t)' = Opened(t)
      BY <3>1 DEF Opened, Drawn
    <3>4. ASSUME NEW t \in Tx PROVE Taken(t)' = Taken(t)
      <4>1. LotsFound(t)' = LotsFound(t)
        BY <3>1 DEF LotsFound, OpenLots
      <4>2. LotsVisited(t)' = LotsVisited(t)
        BY <3>1 DEF LotsVisited, OpenLots, Drawn
      <4>3. LotsDone(t)' = LotsDone(t) /\ NoLotsYet(t)' = NoLotsYet(t)
        BY <3>1 DEF LotsDone, NoLotsYet, Drawn
      <4>. QED
        BY <3>1, <4>1, <4>2, <4>3 DEF Taken
    <3>. QED
      BY <3>2, <3>3, <3>4 DEF LotsInv
  <2>. QED
    BY <2>1, <2>2
<1>3. LotsInv => LotsMatchStock
  BY DEF LotsInv
<1>. QED
  BY Inductive, <1>1, <1>2, <1>3, PTL DEF Spec

------------------------------------------------------------------------------
\* Commits move no lot: its branch and its age stay.
LEMMA LotsStay ==
  ASSUME TypeOK, NEW t \in Tx, Statement(t) \/ Rollback(t), NEW l \in DOMAIN lots
  PROVE  l \in DOMAIN lots' /\ lots'[l].branch = lots[l].branch /\ lots'[l].age = lots[l].age
<1>1. CASE Commit(t)
  <2>1. /\ lots' = Debited(t) \o mint[t] /\ Debited(t) \in Seq(Lot) /\ mint[t] \in Seq(Lot)
        /\ Len(Debited(t)) = Len(lots)
    BY <1>1, DebitedLots, Sorts DEF Commit, Debited
  <2>2. l \in 1 .. Len(lots) /\ Len(lots) \in Nat /\ Len(mint[t]) \in Nat
    BY <2>1, Sorts
  <2>3. lots'[l] = Debited(t)[l] /\ l \in DOMAIN lots'
    BY <2>1, <2>2, Concatenated
  <2>. QED
    BY <2>3, DebitedLots
<1>2. CASE UNCHANGED committed
  BY <1>2 DEF committed
<1>. QED
  BY <1>1, <1>2, Frame

\* Every step keeps the order of the locks.
LEMMA StepLocksInOrder ==
  ASSUME TypeOK, NEW t \in Tx, OnPlan(t), Statement(t) \/ Rollback(t), LocksInOrder
  PROVE  LocksInOrder'
<1>. USE DEF Run
<1>1. /\ req' = req /\ pc \in [Tx -> Steps] /\ rows \in [Tx -> SUBSET Rows]
      /\ queue \in [Tx -> SUBSET (DOMAIN lots)]
      /\ LotsInOrder(t) /\ RowsLast(t) /\ Product \notin Branches /\ req[t].from \in Branches
  BY Frame, Sorts, OpeningAssumption DEF LocksInOrder
<1>2. \A u \in Tx : \A l \in DOMAIN draw[u] \cup queue[u] :
        /\ lots'[l].branch = lots[l].branch /\ lots'[l].age = lots[l].age
  <2>1. \A u \in Tx : DOMAIN draw[u] \subseteq DOMAIN lots
    BY DEF TypeOK, LoopOK
  <2>. QED
    BY <1>1, <2>1, LotsStay
<1>3. ASSUME NEW u \in Tx \ {t} PROVE LotsInOrder(u)' /\ RowsLast(u)'
  <2>1. /\ pc'[u] = pc[u] /\ rows'[u] = rows[u] /\ queue'[u] = queue[u] /\ draw'[u] = draw[u]
        /\ LotsInOrder(u) /\ RowsLast(u)
    BY Frame DEF LocksInOrder
  <2>2. RowsLast(u)'
    BY <1>1, <2>1 DEF RowsLast
  <2>3. LotsInOrder(u)'
    BY <1>1, <1>2, <2>1 DEF LotsInOrder
  <2>. QED
    BY <2>2, <2>3
<1>4. RowsLast(t)'
  <2>. SUFFICES ASSUME req[t].kind \in Unguarded \cup Restocking
                PROVE  /\ rows'[t] # {} => pc'[t] \in {"quantity", "commit"}
                       /\ Product \in rows'[t] => pc'[t] = "commit"
    BY <1>1 DEF RowsLast
  <2>1. req[t].kind \notin Guarded \cup Trimming /\ req[t].kind # "transfer"
    BY DEF Unguarded, Restocking, Guarded, Trimming
  <2>2. /\ rows[t] # {} => pc[t] \in {"quantity", "commit"}
        /\ Product \in rows[t] => pc[t] = "commit"
    BY <1>1 DEF RowsLast
  <2>3. pc[t] \notin {"lock", "check", "arrive"}
    BY <2>1 DEF OnPlan
  <2>4. CASE WriteStock(t)
    BY <1>1, <2>2, <2>4 DEF WriteStock
  <2>5. CASE WriteQuantity(t)
    BY <1>1, <2>1, <2>5 DEF WriteQuantity, AfterQuantity
  <2>6. CASE Commit(t) \/ Rollback(t)
    BY <1>1, <2>6 DEF Commit, Rollback, Release
  <2>7. CASE rows' = rows /\ pc[t] \notin {"quantity", "commit"}
    BY <2>2, <2>7
  <2>. QED
    BY <2>3, <2>4, <2>5, <2>6, <2>7
       DEF Statement, LockProduct, CheckShelf, SelectLots, GatherLot, StartTaking,
           TakeFromLot, FinishTaking, MintLot, WriteDestination
<1>5. LotsInOrder(t)'
  <2>1. CASE GatherLot(t)
    <3>1. PICK l \in Oldest(queue[t]) :
            /\ queue' = [queue EXCEPT ![t] = @ \ {l}]
            /\ IF lots[l].left > 0
               THEN /\ draw' = [draw EXCEPT ![t] = [m \in DOMAIN @ \cup {l} |->
                                                      IF m = l THEN 0 ELSE @[m]]]
                    /\ held' = [held EXCEPT ![t] = @ + lots[l].left]
               ELSE UNCHANGED <<draw, held>>
      BY <2>1 DEF GatherLot
    <3>2. pc[t] = "gather" /\ pc' = pc /\ lots' = lots
      BY <2>1 DEF GatherLot, committed
    <3>3. queue'[t] = queue[t] \ {l} /\ l \in queue[t] /\ DOMAIN draw = Tx
      BY <1>1, <3>1, Sorts DEF Oldest
    <3>4. \A m \in queue[t] : lots[l].age <= lots[m].age
      BY <3>1 DEF Oldest
    <3>5. DOMAIN draw'[t] \subseteq DOMAIN draw[t] \cup {l}
      <4>1. CASE lots[l].left > 0
        <5>1. draw'[t] = [m \in DOMAIN draw[t] \cup {l} |-> IF m = l THEN 0 ELSE draw[t][m]]
          BY <3>1, <3>3, <4>1
        <5>. QED
          BY <5>1
      <4>2. CASE ~(lots[l].left > 0)
        BY <3>1, <4>2
      <4>. QED
        BY <4>1, <4>2
    <3>. QED
      BY <1>1, <3>2, <3>3, <3>4, <3>5 DEF LotsInOrder
  <2>2. CASE SelectLots(t)
    <3>1. /\ pc[t] = "select" /\ pc'[t] = "gather" /\ draw' = draw /\ lots' = lots
          /\ queue'[t] = OpenLots(req[t].from)
      BY <1>1, <2>2 DEF SelectLots, committed
    <3>2. DOMAIN draw'[t] = {}
      BY <1>1, <3>1 DEF LotsInOrder
    <3>. QED
      BY <1>1, <3>1, <3>2 DEF LotsInOrder, OpenLots
  <2>3. CASE Commit(t) \/ Rollback(t)
    <3>1. pc'[t] \in {"committed", "rolledBack"}
      BY <1>1, <2>3 DEF Commit, Rollback
    <3>. QED
      BY <3>1 DEF LotsInOrder
  <2>4. CASE LockProduct(t) \/ CheckShelf(t) \/ MintLot(t) \/ WriteStock(t)
    <3>1. /\ draw' = draw /\ lots' = lots /\ queue' = queue
          /\ \/ pc[t] \in {"lock", "check"} /\ pc'[t] \in {"check", "select"}
             \/ pc[t] = "mint" /\ pc'[t] = "stock"
             \/ pc[t] = "stock" /\ pc'[t] = "quantity"
      BY <1>1, <2>4 DEF LockProduct, CheckShelf, MintLot, WriteStock, committed, private
    <3>. QED
      BY <1>1, <3>1 DEF LotsInOrder
  <2>5. CASE WriteQuantity(t)
    <3>1. /\ draw' = draw /\ pc[t] = "quantity" /\ pc'[t] = AfterQuantity(req[t].kind)
      BY <1>1, <2>5 DEF WriteQuantity
    <3>2. CASE req[t].kind \in Trimming
      <4>1. req[t].kind \in Arrivals
        BY <3>2 DEF Arrivals
      <4>. QED
        BY <1>1, <3>1, <3>2, <4>1 DEF LotsInOrder, AfterQuantity, Trimming
    <3>3. CASE req[t].kind \notin Trimming
      <4>1. pc'[t] \in {"arrive", "commit"}
        BY <3>1, <3>3 DEF AfterQuantity
      <4>. QED
        BY <4>1 DEF LotsInOrder
    <3>. QED
      BY <3>2, <3>3
  <2>6. CASE StartTaking(t) \/ TakeFromLot(t) \/ WriteDestination(t)
    <3>1. pc'[t] \in {"take", "commit"}
      BY <1>1, <2>6 DEF StartTaking, TakeFromLot, WriteDestination
    <3>. QED
      BY <3>1 DEF LotsInOrder
  <2>7. CASE FinishTaking(t)
    <3>1. pc[t] = "take" /\ pc'[t] = AfterTake(req[t].kind)
      BY <1>1, <2>7 DEF FinishTaking
    <3>2. pc'[t] = "commit" \/ (pc'[t] = "stock" /\ req[t].kind \notin Arrivals)
      <4>1. req[t].kind \in Withdrawals \cup Trimming
        BY <3>1 DEF OnPlan
      <4>2. req[t].kind \in Withdrawals => req[t].kind \notin Arrivals
        BY DEF Withdrawals, Guarded, Unguarded, Arrivals, Trimming, Restocking
      <4>3. req[t].kind \in Trimming => pc'[t] = "commit"
        BY <3>1 DEF AfterTake
      <4>4. req[t].kind \notin Trimming => pc'[t] = "stock"
        BY <3>1 DEF AfterTake
      <4>. QED
        BY <4>1, <4>2, <4>3, <4>4
    <3>. QED
      BY <1>1, <3>2 DEF LotsInOrder
  <2>. QED
    BY <2>1, <2>2, <2>3, <2>4, <2>5, <2>6, <2>7 DEF Statement
<1>. QED
  BY <1>3, <1>4, <1>5 DEF LocksInOrder

\* Whom a transaction waits for, statement by statement.
LEMMA BlockersAt ==
  ASSUME NEW t
  PROVE  /\ pc[t] = "mint" => Blockers(t) = Exclusive \ {t}
         /\ pc[t] = "gather" => Blockers(t) = OldestHolders(t) \ {t}
         /\ pc[t] = "stock" => Blockers(t) = Holders(req[t].from) \ {t}
         /\ pc[t] = "quantity" => Blockers(t) = Holders(Product) \ {t}
         /\ pc[t] \notin {"lock", "mint", "gather", "stock", "quantity", "arrive"} => Blockers(t) = {}
<1>1. pc[t] = "mint" => Blockers(t) = Exclusive \ {t}
  BY DEF Blockers
<1>2. pc[t] = "gather" => Blockers(t) = OldestHolders(t) \ {t}
  BY DEF Blockers
<1>3. pc[t] = "stock" => Blockers(t) = Holders(req[t].from) \ {t}
  BY DEF Blockers
<1>4. pc[t] = "quantity" => Blockers(t) = Holders(Product) \ {t}
  BY DEF Blockers
<1>5. pc[t] \notin {"lock", "mint", "gather", "stock", "quantity", "arrive"} => Blockers(t) = {}
  BY DEF Blockers
<1>. QED
  BY <1>1, <1>2, <1>3, <1>4, <1>5

\* Where the transactions of a cycle are: all of them wait for lots.
LEMMA CycleInLots ==
  ASSUME TypeOK, LocksInOrder, NEW C \in SUBSET Tx,
         \A u \in Tx : OnPlan(u),
         \A u \in Tx : req[u].kind \in Unguarded \cup Restocking,
         \A u \in C : /\ Blockers(u) \cap C # {}
                     /\ \E v \in C : u \in Blockers(v),
         NEW u \in C
  PROVE  pc[u] = "gather"
<1>1. \A v \in Tx : /\ pc[v] \notin {"lock", "check", "arrive"}
                    /\ req[v].kind \notin Guarded
                    /\ rows[v] # {} => pc[v] \in {"quantity", "commit"}
                    /\ Product \in rows[v] => pc[v] = "commit"
  <2>. TAKE v \in Tx
  <2>1. req[v].kind \notin Guarded /\ req[v].kind # "transfer"
    BY DEF Unguarded, Restocking, Guarded
  <2>2. OnPlan(v) /\ RowsLast(v)
    BY DEF LocksInOrder
  <2>3. pc[v] \notin {"lock", "check", "arrive"}
    BY <2>1, <2>2 DEF OnPlan
  <2>4. /\ rows[v] # {} => pc[v] \in {"quantity", "commit"}
        /\ Product \in rows[v] => pc[v] = "commit"
    BY <2>2 DEF RowsLast
  <2>. QED
    BY <2>1, <2>3, <2>4
<1>2. \A v \in C : pc[v] # "commit"
  <2>. SUFFICES ASSUME NEW v \in C, pc[v] = "commit" PROVE FALSE
    OBVIOUS
  <2>1. Blockers(v) = {}
    BY BlockersAt
  <2>. QED
    BY <2>1
<1>3. \A v \in C : pc[v] # "quantity"
  <2>. SUFFICES ASSUME NEW v \in C, pc[v] = "quantity" PROVE FALSE
    OBVIOUS
  <2>1. PICK w \in C : w \in Blockers(v)
    OBVIOUS
  <2>2. Product \in rows[w]
    BY <2>1, BlockersAt DEF Holders
  <2>. QED
    BY <1>1, <1>2, <2>2
<1>4. pc[u] # "stock"
  <2>. SUFFICES ASSUME pc[u] = "stock" PROVE FALSE
    OBVIOUS
  <2>1. PICK w \in C : w \in Blockers(u)
    OBVIOUS
  <2>2. w \in Holders(req[u].from)
    BY <2>1, BlockersAt
  <2>3. rows[w] # {}
    BY <2>2 DEF Holders
  <2>. QED
    BY <1>1, <1>2, <1>3, <2>3
<1>5. pc[u] # "mint"
  <2>. SUFFICES ASSUME pc[u] = "mint" PROVE FALSE
    OBVIOUS
  <2>1. PICK w \in C : w \in Blockers(u)
    OBVIOUS
  <2>2. req[w].kind \in Guarded
    BY <2>1, BlockersAt DEF Exclusive
  <2>. QED
    BY <1>1, <2>2
<1>6. pc[u] \in {"lock", "mint", "gather", "stock", "quantity", "arrive"}
  BY BlockersAt
<1>. QED
  BY <1>1, <1>3, <1>4, <1>5, <1>6

\* Sales, returns and stock-take shortages of one product never wait for each
\* other in a circle, however many run, unless two lots of a branch tie.
THEOREM NoDeadlockThm == Spec => []NoDeadlock
<1>1. Init => LocksInOrder
  <2>. SUFFICES ASSUME Init, NEW t \in Tx PROVE LotsInOrder(t) /\ RowsLast(t)
    BY DEF LocksInOrder
  <2>1. draw[t] = <<>> /\ rows[t] = {} /\ pc[t] = FirstStep(req[t].kind)
    BY DEF Init
  <2>2. pc[t] \in {"lock", "select", "mint"}
    BY <2>1, InitTypeOK, KindFacts DEF FirstStep, Withdrawals
  <2>. QED
    BY <2>1, <2>2 DEF LotsInOrder, RowsLast
<1>2. IInv /\ LocksInOrder /\ [Next]_vars => LocksInOrder'
  <2>. SUFFICES ASSUME IInv, LocksInOrder, [Next]_vars PROVE LocksInOrder'
    OBVIOUS
  <2>1. CASE Next
    BY <2>1, NextSteps, StepLocksInOrder DEF IInv
  <2>2. CASE UNCHANGED vars
    BY <2>2 DEF vars, committed, private, LocksInOrder, LotsInOrder, RowsLast
  <2>. QED
    BY <2>1, <2>2
<1>3. IInv /\ LocksInOrder => NoDeadlock
  <2>. SUFFICES ASSUME IInv, LocksInOrder, NoTies,
                       \A u \in Tx : req[u].kind \in Unguarded \cup Restocking,
                       NEW t \in Tx, InCycle(t)
                PROVE  FALSE
    BY DEF NoDeadlock
  <2>0. TypeOK /\ \A u \in Tx : OnPlan(u)
    BY DEF IInv
  <2>1. PICK C \in SUBSET Tx : /\ t \in C
                              /\ \A u \in C : /\ Blockers(u) \cap C # {}
                                             /\ \E v \in C : u \in Blockers(v)
    BY DEF InCycle
  <2>2. \A u \in C : pc[u] = "gather"
    BY <2>0, <2>1, CycleInLots
  <2>. DEFINE next(u) == CHOOSE l \in Oldest(queue[u]) : TRUE
              age == [u \in C |-> lots[next(u)].age]
  <2>3. ASSUME NEW u \in C
        PROVE  /\ next(u) \in Oldest(queue[u]) /\ next(u) \in queue[u] /\ next(u) \in DOMAIN lots
               /\ age[u] \in Int /\ lots[next(u)].branch = req[u].from
    <3>1. Blockers(u) = OldestHolders(u) \ {u}
      BY <2>2, BlockersAt
    <3>2. Oldest(queue[u]) # {}
      BY <2>1, <3>1 DEF OldestHolders
    <3>3. next(u) \in Oldest(queue[u]) /\ next(u) \in queue[u]
      BY <3>2 DEF Oldest
    <3>4. next(u) \in DOMAIN lots
      BY <2>0, <3>3, Sorts
    <3>5. lots[next(u)].age \in Int
      BY <2>0, <3>4, Sorts
    <3>6. lots[next(u)].branch = req[u].from
      BY <2>2, <3>3 DEF LocksInOrder, LotsInOrder
    <3>. QED
      BY <3>3, <3>4, <3>5, <3>6
  <2>4. \A u \in C : \E v \in C : ~(age[v] <= age[u])
    <3>. SUFFICES ASSUME NEW u \in C PROVE \E v \in C : ~(age[v] <= age[u])
      OBVIOUS
    <3>1. PICK v \in C \ {u}, l \in Oldest(queue[u]) : l \in DOMAIN draw[v]
      <4>1. PICK v \in C : v \in Blockers(u)
        BY <2>1
      <4>2. v \in OldestHolders(u) /\ v # u
        BY <2>2, <4>1, BlockersAt
      <4>. QED
        BY <4>2 DEF OldestHolders, LotHolders
    <3>2. l \in queue[u] /\ l \in DOMAIN lots /\ lots[l].age = age[u]
      <4>1. l \in queue[u] /\ lots[l].age <= lots[next(u)].age /\ lots[next(u)].age <= lots[l].age
        BY <2>3, <3>1 DEF Oldest
      <4>2. l \in DOMAIN lots
        BY <2>0, <4>1, Sorts
      <4>3. \A m \in DOMAIN lots : lots[m].age \in Int
        BY <2>0, Sorts
      <4>4. lots[l].age \in Int /\ lots[next(u)].age \in Int /\ age[u] = lots[next(u)].age
        BY <2>3, <4>2, <4>3
      <4>. QED
        BY <4>1, <4>2, <4>4
    <3>3. LotsInOrder(v) /\ pc[v] = "gather"
      BY <2>2 DEF LocksInOrder
    <3>4. /\ l # next(v) /\ lots[l].age <= lots[next(v)].age
          /\ lots[l].branch = lots[next(v)].branch
      BY <2>3, <3>1, <3>3 DEF LotsInOrder
    <3>5. lots[l].age # lots[next(v)].age
      BY <2>3, <3>2, <3>4 DEF NoTies
    <3>6. age[u] \in Int /\ age[v] \in Int /\ age[v] = lots[next(v)].age
      BY <2>3
    <3>. HIDE DEF age, next
    <3>7. ~(age[v] <= age[u])
      BY <3>2, <3>4, <3>5, <3>6
    <3>. QED
      BY <3>7
  <2>. HIDE DEF age, next
  <2>5. IsFiniteSet(C) /\ C # {} /\ \A u \in C : age[u] \in Int
    BY <2>1, <2>3, FiniteAssumption, FS_Subset
  <2>. QED
    BY <2>4, <2>5, Greatest
<1>. QED
  BY Inductive, <1>1, <1>2, <1>3, PTL DEF Spec
=============================================================================
