--------------------------- MODULE TillSaleProofs ---------------------------
(***************************************************************************)
(* Theorems about TillSale for any number of requests, orders and clients: *)
(* a resent sale is rung up once, receipt numbers have no gaps and no      *)
(* doubles, no more comes back than was sold; and, while nobody deletes    *)
(* sales, or with one request at a time (MCTillSale), a sale's goods are   *)
(* out for exactly what its row says.  Then the price the tills sell at:   *)
(* which drops wait, and what is told of them.                             *)
(***************************************************************************)
EXTENDS MCTillSale, Sums, TLAPS

SessionsOK == /\ phase \in [Sessions -> Phases]
              /\ job \in [Sessions -> [kind : AllHandlers \cup {"none"}, id : Ids \cup {NoId},
                                       client : Clients \cup {NoClient}, qty : Nat]]
              /\ seen \in [Sessions -> [status : Statuses, returned : Nat, qty : Nat]]
              /\ number \in [Sessions -> Nat]

RowsOK == /\ status \in [Ids -> Statuses]
          /\ client \in [Ids -> Clients \cup {NoClient}]
          /\ resumed \in [Ids -> Ids \cup {NoId}]
          /\ receiptNo \in [Ids -> Nat]
          /\ qty \in [Ids -> Nat]
          /\ returned \in [Ids -> Nat]
          /\ out \in [Ids -> Int]
          /\ lastNo \in Nat

Control == SessionsOK /\ CounterExclusive /\ LockExclusive /\ SeenCurrent /\ OnPlan
Tables == RowsOK /\ Blank /\ OneSalePerClient /\ ReceiptNumbersGapFree /\ ReturnedWithinSold

\* The invariant, in the two halves most steps disturb one of.
LEMMA Halves == IInv <=> Control /\ Tables
  BY DEF IInv, TypeOK, SessionsOK, RowsOK, Control, Tables

LEMMA HalvesNext == ASSUME Control', Tables' PROVE IInv'
  BY DEF IInv, TypeOK, SessionsOK, RowsOK, Control, Tables

LEMMA InitIInv == Init => IInv
<1> SUFFICES ASSUME Init PROVE Control /\ Tables
  BY Halves
<1>1. SessionsOK
  <2>1. NoJob \in [kind : AllHandlers \cup {"none"}, id : Ids \cup {NoId},
                   client : Clients \cup {NoClient}, qty : Nat]
    BY DEF NoJob
  <2>2. NothingSeen \in [status : Statuses, returned : Nat, qty : Nat]
    BY DEF NothingSeen, Statuses
  <2> QED
    BY <2>1, <2>2 DEF Init, SessionsOK, Phases
<1>2. CounterExclusive /\ LockExclusive /\ SeenCurrent /\ OnPlan
  BY DEF Init, CounterExclusive, LockExclusive, SeenCurrent, OnPlan
<1>3. RowsOK
  BY DEF Init, RowsOK, Statuses
<1>4. Blank /\ OneSalePerClient /\ ReturnedWithinSold
  BY DEF Init, Blank, OneSalePerClient, ReturnedWithinSold, IsSale, Live
<1>5. ReceiptNumbersGapFree
  BY DEF Init, ReceiptNumbersGapFree, IsSale
<1> QED
  BY <1>1, <1>2, <1>3, <1>4, <1>5 DEF Control, Tables

\* The tables only change by what the steps write.
LEMMA TablesKept ==
  ASSUME Tables, UNCHANGED <<row, goods, lastNo>>
  PROVE  Tables'
<1>1. RowsOK'
  BY DEF Tables, RowsOK, row, goods
<1>2. Blank'
  BY DEF Tables, Blank, IsSale, row
<1>3. OneSalePerClient' /\ ReturnedWithinSold'
  BY DEF Tables, OneSalePerClient, ReturnedWithinSold, Live, row
<1>4. ReceiptNumbersGapFree'
  BY DEF Tables, ReceiptNumbersGapFree, IsSale, row
<1> QED
  BY <1>1, <1>2, <1>3, <1>4 DEF Tables

\* A request that ends takes nothing from the others, whatever it wrote, as long
\* as rows stay rows, sales keep their numbers, and what others hold a lock on
\* is left alone.
LEMMA EndKeeps ==
  ASSUME IInv, NEW s \in Sessions, NEW here, End(s, here),
         \A i \in Ids : status[i] # "Unused" =>
                          status'[i] # "Unused" /\ receiptNo'[i] = receiptNo[i],
         \A u \in Sessions \ {s} : phase[u] = "sell" => lastNo' = lastNo,
         \A u \in Sessions \ {s} : phase[u] = "locked" =>
                          returned'[job[u].id] = returned[job[u].id]
  PROVE  Control'
<1>1. /\ phase'[s] = "idle"
      /\ \A u \in Sessions \ {s} : /\ phase'[u] = phase[u] /\ job'[u] = job[u]
                                   /\ seen'[u] = seen[u] /\ number'[u] = number[u]
  BY DEF End, Step, IInv, TypeOK
<1>2. SessionsOK'
  <2>1. NoJob \in [kind : AllHandlers \cup {"none"}, id : Ids \cup {NoId},
                   client : Clients \cup {NoClient}, qty : Nat]
    BY DEF NoJob
  <2>2. NothingSeen \in [status : Statuses, returned : Nat, qty : Nat]
    BY DEF NothingSeen, Statuses
  <2> QED
    BY <2>1, <2>2 DEF End, Step, IInv, TypeOK, SessionsOK, Phases
<1>3. CounterExclusive' /\ LockExclusive'
  BY <1>1 DEF IInv, CounterExclusive, LockExclusive
<1>4. SeenCurrent'
  BY <1>1 DEF IInv, SeenCurrent
<1>5. OnPlan'
  <2> SUFFICES ASSUME NEW u \in Sessions, u # s
               PROVE  /\ phase[u] \in {"cancel", "remove"} => job[u].id \in Ids /\ status'[job[u].id] # "Unused"
                      /\ phase[u] = "hold" /\ job[u].id # NoId =>
                           receiptNo'[job[u].id] = 0 /\ status'[job[u].id] # "Unused"
                      /\ phase[u] \in {"lock", "locked"} => job[u].id \in Ids /\ receiptNo'[job[u].id] # 0
                      /\ phase[u] = "look" =>
                           /\ job[u].kind \in {"hold", "cancel", "remove"}
                           /\ job[u].kind = "hold" /\ job[u].id # NoId =>
                                receiptNo'[job[u].id] = 0 /\ status'[job[u].id] # "Unused"
                           /\ job[u].kind # "hold" =>
                                job[u].id \in Ids /\ status'[job[u].id] # "Unused"
    BY <1>1 DEF OnPlan, IsSale
  <2>1. job[u].id \in Ids \cup {NoId}
    BY DEF IInv, TypeOK
  <2>2. \A i \in Ids : status[i] # "Unused" =>
                         status'[i] # "Unused" /\ receiptNo'[i] = receiptNo[i]
    OBVIOUS
  <2>3. \A i \in Ids : receiptNo[i] # 0 => status[i] # "Unused"
    BY DEF IInv, Blank, IsSale
  <2>4. /\ phase[u] \in {"cancel", "remove"} => job[u].id \in Ids /\ status[job[u].id] # "Unused"
        /\ phase[u] = "hold" /\ job[u].id # NoId =>
             receiptNo[job[u].id] = 0 /\ status[job[u].id] # "Unused"
        /\ phase[u] \in {"lock", "locked"} => job[u].id \in Ids /\ receiptNo[job[u].id] # 0
        /\ phase[u] = "look" => /\ job[u].kind \in {"hold", "cancel", "remove"}
                                /\ job[u].kind = "hold" /\ job[u].id # NoId =>
                                     receiptNo[job[u].id] = 0 /\ status[job[u].id] # "Unused"
                                /\ job[u].kind # "hold" =>
                                     job[u].id \in Ids /\ status[job[u].id] # "Unused"
    BY DEF IInv, OnPlan, IsSale
  <2> QED
    BY <2>1, <2>2, <2>3, <2>4
<1> QED
  BY <1>2, <1>3, <1>4, <1>5 DEF Control

\* A request that ends without writing.
LEMMA EndQuietly ==
  ASSUME IInv, NEW s \in Sessions, NEW here, End(s, here), UNCHANGED <<row, goods, lastNo>>
  PROVE  IInv'
<1>1. Control'
  BY EndKeeps DEF row
<1>2. Tables'
  BY TablesKept, Halves
<1> QED
  BY <1>1, <1>2, HalvesNext

------------------------------------------------------------------------------
\* The steps before a transaction writes.

LEMMA BeginKeeps == ASSUME IInv, NEW s \in Sessions, Begin(s) PROVE IInv'
<1>1. PICK kind \in Handlers, i \in Ids \cup {NoId}, c \in Clients \cup {NoClient}, n \in Quantities :
         /\ phase[s] = "idle" /\ phase' = [phase EXCEPT ![s] = FirstPhase[kind]]
         /\ Known(kind, i)
         /\ job' = [job EXCEPT ![s] = [kind |-> kind, id |-> i, client |-> c, qty |-> n]]
         /\ UNCHANGED <<row, goods, lastNo, seen, number>>
  BY DEF Begin, Step
<1> DEFINE j == [kind |-> kind, id |-> i, client |-> c, qty |-> n]
<1>2. kind \in AllHandlers /\ n \in Nat
  BY HandlersAssumption, QuantitiesAssumption
<1>3. j \in [kind : AllHandlers \cup {"none"}, id : Ids \cup {NoId},
             client : Clients \cup {NoClient}, qty : Nat]
  BY <1>2
<1>4. j.kind = kind /\ j.id = i
  OBVIOUS
<1> HIDE DEF j
<1>5. FirstPhase[kind] \in {"find", "look", "lock"}
  BY <1>2 DEF FirstPhase, AllHandlers
<1>6. /\ phase'[s] = FirstPhase[kind] /\ job'[s] = j
      /\ \A u \in Sessions \ {s} : phase'[u] = phase[u] /\ job'[u] = job[u]
  BY <1>1 DEF IInv, TypeOK, j
<1>7. SessionsOK'
  BY <1>1, <1>3, <1>5 DEF IInv, TypeOK, SessionsOK, Phases, j
<1>8. CounterExclusive' /\ LockExclusive' /\ SeenCurrent'
  <2>1. CounterExclusive'
    BY <1>5, <1>6 DEF IInv, CounterExclusive
  <2>2. LockExclusive'
    BY <1>5, <1>6 DEF IInv, LockExclusive
  <2>3. SeenCurrent'
    BY <1>1, <1>5, <1>6 DEF IInv, SeenCurrent, row
  <2> QED
    BY <2>1, <2>2, <2>3
<1>9. /\ FirstPhase[kind] = "look" => kind \in {"hold", "cancel", "remove"}
      /\ FirstPhase[kind] = "lock" => kind = "return"
  BY <1>2 DEF FirstPhase, AllHandlers
<1>10. /\ kind = "hold" /\ i # NoId => ~IsSale(i) /\ status[i] # "Unused"
       /\ kind \in {"cancel", "remove"} => i \in Ids /\ status[i] # "Unused"
       /\ kind = "return" => i \in Ids /\ IsSale(i)
  BY <1>1 DEF Known
<1>11. OnPlan'
  <2>1. status' = status /\ receiptNo' = receiptNo
    BY <1>1 DEF row
  <2> QED
    BY <2>1, <1>4, <1>5, <1>6, <1>9, <1>10 DEF IInv, OnPlan, IsSale
<1>12. Tables'
  BY <1>1, TablesKept, Halves
<1> QED
  BY <1>7, <1>8, <1>11, <1>12, HalvesNext DEF Control

LEMMA FindSaleKeeps == ASSUME IInv, NEW s \in Sessions, FindSale(s) PROVE IInv'
<1>1. /\ phase[s] = "find" /\ phase' = [phase EXCEPT ![s] = "number"]
      /\ UNCHANGED <<row, goods, lastNo, job, seen, number>>
  BY DEF FindSale, Step
<1>2. SessionsOK'
  BY <1>1 DEF IInv, TypeOK, SessionsOK, Phases
<1>3. phase'[s] = "number" /\ \A u \in Sessions \ {s} : phase'[u] = phase[u]
  BY <1>1 DEF IInv, TypeOK
<1>4. CounterExclusive' /\ LockExclusive'
  BY <1>1, <1>3 DEF IInv, CounterExclusive, LockExclusive
<1>5. SeenCurrent'
  BY <1>1, <1>3 DEF IInv, SeenCurrent, row
<1>6. OnPlan'
  BY <1>1, <1>3 DEF IInv, OnPlan, IsSale, row
<1>7. Tables'
  BY <1>1, TablesKept, Halves
<1> QED
  BY <1>2, <1>4, <1>5, <1>6, <1>7, HalvesNext DEF Control

LEMMA TakeNumberKeeps == ASSUME IInv, NEW s \in Sessions, TakeNumber(s) PROVE IInv'
<1>1. /\ phase[s] = "number" /\ phase' = [phase EXCEPT ![s] = "sell"]
      /\ \A u \in Sessions : phase[u] # "sell"
      /\ number' = [number EXCEPT ![s] = lastNo + 1]
      /\ UNCHANGED <<row, goods, lastNo, job, seen>>
  BY DEF TakeNumber, Step, CounterFree
<1>2. SessionsOK'
  BY <1>1 DEF IInv, TypeOK, SessionsOK, Phases
<1>3. /\ phase'[s] = "sell" /\ number'[s] = lastNo + 1
      /\ \A u \in Sessions \ {s} : phase'[u] = phase[u] /\ number'[u] = number[u]
  BY <1>1 DEF IInv, TypeOK
<1>4. CounterExclusive' /\ LockExclusive'
  BY <1>1, <1>3 DEF IInv, CounterExclusive, LockExclusive
<1>5. SeenCurrent'
  BY <1>1, <1>3 DEF IInv, SeenCurrent, row
<1>6. OnPlan'
  BY <1>1, <1>3 DEF IInv, OnPlan, IsSale, row
<1>7. Tables'
  BY <1>1, TablesKept, Halves
<1> QED
  BY <1>2, <1>4, <1>5, <1>6, <1>7, HalvesNext DEF Control

LEMMA LookAtKeeps == ASSUME IInv, NEW s \in Sessions, LookAt(s) PROVE IInv'
<1>1. /\ phase[s] = "look" /\ phase' = [phase EXCEPT ![s] = job[s].kind]
      /\ UNCHANGED <<row, goods, lastNo, number>>
  BY DEF LookAt, Step
<1>2. job[s].kind \in {"hold", "cancel", "remove"}
  BY <1>1 DEF IInv, OnPlan
<1>3. /\ phase'[s] = job[s].kind
      /\ \A u \in Sessions \ {s} : phase'[u] = phase[u]
  BY <1>1 DEF IInv, TypeOK
<1>4. CASE job[s].kind = "hold"
  <2>1. /\ seen' = seen
        /\ job' = [job EXCEPT ![s].id = IF job[s].id # NoId /\ StillDraft(job[s].id)
                                        THEN job[s].id ELSE NoId]
    BY <1>4 DEF LookAt
  <2>2. SessionsOK'
    <3> DEFINE Jobs == [kind : AllHandlers \cup {"none"}, id : Ids \cup {NoId},
                        client : Clients \cup {NoClient}, qty : Nat]
               j == [job[s] EXCEPT !.id = IF job[s].id # NoId /\ StillDraft(job[s].id)
                                          THEN job[s].id ELSE NoId]
    <3>1. job \in [Sessions -> Jobs]
      BY DEF IInv, TypeOK
    <3>2. j \in Jobs
      BY <3>1
    <3>3. job' = [job EXCEPT ![s] = j]
      BY <2>1
    <3> HIDE DEF j, Jobs
    <3>4. job' \in [Sessions -> Jobs]
      BY <3>1, <3>2, <3>3
    <3> QED
      BY <1>1, <1>2, <2>1, <3>4 DEF IInv, TypeOK, SessionsOK, Phases, Jobs
  <2>3. /\ job'[s].id = job[s].id \/ job'[s].id = NoId
        /\ \A u \in Sessions \ {s} : job'[u] = job[u]
    BY <2>1 DEF IInv, TypeOK
  <2>4. CounterExclusive'
    BY <1>2, <1>3 DEF IInv, CounterExclusive
  <2>5. LockExclusive'
    BY <1>2, <1>3, <2>3 DEF IInv, LockExclusive
  <2>6. SeenCurrent'
    BY <1>1, <1>2, <1>3, <2>1, <2>3 DEF IInv, SeenCurrent, row
  <2>7. OnPlan'
    <3>1. status' = status /\ receiptNo' = receiptNo
      BY <1>1 DEF row
    <3>2. job[s].id # NoId => ~IsSale(job[s].id) /\ status[job[s].id] # "Unused"
      BY <1>1, <1>4 DEF IInv, OnPlan
    <3> QED
      BY <1>3, <1>4, <2>3, <3>1, <3>2 DEF IInv, OnPlan, IsSale
  <2>8. Tables'
    BY <1>1, TablesKept, Halves
  <2> QED
    BY <2>2, <2>4, <2>5, <2>6, <2>7, <2>8, HalvesNext DEF Control
<1>5. CASE job[s].kind # "hold"
  <2>1. /\ job' = job
        /\ seen' = [seen EXCEPT ![s] = [status |-> status[job[s].id],
                                        returned |-> returned[job[s].id], qty |-> qty[job[s].id]]]
    BY <1>5 DEF LookAt
  <2>2. job[s].id \in Ids /\ status[job[s].id] # "Unused"
    BY <1>1, <1>5 DEF IInv, OnPlan
  <2>3. SessionsOK'
    BY <1>1, <1>2, <2>1, <2>2 DEF IInv, TypeOK, SessionsOK, Phases
  <2>4. CounterExclusive' /\ LockExclusive'
    BY <1>2, <1>3, <2>1 DEF IInv, CounterExclusive, LockExclusive
  <2>5. SeenCurrent'
    <3>1. \A u \in Sessions \ {s} : seen'[u] = seen[u]
      BY <2>1 DEF IInv, TypeOK
    <3> QED
      BY <1>1, <1>2, <1>3, <2>1, <3>1 DEF IInv, SeenCurrent, row
  <2>6. OnPlan'
    BY <1>1, <1>2, <1>3, <1>5, <2>1, <2>2 DEF IInv, OnPlan, IsSale, row
  <2>7. Tables'
    BY <1>1, TablesKept, Halves
  <2> QED
    BY <2>3, <2>4, <2>5, <2>6, <2>7, HalvesNext DEF Control
<1> QED
  BY <1>4, <1>5

LEMMA LockSaleKeeps == ASSUME IInv, NEW s \in Sessions, LockSale(s) PROVE IInv'
<1> DEFINE i == job[s].id
<1>1. /\ phase[s] = "lock" /\ phase' = [phase EXCEPT ![s] = "locked"]
      /\ \A u \in Sessions : ~(phase[u] = "locked" /\ job[u].id = i)
      /\ seen' = [seen EXCEPT ![s] = [status |-> status[i], returned |-> returned[i], qty |-> qty[i]]]
      /\ UNCHANGED <<row, goods, lastNo, job, number>>
  BY DEF LockSale, Step, Unlocked
<1>2. i \in Ids /\ IsSale(i)
  BY <1>1 DEF IInv, OnPlan
<1>3. SessionsOK'
  BY <1>1, <1>2 DEF IInv, TypeOK, SessionsOK, Phases
<1>4. /\ phase'[s] = "locked" /\ seen'[s].returned = returned[i]
      /\ \A u \in Sessions \ {s} : phase'[u] = phase[u] /\ seen'[u] = seen[u]
  BY <1>1 DEF IInv, TypeOK
<1>5. CounterExclusive' /\ LockExclusive'
  BY <1>1, <1>4 DEF IInv, CounterExclusive, LockExclusive
<1>6. SeenCurrent'
  BY <1>1, <1>2, <1>4 DEF IInv, SeenCurrent, row
<1>7. OnPlan'
  BY <1>1, <1>2, <1>4 DEF IInv, OnPlan, IsSale, row
<1>8. Tables'
  BY <1>1, TablesKept, Halves
<1> QED
  BY <1>3, <1>5, <1>6, <1>7, <1>8, HalvesNext DEF Control

------------------------------------------------------------------------------
\* The steps that write.

LEMMA SellKeeps == ASSUME IInv, NEW s \in Sessions, Sell(s) PROVE IInv'
<1>1. phase[s] = "sell" /\ End(s, "sell")
  BY DEF Sell, End, Step
<1>2. number[s] = lastNo + 1 /\ lastNo' = lastNo + 1 /\ lastNo \in Nat
  BY <1>1 DEF Sell, IInv, SeenCurrent, TypeOK
<1> DEFINE j == job[s]
<1>3. PICK i \in Ids :
        /\ status[i] = "Unused"
        /\ status' = [k \in Ids |-> IF k = i THEN "Completed"
                                    ELSE IF k = j.id /\ status[k] = "Held" THEN "Deleted"
                                    ELSE status[k]]
        /\ client' = [client EXCEPT ![i] = j.client]
        /\ resumed' = [resumed EXCEPT ![i] = j.id]
        /\ receiptNo' = [receiptNo EXCEPT ![i] = number[s]]
        /\ qty' = [qty EXCEPT ![i] = j.qty]
        /\ out' = [out EXCEPT ![i] = j.qty]
        /\ returned' = returned
  BY DEF Sell
<1>4. j.id \in Ids \cup {NoId} /\ j.client \in Clients \cup {NoClient} /\ j.qty \in Nat
  BY DEF IInv, TypeOK
<1>5. receiptNo[i] = 0 /\ returned[i] = 0 /\ client[i] = NoClient
  BY <1>3 DEF IInv, Blank, IsSale
<1>6. /\ status'[i] = "Completed" /\ client'[i] = j.client
      /\ receiptNo'[i] = lastNo + 1 /\ qty'[i] = j.qty
      /\ \A k \in Ids \ {i} : /\ status'[k] = status[k] \/ (status[k] = "Held" /\ status'[k] = "Deleted")
                              /\ client'[k] = client[k] /\ receiptNo'[k] = receiptNo[k]
                              /\ qty'[k] = qty[k]
  BY <1>2, <1>3 DEF IInv, TypeOK
<1>7. RowsOK'
  BY <1>2, <1>3, <1>4 DEF IInv, TypeOK, RowsOK, Statuses
<1>8. Blank'
  BY <1>2, <1>3, <1>6 DEF IInv, Blank, IsSale
<1>9. OneSalePerClient'
  <2>1. ~RungUp(j.client)
    BY DEF Sell
  <2>2. \A k \in Ids \ {i} : Live(k)' => Live(k)
    BY <1>6 DEF Live
  <2>3. \A k \in Ids \ {i} : Live(k)' /\ j.client # NoClient => client[k] # j.client
    BY <2>1, <2>2 DEF RungUp
  <2> QED
    BY <1>6, <2>2, <2>3 DEF IInv, OneSalePerClient
<1>10. ReceiptNumbersGapFree'
  <2>1. \A k \in Ids : receiptNo[k] \in Nat /\ receiptNo[k] <= lastNo
    BY DEF IInv, ReceiptNumbersGapFree, TypeOK
  <2>2. \A k \in Ids : receiptNo'[k] <= lastNo'
    BY <1>2, <1>6, <2>1
  <2>3. ASSUME NEW a \in Ids, NEW b \in Ids, receiptNo'[a] # 0, receiptNo'[a] = receiptNo'[b]
        PROVE  a = b
    BY <1>2, <1>6, <2>1, <2>3 DEF IInv, ReceiptNumbersGapFree, IsSale
  <2>4. ASSUME NEW n \in 1..lastNo'
        PROVE  \E k \in Ids : receiptNo'[k] = n
    <3>1. CASE n = lastNo + 1
      BY <1>6, <3>1
    <3>2. CASE n \in 1..lastNo
      <4>1. PICK k \in Ids : receiptNo[k] = n
        BY <3>2 DEF IInv, ReceiptNumbersGapFree
      <4>2. k # i
        BY <1>5, <3>2, <4>1
      <4> QED
        BY <1>6, <4>1, <4>2
    <3> QED
      BY <1>2, <3>1, <3>2
  <2> QED
    BY <2>2, <2>3, <2>4 DEF ReceiptNumbersGapFree, IsSale
<1>11. ReturnedWithinSold'
  BY <1>3, <1>4, <1>5, <1>6 DEF IInv, ReturnedWithinSold
<1>12. Control'
  <2>1. \A k \in Ids : status[k] # "Unused" =>
                         status'[k] # "Unused" /\ receiptNo'[k] = receiptNo[k]
    BY <1>3, <1>6
  <2>2. \A u \in Sessions \ {s} : phase[u] = "sell" => lastNo' = lastNo
    BY <1>1 DEF IInv, CounterExclusive
  <2>3. \A u \in Sessions \ {s} : phase[u] = "locked" =>
                                    returned'[job[u].id] = returned[job[u].id]
    BY <1>3
  <2> QED
    BY <1>1, <2>1, <2>2, <2>3, EndKeeps
<1> QED
  BY <1>7, <1>8, <1>9, <1>10, <1>11, <1>12, HalvesNext DEF Tables

LEMMA SaveDraftKeeps == ASSUME IInv, NEW s \in Sessions, SaveDraft(s) PROVE IInv'
<1>1. phase[s] = "hold" /\ End(s, "hold")
  BY DEF SaveDraft, End, Step
<1>2. PICK i \in Ids :
        /\ IF job[s].id = NoId THEN status[i] = "Unused" ELSE i = job[s].id /\ Live(i)
        /\ status' = [status EXCEPT ![i] = "Held"]
        /\ qty' = [qty EXCEPT ![i] = job[s].qty]
        /\ UNCHANGED <<client, resumed, receiptNo, returned, goods, lastNo>>
  BY DEF SaveDraft
<1>3. ~IsSale(i)
  BY <1>1, <1>2 DEF IInv, OnPlan, Blank
<1>4. client[i] = NoClient /\ returned[i] = 0 /\ job[s].qty \in Nat
  BY <1>3 DEF IInv, Blank, TypeOK
<1>5. /\ status'[i] = "Held" /\ qty'[i] = job[s].qty
      /\ \A k \in Ids \ {i} : status'[k] = status[k] /\ qty'[k] = qty[k]
  BY <1>2 DEF IInv, TypeOK
<1>6. RowsOK'
  BY <1>2, <1>4 DEF IInv, TypeOK, RowsOK, Statuses, goods
<1>7. Blank'
  BY <1>2, <1>3, <1>4, <1>5 DEF IInv, Blank, IsSale
<1>8. OneSalePerClient'
  BY <1>2, <1>4, <1>5 DEF IInv, OneSalePerClient, Live
<1>9. ReceiptNumbersGapFree'
  BY <1>2 DEF IInv, ReceiptNumbersGapFree, IsSale
<1>10. ReturnedWithinSold'
  BY <1>2, <1>4, <1>5 DEF IInv, ReturnedWithinSold
<1>11. Control'
  <2>1. \A k \in Ids : status[k] # "Unused" =>
                         status'[k] # "Unused" /\ receiptNo'[k] = receiptNo[k]
    BY <1>2, <1>5
  <2> QED
    BY <1>1, <1>2, <2>1, EndKeeps
<1> QED
  BY <1>6, <1>7, <1>8, <1>9, <1>10, <1>11, HalvesNext DEF Tables

LEMMA CancelKeeps == ASSUME IInv, NEW s \in Sessions, Cancel(s) PROVE IInv'
<1> DEFINE i == job[s].id
<1>1. /\ phase[s] = "cancel" /\ End(s, "cancel")
      /\ status' = IF Live(i) THEN [status EXCEPT ![i] = "Cancelled"] ELSE status
      /\ UNCHANGED <<client, resumed, receiptNo, qty, returned, goods, lastNo>>
  BY DEF Cancel, End, Step
<1>2. i \in Ids /\ status[i] # "Unused"
  BY <1>1 DEF IInv, OnPlan
<1>3. \A k \in Ids : status'[k] = status[k] \/ (Live(k) /\ status'[k] = "Cancelled")
  BY <1>1, <1>2 DEF IInv, TypeOK
<1>4. RowsOK'
  BY <1>1, <1>2 DEF IInv, TypeOK, RowsOK, Statuses, goods
<1>5. Blank'
  BY <1>1, <1>3 DEF IInv, Blank, IsSale, Live
<1>6. OneSalePerClient'
  BY <1>1, <1>3 DEF IInv, OneSalePerClient, Live
<1>7. ReceiptNumbersGapFree'
  BY <1>1 DEF IInv, ReceiptNumbersGapFree, IsSale
<1>8. ReturnedWithinSold'
  BY <1>1 DEF IInv, ReturnedWithinSold
<1>9. Control'
  <2>1. \A k \in Ids : status[k] # "Unused" =>
                         status'[k] # "Unused" /\ receiptNo'[k] = receiptNo[k]
    BY <1>1, <1>3
  <2> QED
    BY <1>1, <2>1, EndKeeps
<1> QED
  BY <1>4, <1>5, <1>6, <1>7, <1>8, <1>9, HalvesNext DEF Tables

LEMMA RemoveKeeps == ASSUME IInv, NEW s \in Sessions, Remove(s) PROVE IInv'
<1> DEFINE i == job[s].id
<1>1. /\ phase[s] = "remove" /\ End(s, "remove")
      /\ status' = [status EXCEPT ![i] = "Deleted"]
      /\ out' = out \/ out' = [out EXCEPT ![i] = @ - seen[s].qty]
      /\ UNCHANGED <<client, resumed, receiptNo, qty, returned, lastNo>>
  BY DEF Remove, End, Step
<1>2. i \in Ids /\ status[i] # "Unused"
  BY <1>1 DEF IInv, OnPlan
<1>3. \A k \in Ids : status'[k] = status[k] \/ (status[k] # "Unused" /\ status'[k] = "Deleted")
  BY <1>1, <1>2 DEF IInv, TypeOK
<1>4. RowsOK'
  BY <1>1, <1>2 DEF IInv, TypeOK, RowsOK, Statuses
<1>5. Blank'
  BY <1>1, <1>3 DEF IInv, Blank, IsSale
<1>6. OneSalePerClient'
  BY <1>1, <1>3 DEF IInv, OneSalePerClient, Live
<1>7. ReceiptNumbersGapFree'
  BY <1>1 DEF IInv, ReceiptNumbersGapFree, IsSale
<1>8. ReturnedWithinSold'
  BY <1>1 DEF IInv, ReturnedWithinSold
<1>9. Control'
  <2>1. \A k \in Ids : status[k] # "Unused" =>
                         status'[k] # "Unused" /\ receiptNo'[k] = receiptNo[k]
    BY <1>1, <1>3
  <2> QED
    BY <1>1, <2>1, EndKeeps
<1> QED
  BY <1>4, <1>5, <1>6, <1>7, <1>8, <1>9, HalvesNext DEF Tables

LEMMA ReturnKeeps == ASSUME IInv, NEW s \in Sessions, Return(s) PROVE IInv'
<1> DEFINE i == job[s].id
           n == job[s].qty
<1>1. /\ phase[s] = "locked" /\ End(s, "locked")
      /\ n <= qty[i] - seen[s].returned
      /\ returned' = [returned EXCEPT ![i] = @ + n]
      /\ out' = [out EXCEPT ![i] = @ - n]
      /\ UNCHANGED <<status, client, resumed, receiptNo, qty, lastNo>>
  BY DEF Return, End, Step
<1>2. i \in Ids /\ IsSale(i) /\ seen[s].returned = returned[i]
  BY <1>1 DEF IInv, OnPlan, SeenCurrent
<1>3. n \in Nat /\ qty[i] \in Nat /\ returned[i] \in Nat
  BY <1>2 DEF IInv, TypeOK
<1>4. /\ returned'[i] = returned[i] + n
      /\ \A k \in Ids \ {i} : returned'[k] = returned[k]
  BY <1>1, <1>2 DEF IInv, TypeOK
<1>5. RowsOK'
  BY <1>1, <1>2, <1>3 DEF IInv, TypeOK, RowsOK
<1>6. Blank'
  BY <1>1, <1>2, <1>4 DEF IInv, Blank, IsSale
<1>7. OneSalePerClient'
  BY <1>1 DEF IInv, OneSalePerClient, Live
<1>8. ReceiptNumbersGapFree'
  BY <1>1 DEF IInv, ReceiptNumbersGapFree, IsSale
<1>9. ReturnedWithinSold'
  <2>1. returned[i] + n <= qty[i]
    BY <1>1, <1>2, <1>3
  <2> QED
    BY <1>1, <1>4, <2>1 DEF IInv, ReturnedWithinSold
<1>10. Control'
  <2>1. \A u \in Sessions \ {s} : phase[u] = "locked" => job[u].id \in Ids \ {i}
    BY <1>1 DEF IInv, LockExclusive, SeenCurrent
  <2>2. \A u \in Sessions \ {s} : phase[u] = "locked" =>
                                    returned'[job[u].id] = returned[job[u].id]
    BY <1>4, <2>1
  <2> QED
    BY <1>1, <2>2, EndKeeps
<1> QED
  BY <1>5, <1>6, <1>7, <1>8, <1>9, <1>10, HalvesNext DEF Tables

------------------------------------------------------------------------------
LEMMA NextKeeps == IInv /\ [Next]_vars => IInv'
<1> SUFFICES ASSUME IInv, [Next]_vars PROVE IInv'
  OBVIOUS
<1>1. CASE UNCHANGED vars
  <2>1. UNCHANGED <<row, goods, lastNo>> /\ UNCHANGED session
    BY <1>1 DEF vars
  <2>2. Tables'
    BY <2>1, TablesKept, Halves
  <2>3. Control'
    BY <2>1 DEF IInv, TypeOK, Control, SessionsOK, CounterExclusive, LockExclusive,
                SeenCurrent, OnPlan, IsSale, row, session
  <2> QED
    BY <2>2, <2>3, HalvesNext
<1>2. ASSUME NEW s \in Sessions, GiveUp(s) \/ FindsSale(s) \/ LosesRace(s)
      PROVE  IInv'
  BY <1>2, EndQuietly DEF GiveUp, FindsSale, LosesRace
<1>3. CASE Next
  BY <1>2, <1>3, BeginKeeps, FindSaleKeeps, TakeNumberKeeps, SellKeeps, LookAtKeeps,
     SaveDraftKeeps, CancelKeeps, RemoveKeeps, LockSaleKeeps, ReturnKeeps DEF Next
<1> QED
  BY <1>1, <1>3

\* The inductive invariant holds whatever the tills do.
THEOREM TillInductive == Spec => []IInv
  BY InitIInv, NextKeeps, PTL DEF Spec

\* Type correctness of the orders and the requests.
THEOREM TillTypes == Spec => []TypeOK
<1>1. IInv => TypeOK
  BY DEF IInv
<1> QED
  BY <1>1, TillInductive, PTL

\* A sale sent again, while the first try runs or after it, is rung up once.
THEOREM RungUpOnce == Spec => []OneSalePerClient
<1>1. IInv => OneSalePerClient
  BY DEF IInv
<1> QED
  BY <1>1, TillInductive, PTL

\* Concurrent tills get distinct receipt numbers, without gaps among the sales
\* that were committed.
THEOREM GapFree == Spec => []ReceiptNumbersGapFree
<1>1. IInv => ReceiptNumbersGapFree
  BY DEF IInv
<1> QED
  BY <1>1, TillInductive, PTL

\* Two tills cannot return the same units of a sale.
THEOREM ReturnsBounded == Spec => []ReturnedWithinSold
<1>1. IInv => ReturnedWithinSold
  BY DEF IInv
<1> QED
  BY <1>1, TillInductive, PTL

\* While sales are not deleted, a sale's goods are out for what its row says,
\* however requests interleave.
THEOREM GoodsOfSales == ASSUME "remove" \notin Handlers PROVE Spec => []GoodsFollowSales
<1> DEFINE Inv == /\ GoodsFollowSales
                  /\ \A s \in Sessions : phase[s] # "remove" /\ job[s].kind # "remove"
                  /\ \A i \in Ids : IsSale(i) => status[i] # "Deleted"
<1>1. Init => Inv
  BY DEF Init, GoodsFollowSales, IsSale, NoJob
<1>2. IInv /\ Inv /\ [Next]_vars => Inv'
  <2> SUFFICES ASSUME IInv, Inv, [Next]_vars PROVE Inv'
    OBVIOUS
  <2>1. CASE UNCHANGED vars
    BY <2>1 DEF vars, row, session, goods, GoodsFollowSales, IsSale
  <2>2. ASSUME NEW s \in Sessions, NEW here, End(s, here)
        PROVE  \A u \in Sessions : phase'[u] # "remove" /\ job'[u].kind # "remove"
    <3>1. /\ phase'[s] = "idle" /\ job'[s] = NoJob
          /\ \A u \in Sessions \ {s} : phase'[u] = phase[u] /\ job'[u] = job[u]
      BY <2>2 DEF End, Step, IInv, TypeOK
    <3> QED
      BY <3>1 DEF NoJob
  <2>3. ASSUME UNCHANGED <<row, goods>>
        PROVE  GoodsFollowSales' /\ \A i \in Ids : IsSale(i)' => status'[i] # "Deleted"
    BY <2>3 DEF row, goods, GoodsFollowSales, IsSale
  <2>4. ASSUME NEW s \in Sessions, GiveUp(s) \/ FindsSale(s) \/ LosesRace(s)
        PROVE  Inv'
    BY <2>2, <2>3, <2>4 DEF GiveUp, FindsSale, LosesRace
  <2>5. ASSUME NEW s \in Sessions, FindSale(s) \/ TakeNumber(s) \/ LockSale(s)
        PROVE  Inv'
    <3>1. \A u \in Sessions : phase'[u] # "remove" /\ job'[u].kind # "remove"
      BY <2>5 DEF FindSale, TakeNumber, LockSale, Step, IInv, TypeOK
    <3> QED
      BY <2>3, <2>5, <3>1 DEF FindSale, TakeNumber, LockSale
  <2>6. ASSUME NEW s \in Sessions, LookAt(s)
        PROVE  Inv'
    <3>1. phase' = [phase EXCEPT ![s] = job[s].kind] /\ UNCHANGED <<row, goods>>
      BY <2>6 DEF LookAt, Step
    <3>2. \A u \in Sessions : job'[u].kind = job[u].kind
      <4>1. job' = job \/ \E x : job' = [job EXCEPT ![s].id = x]
        BY <2>6 DEF LookAt
      <4> QED
        BY <4>1 DEF IInv, TypeOK
    <3>3. \A u \in Sessions : phase'[u] # "remove"
      BY <3>1 DEF IInv, TypeOK
    <3> QED
      BY <2>3, <3>1, <3>2, <3>3
  <2>7. ASSUME NEW s \in Sessions, Begin(s)
        PROVE  Inv'
    <3>1. PICK kind \in Handlers, i \in Ids \cup {NoId}, c \in Clients \cup {NoClient}, n \in Quantities :
             /\ phase' = [phase EXCEPT ![s] = FirstPhase[kind]]
             /\ job' = [job EXCEPT ![s] = [kind |-> kind, id |-> i, client |-> c, qty |-> n]]
             /\ UNCHANGED <<row, goods>>
      BY <2>7 DEF Begin, Step
    <3>2. kind # "remove" /\ FirstPhase[kind] # "remove"
      BY HandlersAssumption DEF AllHandlers, FirstPhase
    <3>3. \A u \in Sessions : phase'[u] # "remove" /\ job'[u].kind # "remove"
      BY <3>1, <3>2 DEF IInv, TypeOK
    <3> QED
      BY <2>3, <3>1, <3>3
  <2>8. ASSUME NEW s \in Sessions, Sell(s)
        PROVE  Inv'
    <3>1. End(s, "sell") /\ phase[s] = "sell"
      BY <2>8 DEF Sell, End, Step
    <3>2. PICK i \in Ids :
            /\ status[i] = "Unused"
            /\ status' = [k \in Ids |-> IF k = i THEN "Completed"
                                        ELSE IF k = job[s].id /\ status[k] = "Held" THEN "Deleted"
                                        ELSE status[k]]
            /\ receiptNo' = [receiptNo EXCEPT ![i] = number[s]]
            /\ qty' = [qty EXCEPT ![i] = job[s].qty]
            /\ out' = [out EXCEPT ![i] = job[s].qty]
            /\ returned' = returned
      BY <2>8 DEF Sell
    <3>3. returned[i] = 0 /\ job[s].qty \in Nat
      BY <3>2 DEF IInv, Blank, TypeOK
    <3>4. /\ status'[i] = "Completed" /\ qty'[i] = job[s].qty /\ out'[i] = job[s].qty
          /\ \A k \in Ids \ {i} : /\ receiptNo'[k] = receiptNo[k]
                                  /\ qty'[k] = qty[k] /\ out'[k] = out[k]
                                  /\ IsSale(k) => status'[k] = status[k]
      BY <3>2 DEF IInv, TypeOK, Blank
    <3>5. GoodsFollowSales' /\ \A k \in Ids : IsSale(k)' => status'[k] # "Deleted"
      BY <3>2, <3>3, <3>4 DEF GoodsFollowSales, IsSale
    <3> QED
      BY <2>2, <3>1, <3>5
  <2>9. ASSUME NEW s \in Sessions, SaveDraft(s)
        PROVE  Inv'
    <3>1. End(s, "hold") /\ phase[s] = "hold"
      BY <2>9 DEF SaveDraft, End, Step
    <3>2. PICK i \in Ids :
            /\ IF job[s].id = NoId THEN status[i] = "Unused" ELSE i = job[s].id /\ Live(i)
            /\ status' = [status EXCEPT ![i] = "Held"]
            /\ qty' = [qty EXCEPT ![i] = job[s].qty]
            /\ UNCHANGED <<receiptNo, returned, out>>
      BY <2>9 DEF SaveDraft, goods
    <3>3. ~IsSale(i)
      BY <3>1, <3>2 DEF IInv, OnPlan, Blank
    <3>4. \A k \in Ids \ {i} : status'[k] = status[k] /\ qty'[k] = qty[k]
      BY <3>2 DEF IInv, TypeOK
    <3>5. GoodsFollowSales' /\ \A k \in Ids : IsSale(k)' => status'[k] # "Deleted"
      BY <3>2, <3>3, <3>4 DEF GoodsFollowSales, IsSale
    <3> QED
      BY <2>2, <3>1, <3>5
  <2>10. ASSUME NEW s \in Sessions, Cancel(s)
         PROVE  Inv'
    <3>1. /\ End(s, "cancel")
          /\ status' = IF Live(job[s].id) THEN [status EXCEPT ![job[s].id] = "Cancelled"] ELSE status
          /\ UNCHANGED <<receiptNo, qty, returned, out>>
      BY <2>10 DEF Cancel, goods
    <3>2. \A k \in Ids : status'[k] = "Deleted" <=> status[k] = "Deleted"
      BY <3>1 DEF IInv, TypeOK, Live
    <3>3. GoodsFollowSales' /\ \A k \in Ids : IsSale(k)' => status'[k] # "Deleted"
      BY <3>1, <3>2 DEF GoodsFollowSales, IsSale
    <3> QED
      BY <2>2, <3>1, <3>3
  <2>11. ASSUME NEW s \in Sessions, Remove(s)
         PROVE  FALSE
    BY <2>11 DEF Remove, End, Step
  <2>12. ASSUME NEW s \in Sessions, Return(s)
         PROVE  Inv'
    <3> DEFINE i == job[s].id
               n == job[s].qty
    <3>1. /\ End(s, "locked") /\ phase[s] = "locked"
          /\ returned' = [returned EXCEPT ![i] = @ + n]
          /\ out' = [out EXCEPT ![i] = @ - n]
          /\ UNCHANGED <<status, receiptNo, qty>>
      BY <2>12 DEF Return, End, Step
    <3>2. i \in Ids /\ n \in Nat
      BY <3>1 DEF IInv, OnPlan, TypeOK
    <3>3. /\ returned'[i] = returned[i] + n /\ out'[i] = out[i] - n
          /\ \A k \in Ids \ {i} : returned'[k] = returned[k] /\ out'[k] = out[k]
          /\ qty[i] \in Nat /\ returned[i] \in Nat /\ out[i] \in Int
      BY <3>1, <3>2 DEF IInv, TypeOK
    <3>4. GoodsFollowSales' /\ \A k \in Ids : IsSale(k)' => status'[k] # "Deleted"
      BY <3>1, <3>2, <3>3 DEF GoodsFollowSales, IsSale
    <3> QED
      BY <2>2, <3>1, <3>4
  <2>13. CASE Next
    BY <2>4, <2>5, <2>6, <2>7, <2>8, <2>9, <2>10, <2>11, <2>12, <2>13 DEF Next
  <2> QED
    BY <2>1, <2>13
<1>3. IInv /\ Inv => GoodsFollowSales
  OBVIOUS
<1> QED
  BY <1>1, <1>2, <1>3, TillInductive, PTL DEF Spec

------------------------------------------------------------------------------
\* One request at a time: the second load of MCTillSale.

\* Everybody else is idle, before and after.
LEMMA Only ==
  ASSUME IInv, AloneFacts, OneAtATime, NEW s \in Sessions, NEW here, NEW there,
         Step(s, here, there), here # "idle" \/ there # "idle"
  PROVE  /\ phase[s] = here /\ phase'[s] = there
         /\ \A u \in Sessions \ {s} : phase[u] = "idle" /\ phase'[u] = "idle"
<1>1. /\ phase[s] = here /\ phase' = [phase EXCEPT ![s] = there]
      /\ phase \in [Sessions -> Phases]
  BY DEF Step, IInv, TypeOK
<1>2. phase'[s] = there /\ \A u \in Sessions \ {s} : phase'[u] = phase[u]
  BY <1>1
<1>3. ASSUME here # "idle" PROVE \A u \in Sessions \ {s} : phase[u] = "idle"
  BY <1>1, <1>3 DEF AloneFacts, Lone
<1>4. ASSUME there # "idle" PROVE \A u \in Sessions \ {s} : phase'[u] = "idle"
  BY <1>2, <1>4 DEF OneAtATime
<1> QED
  BY <1>1, <1>2, <1>3, <1>4

\* So what is to be shown is about the one at work, and the rows.
LEMMA Rest ==
  ASSUME NEW s \in Sessions, \A u \in Sessions \ {s} : phase'[u] = "idle", LooksTrue(s)',
         GoodsFollowSales', ReturnedSalesStay'
  PROVE  AloneFacts'
<1>1. Lone'
  BY DEF Lone
<1>2. ASSUME NEW u \in Sessions \ {s} PROVE LooksTrue(u)'
  BY DEF LooksTrue
<1> QED
  BY <1>1, <1>2 DEF AloneFacts

LEMMA RowsStay ==
  ASSUME AloneFacts, UNCHANGED <<row, goods>>
  PROVE  GoodsFollowSales' /\ ReturnedSalesStay'
  BY DEF AloneFacts, GoodsFollowSales, ReturnedSalesStay, IsSale, row, goods

\* A request that ends has looked at nothing.
LEMMA Ends ==
  ASSUME IInv, AloneFacts, OneAtATime, NEW s \in Sessions, NEW here, End(s, here), here # "idle",
         GoodsFollowSales', ReturnedSalesStay'
  PROVE  AloneFacts'
<1>1. phase'[s] = "idle" /\ \A u \in Sessions \ {s} : phase'[u] = "idle"
  BY Only DEF End
<1>2. LooksTrue(s)'
  BY <1>1 DEF LooksTrue
<1> QED
  BY <1>1, <1>2, Rest

\* The steps that write nothing.
LEMMA AloneReads ==
  ASSUME IInv, AloneFacts, OneAtATime, NEW s \in Sessions,
         \/ Begin(s) \/ GiveUp(s) \/ FindSale(s) \/ FindsSale(s) \/ TakeNumber(s) \/ LosesRace(s)
         \/ LookAt(s) \/ LockSale(s)
  PROVE  AloneFacts'
<1>1. CASE Begin(s)
  <2>1. PICK kind \in Handlers : Step(s, "idle", FirstPhase[kind])
    BY <1>1 DEF Begin
  <2> DEFINE there == FirstPhase[kind]
  <2>2. there \in {"find", "look", "lock"}
    BY HandlersAssumption DEF FirstPhase, AllHandlers
  <2>3. Step(s, "idle", there) /\ there # "idle"
    BY <2>1, <2>2
  <2> HIDE DEF there
  <2>4. phase'[s] = there /\ \A u \in Sessions \ {s} : phase'[u] = "idle"
    BY <2>3, Only
  <2>5. LooksTrue(s)'
    BY <2>2, <2>4 DEF LooksTrue
  <2>6. GoodsFollowSales' /\ ReturnedSalesStay'
    BY <1>1, RowsStay DEF Begin
  <2> QED
    BY <2>4, <2>5, <2>6, Rest
<1>2. CASE GiveUp(s)
  <2>1. phase[s] # "idle" /\ End(s, phase[s]) /\ GoodsFollowSales' /\ ReturnedSalesStay'
    BY <1>2, RowsStay DEF GiveUp
  <2> QED
    BY <2>1, Ends
<1>3. CASE FindsSale(s) \/ LosesRace(s)
  <2>1. GoodsFollowSales' /\ ReturnedSalesStay'
    BY <1>3, RowsStay DEF FindsSale, LosesRace
  <2> QED
    BY <1>3, <2>1, Ends DEF FindsSale, LosesRace
<1>4. CASE FindSale(s) \/ TakeNumber(s)
  <2>1. GoodsFollowSales' /\ ReturnedSalesStay'
    BY <1>4, RowsStay DEF FindSale, TakeNumber
  <2>2. /\ phase'[s] \in {"number", "sell"}
        /\ \A u \in Sessions \ {s} : phase'[u] = "idle"
    BY <1>4, Only DEF FindSale, TakeNumber
  <2>3. LooksTrue(s)'
    BY <2>2 DEF LooksTrue
  <2> QED
    BY <2>1, <2>2, <2>3, Rest
<1>5. CASE LookAt(s)
  <2>1. GoodsFollowSales' /\ ReturnedSalesStay'
    BY <1>5, RowsStay DEF LookAt
  <2>2. Step(s, "look", job[s].kind) /\ UNCHANGED row
    BY <1>5 DEF LookAt
  <2>3. /\ phase[s] = "look" /\ phase'[s] = job[s].kind
        /\ \A u \in Sessions \ {s} : phase'[u] = "idle"
    BY <2>2, Only
  <2>4. /\ job[s].kind \in {"hold", "cancel", "remove"}
        /\ job \in [Sessions -> [kind : AllHandlers \cup {"none"}, id : Ids \cup {NoId},
                                 client : Clients \cup {NoClient}, qty : Nat]]
    BY <2>3 DEF IInv, OnPlan, TypeOK
  <2>5. CASE job[s].kind = "hold"
    <3>1. job' = [job EXCEPT ![s].id = IF job[s].id # NoId /\ StillDraft(job[s].id)
                                       THEN job[s].id ELSE NoId]
      BY <1>5, <2>5 DEF LookAt
    <3>2. job'[s].id = IF job[s].id # NoId /\ StillDraft(job[s].id) THEN job[s].id ELSE NoId
      BY <2>4, <3>1
    <3>3. LooksTrue(s)'
      BY <2>2, <2>3, <2>5, <3>2 DEF LooksTrue, StillDraft, row
    <3> QED
      BY <2>1, <2>3, <3>3, Rest
  <2>6. CASE job[s].kind # "hold"
    <3>1. /\ Live(job[s].id) /\ job' = job
          /\ seen' = [seen EXCEPT ![s] = [status |-> status[job[s].id],
                                          returned |-> returned[job[s].id], qty |-> qty[job[s].id]]]
      BY <1>5, <2>6 DEF LookAt
    <3>2. seen'[s] = [status |-> status[job[s].id], returned |-> returned[job[s].id],
                      qty |-> qty[job[s].id]]
      BY <3>1 DEF IInv, TypeOK
    <3>3. LooksTrue(s)'
      BY <2>2, <2>3, <2>4, <2>6, <3>1, <3>2 DEF LooksTrue, Live, row
    <3> QED
      BY <2>1, <2>3, <3>3, Rest
  <2> QED
    BY <2>5, <2>6
<1>6. CASE LockSale(s)
  <2>1. GoodsFollowSales' /\ ReturnedSalesStay'
    BY <1>6, RowsStay DEF LockSale
  <2>2. /\ phase'[s] = "locked" /\ \A u \in Sessions \ {s} : phase'[u] = "idle"
    BY <1>6, Only DEF LockSale
  <2>3. status[job[s].id] = "Completed" /\ job' = job /\ status' = status
    BY <1>6 DEF LockSale, row
  <2>4. LooksTrue(s)'
    BY <2>2, <2>3 DEF LooksTrue
  <2> QED
    BY <2>1, <2>2, <2>4, Rest
<1> QED
  BY <1>1, <1>2, <1>3, <1>4, <1>5, <1>6

\* A sale is rung up: its goods go out, its cart goes.
LEMMA AloneSells ==
  ASSUME IInv, AloneFacts, OneAtATime, NEW s \in Sessions, Sell(s)
  PROVE  AloneFacts'
<1>1. End(s, "sell")
  BY DEF Sell
<1>2. PICK i \in Ids :
        /\ status[i] = "Unused"
        /\ status' = [k \in Ids |-> IF k = i THEN "Completed"
                                    ELSE IF k = job[s].id /\ status[k] = "Held" THEN "Deleted"
                                    ELSE status[k]]
        /\ receiptNo' = [receiptNo EXCEPT ![i] = number[s]]
        /\ qty' = [qty EXCEPT ![i] = job[s].qty]
        /\ out' = [out EXCEPT ![i] = job[s].qty]
        /\ returned' = returned
  BY DEF Sell
<1>3. returned[i] = 0 /\ job[s].qty \in Nat
  BY <1>2 DEF IInv, Blank, TypeOK
<1>4. /\ status'[i] = "Completed" /\ qty'[i] = job[s].qty /\ out'[i] = job[s].qty
      /\ \A k \in Ids \ {i} : /\ receiptNo'[k] = receiptNo[k]
                              /\ qty'[k] = qty[k] /\ out'[k] = out[k]
                              /\ status'[k] = status[k] \/ status[k] = "Held"
                              /\ status[k] = "Held" => ~IsSale(k) /\ returned[k] = 0
  BY <1>2 DEF IInv, TypeOK, Blank
<1>5. GoodsFollowSales'
  BY <1>2, <1>3, <1>4 DEF AloneFacts, GoodsFollowSales, IsSale
<1>6. ReturnedSalesStay'
  BY <1>2, <1>3, <1>4 DEF AloneFacts, ReturnedSalesStay
<1> QED
  BY <1>1, <1>5, <1>6, Ends

\* A cart is parked, again or for the first time: it is no sale.
LEMMA AloneSaves ==
  ASSUME IInv, AloneFacts, OneAtATime, NEW s \in Sessions, SaveDraft(s)
  PROVE  AloneFacts'
<1>1. End(s, "hold") /\ UNCHANGED <<receiptNo, returned, out>>
  BY DEF SaveDraft, goods
<1>2. PICK i \in Ids : /\ IF job[s].id = NoId THEN status[i] = "Unused" ELSE i = job[s].id
                       /\ status' = [status EXCEPT ![i] = "Held"]
                       /\ qty' = [qty EXCEPT ![i] = job[s].qty]
  BY DEF SaveDraft
<1>3. phase[s] = "hold"
  BY <1>1 DEF End, Step
<1>4. status[i] \in {"Unused", "Held"}
  BY <1>2, <1>3 DEF AloneFacts, LooksTrue
<1>5. ~IsSale(i) /\ returned[i] = 0
  BY <1>4 DEF IInv, Blank
<1>6. \A k \in Ids \ {i} : status'[k] = status[k] /\ qty'[k] = qty[k]
  BY <1>2 DEF IInv, TypeOK
<1>7. GoodsFollowSales' /\ ReturnedSalesStay'
  BY <1>1, <1>5, <1>6 DEF AloneFacts, GoodsFollowSales, ReturnedSalesStay, IsSale
<1> QED
  BY <1>1, <1>7, Ends

\* A voided sale has no returns.
LEMMA AloneCancels ==
  ASSUME IInv, AloneFacts, OneAtATime, NEW s \in Sessions, Cancel(s)
  PROVE  AloneFacts'
<1> DEFINE i == job[s].id
<1>1. /\ End(s, "cancel") /\ phase[s] = "cancel" /\ seen[s].returned = 0
      /\ status' = IF Live(i) THEN [status EXCEPT ![i] = "Cancelled"] ELSE status
      /\ UNCHANGED <<receiptNo, qty, returned, out>>
  BY DEF Cancel, End, Step, goods
<1>2. Live(i) /\ returned[i] = 0 /\ i \in Ids
  <2>1. /\ Live(i) /\ i \in Ids
        /\ seen[s] = [status |-> status[i], returned |-> returned[i], qty |-> qty[i]]
    BY <1>1 DEF AloneFacts, LooksTrue, IInv, OnPlan
  <2> QED
    BY <1>1, <2>1
<1>3. status'[i] = "Cancelled" /\ \A k \in Ids \ {i} : status'[k] = status[k]
  BY <1>1, <1>2 DEF IInv, TypeOK
<1>4. GoodsFollowSales' /\ ReturnedSalesStay'
  BY <1>1, <1>2, <1>3 DEF AloneFacts, GoodsFollowSales, ReturnedSalesStay, IsSale, Live
<1> QED
  BY <1>1, <1>4, Ends

\* A sale that is deleted brings back what it took.
LEMMA AloneRemoves ==
  ASSUME IInv, AloneFacts, OneAtATime, NEW s \in Sessions, Remove(s)
  PROVE  AloneFacts'
<1> DEFINE i == job[s].id
<1>1. /\ End(s, "remove") /\ phase[s] = "remove" /\ seen[s].returned = 0
      /\ status' = [status EXCEPT ![i] = "Deleted"]
      /\ out' = IF seen[s].status = "Held" THEN out ELSE [out EXCEPT ![i] = @ - seen[s].qty]
      /\ UNCHANGED <<receiptNo, qty, returned>>
  BY DEF Remove, End, Step
<1>2. /\ Live(i) /\ i \in Ids
      /\ seen[s] = [status |-> status[i], returned |-> returned[i], qty |-> qty[i]]
  BY <1>1 DEF AloneFacts, LooksTrue, IInv, OnPlan
<1>3. seen[s].status = status[i] /\ returned[i] = 0 /\ seen[s].qty = qty[i]
  BY <1>1, <1>2
<1>4. status'[i] = "Deleted" /\ \A k \in Ids \ {i} : status'[k] = status[k] /\ out'[k] = out[k]
  BY <1>1, <1>2 DEF IInv, TypeOK
<1>5. IsSale(i) => out'[i] = 0
  <2> SUFFICES ASSUME IsSale(i) PROVE out'[i] = 0
    OBVIOUS
  <2>1. status[i] # "Held" /\ status[i] # "Deleted"
    BY <1>2 DEF IInv, Blank, Live
  <2>2. out[i] = qty[i] - returned[i] /\ qty[i] \in Nat
    BY <1>2, <2>1 DEF AloneFacts, GoodsFollowSales, IInv, TypeOK
  <2>3. out'[i] = out[i] - qty[i]
    BY <1>1, <1>2, <1>3, <2>1 DEF IInv, TypeOK
  <2> QED
    BY <1>3, <2>2, <2>3
<1>6. GoodsFollowSales' /\ ReturnedSalesStay'
  BY <1>1, <1>3, <1>4, <1>5 DEF AloneFacts, GoodsFollowSales, ReturnedSalesStay, IsSale
<1> QED
  BY <1>1, <1>6, Ends

\* What comes back is off the sale.
LEMMA AloneReturns ==
  ASSUME IInv, AloneFacts, OneAtATime, NEW s \in Sessions, Return(s)
  PROVE  AloneFacts'
<1> DEFINE i == job[s].id
           n == job[s].qty
<1>1. /\ End(s, "locked") /\ phase[s] = "locked"
      /\ returned' = [returned EXCEPT ![i] = @ + n]
      /\ out' = [out EXCEPT ![i] = @ - n]
      /\ UNCHANGED <<status, receiptNo, qty>>
  BY DEF Return, End, Step
<1>2. i \in Ids /\ n \in Nat /\ status[i] = "Completed"
  BY <1>1 DEF AloneFacts, LooksTrue, IInv, OnPlan, TypeOK
<1>3. /\ returned'[i] = returned[i] + n /\ out'[i] = out[i] - n
      /\ \A k \in Ids \ {i} : returned'[k] = returned[k] /\ out'[k] = out[k]
      /\ qty[i] \in Nat /\ returned[i] \in Nat /\ out[i] \in Int
  BY <1>1, <1>2 DEF IInv, TypeOK
<1>4. GoodsFollowSales'
  BY <1>1, <1>2, <1>3 DEF AloneFacts, GoodsFollowSales, IsSale
<1>5. ReturnedSalesStay'
  BY <1>1, <1>2, <1>3 DEF AloneFacts, ReturnedSalesStay
<1> QED
  BY <1>1, <1>4, <1>5, Ends

LEMMA AloneStarts == Init => AloneFacts
  BY DEF Init, AloneFacts, Lone, GoodsFollowSales, ReturnedSalesStay, LooksTrue, IsSale

LEMMA AloneRests == ASSUME AloneFacts, UNCHANGED vars PROVE AloneFacts'
<1>1. GoodsFollowSales' /\ ReturnedSalesStay'
  BY RowsStay DEF vars, AloneFacts
<1>2. Lone' /\ \A s \in Sessions : LooksTrue(s)'
  BY DEF vars, row, session, AloneFacts, Lone, LooksTrue, Live
<1> QED
  BY <1>1, <1>2 DEF AloneFacts

LEMMA AloneMoves == ASSUME IInv, AloneFacts, Next, OneAtATime PROVE AloneFacts'
<1>1. PICK s \in Sessions :
        \/ Begin(s) \/ GiveUp(s) \/ FindSale(s) \/ FindsSale(s) \/ TakeNumber(s) \/ Sell(s)
        \/ LosesRace(s) \/ LookAt(s) \/ SaveDraft(s) \/ Cancel(s) \/ Remove(s) \/ LockSale(s)
        \/ Return(s)
  BY DEF Next
<1> QED
  BY <1>1, AloneReads, AloneSells, AloneSaves, AloneCancels, AloneRemoves, AloneReturns

LEMMA AloneKeeps == AloneIInv /\ [MCNext]_<<vars, pricing, load>> => AloneIInv'
<1> SUFFICES ASSUME AloneIInv, [MCNext]_<<vars, pricing, load>> PROVE AloneIInv'
  OBVIOUS
<1>1. CASE UNCHANGED vars /\ load' = load
  <2>1. IInv'
    BY <1>1, NextKeeps DEF AloneIInv
  <2>2. AloneFacts => AloneFacts'
    BY <1>1, AloneRests
  <2> QED
    BY <1>1, <2>1, <2>2 DEF AloneIInv
<1>2. CASE TillNext
  <2>1. Next /\ load' = load /\ (load = "alone" => OneAtATime)
    BY <1>2 DEF TillNext, Next, Loaded
  <2>2. IInv'
    BY <2>1, NextKeeps DEF AloneIInv
  <2>3. load = "alone" => AloneFacts'
    BY <2>1, AloneMoves DEF AloneIInv
  <2> QED
    BY <2>1, <2>2, <2>3 DEF AloneIInv
<1> QED
  BY <1>1, <1>2 DEF MCNext, Priced, Exhausted

LEMMA AloneInit == MCInit => AloneIInv
  BY InitIInv, AloneStarts DEF MCInit, AloneIInv

\* With one request at a time, for any orders, carts and returns: a sale's goods
\* are out for exactly what its row says, deletions included, and a sale with
\* returns is neither voided nor deleted.
THEOREM SalesKeptThm == Spec /\ [][OneAtATime]_vars => [](GoodsFollowSales /\ ReturnedSalesStay)
<1>1. Init => IInv /\ AloneFacts
  BY InitIInv, AloneStarts
<1>2. IInv /\ AloneFacts /\ [Next]_vars /\ [OneAtATime]_vars => (IInv /\ AloneFacts)'
  BY NextKeeps, AloneMoves, AloneRests
<1>3. AloneFacts => GoodsFollowSales /\ ReturnedSalesStay
  BY DEF AloneFacts
<1> QED
  BY <1>1, <1>2, <1>3, PTL DEF Spec

\* With one request at a time, whatever the legal calls and however many: a
\* sale's goods are out for exactly what its row says, across returns, voids
\* and deletions, and a sale with returns is neither voided nor deleted.
THEOREM AloneSalesKeptThm == MCSpec => []AloneSalesKept
<1>1. AloneIInv => AloneSalesKept
  BY DEF AloneIInv, AloneFacts, AloneSalesKept
<1> QED
  BY <1>1, AloneInit, AloneKeeps, PTL DEF MCSpec

------------------------------------------------------------------------------
(***************************************************************************)
(* The selling price.  A figure is planned for the newest delivery only,   *)
(* so a waiting step is for its own delivery and those after it: whoever   *)
(* is on the shelf when it falls due came no earlier than its trigger, and *)
(* asked for no more than it gives (ShelfTrue).  Triggers differ, so steps *)
(* have an order (ChainTrue).  One request at a time the chain falls, each *)
(* delivery waits once, and the record names those that wait (ChainAlone). *)
(***************************************************************************)
Notices == [status : {"none", "draft", "received"}, figure : Nat, passed : BOOLEAN,
            time : Nat, left : Nat, meant : Nat]

Apart == load # "all at once"

PriceTyped == /\ card \in Nat /\ now \in Nat /\ told = card
              /\ notes \in [Notes -> Notices]
              /\ \A st \in chain : /\ st.price \in Nat /\ st.note \in Notes
                                  /\ st.trigger \in Nat /\ st.made \in Nat

ShelfTrue ==
  /\ \A n \in Notes : IF notes[n].status = "received" THEN notes[n].time \in 1..now
                      ELSE notes[n].time = 0 /\ notes[n].left = 0 /\ notes[n].meant = 0
  /\ \A m, n \in Notes : notes[m].time = notes[n].time /\ notes[m].time # 0 => m = n
  /\ \A n \in Notes : notes[n].left > 0 => notes[n].meant <= card
  /\ \A n \in Notes, st \in chain :
       notes[n].left > 0 /\ st.trigger <= notes[n].time => notes[n].meant <= st.price

ChainTrue ==
  /\ \A st \in chain : /\ notes[st.note].status = "received"
                       /\ st.trigger <= notes[st.note].time
                       /\ st.price <= notes[st.note].figure
  /\ \A a, b \in chain : a.trigger = b.trigger => a = b

ChainAlone == /\ \A a, b \in chain : a.note = b.note => a = b
              /\ \A a \in chain : a.price < card
              /\ \A a, b \in chain : a.trigger < b.trigger =>
                   b.price < a.price /\ notes[a.note].time < notes[b.note].time
              /\ \A a \in chain : notes[a.note].figure = a.price \/ card <= notes[a.note].figure
              /\ awaited = Prices!NotesOf(chain)

ShelfOK == PriceTyped /\ ShelfTrue /\ ChainTrue /\ (Apart => ChainAlone)

\* What a request at the card has read is still so.
Deciding(s) ==
  /\ step[s] = "propose" => task[s].note \in Notes
  /\ step[s] = "write" => /\ task[s].note \in Notes /\ notes[task[s].note].status = "received"
                          /\ memo[s].figure = notes[task[s].note].figure
                          /\ IF Apart THEN memo[s].card = card ELSE task[s].kind # "toReceipt"
  /\ step[s] = "edit" => Apart /\ task[s].figure \in Nat /\ memo[s].card = card
  /\ step[s] = "apply" => /\ memo[s].due \subseteq chain /\ memo[s].due # {}
                          /\ \A st \in memo[s].due : Prices!OlderGone(st)
                          /\ Apart => memo[s].due = {st \in chain : Prices!OlderGone(st)}

CardDesk == DOMAIN step = Sessions /\ DOMAIN task = Sessions /\ DOMAIN memo = Sessions

AtTheCard ==
  /\ CardDesk
  /\ \A s \in Sessions : Deciding(s)
  /\ Apart => \A s, u \in Sessions : step[s] # "idle" /\ step[u] # "idle" => s = u
  /\ \A s, u \in Sessions : step[s] = "apply" /\ step[u] = "apply" /\ s # u
                              => memo[s].due \cap memo[u].due = {}

PriceOK == ShelfOK /\ AtTheCard

------------------------------------------------------------------------------
\* The order of the chain.
LEMMA GreatestTrigger ==
  ASSUME NEW S, S # {}, NEW top \in Nat, \A st \in S : st.trigger \in Nat /\ st.trigger <= top
  PROVE  \E a \in S : \A b \in S : b.trigger <= a.trigger
PROOF
  <1> DEFINE W == {k \in Nat : \E a \in S : a.trigger = top - k}
  <1>1. W \subseteq Nat /\ W # {}
    <2>1. PICK a \in S : TRUE
      OBVIOUS
    <2>2. top - a.trigger \in Nat /\ a.trigger = top - (top - a.trigger)
      OBVIOUS
    <2> QED
      BY <2>2
  <1> HIDE DEF W
  <1>2. PICK k \in W : \A j \in W : k <= j
    BY <1>1, LeastNumber
  <1>3. PICK a \in S : a.trigger = top - k
    BY <1>2 DEF W
  <1>4. ASSUME NEW b \in S PROVE b.trigger <= a.trigger
    <2>1. top - b.trigger \in W
      BY DEF W
    <2>2. k <= top - b.trigger /\ k \in Nat
      BY <1>1, <1>2, <2>1
    <2> QED
      BY <1>3, <2>2
  <1> QED
    BY <1>4

LEMMA LeastTrigger ==
  ASSUME NEW S, S # {}, \A st \in S : st.trigger \in Nat
  PROVE  \E a \in S : \A b \in S : a.trigger <= b.trigger
PROOF
  <1> DEFINE W == {k \in Nat : \E a \in S : a.trigger = k}
  <1>1. W \subseteq Nat /\ W # {}
    OBVIOUS
  <1> HIDE DEF W
  <1>2. PICK k \in W : \A j \in W : k <= j
    BY <1>1, LeastNumber
  <1>3. PICK a \in S : a.trigger = k
    BY <1>2 DEF W
  <1> QED
    BY <1>2, <1>3 DEF W

LEMMA TriggersNow ==
  ASSUME PriceTyped, ShelfTrue, ChainTrue, NEW st \in chain
  PROVE  st.trigger \in Nat /\ st.trigger <= now
  BY DEF PriceTyped, ShelfTrue, ChainTrue, Notices

LEMMA LastIs ==
  ASSUME PriceTyped, ShelfTrue, ChainTrue, NEW S, S \subseteq chain, S # {}
  PROVE  /\ Prices!LastOf(S) \in S
         /\ \A st \in S : st.trigger <= Prices!LastOf(S).trigger
PROOF
  <1>1. \A st \in S : st.trigger \in Nat /\ st.trigger <= now
    BY TriggersNow
  <1>2. now \in Nat
    BY DEF PriceTyped
  <1>3. PICK a \in S : \A b \in S : b.trigger <= a.trigger
    BY <1>1, <1>2, GreatestTrigger
  <1>4. \A b \in S \ {a} : Prices!Before(b, a)
    BY <1>1, <1>3 DEF Prices!Before, ChainTrue
  <1>5. /\ Prices!LastOf(S) \in S
        /\ \A st \in S \ {Prices!LastOf(S)} : Prices!Before(st, Prices!LastOf(S))
    BY <1>4 DEF Prices!LastOf
  <1> QED
    BY <1>1, <1>5 DEF Prices!Before

LEMMA FirstIs ==
  ASSUME PriceTyped, ShelfTrue, ChainTrue, NEW S, S \subseteq chain, S # {}
  PROVE  /\ Prices!FirstOf(S) \in S
         /\ \A st \in S : Prices!FirstOf(S).trigger <= st.trigger
PROOF
  <1>1. \A st \in S : st.trigger \in Nat
    BY TriggersNow
  <1>2. PICK a \in S : \A b \in S : a.trigger <= b.trigger
    BY <1>1, LeastTrigger
  <1>3. \A b \in S \ {a} : Prices!Before(a, b)
    BY <1>1, <1>2 DEF Prices!Before, ChainTrue
  <1>4. /\ Prices!FirstOf(S) \in S
        /\ \A st \in S \ {Prices!FirstOf(S)} : Prices!Before(Prices!FirstOf(S), st)
    BY <1>3 DEF Prices!FirstOf
  <1> QED
    BY <1>1, <1>4 DEF Prices!Before

------------------------------------------------------------------------------
\* Steps that leave the prices, or the shelf, alone.
LEMMA PricesRest ==
  ASSUME ShelfOK, UNCHANGED <<card, notes, chain, awaited, told, now, load>>
  PROVE  ShelfOK'
  BY DEF ShelfOK, PriceTyped, ShelfTrue, ChainTrue, ChainAlone, Apart, Prices!NotesOf

\* A delivery whose step goes is not awaited.
LEMMA AwaitedFewer ==
  ASSUME \A a, b \in chain : a.note = b.note => a = b, awaited = Prices!NotesOf(chain),
         chain' \subseteq chain, awaited' = awaited \ Prices!NotesOf(chain \ chain')
  PROVE  awaited' = {st.note : st \in chain'}
PROOF
  <1>1. \A x : x \in awaited' <=> \E st \in chain : st.note = x /\ ~ \E b \in chain \ chain' : b.note = x
    BY DEF Prices!NotesOf
  <1>2. ASSUME NEW x \in awaited' PROVE x \in {st.note : st \in chain'}
    <2>1. PICK st \in chain : st.note = x /\ ~ \E b \in chain \ chain' : b.note = x
      BY <1>1, <1>2
    <2>2. st \in chain'
      BY <2>1
    <2> QED
      BY <2>1, <2>2
  <1>3. ASSUME NEW st \in chain' PROVE st.note \in awaited'
    BY <1>1
  <1> QED
    BY <1>2, <1>3

\* Steps that leave the chain keep what the others rest on.
LEMMA FewerSteps ==
  ASSUME ShelfOK, UNCHANGED <<card, told, now, load>>, chain' \subseteq chain,
         awaited' = awaited \ Prices!NotesOf(chain \ chain'),
         notes' \in [Notes -> Notices],
         \A n \in Notes :
           \/ /\ notes'[n].status = notes[n].status /\ notes'[n].figure = notes[n].figure
              /\ notes'[n].time = notes[n].time /\ notes'[n].left = notes[n].left
              /\ notes'[n].meant \in {0, notes[n].meant}
           \/ /\ notes'[n].status = "draft" /\ notes'[n].time = 0 /\ notes'[n].left = 0
              /\ notes'[n].meant = 0 /\ \A st \in chain' : st.note # n
  PROVE  ShelfOK'
PROOF
  <1>1. PriceTyped'
    BY DEF ShelfOK, PriceTyped
  <1>2. ASSUME NEW n \in Notes
        PROVE  /\ notes[n].time \in Nat /\ notes[n].left \in Nat /\ notes[n].meant \in Nat
               /\ notes'[n].left > 0 => /\ notes'[n].time = notes[n].time /\ notes[n].left > 0
                                        /\ notes'[n].meant <= notes[n].meant
    BY DEF ShelfOK, PriceTyped, Notices
  <1>3. ShelfTrue'
    <2>1. \A n \in Notes : IF notes'[n].status = "received" THEN notes'[n].time \in 1..now
                           ELSE notes'[n].time = 0 /\ notes'[n].left = 0 /\ notes'[n].meant = 0
      BY <1>2 DEF ShelfOK, ShelfTrue
    <2>2. \A m, n \in Notes : notes'[m].time = notes'[n].time /\ notes'[m].time # 0 => m = n
      BY DEF ShelfOK, ShelfTrue
    <2>3. ASSUME NEW n \in Notes, notes'[n].left > 0
          PROVE  /\ notes'[n].meant <= card
                 /\ \A st \in chain' : st.trigger <= notes'[n].time => notes'[n].meant <= st.price
      <3>1. notes'[n].time = notes[n].time /\ notes[n].left > 0 /\ notes'[n].meant <= notes[n].meant
        BY <1>2, <2>3
      <3>2. /\ notes[n].meant <= card
            /\ \A st \in chain' : st.trigger <= notes[n].time => notes[n].meant <= st.price
        BY <3>1 DEF ShelfOK, ShelfTrue
      <3>3. /\ notes[n].meant \in Nat /\ notes'[n].meant \in Nat /\ card \in Nat
            /\ \A st \in chain' : st.price \in Nat
        BY DEF ShelfOK, PriceTyped, Notices
      <3> QED
        BY <3>1, <3>2, <3>3
    <2> QED
      BY <2>1, <2>2, <2>3 DEF ShelfTrue
  <1>4. ChainTrue'
    BY DEF ShelfOK, ChainTrue, PriceTyped
  <1>5. ASSUME Apart PROVE ChainAlone'
    <2>1. ChainAlone
      BY <1>5 DEF ShelfOK
    <2>2. awaited' = {st.note : st \in chain'}
      BY <2>1, AwaitedFewer DEF ChainAlone
    <2>3. \A a \in chain' : a \in chain
      OBVIOUS
    <2> QED
      <3>1. ASSUME NEW a \in chain' PROVE notes'[a.note].time = notes[a.note].time
                                         /\ notes'[a.note].figure = notes[a.note].figure
        BY DEF ShelfOK, PriceTyped
      <3> QED
        BY <2>1, <2>2, <2>3, <3>1 DEF ChainAlone, Prices!NotesOf
  <1> QED
    BY <1>1, <1>3, <1>4, <1>5 DEF ShelfOK, Apart

\* Goods come and go, notes are written.
LEMMA GoodsMove ==
  ASSUME ShelfOK, UNCHANGED <<card, told, chain, awaited, load>>, now' \in Nat, now <= now',
         NEW n \in Notes, NEW new \in Notices, notes' = [notes EXCEPT ![n] = new],
         \/ /\ notes[n].status = "none" /\ new.status = "draft"
            /\ new.time = 0 /\ new.left = 0 /\ new.meant = 0
         \/ /\ notes[n].status = "draft" /\ new.status = "received"
            /\ new.time = now' /\ now' = now + 1 /\ new.meant = 0 /\ new.figure = notes[n].figure
         \/ /\ now' = now /\ notes[n].left > 0 /\ new.status = notes[n].status /\ new.time = notes[n].time
            /\ new.meant = notes[n].meant /\ new.figure = notes[n].figure
  PROVE  ShelfOK'
PROOF
  <1>1. /\ notes'[n] = new
        /\ \A m \in Notes \ {n} : notes'[m] = notes[m]
    BY DEF ShelfOK, PriceTyped
  <1>2. PriceTyped'
    BY DEF ShelfOK, PriceTyped
  <1>3. ShelfTrue'
    <2>1. \A m \in Notes : notes[m].time \in Nat /\ notes[m].time <= now
      BY DEF ShelfOK, PriceTyped, ShelfTrue, Notices
    <2> QED
      BY <1>1, <2>1 DEF ShelfOK, ShelfTrue, PriceTyped, Notices
  <1>4. ChainTrue'
    BY <1>1 DEF ShelfOK, ChainTrue, PriceTyped
  <1>5. ASSUME Apart PROVE ChainAlone'
    <2>1. ChainAlone
      BY <1>5 DEF ShelfOK
    <2>2. ASSUME NEW a \in chain PROVE notes'[a.note].time = notes[a.note].time
                                      /\ notes'[a.note].figure = notes[a.note].figure
      BY <1>1 DEF ShelfOK, PriceTyped, ChainTrue
    <2> QED
      BY <2>1, <2>2 DEF ChainAlone, Prices!NotesOf
  <1> QED
    BY <1>2, <1>3, <1>4, <1>5 DEF ShelfOK, Apart

------------------------------------------------------------------------------
\* A figure is put on the card, or in the queue.
LEMMA LeftTyped ==
  ASSUME notes \in [Notes -> Notices], NEW old
  PROVE  Prices!Left(old) \in [Notes -> Notices]
PROOF
  <1>1. ASSUME NEW n \in Notes, NEW x \in BOOLEAN
        PROVE  [notes[n] EXCEPT !.passed = x] \in Notices
    BY DEF Notices
  <1>2. ASSUME NEW n \in Notes
        PROVE  [notes[n] EXCEPT !.passed = @ \/ notes[n].figure = old] \in Notices
    <2> DEFINE x == notes[n].passed \/ notes[n].figure = old
    <2>1. x \in BOOLEAN
      OBVIOUS
    <2>2. [notes[n] EXCEPT !.passed = x] \in Notices
      <3> HIDE DEF x
      <3> QED
        BY <1>1, <2>1
    <2> QED
      BY <2>2
  <1> QED
    BY <1>2 DEF Prices!Left

LEMMA FirstMade ==
  ASSUME NEW S, NEW time, \A st \in S : st.trigger # time
  PROVE  Prices!NextMade(S, time) = 1
PROOF
  <1> DEFINE made == {st.made : st \in {other \in S : other.trigger = time}}
  <1>1. Prices!NextMade(S, time) = 1 + Prices!Max({0} \cup made)
    BY DEF Prices!NextMade
  <1>2. made = {}
    OBVIOUS
  <1> HIDE DEF made
  <1>3. Prices!Max({0} \cup made) = 0
    BY <1>2 DEF Prices!Max
  <1> QED
    BY <1>1, <1>3

LEMMA FigureWritten ==
  ASSUME ShelfOK, UNCHANGED <<now, load>>, NEW n \in Notes, NEW p \in Nat,
         notes[n].status = "received", p = notes[n].figure,
         \A m \in Notes : notes[m].time <= notes[n].time,
         Prices!PriceWritten(n, p)
  PROVE  ShelfOK'
PROOF
  <1>1. /\ card \in Nat /\ now \in Nat /\ notes \in [Notes -> Notices]
        /\ \A m \in Notes : notes[m].time \in Nat /\ notes[m].left \in Nat /\ notes[m].meant \in Nat
    BY DEF ShelfOK, PriceTyped, Notices
  <1>2. CASE Prices!Plan(n, p) = "now" /\ Prices!MoveCard(p) /\ chain' = {}
             /\ awaited' = awaited \ (Prices!NotesOf(chain) \union {n})
             /\ notes' = [Prices!Left(card) EXCEPT ![n].meant = p]
    <2>1. \A m \in Notes : /\ notes'[m].status = notes[m].status /\ notes'[m].figure = notes[m].figure
                           /\ notes'[m].time = notes[m].time /\ notes'[m].left = notes[m].left
                           /\ notes'[m].meant = IF m = n THEN p ELSE notes[m].meant
      BY <1>1, <1>2 DEF Prices!Left, Notices
    <2>2. notes' \in [Notes -> Notices]
      <3>1. Prices!Left(card) \in [Notes -> Notices]
        BY <1>1, LeftTyped
      <3> QED
        BY <1>2, <3>1 DEF Notices
    <2>3. PriceTyped'
      BY <1>1, <1>2, <2>2 DEF PriceTyped, Prices!MoveCard
    <2>4. card' = p /\ chain' = {}
      BY <1>2 DEF Prices!MoveCard
    <2>5. ASSUME NEW m \in Notes, notes[m].left > 0, m # n PROVE notes[m].meant <= p
      <3>1. notes[m].meant <= card
        BY <2>5 DEF ShelfOK, ShelfTrue
      <3>2. CASE p >= card
        BY <1>1, <3>1, <3>2
      <3>3. CASE p < card
        <4>1. ~Prices!OlderStock(n)
          BY <1>1, <1>2, <3>3 DEF Prices!Plan
        <4>2. notes[n].time # 0
          BY <1>1 DEF ShelfOK, ShelfTrue
        <4>3. ~(notes[m].time < notes[n].time)
          BY <2>5, <4>1, <4>2 DEF Prices!OlderStock, Prices!OlderThan, Prices!OnShelf
        <4>4. notes[m].time = notes[n].time
          BY <1>1, <4>3
        <4> QED
          BY <2>5, <4>2, <4>4 DEF ShelfOK, ShelfTrue
      <3> QED
        BY <1>1, <3>2, <3>3
    <2>6. ShelfTrue'
      BY <1>1, <2>1, <2>4, <2>5 DEF ShelfOK, ShelfTrue
    <2>7. ChainTrue'
      BY <2>4 DEF ChainTrue
    <2>8. Apart => ChainAlone'
      BY <1>2, <2>4 DEF ShelfOK, ChainAlone, Prices!NotesOf
    <2> QED
      BY <2>3, <2>6, <2>7, <2>8 DEF ShelfOK, Apart
  <1>3. CASE Prices!Plan(n, p) = "queue" /\ chain' = Prices!Queued(n, p)
             /\ awaited' = (awaited \union {n}) \ Prices!NotesOf(Prices!Lifted(p))
             /\ notes' = [notes EXCEPT ![n].meant = p] /\ UNCHANGED <<card, told>>
    <2> DEFINE up == Prices!Lifted(p)
               time == Prices!Trigger(n, p)
    <2>1. up = {st \in chain : st.price <= p}
      BY DEF Prices!Lifted
    <2>2. PICK new : /\ new.price = p /\ new.note = n /\ new.trigger = time
                     /\ chain' = (chain \ up) \cup {new}
                     /\ new.made = Prices!NextMade(chain \ up, time)
      <3>1. PICK new : new = [price |-> p, note |-> n, trigger |-> time,
                              made |-> Prices!NextMade(chain \ up, time)]
        OBVIOUS
      <3>2. chain' = (chain \ up) \cup {new}
        BY <1>3, <3>1 DEF Prices!Queued
      <3>3. /\ new.price = p /\ new.note = n /\ new.trigger = time
            /\ new.made = Prices!NextMade(chain \ up, time)
        BY <3>1
      <3> QED
        BY <3>2, <3>3
    <2>3. p < card
      BY <1>1, <1>3 DEF Prices!Plan
    <2>4. \A st \in chain : /\ st.trigger \in Nat /\ st.price \in Nat /\ st.note \in Notes
                            /\ st.trigger <= notes[st.note].time /\ notes[st.note].time <= notes[n].time
      BY DEF ShelfOK, PriceTyped, ChainTrue
    <2>5. /\ time \in Nat /\ time <= notes[n].time
          /\ \A st \in chain \ up : st.trigger # time /\ (Apart => st.trigger < time)
          /\ \A m \in Notes : notes[m].left > 0 /\ time <= notes[m].time /\ m # n
                           => notes[m].meant <= p
      <3>1. CASE up = {}
        <4>1. time = notes[n].time
          BY <3>1 DEF Prices!Trigger
        <4>2. ASSUME NEW st \in chain PROVE st.trigger < time
          <5>1. st.trigger <= time
            BY <1>1, <2>4, <4>1
          <5>2. ASSUME st.trigger = time PROVE FALSE
            <6>1. notes[st.note].time = notes[n].time /\ notes[n].time # 0
              BY <1>1, <2>4, <4>1, <5>2 DEF ShelfOK, ShelfTrue
            <6>2. st.note = n
              BY <2>4, <6>1 DEF ShelfOK, ShelfTrue
            <6>3. st.price <= p
              BY <6>2 DEF ShelfOK, ChainTrue
            <6> QED
              BY <2>1, <3>1, <6>3
          <5> QED
            BY <1>1, <2>4, <4>1, <5>1, <5>2
        <4>3. ASSUME NEW m \in Notes, notes[m].left > 0, time <= notes[m].time, m # n
              PROVE  notes[m].meant <= p
          <5>1. notes[m].time = notes[n].time /\ notes[n].time # 0
            BY <1>1, <4>1, <4>3 DEF ShelfOK, ShelfTrue
          <5> QED
            BY <4>3, <5>1 DEF ShelfOK, ShelfTrue
        <4> QED
          BY <1>1, <3>1, <4>1, <4>2, <4>3
      <3>2. CASE up # {}
        <4> DEFINE first == Prices!FirstOf(up)
        <4>1. first \in up /\ time = first.trigger
          BY <2>1, <3>2, FirstIs DEF Prices!Trigger, ShelfOK
        <4>2. first \in chain /\ first.price <= p /\ first.price \in Nat /\ first.trigger \in Nat
              /\ first.trigger <= notes[n].time
          BY <1>1, <2>1, <2>4, <4>1
        <4> HIDE DEF first
        <4>3. ASSUME NEW st \in chain \ up PROVE st.trigger # time /\ (Apart => st.trigger < time)
          <5>1. st.trigger # first.trigger
            BY <4>1, <4>2 DEF ShelfOK, ChainTrue
          <5>2. ~(st.price <= p) /\ st.price \in Nat /\ st.trigger \in Nat
            BY <2>1, <2>4
          <5>3. ASSUME Apart PROVE st.trigger < first.trigger
            <6>1. ~(first.trigger < st.trigger)
              BY <4>2, <5>2, <5>3 DEF ShelfOK, ChainAlone
            <6> QED
              BY <4>2, <5>1, <5>2, <6>1
          <5> QED
            BY <4>1, <5>1, <5>3
        <4>4. ASSUME NEW m \in Notes, notes[m].left > 0, time <= notes[m].time
              PROVE  notes[m].meant <= p
          <5>1. notes[m].meant <= first.price
            BY <4>1, <4>2, <4>4 DEF ShelfOK, ShelfTrue
          <5> QED
            BY <1>1, <4>2, <5>1
        <4> QED
          BY <4>1, <4>2, <4>3, <4>4
      <3> QED
        BY <3>1, <3>2
    <2> HIDE DEF up, time
    <2>6. /\ notes'[n].meant = p
          /\ \A m \in Notes : /\ notes'[m].status = notes[m].status /\ notes'[m].figure = notes[m].figure
                              /\ notes'[m].time = notes[m].time /\ notes'[m].left = notes[m].left
                              /\ m # n => notes'[m].meant = notes[m].meant
      BY <1>1, <1>3 DEF Notices
    <2>7. notes' \in [Notes -> Notices]
      BY <1>1, <1>3 DEF Notices
    <2>8. PriceTyped'
      <3>1. new.made = 1
        BY <2>2, <2>5, FirstMade
      <3> QED
        BY <1>3, <2>2, <2>5, <2>7, <3>1 DEF ShelfOK, PriceTyped
    <2>9. ShelfTrue'
      <3>1. ASSUME NEW m \in Notes, notes'[m].left > 0 PROVE notes'[m].meant <= card'
        BY <1>1, <1>3, <2>3, <2>6, <3>1 DEF ShelfOK, ShelfTrue
      <3>2. ASSUME NEW m \in Notes, notes'[m].left > 0, NEW st \in chain', st.trigger <= notes'[m].time
            PROVE  notes'[m].meant <= st.price
        <4>1. CASE st = new
          <5>1. st.trigger = time /\ st.price = p
            BY <2>2, <4>1
          <5>2. CASE m = n
            BY <2>6, <5>1, <5>2
          <5>3. CASE m # n
            <6>1. notes[m].left > 0 /\ time <= notes[m].time /\ notes'[m].meant = notes[m].meant
              BY <2>6, <3>2, <5>1, <5>3
            <6> QED
              BY <2>5, <5>1, <5>3, <6>1
          <5> QED
            BY <5>2, <5>3
        <4>2. CASE st \in chain \ up /\ m = n
          <5>1. st.price \in Nat /\ ~(st.price <= p)
            BY <2>1, <2>4, <4>2
          <5>2. notes'[m].meant = p
            BY <2>6, <4>2
          <5> QED
            BY <5>1, <5>2
        <4>3. CASE st \in chain \ up /\ m # n
          BY <2>6, <3>2, <4>3 DEF ShelfOK, ShelfTrue
        <4> QED
          BY <2>2, <4>1, <4>2, <4>3
      <3>3. /\ \A m \in Notes : IF notes'[m].status = "received" THEN notes'[m].time \in 1..now'
                             ELSE notes'[m].time = 0 /\ notes'[m].left = 0 /\ notes'[m].meant = 0
            /\ \A m, k \in Notes : notes'[m].time = notes'[k].time /\ notes'[m].time # 0 => m = k
        <4>1. ASSUME NEW m \in Notes
              PROVE  IF notes'[m].status = "received" THEN notes'[m].time \in 1..now'
                     ELSE notes'[m].time = 0 /\ notes'[m].left = 0 /\ notes'[m].meant = 0
          <5>1. CASE m = n
            <6>1. notes[n].time \in 1..now
              BY DEF ShelfOK, ShelfTrue
            <6> QED
              BY <2>6, <5>1, <6>1
          <5>2. CASE m # n
            <6>1. /\ notes'[m].status = notes[m].status /\ notes'[m].time = notes[m].time
                  /\ notes'[m].left = notes[m].left /\ notes'[m].meant = notes[m].meant
              BY <2>6, <5>2
            <6> QED
              BY <6>1 DEF ShelfOK, ShelfTrue
          <5> QED
            BY <5>1, <5>2
        <4>2. ASSUME NEW m \in Notes, NEW k \in Notes, notes'[m].time = notes'[k].time, notes'[m].time # 0
              PROVE  m = k
          <5>1. notes[m].time = notes[k].time /\ notes[m].time # 0
            BY <2>6, <4>2
          <5> QED
            BY <5>1 DEF ShelfOK, ShelfTrue
        <4> QED
          BY <4>1, <4>2
      <3> QED
        BY <3>1, <3>2, <3>3 DEF ShelfTrue
    <2>10. ChainTrue'
      <3>1. \A st \in chain' : /\ notes'[st.note].status = "received"
                               /\ st.trigger <= notes'[st.note].time
                               /\ st.price <= notes'[st.note].figure
        <4>1. ASSUME NEW st \in chain', st = new
              PROVE  /\ notes'[st.note].status = "received"
                     /\ st.trigger <= notes'[st.note].time
                     /\ st.price <= notes'[st.note].figure
          BY <2>2, <2>5, <2>6, <4>1
        <4>2. ASSUME NEW st \in chain', st # new
              PROVE  /\ notes'[st.note].status = "received"
                     /\ st.trigger <= notes'[st.note].time
                     /\ st.price <= notes'[st.note].figure
          <5>1. st \in chain /\ st.note \in Notes
            BY <2>2, <2>4, <4>2
          <5>2. /\ notes'[st.note].status = notes[st.note].status
                /\ notes'[st.note].time = notes[st.note].time
                /\ notes'[st.note].figure = notes[st.note].figure
            BY <2>6, <5>1
          <5> QED
            BY <5>1, <5>2 DEF ShelfOK, ChainTrue
        <4> QED
          BY <4>1, <4>2
      <3>2. \A a, b \in chain' : a.trigger = b.trigger => a = b
        BY <2>2, <2>5 DEF ShelfOK, ChainTrue
      <3> QED
        BY <3>1, <3>2 DEF ChainTrue
    <2>11. ASSUME Apart PROVE ChainAlone'
      <3>1. ChainAlone
        BY <2>11 DEF ShelfOK
      <3>2. ASSUME NEW st \in chain, st.note = n PROVE FALSE
        <4>1. st.price = p
          BY <1>1, <2>3, <2>4, <3>1, <3>2 DEF ChainAlone
        <4>2. ASSUME NEW b \in chain PROVE b.trigger <= st.trigger
          <5>1. ~(st.trigger < b.trigger)
            BY <1>1, <2>4, <3>1, <3>2 DEF ChainAlone
          <5> QED
            BY <2>4, <5>1
        <4>3. Prices!LastOf(chain) \in chain /\ st.trigger <= Prices!LastOf(chain).trigger
          BY LastIs DEF ShelfOK
        <4>4. Prices!LastOf(chain) = st
          <5>1. Prices!LastOf(chain).trigger = st.trigger
            BY <2>4, <4>2, <4>3
          <5> QED
            BY <4>3, <5>1 DEF ShelfOK, ChainTrue
        <4>5. p = Prices!End
          BY <4>1, <4>4 DEF Prices!End
        <4> QED
          BY <1>1, <1>3, <2>3, <4>5 DEF Prices!Plan
      <3>3. \A st \in chain' : st = new \/ (st \in chain /\ st \notin up /\ st.note # n)
        BY <2>2, <3>2
      <3>4. \A a, b \in chain' : a.note = b.note => a = b
        BY <2>2, <3>1, <3>3 DEF ChainAlone
      <3>5. \A a \in chain' : a.price < card'
        BY <1>3, <2>2, <2>3, <3>1, <3>3 DEF ChainAlone
      <3>6. ASSUME NEW a \in chain', NEW b \in chain', a.trigger < b.trigger
            PROVE  b.price < a.price /\ notes'[a.note].time < notes'[b.note].time
        <4>1. CASE a # new /\ b # new
          <5>1. a \in chain /\ b \in chain /\ a.note \in Notes /\ b.note \in Notes
            BY <2>4, <3>3, <4>1
          <5>2. b.price < a.price /\ notes[a.note].time < notes[b.note].time
            BY <3>1, <3>6, <5>1 DEF ChainAlone
          <5> QED
            BY <2>6, <5>1, <5>2
        <4>2. CASE a # new /\ b = new
          <5>1. a \in chain \ up /\ a.note # n
            BY <3>3, <4>2
          <5>2. b.price < a.price
            BY <2>1, <2>2, <2>4, <4>2, <5>1
          <5>3. notes[a.note].time # notes[n].time
            BY <2>4, <5>1 DEF ShelfOK, ShelfTrue, ChainTrue
          <5> QED
            <6>1. notes[a.note].time < notes[n].time
              BY <1>1, <2>4, <5>1, <5>3
            <6>2. notes'[a.note].time = notes[a.note].time /\ notes'[b.note].time = notes[n].time
              BY <2>2, <2>4, <2>6, <4>2, <5>1
            <6> QED
              BY <5>2, <6>1, <6>2
        <4>3. CASE a = new
          <5>1. b # new
            BY <2>2, <2>5, <3>6, <4>3
          <5>2. b \in chain \ up
            BY <3>3, <5>1
          <5> QED
            BY <2>2, <2>4, <2>5, <2>11, <3>6, <4>3, <5>2
        <4> QED
          BY <4>1, <4>2, <4>3
      <3>7. \A a \in chain' : notes'[a.note].figure = a.price \/ card' <= notes'[a.note].figure
        BY <1>3, <2>2, <2>4, <2>6, <3>1, <3>3 DEF ChainAlone
      <3>8. awaited' = {st.note : st \in chain'}
        <4>1. awaited = {st.note : st \in chain} /\ n \notin {st.note : st \in up}
              /\ up \subseteq chain
          BY <2>1, <3>1, <3>2 DEF ChainAlone, Prices!NotesOf
        <4>2. \A a, b \in chain : a.note = b.note => a = b
          BY <3>1 DEF ChainAlone
        <4>3. awaited' = (awaited \cup {n}) \ {st.note : st \in up}
          BY <1>3 DEF Prices!NotesOf, up
        <4>4. ASSUME NEW x \in awaited' PROVE \E st \in chain' : st.note = x
          BY <2>2, <4>1, <4>3, <4>4
        <4>5. ASSUME NEW st \in chain' PROVE st.note \in awaited'
          BY <2>2, <4>1, <4>2, <4>3
        <4> QED
          BY <4>4, <4>5
      <3> QED
        BY <3>4, <3>5, <3>6, <3>7, <3>8 DEF ChainAlone, Prices!NotesOf
    <2> QED
      BY <2>8, <2>9, <2>10, <2>11 DEF ShelfOK, Apart
  <1>4. CASE Prices!Plan(n, p) = "none" /\ Prices!PricesStay /\ UNCHANGED notes
    BY <1>4, PricesRest DEF Prices!PricesStay, Prices!prices
  <1> QED
    BY <1>2, <1>3, <1>4 DEF Prices!PriceWritten

\* A planned figure that changes neither card, chain nor notes changes nothing.
LEMMA NothingWritten ==
  ASSUME ShelfOK, UNCHANGED <<now, load>>, NEW n \in Notes, NEW p \in Nat,
         UNCHANGED <<card, chain, notes>>, Prices!PriceWritten(n, p)
  PROVE  ShelfOK'
PROOF
  <1>1. CASE Prices!Plan(n, p) = "now" /\ Prices!MoveCard(p)
    BY <1>1 DEF Prices!Plan, Prices!MoveCard, ShelfOK, PriceTyped
  <1>2. CASE Prices!Plan(n, p) = "queue" /\ chain' = Prices!Queued(n, p) /\ told' = told
    <2>1. CASE ~Apart
      BY <1>2, <2>1 DEF ShelfOK, PriceTyped, ShelfTrue, ChainTrue, Apart
    <2>2. CASE Apart
      <3>1. PICK new : new.price = p /\ chain' = (chain \ Prices!Lifted(p)) \cup {new}
        BY <1>2 DEF Prices!Queued
      <3>2. /\ \A b \in chain : b.trigger \in Nat /\ b.price \in Nat
            /\ new \in chain /\ \A b \in chain \ {new} : ~(b.price <= p)
        BY <3>1 DEF Prices!Lifted, ShelfOK, PriceTyped
      <3>3. ASSUME NEW b \in chain PROVE b.trigger <= new.trigger
        <4>1. CASE b = new
          BY <3>2, <4>1
        <4>2. CASE b # new
          <5>1. ~(new.trigger < b.trigger)
            BY <2>2, <3>1, <3>2, <4>2 DEF ShelfOK, ChainAlone
          <5> QED
            BY <3>2, <5>1
        <4> QED
          BY <4>1, <4>2
      <3>4. Prices!LastOf(chain) \in chain /\ new.trigger <= Prices!LastOf(chain).trigger
        BY <3>2, LastIs DEF ShelfOK
      <3>5. Prices!LastOf(chain).trigger = new.trigger
        BY <3>2, <3>3, <3>4
      <3>6. Prices!LastOf(chain) = new
        BY <3>2, <3>4, <3>5 DEF ShelfOK, ChainTrue
      <3>7. p = Prices!End
        BY <3>1, <3>2, <3>6 DEF Prices!End
      <3> QED
        BY <1>2, <3>7 DEF Prices!Plan, ShelfOK, PriceTyped
    <2> QED
      BY <2>1, <2>2
  <1>3. CASE Prices!PricesStay
    BY <1>3, PricesRest DEF Prices!PricesStay, Prices!prices
  <1> QED
    BY <1>1, <1>2, <1>3 DEF Prices!PriceWritten

\* The line takes the card's figure.
LEMMA NoteCorrected ==
  ASSUME ShelfOK, UNCHANGED <<card, chain, awaited, told, now, load>>, NEW n \in Notes, Apart,
         notes[n].status = "received", NEW b \in BOOLEAN,
         notes' = [notes EXCEPT ![n].figure = card, ![n].passed = b]
  PROVE  ShelfOK'
PROOF
  <1>1. /\ notes \in [Notes -> Notices] /\ card \in Nat /\ ChainAlone
        /\ \A st \in chain : st.note \in Notes /\ st.price \in Nat
    BY DEF ShelfOK, PriceTyped
  <1>2. notes' \in [Notes -> Notices]
    BY <1>1 DEF Notices
  <1>3. \A m \in Notes : /\ notes'[m].status = notes[m].status /\ notes'[m].time = notes[m].time
                         /\ notes'[m].left = notes[m].left /\ notes'[m].meant = notes[m].meant
                         /\ notes'[m].figure = IF m = n THEN card ELSE notes[m].figure
    BY <1>1 DEF Notices
  <1>4. PriceTyped'
    BY <1>2 DEF ShelfOK, PriceTyped
  <1>5. ShelfTrue'
    <2>1. ASSUME NEW m \in Notes
          PROVE  IF notes'[m].status = "received" THEN notes'[m].time \in 1..now
                 ELSE notes'[m].time = 0 /\ notes'[m].left = 0 /\ notes'[m].meant = 0
      <3>1. /\ notes'[m].status = notes[m].status /\ notes'[m].time = notes[m].time
            /\ notes'[m].left = notes[m].left /\ notes'[m].meant = notes[m].meant
        BY <1>3
      <3> QED
        BY <3>1 DEF ShelfOK, ShelfTrue
    <2>3. ASSUME NEW m \in Notes, NEW k \in Notes, notes'[m].time = notes'[k].time, notes'[m].time # 0
          PROVE  m = k
      BY <1>3, <2>3 DEF ShelfOK, ShelfTrue
    <2>2. ASSUME NEW m \in Notes, notes'[m].left > 0
          PROVE  /\ notes'[m].meant <= card
                 /\ \A st \in chain : st.trigger <= notes'[m].time => notes'[m].meant <= st.price
      BY <1>3, <2>2 DEF ShelfOK, ShelfTrue
    <2> QED
      BY <2>1, <2>2, <2>3 DEF ShelfTrue
  <1>6. ChainTrue'
    BY <1>1, <1>3 DEF ShelfOK, ChainTrue, ChainAlone
  <1>7. ChainAlone'
    BY <1>1, <1>3 DEF ChainAlone, Prices!NotesOf
  <1> QED
    BY <1>4, <1>5, <1>6, <1>7 DEF ShelfOK

\* Steps take effect: those whose older goods are gone, or, when a person decides
\* anew, some; one request at a time they are the first of the chain.
LEMMA StepsApplied ==
  ASSUME ShelfOK, UNCHANGED <<now, load>>, NEW S, S \subseteq chain, S # {}, Prices!Applied(S),
         notes' \in [Notes -> Notices],
         \A n \in Notes :
           /\ notes'[n].status = notes[n].status /\ notes'[n].figure = notes[n].figure
           /\ notes'[n].time = notes[n].time /\ notes'[n].left = notes[n].left
           /\ notes'[n].meant \in {0, notes[n].meant},
         \/ \A n \in Notes : notes'[n].meant = 0
         \/ \A st \in S : Prices!OlderGone(st),
         Apart => \A a \in S, b \in chain : b.trigger < a.trigger => b \in S
  PROVE  ShelfOK'
PROOF
  <1> DEFINE last == Prices!LastOf(S)
  <1>1. last \in S /\ \A st \in S : st.trigger <= last.trigger
    BY LastIs DEF ShelfOK
  <1>2. /\ \A st \in chain : st.price \in Nat /\ st.note \in Notes /\ st.trigger \in Nat
        /\ card \in Nat /\ last \in chain
        /\ \A n \in Notes : notes[n].meant \in Nat /\ notes[n].time \in Nat /\ notes[n].left \in Nat
    BY <1>1 DEF ShelfOK, PriceTyped, Notices
  <1>3. /\ chain' = chain \ S /\ card' = last.price /\ told' = card'
        /\ card # last.price => awaited' = awaited \ Prices!NotesOf(S)
    BY DEF Prices!Applied, Prices!MoveCard, ShelfOK, PriceTyped
  <1> HIDE DEF last
  <1>4. PriceTyped'
    BY <1>2, <1>3 DEF ShelfOK, PriceTyped
  <1>5. ASSUME NEW n \in Notes, notes'[n].left > 0 PROVE notes'[n].meant <= card'
    <2>1. CASE notes'[n].meant = 0
      BY <1>2, <1>3, <2>1
    <2>2. CASE notes'[n].meant # 0
      <3>1. Prices!OlderGone(last) /\ notes'[n].meant = notes[n].meant /\ notes[n].left > 0
        BY <1>1, <1>5, <2>2
      <3>2. ~(notes[n].time < last.trigger)
        BY <3>1 DEF Prices!OlderGone, Prices!OlderThan, Prices!OnShelf
      <3>3. notes[n].meant <= last.price
        BY <1>2, <3>1, <3>2 DEF ShelfOK, ShelfTrue
      <3> QED
        BY <1>3, <3>1, <3>3
    <2> QED
      BY <2>1, <2>2
  <1>6. ShelfTrue'
    <2>1. ASSUME NEW n \in Notes, NEW st \in chain', notes'[n].left > 0, st.trigger <= notes'[n].time
          PROVE  notes'[n].meant <= st.price
      <3>1. notes[n].meant <= st.price /\ st.price \in Nat
        BY <1>2, <1>3, <2>1 DEF ShelfOK, ShelfTrue
      <3> QED
        BY <1>2, <3>1
    <2>2. \A n \in Notes : IF notes'[n].status = "received" THEN notes'[n].time \in 1..now'
                           ELSE notes'[n].time = 0 /\ notes'[n].left = 0 /\ notes'[n].meant = 0
      BY DEF ShelfOK, ShelfTrue
    <2>3. \A m, n \in Notes : notes'[m].time = notes'[n].time /\ notes'[m].time # 0 => m = n
      BY DEF ShelfOK, ShelfTrue
    <2> QED
      BY <1>5, <2>1, <2>2, <2>3 DEF ShelfTrue
  <1>7. ChainTrue'
    BY <1>2, <1>3 DEF ShelfOK, ChainTrue
  <1>8. ASSUME Apart PROVE ChainAlone'
    <2>1. ChainAlone
      BY <1>8 DEF ShelfOK
    <2>2. last.price < card
      BY <1>2, <2>1 DEF ChainAlone
    <2>3. awaited' = {st.note : st \in chain'}
      <3>1. awaited' = awaited \ Prices!NotesOf(chain \ chain')
        <4>1. chain \ chain' = S
          BY <1>3
        <4>2. awaited' = awaited \ Prices!NotesOf(S)
          BY <1>2, <1>3, <2>2
        <4> QED
          BY <4>1, <4>2
      <3> QED
        BY <1>3, <2>1, <3>1, AwaitedFewer DEF ChainAlone
    <2>4. ASSUME NEW a \in chain' PROVE a.price < card'
      <3>1. a \in chain \ S
        BY <1>3
      <3>2. a.trigger # last.trigger
        BY <1>1, <1>2, <3>1 DEF ShelfOK, ChainTrue
      <3>3. ~(a.trigger < last.trigger)
        BY <1>1, <1>8, <3>1
      <3> QED
        BY <1>2, <1>3, <2>1, <3>1, <3>2, <3>3 DEF ChainAlone
    <2>5. ASSUME NEW a \in chain' PROVE notes'[a.note].figure = a.price \/ card' <= notes'[a.note].figure
      <3>1. a \in chain /\ a.note \in Notes /\ notes[a.note].figure \in Nat
        BY <1>2, <1>3 DEF ShelfOK, PriceTyped, Notices
      <3> QED
        BY <1>2, <1>3, <2>1, <2>2, <3>1 DEF ChainAlone
    <2>6. \A a, b \in chain' : a.trigger < b.trigger =>
            b.price < a.price /\ notes'[a.note].time < notes'[b.note].time
      BY <1>2, <1>3, <2>1 DEF ChainAlone
    <2>7. \A a, b \in chain' : a.note = b.note => a = b
      BY <1>3, <2>1 DEF ChainAlone
    <2> QED
      BY <2>3, <2>4, <2>5, <2>6, <2>7 DEF ChainAlone, Prices!NotesOf
  <1> QED
    BY <1>4, <1>6, <1>7, <1>8 DEF ShelfOK, Apart

LEMMA UndecidedTyped ==
  ASSUME NEW all \in [Notes -> Notices]
  PROVE  /\ Prices!Undecided(all) \in [Notes -> Notices]
         /\ \A n \in Notes :
              /\ Prices!Undecided(all)[n].status = all[n].status
              /\ Prices!Undecided(all)[n].figure = all[n].figure
              /\ Prices!Undecided(all)[n].time = all[n].time
              /\ Prices!Undecided(all)[n].left = all[n].left
              /\ Prices!Undecided(all)[n].meant = 0
  BY DEF Prices!Undecided, Notices

LEMMA LeftFields ==
  ASSUME notes \in [Notes -> Notices], NEW old, NEW n \in Notes
  PROVE  /\ Prices!Left(old)[n].status = notes[n].status /\ Prices!Left(old)[n].figure = notes[n].figure
         /\ Prices!Left(old)[n].time = notes[n].time /\ Prices!Left(old)[n].left = notes[n].left
         /\ Prices!Left(old)[n].meant = notes[n].meant
  BY DEF Prices!Left, Notices

\* A person sets the price.
LEMMA PriceSet ==
  ASSUME ShelfOK, UNCHANGED <<now, load>>, NEW p \in Nat, Prices!Saved(card, p)
  PROVE  ShelfOK'
PROOF
  <1>1. CASE p = card
    BY <1>1, PricesRest DEF Prices!Saved
  <1>2. CASE p # card
    <2>1. /\ Prices!MoveCard(p) /\ Prices!Dropped(chain)
          /\ notes' = Prices!Undecided(Prices!Left(card))
      BY <1>2 DEF Prices!Saved
    <2>2. notes \in [Notes -> Notices] /\ now \in Nat
      BY DEF ShelfOK, PriceTyped
    <2>3. Prices!Left(card) \in [Notes -> Notices]
      BY <2>2, LeftTyped
    <2>4. notes' \in [Notes -> Notices]
      BY <2>1, <2>3, UndecidedTyped
    <2>5. ASSUME NEW n \in Notes
          PROVE  /\ notes'[n].status = notes[n].status /\ notes'[n].time = notes[n].time
                 /\ notes'[n].left = notes[n].left /\ notes'[n].meant = 0
      BY <2>1, <2>2, <2>3, LeftFields, UndecidedTyped
    <2>6. card' = p /\ told' = p /\ chain' = {} /\ awaited' = awaited \ Prices!NotesOf(chain)
      BY <2>1 DEF Prices!MoveCard, Prices!Dropped
    <2>7. PriceTyped'
      BY <2>2, <2>4, <2>6 DEF PriceTyped
    <2>8. ShelfTrue'
      BY <2>5, <2>6 DEF ShelfOK, ShelfTrue
    <2>9. ChainTrue' /\ (Apart => ChainAlone')
      BY <2>6 DEF ChainTrue, ShelfOK, ChainAlone, Prices!NotesOf
    <2> QED
      BY <2>7, <2>8, <2>9 DEF ShelfOK, Apart
  <1> QED
    BY <1>1, <1>2

------------------------------------------------------------------------------
\* The requests at the card.

\* Nothing that other requests rest on goes away.
Undisturbed(others) ==
  /\ \A n \in Notes : notes[n].status = "received" =>
       notes'[n].status = "received" /\ notes'[n].figure = notes[n].figure
  /\ \A u \in others : step[u] = "apply" => memo[u].due \subseteq chain'
  /\ \A st \in chain : Prices!OlderGone(st) => Prices!OlderGone(st)'

LEMMA OthersStay ==
  ASSUME AtTheCard, load' = load, NEW u \in Sessions,
         step'[u] = step[u], task'[u] = task[u], memo'[u] = memo[u],
         Apart => step'[u] = "idle", ~Apart => Undisturbed({u})
  PROVE  Deciding(u)'
PROOF
  <1>1. CASE Apart
    BY <1>1 DEF Deciding
  <1>2. CASE ~Apart
    <2>1. Deciding(u) /\ Undisturbed({u}) /\ ~Apart'
      BY <1>2 DEF AtTheCard, Apart
    <2>2. step[u] = "apply" => /\ memo[u].due \subseteq chain' /\ memo[u].due # {}
                              /\ \A st \in memo[u].due : Prices!OlderGone(st)'
      BY <1>2, <2>1 DEF Deciding, Undisturbed
    <2>3. step[u] = "write" => /\ task[u].note \in Notes /\ notes'[task[u].note].status = "received"
                              /\ memo[u].figure = notes'[task[u].note].figure
                              /\ task[u].kind # "toReceipt"
      BY <1>2, <2>1 DEF Deciding, Undisturbed
    <2>4. (step[u] = "propose" => task[u].note \in Notes) /\ step[u] # "edit"
      BY <1>2, <2>1 DEF Deciding
    <2> QED
      BY <2>1, <2>2, <2>3, <2>4 DEF Deciding
  <1> QED
    BY <1>1, <1>2

LEMMA OneAtCard ==
  ASSUME AtTheCard, load' = load, NEW s \in Sessions, NEW a, NEW b, NEW c,
         \/ Prices!Enter(s, a, b, c) /\ a # "idle"
         \/ Prices!Proceed(s, a, b, c) /\ a # "idle"
         \/ Prices!Leave(s, a) /\ a # "idle",
         Apart => OneByOne, ~Apart => Undisturbed(Sessions \ {s}),
         Deciding(s)',
         step'[s] = "apply" => \A u \in Sessions \ {s} : step[u] = "apply" => memo'[s].due \cap memo[u].due = {}
  PROVE  AtTheCard'
PROOF
  <1>1. /\ CardDesk'
        /\ \A u \in Sessions \ {s} : step'[u] = step[u] /\ task'[u] = task[u] /\ memo'[u] = memo[u]
    BY DEF AtTheCard, CardDesk, Prices!Enter, Prices!Proceed, Prices!Leave
  <1>2. step[s] # "idle" \/ step'[s] # "idle"
    BY DEF AtTheCard, CardDesk, Prices!Enter, Prices!Proceed, Prices!Leave
  <1>3. ASSUME Apart, NEW u \in Sessions \ {s} PROVE step'[u] = "idle"
    BY <1>1, <1>2, <1>3 DEF AtTheCard, OneByOne
  <1>4. ASSUME NEW u \in Sessions \ {s} PROVE Deciding(u)'
    <2>1. ~Apart => Undisturbed({u})
      BY DEF Undisturbed
    <2>2. Apart => step'[u] = "idle"
      BY <1>3
    <2>3. step'[u] = step[u] /\ task'[u] = task[u] /\ memo'[u] = memo[u]
      BY <1>1
    <2> QED
      BY <2>1, <2>2, <2>3, OthersStay
  <1>5. Apart' => \A u, v \in Sessions : step'[u] # "idle" /\ step'[v] # "idle" => u = v
    BY <1>3 DEF Apart
  <1>6. \A u, v \in Sessions : step'[u] = "apply" /\ step'[v] = "apply" /\ u # v
                                => memo'[u].due \cap memo'[v].due = {}
    BY <1>1 DEF AtTheCard
  <1> QED
    BY <1>1, <1>4, <1>5, <1>6 DEF AtTheCard

LEMMA NobodyAtCard ==
  ASSUME AtTheCard, load' = load, UNCHANGED desk,
         Apart => OneByOne, ~Apart => Undisturbed(Sessions)
  PROVE  AtTheCard'
PROOF
  <1>1. step' = step /\ task' = task /\ memo' = memo
    BY DEF desk
  <1>2. ASSUME NEW u \in Sessions PROVE Deciding(u)'
    <2>1. ~Apart => Undisturbed({u})
      BY DEF Undisturbed
    <2>2. Apart => step'[u] = "idle"
      BY DEF OneByOne
    <2> QED
      BY <1>1, <2>1, <2>2, OthersStay
  <1> QED
    BY <1>1, <1>2 DEF AtTheCard, CardDesk, Apart

\* Goods that come now are younger than every trigger; goods that go are gone.
LEMMA NoneOlder ==
  ASSUME ShelfOK,
         \A n \in Notes : notes'[n].left > 0 =>
           \/ notes[n].left > 0 /\ notes'[n].time = notes[n].time
           \/ notes'[n].time = now + 1
  PROVE  \A st \in chain : Prices!OlderGone(st) => Prices!OlderGone(st)'
PROOF
  <1>1. ASSUME NEW st \in chain, NEW n \in Notes, Prices!OlderGone(st),
               notes'[n].left > 0, notes'[n].time < st.trigger
        PROVE  FALSE
    <2>1. st.trigger \in Nat /\ st.trigger <= now /\ now \in Nat
      BY TriggersNow DEF ShelfOK, PriceTyped
    <2>2. notes[n].left > 0 /\ notes'[n].time = notes[n].time
      BY <1>1, <2>1
    <2> QED
      BY <1>1, <2>2 DEF Prices!OlderGone, Prices!OlderThan, Prices!OnShelf
  <1> QED
    BY <1>1 DEF Prices!OlderGone, Prices!OlderThan, Prices!OnShelf

\* Whoever finds steps free finds nobody applying them.
LEMMA FreeSteps ==
  ASSUME AtTheCard, NEW S, Prices!Free(S)
  PROVE  \A u \in Sessions : step[u] = "apply" => memo[u].due \cap S = {}
  BY DEF Prices!Free, Prices!Held

LEMMA FreeChain ==
  ASSUME AtTheCard, Prices!Free(chain)
  PROVE  \A u \in Sessions : step[u] # "apply"
  BY FreeSteps DEF AtTheCard, Deciding

------------------------------------------------------------------------------
\* The steps.
LEMMA WroteNote ==
  ASSUME PriceOK, load' = load, NEW n \in Notes, NEW p \in Figures, Prices!WriteNote(n, p),
         Apart => OneByOne
  PROVE  PriceOK'
PROOF
  <1> DEFINE new == Prices!Draft(p)
  <1>1. /\ notes[n].status = "none" /\ notes' = [notes EXCEPT ![n] = new]
        /\ UNCHANGED <<card, chain, awaited, told, now, desk>>
    BY DEF Prices!WriteNote, Prices!prices, Prices!desk, desk
  <1>2. /\ new \in Notices /\ new.status = "draft" /\ new.time = 0 /\ new.left = 0 /\ new.meant = 0
        /\ now \in Nat /\ notes \in [Notes -> Notices]
    BY PricesAssumption DEF Prices!Draft, Notices, PriceOK, ShelfOK, PriceTyped
  <1> HIDE DEF new
  <1>3. ShelfOK'
    <2>1. UNCHANGED <<card, told, chain, awaited, load>> /\ now' \in Nat /\ now <= now' /\ ShelfOK
      BY <1>1, <1>2 DEF PriceOK
    <2> QED
      BY <1>1, <1>2, <2>1, GoodsMove
  <1>4. \A m \in Notes : notes'[m] = IF m = n THEN new ELSE notes[m]
    BY <1>1, <1>2
  <1>5. \A st \in chain : Prices!OlderGone(st) => Prices!OlderGone(st)'
    BY <1>2, <1>4, NoneOlder DEF PriceOK
  <1>6. Undisturbed(Sessions)
    BY <1>1, <1>2, <1>4, <1>5 DEF Undisturbed, PriceOK, AtTheCard, Deciding
  <1> QED
    BY <1>1, <1>3, <1>6, NobodyAtCard DEF PriceOK

\* A request is let in, or goes away, without having done anything.
LEMMA JustAsked ==
  ASSUME PriceOK, load' = load, UNCHANGED <<card, notes, chain, awaited, told, now>>,
         NEW s \in Sessions, NEW a, NEW b, NEW c,
         \/ Prices!Enter(s, a, b, c) /\ a # "idle"
         \/ Prices!Proceed(s, a, b, c) /\ a # "idle"
         \/ Prices!Leave(s, a) /\ a # "idle",
         Apart => OneByOne, Deciding(s)',
         step'[s] = "apply" => \A u \in Sessions \ {s} : step[u] = "apply" => memo'[s].due \cap memo[u].due = {}
  PROVE  PriceOK'
PROOF
  <1>1. ShelfOK'
    BY PricesRest DEF PriceOK
  <1>2. \A st \in chain : Prices!OlderGone(st) => Prices!OlderGone(st)'
    BY DEF Prices!OlderGone, Prices!OlderThan, Prices!OnShelf
  <1>3. Undisturbed(Sessions \ {s})
    BY <1>2 DEF Undisturbed, PriceOK, AtTheCard, Deciding
  <1>4. AtTheCard'
    BY <1>3, OneAtCard DEF PriceOK
  <1> QED
    BY <1>1, <1>4 DEF PriceOK

LEMMA CardEntered ==
  ASSUME AtTheCard, NEW s \in Sessions, NEW a, NEW b, NEW c, Prices!Enter(s, a, b, c)
  PROVE  step'[s] = a /\ task'[s] = b /\ memo'[s] = c
  BY DEF AtTheCard, CardDesk, Prices!Enter

LEMMA CardProceeds ==
  ASSUME AtTheCard, NEW s \in Sessions, NEW a, NEW b, NEW c, Prices!Proceed(s, a, b, c)
  PROVE  step[s] = a /\ step'[s] = b /\ task'[s] = task[s] /\ memo'[s] = c
  BY DEF AtTheCard, CardDesk, Prices!Proceed

LEMMA CardLeft ==
  ASSUME AtTheCard, NEW s \in Sessions, NEW a, Prices!Leave(s, a)
  PROVE  step[s] = a /\ step'[s] = "idle" /\ Deciding(s)'
PROOF
  <1>1. step[s] = a /\ step'[s] = "idle"
    BY DEF AtTheCard, CardDesk, Prices!Leave
  <1> QED
    BY <1>1 DEF Deciding

LEMMA Received ==
  ASSUME PriceOK, load' = load, NEW s \in Sessions, NEW n \in Notes, NEW applies \in BOOLEAN,
         Prices!Receive(s, n, applies), Apart => OneByOne
  PROVE  PriceOK'
PROOF
  <1> DEFINE new == [notes[n] EXCEPT !.status = "received", !.time = now', !.left = Units]
  <1>1. /\ notes \in [Notes -> Notices] /\ now \in Nat
    BY DEF PriceOK, ShelfOK, PriceTyped
  <1>2. /\ notes[n].status = "draft" /\ now' = now + 1
        /\ UNCHANGED <<card, chain, awaited, told>>
    BY DEF Prices!Receive, Prices!PricesStay, Prices!prices
  <1>3. notes' = [notes EXCEPT ![n] = new]
    BY <1>1 DEF Prices!Receive
  <1>4. notes[n].meant = 0
    BY <1>2 DEF PriceOK, ShelfOK, ShelfTrue
  <1>5. /\ new \in Notices /\ new.status = "received" /\ new.time = now' /\ new.meant = 0
        /\ new.figure = notes[n].figure
    <2>1. notes[n] \in Notices /\ now' \in Nat /\ Units \in Nat
      BY <1>1, <1>2, PricesAssumption
    <2>2. PICK t \in Nat : t = now'
      BY <2>1
    <2>3. PICK old \in Notices : old = notes[n]
      BY <2>1
    <2>4. new = [old EXCEPT !.status = "received", !.time = t, !.left = Units]
      BY <2>2, <2>3
    <2> HIDE DEF new
    <2>5. new \in Notices /\ new.status = "received" /\ new.time = t /\ new.meant = old.meant
          /\ new.figure = old.figure
      BY <2>1, <2>4 DEF Notices
    <2> QED
      BY <1>4, <2>2, <2>3, <2>5
  <1> HIDE DEF new
  <1>6. ShelfOK'
    <2>1. UNCHANGED <<card, told, chain, awaited, load>> /\ now' \in Nat /\ now <= now' /\ ShelfOK
      BY <1>1, <1>2 DEF PriceOK
    <2> QED
      BY <1>2, <1>3, <1>5, <2>1, GoodsMove
  <1>7. \A m \in Notes : notes'[m] = IF m = n THEN new ELSE notes[m]
    BY <1>1, <1>3
  <1>8. \A st \in chain : Prices!OlderGone(st) => Prices!OlderGone(st)'
    BY <1>2, <1>5, <1>7, NoneOlder DEF PriceOK
  <1>9. Undisturbed(Sessions)
    BY <1>2, <1>5, <1>7, <1>8 DEF Undisturbed, PriceOK, AtTheCard, Deciding
  <1>10. CASE applies
    <2>1. Prices!Enter(s, "propose", [kind |-> "onReceive", note |-> n], Prices!NothingSeen)
      BY <1>10 DEF Prices!Receive
    <2>2. step'[s] = "propose" /\ task'[s].note = n
      BY <2>1, CardEntered DEF PriceOK
    <2>3. Deciding(s)'
      BY <2>2 DEF Deciding
    <2>4. Undisturbed(Sessions \ {s})
      BY <1>9 DEF Undisturbed
    <2> QED
      BY <1>6, <2>1, <2>2, <2>3, <2>4, OneAtCard DEF PriceOK
  <1>11. CASE ~applies
    <2>1. UNCHANGED desk
      BY <1>11 DEF Prices!Receive, Prices!desk, desk
    <2> QED
      BY <1>6, <1>9, <2>1, NobodyAtCard DEF PriceOK
  <1> QED
    BY <1>10, <1>11

LEMMA CardOrder == ASSUME Priced PROVE load' = load /\ (Apart => OneByOne) /\ InOrder
  BY DEF Priced, Apart

LEMMA Looked ==
  ASSUME PriceOK, Priced, NEW s \in Sessions,
         \/ \E n \in Notes, b \in BOOLEAN : Prices!Review(s, n, b)
         \/ \E p \in Figures : Prices!LookAtCard(s, p)
         \/ Prices!Sweep(s) \/ Prices!Propose(s) \/ Prices!PickDue(s) \/ Prices!GiveUp(s)
  PROVE  PriceOK'
PROOF
  <1>0. AtTheCard /\ load' = load /\ (Apart => OneByOne) /\ Apart' = Apart
    BY CardOrder DEF PriceOK, Apart
  <1>1. ASSUME NEW n \in Notes, NEW b \in BOOLEAN, Prices!Review(s, n, b) PROVE PriceOK'
    <2> DEFINE asked == [kind |-> IF b THEN "toCard" ELSE "toReceipt", note |-> n]
    <2>1. Prices!Enter(s, "propose", asked, Prices!NothingSeen)
          /\ UNCHANGED <<card, notes, chain, awaited, told, now>>
      BY <1>1 DEF Prices!Review, Prices!prices
    <2>2. step'[s] = "propose" /\ task'[s].note = n
      BY <1>0, <2>1, CardEntered
    <2>3. Deciding(s)'
      BY <2>2 DEF Deciding
    <2> HIDE DEF asked
    <2> QED
      BY <1>0, <2>1, <2>2, <2>3, JustAsked
  <1>2. ASSUME NEW p \in Figures, Prices!LookAtCard(s, p) PROVE PriceOK'
    <2> DEFINE asked == [kind |-> "edit", figure |-> p]
               read == [kind |-> "card", card |-> card]
    <2>1. Prices!Enter(s, "edit", asked, read)
          /\ UNCHANGED <<card, notes, chain, awaited, told, now>>
      BY <1>2 DEF Prices!LookAtCard, Prices!prices
    <2>2. step'[s] = "edit" /\ task'[s] = asked /\ memo'[s] = read
      BY <1>0, <2>1, CardEntered
    <2>3. Apart
      <3>1. task'[s].kind = "edit"
        BY <2>2
      <3> QED
        BY <3>1 DEF Priced, Without, Apart
    <2>4. Deciding(s)'
      <3>1. task'[s].figure \in Nat /\ memo'[s].card = card'
        BY <2>1, <2>2, PricesAssumption
      <3> QED
        BY <1>0, <2>2, <2>3, <3>1 DEF Deciding
    <2> HIDE DEF asked, read
    <2> QED
      BY <1>0, <2>1, <2>2, <2>4, JustAsked
  <1>3. CASE Prices!Sweep(s)
    <2>1. Prices!Enter(s, "settle", [kind |-> "sweep"], Prices!NothingSeen)
          /\ UNCHANGED <<card, notes, chain, awaited, told, now>>
      BY <1>3 DEF Prices!Sweep, Prices!PricesStay, Prices!prices
    <2>2. step'[s] = "settle"
      BY <1>0, <2>1, CardEntered
    <2>3. Deciding(s)'
      BY <2>2 DEF Deciding
    <2> QED
      BY <1>0, <2>1, <2>2, <2>3, JustAsked
  <1>4. CASE Prices!Propose(s)
    <2> DEFINE n == task[s].note
               read == [kind |-> "proposal", figure |-> notes[n].figure, card |-> card]
    <2>1. UNCHANGED <<card, notes, chain, awaited, told, now>> /\ n \in Notes
      BY <1>0, <1>4 DEF Prices!Propose, Prices!prices, AtTheCard, Deciding
    <2>2. CASE notes[n].status = "received" /\ Prices!Proceed(s, "propose", "write", read)
      <3>1. step'[s] = "write" /\ task'[s] = task[s] /\ memo'[s] = read
        BY <1>0, <2>2, CardProceeds
      <3>2. ~Apart => task'[s].kind # "toReceipt"
        BY DEF Priced, Without, Apart
      <3>3. /\ task'[s].note = n /\ notes'[n].status = "received" /\ memo'[s].figure = notes'[n].figure
            /\ memo'[s].card = card'
        BY <2>1, <2>2, <3>1
      <3>4. Deciding(s)'
        BY <1>0, <2>1, <3>1, <3>2, <3>3 DEF Deciding
      <3> HIDE DEF n, read
      <3> QED
        BY <1>0, <2>1, <2>2, <3>1, <3>4, JustAsked
    <2>3. CASE Prices!Leave(s, "propose")
      <3>1. step'[s] = "idle" /\ Deciding(s)'
        BY <1>0, <2>3, CardLeft
      <3> QED
        BY <1>0, <2>1, <2>3, <3>1, JustAsked
    <2> QED
      BY <1>4, <2>2, <2>3 DEF Prices!Propose
  <1>5. CASE Prices!PickDue(s)
    <2> DEFINE read == [kind |-> "steps", due |-> Prices!Due]
    <2>1. UNCHANGED <<card, notes, chain, awaited, told, now>>
      BY <1>5 DEF Prices!PickDue, Prices!PricesStay, Prices!prices
    <2>2. CASE Prices!Due # {} /\ Prices!Proceed(s, "settle", "apply", read)
      <3>1. step[s] = "settle" /\ step'[s] = "apply" /\ memo'[s].due = Prices!Due
        BY <1>0, <2>2, CardProceeds
      <3>2. /\ Prices!Due \subseteq chain /\ Prices!Due # {}
            /\ \A st \in Prices!Due : Prices!OlderGone(st)
        BY <2>2 DEF Prices!Due
      <3>3. Apart => Prices!Due = {st \in chain : Prices!OlderGone(st)}
        BY <1>0, <3>1 DEF AtTheCard, Prices!Due, Prices!Held
      <3>4. \A st : Prices!OlderGone(st)' <=> Prices!OlderGone(st)
        BY <2>1 DEF Prices!OlderGone, Prices!OlderThan, Prices!OnShelf
      <3>5. /\ memo'[s].due \subseteq chain' /\ memo'[s].due # {}
            /\ \A st \in memo'[s].due : Prices!OlderGone(st)'
        BY <2>1, <3>1, <3>2, <3>4
      <3>6. Apart => memo'[s].due = {st \in chain' : Prices!OlderGone(st)'}
        BY <2>1, <3>1, <3>3, <3>4
      <3>7. Deciding(s)'
        BY <1>0, <3>1, <3>5, <3>6 DEF Deciding
      <3>8. \A u \in Sessions \ {s} : step[u] = "apply" => memo'[s].due \cap memo[u].due = {}
        BY <3>1 DEF Prices!Due, Prices!Held
      <3> HIDE DEF read
      <3> QED
        BY <1>0, <2>1, <2>2, <3>7, <3>8, JustAsked
    <2>3. CASE Prices!Leave(s, "settle")
      <3>1. step'[s] = "idle" /\ Deciding(s)'
        BY <1>0, <2>3, CardLeft
      <3> QED
        BY <1>0, <2>1, <2>3, <3>1, JustAsked
    <2> QED
      BY <1>5, <2>2, <2>3 DEF Prices!PickDue
  <1>6. CASE Prices!GiveUp(s)
    <2>1. PICK here : here = step[s]
      OBVIOUS
    <2>2. Prices!Leave(s, here) /\ here # "idle" /\ UNCHANGED <<card, notes, chain, awaited, told, now>>
      BY <1>6, <2>1 DEF Prices!GiveUp, Prices!Abandon, Prices!Leave, Prices!prices
    <2>3. step'[s] = "idle" /\ Deciding(s)'
      BY <1>0, <2>2, CardLeft
    <2>4. step'[s] # "apply"
      BY <2>3
    <2> QED
      BY ONLY PriceOK, <1>0, <2>2, <2>3, <2>4, JustAsked
  <1> QED
    BY <1>1, <1>2, <1>3, <1>4, <1>5, <1>6

\* A unit leaves the shelf.
LEMMA UnitLeaves ==
  ASSUME PriceOK, load' = load, NEW n \in Notes, notes[n].left > 0,
         notes' = [notes EXCEPT ![n].left = @ - 1], UNCHANGED <<card, chain, awaited, told, now>>
  PROVE  ShelfOK' /\ Undisturbed(Sessions)
PROOF
  <1> DEFINE new == [notes[n] EXCEPT !.left = @ - 1]
  <1>1. /\ notes \in [Notes -> Notices] /\ now \in Nat /\ ShelfOK
    BY DEF PriceOK, ShelfOK, PriceTyped
  <1>2. notes' = [notes EXCEPT ![n] = new]
    BY <1>1
  <1>3. /\ new \in Notices /\ new.status = notes[n].status /\ new.time = notes[n].time
        /\ new.meant = notes[n].meant /\ new.figure = notes[n].figure
    BY <1>1 DEF Notices
  <1> HIDE DEF new
  <1>4. ShelfOK'
    <2>1. UNCHANGED <<card, told, chain, awaited, load>> /\ now' \in Nat /\ now <= now' /\ now' = now
      BY <1>1
    <2> QED
      BY <1>1, <1>2, <1>3, <2>1, GoodsMove
  <1>5. \A m \in Notes : notes'[m] = IF m = n THEN new ELSE notes[m]
    BY <1>1, <1>2
  <1>6. \A st \in chain : Prices!OlderGone(st) => Prices!OlderGone(st)'
    BY <1>3, <1>5, NoneOlder DEF PriceOK
  <1> QED
    BY <1>3, <1>4, <1>5, <1>6 DEF Undisturbed, PriceOK, AtTheCard, Deciding

LEMMA SoldOff ==
  ASSUME PriceOK, Priced, Prices!WriteOff \/ \E s \in Sessions : Prices!Sell(s)
  PROVE  PriceOK'
PROOF
  <1>0. load' = load /\ (Apart => OneByOne) /\ AtTheCard
    BY CardOrder DEF PriceOK
  <1>1. PICK n \in Notes : notes[n].left > 0 /\ notes' = [notes EXCEPT ![n].left = @ - 1]
    BY DEF Prices!WriteOff, Prices!Sell, Prices!NextToSell, Prices!OnShelf
  <1>2. UNCHANGED <<card, chain, awaited, told, now>>
    BY DEF Prices!WriteOff, Prices!Sell, Prices!PricesStay, Prices!prices
  <1>3. ShelfOK' /\ Undisturbed(Sessions)
    BY <1>0, <1>1, <1>2, UnitLeaves
  <1>4. CASE Prices!WriteOff
    <2>1. UNCHANGED desk
      BY <1>4 DEF Prices!WriteOff, Prices!desk, desk
    <2> QED
      BY <1>0, <1>3, <2>1, NobodyAtCard DEF PriceOK
  <1>5. ASSUME NEW s \in Sessions, Prices!Sell(s) PROVE PriceOK'
    <2>1. Prices!Enter(s, "settle", [kind |-> "sale"], Prices!NothingSeen)
      BY <1>5 DEF Prices!Sell
    <2>2. step'[s] = "settle"
      BY <1>0, <2>1, CardEntered
    <2>3. Deciding(s)'
      BY <2>2 DEF Deciding
    <2>4. Undisturbed(Sessions \ {s})
      BY <1>3 DEF Undisturbed
    <2>5. AtTheCard'
      BY <1>0, <2>1, <2>2, <2>3, <2>4, OneAtCard
    <2> QED
      BY <1>3, <2>5 DEF PriceOK
  <1> QED
    BY <1>4, <1>5

\* What is written about a price moves no goods.
LEMMA WritingMovesNothing ==
  ASSUME notes \in [Notes -> Notices], NEW n \in Notes, NEW p, Prices!PriceWritten(n, p), NEW m \in Notes
  PROVE  /\ notes'[m].status = notes[m].status /\ notes'[m].figure = notes[m].figure
         /\ notes'[m].time = notes[m].time /\ notes'[m].left = notes[m].left
PROOF
  <1>1. CASE notes' = [Prices!Left(card) EXCEPT ![n].meant = p]
    <2>1. Prices!Left(card) \in [Notes -> Notices]
      BY LeftTyped
    <2>2. /\ notes'[m].status = Prices!Left(card)[m].status /\ notes'[m].figure = Prices!Left(card)[m].figure
          /\ notes'[m].time = Prices!Left(card)[m].time /\ notes'[m].left = Prices!Left(card)[m].left
      BY <1>1, <2>1 DEF Notices
    <2> QED
      BY <2>2, LeftFields
  <1>2. CASE notes' = [notes EXCEPT ![n].meant = p]
    BY <1>2 DEF Notices
  <1>3. CASE notes' = notes
    BY <1>3
  <1> QED
    BY <1>1, <1>2, <1>3 DEF Prices!PriceWritten

\* With nobody applying steps there is nobody to disturb.
LEMMA NobodyDisturbed ==
  ASSUME PriceOK, NEW S, Prices!Free(S), chain \ S \subseteq chain',
         \A m \in Notes : /\ notes'[m].status = notes[m].status /\ notes'[m].figure = notes[m].figure
                          /\ notes'[m].time = notes[m].time /\ notes'[m].left = notes[m].left
  PROVE  Undisturbed(Sessions)
PROOF
  <1>1. \A st \in chain : Prices!OlderGone(st) => Prices!OlderGone(st)'
    BY NoneOlder DEF PriceOK
  <1>2. ASSUME NEW u \in Sessions, step[u] = "apply" PROVE memo[u].due \subseteq chain'
    <2>1. memo[u].due \subseteq chain /\ memo[u].due \cap S = {}
      BY <1>2, FreeSteps DEF PriceOK, AtTheCard, Deciding
    <2> QED
      BY <2>1
  <1> QED
    BY <1>1, <1>2 DEF Undisturbed

\* A request that is answered leaves the others as they are.
LEMMA Answered ==
  ASSUME PriceOK, load' = load, NEW s \in Sessions, NEW a, Prices!Leave(s, a), a # "idle",
         Apart => OneByOne, ~Apart => Undisturbed(Sessions \ {s}), ShelfOK'
  PROVE  PriceOK'
PROOF
  <1>1. step'[s] = "idle" /\ Deciding(s)' /\ AtTheCard
    BY CardLeft DEF PriceOK
  <1>2. step'[s] # "apply"
    BY <1>1
  <1>3. AtTheCard'
    BY <1>1, <1>2, OneAtCard
  <1> QED
    BY <1>3 DEF PriceOK

LEMMA FiguresWritten ==
  ASSUME PriceOK, Priced, NEW s \in Sessions, Prices!WritePrices(s)
  PROVE  PriceOK'
PROOF
  <1>0. AtTheCard /\ ShelfOK /\ load' = load /\ (Apart => OneByOne) /\ InOrder
    BY CardOrder DEF PriceOK
  <1>1. Prices!Leave(s, "write") /\ task[s].kind # "toReceipt" /\ now' = now
    BY DEF Prices!WritePrices
  <1>2. step[s] = "write" /\ step'[s] = "idle" /\ Deciding(s)
    BY <1>0, <1>1, CardLeft DEF AtTheCard
  <1>3. PICK n \in Notes : n = task[s].note
    BY <1>2 DEF Deciding
  <1>4. notes \in [Notes -> Notices]
    BY <1>0 DEF ShelfOK, PriceTyped
  <1>5. PICK p \in Nat : p = memo[s].figure /\ p = notes[n].figure
    BY <1>2, <1>3, <1>4 DEF Deciding, Notices
  <1>6. notes[n].status = "received" /\ Prices!PriceWritten(n, p)
    BY <1>2, <1>3, <1>5 DEF Deciding, Prices!WritePrices
  <1>7. ShelfOK'
    <2>1. UNCHANGED <<now, load>>
      BY <1>0, <1>1
    <2>2. CASE UNCHANGED <<card, chain, notes>>
      BY <1>0, <1>6, <2>1, <2>2, NothingWritten
    <2>3. CASE ~UNCHANGED <<card, chain, notes>>
      <3>1. \A m \in Notes : notes[m].time <= notes[n].time
        BY <1>0, <1>1, <1>2, <1>3, <2>3 DEF InOrder
      <3> QED
        BY <1>0, <1>5, <1>6, <2>1, <3>1, FigureWritten
    <2> QED
      BY <2>2, <2>3
  <1>8. Undisturbed(Sessions \ {s})
    <2>1. \A m \in Notes : /\ notes'[m].status = notes[m].status /\ notes'[m].figure = notes[m].figure
                           /\ notes'[m].time = notes[m].time /\ notes'[m].left = notes[m].left
      BY <1>4, <1>6, WritingMovesNothing
    <2>2. Prices!Free(chain) /\ chain \ chain \subseteq chain'
      BY <1>6 DEF Prices!PriceWritten
    <2>3. Undisturbed(Sessions)
      BY <2>1, <2>2, NobodyDisturbed
    <2> QED
      BY <2>3 DEF Undisturbed
  <1> QED
    BY <1>0, <1>1, <1>7, <1>8, Answered

LEMMA LineCorrected ==
  ASSUME PriceOK, Priced, NEW s \in Sessions, Prices!CorrectNote(s)
  PROVE  PriceOK'
PROOF
  <1>0. AtTheCard /\ ShelfOK /\ load' = load /\ (Apart => OneByOne)
    BY CardOrder DEF PriceOK
  <1>1. Prices!Leave(s, "write") /\ task[s].kind = "toReceipt"
        /\ UNCHANGED <<card, chain, awaited, told, now>>
    BY DEF Prices!CorrectNote, Prices!PricesStay, Prices!prices
  <1>2. step[s] = "write" /\ Deciding(s)
    BY <1>0, <1>1, CardLeft DEF AtTheCard
  <1>3. PICK n \in Notes : n = task[s].note
    BY <1>2 DEF Deciding
  <1>4. Apart /\ notes[n].status = "received" /\ memo[s].card = card
    BY <1>1, <1>2, <1>3 DEF Deciding
  <1>5. notes' = [notes EXCEPT ![n].figure = card, ![n].passed = FALSE]
    <2>1. notes' = [notes EXCEPT ![n].figure = memo[s].card, ![n].passed = (memo[s].card # card)]
      BY <1>3 DEF Prices!CorrectNote
    <2>2. (memo[s].card # card) = FALSE
      BY <1>4
    <2> QED
      BY <1>4, <2>1, <2>2
  <1>6. ShelfOK'
    <2>1. UNCHANGED <<card, chain, awaited, told, now, load>>
      BY <1>0, <1>1
    <2> QED
      BY <1>0, <1>4, <1>5, <2>1, NoteCorrected
  <1> QED
    BY <1>0, <1>1, <1>4, <1>6, Answered

LEMMA DeliveryTakenBack ==
  ASSUME PriceOK, Priced, NEW s \in Sessions, NEW n \in Notes, Prices!TakeBack(s, n)
  PROVE  PriceOK'
PROOF
  <1> DEFINE its == {st \in chain : st.note = n}
             asked == [kind |-> "takeBack"]
  <1>0. AtTheCard /\ ShelfOK /\ load' = load /\ (Apart => OneByOne)
    BY CardOrder DEF PriceOK
  <1>1. /\ Prices!Enter(s, "settle", asked, Prices!NothingSeen)
        /\ notes' = [notes EXCEPT ![n].status = "draft", ![n].time = 0, ![n].left = 0, ![n].meant = 0]
        /\ Prices!Dropped(its) /\ UNCHANGED <<card, told, now>>
    BY DEF Prices!TakeBack
  <1>2. step'[s] = "settle" /\ task'[s] = asked
    BY <1>0, <1>1, CardEntered
  <1>3. Apart
    <2>1. task'[s].kind = "takeBack"
      BY <1>2
    <2> QED
      BY <2>1 DEF Priced, Without, Apart
  <1>4. chain' = chain \ its /\ awaited' = awaited \ Prices!NotesOf(its)
    BY <1>1 DEF Prices!Dropped
  <1>5. ShelfOK'
    <2>1. UNCHANGED <<card, told, now, load>>
      BY <1>0, <1>1
    <2>2. chain' \subseteq chain /\ chain \ chain' = its
      BY <1>4
    <2>3. awaited' = awaited \ Prices!NotesOf(chain \ chain')
      BY <1>4, <2>2
    <2>4. notes \in [Notes -> Notices]
      BY <1>0 DEF ShelfOK, PriceTyped
    <2>5. /\ notes' \in [Notes -> Notices]
          /\ notes'[n].status = "draft" /\ notes'[n].time = 0 /\ notes'[n].left = 0 /\ notes'[n].meant = 0
          /\ \A m \in Notes \ {n} : notes'[m] = notes[m]
      <3>1. PICK new : new = [notes[n] EXCEPT !.status = "draft", !.time = 0, !.left = 0, !.meant = 0]
        OBVIOUS
      <3>2. notes' = [notes EXCEPT ![n] = new]
        BY <1>1, <2>4, <3>1
      <3>3. notes[n] \in Notices
        BY <2>4
      <3>4. /\ new \in Notices /\ new.status = "draft" /\ new.time = 0 /\ new.left = 0 /\ new.meant = 0
        BY <3>1, <3>3 DEF Notices
      <3> QED
        BY <2>4, <3>2, <3>4
    <2>6. \A st \in chain' : st.note # n
      BY <1>4
    <2> QED
      BY <1>0, <2>1, <2>2, <2>3, <2>5, <2>6, FewerSteps
  <1>6. Deciding(s)' /\ step'[s] # "apply"
    BY <1>2 DEF Deciding
  <1>7. AtTheCard'
    <2> HIDE DEF asked
    <2> QED
      BY <1>0, <1>1, <1>3, <1>6, OneAtCard
  <1> QED
    BY <1>5, <1>7 DEF PriceOK

\* The card as it went: the goods stay where they are.
LEMMA CardWent ==
  ASSUME notes \in [Notes -> Notices],
         NEW all, all = IF card' = card THEN notes ELSE Prices!Left(card)
  PROVE  /\ all \in [Notes -> Notices]
         /\ \A n \in Notes :
              /\ all[n].status = notes[n].status /\ all[n].figure = notes[n].figure
              /\ all[n].time = notes[n].time /\ all[n].left = notes[n].left
              /\ all[n].meant = notes[n].meant
  BY LeftTyped, LeftFields

LEMMA DueApplied ==
  ASSUME PriceOK, Priced, NEW s \in Sessions, Prices!ApplyDue(s)
  PROVE  PriceOK'
PROOF
  <1>0. AtTheCard /\ ShelfOK /\ load' = load /\ (Apart => OneByOne)
    BY CardOrder DEF PriceOK
  <1>1. /\ Prices!Leave(s, "apply") /\ Prices!Applied(memo[s].due) /\ now' = now
        /\ notes' = IF card' = card THEN notes ELSE Prices!Left(card)
    BY DEF Prices!ApplyDue
  <1>2. step[s] = "apply" /\ Deciding(s)
    BY <1>0, <1>1, CardLeft DEF AtTheCard
  <1>3. PICK S : S = memo[s].due
    OBVIOUS
  <1>4. /\ S \subseteq chain /\ S # {} /\ \A st \in S : Prices!OlderGone(st)
        /\ Apart => S = {st \in chain : Prices!OlderGone(st)}
    BY <1>2, <1>3 DEF Deciding
  <1>5. notes \in [Notes -> Notices]
    BY <1>0 DEF ShelfOK, PriceTyped
  <1>6. /\ notes' \in [Notes -> Notices]
        /\ \A n \in Notes :
             /\ notes'[n].status = notes[n].status /\ notes'[n].figure = notes[n].figure
             /\ notes'[n].time = notes[n].time /\ notes'[n].left = notes[n].left
             /\ notes'[n].meant = notes[n].meant
    BY <1>1, <1>5, CardWent
  <1>7. Apart => \A a \in S, b \in chain : b.trigger < a.trigger => b \in S
    <2>1. ASSUME Apart, NEW a \in S, NEW b \in chain, b.trigger < a.trigger PROVE Prices!OlderGone(b)
      <3>1. a.trigger \in Nat /\ b.trigger \in Nat /\ \A n \in Notes : notes[n].time \in Nat
        BY <1>0, <1>4 DEF ShelfOK, PriceTyped, Notices
      <3>2. \A n \in Notes : ~(notes[n].left > 0 /\ notes[n].time < a.trigger)
        BY <1>4 DEF Prices!OlderGone, Prices!OlderThan, Prices!OnShelf
      <3>3. \A n \in Notes : ~(notes[n].left > 0 /\ notes[n].time < b.trigger)
        BY <2>1, <3>1, <3>2
      <3> QED
        BY <3>3 DEF Prices!OlderGone, Prices!OlderThan, Prices!OnShelf
    <2> QED
      BY <1>4, <2>1
  <1>8. ShelfOK'
    <2>1. UNCHANGED <<now, load>> /\ Prices!Applied(S)
      BY <1>0, <1>1, <1>3
    <2> QED
      BY <1>0, <1>4, <1>6, <1>7, <2>1, StepsApplied
  <1>9. Undisturbed(Sessions \ {s})
    <2>1. \A st \in chain : Prices!OlderGone(st) => Prices!OlderGone(st)'
      BY <1>0, <1>6, NoneOlder
    <2>2. ASSUME NEW u \in Sessions \ {s}, step[u] = "apply" PROVE memo[u].due \subseteq chain'
      <3>1. memo[u].due \subseteq chain /\ memo[s].due \cap memo[u].due = {}
        BY <1>0, <1>2, <2>2 DEF AtTheCard, Deciding
      <3>2. chain' = chain \ S
        BY <1>1, <1>3 DEF Prices!Applied
      <3> QED
        BY <1>3, <3>1, <3>2
    <2> QED
      BY <1>6, <2>1, <2>2 DEF Undisturbed
  <1> QED
    BY <1>0, <1>1, <1>8, <1>9, Answered

\* A person decides at the card.
LEMMA AppliedNow ==
  ASSUME PriceOK, Priced, Prices!ApplyNow
  PROVE  PriceOK'
PROOF
  <1>0. AtTheCard /\ ShelfOK /\ load' = load /\ (Apart => OneByOne)
    BY CardOrder DEF PriceOK
  <1>1. /\ Prices!Free(chain) /\ UNCHANGED <<now, desk>>
        /\ notes' = Prices!Undecided(IF card' = card THEN notes ELSE Prices!Left(card))
    BY DEF Prices!ApplyNow, Prices!desk, desk
  <1>2. PICK st \in chain : Prices!Applied({st} \union {other \in chain : Prices!Before(other, st)})
    BY DEF Prices!ApplyNow
  <1>3. PICK S : S = {st} \union {other \in chain : Prices!Before(other, st)}
    OBVIOUS
  <1>4. notes \in [Notes -> Notices] /\ \A a \in chain : a.trigger \in Nat
    BY <1>0 DEF ShelfOK, PriceTyped
  <1>5. PICK all : all = IF card' = card THEN notes ELSE Prices!Left(card)
    OBVIOUS
  <1>6. /\ notes' \in [Notes -> Notices]
        /\ \A n \in Notes :
             /\ notes'[n].status = notes[n].status /\ notes'[n].figure = notes[n].figure
             /\ notes'[n].time = notes[n].time /\ notes'[n].left = notes[n].left
             /\ notes'[n].meant = 0
    <2>1. notes' = Prices!Undecided(all)
      BY <1>1, <1>5
    <2> QED
      BY <1>4, <1>5, <2>1, CardWent, UndecidedTyped
  <1>7. /\ S \subseteq chain /\ S # {} /\ Prices!Applied(S)
        /\ \A a \in S, b \in chain : b.trigger < a.trigger => b \in S
    <2>1. ASSUME NEW a \in S, NEW b \in chain, b.trigger < a.trigger PROVE b \in S
      <3>1. a \in chain /\ a.trigger <= st.trigger
        BY <1>3, <1>4 DEF Prices!Before
      <3>2. b.trigger < st.trigger
        BY <1>4, <2>1, <3>1
      <3> QED
        BY <1>3, <3>2 DEF Prices!Before
    <2> QED
      BY <1>2, <1>3, <2>1
  <1>8. ShelfOK'
    <2>1. UNCHANGED <<now, load>>
      BY <1>0, <1>1
    <2> QED
      BY <1>0, <1>6, <1>7, <2>1, StepsApplied
  <1>9. Undisturbed(Sessions)
    <2>1. chain \ chain \subseteq chain'
      OBVIOUS
    <2> QED
      BY <1>1, <1>6, <2>1, NobodyDisturbed
  <1> QED
    BY <1>0, <1>1, <1>8, <1>9, NobodyAtCard DEF PriceOK

LEMMA StepsCancelled ==
  ASSUME PriceOK, Priced, Prices!Cancel
  PROVE  PriceOK'
PROOF
  <1>0. AtTheCard /\ ShelfOK /\ load' = load /\ (Apart => OneByOne)
    BY CardOrder DEF PriceOK
  <1>1. UNCHANGED <<card, told, notes, now, desk>>
    BY DEF Prices!Cancel, Prices!desk, desk
  <1>2. PICK S : S \subseteq chain /\ Prices!Free(S) /\ Prices!Dropped(S)
    BY DEF Prices!Cancel
  <1>3. /\ chain' = chain \ S /\ chain' \subseteq chain
        /\ awaited' = awaited \ Prices!NotesOf(chain \ chain')
    <2>1. chain' = chain \ S /\ chain \ chain' = S
      BY <1>2 DEF Prices!Dropped
    <2> QED
      BY <1>2, <2>1 DEF Prices!Dropped
  <1>4. ShelfOK'
    <2>1. UNCHANGED <<card, told, now, load>> /\ notes' \in [Notes -> Notices]
      BY <1>0, <1>1 DEF ShelfOK, PriceTyped
    <2> QED
      BY <1>0, <1>1, <1>3, <2>1, FewerSteps
  <1>5. Undisturbed(Sessions)
    BY <1>1, <1>2, <1>3, NobodyDisturbed
  <1> QED
    BY <1>0, <1>1, <1>4, <1>5, NobodyAtCard DEF PriceOK

LEMMA CardSaved ==
  ASSUME PriceOK, Priced, NEW s \in Sessions, Prices!SaveCard(s)
  PROVE  PriceOK'
PROOF
  <1>0. AtTheCard /\ ShelfOK /\ load' = load /\ (Apart => OneByOne)
    BY CardOrder DEF PriceOK
  <1>1. Prices!Leave(s, "edit") /\ Prices!Saved(memo[s].card, task[s].figure) /\ now' = now
    BY DEF Prices!SaveCard
  <1>2. step[s] = "edit" /\ Deciding(s)
    BY <1>0, <1>1, CardLeft DEF AtTheCard
  <1>3. PICK p \in Nat : p = task[s].figure
    BY <1>2 DEF Deciding
  <1>4. Apart /\ memo[s].card = card
    BY <1>2 DEF Deciding
  <1>5. ShelfOK'
    <2>1. UNCHANGED <<now, load>> /\ Prices!Saved(card, p)
      BY <1>0, <1>1, <1>3, <1>4
    <2> QED
      BY <1>0, <2>1, PriceSet
  <1> QED
    BY <1>0, <1>1, <1>4, <1>5, Answered

LEMMA PriceStarts ==
  ASSUME Prices!PriceInit
  PROVE  PriceOK
PROOF
  <1> DEFINE old == Prices!Draft(0)
             first == [old EXCEPT !.status = "received", !.time = 1, !.left = Units, !.meant = Opening]
             none == [old EXCEPT !.status = "none"]
  <1>1. /\ card = Opening /\ told = Opening /\ chain = {} /\ awaited = {} /\ now = 1
        /\ \A s \in Sessions : step[s] = "idle"
        /\ CardDesk
        /\ notes = [n \in Notes |-> IF n = 1 THEN first ELSE none]
    BY DEF Prices!PriceInit, Prices!DeskInit, CardDesk, Prices!NoNote
  <1>2. old \in Notices /\ old.time = 0 /\ old.left = 0 /\ old.meant = 0
    BY DEF Prices!Draft, Notices
  <1> HIDE DEF old
  <1>3. /\ first \in Notices /\ none \in Notices
        /\ first.status = "received" /\ first.time = 1 /\ first.meant = Opening
        /\ none.status = "none" /\ none.time = 0 /\ none.left = 0 /\ none.meant = 0
    BY <1>2, PricesAssumption DEF Notices
  <1> HIDE DEF first, none
  <1>4. \A n \in Notes : (n = 1 /\ notes[n] = first) \/ (n # 1 /\ notes[n] = none)
    BY <1>1
  <1>5. PriceTyped
    BY <1>1, <1>3, PricesAssumption DEF PriceTyped
  <1>6. ShelfTrue
    BY <1>1, <1>3, <1>4, PricesAssumption DEF ShelfTrue
  <1>7. ChainTrue /\ ChainAlone
    BY <1>1 DEF ChainTrue, ChainAlone, Prices!NotesOf
  <1>8. AtTheCard
    BY <1>1 DEF AtTheCard, Deciding
  <1> QED
    BY <1>5, <1>6, <1>7, <1>8 DEF PriceOK, ShelfOK

LEMMA PriceHolds ==
  ASSUME PriceOK, [MCNext]_<<vars, pricing, load>>
  PROVE  PriceOK'
PROOF
  <1>1. CASE Prices!PriceNext /\ Priced
    BY <1>1, WroteNote, Received, Looked, FiguresWritten, LineCorrected, DeliveryTakenBack, SoldOff,
       DueApplied, AppliedNow, StepsCancelled, CardSaved, CardOrder DEF Prices!PriceNext, Prices!Handle
  <1>2. CASE UNCHANGED <<pricing, load>>
    <2>1. UNCHANGED <<card, notes, chain, awaited, told, now, step, task, memo, load>>
      BY <1>2 DEF pricing, desk
    <2>2. ShelfOK'
      BY <2>1, PricesRest DEF PriceOK
    <2>3. AtTheCard'
      BY <2>1 DEF PriceOK, AtTheCard, CardDesk, Deciding, Apart, Prices!OlderGone, Prices!OlderThan,
                  Prices!OnShelf
    <2> QED
      BY <2>2, <2>3 DEF PriceOK
  <1>3. ASSUME TillNext PROVE load' = load
    BY <1>3 DEF TillNext, Loaded
  <1> QED
    BY <1>1, <1>2, <1>3 DEF MCNext, Exhausted

\* As long as it is the newest delivery whose price is decided (InOrder), no
\* delivery's drop reaches goods that were there before it, however requests
\* overlap; and one request at a time the waiting prices fall along the chain.
THEOREM DropsWaitThm == MCSpec => []DropsWait
PROOF
  <1>1. MCInit => PriceOK
    BY PriceStarts DEF MCInit
  <1>2. PriceOK /\ [MCNext]_<<vars, pricing, load>> => PriceOK'
    BY PriceHolds
  <1>3. ASSUME PriceOK PROVE DropsWait
    <2>1. Prices!SoldAsMeant
      BY <1>3 DEF PriceOK, ShelfOK, ShelfTrue, Prices!SoldAsMeant, Prices!NextToSell, Prices!OnShelf
    <2>2. ASSUME Apart PROVE Prices!ChainFalls
      <3>1. ChainAlone
        BY <1>3, <2>2 DEF PriceOK, ShelfOK
      <3>2. ASSUME NEW a \in chain, NEW b \in chain, Prices!Before(a, b) PROVE b.price < a.price
        <4>1. CASE a.trigger < b.trigger
          BY <3>1, <4>1 DEF ChainAlone
        <4>2. CASE a.trigger = b.trigger /\ a.made < b.made
          <5>1. a = b /\ a.made \in Nat
            BY <1>3, <4>2 DEF PriceOK, ShelfOK, ChainTrue, PriceTyped
          <5> QED
            BY <4>2, <5>1
        <4> QED
          BY <3>2, <4>1, <4>2 DEF Prices!Before
      <3> QED
        BY <3>1, <3>2 DEF ChainAlone, Prices!ChainFalls
    <2> QED
      BY <2>1, <2>2 DEF DropsWait, Apart
  <1> QED
    BY <1>1, <1>2, <1>3, PTL DEF MCSpec

\* The history ends on the card's price, and one request at a time a delivery's
\* page tells which of its prices still waits.
THEOREM PricesToldThm == MCSpec => []PricesTold
PROOF
  <1>1. MCInit => PriceOK
    BY PriceStarts DEF MCInit
  <1>2. PriceOK /\ [MCNext]_<<vars, pricing, load>> => PriceOK'
    BY PriceHolds
  <1>3. PriceOK => PricesTold
    BY DEF PriceOK, ShelfOK, PriceTyped, ChainAlone, Apart, PricesTold, Prices!HistoryTrue, Prices!RecordTrue
  <1> QED
    BY <1>1, <1>2, <1>3, PTL DEF MCSpec
=============================================================================
