-------------------------- MODULE StockFreezeProofs --------------------------
(***************************************************************************)
(* Theorems about StockFreeze for any number of stock-takes and requests,  *)
(* whatever is lost or restarted: the adjustments of a count are posted    *)
(* once, and a count that ended stays ended.                               *)
(***************************************************************************)
EXTENDS MCStockFreeze, Sums, TLAPS

\* A session that ends, or starts over, holds nothing.
LEMMA Idle ==
  ASSUME IInv, NEW s \in Sessions, NEW here, End(s, here), UNCHANGED <<status, posted>>,
         flag' \in {"absent", "open", "clear"}
  PROVE  IInv'
<1>1. /\ phase' = [phase EXCEPT ![s] = "idle"]
      /\ job' = [job EXCEPT ![s] = NoJob]
  BY DEF End, Step
<1>2. NoJob \in [kind : AllHandlers \cup {"none"}, take : Takes \cup {NoTake}, qty : Int]
  BY DEF NoJob
<1>3. TypeOK'
  BY <1>1, <1>2 DEF IInv, TypeOK, Phases
<1>4. /\ phase'[s] = "idle"
      /\ \A u \in Sessions \ {s} : phase'[u] = phase[u] /\ job'[u] = job[u]
  BY <1>1 DEF IInv, TypeOK
<1>5. Holders'
  BY <1>4 DEF IInv, Holders
<1>6. Asked'
  BY <1>4 DEF IInv, Asked
<1>7. AppliedOnce'
  BY DEF IInv, AppliedOnce
<1> QED
  BY <1>3, <1>5, <1>6, <1>7 DEF IInv

\* A session that goes on, other than to take a lock, takes nothing from others.
LEMMA Onwards ==
  ASSUME IInv, NEW s \in Sessions, NEW here, NEW there \in Phases, Step(s, here, there),
         UNCHANGED <<job, status, posted>>, flag' \in {"absent", "open", "clear"},
         there \notin {"complete", "look"},
         there \in {"scan", "count", "lock", "cancel"} => job[s].take \in Takes
  PROVE  IInv'
<1>1. phase' = [phase EXCEPT ![s] = there]
  BY DEF Step
<1>2. TypeOK'
  BY <1>1 DEF IInv, TypeOK
<1>3. phase'[s] = there /\ \A u \in Sessions \ {s} : phase'[u] = phase[u]
  BY <1>1 DEF IInv, TypeOK
<1>4. Holders'
  BY <1>3 DEF IInv, Holders
<1>5. Asked'
  BY <1>3 DEF IInv, Asked
<1>6. AppliedOnce'
  BY DEF IInv, AppliedOnce
<1> QED
  BY <1>2, <1>4, <1>5, <1>6 DEF IInv

LEMMA StatusNames == {"unused", "in_progress", "completed", "cancelled"} = Statuses
  BY DEF Statuses

\* A stock-take that nobody holds, or the one this session holds, changes its
\* status; whoever holds another keeps it.
LEMMA Changes ==
  ASSUME IInv, NEW s \in Sessions, NEW here, NEW t \in Takes, NEW new \in Statuses,
         Step(s, here, "flag"), job' = job, flag' = flag,
         status' = [status EXCEPT ![t] = new],
         posted' = [posted EXCEPT ![t] = IF new = "completed" THEN 1 ELSE 0],
         \A u \in Sessions \ {s} : phase[u] = "complete" => job[u].take # t
  PROVE  IInv'
<1>1. phase' = [phase EXCEPT ![s] = "flag"]
  BY DEF Step
<1>2. TypeOK'
  BY <1>1 DEF IInv, TypeOK, Phases
<1>3. phase'[s] = "flag" /\ \A u \in Sessions \ {s} : phase'[u] = phase[u]
  BY <1>1 DEF IInv, TypeOK
<1>4. \A k \in Takes \ {t} : status'[k] = status[k] /\ posted'[k] = posted[k]
  BY DEF IInv, TypeOK
<1>5. Holders'
  BY <1>3, <1>4 DEF IInv, Holders
<1>6. Asked'
  BY <1>3 DEF IInv, Asked
<1>7. status'[t] = new /\ posted'[t] = IF new = "completed" THEN 1 ELSE 0
  BY DEF IInv, TypeOK
<1>8. AppliedOnce'
  BY <1>4, <1>7 DEF IInv, AppliedOnce
<1> QED
  BY <1>2, <1>5, <1>6, <1>8 DEF IInv

------------------------------------------------------------------------------
LEMMA BeginKeeps == ASSUME IInv, NEW s \in Sessions, Begin(s) PROVE IInv'
<1>1. PICK kind \in Handlers, t \in Takes \cup {NoTake}, n \in Quantities \cup {-1} :
         /\ phase' = [phase EXCEPT ![s] = FirstPhase(kind)]
         /\ (t = NoTake) = (kind \in {"move", "restock", "start full", "start partial"})
         /\ job' = [job EXCEPT ![s] = [kind |-> kind, take |-> t, qty |-> n]]
         /\ UNCHANGED <<tables, flag>>
  BY DEF Begin, Step
<1>2. kind \in AllHandlers /\ n \in Int
  BY HandlersAssumption, QuantitiesAssumption
<1>3. [kind |-> kind, take |-> t, qty |-> n] \in
        [kind : AllHandlers \cup {"none"}, take : Takes \cup {NoTake}, qty : Int]
  BY <1>2
<1>4. FirstPhase(kind) \in {"ask", "move", "look"}
  BY DEF FirstPhase
<1>5. TypeOK'
  BY <1>1, <1>3, <1>4 DEF IInv, TypeOK, Phases, tables
<1>6. /\ phase'[s] = FirstPhase(kind)
      /\ \A u \in Sessions \ {s} : phase'[u] = phase[u] /\ job'[u] = job[u]
  BY <1>1 DEF IInv, TypeOK
<1>7. status' = status /\ posted' = posted
  BY <1>1 DEF tables
<1>8. Holders'
  BY <1>4, <1>6, <1>7 DEF IInv, Holders
<1>9. Asked'
  <2>1. FirstPhase(kind) = "look" /\ t = NoTake => AfterLook(kind) = "start"
    BY <1>1 DEF FirstPhase, AfterLook, AllHandlers
  <2>2. job'[s].kind = kind /\ job'[s].take = t
    BY <1>1 DEF IInv, TypeOK
  <2> QED
    BY <1>4, <1>6, <2>1, <2>2 DEF IInv, Asked
<1>10. AppliedOnce'
  BY <1>7 DEF IInv, AppliedOnce
<1> QED
  BY <1>5, <1>8, <1>9, <1>10 DEF IInv

LEMMA RestartKeeps == ASSUME IInv, Restart PROVE IInv'
<1>1. NoJob \in [kind : AllHandlers \cup {"none"}, take : Takes \cup {NoTake}, qty : Int]
  BY DEF NoJob
<1>2. /\ phase' = [s \in Sessions |-> "idle"]
      /\ job' = [s \in Sessions |-> NoJob]
      /\ status' = status /\ posted' = posted /\ flag' = flag
  BY DEF Restart, tables
<1> QED
  BY <1>1, <1>2 DEF IInv, TypeOK, Phases, Holders, Asked, AppliedOnce

LEMMA QuietKeeps ==
  ASSUME IInv, UNCHANGED <<status, posted, phase, job>>, flag' \in {"absent", "open", "clear"}
  PROVE  IInv'
<1>1. TypeOK'
  BY DEF IInv, TypeOK
<1>2. Holders' /\ Asked' /\ AppliedOnce'
  BY DEF IInv, Holders, Asked, AppliedOnce
<1> QED
  BY <1>1, <1>2 DEF IInv

\* The steps of a document that asks and moves.
LEMMA DocumentKeeps ==
  ASSUME IInv, NEW s \in Sessions,
         AskCache(s) \/ AskTable(s) \/ PutAnswer(s) \/ FailOpen(s) \/ Move(s)
  PROVE  IInv'
<1>1. flag \in {"absent", "open", "clear"}
  BY DEF IInv, TypeOK
<1>2. CASE AskCache(s)
  <2>1. CASE End(s, "ask")
    BY <1>1, <1>2, <2>1, Idle DEF AskCache, tables
  <2>2. CASE Step(s, "ask", "move") /\ UNCHANGED <<job, found>>
    BY <1>1, <1>2, <2>2, Onwards DEF AskCache, tables, Phases
  <2> QED
    BY <1>2, <2>1, <2>2 DEF AskCache
<1>3. CASE AskTable(s)
  BY <1>1, <1>3, Onwards DEF AskTable, tables, Phases
<1>4. CASE PutAnswer(s)
  <2>1. flag' \in {"absent", "open", "clear"} /\ UNCHANGED <<status, posted>>
    BY <1>1, <1>4 DEF PutAnswer, Write, tables
  <2>2. CASE End(s, "answer")
    BY <2>1, <2>2, Idle
  <2>3. CASE Step(s, "answer", "move") /\ UNCHANGED <<job, found>>
    BY <2>1, <2>3, Onwards DEF Phases
  <2> QED
    BY <1>4, <2>2, <2>3 DEF PutAnswer
<1>5. CASE FailOpen(s)
  BY <1>1, <1>5, Onwards DEF FailOpen, tables, Phases
<1>6. CASE Move(s)
  BY <1>1, <1>6, Idle DEF Move
<1> QED
  BY <1>2, <1>3, <1>4, <1>5, <1>6

LEMMA LookKeeps == ASSUME IInv, NEW s \in Sessions, Look(s) PROVE IInv'
<1> DEFINE there == AfterLook(job[s].kind)
<1>1. /\ Step(s, "look", there) /\ UNCHANGED <<job, status, posted>>
      /\ flag' = flag /\ flag \in {"absent", "open", "clear"}
  BY DEF Look, tables, IInv, TypeOK
<1>2. there \in {"scan", "lock", "cancel", "start"}
  BY DEF AfterLook
<1>3. there # "start" => job[s].take \in Takes
  BY <1>1 DEF IInv, TypeOK, Asked, Step
<1> QED
  BY <1>1, <1>2, <1>3, Onwards DEF Phases

LEMMA StartKeeps == ASSUME IInv, NEW s \in Sessions, Start(s) PROVE IInv'
<1>1. PICK t \in Takes : status[t] = "unused" /\ status' = [status EXCEPT ![t] = "in_progress"]
  BY DEF Start
<1>2. Step(s, "start", "flag") /\ job' = job /\ flag' = flag /\ posted' = posted
  BY DEF Start
<1>3. posted' = [posted EXCEPT ![t] = IF "in_progress" = "completed" THEN 1 ELSE 0]
  BY <1>1, <1>2 DEF IInv, AppliedOnce, TypeOK
<1>4. \A u \in Sessions \ {s} : phase[u] = "complete" => job[u].take # t
  BY <1>1 DEF IInv, Holders
<1> QED
  BY <1>1, <1>2, <1>3, <1>4, Changes, StatusNames

LEMMA SetFlagKeeps == ASSUME IInv, NEW s \in Sessions, SetFlag(s) PROVE IInv'
<1>1. flag' \in {"absent", "open", "clear"}
  BY DEF SetFlag, Write, IInv, TypeOK
<1> QED
  BY <1>1, Idle DEF SetFlag, tables

LEMMA CountKeeps == ASSUME IInv, NEW s \in Sessions, Scan(s) \/ Count(s) PROVE IInv'
<1>1. flag \in {"absent", "open", "clear"}
  BY DEF IInv, TypeOK
<1>2. CASE Scan(s)
  <2>1. job[s].take \in Takes
    BY <1>2 DEF Scan, Step, IInv, Asked
  <2> QED
    BY <1>1, <1>2, <2>1, Onwards DEF Scan, tables, Phases
<1>3. CASE Count(s)
  BY <1>1, <1>3, Idle DEF Count
<1> QED
  BY <1>2, <1>3

LEMMA LockKeeps == ASSUME IInv, NEW s \in Sessions, LockTake(s) PROVE IInv'
<1>1. /\ phase[s] = "lock" /\ phase' = [phase EXCEPT ![s] = "complete"]
      /\ \A u \in Sessions : ~(phase[u] = "complete" /\ job[u].take = job[s].take)
      /\ status[job[s].take] = "in_progress"
      /\ UNCHANGED <<job, status, posted, flag>>
  BY DEF LockTake, Step, Unlocked, Open, tables
<1>2. job[s].take \in Takes
  BY <1>1 DEF IInv, Asked
<1>3. TypeOK'
  BY <1>1 DEF IInv, TypeOK, Phases
<1>4. phase'[s] = "complete" /\ \A u \in Sessions \ {s} : phase'[u] = phase[u]
  BY <1>1 DEF IInv, TypeOK
<1>5. Holders'
  BY <1>1, <1>2, <1>4 DEF IInv, Holders
<1>6. Asked'
  BY <1>1, <1>4 DEF IInv, Asked
<1>7. AppliedOnce'
  BY <1>1 DEF IInv, AppliedOnce
<1> QED
  BY <1>3, <1>5, <1>6, <1>7 DEF IInv

LEMMA CompleteKeeps == ASSUME IInv, NEW s \in Sessions, Complete(s) PROVE IInv'
<1> DEFINE t == job[s].take
<1>1. /\ phase[s] = "complete" /\ Step(s, "complete", "flag")
      /\ status' = [status EXCEPT ![t] = "completed"]
      /\ posted' = [posted EXCEPT ![t] = @ + 1]
      /\ job' = job /\ flag' = flag
  BY DEF Complete, Step
<1>2. /\ t \in Takes /\ status[t] = "in_progress"
      /\ \A u \in Sessions \ {s} : phase[u] = "complete" => job[u].take # t
  BY <1>1 DEF IInv, Holders
<1>3. posted[t] = 0
  BY <1>2 DEF IInv, AppliedOnce
<1>4. posted' = [posted EXCEPT ![t] = IF "completed" = "completed" THEN 1 ELSE 0]
  BY <1>1, <1>3
<1> QED
  BY <1>1, <1>2, <1>4, Changes, StatusNames

LEMMA CancelKeeps == ASSUME IInv, NEW s \in Sessions, Cancel(s) PROVE IInv'
<1> DEFINE t == job[s].take
<1>1. /\ phase[s] = "cancel" /\ Step(s, "cancel", "flag")
      /\ status[t] = "in_progress"
      /\ status' = [status EXCEPT ![t] = "cancelled"]
      /\ \A u \in Sessions : phase[u] = "complete" => job[u].take # t
      /\ posted' = posted /\ job' = job /\ flag' = flag
  BY DEF Cancel, Step, Unlocked, Open
<1>2. t \in Takes
  BY <1>1 DEF IInv, Asked
<1>3. posted' = [posted EXCEPT ![t] = IF "cancelled" = "completed" THEN 1 ELSE 0]
  BY <1>1, <1>2 DEF IInv, AppliedOnce, TypeOK
<1> QED
  BY <1>1, <1>2, <1>3, Changes, StatusNames

LEMMA NextKeeps == IInv /\ [Next]_vars => IInv'
<1> SUFFICES ASSUME IInv, [Next]_vars PROVE IInv'
  OBVIOUS
<1>1. flag \in {"absent", "open", "clear"}
  BY DEF IInv, TypeOK
<1>2. ASSUME NEW s \in Sessions, Begin(s) \/ GiveUp(s) PROVE IInv'
  BY <1>1, <1>2, BeginKeeps, Idle DEF GiveUp, tables
<1>3. ASSUME NEW s \in Sessions, Handle(s) PROVE IInv'
  BY <1>3, DocumentKeeps, LookKeeps, StartKeeps, SetFlagKeeps, CountKeeps, LockKeeps,
     CompleteKeeps, CancelKeeps DEF Handle
<1>4. CASE Restart
  BY <1>4, RestartKeeps
<1>5. CASE Expire
  BY <1>5, QuietKeeps DEF Expire, tables, session
<1>6. CASE UNCHANGED vars
  BY <1>1, <1>6, QuietKeeps DEF vars, tables, session
<1> QED
  BY <1>2, <1>3, <1>4, <1>5, <1>6 DEF Next

LEMMA InitIInv == Init => IInv
<1> SUFFICES ASSUME Init PROVE IInv
  OBVIOUS
<1>1. NoJob \in [kind : AllHandlers \cup {"none"}, take : Takes \cup {NoTake}, qty : Int]
  BY DEF NoJob
<1> QED
  BY <1>1 DEF Init, IInv, TypeOK, Statuses, Phases, Holders, Asked, AppliedOnce

------------------------------------------------------------------------------
\* The inductive invariant: whoever is about to complete a count holds it alone
\* and it is still open.
THEOREM FreezeInductive == Spec => []IInv
  BY InitIInv, NextKeeps, PTL DEF Spec

\* Two completes, or a complete and a cancel, never both adjust the stock: the
\* adjustments of a completed count are posted once, those of others never.
THEOREM Once == Spec => []AppliedOnce
<1>1. IInv => AppliedOnce
  BY DEF IInv
<1> QED
  BY <1>1, FreezeInductive, PTL

\* A completed or cancelled count stays so, across restarts and lost writes.
THEOREM Ended == Spec => EndedStays
<1>1. IInv /\ [Next]_vars =>
        [\A t \in Takes : status[t] \in {"completed", "cancelled"} => status'[t] = status[t]]_vars
  <2> SUFFICES ASSUME IInv, Next, NEW t \in Takes, status[t] \in {"completed", "cancelled"}
               PROVE  status'[t] = status[t]
    OBVIOUS
  <2>1. \A s \in Sessions : Start(s) => status'[t] = status[t]
    BY DEF Start, IInv, TypeOK
  <2>2. \A s \in Sessions : Complete(s) => status'[t] = status[t]
    BY DEF Complete, Step, IInv, TypeOK, Holders
  <2>3. \A s \in Sessions : Cancel(s) => status'[t] = status[t]
    BY DEF Cancel, Step, Open, IInv, TypeOK, Asked
  <2>4. Restart \/ Expire => status'[t] = status[t]
    BY DEF Restart, Expire, tables
  <2>5. \A s \in Sessions : Begin(s) \/ GiveUp(s) => status' = status
    BY DEF Begin, GiveUp, tables
  <2>6. \A s \in Sessions :
          AskCache(s) \/ AskTable(s) \/ PutAnswer(s) \/ FailOpen(s) \/ Move(s) \/ Look(s)
            \/ SetFlag(s) \/ Scan(s) \/ Count(s) \/ LockTake(s) => status' = status
    BY DEF AskCache, AskTable, PutAnswer, FailOpen, Move, Look, SetFlag, Scan, Count, LockTake, tables
  <2> QED
    BY <2>1, <2>2, <2>3, <2>4, <2>5, <2>6 DEF Next, Handle
<1> QED
  BY <1>1, FreezeInductive, PTL DEF Spec, EndedStays
------------------------------------------------------------------------------
\* One request at a time, and nothing fails: the steps of MCStockFreeze's second load.

\* The cache takes every write.
PutsAnswer(s) == PutAnswer(s) /\ flag' = IF found[s] = Answer(TRUE) THEN "open" ELSE "clear"
SetsFlag(s) ==
  /\ SetFlag(s)
  /\ flag' = IF job[s].kind \in {"start full", "start partial"} THEN "open" ELSE "absent"

LEMMA SameRequests ==
  ASSUME NEW s \in Sessions
  PROVE  /\ Faultless!Begin(s) => Begin(s)
         /\ Faultless!GiveUp(s) => GiveUp(s)
<1>1. Faultless!Begin(s) => Begin(s)
  BY DEF Faultless!Begin, Begin, Faultless!Step, Step, Faultless!FirstPhase, FirstPhase,
         Faultless!tables, tables
<1>2. Faultless!GiveUp(s) => GiveUp(s)
  BY DEF Faultless!GiveUp, GiveUp, Faultless!End, End, Faultless!Step, Step, Faultless!NoJob, NoJob,
         Faultless!NoRow, NoRow, Faultless!tables, tables
<1> QED
  BY <1>1, <1>2

LEMMA SameDocuments ==
  ASSUME NEW s \in Sessions
  PROVE  /\ Faultless!AskCache(s) => AskCache(s)
         /\ Faultless!AskTable(s) => AskTable(s)
         /\ Faultless!PutAnswer(s) => PutsAnswer(s)
         /\ ~Faultless!FailOpen(s)
         /\ Faultless!Move(s) => Move(s)
<1> USE DEF Faultless!End, End, Faultless!Step, Step, Faultless!NoJob, NoJob, Faultless!NoRow, NoRow,
            Faultless!tables, tables, Faultless!Answer, Answer
<1>1. Faultless!AskCache(s) => AskCache(s)
  BY DEF Faultless!AskCache, AskCache
<1>2. Faultless!AskTable(s) => AskTable(s)
  BY DEF Faultless!AskTable, AskTable, Faultless!Counting, Counting
<1>3. Faultless!PutAnswer(s) => PutsAnswer(s)
  BY DEF Faultless!PutAnswer, PutsAnswer, PutAnswer, Faultless!Write, Write
<1>4. ~Faultless!FailOpen(s)
  BY DEF Faultless!FailOpen
<1>5. Faultless!Move(s) => Move(s)
  BY DEF Faultless!Move, Move
<1> QED
  BY <1>1, <1>2, <1>3, <1>4, <1>5

LEMMA SameCounts ==
  ASSUME NEW s \in Sessions
  PROVE  /\ Faultless!Look(s) => Look(s)
         /\ Faultless!Start(s) => Start(s)
         /\ Faultless!SetFlag(s) => SetsFlag(s)
         /\ Faultless!Scan(s) => Scan(s)
         /\ Faultless!Count(s) => Count(s)
         /\ Faultless!LockTake(s) => LockTake(s)
         /\ Faultless!Complete(s) => Complete(s)
         /\ Faultless!Cancel(s) => Cancel(s)
<1> USE DEF Faultless!End, End, Faultless!Step, Step, Faultless!NoJob, NoJob, Faultless!NoRow, NoRow,
            Faultless!tables, tables, Faultless!Open, Open, Faultless!Unlocked, Unlocked,
            Faultless!Gone, Gone
<1>1. Faultless!Look(s) => Look(s)
  BY DEF Faultless!Look, Look, Faultless!AfterLook, AfterLook, Faultless!Startable, Startable,
         Faultless!Counting, Counting
<1>2. Faultless!Start(s) => Start(s)
  BY DEF Faultless!Start, Start
<1>3. Faultless!SetFlag(s) => SetsFlag(s)
  BY DEF Faultless!SetFlag, SetsFlag, SetFlag, Faultless!Write, Write
<1>4. Faultless!Scan(s) => Scan(s)
  BY DEF Faultless!Scan, Scan
<1>5. Faultless!Count(s) => Count(s)
  BY DEF Faultless!Count, Count
<1>6. Faultless!LockTake(s) => LockTake(s)
  <2>1. Faultless!Total(rows[job[s].take]) = Total(rows[job[s].take])
    BY DEF Faultless!Total, Total, Faultless!Diff, Diff, Faultless!SumFunction, SumFunction,
           Faultless!SumFunctionOnSet, SumFunctionOnSet,
           Faultless!FoldFunctionOnSet, FoldFunctionOnSet, Faultless!MapThenFoldSet, MapThenFoldSet
  <2> QED
    BY <2>1 DEF Faultless!LockTake, LockTake
<1>7. Faultless!Complete(s) => Complete(s)
  BY DEF Faultless!Complete, Complete
<1>8. Faultless!Cancel(s) => Cancel(s)
  BY DEF Faultless!Cancel, Cancel
<1> QED
  BY <1>1, <1>2, <1>3, <1>4, <1>5, <1>6, <1>7, <1>8

\* What the second load does.
AloneHandle(s) == \/ Begin(s) \/ GiveUp(s)
                  \/ AskCache(s) \/ AskTable(s) \/ PutsAnswer(s) \/ Move(s)
                  \/ Look(s) \/ Start(s) \/ SetsFlag(s) \/ Scan(s) \/ Count(s)
                  \/ LockTake(s) \/ Complete(s) \/ Cancel(s)

LEMMA AloneSteps ==
  Faultless!Next => Expire \/ \E s \in Sessions : AloneHandle(s)
<1>1. ~Faultless!Restart
  BY DEF Faultless!Restart
<1>2. Faultless!Expire => Expire
  BY DEF Faultless!Expire, Expire, Faultless!tables, tables, Faultless!session, session
<1>3. ASSUME NEW s \in Sessions, Faultless!Begin(s) \/ Faultless!GiveUp(s) \/ Faultless!Handle(s)
      PROVE  AloneHandle(s)
  BY <1>3, SameRequests, SameDocuments, SameCounts DEF Faultless!Handle, AloneHandle
<1> QED
  BY <1>1, <1>2, <1>3 DEF Faultless!Next
\* What the row of a count adds to the stock.
LEMMA TotalNone == Total(<<>>) = 0
<1> DEFINE f == [i \in DOMAIN <<>> |-> Diff(<<>>[i])]
<1>1. DOMAIN f = {}
  OBVIOUS
<1> HIDE DEF f
<1>2. SumFunction(f) = 0
  BY <1>1, SumEmpty DEF SumFunction
<1> QED
  BY <1>2 DEF Total, f

LEMMA TotalRow ==
  ASSUME NEW b \in Int, NEW c \in Int
  PROVE  Total(<<[book |-> b, counted |-> c]>>) = c - b
<1> DEFINE rs == <<[book |-> b, counted |-> c]>>
           f == [i \in DOMAIN rs |-> Diff(rs[i])]
<1>1. DOMAIN f = {} \cup {1} /\ f[1] = c - b
  BY DEF Diff
<1> HIDE DEF f
<1>2. IsFiniteSet({}) /\ \A x \in {} \cup {1} : f[x] \in Int
  BY <1>1, FS_EmptySet
<1>3. SumFunctionOnSet(f, {} \cup {1}) = SumFunctionOnSet(f, {}) + f[1]
  BY <1>2, SumAdd
<1>4. SumFunction(f) = c - b
  BY <1>1, <1>3, SumEmpty DEF SumFunction
<1> QED
  BY <1>4 DEF Total, f

------------------------------------------------------------------------------
\* Everybody else is idle, before and after.
LEMMA Only ==
  ASSUME IInv, AloneFacts, OneAtATime, NEW s \in Sessions, NEW here, NEW there,
         Step(s, here, there), here # "idle" \/ there # "idle"
  PROVE  /\ phase[s] = here /\ phase'[s] = there
         /\ \A u \in Sessions \ {s} : phase[u] = "idle" /\ phase'[u] = "idle"
<1>1. /\ phase[s] = here /\ phase' = [phase EXCEPT ![s] = there]
      /\ phase \in [Sessions -> Phases]
  BY DEF Step, IInv, TypeOK
<1>2. phase'[s] = there /\ \A u \in Sessions \ {s} : phase'[u] = phase[u]
  BY <1>1
<1>3. ASSUME here # "idle" PROVE \A u \in Sessions \ {s} : phase[u] = "idle"
  BY <1>1, <1>3 DEF AloneFacts, Lone
<1>4. ASSUME there # "idle" PROVE \A u \in Sessions \ {s} : phase'[u] = "idle"
  BY <1>2, <1>4 DEF OneAtATime
<1> QED
  BY <1>1, <1>2, <1>3, <1>4

\* So what is to be shown is about the one at work.
LEMMA Rest ==
  ASSUME NEW s \in Sessions, \A u \in Sessions \ {s} : phase'[u] = "idle", Knows(s)'
  PROVE  Lone' /\ \A u \in Sessions : Knows(u)'
<1>1. Lone'
  BY DEF Lone
<1>2. ASSUME NEW u \in Sessions \ {s} PROVE Knows(u)'
  BY DEF Knows
<1> QED
  BY <1>1, <1>2

\* The tables as they were.
LEMMA Still ==
  ASSUME AloneFacts, tables' = tables, found' \in [Sessions -> Int]
  PROVE  AloneTypes' /\ OneCount' /\ (\A t \in Takes : RowTrue(t)') /\ Counting' = Counting
<1>1. /\ status' = status /\ rows' = rows /\ applied' = applied /\ stock' = stock
  BY DEF tables
<1>2. AloneTypes' /\ OneCount' /\ Counting' = Counting
  BY <1>1 DEF AloneFacts, AloneTypes, OneCount, Counting
<1>3. ASSUME NEW t \in Takes PROVE RowTrue(t)'
  <2>1. Total(rows[t])' = Total(rows[t])
    BY <1>1 DEF Total, Diff
  <2> QED
    BY <1>1, <2>1 DEF AloneFacts, RowTrue
<1> QED
  BY <1>2, <1>3

\* A session that ends knows nothing.
LEMMA Ends ==
  ASSUME IInv, AloneFacts, OneAtATime, NEW s \in Sessions, NEW here, End(s, here), here # "idle"
  PROVE  /\ phase[s] = here /\ found' \in [Sessions -> Int]
         /\ Lone' /\ (\A u \in Sessions : phase'[u] = "idle" /\ Knows(u)')
<1>1. /\ phase[s] = here /\ phase'[s] = "idle"
      /\ \A u \in Sessions \ {s} : phase'[u] = "idle"
  BY Only DEF End
<1>2. found' \in [Sessions -> Int]
  BY DEF End, NoRow, AloneFacts, AloneTypes
<1>3. Knows(s)'
  BY <1>1 DEF Knows
<1> QED
  BY <1>1, <1>2, <1>3, Rest

\* A step of the session at work that leaves the tables, the flag and what it was asked alone.
LEMMA Walks ==
  ASSUME IInv, AloneFacts, OneAtATime, NEW s \in Sessions, NEW here, NEW there,
         Step(s, here, there), here # "idle" \/ there # "idle", here # "flag",
         tables' = tables, flag' = flag, found' \in [Sessions -> Int], Knows(s)'
  PROVE  AloneFacts'
<1>1. /\ phase[s] = here /\ \A u \in Sessions \ {s} : phase[u] = "idle" /\ phase'[u] = "idle"
  BY Only
<1>2. AloneTypes' /\ OneCount' /\ (\A t \in Takes : RowTrue(t)') /\ Counting' = Counting
  BY Still
<1>3. FlagFits'
  BY <1>1, <1>2 DEF AloneFacts, FlagFits
<1>4. Lone' /\ \A u \in Sessions : Knows(u)'
  BY <1>1, Rest
<1> QED
  BY <1>2, <1>3, <1>4 DEF AloneFacts

LEMMA AloneBegin ==
  ASSUME IInv, AloneFacts, OneAtATime, NEW s \in Sessions, Begin(s), job'[s].kind # "restock"
  PROVE  AloneFacts'
<1>1. PICK kind \in Handlers, t \in Takes \cup {NoTake}, n \in Quantities \cup {-1} :
         /\ Step(s, "idle", FirstPhase(kind))
         /\ (t = NoTake) = (kind \in {"move", "restock", "start full", "start partial"})
         /\ job' = [job EXCEPT ![s] = [kind |-> kind, take |-> t, qty |-> n]]
         /\ UNCHANGED <<tables, flag, found>>
  BY DEF Begin
<1>2. job'[s].kind = kind /\ job'[s].take = t
  BY <1>1 DEF IInv, TypeOK
<1>3. kind \in AllHandlers \ {"restock"}
  BY <1>2, HandlersAssumption
<1>4. FirstPhase(kind) = IF kind = "move" THEN "ask" ELSE "look"
  BY <1>3 DEF FirstPhase
<1>5. phase'[s] = FirstPhase(kind)
  <2>1. FirstPhase(kind) # "idle"
    BY <1>4
  <2> QED
    BY <1>1, <2>1, Only
<1>6. kind # "move" => (t = NoTake) = (AfterLook(kind) = "start")
  BY <1>1, <1>3 DEF AfterLook, AllHandlers
<1>7. Knows(s)'
  BY <1>2, <1>4, <1>5, <1>6 DEF Knows
<1>8. found' \in [Sessions -> Int]
  BY <1>1 DEF AloneFacts, AloneTypes
<1> QED
  BY <1>1, <1>4, <1>7, <1>8, Walks

LEMMA AloneGiveUp ==
  ASSUME IInv, AloneFacts, OneAtATime, NEW s \in Sessions, GiveUp(s)
  PROVE  AloneFacts'
<1>1. /\ phase[s] \notin {"idle", "flag"} /\ End(s, phase[s])
      /\ tables' = tables /\ flag' = flag
  BY DEF GiveUp
<1>2. found' \in [Sessions -> Int] /\ \A u \in Sessions : Knows(u)'
  BY <1>1, Ends
<1> QED
  BY <1>1, <1>2, Walks DEF End

LEMMA AloneExpire ==
  ASSUME AloneFacts, Expire
  PROVE  AloneFacts'
<1>1. /\ tables' = tables /\ phase' = phase /\ job' = job /\ found' = found /\ flag' = "absent"
  BY DEF Expire, session
<1>2. AloneTypes' /\ OneCount' /\ (\A t \in Takes : RowTrue(t)') /\ Counting' = Counting
  BY <1>1, Still DEF AloneFacts, AloneTypes
<1>3. FlagFits' /\ Lone'
  BY <1>1 DEF FlagFits, AloneFacts, Lone
<1>4. ASSUME NEW s \in Sessions PROVE Knows(s)'
  <2>1. Total(rows[job[s].take])' = Total(rows[job[s].take]) /\ status' = status /\ rows' = rows
    BY <1>1 DEF Total, Diff, tables
  <2> QED
    BY <1>1, <1>2, <2>1 DEF AloneFacts, Knows
<1> QED
  BY <1>2, <1>3, <1>4 DEF AloneFacts

LEMMA AloneStutter ==
  ASSUME AloneFacts, UNCHANGED vars
  PROVE  AloneFacts'
<1>1. /\ tables' = tables /\ phase' = phase /\ job' = job /\ found' = found /\ flag' = flag
  BY DEF vars, session
<1>2. AloneTypes' /\ OneCount' /\ (\A t \in Takes : RowTrue(t)') /\ Counting' = Counting
  BY <1>1, Still DEF AloneFacts, AloneTypes
<1>3. FlagFits' /\ Lone'
  BY <1>1, <1>2 DEF FlagFits, AloneFacts, Lone
<1>4. ASSUME NEW s \in Sessions PROVE Knows(s)'
  <2>1. Total(rows[job[s].take])' = Total(rows[job[s].take]) /\ status' = status /\ rows' = rows
    BY <1>1 DEF Total, Diff, tables
  <2> QED
    BY <1>1, <1>2, <2>1 DEF AloneFacts, Knows
<1> QED
  BY <1>2, <1>3, <1>4 DEF AloneFacts

\* The steps of a document: it moves only while no count is open.
LEMMA AloneAsks ==
  ASSUME IInv, AloneFacts, OneAtATime, NEW s \in Sessions, AskCache(s) \/ AskTable(s)
  PROVE  AloneFacts'
<1>1. CASE AskCache(s) /\ End(s, "ask")
  <2>1. found' \in [Sessions -> Int] /\ \A u \in Sessions : Knows(u)'
    BY <1>1, Ends
  <2> QED
    BY <1>1, <2>1, Walks DEF End, AskCache
<1>2. CASE AskCache(s) /\ flag # "open" /\ Step(s, "ask", "move") /\ UNCHANGED <<job, found>>
  <2>1. tables' = tables /\ flag' = flag /\ found' \in [Sessions -> Int] /\ flag = "clear"
    BY <1>2 DEF AskCache, AloneFacts, AloneTypes, IInv, TypeOK
  <2>2. /\ phase[s] = "ask" /\ phase'[s] = "move"
        /\ \A u \in Sessions \ {s} : phase[u] = "idle" /\ phase'[u] = "idle"
    BY <1>2, Only
  <2>3. ~Counting' /\ Counting' = Counting
    BY <2>1, <2>2, Still DEF AloneFacts, FlagFits
  <2>4. Knows(s)'
    BY <2>2, <2>3 DEF Knows
  <2> QED
    BY <1>2, <2>1, <2>4, Walks
<1>3. CASE AskTable(s)
  <2>1. /\ Step(s, "ask", "answer") /\ tables' = tables /\ flag' = flag
        /\ found' = [found EXCEPT ![s] = Answer(Counting)]
    BY <1>3 DEF AskTable
  <2>2. found' \in [Sessions -> Int] /\ found'[s] = Answer(Counting)
    BY <2>1 DEF Answer, AloneFacts, AloneTypes
  <2>3. phase'[s] = "answer"
    BY <2>1, Only
  <2>4. Counting' = Counting
    BY <2>1, <2>2, Still
  <2>5. Knows(s)'
    BY <2>2, <2>3, <2>4 DEF Knows, Answer
  <2> QED
    BY <2>1, <2>2, <2>5, Walks
<1> QED
  BY <1>1, <1>2, <1>3 DEF AskCache

LEMMA AloneAnswers ==
  ASSUME IInv, AloneFacts, OneAtATime, NEW s \in Sessions, PutsAnswer(s)
  PROVE  AloneFacts'
<1>1. /\ tables' = tables
      /\ flag' = IF found[s] = Answer(TRUE) THEN "open" ELSE "clear"
      /\ IF found[s] = Answer(TRUE)
         THEN End(s, "answer")
         ELSE Step(s, "answer", "move") /\ UNCHANGED <<job, found>>
  BY DEF PutsAnswer, PutAnswer
<1>2. found' \in [Sessions -> Int] /\ phase[s] = "answer"
  <2>1. CASE End(s, "answer")
    BY <2>1, Ends
  <2>2. CASE Step(s, "answer", "move") /\ found' = found
    BY <2>2, Only DEF AloneFacts, AloneTypes
  <2> QED
    BY <1>1, <2>1, <2>2
<1>3. found[s] = Answer(TRUE) <=> Counting
  <2>1. found[s] = Answer(Counting)
    BY <1>2 DEF AloneFacts, Knows
  <2> QED
    BY <2>1 DEF Answer
<1>4. AloneTypes' /\ OneCount' /\ (\A t \in Takes : RowTrue(t)') /\ Counting' = Counting
  BY <1>1, <1>2, Still
<1>5. FlagFits'
  BY <1>1, <1>3, <1>4 DEF FlagFits
<1>6. Lone' /\ \A u \in Sessions : Knows(u)'
  <2>1. CASE Counting
    BY <1>1, <1>3, <2>1, Ends
  <2>2. CASE ~Counting
    <3>1. Step(s, "answer", "move")
      BY <1>1, <1>3, <2>2
    <3>2. phase'[s] = "move" /\ \A u \in Sessions \ {s} : phase'[u] = "idle"
      BY <3>1, Only
    <3>3. Knows(s)'
      BY <1>4, <2>2, <3>2 DEF Knows
    <3> QED
      BY <3>2, <3>3, Rest
  <2> QED
    BY <2>1, <2>2
<1> QED
  BY <1>4, <1>5, <1>6 DEF AloneFacts

LEMMA AloneMoves ==
  ASSUME IInv, AloneFacts, OneAtATime, NEW s \in Sessions, Move(s)
  PROVE  AloneFacts'
<1>1. /\ End(s, "move") /\ stock' = stock + job[s].qty /\ flag' = flag
      /\ UNCHANGED <<status, rows, applied>>
  BY DEF Move
<1>2. /\ phase[s] = "move" /\ found' \in [Sessions -> Int]
      /\ Lone' /\ (\A u \in Sessions : phase'[u] = "idle" /\ Knows(u)')
  BY <1>1, Ends
<1>3. ~Counting /\ job[s].qty \in Int
  BY <1>2 DEF AloneFacts, Knows, IInv, TypeOK
<1>4. AloneTypes' /\ OneCount' /\ Counting' = Counting
  BY <1>1, <1>2, <1>3 DEF AloneFacts, AloneTypes, OneCount, Counting
<1>5. ASSUME NEW t \in Takes PROVE RowTrue(t)'
  <2>1. Total(rows[t])' = Total(rows[t]) /\ status[t] # "in_progress"
    BY <1>1, <1>3 DEF Total, Diff, Counting
  <2> QED
    BY <1>1, <2>1 DEF AloneFacts, RowTrue
<1>6. FlagFits'
  <2>1. \A u \in Sessions : phase[u] # "flag"
    BY <1>2 DEF AloneFacts, Lone
  <2> QED
    BY <1>1, <1>4, <2>1 DEF AloneFacts, FlagFits
<1> QED
  BY <1>2, <1>4, <1>5, <1>6 DEF AloneFacts

LEMMA AloneLooks ==
  ASSUME IInv, AloneFacts, OneAtATime, NEW s \in Sessions, Look(s)
  PROVE  AloneFacts'
<1> DEFINE there == AfterLook(job[s].kind)
           t == job[s].take
<1>1. /\ Step(s, "look", there) /\ tables' = tables /\ flag' = flag
      /\ job' = job /\ found' = found
      /\ IF t = NoTake THEN ~Counting ELSE status[t] = "in_progress"
  BY DEF Look, Startable, Open
<1>2. phase[s] = "look" /\ phase'[s] = there
  BY <1>1, Only
<1>3. (t = NoTake) = (there = "start") /\ t \in Takes \cup {NoTake}
  BY <1>2 DEF AloneFacts, Knows, IInv, TypeOK
<1>4. there \in {"scan", "lock", "cancel", "start"}
  BY DEF AfterLook
<1>5. found' \in [Sessions -> Int] /\ Counting' = Counting /\ status' = status
  BY <1>1, Still DEF AloneFacts, AloneTypes, tables
<1>6. Knows(s)'
  BY <1>1, <1>2, <1>3, <1>4, <1>5 DEF Knows
<1> QED
  BY <1>1, <1>5, <1>6, Walks

LEMMA AloneSets ==
  ASSUME IInv, AloneFacts, OneAtATime, NEW s \in Sessions, SetsFlag(s)
  PROVE  AloneFacts'
<1>1. /\ End(s, "flag") /\ tables' = tables
      /\ flag' = IF job[s].kind \in {"start full", "start partial"} THEN "open" ELSE "absent"
  BY DEF SetsFlag, SetFlag
<1>2. /\ phase[s] = "flag" /\ found' \in [Sessions -> Int]
      /\ Lone' /\ (\A u \in Sessions : phase'[u] = "idle" /\ Knows(u)')
  BY <1>1, Ends
<1>3. AloneTypes' /\ OneCount' /\ (\A t \in Takes : RowTrue(t)') /\ Counting' = Counting
  BY <1>1, <1>2, Still
<1>4. job[s].kind \in {"start full", "start partial"} => Counting
  BY <1>2 DEF AloneFacts, Knows
<1>5. FlagFits'
  BY <1>1, <1>3, <1>4 DEF FlagFits
<1> QED
  BY <1>2, <1>3, <1>5 DEF AloneFacts

\* The steps of a count.
LEMMA AloneScans ==
  ASSUME IInv, AloneFacts, OneAtATime, NEW s \in Sessions, Scan(s)
  PROVE  AloneFacts'
<1> DEFINE t == job[s].take
<1>1. /\ Step(s, "scan", "count") /\ tables' = tables /\ flag' = flag /\ job' = job
      /\ \E r \in IF rows[t] = <<>> THEN {NoRow} ELSE DOMAIN rows[t] :
           found' = [found EXCEPT ![s] = r]
  BY DEF Scan
<1>2. phase[s] = "scan" /\ phase'[s] = "count"
  BY <1>1, Only
<1>3. t \in Takes /\ status[t] = "in_progress" /\ AfterLook(job[s].kind) # "start"
  BY <1>2 DEF AloneFacts, Knows
<1>4. rows[t] # <<>> => DOMAIN rows[t] = {1}
  <2>1. rows[t] \in Seq([book : Int, counted : Int]) /\ Len(rows[t]) <= 1
    BY <1>3 DEF AloneFacts, AloneTypes, RowTrue
  <2> QED
    BY <2>1
<1>5. found' = [found EXCEPT ![s] = IF rows[t] = <<>> THEN NoRow ELSE 1]
  BY <1>1, <1>4
<1>6. /\ found' \in [Sessions -> Int]
      /\ found'[s] = IF rows[t] = <<>> THEN NoRow ELSE 1
  BY <1>5 DEF AloneFacts, AloneTypes, NoRow
<1>7. Knows(s)'
  BY <1>1, <1>2, <1>3, <1>6 DEF Knows, tables
<1> QED
  BY <1>1, <1>6, <1>7, Walks

\* What a count does to the product's row of its stock-take.
LEMMA CountsRow ==
  ASSUME IInv, AloneFacts, OneAtATime, NEW s \in Sessions, Count(s)
  PROVE  /\ job[s].take \in Takes /\ status[job[s].take] = "in_progress" /\ job[s].qty \in Int
         /\ rows' = [rows EXCEPT ![job[s].take] = <<[book |-> stock, counted |-> job[s].qty]>>]
<1> DEFINE t == job[s].take
           n == job[s].qty
<1>1. phase[s] = "count"
  BY Only DEF Count, End
<1>2. /\ t \in Takes /\ status[t] = "in_progress"
      /\ found[s] = IF rows[t] = <<>> THEN NoRow ELSE 1
      /\ rows \in [Takes -> Seq([book : Int, counted : Int])]
      /\ n \in Int /\ stock \in Int
  BY <1>1 DEF AloneFacts, AloneTypes, Knows, IInv, TypeOK
<1>3. CASE rows[t] = <<>>
  <2>1. rows' = [rows EXCEPT ![t] = Append(@, [book |-> stock, counted |-> n])]
    BY <1>2, <1>3 DEF Count, NoRow, Gone
  <2>2. Append(<<>>, [book |-> stock, counted |-> n]) = <<[book |-> stock, counted |-> n]>>
    OBVIOUS
  <2> QED
    BY <1>2, <1>3, <2>1, <2>2
<1>4. CASE rows[t] # <<>>
  <2>1. PICK m \in Int : rows[t] = <<[book |-> stock, counted |-> m]>>
    BY <1>2, <1>4 DEF AloneFacts, RowTrue
  <2>2. found[s] = 1
    BY <1>2, <1>4
  <2>3. rows' = [rows EXCEPT ![t][1].counted = n]
    BY <2>2 DEF Count, NoRow, Gone
  <2>4. [rows[t] EXCEPT ![1].counted = n] = <<[book |-> stock, counted |-> n]>>
    BY <2>1
  <2>5. rows' = [rows EXCEPT ![t] = [rows[t] EXCEPT ![1].counted = n]]
    BY <2>3
  <2> QED
    BY <1>2, <2>4, <2>5
<1> QED
  BY <1>2, <1>3, <1>4

LEMMA AloneCounts ==
  ASSUME IInv, AloneFacts, OneAtATime, NEW s \in Sessions, Count(s)
  PROVE  AloneFacts'
<1> DEFINE t == job[s].take
           r == [book |-> stock, counted |-> job[s].qty]
<1>1. /\ End(s, "count") /\ flag' = flag /\ UNCHANGED <<status, applied, stock>>
  BY DEF Count
<1>2. /\ t \in Takes /\ status[t] = "in_progress" /\ job[s].qty \in Int
      /\ rows' = [rows EXCEPT ![t] = <<r>>]
  BY CountsRow
<1>3. /\ phase[s] = "count" /\ found' \in [Sessions -> Int]
      /\ Lone' /\ (\A u \in Sessions : phase'[u] = "idle" /\ Knows(u)')
  BY <1>1, Ends
<1>4. r \in [book : Int, counted : Int] /\ rows \in [Takes -> Seq([book : Int, counted : Int])]
  BY <1>2 DEF AloneFacts, AloneTypes
<1>5. AloneTypes' /\ OneCount' /\ Counting' = Counting
  <2>1. rows' \in [Takes -> Seq([book : Int, counted : Int])]
    BY <1>2, <1>4
  <2> QED
    BY <1>1, <1>3, <2>1 DEF AloneFacts, AloneTypes, OneCount, Counting
<1>6. ASSUME NEW k \in Takes PROVE RowTrue(k)'
  <2>1. CASE k = t
    <3>1. rows'[k] = <<r>> /\ status'[k] = "in_progress" /\ Len(<<r>>) = 1
      BY <1>1, <1>2, <1>4, <2>1
    <3>2. \E n \in Int : rows'[k] = <<[book |-> stock', counted |-> n]>>
      BY <1>1, <1>2, <3>1
    <3> QED
      BY <3>1, <3>2 DEF RowTrue
  <2>2. CASE k # t
    <3>1. rows'[k] = rows[k] /\ Total(rows[k])' = Total(rows[k])
      BY <1>2, <1>4, <2>2 DEF Total, Diff
    <3> QED
      BY <1>1, <3>1 DEF AloneFacts, RowTrue
  <2> QED
    BY <2>1, <2>2
<1>7. FlagFits'
  <2>1. \A u \in Sessions : phase[u] # "flag"
    BY <1>3 DEF AloneFacts, Lone
  <2> QED
    BY <1>1, <1>5, <2>1 DEF AloneFacts, FlagFits
<1> QED
  BY <1>3, <1>5, <1>6, <1>7 DEF AloneFacts

LEMMA TotalInt ==
  ASSUME AloneFacts, NEW t \in Takes, status[t] = "in_progress"
  PROVE  /\ Total(rows[t]) \in Int
         /\ rows[t] = <<>> => Total(rows[t]) = 0
         /\ rows[t] # <<>> => rows[t] = <<rows[t][1]>> /\ rows[t][1].counted = stock + Total(rows[t])
<1>1. CASE rows[t] = <<>>
  BY <1>1, TotalNone
<1>2. CASE rows[t] # <<>>
  <2>1. PICK n \in Int : rows[t] = <<[book |-> stock, counted |-> n]>>
    BY <1>2 DEF AloneFacts, RowTrue
  <2>2. stock \in Int
    BY DEF AloneFacts, AloneTypes
  <2>3. Total(rows[t]) = n - stock
    BY <2>1, <2>2, TotalRow
  <2>4. rows[t] = <<rows[t][1]>> /\ rows[t][1].counted = n
    BY <2>1
  <2> QED
    BY <1>2, <2>2, <2>3, <2>4
<1> QED
  BY <1>1, <1>2

LEMMA AloneLocks ==
  ASSUME IInv, AloneFacts, OneAtATime, NEW s \in Sessions, LockTake(s)
  PROVE  AloneFacts'
<1> DEFINE t == job[s].take
<1>1. /\ Step(s, "lock", "complete") /\ tables' = tables /\ flag' = flag /\ job' = job
      /\ found' = [found EXCEPT ![s] = Total(rows[t])]
  BY DEF LockTake
<1>2. phase[s] = "lock" /\ phase'[s] = "complete"
  BY <1>1, Only
<1>3. t \in Takes /\ status[t] = "in_progress" /\ AfterLook(job[s].kind) # "start"
  BY <1>2 DEF AloneFacts, Knows
<1>4. Total(rows[t]) \in Int
  BY <1>3, TotalInt
<1>5. found' \in [Sessions -> Int] /\ found'[s] = Total(rows[t])
  BY <1>1, <1>4 DEF AloneFacts, AloneTypes
<1>6. Total(rows[t])' = Total(rows[t]) /\ status' = status
  BY <1>1 DEF Total, Diff, tables
<1>7. Knows(s)'
  BY <1>1, <1>2, <1>3, <1>5, <1>6 DEF Knows
<1> QED
  BY <1>1, <1>5, <1>7, Walks

\* A count starts, ends or is given up: the flag follows.
LEMMA Follows ==
  ASSUME IInv, AloneFacts, OneAtATime, NEW s \in Sessions, NEW here, Step(s, here, "flag"),
         AloneTypes', OneCount', \A t \in Takes : RowTrue(t)',
         job'[s].kind \in {"start full", "start partial"} => Counting'
  PROVE  AloneFacts'
<1>1. phase'[s] = "flag" /\ \A u \in Sessions \ {s} : phase'[u] = "idle"
  BY Only
<1>2. Knows(s)'
  BY <1>1 DEF Knows
<1>3. Lone' /\ \A u \in Sessions : Knows(u)'
  BY <1>1, <1>2, Rest
<1>4. FlagFits'
  BY <1>1 DEF FlagFits
<1> QED
  BY <1>3, <1>4 DEF AloneFacts

LEMMA AloneStarts ==
  ASSUME IInv, AloneFacts, OneAtATime, NEW s \in Sessions, Start(s)
  PROVE  AloneFacts'
<1> DEFINE full == [book |-> stock, counted |-> 0]
<1>1. PICK t \in Takes :
        /\ status[t] = "unused" /\ status' = [status EXCEPT ![t] = "in_progress"]
        /\ rows' = IF job[s].kind = "start full" THEN [rows EXCEPT ![t] = <<full>>] ELSE rows
  BY DEF Start
<1>2. Step(s, "start", "flag") /\ UNCHANGED <<applied, stock, flag, job, found>>
  BY DEF Start
<1>3. phase[s] = "start"
  BY <1>2, Only
<1>4. ~Counting
  BY <1>3 DEF AloneFacts, Knows
<1>5. /\ status \in [Takes -> Statuses] /\ stock \in Int
      /\ rows \in [Takes -> Seq([book : Int, counted : Int])]
  BY DEF IInv, TypeOK, AloneFacts, AloneTypes
<1>6. status'[t] = "in_progress" /\ \A k \in Takes \ {t} : status'[k] = status[k]
  BY <1>1, <1>5
<1>7. OneCount' /\ Counting'
  BY <1>4, <1>6 DEF OneCount, Counting
<1>8. rows[t] = <<>>
  BY <1>1 DEF AloneFacts, RowTrue
<1>9. (rows'[t] = <<>> \/ rows'[t] = <<full>>) /\ \A k \in Takes \ {t} : rows'[k] = rows[k]
  <2> HIDE DEF full
  <2> QED
    BY <1>1, <1>5, <1>8
<1>10. AloneTypes'
  <2>1. full \in [book : Int, counted : Int]
    BY <1>5
  <2>2. rows' \in [Takes -> Seq([book : Int, counted : Int])]
    <3>1. <<full>> \in Seq([book : Int, counted : Int])
      BY <2>1
    <3> HIDE DEF full
    <3> QED
      BY <1>1, <1>5, <3>1
  <2> QED
    BY <1>2, <2>2 DEF AloneFacts, AloneTypes
<1>11. ASSUME NEW k \in Takes PROVE RowTrue(k)'
  <2>1. CASE k = t
    <3>1. rows'[k] = <<>> \/ \E n \in Int : rows'[k] = <<[book |-> stock', counted |-> n]>>
      <4>1. CASE rows'[t] = <<full>>
        BY <1>2, <2>1, <4>1
      <4> QED
        BY <1>9, <2>1, <4>1
    <3>2. Len(rows'[k]) <= 1
      <4>1. Len(<<>>) = 0 /\ Len(<<full>>) = 1
        OBVIOUS
      <4>2. CASE rows'[t] = <<>>
        BY ONLY <2>1, <4>1, <4>2
      <4>3. CASE rows'[t] = <<full>>
        BY ONLY <2>1, <4>1, <4>3
      <4> QED
        BY <1>9, <4>2, <4>3
    <3> QED
      BY <1>6, <2>1, <3>1, <3>2 DEF RowTrue
  <2>2. CASE k # t
    <3>1. rows'[k] = rows[k] /\ Total(rows[k])' = Total(rows[k]) /\ status'[k] = status[k]
      BY <1>6, <1>9, <2>2 DEF Total, Diff
    <3> QED
      BY <1>2, <3>1 DEF AloneFacts, RowTrue
  <2> QED
    BY <2>1, <2>2
<1> QED
  BY <1>2, <1>7, <1>10, <1>11, Follows

\* Completing adds what the rows say, which lands the stock at what was counted.
LEMMA Completing ==
  ASSUME IInv, AloneFacts, OneAtATime, NEW s \in Sessions, Complete(s)
  PROVE  /\ job[s].take \in Takes /\ status[job[s].take] = "in_progress"
         /\ AfterLook(job[s].kind) # "start"
         /\ status' = [status EXCEPT ![job[s].take] = "completed"]
         /\ applied' = [applied EXCEPT ![job[s].take] = Total(rows[job[s].take])]
         /\ stock' = stock + Total(rows[job[s].take])
         /\ Step(s, "complete", "flag") /\ UNCHANGED <<rows, flag, job, found>>
<1>1. phase[s] = "complete"
  BY DEF Complete, Step
<1>2. found[s] = Total(rows[job[s].take])
  BY <1>1 DEF AloneFacts, Knows
<1> QED
  BY <1>1, <1>2 DEF Complete, AloneFacts, Knows

LEMMA AloneCompletes ==
  ASSUME IInv, AloneFacts, OneAtATime, NEW s \in Sessions, Complete(s)
  PROVE  AloneFacts'
<1> DEFINE t == job[s].take
<1>1. /\ t \in Takes /\ status[t] = "in_progress" /\ AfterLook(job[s].kind) # "start"
      /\ status' = [status EXCEPT ![t] = "completed"]
      /\ applied' = [applied EXCEPT ![t] = Total(rows[t])]
      /\ stock' = stock + Total(rows[t])
      /\ Step(s, "complete", "flag") /\ UNCHANGED <<rows, flag, job, found>>
  BY Completing
<1>2. Total(rows[t]) \in Int
  BY <1>1, TotalInt
<1>3. /\ status \in [Takes -> Statuses] /\ stock \in Int /\ applied \in [Takes -> Int]
      /\ rows \in [Takes -> Seq([book : Int, counted : Int])] /\ found \in [Sessions -> Int]
  BY DEF IInv, TypeOK, AloneFacts, AloneTypes
<1>4. /\ status'[t] = "completed" /\ applied'[t] = Total(rows[t])
      /\ \A k \in Takes \ {t} : status'[k] = status[k] /\ applied'[k] = applied[k]
  BY <1>1, <1>3
<1>5. AloneTypes'
  BY <1>1, <1>2, <1>3 DEF AloneTypes
<1>6. OneCount'
  BY <1>4 DEF AloneFacts, OneCount
<1>7. ASSUME NEW k \in Takes PROVE RowTrue(k)'
  <2>1. rows'[k] = rows[k] /\ Total(rows[k])' = Total(rows[k]) /\ Len(rows[k]) <= 1
    BY <1>1 DEF Total, Diff, AloneFacts, RowTrue
  <2>2. CASE k = t
    BY <1>4, <2>1, <2>2 DEF RowTrue
  <2>3. CASE k # t
    <3>1. status[k] # "in_progress"
      BY <1>1, <2>3 DEF AloneFacts, OneCount
    <3> QED
      BY <1>4, <2>1, <2>3, <3>1 DEF AloneFacts, RowTrue
  <2> QED
    BY <2>2, <2>3
<1>8. job'[s].kind \notin {"start full", "start partial"}
  BY <1>1 DEF AfterLook
<1> QED
  BY <1>1, <1>5, <1>6, <1>7, <1>8, Follows

LEMMA AloneCancels ==
  ASSUME IInv, AloneFacts, OneAtATime, NEW s \in Sessions, Cancel(s)
  PROVE  AloneFacts'
<1> DEFINE t == job[s].take
<1>1. /\ Step(s, "cancel", "flag")
      /\ status' = [status EXCEPT ![t] = "cancelled"]
      /\ rows' = [rows EXCEPT ![t] = <<>>]
      /\ found' = [u \in Sessions |-> IF phase[u] = "count" /\ job[u].take = t /\ found[u] # NoRow
                                      THEN Gone ELSE found[u]]
      /\ UNCHANGED <<applied, stock, flag, job>>
  BY DEF Cancel
<1>2. phase[s] = "cancel"
  BY <1>1, Only
<1>3. t \in Takes /\ status[t] = "in_progress" /\ AfterLook(job[s].kind) # "start"
  BY <1>2 DEF AloneFacts, Knows
<1>4. /\ status \in [Takes -> Statuses] /\ stock \in Int /\ applied \in [Takes -> Int]
      /\ rows \in [Takes -> Seq([book : Int, counted : Int])] /\ found \in [Sessions -> Int]
  BY DEF IInv, TypeOK, AloneFacts, AloneTypes
<1>5. /\ status'[t] = "cancelled" /\ rows'[t] = <<>>
      /\ \A k \in Takes \ {t} : status'[k] = status[k] /\ rows'[k] = rows[k]
  BY <1>1, <1>3, <1>4
<1>6. AloneTypes'
  <2>1. rows' \in [Takes -> Seq([book : Int, counted : Int])]
    <3>1. <<>> \in Seq([book : Int, counted : Int])
      OBVIOUS
    <3> QED
      BY <1>1, <1>4, <3>1
  <2>2. found' \in [Sessions -> Int]
    BY <1>1, <1>4 DEF Gone
  <2> QED
    BY <1>1, <1>4, <2>1, <2>2 DEF AloneTypes
<1>7. OneCount'
  BY <1>5 DEF AloneFacts, OneCount
<1>8. ASSUME NEW k \in Takes PROVE RowTrue(k)'
  <2>1. CASE k = t
    BY <1>5, <2>1 DEF RowTrue
  <2>2. CASE k # t
    <3>1. rows'[k] = rows[k] /\ Total(rows[k])' = Total(rows[k]) /\ status'[k] = status[k]
      BY <1>5, <2>2 DEF Total, Diff
    <3> QED
      BY <1>1, <3>1 DEF AloneFacts, RowTrue
  <2> QED
    BY <2>1, <2>2
<1>9. job'[s].kind \notin {"start full", "start partial"}
  BY <1>1, <1>3 DEF AfterLook
<1> QED
  BY <1>1, <1>6, <1>7, <1>8, <1>9, Follows

LEMMA AloneKeeps == AloneIInv /\ [MCNext]_<<vars, load>> => AloneIInv'
<1> SUFFICES ASSUME AloneIInv, [MCNext]_<<vars, load>> PROVE AloneIInv'
  OBVIOUS
<1>1. CASE UNCHANGED <<vars, load>>
  <2>1. IInv'
    BY <1>1, NextKeeps DEF AloneIInv
  <2> QED
    BY <1>1, <2>1, AloneStutter DEF AloneIInv
<1>2. CASE load = "faults" /\ load' = load /\ Next
  <2>1. IInv'
    BY <1>2, NextKeeps DEF AloneIInv
  <2> QED
    BY <1>2, <2>1 DEF AloneIInv
<1>3. CASE load = "alone" /\ load' = load /\ Faultless!Next /\ OneAtATime
             /\ \A s \in Sessions : job'[s].kind # "restock"
  <2>1. IInv /\ AloneFacts
    BY <1>3 DEF AloneIInv
  <2>2. CASE Expire
    <3>1. IInv'
      BY <2>1, <2>2, NextKeeps DEF Next
    <3> QED
      BY <2>1, <2>2, <3>1, AloneExpire DEF AloneIInv
  <2>3. ASSUME NEW s \in Sessions, AloneHandle(s) PROVE AloneIInv'
    <3>1. Begin(s) \/ GiveUp(s) \/ Handle(s)
      BY <2>3 DEF AloneHandle, Handle, PutsAnswer, SetsFlag
    <3>2. IInv'
      BY <2>1, <3>1, NextKeeps DEF Next
    <3>3. AloneFacts'
      BY <1>3, <2>1, <2>3, AloneBegin, AloneGiveUp, AloneAsks, AloneAnswers, AloneMoves, AloneLooks,
         AloneSets, AloneScans, AloneCounts, AloneLocks, AloneStarts, AloneCompletes, AloneCancels
         DEF AloneHandle
    <3> QED
      BY <3>2, <3>3 DEF AloneIInv
  <2> QED
    BY <1>3, <2>2, <2>3, AloneSteps
<1> QED
  BY <1>1, <1>2, <1>3 DEF MCNext

LEMMA AloneInit == MCInit => AloneIInv
<1> SUFFICES ASSUME MCInit PROVE AloneIInv
  OBVIOUS
<1>1. Init /\ IInv
  BY InitIInv DEF MCInit
<1>2. ~Counting
  BY <1>1 DEF Init, Counting
<1>3. AloneTypes /\ Lone /\ OneCount /\ FlagFits
  BY <1>1, MaxStockAssumption DEF Init, AloneTypes, Lone, OneCount, FlagFits, NoRow
<1>4. \A s \in Sessions : Knows(s)
  BY <1>1 DEF Init, Knows
<1>5. \A t \in Takes : RowTrue(t)
  BY <1>1 DEF Init, RowTrue
<1> QED
  BY <1>1, <1>3, <1>4, <1>5 DEF AloneIInv, AloneFacts

\* With one request at a time and no faults, for any number of stock-takes and
\* sessions: at most one count is open, it has at most one row for the product,
\* a completed count was applied as its rows say, and between requests the
\* cached flag tells whether one is open.
THEOREM AloneCounted == MCSpec => []AloneCountsTrue
<1>1. AloneIInv => AloneCountsTrue
  <2> SUFFICES ASSUME AloneFacts PROVE OneCount /\ OneRowEach /\ DocumentTrue /\ FlagHonest
    BY DEF AloneIInv, AloneCountsTrue
  <2>1. OneRowEach /\ DocumentTrue
    BY DEF AloneFacts, RowTrue, OneRowEach, DocumentTrue
  <2>2. FlagHonest
    BY DEF AloneFacts, FlagFits, FlagHonest
  <2> QED
    BY <2>1, <2>2 DEF AloneFacts
<1> QED
  BY <1>1, AloneInit, AloneKeeps, PTL DEF MCSpec

\* Completing a count then lands the stock at what was counted.
THEOREM AloneLanded == MCSpec => AloneCountLands
<1>1. AloneIInv /\ [MCNext]_<<vars, load>> =>
        [\A t \in Takes : load = "alone" /\ status[t] = "in_progress" /\ status'[t] = "completed" =>
           Landed(t)]_vars
  <2> SUFFICES ASSUME IInv, AloneFacts, load = "alone", MCNext, NEW t \in Takes,
                      status[t] = "in_progress", status'[t] = "completed"
               PROVE  Landed(t)
    BY DEF AloneIInv
  <2>1. Faultless!Next /\ OneAtATime
    BY DEF MCNext
  <2>2. PICK s \in Sessions : AloneHandle(s)
    BY <2>1, AloneSteps DEF Expire, tables
  <2>3. status \in [Takes -> Statuses]
    BY DEF IInv, TypeOK
  <2>4. Complete(s)
    BY <2>2, <2>3 DEF AloneHandle, Begin, GiveUp, AskCache, AskTable, PutsAnswer, PutAnswer, Move, Look,
                      Start, SetsFlag, SetFlag, Scan, Count, LockTake, Cancel, tables
  <2>5. /\ job[s].take \in Takes /\ status' = [status EXCEPT ![job[s].take] = "completed"]
        /\ stock' = stock + Total(rows[job[s].take])
    BY <2>1, <2>4, Completing
  <2>6. t = job[s].take
    BY <2>3, <2>5
  <2>7. CASE rows[t] = <<>>
    <3>1. Total(rows[t]) = 0 /\ stock \in Int
      BY <2>7, TotalNone DEF AloneFacts, AloneTypes
    <3> QED
      BY <2>5, <2>6, <2>7, <3>1 DEF Landed
  <2>8. CASE rows[t] # <<>>
    <3>1. rows[t] = <<rows[t][1]>> /\ rows[t][1].counted = stock + Total(rows[t])
      BY <2>8, TotalInt
    <3>2. 1 \in DOMAIN rows[t]
      BY <3>1
    <3> QED
      BY <2>5, <2>6, <3>1, <3>2 DEF Landed
  <2> QED
    BY <2>7, <2>8
<1> QED
  BY <1>1, AloneInit, AloneKeeps, PTL DEF MCSpec, AloneCountLands
=============================================================================
