----------------------------- MODULE BillzImport -----------------------------
(***************************************************************************)
(* Importing a shop's BiLLZ catalogue (BillzImportService, the calls of    *)
(* the back office; BillzImportWorker, two loops of the server).           *)
(*                                                                         *)
(* A job is fetched window by window (a page, or a page of a category)     *)
(* into staging rows, then loaded from them into the shop, one lane each:  *)
(* the fetch lane works on one job in phase "fetch" at a time, the load    *)
(* lane on one in phase "load".  The calls read the shop's latest job and  *)
(* write it by its id; a lane reads the job's status between its           *)
(* transactions and guards its own changes of it.                          *)
(*                                                                         *)
(* A catalogue (products, images) is walked with the window just done as   *)
(* checkpoint, and records seen before are skipped; customers are paged    *)
(* with the next page as checkpoint.                                       *)
(***************************************************************************)
EXTENDS Integers, Sequences, FiniteSets

CONSTANTS MaxJobs,     \* bound: jobs ever made
          Shops, NoShop,
          Items,       \* the records BiLLZ has
          Windows,     \* per selected entity, in ENTITY_ORDER: its windows of records
          Catalog,     \* the entities walked as a catalogue
          TotalKnown,  \* does BiLLZ report how many customers there are
          LastShort,   \* is the last page of customers shorter than the limit
          BatchSize,   \* LOAD_BATCH
          Faults,      \* what can go wrong: "restart", "database"
          Sessions,    \* concurrent calls
          MaxEvents    \* bound: calls, restarts and failures of the database

Jobs == 1..MaxJobs     \* in the order of created_at
NoJob == 0

Entities == DOMAIN Windows
Records(e) == UNION {Windows[e][p] : p \in DOMAIN Windows[e]}

ASSUME NamesAssumption == NoShop \notin Shops
ASSUME WindowsAssumption ==
  /\ Windows \in Seq(Seq(SUBSET Items)) /\ Windows # <<>>
  /\ \A e \in Entities : Windows[e] # <<>>
  /\ \A e, f \in Entities : e # f => Records(e) \cap Records(f) = {}
  /\ \A e \in Entities \ Catalog : \A p, q \in DOMAIN Windows[e] :
       p # q => Windows[e][p] \cap Windows[e][q] = {}
ASSUME LimitsAssumption == /\ TotalKnown \in BOOLEAN /\ LastShort \in BOOLEAN
                           /\ BatchSize \in Nat \ {0}
                           /\ MaxJobs \in Nat /\ MaxEvents \in Nat

Lanes == {"fetch", "load"}

VARIABLES
  status,    \* billz_import_jobs.status; "none" before the row, "deleted" after it
  phase,     \* billz_import_jobs.phase: the lane it is for
  shop,      \* billz_import_jobs.business_id
  at,        \* checkpoint: per entity, a window
  pending,   \* per job and record: its staging rows still to load
  loaded,    \*   its rows loaded, with an audit row each
  failed,    \*   its rows that could not be, with an audit row each
  applied,   \* per job: the records written to the shop's own tables
  step,      \* where each lane is
  job,       \* the job it works on
  turn,      \* the entity it works on
  page,      \* fetch lane: the window it asks for
  seen,      \* fetch lane: the records of the entity it need not stage again
  batch,     \* load lane: the rows it has read and not yet tried
  good,      \* load lane: the rows that went well,
  bad,       \*            and those that did not
  call,      \* what each session was asked, for which shop, and the job it found
  events,    \* calls, restarts and failures of the database so far
  lost       \* the jobs found running whose end or restart could not be written

jobRow == <<status, phase, shop>>
staging == <<at, pending, loaded, failed>>
memory == <<job, turn, page, seen, batch, good, bad>>
lanes == <<step, memory>>
outside == <<call, events, lost>>
vars == <<jobRow, staging, applied, lanes, outside>>

NoCall == [op |-> "none", shop |-> NoShop, job |-> NoJob]
Fresh == [e \in Entities |-> 1]
NoRows == [i \in Items |-> 0]

Init == /\ status = [j \in Jobs |-> "none"]
        /\ phase = [j \in Jobs |-> "fetch"]
        /\ shop = [j \in Jobs |-> NoShop]
        /\ at = [j \in Jobs |-> Fresh]
        /\ pending = [j \in Jobs |-> NoRows]
        /\ loaded = [j \in Jobs |-> NoRows]
        /\ failed = [j \in Jobs |-> NoRows]
        /\ applied = [j \in Jobs |-> {}]
        /\ step = [l \in Lanes |-> "idle"]
        /\ job = [l \in Lanes |-> NoJob]
        /\ turn = [l \in Lanes |-> 1]
        /\ page = 1
        /\ seen = {} /\ batch = {} /\ good = {} /\ bad = {}
        /\ call = [s \in Sessions |-> NoCall]
        /\ events = 0
        /\ lost = {}

Live(j) == status[j] \notin {"none", "deleted"}

------------------------------------------------------------------------------
\* The calls: look at the shop's latest job, then write it by its id.  One that
\* is refused or lost after the look is a call that was not made.

Active == {"queued", "running", "paused"}

\* What pause, resume and cancel want of the job they find.
Wanted == [pause |-> {"queued", "running"}, resume |-> {"paused", "failed"}, cancel |-> Active]

JobsOf(b) == {j \in Jobs : Live(j) /\ shop[j] = b}
Latest(b) == {j \in JobsOf(b) : \A k \in JobsOf(b) : k <= j}

Happens == events < MaxEvents /\ events' = events + 1

Ask(s, op, b, j) == /\ call[s] = NoCall
                    /\ Happens
                    /\ call' = [call EXCEPT ![s] = [op |-> op, shop |-> b, job |-> j]]
                    /\ UNCHANGED <<jobRow, staging, applied, lanes, lost>>

LookToStart(s) == \E b \in Shops : /\ Latest(b) = {}
                                   /\ Ask(s, "start", b, NoJob)

LookToControl(s) == \E b \in Shops, op \in DOMAIN Wanted :
                      \E j \in Latest(b) : /\ status[j] \in Wanted[op]
                                           /\ Ask(s, op, b, j)

LookToReset(s) == \E b \in Shops : /\ \A j \in Latest(b) : status[j] \notin Active
                                   /\ Ask(s, "reset", b, NoJob)

Answered(s) == /\ call' = [call EXCEPT ![s] = NoCall]
               /\ UNCHANGED <<lanes, events, lost>>

\* The insert.
Start(s) ==
  /\ call[s].op = "start"
  /\ Answered(s)
  /\ \E j \in Jobs : /\ status[j] = "none" /\ \A k \in Jobs : k < j => status[k] # "none"
                     /\ status' = [status EXCEPT ![j] = "queued"]
                     /\ shop' = [shop EXCEPT ![j] = call[s].shop]
  /\ UNCHANGED <<phase, staging, applied>>

\* pause, resume, cancel: UPDATE ... WHERE id; nothing, if the row is gone.
Become == [pause |-> "paused", resume |-> "queued", cancel |-> "cancelled"]
Control(s) ==
  LET j == call[s].job
  IN  /\ call[s].op \in DOMAIN Become
      /\ Answered(s)
      /\ status' = IF Live(j) THEN [status EXCEPT ![j] = Become[call[s].op]] ELSE status
      /\ UNCHANGED <<phase, shop, staging, applied>>

\* All of the shop's jobs and their staging rows, in one transaction.
Reset(s) ==
  LET gone == JobsOf(call[s].shop)
  IN  /\ call[s].op = "reset"
      /\ Answered(s)
      /\ status' = [j \in Jobs |-> IF j \in gone THEN "deleted" ELSE status[j]]
      /\ pending' = [j \in Jobs |-> IF j \in gone THEN NoRows ELSE pending[j]]
      /\ loaded' = [j \in Jobs |-> IF j \in gone THEN NoRows ELSE loaded[j]]
      /\ failed' = [j \in Jobs |-> IF j \in gone THEN NoRows ELSE failed[j]]
      /\ UNCHANGED <<phase, shop, at, applied>>

------------------------------------------------------------------------------
\* What both lanes do.

Working == {"open", "check", "work", "status", "end"}

Go(l, here, there) == step[l] = here /\ step' = [step EXCEPT ![l] = there]

\* Nothing in a lane's memory outlives its work on an entity.
Forget == page' = 1 /\ seen' = {} /\ batch' = {} /\ good' = {} /\ bad' = {}
ForgetOf(l) == IF l = "fetch" THEN page' = 1 /\ seen' = {} /\ UNCHANGED <<batch, good, bad>>
               ELSE batch' = {} /\ good' = {} /\ bad' = {} /\ UNCHANGED <<page, seen>>

Leave(l) == /\ step' = [step EXCEPT ![l] = "idle"]
            /\ job' = [job EXCEPT ![l] = NoJob]
            /\ turn' = [turn EXCEPT ![l] = 1]
            /\ ForgetOf(l)

Raise(l) == step' = [step EXCEPT ![l] = "fail"] /\ ForgetOf(l) /\ UNCHANGED <<job, turn>>

Queued(l) == {j \in Jobs : status[j] = "queued" /\ phase[j] = l}
OldestQueued(l) == {j \in Queued(l) : \A k \in Queued(l) : j <= k}

\* The loop takes the oldest queued job of its phase.  With none it ends; the
\* poll, or the wake-up after a call, looks again.
Pick(l) == /\ Go(l, "idle", "claim")
           /\ \E j \in OldestQueued(l) : job' = [job EXCEPT ![l] = j]
           /\ UNCHANGED <<jobRow, staging, applied, turn, page, seen, batch, good, bad, outside>>

Claimable(l) == status[job[l]] = "queued" /\ phase[job[l]] = l

Claim(l) == /\ step[l] = "claim"
            /\ IF Claimable(l)
               THEN /\ Go(l, "claim", "open")
                    /\ status' = [status EXCEPT ![job[l]] = "running"]
                    /\ UNCHANGED memory
               ELSE Leave(l) /\ UNCHANGED status
            /\ UNCHANGED <<phase, shop, staging, applied, outside>>

Staged(j) == {i \in Items : pending[j][i] + loaded[j][i] + failed[j][i] > 0}

\* Mutant: a resumed catalogue does not look at the staging rows it has.
OpenBlank(l) ==
  /\ step[l] = "open"
  /\ IF Live(job[l])
     THEN /\ Go(l, "open", "check")
          /\ IF l = "fetch" THEN page' = at[job[l]][turn[l]] /\ seen' = {} ELSE UNCHANGED <<page, seen>>
          /\ UNCHANGED <<job, turn, batch, good, bad>>
     ELSE Leave(l)
  /\ UNCHANGED <<jobRow, staging, applied, outside>>

\* The entity's resume position: the job row, and for a catalogue the staging
\* rows it already has.
Open(l) ==
  LET j == job[l]  e == turn[l]
  IN  /\ step[l] = "open"
      /\ IF Live(j)
         THEN /\ Go(l, "open", "check")
              /\ IF l = "fetch"
                 THEN page' = at[j][e] /\ seen' = IF e \in Catalog THEN Staged(j) ELSE {}
                 ELSE UNCHANGED <<page, seen>>
              /\ UNCHANGED <<job, turn, batch, good, bad>>
         ELSE Leave(l)
      /\ UNCHANGED <<jobRow, staging, applied, outside>>

\* checkStop: paused, cancelled, queued again, gone: leave it.
CheckStop(l) ==
  /\ step[l] = "check"
  /\ IF status[job[l]] = "running" THEN Go(l, "check", "work") /\ UNCHANGED memory
                                   ELSE Leave(l)
  /\ UNCHANGED <<jobRow, staging, applied, outside>>

\* On to the next entity, or to the end of the job.
Advance(l) == /\ IF turn[l] < Len(Windows)
                 THEN /\ step' = [step EXCEPT ![l] = "open"]
                      /\ turn' = [turn EXCEPT ![l] = turn[l] + 1]
                 ELSE step' = [step EXCEPT ![l] = "end"] /\ UNCHANGED turn
              /\ ForgetOf(l)
              /\ UNCHANGED job

\* An exception: the job is marked failed if it is still running, which may
\* fail as well.
Throw(l) == /\ \/ /\ l = "fetch" /\ step[l] \in {"open", "work"}
                  /\ UNCHANGED events
               \/ /\ "database" \in Faults /\ step[l] \in Working \cup {"claim"}
                  /\ Happens
            /\ Raise(l)
            /\ UNCHANGED <<jobRow, staging, applied, call, lost>>

\* Mutant: the failure is logged only.
FailJobLogged(l) == /\ step[l] = "fail"
                    /\ Leave(l)
                    /\ UNCHANGED <<jobRow, staging, applied, outside>>

FailJob(l) == /\ step[l] = "fail"
              /\ Leave(l)
              /\ status' = IF status[job[l]] = "running"
                           THEN [status EXCEPT ![job[l]] = "failed"] ELSE status
              /\ UNCHANGED <<phase, shop, staging, applied, outside>>

\* The failure cannot be written either: the loop ends, the poll starts it again.
LoseFailure(l) == /\ "database" \in Faults
                  /\ step[l] = "fail"
                  /\ Happens
                  /\ Leave(l)
                  /\ lost' = IF status[job[l]] = "running" THEN lost \cup {job[l]} ELSE lost
                  /\ UNCHANGED <<jobRow, staging, applied, call>>

------------------------------------------------------------------------------
\* The fetch lane.

Last(e) == Len(Windows[e])
Window(e, p) == IF p <= Last(e) THEN Windows[e][p] ELSE {}

\* One transaction: the window's new records, the counters and the checkpoint.
\* Rows for a job that is gone break their foreign key.
FetchPage ==
  LET j == job["fetch"]  e == turn["fetch"]
      new == Window(e, page) \ seen
  IN  /\ step["fetch"] = "work"
      /\ Live(j) \/ new = {}
      /\ Go("fetch", "work", "status")
      /\ IF Live(j)
         THEN /\ pending' = [pending EXCEPT ![j] = [i \in Items |-> IF i \in new THEN @[i] + 1 ELSE @[i]]]
              /\ at' = [at EXCEPT ![j][e] = IF e \in Catalog THEN page ELSE page + 1]
         ELSE UNCHANGED <<pending, at>>
      /\ seen' = IF e \in Catalog THEN seen \cup new ELSE {}
      /\ UNCHANGED <<jobRow, loaded, failed, applied, job, turn, page, batch, good, bad, outside>>

PageOfGoneJob == /\ step["fetch"] = "work"
                 /\ ~Live(job["fetch"]) /\ Window(turn["fetch"], page) \ seen # {}
                 /\ Raise("fetch")
                 /\ UNCHANGED <<jobRow, staging, applied, outside>>

\* A page past the end may be answered with an error; when all customers
\* reported have been fetched, that is the end of them.
PastTheEnd == /\ step["fetch"] = "work"
              /\ turn["fetch"] \notin Catalog /\ TotalKnown /\ page > Last(turn["fetch"])
              /\ Advance("fetch")
              /\ UNCHANGED <<jobRow, staging, applied, outside>>

\* Mutant: the number of pages is rounded down.
IsEndFloor(e, p) == p >= Last(e) - 1

\* Was that the entity's last window?  A page of customers is if it is short, or
\* if it completes the number reported.
IsEnd(e, p) == \/ p = Last(e) /\ (e \in Catalog \/ TotalKnown \/ LastShort)
               \/ p > Last(e)

FetchStatus ==
  LET j == job["fetch"]
  IN  /\ step["fetch"] = "status"
      /\ IF status[j] \in {"paused", "cancelled"} \/ ~Live(j) THEN Leave("fetch")
         ELSE IF IsEnd(turn["fetch"], page) THEN Advance("fetch")
         ELSE Go("fetch", "status", "check") /\ page' = page + 1
              /\ UNCHANGED <<job, turn, seen, batch, good, bad>>
      /\ UNCHANGED <<jobRow, staging, applied, outside>>

Finishable(l) == status[job[l]] = "running" /\ phase[job[l]] = l

\* Everything is staged: the job goes to the other lane, its checkpoint reset.
FlipToLoad ==
  LET j == job["fetch"]
  IN  /\ step["fetch"] = "end"
      /\ Leave("fetch")
      /\ IF Finishable("fetch")
         THEN /\ status' = [status EXCEPT ![j] = "queued"]
              /\ phase' = [phase EXCEPT ![j] = "load"]
              /\ at' = [at EXCEPT ![j] = Fresh]
         ELSE UNCHANGED <<status, phase, at>>
      /\ UNCHANGED <<shop, pending, loaded, failed, applied, outside>>

------------------------------------------------------------------------------
\* The load lane.

ToLoad(j, e) == {i \in Records(e) : pending[j][i] > 0}

ReadBatch ==
  LET j == job["load"]  rows == ToLoad(j, turn["load"])
  IN  /\ step["load"] = "work"
      /\ batch = {} /\ good = {} /\ bad = {}
      /\ IF rows = {} THEN Advance("load")
         ELSE \E some \in SUBSET rows :
                /\ Cardinality(some) = IF Cardinality(rows) < BatchSize THEN Cardinality(rows)
                                                                        ELSE BatchSize
                /\ batch' = some
                /\ UNCHANGED <<step, job, turn, page, seen, good, bad>>
      /\ UNCHANGED <<jobRow, staging, applied, outside>>

\* Mutant: a row that does not go is taken for loaded.
LoadRowSwallow == /\ step["load"] = "work"
                  /\ \E i \in batch :
                       /\ batch' = batch \ {i} /\ good' = good \cup {i}
                       /\ \/ UNCHANGED applied
                          \/ applied' = [applied EXCEPT ![job["load"]] = @ \cup {i}]
                  /\ UNCHANGED <<jobRow, staging, step, job, turn, page, seen, bad, outside>>

\* One row into the shop's tables, in a transaction of its own; it may not go.
LoadRow == /\ step["load"] = "work"
           /\ \E i \in batch :
                /\ batch' = batch \ {i}
                /\ \/ /\ good' = good \cup {i} /\ UNCHANGED bad
                      /\ applied' = [applied EXCEPT ![job["load"]] = @ \cup {i}]
                   \/ bad' = bad \cup {i} /\ UNCHANGED <<good, applied>>
           /\ UNCHANGED <<jobRow, staging, step, job, turn, page, seen, outside>>

Tried == step["load"] = "work" /\ batch = {} /\ good \cup bad # {}

\* The audit rows and the status of the staging rows, in one transaction.
CommitBatch ==
  LET j == job["load"]
      Add(f, S, n) == [f EXCEPT ![j] = [i \in Items |-> IF i \in S THEN @[i] + n ELSE @[i]]]
  IN  /\ Tried /\ Live(j)
      /\ Go("load", "work", "status")
      /\ pending' = Add(pending, good \cup bad, -1)
      /\ loaded' = Add(loaded, good, 1)
      /\ failed' = Add(failed, bad, 1)
      /\ good' = {} /\ bad' = {}
      /\ UNCHANGED <<jobRow, at, applied, job, turn, page, seen, batch, outside>>

BatchOfGoneJob == /\ Tried /\ ~Live(job["load"])
                  /\ Raise("load")
                  /\ UNCHANGED <<jobRow, staging, applied, outside>>

LoadStatus ==
  LET j == job["load"]
  IN  /\ step["load"] = "status"
      /\ IF status[j] \in {"paused", "cancelled"} \/ ~Live(j) THEN Leave("load")
         ELSE Go("load", "status", "check") /\ UNCHANGED memory
      /\ UNCHANGED <<jobRow, staging, applied, outside>>

Complete == /\ step["load"] = "end"
            /\ Leave("load")
            /\ status' = IF Finishable("load")
                         THEN [status EXCEPT ![job["load"]] = "completed"] ELSE status
            /\ UNCHANGED <<phase, shop, staging, applied, outside>>

------------------------------------------------------------------------------
\* The server.

\* It stops, and at its start queues again what was running.
Recovered == [j \in Jobs |-> IF status[j] = "running" THEN "queued" ELSE status[j]]

Restart == /\ "restart" \in Faults
           /\ Happens
           /\ step' = [l \in Lanes |-> "idle"]
           /\ job' = [l \in Lanes |-> NoJob]
           /\ turn' = [l \in Lanes |-> 1]
           /\ Forget
           /\ call' = [s \in Sessions |-> NoCall]
           /\ \/ status' = Recovered /\ UNCHANGED lost
              \/ /\ "database" \in Faults
                 /\ lost' = lost \cup {j \in Jobs : status[j] = "running"}
                 /\ UNCHANGED status
           /\ UNCHANGED <<phase, shop, staging, applied>>

Lane(l) == Pick(l) \/ Claim(l) \/ Open(l) \/ CheckStop(l) \/ Throw(l) \/ FailJob(l) \/ LoseFailure(l)
Fetch == Lane("fetch") \/ FetchPage \/ PageOfGoneJob \/ PastTheEnd \/ FetchStatus \/ FlipToLoad
Load == Lane("load") \/ ReadBatch \/ LoadRow \/ CommitBatch \/ BatchOfGoneJob \/ LoadStatus \/ Complete

Next == \/ Fetch \/ Load
        \/ \E s \in Sessions : \/ LookToStart(s) \/ LookToControl(s) \/ LookToReset(s)
                               \/ Start(s) \/ Control(s) \/ Reset(s)
        \/ Restart

Spec == Init /\ [][Next]_vars

\* The poll comes every five seconds, and a lane that works goes on: the
\* client's requests time out, the database answers or fails.  It does not fail
\* at every attempt to claim a job.
LiveSpec == /\ Spec
            /\ WF_vars(Fetch) /\ WF_vars(Load)
            /\ \A l \in Lanes : SF_vars(Claim(l))

------------------------------------------------------------------------------
\* Properties.

Rows(j, i) == pending[j][i] + loaded[j][i] + failed[j][i]
AllRecords == UNION {Records(e) : e \in Entities}

\* A resumed or restarted job stages no record twice: the window it repeats is
\* skipped record by record, and a page is committed with its checkpoint ("a
\* crash between them can't double-stage").
StagedOnce == \A j \in Jobs, i \in Items : Rows(j, i) <= 1

\* "Resume can never skip a record": a job goes to the load lane with every
\* record of every entity staged, however often it was stopped on the way.
NothingSkipped == \A j \in Jobs : Live(j) /\ phase[j] = "load" => AllRecords \subseteq Staged(j)

\* A completed import has dealt with every record once: it is in the shop's
\* tables, or in the log as failed.
CompletedLoaded ==
  \A j \in Jobs : status[j] = "completed" =>
    \A i \in AllRecords : /\ pending[j][i] = 0
                          /\ loaded[j][i] + failed[j][i] = 1
                          /\ loaded[j][i] = 1 => i \in applied[j]

\* A job that is queued or running does not stay so: it completes, fails, or is
\* paused, cancelled or deleted by a call; or its end could not be written.
JobSettles ==
  \A j \in Jobs : status[j] \in {"queued", "running"} ~>
                   status[j] \notin {"queued", "running"} \/ j \in lost
=============================================================================
