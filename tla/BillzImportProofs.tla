-------------------------- MODULE BillzImportProofs ---------------------------
(***************************************************************************)
(* Theorems about BillzImport for any catalogue, any windows and any       *)
(* number of jobs, calls, restarts and failures of the database: a         *)
(* resumed import stages no record twice and skips none, and one that      *)
(* completed has dealt with each once.                                     *)
(*                                                                         *)
(* The argument: a checkpoint and the rows it stands for are written       *)
(* together, so a job in the fetch phase can always be resumed from its    *)
(* checkpoint; a lane has the job of its own phase, so what it keeps in    *)
(* memory agrees with rows nobody else writes; and whatever a call does to *)
(* the status of a job that a lane is at work on, it does not touch them.  *)
(***************************************************************************)
EXTENDS BillzImport, TLAPS

Shaped == /\ DOMAIN status = Jobs /\ DOMAIN phase = Jobs /\ DOMAIN applied = Jobs
          /\ at \in [Jobs -> [Entities -> Nat]]
          /\ pending \in [Jobs -> [Items -> Nat]]
          /\ loaded \in [Jobs -> [Items -> Nat]]
          /\ failed \in [Jobs -> [Items -> Nat]]

LanesShaped == /\ DOMAIN step = Lanes
               /\ job \in [Lanes -> Jobs \cup {NoJob}]
               /\ turn \in [Lanes -> Entities]
               /\ page \in Nat \ {0}

\* Where a job that is being fetched can be resumed.
Resumable(j) ==
  \A e \in Entities :
    /\ at[j][e] > 0
    /\ e \in Catalog => at[j][e] <= Last(e)
    /\ \A p \in 1..Last(e) :
         /\ p < at[j][e] => Windows[e][p] \subseteq Staged(j)
         /\ e \notin Catalog /\ p >= at[j][e] => Windows[e][p] \cap Staged(j) = {}

JobOK(j) ==
  /\ status[j] = "none" => phase[j] = "fetch" /\ at[j] = Fresh /\ Staged(j) = {}
  /\ \A i \in Items : Rows(j, i) <= 1
  /\ Live(j) => \A i \in Items : loaded[j][i] > 0 => i \in applied[j]
  /\ Live(j) /\ phase[j] = "fetch" => Resumable(j)
  /\ Live(j) /\ phase[j] = "load" => AllRecords \subseteq Staged(j)
  /\ status[j] = "completed" => phase[j] = "load" /\ \A i \in AllRecords : pending[j][i] = 0

\* A lane that works has a job, and it is one of its phase.
LaneOK(l) == /\ step[l] # "idle" => job[l] \in Jobs
             /\ step[l] \in {"idle", "claim"} => turn[l] = 1
             /\ job[l] \in Jobs => phase[job[l]] = l /\ status[job[l]] # "none"

\* What the fetch lane keeps in memory of job j, at entity e, agrees with its rows.
Fetching(j, e) ==
  /\ \A f \in Entities : f < e => Records(f) \subseteq Staged(j)
  /\ step["fetch"] = "end" => AllRecords \subseteq Staged(j)
  /\ step["fetch"] \in {"check", "work", "status"} =>
       /\ seen = IF e \in Catalog THEN Staged(j) ELSE {}
       /\ \A p \in 1..Last(e) : p < page => Windows[e][p] \subseteq Staged(j)
       /\ e \in Catalog => page \in 1..Last(e)
  /\ step["fetch"] \in {"check", "work"} => (e \notin Catalog => at[j][e] = page)
  /\ step["fetch"] = "status" => /\ Window(e, page) \subseteq Staged(j)
                                 /\ e \notin Catalog => at[j][e] = page + 1

FetchOK == step["fetch"] \in Working /\ Live(job["fetch"]) => Fetching(job["fetch"], turn["fetch"])

\* And so does what the load lane keeps.
Loading(j, e) ==
  /\ \A f \in Entities : f < e => ToLoad(j, f) = {}
  /\ step["load"] = "end" => \A i \in AllRecords : pending[j][i] = 0
  /\ batch \cup good \cup bad \subseteq ToLoad(j, e)
  /\ good \subseteq applied[j] /\ good \cap bad = {}
  /\ batch \cap (good \cup bad) = {}

LoadOK == /\ step["load"] # "work" => batch = {} /\ good = {} /\ bad = {}
          /\ step["load"] \in Working /\ Live(job["load"]) => Loading(job["load"], turn["load"])

SideOK(l) == LaneOK(l) /\ IF l = "fetch" THEN FetchOK ELSE LoadOK

ImportOK == /\ Shaped /\ LanesShaped
            /\ \A j \in Jobs : JobOK(j)
            /\ \A l \in Lanes : SideOK(l)

------------------------------------------------------------------------------
LEMMA WindowFacts ==
  /\ Entities = 1..Len(Windows) /\ Len(Windows) \in Nat /\ 1 \in Entities
  /\ \A e \in Entities :
       /\ Last(e) \in Nat /\ 1 <= Last(e)
       /\ Records(e) \subseteq Items
       /\ \A p \in 1..Last(e) : Windows[e][p] \subseteq Records(e)
       /\ \A p \in Nat \ {0} : Window(e, p) \subseteq Items
       /\ \A i \in Records(e) : \E p \in 1..Last(e) : i \in Windows[e][p]
  /\ \A i \in AllRecords : \E e \in Entities : i \in Records(e)
  /\ \A e \in Entities : Records(e) \subseteq AllRecords
  /\ AllRecords \subseteq Items
PROOF
  <1>1. Windows \in Seq(Seq(SUBSET Items)) /\ Windows # <<>> /\ \A e \in Entities : Windows[e] # <<>>
    BY WindowsAssumption
  <1>2. Entities = 1..Len(Windows) /\ Len(Windows) \in Nat /\ 1 \in Entities
    BY <1>1 DEF Entities
  <1>3. ASSUME NEW e \in Entities
        PROVE  /\ Windows[e] \in Seq(SUBSET Items)
               /\ DOMAIN Windows[e] = 1..Last(e)
               /\ Last(e) \in Nat /\ 1 <= Last(e)
    <2>1. Windows[e] \in Seq(SUBSET Items) /\ Windows[e] # <<>>
      BY <1>1, <1>2
    <2> QED
      BY <2>1 DEF Last
  <1>4. ASSUME NEW e \in Entities
        PROVE  /\ Records(e) \subseteq Items
               /\ \A p \in 1..Last(e) : Windows[e][p] \subseteq Records(e)
               /\ \A i \in Records(e) : \E p \in 1..Last(e) : i \in Windows[e][p]
    <2>1. \A p \in 1..Last(e) : Windows[e][p] \subseteq Items
      BY <1>3
    <2> QED
      BY <1>3, <2>1 DEF Records
  <1>5. \A e \in Entities : \A p \in Nat \ {0} : Window(e, p) \subseteq Items
    <2> SUFFICES ASSUME NEW e \in Entities, NEW p \in Nat \ {0} PROVE Window(e, p) \subseteq Items
      OBVIOUS
    <2>1. CASE p \in 1..Last(e)
      BY <1>3, <1>4, <2>1 DEF Window
    <2>2. CASE p > Last(e)
      BY <1>3, <2>2 DEF Window
    <2> QED
      BY <1>3, <2>1, <2>2
  <1> QED
    BY <1>2, <1>3, <1>4, <1>5 DEF AllRecords

------------------------------------------------------------------------------
\* The three properties, from the invariant.
LEMMA Properties == ASSUME ImportOK PROVE StagedOnce /\ NothingSkipped /\ CompletedLoaded
PROOF
  <1>1. StagedOnce
    BY DEF ImportOK, JobOK, StagedOnce
  <1>2. ASSUME NEW j \in Jobs, Live(j), phase[j] = "load" PROVE AllRecords \subseteq Staged(j)
    BY <1>2 DEF ImportOK, JobOK
  <1>3. ASSUME NEW j \in Jobs, status[j] = "completed", NEW i \in AllRecords
        PROVE  /\ pending[j][i] = 0 /\ loaded[j][i] + failed[j][i] = 1
               /\ loaded[j][i] = 1 => i \in applied[j]
    <2>1. Live(j) /\ phase[j] = "load" /\ pending[j][i] = 0
      BY <1>3 DEF ImportOK, JobOK, Live
    <2>2. i \in Staged(j) /\ i \in Items
      BY <1>2, <2>1, WindowFacts
    <2>3. pending[j][i] \in Nat /\ loaded[j][i] \in Nat /\ failed[j][i] \in Nat
      BY <2>2 DEF ImportOK, Shaped
    <2>4. Rows(j, i) <= 1 /\ (loaded[j][i] > 0 => i \in applied[j])
      BY <2>1, <2>2 DEF ImportOK, JobOK
    <2> QED
      BY <2>1, <2>2, <2>3, <2>4 DEF Rows, Staged
  <1> QED
    BY <1>1, <1>2, <1>3 DEF NothingSkipped, CompletedLoaded

\* The rows and the checkpoint of a job are not touched.
RowsSame(j) ==
  /\ phase'[j] = phase[j] /\ at'[j] = at[j] /\ pending'[j] = pending[j]
  /\ loaded'[j] = loaded[j] /\ failed'[j] = failed[j] /\ applied[j] \subseteq applied'[j]

\* Nor does it come to life or complete.
StatusStays(j) ==
  /\ Live(j)' => Live(j)
  /\ status'[j] = "none" <=> status[j] = "none"
  /\ status'[j] = "completed" => status[j] = "completed"

\* What a lane that waits relies on, of a job of its phase.
Undisturbed(j) == /\ phase'[j] = phase[j] /\ status'[j] # "none"
                  /\ Live(j)' => Live(j) /\ RowsSame(j)

LEMMA JobStays ==
  ASSUME NEW j \in Jobs, JobOK(j), RowsSame(j), StatusStays(j) PROVE JobOK(j)'
PROOF
  <1>1. Staged(j)' = Staged(j)
    BY DEF RowsSame, Staged
  <1>2. \A i : Rows(j, i)' = Rows(j, i)
    BY DEF RowsSame, Rows
  <1>3. Resumable(j) => Resumable(j)'
    BY <1>1 DEF Resumable, RowsSame, Last
  <1> QED
    BY <1>1, <1>2, <1>3 DEF JobOK, RowsSame, StatusStays

\* A lane that waits while its job's rows are not touched.
LEMMA FetchWaits ==
  ASSUME LanesShaped, LaneOK("fetch"), FetchOK,
         step'["fetch"] = step["fetch"], job'["fetch"] = job["fetch"], turn'["fetch"] = turn["fetch"],
         page' = page, seen' = seen,
         \A j \in Jobs : status[j] # "none" /\ phase[j] = "fetch" => Undisturbed(j)
  PROVE  LaneOK("fetch")' /\ FetchOK'
PROOF
  <1>1. LaneOK("fetch")'
    BY DEF LaneOK, Undisturbed
  <1>2. ASSUME step["fetch"] \in Working, NEW j \in Jobs, j = job["fetch"], Live(j)',
               NEW e \in Entities, e = turn["fetch"]
        PROVE  Fetching(j, e)'
    <2>1. RowsSame(j) /\ Live(j)
      BY <1>2 DEF LaneOK, Undisturbed, Live
    <2>2. Fetching(j, e)
      BY <1>2, <2>1 DEF FetchOK
    <2>3. Staged(j)' = Staged(j)
      BY <2>1 DEF RowsSame, Staged
    <2> QED
      BY <2>1, <2>2, <2>3 DEF Fetching, RowsSame, Last, Records, Window
  <1>3. step["fetch"] \in Working => job["fetch"] \in Jobs
    BY DEF LaneOK, Working
  <1>4. turn["fetch"] \in Entities
    BY DEF LanesShaped, Lanes
  <1>5. ASSUME step'["fetch"] \in Working, Live(job["fetch"])' PROVE Fetching(job["fetch"], turn["fetch"])'
    <2>1. PICK j \in Jobs, e \in Entities : j = job["fetch"] /\ e = turn["fetch"]
      BY <1>3, <1>4, <1>5 DEF Working
    <2>2. Live(j)'
      BY <1>5, <2>1 DEF Live
    <2>3. Fetching(j, e)'
      BY <1>2, <1>5, <2>1, <2>2 DEF Working
    <2>4. j = job'["fetch"] /\ e = turn'["fetch"]
      BY <2>1
    <2> QED
      BY <2>3, <2>4
  <1>6. FetchOK'
    BY <1>5 DEF FetchOK, Working
  <1> QED
    BY <1>1, <1>6


LEMMA LoadWaits ==
  ASSUME LanesShaped, LaneOK("load"), LoadOK,
         step'["load"] = step["load"], job'["load"] = job["load"], turn'["load"] = turn["load"],
         UNCHANGED <<batch, good, bad>>,
         \A j \in Jobs : status[j] # "none" /\ phase[j] = "load" => Undisturbed(j)
  PROVE  LaneOK("load")' /\ LoadOK'
PROOF
  <1>1. LaneOK("load")'
    BY DEF LaneOK, Undisturbed
  <1>2. ASSUME step["load"] \in Working, NEW j \in Jobs, j = job["load"], Live(j)',
               NEW e \in Entities, e = turn["load"]
        PROVE  Loading(j, e)'
    <2>1. RowsSame(j) /\ Live(j)
      BY <1>2 DEF LaneOK, Undisturbed, Live
    <2>2. Loading(j, e)
      BY <1>2, <2>1 DEF LoadOK
    <2>3. \A f : ToLoad(j, f)' = ToLoad(j, f)
      BY <2>1 DEF RowsSame, ToLoad, Records
    <2> QED
      BY <2>1, <2>2, <2>3 DEF Loading, RowsSame
  <1>3. step["load"] \in Working => job["load"] \in Jobs
    BY DEF LaneOK, Working
  <1>4. turn["load"] \in Entities
    BY DEF LanesShaped, Lanes
  <1>5. ASSUME step'["load"] \in Working, Live(job["load"])' PROVE Loading(job["load"], turn["load"])'
    <2>1. PICK j \in Jobs, e \in Entities : j = job["load"] /\ e = turn["load"]
      BY <1>3, <1>4, <1>5 DEF Working
    <2>2. Live(j)'
      BY <1>5, <2>1 DEF Live
    <2>3. Loading(j, e)'
      BY <1>2, <1>5, <2>1, <2>2 DEF Working
    <2>4. j = job'["load"] /\ e = turn'["load"]
      BY <2>1
    <2> QED
      BY <2>3, <2>4
  <1>6. LoadOK'
    BY <1>5 DEF LoadOK, Working
  <1> QED
    BY <1>1, <1>6

\* The other lane, and its memory, stay.
Apart(l) ==
  /\ \A m \in Lanes \ {l} : step'[m] = step[m] /\ job'[m] = job[m] /\ turn'[m] = turn[m]
  /\ IF l = "fetch" THEN UNCHANGED <<batch, good, bad>> ELSE UNCHANGED <<page, seen>>

\* A step of one lane.
LEMMA LaneStep ==
  ASSUME ImportOK, NEW l \in Lanes, Shaped', LanesShaped', \A j \in Jobs : JobOK(j)', SideOK(l)',
         Apart(l), \A j \in Jobs : status[j] # "none" /\ phase[j] # l => Undisturbed(j)
  PROVE  ImportOK'
PROOF
  <1>1. LanesShaped /\ \A m \in Lanes : SideOK(m)
    BY DEF ImportOK
  <1>2. CASE l = "fetch"
    <2>1. LaneOK("load")' /\ LoadOK'
      BY <1>1, <1>2, LoadWaits DEF Apart, Lanes, SideOK
    <2> QED
      BY <1>2, <2>1 DEF ImportOK, SideOK, Lanes
  <1>3. CASE l = "load"
    <2>1. LaneOK("fetch")' /\ FetchOK'
      BY <1>1, <1>3, FetchWaits DEF Apart, Lanes, SideOK
    <2> QED
      BY <1>3, <2>1 DEF ImportOK, SideOK, Lanes
  <1> QED
    BY <1>2, <1>3 DEF Lanes

\* A step of no lane: of a call.
LEMMA CallStep ==
  ASSUME ImportOK, Shaped', UNCHANGED lanes, \A j \in Jobs : JobOK(j)',
         \A j \in Jobs : status[j] # "none" => Undisturbed(j)
  PROVE  ImportOK'
PROOF
  <1>1. LanesShaped /\ \A m \in Lanes : SideOK(m)
    BY DEF ImportOK
  <1>2. LanesShaped'
    BY <1>1 DEF LanesShaped, lanes, memory
  <1>3. LaneOK("fetch")' /\ FetchOK'
    BY <1>1, FetchWaits DEF SideOK, Lanes, lanes, memory
  <1>4. LaneOK("load")' /\ LoadOK'
    BY <1>1, LoadWaits DEF SideOK, Lanes, lanes, memory
  <1> QED
    BY <1>2, <1>3, <1>4 DEF ImportOK, SideOK, Lanes

\* A step of one lane that writes no rows.
LEMMA QuietStep ==
  ASSUME ImportOK, NEW l \in Lanes, UNCHANGED <<phase, staging, applied>>, DOMAIN status' = Jobs,
         \A j \in Jobs : StatusStays(j), LanesShaped', SideOK(l)', Apart(l)
  PROVE  ImportOK'
PROOF
  <1>1. \A j \in Jobs : RowsSame(j)
    BY DEF RowsSame, staging
  <1>2. \A j \in Jobs : JobOK(j)'
    BY <1>1, JobStays DEF ImportOK
  <1>3. Shaped'
    BY DEF ImportOK, Shaped, staging
  <1>4. \A j \in Jobs : status[j] # "none" => Undisturbed(j)
    BY <1>1 DEF Undisturbed, StatusStays, RowsSame
  <1> QED
    BY <1>2, <1>3, <1>4, LaneStep

LEMMA LeaveOK ==
  ASSUME LanesShaped, NEW l \in Lanes, Leave(l)
  PROVE  LanesShaped' /\ SideOK(l)' /\ Apart(l)
PROOF
  <1>1. LanesShaped'
    BY WindowFacts DEF LanesShaped, Leave, ForgetOf, Lanes
  <1>2. Apart(l)
    BY DEF LanesShaped, Leave, ForgetOf, Lanes, Apart
  <1>3. step'[l] = "idle" /\ turn'[l] = 1 /\ job'[l] = NoJob /\ NoJob \notin Jobs
    BY LimitsAssumption DEF LanesShaped, Leave, Jobs, NoJob
  <1>4. LaneOK(l)'
    BY <1>3 DEF LaneOK
  <1>5. SideOK(l)'
    <2>1. CASE l = "fetch"
      BY <1>3, <1>4, <2>1 DEF SideOK, FetchOK, Working
    <2>2. CASE l = "load"
      BY <1>3, <1>4, <2>2 DEF SideOK, LoadOK, Working, Leave, ForgetOf
    <2> QED
      BY <2>1, <2>2 DEF Lanes
  <1> QED
    BY <1>1, <1>2, <1>5

\* The statuses and phases of jobs that exist.
PhasesStay == \A j \in Jobs : status[j] # "none" => phase'[j] = phase[j] /\ status'[j] # "none"

LEMMA RaiseOK ==
  ASSUME LanesShaped, NEW l \in Lanes, LaneOK(l), Raise(l), step[l] # "idle", PhasesStay
  PROVE  LanesShaped' /\ SideOK(l)' /\ Apart(l)
PROOF
  <1>1. LanesShaped'
    BY WindowFacts DEF LanesShaped, Raise, ForgetOf, Lanes
  <1>2. Apart(l)
    BY DEF LanesShaped, Raise, ForgetOf, Lanes, Apart
  <1>3. step'[l] = "fail" /\ turn'[l] = turn[l] /\ job'[l] = job[l]
    BY DEF LanesShaped, Raise
  <1>4. LaneOK(l)'
    BY <1>3 DEF LaneOK, PhasesStay
  <1>5. SideOK(l)'
    <2>1. CASE l = "fetch"
      BY <1>3, <1>4, <2>1 DEF SideOK, FetchOK, Working
    <2>2. CASE l = "load"
      BY <1>3, <1>4, <2>2 DEF SideOK, LoadOK, Working, Raise, ForgetOf
    <2> QED
      BY <2>1, <2>2 DEF Lanes
  <1> QED
    BY <1>1, <1>2, <1>5

------------------------------------------------------------------------------
\* What both lanes do.
LEMMA PickStep == ASSUME ImportOK, NEW l \in Lanes, Pick(l) PROVE ImportOK'
PROOF
  <1>1. PICK j \in OldestQueued(l) : job' = [job EXCEPT ![l] = j]
    BY DEF Pick
  <1>2. j \in Jobs /\ status[j] = "queued" /\ phase[j] = l
    BY DEF OldestQueued, Queued
  <1>3. LanesShaped
    BY DEF ImportOK
  <1>4. step[l] = "idle" /\ step' = [step EXCEPT ![l] = "claim"] /\ UNCHANGED <<status, phase, turn, page, seen, batch, good, bad>>
    BY DEF Pick, Go, jobRow
  <1>5. LanesShaped'
    BY <1>1, <1>2, <1>3, <1>4 DEF LanesShaped, Lanes
  <1>6. Apart(l)
    BY <1>1, <1>3, <1>4 DEF Apart, LanesShaped, Lanes
  <1>7. step'[l] = "claim" /\ job'[l] = j /\ turn'[l] = turn[l]
    BY <1>1, <1>3, <1>4 DEF LanesShaped
  <1>8. LaneOK(l)'
    BY <1>2, <1>4, <1>7 DEF LaneOK, ImportOK, SideOK
  <1>9. SideOK(l)'
    <2>1. CASE l = "fetch"
      BY <1>7, <1>8, <2>1 DEF SideOK, FetchOK, Working
    <2>2. CASE l = "load"
      BY <1>4, <1>7, <1>8, <2>2 DEF SideOK, LoadOK, Working, ImportOK
    <2> QED
      BY <2>1, <2>2 DEF Lanes
  <1>10. \A k \in Jobs : StatusStays(k)
    BY <1>4 DEF StatusStays, Live
  <1> QED
    BY <1>4, <1>5, <1>6, <1>9, <1>10, QuietStep DEF Pick, ImportOK, Shaped

\* The claim fails, or the job is running from here on.
LEMMA ClaimStep == ASSUME ImportOK, NEW l \in Lanes, Claim(l) PROVE ImportOK'
PROOF
  <1>1. LanesShaped /\ step[l] = "claim" /\ LaneOK(l) /\ DOMAIN status = Jobs
    BY DEF ImportOK, SideOK, Claim, Shaped
  <1>2. UNCHANGED <<phase, staging, applied>>
    BY DEF Claim
  <1>3. CASE Claimable(l)
    <2>1. PICK j \in Jobs : j = job[l]
      BY <1>1 DEF LaneOK
    <2>2. /\ status[j] = "queued" /\ status' = [status EXCEPT ![j] = "running"]
          /\ step' = [step EXCEPT ![l] = "open"] /\ UNCHANGED memory /\ phase' = phase /\ phase[j] = l
      BY <1>3, <2>1 DEF Claim, Claimable, Go
    <2>3. \A k \in Jobs : StatusStays(k)
      BY <1>1, <2>2 DEF StatusStays, Live
    <2>4. LanesShaped' /\ Apart(l) /\ step'[l] = "open" /\ turn[l] = 1
      BY <1>1, <2>2 DEF LanesShaped, Lanes, Apart, memory, LaneOK
    <2>5. LaneOK(l)'
      BY <1>1, <2>1, <2>2, <2>4 DEF LaneOK, memory
    <2>6. SideOK(l)'
      <3>1. CASE l = "fetch"
        <4>1. Fetching(j, 1)'
          BY <2>4, <3>1, WindowFacts DEF Fetching
        <4>2. job'[l] = j /\ turn'[l] = 1
          BY <2>1, <2>2, <2>4 DEF memory
        <4> QED
          BY <2>5, <3>1, <4>1, <4>2 DEF SideOK, FetchOK
      <3>2. CASE l = "load"
        <4>1. batch = {} /\ good = {} /\ bad = {}
          BY <1>1, <3>2 DEF ImportOK, SideOK, LoadOK
        <4>2. Loading(j, 1)'
          BY <2>2, <2>4, <3>2, <4>1, WindowFacts DEF Loading, memory
        <4>3. job'[l] = j /\ turn'[l] = 1
          BY <2>1, <2>2, <2>4 DEF memory
        <4> QED
          BY <2>2, <2>4, <2>5, <3>2, <4>1, <4>2, <4>3 DEF SideOK, LoadOK, memory
      <3> QED
        BY <3>1, <3>2 DEF Lanes
    <2> QED
      BY <1>1, <1>2, <2>2, <2>3, <2>4, <2>6, QuietStep
  <1>4. CASE ~Claimable(l)
    <2>1. Leave(l) /\ status' = status
      BY <1>4 DEF Claim
    <2>2. \A k \in Jobs : StatusStays(k)
      BY <2>1 DEF StatusStays, Live
    <2> QED
      BY <1>1, <1>2, <2>1, <2>2, LeaveOK, QuietStep
  <1> QED
    BY <1>3, <1>4

\* The position is read back from the rows: nothing is in memory but them.
LEMMA OpenStep == ASSUME ImportOK, NEW l \in Lanes, Open(l) PROVE ImportOK'
PROOF
  <1>0. step[l] = "open"
    BY DEF Open
  <1>1. LanesShaped /\ step[l] = "open" /\ LaneOK(l) /\ DOMAIN status = Jobs /\ Shaped
    BY <1>0 DEF ImportOK, SideOK, Shaped
  <1>2. UNCHANGED <<phase, staging, applied>> /\ UNCHANGED status
    BY DEF Open, jobRow
  <1>3. \A k \in Jobs : StatusStays(k)
    BY <1>2 DEF StatusStays, Live
  <1>4. PICK j \in Jobs, e \in Entities : j = job[l] /\ e = turn[l]
    BY <1>1 DEF LaneOK, LanesShaped
  <1>5. CASE Live(j)
    <2>1. /\ step' = [step EXCEPT ![l] = "check"]
          /\ IF l = "fetch" THEN page' = at[j][e] /\ seen' = IF e \in Catalog THEN Staged(j) ELSE {}
                            ELSE UNCHANGED <<page, seen>>
          /\ UNCHANGED <<job, turn, batch, good, bad>>
      BY <1>4, <1>5 DEF Open, Go
    <2>2. step'[l] = "check" /\ job'[l] = j /\ turn'[l] = e
      BY <1>1, <1>4, <2>1 DEF LanesShaped
    <2>3. LaneOK(l)'
      BY <1>1, <1>2, <1>4, <2>2 DEF LaneOK
    <2>4. Apart(l)
      BY <1>1, <2>1 DEF Apart, LanesShaped, Lanes
    <2>5. Staged(j)' = Staged(j)
      BY <1>2 DEF Staged, staging
    <2>6. CASE l = "fetch"
      <3>1. phase[j] = "fetch" /\ Resumable(j)
        BY <1>1, <1>4, <1>5, <2>6 DEF LaneOK, ImportOK, JobOK
      <3>2. at[j][e] \in Nat \ {0}
        BY <1>1, <3>1 DEF Shaped, Resumable
      <3>3. LanesShaped'
        BY <1>1, <2>1, <2>6, <3>2 DEF LanesShaped, Lanes
      <3>4. Fetching(j, e)
        BY <1>1, <1>4, <1>5, <2>6 DEF ImportOK, SideOK, FetchOK, Working
      <3>5. page' = at[j][e] /\ seen' = (IF e \in Catalog THEN Staged(j) ELSE {}) /\ step'["fetch"] = "check" /\ at' = at
        BY <1>2, <2>1, <2>2, <2>6 DEF staging
      <3>6. Fetching(j, e)'
        BY <2>5, <3>1, <3>2, <3>4, <3>5 DEF Fetching, Resumable, Last, Records
      <3>7. SideOK(l)'
        BY <2>2, <2>3, <2>6, <3>6 DEF SideOK, FetchOK
      <3> QED
        BY <1>1, <1>2, <1>3, <2>4, <3>3, <3>7, QuietStep
    <2>7. CASE l = "load"
      <3>1. LanesShaped'
        BY <1>1, <2>1, <2>7 DEF LanesShaped, Lanes
      <3>2. Loading(j, e) /\ batch = {} /\ good = {} /\ bad = {}
        BY <1>1, <1>4, <1>5, <2>7 DEF ImportOK, SideOK, LoadOK, Working
      <3>3. \A f : ToLoad(j, f)' = ToLoad(j, f)
        BY <1>2 DEF ToLoad, Records, staging
      <3>4. Loading(j, e)'
        BY <1>2, <2>1, <2>2, <2>7, <3>2, <3>3 DEF Loading
      <3>5. SideOK(l)'
        BY <2>1, <2>2, <2>3, <2>7, <3>2, <3>4 DEF SideOK, LoadOK
      <3> QED
        BY <1>1, <1>2, <1>3, <2>4, <3>1, <3>5, QuietStep
    <2> QED
      BY <2>6, <2>7 DEF Lanes
  <1>6. CASE ~Live(j)
    <2>1. Leave(l)
      BY <1>4, <1>6 DEF Open
    <2> QED
      BY <1>1, <1>2, <1>3, <2>1, LeaveOK, QuietStep
  <1> QED
    BY <1>5, <1>6

LEMMA CheckStopStep == ASSUME ImportOK, NEW l \in Lanes, CheckStop(l) PROVE ImportOK'
PROOF
  <1>1. LanesShaped /\ step[l] = "check" /\ LaneOK(l) /\ DOMAIN status = Jobs
    BY DEF ImportOK, SideOK, CheckStop, Shaped
  <1>2. UNCHANGED <<phase, staging, applied>> /\ UNCHANGED status
    BY DEF CheckStop, jobRow
  <1>3. \A k \in Jobs : StatusStays(k)
    BY <1>2 DEF StatusStays, Live
  <1>4. CASE step' = [step EXCEPT ![l] = "work"] /\ UNCHANGED memory
    <2>1. LanesShaped' /\ Apart(l) /\ step'[l] = "work"
      BY <1>1, <1>4 DEF LanesShaped, Lanes, Apart, memory
    <2>2. LaneOK(l)'
      BY <1>1, <1>2, <1>4, <2>1 DEF LaneOK, memory
    <2>3. PICK j \in Jobs, e \in Entities : j = job[l] /\ e = turn[l]
      BY <1>1 DEF LaneOK, LanesShaped
    <2>4. j = job'[l] /\ e = turn'[l] /\ Live(j)' = Live(j)
      BY <1>2, <1>4, <2>3 DEF memory, Live
    <2>5. SideOK(l)'
      <3>1. CASE l = "fetch"
        <4>1. ASSUME Live(j) PROVE Fetching(j, e)'
          <5>1. Fetching(j, e)
            BY <1>1, <2>3, <3>1, <4>1 DEF ImportOK, SideOK, FetchOK, Working
          <5>2. Staged(j)' = Staged(j)
            BY <1>2 DEF Staged, staging
          <5> QED
            BY <1>1, <1>2, <1>4, <2>1, <3>1, <5>1, <5>2 DEF Fetching, memory, staging, Last, Records
        <4> QED
          BY <2>2, <2>4, <3>1, <4>1 DEF SideOK, FetchOK
      <3>2. CASE l = "load"
        <4>1. batch = {} /\ good = {} /\ bad = {}
          BY <1>1, <3>2 DEF ImportOK, SideOK, LoadOK
        <4>2. ASSUME Live(j) PROVE Loading(j, e)'
          <5>1. Loading(j, e)
            BY <1>1, <2>3, <3>2, <4>2 DEF ImportOK, SideOK, LoadOK, Working
          <5>2. \A f : ToLoad(j, f)' = ToLoad(j, f)
            BY <1>2 DEF ToLoad, Records, staging
          <5> QED
            BY <1>2, <1>4, <2>1, <3>2, <4>1, <5>1, <5>2 DEF Loading, memory
        <4> QED
          BY <2>2, <2>4, <3>2, <4>2, <2>1 DEF SideOK, LoadOK
      <3> QED
        BY <3>1, <3>2 DEF Lanes
    <2> QED
      BY <1>1, <1>2, <1>3, <2>1, <2>5, QuietStep
  <1>5. CASE Leave(l)
    BY <1>1, <1>2, <1>3, <1>5, LeaveOK, QuietStep
  <1> QED
    BY <1>4, <1>5 DEF CheckStop, Go

LEMMA ThrowStep ==
  ASSUME ImportOK, NEW l \in Lanes, Raise(l), step[l] # "idle", UNCHANGED <<jobRow, staging, applied>>
  PROVE  ImportOK'
PROOF
  <1>1. LanesShaped /\ LaneOK(l) /\ DOMAIN status = Jobs
    BY DEF ImportOK, SideOK, Shaped
  <1>2. UNCHANGED <<phase, staging, applied>> /\ UNCHANGED status
    BY DEF jobRow
  <1>3. PhasesStay /\ \A k \in Jobs : StatusStays(k)
    BY <1>2 DEF StatusStays, Live, PhasesStay
  <1> QED
    BY <1>1, <1>2, <1>3, RaiseOK, QuietStep

\* The lane leaves the job, and may write that it failed or is done.
LEMMA LeaveStep ==
  ASSUME ImportOK, NEW l \in Lanes, Leave(l), UNCHANGED <<phase, staging, applied>>,
         DOMAIN status' = Jobs, \A k \in Jobs : StatusStays(k)
  PROVE  ImportOK'
PROOF
  <1>1. LanesShaped
    BY DEF ImportOK
  <1> QED
    BY <1>1, LeaveOK, QuietStep

LEMMA LaneSteps == ASSUME ImportOK, NEW l \in Lanes, Lane(l) PROVE ImportOK'
PROOF
  <1>1. DOMAIN status = Jobs
    BY DEF ImportOK, Shaped
  <1>2. CASE Throw(l)
    <2>1. step[l] # "idle" /\ Raise(l) /\ UNCHANGED <<jobRow, staging, applied>>
      BY <1>2 DEF Throw, Working
    <2> QED
      BY <2>1, ThrowStep
  <1>3. CASE FailJob(l)
    <2>1. /\ Leave(l) /\ UNCHANGED <<phase, staging, applied>>
          /\ status' = IF status[job[l]] = "running" THEN [status EXCEPT ![job[l]] = "failed"] ELSE status
      BY <1>3 DEF FailJob
    <2>2. DOMAIN status' = Jobs /\ \A k \in Jobs : StatusStays(k)
      BY <1>1, <2>1 DEF StatusStays, Live
    <2> QED
      BY <2>1, <2>2, LeaveStep
  <1>4. CASE LoseFailure(l)
    <2>1. Leave(l) /\ UNCHANGED <<phase, staging, applied>> /\ UNCHANGED status
      BY <1>4 DEF LoseFailure, jobRow
    <2>2. DOMAIN status' = Jobs /\ \A k \in Jobs : StatusStays(k)
      BY <1>1, <2>1 DEF StatusStays, Live
    <2> QED
      BY <2>1, <2>2, LeaveStep
  <1> QED
    BY <1>2, <1>3, <1>4, PickStep, ClaimStep, OpenStep, CheckStopStep DEF Lane

\* On to the next entity, all of whose predecessors are dealt with.
LEMMA AdvanceStep ==
  ASSUME ImportOK, NEW l \in Lanes, Advance(l), step[l] \in Working, UNCHANGED <<jobRow, staging, applied>>,
         \A j \in Jobs, e \in Entities : j = job[l] /\ e = turn[l] /\ Live(j) =>
           IF l = "fetch" THEN Records(e) \subseteq Staged(j) ELSE ToLoad(j, e) = {}
  PROVE  ImportOK'
PROOF
  <1>1. LanesShaped /\ LaneOK(l) /\ DOMAIN status = Jobs
    BY DEF ImportOK, SideOK, Shaped
  <1>2. UNCHANGED <<phase, staging, applied>> /\ UNCHANGED status
    BY DEF jobRow
  <1>3. \A k \in Jobs : StatusStays(k)
    BY <1>2 DEF StatusStays, Live
  <1>4. PICK j \in Jobs, e \in Entities : j = job[l] /\ e = turn[l]
    BY <1>1 DEF LaneOK, LanesShaped, Working
  <1>5. job' = job /\ ForgetOf(l)
    BY DEF Advance
  <1>6. \/ e < Len(Windows) /\ step' = [step EXCEPT ![l] = "open"] /\ turn' = [turn EXCEPT ![l] = e + 1]
        \/ e = Len(Windows) /\ step' = [step EXCEPT ![l] = "end"] /\ turn' = turn
    BY <1>4, WindowFacts DEF Advance
  <1>7. PICK g \in Entities : g = turn'[l]
    BY <1>1, <1>4, <1>6, WindowFacts DEF LanesShaped
  <1>8. \/ g = e + 1 /\ step'[l] = "open"
        \/ e = g /\ step'[l] = "end" /\ g = Len(Windows)
    BY <1>1, <1>4, <1>6, <1>7 DEF LanesShaped
  <1>9. LanesShaped' /\ Apart(l)
    <2>1. turn' \in [Lanes -> Entities] /\ DOMAIN step' = Lanes
      BY <1>1, <1>4, <1>6, WindowFacts DEF LanesShaped
    <2>2. page' \in Nat \ {0}
      BY <1>1, <1>5 DEF ForgetOf, LanesShaped
    <2>3. Apart(l)
      BY <1>1, <1>5, <1>6 DEF Apart, ForgetOf, LanesShaped, Lanes
    <2> QED
      BY <1>1, <1>5, <2>1, <2>2, <2>3 DEF LanesShaped
  <1>10. LaneOK(l)'
    BY <1>1, <1>2, <1>4, <1>5, <1>8 DEF LaneOK, Working
  <1>11. Live(j)' = Live(j) /\ job'[l] = j
    BY <1>2, <1>4, <1>5 DEF Live
  <1>12. SideOK(l)'
    <2>1. CASE l = "fetch"
      <3>1. ASSUME Live(j) PROVE Fetching(j, g)'
        <4>1. Fetching(j, e) /\ Records(e) \subseteq Staged(j)
          BY <1>4, <2>1, <3>1 DEF ImportOK, SideOK, FetchOK
        <4>2. Staged(j)' = Staged(j)
          BY <1>2 DEF Staged, staging
        <4>3. \A f \in Entities : f < g => Records(f) \subseteq Staged(j)
          <5>1. \A f \in Entities : f < e => Records(f) \subseteq Staged(j)
            BY <4>1 DEF Fetching
          <5>2. \A f \in Entities : f < g => f < e \/ f = e
            BY <1>8, WindowFacts
          <5> QED
            BY <4>1, <5>1, <5>2
        <4>4. step'[l] = "end" => AllRecords \subseteq Staged(j)
          <5> SUFFICES ASSUME step'[l] = "end", NEW i \in AllRecords PROVE i \in Staged(j)
            OBVIOUS
          <5>1. PICK f \in Entities : i \in Records(f)
            BY WindowFacts
          <5>2. f < e \/ f = e
            BY <1>8, <5>1, WindowFacts
          <5> QED
            BY <4>1, <5>1, <5>2 DEF Fetching
        <4> QED
          BY <1>8, <2>1, <4>2, <4>3, <4>4 DEF Fetching, Records, AllRecords
      <3> QED
        BY <1>7, <1>10, <1>11, <2>1, <3>1 DEF SideOK, FetchOK
    <2>2. CASE l = "load"
      <3>1. batch' = {} /\ good' = {} /\ bad' = {}
        BY <1>5, <2>2 DEF ForgetOf
      <3>2. ASSUME Live(j) PROVE Loading(j, g)'
        <4>1. Loading(j, e) /\ ToLoad(j, e) = {}
          BY <1>4, <2>2, <3>2 DEF ImportOK, SideOK, LoadOK
        <4>2. \A f : ToLoad(j, f)' = ToLoad(j, f)
          BY <1>2 DEF ToLoad, Records, staging
        <4>3. \A f \in Entities : f < g => ToLoad(j, f) = {}
          BY <1>8, <4>1, WindowFacts DEF Loading
        <4>4. step'[l] = "end" => \A i \in AllRecords : pending[j][i] = 0
          <5> SUFFICES ASSUME step'[l] = "end", NEW i \in AllRecords PROVE pending[j][i] = 0
            OBVIOUS
          <5>1. PICK f \in Entities : i \in Records(f)
            BY WindowFacts
          <5>2. f < e \/ f = e
            BY <1>8, <5>1, WindowFacts
          <5>3. ToLoad(j, f) = {}
            BY <4>1, <5>2 DEF Loading
          <5>4. pending[j][i] \in Nat
            BY WindowFacts DEF ImportOK, Shaped
          <5> QED
            BY <5>1, <5>3, <5>4 DEF ToLoad
        <4>5. (\A i \in AllRecords : pending[j][i] = 0)' <=> \A i \in AllRecords : pending[j][i] = 0
          BY <1>2 DEF staging, AllRecords, Records
        <4> QED
          BY <1>8, <2>2, <3>1, <4>2, <4>3, <4>4, <4>5 DEF Loading
      <3> QED
        BY <1>7, <1>10, <1>11, <2>2, <3>1, <3>2 DEF SideOK, LoadOK
    <2> QED
      BY <2>1, <2>2 DEF Lanes
  <1> QED
    BY <1>1, <1>2, <1>3, <1>9, <1>12, QuietStep

------------------------------------------------------------------------------
\* The fetch lane.

\* Windows of different entities share no record, nor do two of one that is paged.
LEMMA WindowsApart ==
  ASSUME NEW e \in Entities, NEW p \in 1..Last(e), NEW f \in Entities, NEW q \in 1..Last(f),
         f # e \/ (e \notin Catalog /\ p # q)
  PROVE  Windows[e][p] \cap Windows[f][q] = {}
PROOF
  <1>1. Windows[e][p] \subseteq Records(e) /\ Windows[f][q] \subseteq Records(f)
    BY WindowFacts
  <1>2. CASE f # e
    BY <1>1, <1>2, WindowsAssumption
  <1>3. CASE f = e /\ e \notin Catalog /\ p # q
    <2>1. p \in DOMAIN Windows[e] /\ q \in DOMAIN Windows[e]
      <3>1. Windows[e] \in Seq(SUBSET Items)
        BY WindowsAssumption DEF Entities
      <3> QED
        BY <1>3, <3>1 DEF Last
    <2> QED
      BY <1>3, <2>1, WindowsAssumption
  <1> QED
    BY <1>2, <1>3

\* What a page writes, and that the job can be resumed from there as well.
LEMMA FetchPageStep == ASSUME ImportOK, FetchPage PROVE ImportOK'
PROOF
  <1>0. step["fetch"] = "work" /\ step' = [step EXCEPT !["fetch"] = "status"]
    BY DEF FetchPage, Go
  <1>1. LanesShaped /\ LaneOK("fetch") /\ Shaped /\ FetchOK
    BY DEF ImportOK, SideOK, Lanes
  <1>2. PICK j \in Jobs, e \in Entities : j = job["fetch"] /\ e = turn["fetch"]
    BY <1>0, <1>1 DEF LaneOK, LanesShaped, Lanes
  <1> DEFINE new == Window(e, page) \ seen
  <1>3. /\ IF Live(j)
           THEN /\ pending' = [pending EXCEPT ![j] = [i \in Items |-> IF i \in new THEN @[i] + 1 ELSE @[i]]]
                /\ at' = [at EXCEPT ![j][e] = IF e \in Catalog THEN page ELSE page + 1]
           ELSE UNCHANGED <<pending, at>>
        /\ seen' = IF e \in Catalog THEN seen \cup new ELSE {}
        /\ UNCHANGED <<status, phase, loaded, failed, applied, job, turn, page, batch, good, bad>>
    BY <1>2 DEF FetchPage, jobRow
  <1>4. page \in Nat \ {0} /\ new \subseteq Items
    BY <1>1, WindowFacts DEF LanesShaped
  <1>5. phase[j] = "fetch" /\ status[j] # "none"
    BY <1>0, <1>1, <1>2 DEF LaneOK
  <1>6. LanesShaped' /\ Apart("fetch") /\ step'["fetch"] = "status"
    BY <1>0, <1>1, <1>3 DEF LanesShaped, Lanes, Apart
  <1>7. LaneOK("fetch")'
    BY <1>0, <1>1, <1>3, <1>6 DEF LaneOK
  <1>8. ASSUME NEW k \in Jobs, k # j \/ ~Live(j) PROVE RowsSame(k) /\ StatusStays(k)
    BY <1>1, <1>3, <1>8 DEF RowsSame, StatusStays, Live, Shaped
  <1>9. \A k \in Jobs : status[k] # "none" /\ phase[k] # "fetch" => Undisturbed(k)
    BY <1>5, <1>8 DEF Undisturbed, StatusStays, RowsSame
  <1>10. ASSUME NEW k \in Jobs, k # j \/ ~Live(j) PROVE JobOK(k)'
    BY <1>8, <1>10, JobStays DEF ImportOK
  <1>11. CASE ~Live(j)
    <2>1. Shaped'
      BY <1>1, <1>3, <1>11 DEF Shaped
    <2>2. FetchOK'
      BY <1>2, <1>3, <1>11 DEF FetchOK, Live
    <2>3. SideOK("fetch")' /\ "fetch" \in Lanes
      BY <1>7, <2>2 DEF SideOK, Lanes
    <2> QED
      BY <1>6, <1>9, <1>10, <1>11, <2>1, <2>3, LaneStep
  <1>12. CASE Live(j)
    <2>1. Fetching(j, e) /\ Resumable(j) /\ JobOK(j)
      BY <1>0, <1>1, <1>2, <1>5, <1>12 DEF FetchOK, Working, ImportOK, JobOK
    <2>2. /\ pending'[j] = [i \in Items |-> IF i \in new THEN pending[j][i] + 1 ELSE pending[j][i]]
          /\ at'[j] = [at[j] EXCEPT ![e] = IF e \in Catalog THEN page ELSE page + 1]
      BY <1>1, <1>3, <1>12 DEF Shaped
    <2>3. Shaped'
      <3>1. pending'[j] \in [Items -> Nat]
        BY <1>1, <2>2 DEF Shaped
      <3>2. at'[j] \in [Entities -> Nat]
        BY <1>1, <1>4, <2>2 DEF Shaped
      <3>3. pending' \in [Jobs -> [Items -> Nat]]
        BY <1>1, <1>3, <1>12, <3>1 DEF Shaped
      <3>4. at' \in [Jobs -> [Entities -> Nat]]
        BY <1>1, <1>3, <1>12, <3>2 DEF Shaped
      <3> QED
        BY <1>1, <1>3, <3>3, <3>4 DEF Shaped
    <2>4. Staged(j)' = Staged(j) \cup new
      <3>1. \A i \in Items : pending[j][i] \in Nat /\ loaded[j][i] \in Nat /\ failed[j][i] \in Nat
        BY <1>1 DEF Shaped
      <3>2. \A i \in Items : i \in Staged(j)' <=> i \in Staged(j) \/ i \in new
        BY <1>3, <2>2, <3>1 DEF Staged
      <3> QED
        BY <1>4, <3>2 DEF Staged
    <2>5. new \cap Staged(j) = {}
      <3>1. CASE e \in Catalog
        BY <1>0, <2>1, <3>1 DEF Fetching
      <3>2. CASE e \notin Catalog
        <4>1. seen = {} /\ at[j][e] = page
          BY <1>0, <2>1, <3>2 DEF Fetching
        <4>2. CASE page <= Last(e)
          BY <1>4, <2>1, <3>2, <4>1, <4>2, WindowFacts DEF Resumable, Window
        <4>3. CASE page > Last(e)
          BY <1>4, <4>3, WindowFacts DEF Window
        <4> QED
          BY <1>4, <4>2, <4>3, WindowFacts
      <3> QED
        BY <3>1, <3>2
    <2>6. Window(e, page) \subseteq Staged(j)'
      BY <1>0, <2>1, <2>4 DEF Fetching
    <2>7. Fetching(j, e)'
      <3>1. Fetching(j, e) /\ step["fetch"] \in {"check", "work", "status"} /\ seen = IF e \in Catalog THEN Staged(j) ELSE {}
        BY <1>0, <2>1 DEF Fetching
      <3>2. e \notin Catalog => at'[j][e] = page + 1
        BY <1>1, <2>2 DEF Shaped
      <3>3. seen' = IF e \in Catalog THEN Staged(j)' ELSE {}
        BY <1>3, <2>4, <3>1
      <3>4. \A f : Records(f)' = Records(f)
        BY DEF Records
      <3> HIDE DEF new
      <3> QED
        BY <1>3, <1>6, <2>4, <2>6, <3>1, <3>2, <3>3, <3>4 DEF Fetching, Last, Window
    <2>8. Resumable(j)'
      <3> SUFFICES ASSUME NEW f \in Entities, NEW q \in 1..Last(f)
                   PROVE  /\ at'[j][f] > 0 /\ (f \in Catalog => at'[j][f] <= Last(f))
                          /\ q < at'[j][f] => Windows[f][q] \subseteq Staged(j)'
                          /\ f \notin Catalog /\ q >= at'[j][f] => Windows[f][q] \cap Staged(j)' = {}
        BY WindowFacts DEF Resumable, Last
      <3>1. /\ at[j][f] > 0 /\ (f \in Catalog => at[j][f] <= Last(f))
            /\ q < at[j][f] => Windows[f][q] \subseteq Staged(j)
            /\ f \notin Catalog /\ q >= at[j][f] => Windows[f][q] \cap Staged(j) = {}
        BY <2>1 DEF Resumable
      <3>2. CASE f # e
        <4>1. at'[j][f] = at[j][f]
          BY <1>1, <2>2, <3>2 DEF Shaped
        <4>2. Windows[f][q] \cap new = {}
          <5>1. CASE page <= Last(e)
            BY <1>4, <3>2, <5>1, WindowFacts, WindowsApart DEF Window
          <5>2. CASE page > Last(e)
            BY <1>4, <5>2, WindowFacts DEF Window
          <5> QED
            BY <1>4, <5>1, <5>2, WindowFacts
        <4> HIDE DEF new
        <4> QED
          BY <2>4, <3>1, <4>1, <4>2
      <3>3. CASE f = e
        <4>1. at'[j][f] = IF e \in Catalog THEN page ELSE page + 1
          BY <1>1, <2>2, <3>3 DEF Shaped
        <4>2. /\ \A p \in 1..Last(e) : p < page => Windows[e][p] \subseteq Staged(j)
              /\ e \in Catalog => page \in 1..Last(e)
              /\ e \notin Catalog => at[j][e] = page
          BY <1>0, <2>1 DEF Fetching
        <4>3. q = page => Windows[f][q] \subseteq Staged(j)'
          BY <2>6, <3>3 DEF Window
        <4>4. f \notin Catalog /\ q >= at'[j][f] => Windows[f][q] \cap new = {}
          BY <1>4, <3>3, <4>1, WindowFacts, WindowsApart DEF Window
        <4> HIDE DEF new
        <4> QED
          BY <1>4, <2>4, <3>1, <3>3, <4>1, <4>2, <4>3, <4>4, WindowFacts
      <3> QED
        BY <3>2, <3>3
    <2>9. JobOK(j)'
      <3>1. \A i \in Items : Rows(j, i)' <= 1
        <4> SUFFICES ASSUME NEW i \in Items PROVE pending'[j][i] + loaded'[j][i] + failed'[j][i] <= 1
          BY DEF Rows
        <4>1. pending[j][i] \in Nat /\ loaded[j][i] \in Nat /\ failed[j][i] \in Nat
          BY <1>1 DEF Shaped
        <4>2. pending[j][i] + loaded[j][i] + failed[j][i] <= 1
          BY <2>1 DEF JobOK, Rows
        <4>3. i \in new => pending[j][i] + loaded[j][i] + failed[j][i] = 0
          BY <2>5, <4>1 DEF Staged
        <4> HIDE DEF new
        <4> QED
          BY <1>3, <2>2, <4>1, <4>2, <4>3
      <3>2. Live(j)' /\ \A i \in Items : loaded'[j][i] > 0 => i \in applied'[j]
        BY <1>3, <1>12, <2>1 DEF JobOK, Live
      <3>3. phase'[j] = "fetch" /\ status'[j] # "none" /\ status'[j] # "completed"
        BY <1>3, <1>5, <2>1 DEF JobOK
      <3> QED
        BY <2>8, <3>1, <3>2, <3>3 DEF JobOK
    <2>10. FetchOK'
      BY <1>2, <1>3, <2>7 DEF FetchOK
    <2>11. SideOK("fetch")' /\ "fetch" \in Lanes
      BY <1>7, <2>10 DEF SideOK, Lanes
    <2>12. \A k \in Jobs : JobOK(k)'
      BY <1>10, <2>9
    <2> QED
      BY <1>6, <1>9, <2>3, <2>11, <2>12, LaneStep
  <1> QED
    BY <1>11, <1>12

LEMMA FetchStatusStep == ASSUME ImportOK, FetchStatus PROVE ImportOK'
PROOF
  <1>0. step["fetch"] = "status" /\ "fetch" \in Lanes
    BY DEF FetchStatus, Lanes
  <1>1. LanesShaped /\ LaneOK("fetch") /\ DOMAIN status = Jobs /\ FetchOK
    BY <1>0 DEF ImportOK, SideOK, Shaped
  <1>2. UNCHANGED <<phase, staging, applied>> /\ UNCHANGED status
    BY DEF FetchStatus, jobRow
  <1>3. \A k \in Jobs : StatusStays(k)
    BY <1>2 DEF StatusStays, Live
  <1>4. PICK j \in Jobs, e \in Entities : j = job["fetch"] /\ e = turn["fetch"]
    BY <1>0, <1>1 DEF LaneOK, LanesShaped
  <1>5. page \in Nat \ {0}
    BY <1>1 DEF LanesShaped
  <1>6. CASE Leave("fetch")
    BY <1>0, <1>1, <1>2, <1>3, <1>6, LeaveStep
  <1>7. CASE IsEnd(e, page) /\ Advance("fetch")
    <2>1. ASSUME Live(j) PROVE Records(e) \subseteq Staged(j)
      <3>1. Fetching(j, e)
        BY <1>0, <1>1, <1>4, <2>1 DEF FetchOK, Working
      <3>2. \A p \in 1..Last(e) : Windows[e][p] \subseteq Staged(j)
        <4> SUFFICES ASSUME NEW p \in 1..Last(e) PROVE Windows[e][p] \subseteq Staged(j)
          OBVIOUS
        <4>1. p < page \/ p = page
          BY <1>5, <1>7, WindowFacts DEF IsEnd
        <4>2. p = page => Windows[e][p] \subseteq Staged(j)
          BY <1>0, <3>1 DEF Fetching, Window
        <4> QED
          BY <1>0, <3>1, <4>1, <4>2 DEF Fetching
      <3> QED
        BY <3>2, WindowFacts
    <2>2. UNCHANGED <<jobRow, staging, applied>>
      BY DEF FetchStatus
    <2>3. step["fetch"] \in Working
      BY <1>0 DEF Working
    <2> QED
      BY <1>0, <1>4, <1>7, <2>1, <2>2, <2>3, AdvanceStep
  <1>8. CASE ~IsEnd(e, page) /\ step' = [step EXCEPT !["fetch"] = "check"] /\ page' = page + 1
             /\ UNCHANGED <<job, turn, seen, batch, good, bad>>
    <2>1. LanesShaped' /\ Apart("fetch") /\ step'["fetch"] = "check"
      BY <1>1, <1>5, <1>8 DEF LanesShaped, Lanes, Apart
    <2>2. LaneOK("fetch")'
      BY <1>0, <1>1, <1>2, <1>8, <2>1 DEF LaneOK
    <2>3. ASSUME Live(j) PROVE Fetching(j, e)'
      <3>1. Fetching(j, e)
        BY <1>0, <1>1, <1>4, <2>3 DEF FetchOK, Working
      <3>2. Staged(j)' = Staged(j)
        BY <1>2 DEF Staged, staging
      <3>3. \A p \in 1..Last(e) : p < page + 1 => Windows[e][p] \subseteq Staged(j)
        <4> SUFFICES ASSUME NEW p \in 1..Last(e), p < page + 1 PROVE Windows[e][p] \subseteq Staged(j)
          OBVIOUS
        <4>1. p < page \/ p = page
          BY <1>5, WindowFacts
        <4>2. p = page => Windows[e][p] \subseteq Staged(j)
          BY <1>0, <3>1 DEF Fetching, Window
        <4> QED
          BY <1>0, <3>1, <4>1, <4>2 DEF Fetching
      <3>4. e \in Catalog => page + 1 \in 1..Last(e)
        <4>1. e \in Catalog => page \in 1..Last(e) /\ page # Last(e)
          BY <1>0, <1>8, <3>1 DEF Fetching, IsEnd
        <4> QED
          BY <1>5, <4>1, WindowFacts
      <3>5. \A f \in Entities : f < e => Records(f) \subseteq Staged(j)
        BY <3>1 DEF Fetching
      <3>6. seen = (IF e \in Catalog THEN Staged(j) ELSE {}) /\ (e \notin Catalog => at[j][e] = page + 1)
        BY <1>0, <3>1 DEF Fetching
      <3> QED
        BY <1>2, <1>8, <2>1, <3>2, <3>3, <3>4, <3>5, <3>6 DEF Fetching, staging, Records, Last
    <2>4. Live(j)' = Live(j)
      BY <1>2 DEF Live
    <2>5. FetchOK'
      BY <1>4, <1>8, <2>3, <2>4 DEF FetchOK
    <2>6. SideOK("fetch")'
      BY <2>2, <2>5 DEF SideOK
    <2> QED
      BY <1>0, <1>1, <1>2, <1>3, <2>1, <2>6, QuietStep
  <1> QED
    BY <1>4, <1>6, <1>7, <1>8 DEF FetchStatus, Go

\* The customers reported have all been fetched, and the answer was an error.
LEMMA PastTheEndStep == ASSUME ImportOK, PastTheEnd PROVE ImportOK'
PROOF
  <1>1. step["fetch"] = "work" /\ page > Last(turn["fetch"]) /\ Advance("fetch") /\ UNCHANGED <<jobRow, staging, applied>>
    BY DEF PastTheEnd
  <1>2. ASSUME NEW j \in Jobs, NEW e \in Entities, j = job["fetch"], e = turn["fetch"], Live(j)
        PROVE  Records(e) \subseteq Staged(j)
    <2>1. Fetching(j, e)
      BY <1>1, <1>2 DEF ImportOK, SideOK, FetchOK, Working, Lanes
    <2>2. page \in Nat
      BY DEF ImportOK, LanesShaped
    <2>3. \A p \in 1..Last(e) : Windows[e][p] \subseteq Staged(j)
      BY <1>1, <1>2, <2>1, <2>2, WindowFacts DEF Fetching
    <2> QED
      BY <2>3, WindowFacts
  <1>3. step["fetch"] \in Working /\ "fetch" \in Lanes
    BY <1>1 DEF Working, Lanes
  <1> QED
    BY <1>1, <1>2, <1>3, AdvanceStep

\* Everything is staged: from here on the job is the other lane's.
LEMMA FlipStep == ASSUME ImportOK, FlipToLoad PROVE ImportOK'
PROOF
  <1>1. /\ step["fetch"] = "end" /\ Leave("fetch") /\ UNCHANGED <<pending, loaded, failed, applied>>
        /\ LanesShaped /\ LaneOK("fetch") /\ Shaped /\ "fetch" \in Lanes
    BY DEF FlipToLoad, ImportOK, SideOK, Lanes
  <1>2. CASE ~Finishable("fetch")
    <2>1. UNCHANGED <<phase, staging, applied>> /\ UNCHANGED status
      BY <1>2 DEF FlipToLoad, staging
    <2>2. \A k \in Jobs : StatusStays(k)
      BY <2>1 DEF StatusStays, Live
    <2> QED
      BY <1>1, <2>1, <2>2, LeaveStep DEF Shaped
  <1>3. CASE Finishable("fetch")
    <2>1. PICK j \in Jobs, e \in Entities : j = job["fetch"] /\ e = turn["fetch"]
      BY <1>1 DEF LaneOK, LanesShaped
    <2>2. /\ status[j] = "running" /\ phase[j] = "fetch"
          /\ status' = [status EXCEPT ![j] = "queued"]
          /\ phase' = [phase EXCEPT ![j] = "load"]
          /\ at' = [at EXCEPT ![j] = Fresh]
      BY <1>3, <2>1 DEF FlipToLoad, Finishable
    <2>3. AllRecords \subseteq Staged(j)
      <3>1. Live(j)
        BY <2>2 DEF Live
      <3>2. Fetching(j, e)
        BY <1>1, <2>1, <3>1 DEF ImportOK, SideOK, FetchOK, Working
      <3> QED
        BY <1>1, <3>2 DEF Fetching
    <2>4. Shaped'
      <3>1. Fresh \in [Entities -> Nat]
        BY DEF Fresh
      <3> QED
        BY <1>1, <2>2, <3>1 DEF Shaped
    <2>5. \A k \in Jobs \ {j} : RowsSame(k) /\ StatusStays(k)
      BY <1>1, <2>2 DEF RowsSame, StatusStays, Live, Shaped
    <2>6. \A k \in Jobs \ {j} : JobOK(k)'
      BY <2>5, JobStays DEF ImportOK
    <2>7. JobOK(j)'
      <3>1. status'[j] = "queued" /\ phase'[j] = "load" /\ Live(j)
        BY <1>1, <2>2 DEF Shaped, Live
      <3>2. Staged(j)' = Staged(j) /\ AllRecords' = AllRecords
        BY <1>1 DEF Staged, AllRecords, Records
      <3>3. \A i \in Items : Rows(j, i)' <= 1 /\ (loaded'[j][i] > 0 => i \in applied'[j])
        BY <1>1, <3>1 DEF ImportOK, JobOK, Rows
      <3> QED
        BY <2>3, <3>1, <3>2, <3>3 DEF JobOK
    <2>8. \A k \in Jobs : status[k] # "none" /\ phase[k] # "fetch" => Undisturbed(k)
      BY <2>2, <2>5 DEF Undisturbed, StatusStays, RowsSame
    <2>9. LanesShaped' /\ SideOK("fetch")' /\ Apart("fetch")
      BY <1>1, LeaveOK
    <2>10. \A k \in Jobs : JobOK(k)'
      BY <2>6, <2>7
    <2> QED
      BY <1>1, <2>4, <2>8, <2>9, <2>10, LaneStep
  <1> QED
    BY <1>2, <1>3

LEMMA FetchSteps == ASSUME ImportOK, Fetch PROVE ImportOK'
PROOF
  <1>1. "fetch" \in Lanes
    BY DEF Lanes
  <1>2. CASE PageOfGoneJob
    BY <1>1, <1>2, ThrowStep DEF PageOfGoneJob
  <1> QED
    BY <1>1, <1>2, LaneSteps, FetchPageStep, PastTheEndStep, FetchStatusStep, FlipStep DEF Fetch

------------------------------------------------------------------------------
\* The load lane.

LEMMA ReadBatchStep == ASSUME ImportOK, ReadBatch PROVE ImportOK'
PROOF
  <1>1. /\ step["load"] = "work" /\ batch = {} /\ good = {} /\ bad = {} /\ UNCHANGED <<jobRow, staging, applied>>
        /\ LanesShaped /\ LaneOK("load") /\ DOMAIN status = Jobs /\ LoadOK /\ "load" \in Lanes
    BY DEF ReadBatch, ImportOK, SideOK, Lanes, Shaped
  <1>2. PICK j \in Jobs, e \in Entities : j = job["load"] /\ e = turn["load"]
    BY <1>1 DEF LaneOK, LanesShaped
  <1>3. CASE ToLoad(j, e) = {} /\ Advance("load")
    BY <1>1, <1>2, <1>3, AdvanceStep DEF Working
  <1>4. ASSUME NEW some \in SUBSET ToLoad(j, e), batch' = some,
               UNCHANGED <<step, job, turn, page, seen, good, bad>>
        PROVE  ImportOK'
    <2>1. UNCHANGED <<phase, staging, applied>> /\ UNCHANGED status
      BY <1>1 DEF jobRow
    <2>2. (\A k \in Jobs : StatusStays(k)) /\ Live(j)' = Live(j)
      BY <2>1 DEF StatusStays, Live
    <2>3. LanesShaped' /\ Apart("load") /\ LaneOK("load")'
      BY <1>1, <1>4, <2>1 DEF LanesShaped, Apart, Lanes, LaneOK
    <2>4. ASSUME Live(j) PROVE Loading(j, e)'
      <3>1. Loading(j, e)
        BY <1>1, <1>2, <2>4 DEF LoadOK, Working
      <3>2. \A f : ToLoad(j, f)' = ToLoad(j, f)
        BY <2>1 DEF ToLoad, Records, staging
      <3>3. step'["load"] = "work"
        BY <1>1, <1>4
      <3> QED
        BY <1>1, <1>4, <3>1, <3>2, <3>3 DEF Loading
    <2>5. SideOK("load")'
      BY <1>1, <1>2, <1>4, <2>2, <2>3, <2>4 DEF SideOK, LoadOK
    <2> QED
      BY <1>1, <2>1, <2>2, <2>3, <2>5, QuietStep
  <1> QED
    BY <1>2, <1>3, <1>4 DEF ReadBatch

\* One row is tried: it may be in the shop's tables from here on.
LEMMA LoadRowStep == ASSUME ImportOK, LoadRow PROVE ImportOK'
PROOF
  <1>1. /\ step["load"] = "work" /\ UNCHANGED <<jobRow, staging, step, job, turn, page, seen>>
        /\ LanesShaped /\ LaneOK("load") /\ Shaped /\ LoadOK /\ "load" \in Lanes
    BY DEF LoadRow, ImportOK, SideOK, Lanes
  <1>2. PICK j \in Jobs, e \in Entities : j = job["load"] /\ e = turn["load"]
    BY <1>1 DEF LaneOK, LanesShaped
  <1>3. PICK i \in batch :
          /\ batch' = batch \ {i}
          /\ \/ /\ good' = good \cup {i} /\ bad' = bad
                /\ applied' = [applied EXCEPT ![j] = @ \cup {i}]
             \/ bad' = bad \cup {i} /\ good' = good /\ applied' = applied
    BY <1>2 DEF LoadRow
  <1>4. UNCHANGED <<status, phase, staging>>
    BY <1>1 DEF jobRow
  <1>5. \A k \in Jobs : RowsSame(k) /\ StatusStays(k)
    BY <1>1, <1>3, <1>4 DEF RowsSame, StatusStays, Live, Shaped, staging
  <1>6. Shaped' /\ LanesShaped' /\ Apart("load") /\ LaneOK("load")' /\ Live(j)' = Live(j)
    BY <1>1, <1>3, <1>4 DEF Shaped, staging, LanesShaped, Apart, Lanes, LaneOK, Live
  <1>7. ASSUME Live(j) PROVE Loading(j, e)'
    <2>1. Loading(j, e)
      BY <1>1, <1>2, <1>7 DEF LoadOK, Working
    <2>2. \A f : ToLoad(j, f)' = ToLoad(j, f)
      BY <1>4 DEF ToLoad, Records, staging
    <2>3. step'["load"] = "work"
      BY <1>1
    <2>4. good' \subseteq applied'[j] /\ good' \cap bad' = {} /\ batch' \cap (good' \cup bad') = {}
      BY <1>1, <1>3, <2>1 DEF Loading, Shaped
    <2>5. batch' \cup good' \cup bad' \subseteq ToLoad(j, e)
      BY <1>3, <2>1 DEF Loading
    <2> QED
      BY <2>1, <2>2, <2>3, <2>4, <2>5 DEF Loading
  <1>8. SideOK("load")'
    BY <1>1, <1>2, <1>6, <1>7 DEF SideOK, LoadOK
  <1>9. \A k \in Jobs : JobOK(k)' /\ (status[k] # "none" => Undisturbed(k))
    BY <1>5, JobStays DEF ImportOK, Undisturbed, StatusStays, RowsSame
  <1> QED
    BY <1>1, <1>6, <1>8, <1>9, LaneStep

\* Rows change from those to load to those dealt with, and a job keeps each.
LEMMA CommitBatchStep == ASSUME ImportOK, CommitBatch PROVE ImportOK'
PROOF
  <1>1. /\ step["load"] = "work" /\ batch = {} /\ step' = [step EXCEPT !["load"] = "status"]
        /\ good' = {} /\ bad' = {} /\ UNCHANGED <<status, phase, at, applied, job, turn, page, seen, batch>>
        /\ LanesShaped /\ LaneOK("load") /\ Shaped /\ LoadOK /\ "load" \in Lanes
    BY DEF CommitBatch, Tried, Go, jobRow, ImportOK, SideOK, Lanes
  <1>2. PICK j \in Jobs, e \in Entities : j = job["load"] /\ e = turn["load"]
    BY <1>1 DEF LaneOK, LanesShaped
  <1>3. Live(j) /\ phase[j] = "load" /\ status[j] # "none" /\ JobOK(j)
    BY <1>1, <1>2 DEF CommitBatch, LaneOK, ImportOK
  <1>4. Loading(j, e)
    BY <1>1, <1>2, <1>3 DEF LoadOK, Working
  <1>5. /\ pending' = [pending EXCEPT ![j] = [i \in Items |-> IF i \in good \cup bad THEN @[i] + (-1) ELSE @[i]]]
        /\ loaded' = [loaded EXCEPT ![j] = [i \in Items |-> IF i \in good THEN @[i] + 1 ELSE @[i]]]
        /\ failed' = [failed EXCEPT ![j] = [i \in Items |-> IF i \in bad THEN @[i] + 1 ELSE @[i]]]
    BY <1>2 DEF CommitBatch
  <1>6. ASSUME NEW i \in Items
        PROVE  /\ pending'[j][i] = IF i \in good \cup bad THEN pending[j][i] - 1 ELSE pending[j][i]
               /\ loaded'[j][i] = IF i \in good THEN loaded[j][i] + 1 ELSE loaded[j][i]
               /\ failed'[j][i] = IF i \in bad THEN failed[j][i] + 1 ELSE failed[j][i]
               /\ pending[j][i] \in Nat /\ loaded[j][i] \in Nat /\ failed[j][i] \in Nat
               /\ i \in good \cup bad => pending[j][i] > 0
    <2>1. pending[j][i] \in Nat /\ loaded[j][i] \in Nat /\ failed[j][i] \in Nat
      BY <1>1 DEF Shaped
    <2>2. i \in good \cup bad => pending[j][i] > 0
      BY <1>4 DEF Loading, ToLoad
    <2> QED
      BY <1>1, <1>5, <2>1, <2>2 DEF Shaped
  <1>7. Shaped'
    <2>1. pending'[j] \in [Items -> Nat] /\ loaded'[j] \in [Items -> Nat] /\ failed'[j] \in [Items -> Nat]
      <3>1. /\ pending'[j] = [i \in Items |-> IF i \in good \cup bad THEN pending[j][i] + (-1) ELSE pending[j][i]]
            /\ loaded'[j] = [i \in Items |-> IF i \in good THEN loaded[j][i] + 1 ELSE loaded[j][i]]
            /\ failed'[j] = [i \in Items |-> IF i \in bad THEN failed[j][i] + 1 ELSE failed[j][i]]
        BY <1>1, <1>5 DEF Shaped
      <3>2. \A i \in Items : pending'[j][i] \in Nat /\ loaded'[j][i] \in Nat /\ failed'[j][i] \in Nat
        BY <1>6
      <3> QED
        BY <3>1, <3>2
    <2>2. /\ pending' \in [Jobs -> [Items -> Nat]]
          /\ loaded' \in [Jobs -> [Items -> Nat]]
          /\ failed' \in [Jobs -> [Items -> Nat]]
      BY <1>1, <1>5, <2>1 DEF Shaped
    <2> QED
      BY <1>1, <2>2 DEF Shaped
  <1>8. good \cap bad = {} /\ good \subseteq applied[j]
    BY <1>4 DEF Loading
  <1>9. \A i \in Items : Rows(j, i)' = Rows(j, i)
    BY <1>6, <1>8 DEF Rows
  <1>10. Staged(j)' = Staged(j)
    BY <1>9 DEF Rows, Staged
  <1>11. JobOK(j)'
    <2>1. status'[j] = status[j] /\ phase'[j] = "load" /\ Live(j)'
      BY <1>1, <1>3 DEF Live
    <2>2. \A i \in Items : Rows(j, i)' <= 1 /\ (loaded'[j][i] > 0 => i \in applied'[j])
      BY <1>1, <1>3, <1>6, <1>8, <1>9 DEF JobOK
    <2>3. AllRecords' = AllRecords /\ AllRecords \subseteq Staged(j)'
      BY <1>3, <1>10 DEF JobOK, AllRecords, Records
    <2>4. status[j] = "completed" => \A i \in AllRecords : pending'[j][i] = 0
      BY <1>3, <1>6, WindowFacts DEF JobOK
    <2> QED
      BY <1>3, <2>1, <2>2, <2>3, <2>4 DEF JobOK
  <1>12. \A k \in Jobs \ {j} : RowsSame(k) /\ StatusStays(k)
    BY <1>1, <1>5 DEF RowsSame, StatusStays, Live, Shaped
  <1>13. \A k \in Jobs : JobOK(k)'
    BY <1>11, <1>12, JobStays DEF ImportOK
  <1>14. \A k \in Jobs : status[k] # "none" /\ phase[k] # "load" => Undisturbed(k)
    BY <1>3, <1>12 DEF Undisturbed, StatusStays, RowsSame
  <1>15. LanesShaped' /\ Apart("load") /\ LaneOK("load")' /\ step'["load"] = "status"
    BY <1>1 DEF LanesShaped, Apart, Lanes, LaneOK
  <1>16. Loading(j, e)'
    <2>1. \A f \in Entities : ToLoad(j, f)' \subseteq ToLoad(j, f)
      BY <1>6, WindowFacts DEF ToLoad, Records
    <2> QED
      BY <1>1, <1>4, <1>15, <2>1 DEF Loading
  <1>17. SideOK("load")'
    BY <1>1, <1>2, <1>15, <1>16 DEF SideOK, LoadOK
  <1> QED
    BY <1>1, <1>7, <1>13, <1>14, <1>15, <1>17, LaneStep

LEMMA LoadStatusStep == ASSUME ImportOK, LoadStatus PROVE ImportOK'
PROOF
  <1>1. /\ step["load"] = "status" /\ UNCHANGED <<jobRow, staging, applied>>
        /\ LanesShaped /\ LaneOK("load") /\ DOMAIN status = Jobs /\ LoadOK /\ "load" \in Lanes
    BY DEF LoadStatus, ImportOK, SideOK, Lanes, Shaped
  <1>2. UNCHANGED <<phase, staging, applied>> /\ UNCHANGED status
    BY <1>1 DEF jobRow
  <1>3. \A k \in Jobs : StatusStays(k)
    BY <1>2 DEF StatusStays, Live
  <1>4. CASE Leave("load")
    BY <1>1, <1>2, <1>3, <1>4, LeaveStep
  <1>5. CASE step' = [step EXCEPT !["load"] = "check"] /\ UNCHANGED memory
    <2>1. PICK j \in Jobs, e \in Entities : j = job["load"] /\ e = turn["load"]
      BY <1>1 DEF LaneOK, LanesShaped
    <2>2. LanesShaped' /\ Apart("load") /\ LaneOK("load")' /\ step'["load"] = "check" /\ Live(j)' = Live(j)
      BY <1>1, <1>2, <1>5 DEF LanesShaped, Apart, Lanes, LaneOK, memory, Live
    <2>3. ASSUME Live(j) PROVE Loading(j, e)'
      <3>1. Loading(j, e)
        BY <1>1, <2>1, <2>3 DEF LoadOK, Working
      <3>2. \A f : ToLoad(j, f)' = ToLoad(j, f)
        BY <1>2 DEF ToLoad, Records, staging
      <3> QED
        BY <1>2, <1>5, <2>2, <3>1, <3>2 DEF Loading, memory
    <2>4. SideOK("load")'
      BY <1>1, <1>5, <2>1, <2>2, <2>3 DEF SideOK, LoadOK, memory
    <2> QED
      BY <1>1, <1>2, <1>3, <2>2, <2>4, QuietStep
  <1> QED
    BY <1>4, <1>5 DEF LoadStatus, Go

\* The job is completed: every record of it has been dealt with.
LEMMA CompleteStep == ASSUME ImportOK, Complete PROVE ImportOK'
PROOF
  <1>1. /\ step["load"] = "end" /\ Leave("load") /\ UNCHANGED <<phase, staging, applied>>
        /\ LanesShaped /\ LaneOK("load") /\ Shaped /\ LoadOK /\ "load" \in Lanes
    BY DEF Complete, ImportOK, SideOK, Lanes
  <1>2. CASE ~Finishable("load")
    <2>1. status' = status
      BY <1>2 DEF Complete
    <2>2. \A k \in Jobs : StatusStays(k)
      BY <2>1 DEF StatusStays, Live
    <2> QED
      BY <1>1, <2>1, <2>2, LeaveStep DEF Shaped
  <1>3. CASE Finishable("load")
    <2>1. PICK j \in Jobs, e \in Entities : j = job["load"] /\ e = turn["load"]
      BY <1>1 DEF LaneOK, LanesShaped
    <2>2. status[j] = "running" /\ phase[j] = "load" /\ status' = [status EXCEPT ![j] = "completed"]
      BY <1>3, <2>1 DEF Complete, Finishable
    <2>3. Live(j) /\ \A i \in AllRecords : pending[j][i] = 0
      <3>1. Live(j)
        BY <2>2 DEF Live
      <3>2. Loading(j, e)
        BY <1>1, <2>1, <3>1 DEF LoadOK, Working
      <3> QED
        BY <1>1, <3>1, <3>2 DEF Loading
    <2>4. Shaped' /\ \A k \in Jobs : RowsSame(k)
      BY <1>1, <2>2 DEF Shaped, staging, RowsSame
    <2>5. \A k \in Jobs \ {j} : StatusStays(k)
      BY <1>1, <2>2 DEF StatusStays, Live, Shaped
    <2>6. \A k \in Jobs \ {j} : JobOK(k)'
      BY <2>4, <2>5, JobStays DEF ImportOK
    <2>7. JobOK(j)'
      <3>1. status'[j] = "completed" /\ phase'[j] = "load" /\ JobOK(j)
        BY <1>1, <2>2 DEF Shaped, ImportOK
      <3>2. Staged(j)' = Staged(j) /\ AllRecords' = AllRecords
        BY <1>1 DEF Staged, AllRecords, Records, staging
      <3>3. \A i \in Items : Rows(j, i)' <= 1 /\ (loaded'[j][i] > 0 => i \in applied'[j])
        BY <1>1, <2>3, <3>1 DEF JobOK, Rows, staging
      <3>4. \A i \in AllRecords : pending'[j][i] = 0
        BY <1>1, <2>3 DEF staging
      <3> QED
        BY <2>2, <2>3, <3>1, <3>2, <3>3, <3>4 DEF JobOK
    <2>8. \A k \in Jobs : status[k] # "none" /\ phase[k] # "load" => Undisturbed(k)
      BY <2>2, <2>4, <2>5 DEF Undisturbed, StatusStays, RowsSame
    <2>9. LanesShaped' /\ SideOK("load")' /\ Apart("load")
      BY <1>1, LeaveOK
    <2>10. \A k \in Jobs : JobOK(k)'
      BY <2>6, <2>7
    <2> QED
      BY <1>1, <2>4, <2>8, <2>9, <2>10, LaneStep
  <1> QED
    BY <1>2, <1>3

LEMMA LoadSteps == ASSUME ImportOK, Load PROVE ImportOK'
PROOF
  <1>1. "load" \in Lanes
    BY DEF Lanes
  <1>2. CASE BatchOfGoneJob
    BY <1>1, <1>2, ThrowStep DEF BatchOfGoneJob, Tried
  <1> QED
    BY <1>1, <1>2, LaneSteps, ReadBatchStep, LoadRowStep, CommitBatchStep, LoadStatusStep, CompleteStep DEF Load

------------------------------------------------------------------------------
\* The calls, and the server.

\* A look, and whatever else touches no job and no lane.
LEMMA NothingTouched == ASSUME ImportOK, UNCHANGED <<jobRow, staging, applied, lanes>> PROVE ImportOK'
PROOF
  <1>1. UNCHANGED <<status, phase, staging, applied>>
    BY DEF jobRow
  <1>2. \A j \in Jobs : RowsSame(j) /\ StatusStays(j)
    BY <1>1 DEF RowsSame, StatusStays, Live, staging
  <1>3. \A j \in Jobs : JobOK(j)' /\ (status[j] # "none" => Undisturbed(j))
    BY <1>2, JobStays DEF ImportOK, Undisturbed, StatusStays, RowsSame
  <1>4. Shaped'
    BY <1>1 DEF ImportOK, Shaped, staging
  <1> QED
    BY <1>3, <1>4, CallStep

\* A new job can be resumed from the first window of everything.
LEMMA StartStep == ASSUME ImportOK, NEW s, Start(s) PROVE ImportOK'
PROOF
  <1>1. UNCHANGED <<phase, staging, applied, lanes>> /\ Shaped
    BY DEF Start, Answered, ImportOK
  <1>2. PICK j \in Jobs : status[j] = "none" /\ status' = [status EXCEPT ![j] = "queued"]
    BY DEF Start
  <1>3. \A k \in Jobs : RowsSame(k)
    BY <1>1 DEF RowsSame, staging
  <1>4. \A k \in Jobs \ {j} : StatusStays(k)
    BY <1>1, <1>2 DEF StatusStays, Live, Shaped
  <1>5. \A k \in Jobs \ {j} : JobOK(k)'
    BY <1>3, <1>4, JobStays DEF ImportOK
  <1>6. JobOK(j)'
    <2>1. phase'[j] = "fetch" /\ at'[j] = Fresh /\ status'[j] = "queued" /\ Staged(j) = {}
      BY <1>1, <1>2 DEF ImportOK, JobOK, Shaped, staging
    <2>2. Staged(j)' = Staged(j)
      BY <1>1 DEF Staged, staging
    <2>3. Resumable(j)'
      BY <2>1, <2>2, WindowFacts DEF Resumable, Fresh, Last
    <2>4. \A i \in Items : loaded'[j][i] = 0 /\ Rows(j, i)' <= 1
      <3>1. \A i \in Items : pending[j][i] \in Nat /\ loaded[j][i] \in Nat /\ failed[j][i] \in Nat
        BY <1>1 DEF Shaped
      <3>2. \A i \in Items : pending[j][i] = 0 /\ loaded[j][i] = 0 /\ failed[j][i] = 0
        BY <2>1, <3>1 DEF Staged
      <3> QED
        BY <1>1, <3>2 DEF Rows, staging
    <2> QED
      BY <2>1, <2>3, <2>4 DEF JobOK
  <1>7. Shaped'
    BY <1>1, <1>2 DEF Shaped, staging
  <1>8. \A k \in Jobs : JobOK(k)' /\ (status[k] # "none" => Undisturbed(k))
    BY <1>2, <1>3, <1>4, <1>5, <1>6 DEF Undisturbed, StatusStays, RowsSame
  <1> QED
    BY <1>1, <1>7, <1>8, CallStep

LEMMA ControlStep == ASSUME ImportOK, NEW s, Control(s) PROVE ImportOK'
PROOF
  <1>1. UNCHANGED <<phase, staging, applied, lanes>> /\ Shaped
    BY DEF Control, Answered, ImportOK
  <1>2. Become[call[s].op] \in {"paused", "queued", "cancelled"}
    BY DEF Control, Become
  <1>3. status' = status \/ \E j : Live(j) /\ status' = [status EXCEPT ![j] = Become[call[s].op]]
    BY DEF Control
  <1>4. Shaped' /\ \A k \in Jobs : RowsSame(k)
    BY <1>1, <1>3 DEF Shaped, staging, RowsSame
  <1>5. \A k \in Jobs : StatusStays(k)
    BY <1>1, <1>2, <1>3 DEF StatusStays, Live, Shaped
  <1>6. \A k \in Jobs : JobOK(k)' /\ (status[k] # "none" => Undisturbed(k))
    BY <1>4, <1>5, JobStays DEF ImportOK, Undisturbed, StatusStays, RowsSame
  <1> QED
    BY <1>1, <1>4, <1>6, CallStep

\* Deleted jobs have no rows, and no lane will write any for them.
LEMMA ResetStep == ASSUME ImportOK, NEW s, Reset(s) PROVE ImportOK'
PROOF
  <1>1. UNCHANGED <<phase, at, applied, lanes>> /\ Shaped
    BY DEF Reset, Answered, ImportOK
  <1>2. PICK gone : /\ \A j \in Jobs : j \in gone => Live(j)
                    /\ status' = [j \in Jobs |-> IF j \in gone THEN "deleted" ELSE status[j]]
                    /\ pending' = [j \in Jobs |-> IF j \in gone THEN NoRows ELSE pending[j]]
                    /\ loaded' = [j \in Jobs |-> IF j \in gone THEN NoRows ELSE loaded[j]]
                    /\ failed' = [j \in Jobs |-> IF j \in gone THEN NoRows ELSE failed[j]]
    BY DEF Reset, JobsOf
  <1>3. NoRows \in [Items -> Nat]
    BY DEF NoRows
  <1>4. Shaped'
    BY <1>1, <1>2, <1>3 DEF Shaped
  <1>5. \A k \in Jobs : k \notin gone => RowsSame(k) /\ StatusStays(k)
    BY <1>1, <1>2 DEF RowsSame, StatusStays, Live
  <1>6. ASSUME NEW k \in Jobs, k \in gone
        PROVE  JobOK(k)' /\ (status[k] # "none" => Undisturbed(k))
    <2>1. status'[k] = "deleted" /\ phase'[k] = phase[k]
      BY <1>1, <1>2, <1>6
    <2>2. pending'[k] = NoRows /\ loaded'[k] = NoRows /\ failed'[k] = NoRows
      BY <1>2, <1>6
    <2>3. \A i \in Items : Rows(k, i)' <= 1
      BY <2>2 DEF Rows, NoRows
    <2> QED
      BY <2>1, <2>3 DEF JobOK, Live, Undisturbed
  <1>7. \A k \in Jobs : JobOK(k)' /\ (status[k] # "none" => Undisturbed(k))
    BY <1>5, <1>6, JobStays DEF ImportOK, Undisturbed, StatusStays, RowsSame
  <1> QED
    BY <1>1, <1>4, <1>7, CallStep

LEMMA RestartStep == ASSUME ImportOK, Restart PROVE ImportOK'
PROOF
  <1>1. /\ UNCHANGED <<phase, staging, applied>> /\ Shaped
        /\ step' = [l \in Lanes |-> "idle"] /\ job' = [l \in Lanes |-> NoJob] /\ turn' = [l \in Lanes |-> 1]
        /\ Forget /\ (status' = Recovered \/ status' = status)
    BY DEF Restart, ImportOK
  <1>2. \A k \in Jobs : RowsSame(k) /\ StatusStays(k)
    BY <1>1 DEF RowsSame, StatusStays, Live, Recovered, staging
  <1>3. \A k \in Jobs : JobOK(k)'
    BY <1>2, JobStays DEF ImportOK
  <1>4. Shaped'
    BY <1>1 DEF Shaped, Recovered, staging
  <1>5. LanesShaped'
    BY <1>1, WindowFacts DEF LanesShaped, Forget
  <1>6. \A l \in Lanes : step'[l] = "idle" /\ turn'[l] = 1 /\ job'[l] \notin Jobs
    BY <1>1, LimitsAssumption DEF Jobs, NoJob
  <1>7. \A l \in Lanes : SideOK(l)'
    <2>1. FetchOK' /\ LoadOK'
      BY <1>1, <1>6 DEF FetchOK, LoadOK, Working, Forget, Lanes
    <2>2. \A l \in Lanes : LaneOK(l)'
      BY <1>6 DEF LaneOK
    <2> QED
      BY <2>1, <2>2 DEF SideOK
  <1> QED
    BY <1>3, <1>4, <1>5, <1>7 DEF ImportOK

------------------------------------------------------------------------------
LEMMA Initially == Init => ImportOK
PROOF
  <1> SUFFICES ASSUME Init PROVE ImportOK
    OBVIOUS
  <1>1. Fresh \in [Entities -> Nat] /\ NoRows \in [Items -> Nat]
    BY DEF Fresh, NoRows
  <1>2. Shaped /\ LanesShaped
    BY <1>1, WindowFacts DEF Init, Shaped, LanesShaped
  <1>3. ASSUME NEW j \in Jobs PROVE JobOK(j)
    <2>1. status[j] = "none" /\ phase[j] = "fetch" /\ at[j] = Fresh
      BY <1>3 DEF Init
    <2>2. \A i \in Items : pending[j][i] = 0 /\ loaded[j][i] = 0 /\ failed[j][i] = 0
      BY <1>3 DEF Init, NoRows
    <2>3. Staged(j) = {} /\ \A i \in Items : Rows(j, i) <= 1
      BY <2>2 DEF Staged, Rows
    <2> QED
      BY <2>1, <2>3 DEF JobOK, Live
  <1>4. \A l \in Lanes : step[l] = "idle" /\ turn[l] = 1 /\ job[l] \notin Jobs
    BY LimitsAssumption DEF Init, Jobs, NoJob
  <1>5. \A l \in Lanes : SideOK(l)
    <2>1. FetchOK /\ LoadOK
      BY <1>4 DEF Init, FetchOK, LoadOK, Working, Lanes
    <2>2. \A l \in Lanes : LaneOK(l)
      BY <1>4 DEF LaneOK
    <2> QED
      BY <2>1, <2>2 DEF SideOK
  <1> QED
    BY <1>2, <1>3, <1>5 DEF ImportOK

LEMMA Always == ImportOK /\ [Next]_vars => ImportOK'
PROOF
  <1> SUFFICES ASSUME ImportOK, [Next]_vars PROVE ImportOK'
    OBVIOUS
  <1>1. CASE UNCHANGED vars
    BY <1>1, NothingTouched DEF vars
  <1>2. CASE Fetch
    BY <1>2, FetchSteps
  <1>3. CASE Load
    BY <1>3, LoadSteps
  <1>4. CASE \E s \in Sessions : LookToStart(s) \/ LookToControl(s) \/ LookToReset(s)
    BY <1>4, NothingTouched DEF LookToStart, LookToControl, LookToReset, Ask
  <1>5. CASE \E s \in Sessions : Start(s) \/ Control(s) \/ Reset(s)
    BY <1>5, StartStep, ControlStep, ResetStep
  <1>6. CASE Restart
    BY <1>6, RestartStep
  <1> QED
    BY <1>1, <1>2, <1>3, <1>4, <1>5, <1>6 DEF Next

LEMMA Holds == Spec => []ImportOK
PROOF
  <1> QED
    BY Initially, Always, PTL DEF Spec

\* A job never has two staging rows of one record, however often its fetching
\* is stopped, lost and resumed (FETCH: rows and checkpoint in one transaction).
THEOREM RecordsStagedOnce == Spec => []StagedOnce
PROOF
  <1>1. ImportOK => StagedOnce
    BY Properties
  <1> QED
    BY <1>1, Holds, PTL

\* A job that goes to the load lane has every record of every entity staged.
THEOREM NoRecordSkipped == Spec => []NothingSkipped
PROOF
  <1>1. ImportOK => NothingSkipped
    BY Properties
  <1> QED
    BY <1>1, Holds, PTL

\* A job that completed has loaded or logged every record, and once.
THEOREM CompletedImportLoaded == Spec => []CompletedLoaded
PROOF
  <1>1. ImportOK => CompletedLoaded
    BY Properties
  <1> QED
    BY <1>1, Holds, PTL
=============================================================================
