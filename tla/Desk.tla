-------------------------------- MODULE Desk ---------------------------------
(***************************************************************************)
(* Requests of the back office as the server runs them: a session is one   *)
(* request being handled.  Between two awaits of its handler the others    *)
(* run; what it read before is in its notes and may be out of date.  A     *)
(* request that is refused, or loses its connection or its server, goes    *)
(* away with whatever it had not committed.                                *)
(***************************************************************************)
EXTENDS Integers

CONSTANT Sessions    \* concurrent requests

VARIABLES
  phase,  \* the statement each session comes to next
  job,    \* what it was asked to do
  seen    \* what it read

desk == <<phase, job, seen>>

NoJob == [kind |-> "none"]
NothingSeen == [kind |-> "none"]

DeskInit == /\ phase = [s \in Sessions |-> "idle"]
            /\ job = [s \in Sessions |-> NoJob]
            /\ seen = [s \in Sessions |-> NothingSeen]

\* A request is let in, having read what its first statements read.
Enter(s, there, asked, read) == /\ phase[s] = "idle"
                                /\ phase' = [phase EXCEPT ![s] = there]
                                /\ job' = [job EXCEPT ![s] = asked]
                                /\ seen' = [seen EXCEPT ![s] = read]

\* It goes on to its next statement, perhaps with something new in its notes.
Proceed(s, here, there, read) == /\ phase[s] = here
                                 /\ phase' = [phase EXCEPT ![s] = there]
                                 /\ seen' = [seen EXCEPT ![s] = read]
                                 /\ job' = job

\* It is answered.
Leave(s, here) == /\ phase[s] = here
                  /\ phase' = [phase EXCEPT ![s] = "idle"]
                  /\ job' = [job EXCEPT ![s] = NoJob]
                  /\ seen' = [seen EXCEPT ![s] = NothingSeen]

\* It is refused at its next statement, or dies there.
Abandon(s) == phase[s] # "idle" /\ Leave(s, phase[s])

Least(a, b) == IF a <= b THEN a ELSE b
OrZero(a) == IF a > 0 THEN a ELSE 0
=============================================================================
