----------------------------- MODULE JobLifecycle -----------------------------
(* What the job subsystem promises about a job, whatever machinery runs it: the *)
(* status changes a client can see, and which claim the row carries when they   *)
(* happen.  A claim is used for one run only; a run that is over cannot change  *)
(* the outcome of a later one; and an outcome is final, except that a failed    *)
(* job whose result turns out to be durable becomes DONE, and that finished     *)
(* jobs expire and can be removed.                                              *)
EXTENDS Naturals

CONSTANTS Jobs, Claims

VARIABLES
  state,    \* the status a client sees
  holder,   \* the claim on the row, 0 for none
  used      \* the claims handed out so far

lifeVars == <<state, holder, used>>

Nobody == 0
Outcomes == {"done", "failed"}

Init ==
  /\ state = [j \in Jobs |-> "absent"]
  /\ holder = [j \in Jobs |-> Nobody]
  /\ used = {}

\* A client submits a job.
Create(j) ==
  /\ state[j] = "absent"
  /\ state' = [state EXCEPT ![j] = "queued"]
  /\ UNCHANGED <<holder, used>>

\* A worker takes a queued job under a claim nobody had before.
Take(j) ==
  /\ state[j] = "queued"
  /\ \E c \in Claims \ used :
       /\ holder' = [holder EXCEPT ![j] = c]
       /\ used' = used \cup {c}
  /\ state' = [state EXCEPT ![j] = "running"]

\* The run is given up, and the job waits for another one.
GiveBack(j) ==
  /\ state[j] = "running"
  /\ state' = [state EXCEPT ![j] = "queued"]
  /\ holder' = [holder EXCEPT ![j] = Nobody]
  /\ UNCHANGED used

\* The run ends; the claim it ran under stays on the row.
Finish(j) ==
  /\ state[j] = "running"
  /\ \E s \in Outcomes : state' = [state EXCEPT ![j] = s]
  /\ UNCHANGED <<holder, used>>

\* No worker came for too long.
GiveUp(j) ==
  /\ state[j] = "queued"
  /\ state' = [state EXCEPT ![j] = "failed"]
  /\ UNCHANGED <<holder, used>>

\* The retained result of a failed job has been stored after all.
Promote(j) ==
  /\ state[j] = "failed"
  /\ holder[j] # Nobody
  /\ state' = [state EXCEPT ![j] = "done"]
  /\ UNCHANGED <<holder, used>>

\* Retention.
Expire(j) ==
  /\ state[j] \in Outcomes
  /\ state' = [state EXCEPT ![j] = "expired"]
  /\ UNCHANGED <<holder, used>>

\* A client deletes a finished job.
Remove(j) ==
  /\ state[j] \in Outcomes \cup {"expired"}
  /\ state' = [state EXCEPT ![j] = "absent"]
  /\ holder' = [holder EXCEPT ![j] = Nobody]
  /\ UNCHANGED used

Next == \E j \in Jobs :
  \/ Create(j) \/ Take(j) \/ GiveBack(j) \/ Finish(j) \/ GiveUp(j)
  \/ Promote(j) \/ Expire(j) \/ Remove(j)

Spec == Init /\ [][Next]_lifeVars
===============================================================================
