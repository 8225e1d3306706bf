------------------------------ MODULE StaticPool ------------------------------
(* The static tier: a fixed fleet of long-lived worker boxes.  spawn() leases a *)
(* free box that answers its probes, which are made without the lock and by     *)
(* several spawn threads at once; reap() returns the box, after a dirty run     *)
(* with a cooldown in which a stale request may still be running in its agent.  *)
(* A box that cannot be asked is not a box that said no: what spawn() raises    *)
(* tells the pool whether to wait or to report a fault.                         *)
EXTENDS Naturals, FiniteSets

CONSTANTS
  Boxes,        \* the configured workers
  Spawners,     \* spawn threads of the pool
  NeedsEgress   \* require_egress was called

VARIABLES
  free,      \* _free
  burned,    \* _burned_out
  cooling,   \* boxes whose _cooldown_until lies in the future
  seen,      \* _egress_seen: "yes", "no" or "unasked"
  lease,     \* the slots that exist: box -> "no", "new" (spawned) or "used"
  thr        \* the spawn threads

statVars == <<free, burned, cooling, seen, lease, thr>>

NoSpawn == [pc |-> "idle", cand |-> {}, cold |-> {}, saw |-> {}, box |-> {}]

StatInit ==
  /\ free = Boxes /\ burned = {} /\ cooling = {}
  /\ seen = [b \in Boxes |-> "unasked"]
  /\ lease = [b \in Boxes |-> "no"]
  /\ thr = [x \in Spawners |-> NoSpawn]

TAt(x, p) == thr[x].pc = p
Saw(x, why) == thr' = [thr EXCEPT ![x].pc = "next", ![x].box = {}, ![x].saw = @ \cup {why}]

-------------------------------------------------------------------------------
\* spawn: the free boxes, and the time, are read once.
SpawnReads(x) ==
  /\ TAt(x, "idle")
  /\ free # {}
  /\ thr' = [thr EXCEPT ![x] = [NoSpawn EXCEPT !.pc = "next", !.cand = free,
                                               !.cold = cooling]]
  /\ UNCHANGED <<free, burned, cooling, seen, lease>>

\* Seeded fault: a cooling box is probed like any other.
SpawnNextWarm(x) ==
  /\ TAt(x, "next")
  /\ \E b \in thr[x].cand :
       thr' = [thr EXCEPT ![x].cand = @ \ {b}, ![x].pc = "health", ![x].box = {b}]
  /\ UNCHANGED <<free, burned, cooling, seen, lease>>

\* The next candidate; one that was cooling when the time was read, or cools
\* since, is passed over.
SpawnNext(x) ==
  /\ TAt(x, "next")
  /\ \E b \in thr[x].cand :
       IF b \in thr[x].cold \cup cooling
         THEN thr' = [thr EXCEPT ![x].cand = @ \ {b}, ![x].saw = @ \cup {"cooling"}]
         ELSE thr' = [thr EXCEPT ![x].cand = @ \ {b}, ![x].pc = "health", ![x].box = {b}]
  /\ UNCHANGED <<free, burned, cooling, seen, lease>>

\* _health_ok: yes, no, or no verdict.
ProbeHealth(x) ==
  /\ TAt(x, "health")
  /\ \/ thr' = [thr EXCEPT ![x].pc = IF NeedsEgress THEN "egress" ELSE "take"]
     \/ Saw(x, "unhealthy")
     \/ Saw(x, "unknown")
  /\ UNCHANGED <<free, burned, cooling, seen, lease>>

\* _advertises_egress: an answer is remembered.
ProbeEgress(x) ==
  /\ TAt(x, "egress")
  /\ \E b \in thr[x].box :
       \/ /\ seen' = [seen EXCEPT ![b] = "yes"]
          /\ thr' = [thr EXCEPT ![x].pc = "take"]
       \/ seen' = [seen EXCEPT ![b] = "no"] /\ Saw(x, "noegress")
       \/ Saw(x, "unknown") /\ UNCHANGED seen
  /\ UNCHANGED <<free, burned, cooling, lease>>

\* Another thread may have taken it meanwhile.
Take(x) ==
  /\ TAt(x, "take")
  /\ \E b \in thr[x].box :
       IF b \in free
         THEN /\ free' = free \ {b}
              /\ lease' = [lease EXCEPT ![b] = IF @ = "no" THEN "new" ELSE "twice"]
              /\ thr' = [thr EXCEPT ![x] = NoSpawn]
         ELSE /\ thr' = [thr EXCEPT ![x].pc = "next", ![x].box = {}]
              /\ UNCHANGED <<free, lease>>
  /\ UNCHANGED <<burned, cooling, seen>>

\* What spawn raises when no box is left: the configuration fault (NoEgress) is
\* for a fleet none of whose boxes is known to be capable; a miss is transient
\* unless some box was found unhealthy.
Verdict(x) ==
  CASE thr[x].saw = {"noegress"} /\ \A b \in Boxes \ burned : seen[b] # "yes" -> "fault"
    [] "unhealthy" \in thr[x].saw -> "unhealthy"
    [] OTHER -> "wait"

SpawnRaises(x) ==
  /\ TAt(x, "next") /\ thr[x].cand = {}
  /\ thr' = [thr EXCEPT ![x] = [NoSpawn EXCEPT !.pc = Verdict(x)]]
  /\ UNCHANGED <<free, burned, cooling, seen, lease>>

SpawnReturns(x) ==
  /\ thr[x].pc \in {"fault", "unhealthy", "wait"}
  /\ thr' = [thr EXCEPT ![x] = NoSpawn]
  /\ UNCHANGED <<free, burned, cooling, seen, lease>>

-------------------------------------------------------------------------------
\* The pool makes a slot ready after the batch that spawned it, on the thread
\* that waits for the whole batch.
SlotServes(b) ==
  /\ lease[b] = "new"
  /\ \A x \in Spawners : TAt(x, "idle")
  /\ lease' = [lease EXCEPT ![b] = "used"]
  /\ UNCHANGED <<free, burned, cooling, seen, thr>>

\* reap, at once for a slot the pool does not publish, or after its run.
Reap(b, dirty) ==
  /\ lease[b] \in {"new", "used", "twice"}
  /\ dirty => lease[b] = "used"
  /\ cooling' = IF dirty THEN cooling \cup {b} ELSE cooling \ {b}
  /\ free' = IF b \in burned THEN free ELSE free \cup {b}
  /\ lease' = [lease EXCEPT ![b] = "no"]
  /\ UNCHANGED <<burned, seen, thr>>

\* burn_out: the pool has convicted the box of a slot it still holds.
BurnOut(b) ==
  /\ lease[b] = "used" /\ b \notin burned
  /\ burned' = burned \cup {b}
  /\ free' = free \ {b}
  /\ UNCHANGED <<cooling, seen, lease, thr>>

CoolsDown(b) ==
  /\ b \in cooling
  /\ cooling' = cooling \ {b}
  /\ UNCHANGED <<free, burned, seen, lease, thr>>

StatNext ==
  \/ \E x \in Spawners :
       \/ SpawnReads(x) \/ SpawnNext(x) \/ ProbeHealth(x) \/ ProbeEgress(x)
       \/ Take(x) \/ SpawnRaises(x) \/ SpawnReturns(x)
  \/ \E b \in Boxes :
       SlotServes(b) \/ BurnOut(b) \/ CoolsDown(b) \/ \E dirty \in BOOLEAN : Reap(b, dirty)

StatSpec == StatInit /\ [][StatNext]_statVars

-------------------------------------------------------------------------------
\* Properties

\* A box is leased to one slot at a time and never lost: it is free, leased or
\* burned out; and it is not leased while a stale request may still run in its
\* agent, although the cooldown is only looked at before the probes.
\* (spawn 439-514, reap 594-609, burn_out 576-592)
BoxesConserved ==
  \A b \in Boxes :
    /\ lease[b] # "twice"
    /\ b \in free => lease[b] = "no" /\ b \notin burned
    /\ lease[b] = "no" => b \in free \cup burned
    /\ b \in cooling => lease[b] = "no"

\* The configuration fault is raised only by a fleet whose boxes have all
\* answered that they have no egress: a box that is leased, cooling or silent
\* makes the miss transient.  (spawn 515-536)
NoEgressIsFleetWide ==
  \A x \in Spawners : ~TAt(x, "fault") /\ TAt(x, "fault")' =>
    \A b \in Boxes \ burned : seen[b] = "no"
===============================================================================
