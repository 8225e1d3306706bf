---------------------------------- MODULE Pool ----------------------------------
(* The warm pool of a dispatcher (host/pool.py): slots that are spawned ahead,  *)
(* claimed for one job, recycled or reaped afterwards, and kept healthy by a    *)
(* background thread.  Dispatch threads claim and release, the background       *)
(* thread ticks, reaper threads dispose of slots that were condemned elsewhere, *)
(* and stop() takes the pool down beside all of them.  A step is one critical   *)
(* section of the pool's lock together with the runtime call that precedes it.  *)
EXTENDS Integers, FiniteSets

CONSTANTS
  Slots,             \* slot ids; one is used again once nobody refers to it
  Clients,           \* dispatch threads
  Reapers,           \* reaper threads: _MAX_REAPER_THREADS
  Hanging,           \* those whose call into the runtime may never return
  MaxReapers,        \* _MAX_REAPERS: those that may be making progress at once
  MaxCeiling,        \* bound on concurrent_ceiling
  WarmSize,          \* the initial warm_size
  BurstSize,
  SpawnConcurrency,
  Recycles,          \* does the runtime implement recycle?
  JobsPerRecycle,
  MaxJobsPerSlot,
  MaxTries,          \* _maintain_reap_max_tries
  Maintains,         \* does the runtime implement maintain_idle?
  Resizes,           \* is the pool resized by a sizer?
  Stops              \* may stop() be called?

ASSUME PoolAssumption ==
  /\ IsFiniteSet(Slots) /\ IsFiniteSet(Reapers)
  /\ Hanging \subseteq Reapers
  /\ MaxReapers \in Nat \ {0}
  /\ MaxCeiling \in Nat \ {0}
  /\ WarmSize \in 0..MaxCeiling
  /\ BurstSize \in Nat
  /\ SpawnConcurrency \in Nat \ {0}
  /\ JobsPerRecycle \in Nat \ {0}
  /\ MaxJobsPerSlot \in Nat \ {0}
  /\ MaxTries \in Nat \ {0}
  /\ {Recycles, Maintains, Resizes, Stops} \subseteq BOOLEAN

VARIABLES
  slot,       \* the slots: _slots, and the workers behind them
  reaping,    \* _reaping: slots somebody is disposing of
  deferred,   \* _deferred_reap
  held,       \* _deferred_reap_next: husks whose retry waits for the next pass
  suspected,  \* _suspected_unknown: condemned without proof
  tries,      \* _maintain_reap_tries
  cl,         \* the dispatch threads
  tk,         \* the background thread
  rp,         \* the reaper threads
  stop,       \* the thread in stop()
  inflight,   \* _spawns_in_flight
  size        \* [warm, ceiling, burst, auto]: _warm_size, _concurrent_ceiling, ...

vars == <<slot, reaping, deferred, held, suspected, tries, cl, tk, rp, stop, inflight, size>>
queueVars == <<deferred, held, suspected, tries>>

-------------------------------------------------------------------------------
\* "out": in nobody's books.  "born": spawned, not in _slots yet.
SlotStates == {"out", "born", "warming", "idle", "assigned", "draining"}

\* worker: the machine behind the slot.  ready: has been ready once, that is, not
\* in _never_ready.  taint: what the last job left behind.
SlotRecords == [st : SlotStates, worker : {"none", "up", "down"}, ready : BOOLEAN,
                jobs : 0..MaxJobsPerSlot, taint : {"fresh", "used", "dirty"}]

OutSlot == [st |-> "out", worker |-> "none", ready |-> FALSE, jobs |-> 0, taint |-> "fresh"]

None == "none"

\* A slot id is generated by the runtime and is never the null.
ASSUME SlotAssumption == None \notin Slots

ClientPcs == {"off", "idle", "probe", "hold", "recycle", "drain", "reap", "reaping"}
Client == [pc : ClientPcs, slot : Slots \cup {None}]
IdleClient == [pc |-> "idle", slot |-> None]

TickPcs == {"promote", "promoting", "health", "evict", "evicting", "upkeep", "defer",
            "burst", "plan", "spawn", "publish", "drop", "batch", "settle", "settleDrop",
            "surplus", "shed", "shedding", "off"}

\* doomed and hunch: the slots condemned in this tick, and those condemned only
\* because nothing could be learnt about them.
Ticker == [pc : TickPcs, todo : SUBSET Slots, doomed : SUBSET Slots,
           hunch : SUBSET Slots, slot : Slots \cup {None}, left : 0..MaxCeiling]

ReaperPcs == {"off", "drain", "reap", "reaping", "failed"}
Reaper == [pc : ReaperPcs, slot : Slots \cup {None}, retired : BOOLEAN]
IdleReaper == [pc |-> "off", slot |-> None, retired |-> FALSE]

StopPcs == {"no", "join", "flip", "reap", "reaping", "pop", "done"}
Stopper == [pc : StopPcs, todo : SUBSET Slots, slot : Slots \cup {None},
            wedged : BOOLEAN, left : Nat]

Init ==
  /\ slot = [s \in Slots |-> OutSlot]
  /\ reaping = {} /\ deferred = {} /\ held = {} /\ suspected = {}
  /\ tries = [s \in Slots |-> -1]
  /\ cl = [c \in Clients |-> IdleClient]
  /\ tk = [pc |-> "shed", todo |-> {}, doomed |-> {}, hunch |-> {}, slot |-> None, left |-> 0]
  /\ rp = [r \in Reapers |-> IdleReaper]
  /\ stop = [pc |-> "no", todo |-> {}, slot |-> None, wedged |-> FALSE, left |-> 0]
  /\ inflight = 0
  /\ size = [warm |-> WarmSize, ceiling |-> MaxCeiling, burst |-> FALSE, auto |-> FALSE]

-------------------------------------------------------------------------------
In(states) == {s \in Slots : slot[s].st \in states}
Tracked == In(SlotStates \ {"out", "born"})
Active == In({"warming", "idle", "assigned"})
Stopping == stop.pc # "no"

Least(a, b) == IF a < b THEN a ELSE b

\* _effective_target_unlocked
Target == IF size.burst THEN Least(size.warm + BurstSize, size.ceiling) ELSE size.warm

\* Nobody holds a reference to the slot any more, so its id may stand for a new one.
Forgotten(s) ==
  /\ s \notin reaping \cup deferred
  /\ \A c \in Clients : cl[c].slot # s
  /\ \A r \in Reapers : rp[r].slot # s
  /\ tk.slot # s /\ s \notin tk.todo \cup tk.doomed
  /\ stop.slot # s /\ s \notin stop.todo

SetState(s, st) == slot' = [slot EXCEPT ![s].st = st]

\* What a liveness probe may answer: the truth, or nothing.
ProbeAnswers(s) == {"unknown", IF slot[s].worker = "up" THEN "alive" ELSE "dead"}

\* The first half of _reap_and_count: one thread at a time, and only a slot that
\* is still in the books.
MayReap(s) == s \notin reaping /\ s \in Tracked

\* The second half: the runtime disposed of the worker, and the slot leaves the
\* books in the section that gives up its ownership ...
Disposed(s) ==
  /\ slot' = [slot EXCEPT ![s] = OutSlot]
  /\ reaping' = reaping \ {s}
  /\ held' = held \ {s}
  /\ suspected' = suspected \ {s}
  /\ tries' = [tries EXCEPT ![s] = -1]
  /\ UNCHANGED deferred

\* ... or reap raised, and the slot stays as a husk.
NotDisposed(s) ==
  /\ reaping' = reaping \ {s}
  /\ UNCHANGED <<slot, queueVars>>

\* _queue_deferred_reap_unlocked
Queue(ss) == deferred' = IF Stopping THEN deferred ELSE deferred \cup ss

\* Time passes for the workers: one dies.
WorkerDies(s) ==
  /\ slot[s].worker = "up"
  /\ slot' = [slot EXCEPT ![s].worker = "down"]
  /\ UNCHANGED <<reaping, queueVars, cl, tk, rp, stop, inflight, size>>

-------------------------------------------------------------------------------
\* Dispatch threads: claim, release, unclaim and retire.

clientRest == <<tk, rp, stop, inflight, size>>
CGo(c, pc) == cl' = [cl EXCEPT ![c].pc = pc]

\* The thread comes back to claim.  It reads the stop flag before it takes the
\* lock, so a pick may still follow the beginning of stop().
CDone(c) == cl' = [cl EXCEPT ![c] = [IdleClient EXCEPT !.pc = IF Stopping THEN "off" ELSE "idle"]]

\* _try_claim_one takes an idle slot out of the others' reach ...
ClaimPick(c, s) ==
  /\ cl[c].pc = "idle"
  /\ slot[s].st = "idle"
  /\ SetState(s, "assigned")
  /\ cl' = [cl EXCEPT ![c] = [pc |-> "probe", slot |-> s]]
  /\ UNCHANGED <<reaping, queueVars, clientRest>>

\* ... and probes it: it is handed out,
ClaimAlive(c) ==
  /\ cl[c].pc = "probe"
  /\ "alive" \in ProbeAnswers(cl[c].slot)
  /\ CGo(c, "hold")
  /\ UNCHANGED <<slot, reaping, queueVars, clientRest>>

\* put back because nothing is known,
ClaimUnknown(c) ==
  LET s == cl[c].slot IN
  /\ cl[c].pc = "probe"
  /\ slot' = IF slot[s].st = "assigned" THEN [slot EXCEPT ![s].st = "idle"] ELSE slot
  /\ CDone(c)
  /\ UNCHANGED <<reaping, queueVars, clientRest>>

\* or condemned, and left to a reaper.
ClaimDead(c) ==
  LET s == cl[c].slot IN
  /\ cl[c].pc = "probe"
  /\ "dead" \in ProbeAnswers(s)
  /\ slot' = IF s \in Tracked THEN [slot EXCEPT ![s].st = "draining"] ELSE slot
  /\ Queue({s})
  /\ CDone(c)
  /\ UNCHANGED <<reaping, held, suspected, tries, clientRest>>

\* unclaim: the slot goes back unused.
Unclaim(c) ==
  LET s == cl[c].slot IN
  /\ cl[c].pc = "hold"
  /\ slot' = IF slot[s].st = "assigned" THEN [slot EXCEPT ![s].st = "idle"] ELSE slot
  /\ CDone(c)
  /\ UNCHANGED <<reaping, queueVars, clientRest>>

\* release: the job is over, and the slot is reset for the next one or drained.
\* spent stands for a slot that burned out under its failures.  What a job leaves
\* behind does not matter where nothing is recycled.
Release(c) ==
  LET s == cl[c].slot
      jobs == Least(slot[s].jobs + 1, MaxJobsPerSlot) IN
  /\ cl[c].pc = "hold"
  /\ \E dirty, spent \in IF Recycles THEN BOOLEAN ELSE {FALSE} :
       /\ spent => dirty
       /\ slot' = IF s \in Tracked
                    THEN [slot EXCEPT ![s].jobs = jobs,
                                      ![s].taint = IF dirty THEN "dirty" ELSE "used"]
                    ELSE slot
       /\ CGo(c, IF Recycles /\ s \in Tracked /\ ~spent /\ jobs < MaxJobsPerSlot
                   THEN "recycle" ELSE "drain")
  /\ UNCHANGED <<reaping, queueVars, clientRest>>

\* Seeded fault: only the count decides, not how the job ended.
NeedsResetCounted(s) == slot[s].jobs % JobsPerRecycle = 0

\* recycle, the probe after it, and the slot's return.
NeedsReset(s) == slot[s].taint = "dirty" \/ slot[s].jobs % JobsPerRecycle = 0

Recycle(c) ==
  LET s == cl[c].slot
      back == s \in Tracked /\ slot[s].st = "assigned" IN
  /\ cl[c].pc = "recycle"
  /\ \E ok \in IF NeedsReset(s) THEN BOOLEAN ELSE {TRUE}, alive \in ProbeAnswers(s) :
       IF ok /\ alive # "dead" /\ back
         THEN /\ slot' = [slot EXCEPT ![s].st = "idle",
                                      ![s].taint = IF NeedsReset(s) THEN "fresh"
                                                              ELSE slot[s].taint]
              /\ CDone(c)
         ELSE /\ CGo(c, "drain")
              /\ UNCHANGED slot
  /\ UNCHANGED <<reaping, queueVars, clientRest>>

\* The last part of release, and retire, which resets nothing.
Drain(c) ==
  LET s == cl[c].slot IN
  /\ cl[c].pc \in {"drain", "hold"}
  /\ IF s \in Tracked THEN SetState(s, "draining") /\ CGo(c, "reap")
                      ELSE UNCHANGED slot /\ CDone(c)
  /\ UNCHANGED <<reaping, queueVars, clientRest>>

ClientReap(c) ==
  LET s == cl[c].slot IN
  /\ cl[c].pc = "reap"
  /\ IF MayReap(s) THEN reaping' = reaping \cup {s} /\ CGo(c, "reaping")
                   ELSE UNCHANGED reaping /\ CDone(c)
  /\ UNCHANGED <<slot, queueVars, clientRest>>

ClientReaped(c) ==
  /\ cl[c].pc = "reaping"
  /\ Disposed(cl[c].slot) \/ NotDisposed(cl[c].slot)
  /\ CDone(c)
  /\ UNCHANGED clientRest

-------------------------------------------------------------------------------
\* The background thread: tick.

tickRest == <<cl, rp, stop>>
TGo(pc) == tk' = [tk EXCEPT !.pc = pc]

\* _promote_warming begins with the list of warming slots; _background_loop ends
\* when the pool is stopped.
TickBegin ==
  /\ tk.pc = "shed" /\ tk.todo = {}
  /\ tk' = IF Stopping THEN [tk EXCEPT !.pc = "off"]
           ELSE [tk EXCEPT !.pc = "promote", !.todo = In({"warming"})]
  /\ UNCHANGED <<slot, reaping, queueVars, tickRest, inflight, size>>

\* The slot answered: it is ready, not ready yet, or unknown.
Promote(s) ==
  /\ tk.pc = "promote" /\ s \in tk.todo
  /\ \/ /\ slot[s].worker = "up"
        /\ slot' = IF slot[s].st = "warming"
                     THEN [slot EXCEPT ![s].st = "idle", ![s].ready = TRUE] ELSE slot
        /\ tk' = [tk EXCEPT !.todo = @ \ {s}]
        /\ UNCHANGED reaping
     \/ /\ tk' = [tk EXCEPT !.todo = @ \ {s}]
        /\ UNCHANGED <<slot, reaping>>
     \/ /\ slot[s].st = "draining" /\ MayReap(s)
        /\ reaping' = reaping \cup {s}
        /\ tk' = [tk EXCEPT !.todo = @ \ {s}, !.slot = s, !.pc = "promoting"]
        /\ UNCHANGED slot
  /\ UNCHANGED <<queueVars, tickRest, inflight, size>>

\* _health_check: the idle slots are to be probed; of the warming ones some have
\* used up their time, and of these some were unknown throughout.
HealthList ==
  /\ tk.pc = "promote" /\ tk.todo = {}
  /\ \E late \in SUBSET In({"warming"}) : \E unseen \in SUBSET late :
       tk' = [tk EXCEPT !.pc = "health", !.todo = In({"idle"}),
                        !.doomed = late, !.hunch = unseen]
  /\ UNCHANGED <<slot, reaping, queueVars, tickRest, inflight, size>>

\* An idle slot is dead, or has been unknown for longer than the grace period.
HealthProbe(s) ==
  /\ tk.pc = "health" /\ s \in tk.todo
  /\ \E alive \in ProbeAnswers(s), overdue \in BOOLEAN :
       LET suspect == alive = "unknown" /\ overdue /\ slot[s].st = "idle" IN
       tk' = [tk EXCEPT !.todo = @ \ {s},
                        !.doomed = IF alive = "dead" \/ suspect THEN @ \cup {s} ELSE @,
                        !.hunch = IF suspect THEN @ \cup {s} ELSE @]
  /\ UNCHANGED <<slot, reaping, queueVars, tickRest, inflight, size>>

\* Seeded fault: the verdict is applied to whatever the slot is doing by now.
HealthDemoteStale ==
  LET there == tk.doomed \cap Tracked IN
  /\ tk.pc = "health" /\ tk.todo = {}
  /\ slot' = [s \in Slots |->
                IF s \in there THEN [slot[s] EXCEPT !.st = "draining"] ELSE slot[s]]
  /\ suspected' = suspected \cup (there \cap tk.hunch)
  /\ Queue(there \cap tk.hunch)
  /\ tk' = [tk EXCEPT !.pc = "evict", !.todo = there \ tk.hunch, !.doomed = {}, !.hunch = {}]
  /\ UNCHANGED <<reaping, held, tries, tickRest, inflight, size>>

\* Those that are still idle or warming go; where there is no proof, the eviction
\* budget may spare them.  The suspects are left to a reaper.
HealthDemote ==
  LET there == tk.doomed \cap In({"idle", "warming"})
      unproven == {s \in there : s \in tk.hunch \/ slot[s].st = "warming"} IN
  /\ tk.pc = "health" /\ tk.todo = {}
  /\ \E spared \in SUBSET unproven :
       LET gone == there \ spared IN
       /\ slot' = [s \in Slots |->
                     IF s \in gone THEN [slot[s] EXCEPT !.st = "draining"] ELSE slot[s]]
       /\ suspected' = suspected \cup (gone \cap tk.hunch)
       /\ Queue(gone \cap tk.hunch)
       /\ tk' = [tk EXCEPT !.pc = "evict", !.todo = gone \ tk.hunch,
                           !.doomed = {}, !.hunch = {}]
  /\ UNCHANGED <<reaping, held, tries, tickRest, inflight, size>>

\* Condemned and surplus slots are reaped in place, one after the other.
TickReap(s) ==
  /\ tk.pc \in {"evict", "shed"} /\ s \in tk.todo
  /\ IF MayReap(s)
       THEN /\ reaping' = reaping \cup {s}
            /\ tk' = [tk EXCEPT !.todo = @ \ {s}, !.slot = s,
                                !.pc = IF @ = "evict" THEN "evicting" ELSE "shedding"]
       ELSE /\ tk' = [tk EXCEPT !.todo = @ \ {s}]
            /\ UNCHANGED reaping
  /\ UNCHANGED <<slot, queueVars, tickRest, inflight, size>>

TickReaped ==
  /\ tk.pc \in {"promoting", "evicting", "shedding"}
  /\ Disposed(tk.slot) \/ NotDisposed(tk.slot)
  /\ tk' = [tk EXCEPT !.slot = None, !.pc = CASE @ = "promoting" -> "promote"
                                              [] @ = "evicting" -> "evict"
                                              [] @ = "shedding" -> "shed"]
  /\ UNCHANGED <<tickRest, inflight, size>>

\* _maintain_idle borrows an idle slot for the runtime's upkeep ...
MaintainPick(s) ==
  /\ Maintains /\ ~Stopping
  /\ tk.pc = "evict" /\ tk.todo = {}
  /\ slot[s].st = "idle"
  /\ SetState(s, "assigned")
  /\ tk' = [tk EXCEPT !.pc = "upkeep", !.slot = s]
  /\ UNCHANGED <<reaping, queueVars, tickRest, inflight, size>>

MaintainNothing ==
  /\ tk.pc = "evict" /\ tk.todo = {}
  /\ TGo("defer")
  /\ UNCHANGED <<slot, reaping, queueVars, tickRest, inflight, size>>

\* ... and gives it back, or leaves an unusable one to a reaper.
Upkeep ==
  LET s == tk.slot IN
  /\ tk.pc = "upkeep"
  /\ \E usable \in BOOLEAN :
       IF slot[s].st # "assigned" THEN UNCHANGED <<slot, deferred, tries>>
       ELSE IF usable THEN SetState(s, "idle") /\ UNCHANGED <<deferred, tries>>
       ELSE /\ SetState(s, "draining")
            /\ Queue({s})
            /\ tries' = IF Stopping THEN tries ELSE [tries EXCEPT ![s] = 0]
  /\ tk' = [tk EXCEPT !.pc = "defer", !.slot = None]
  /\ UNCHANGED <<reaping, held, suspected, tickRest, inflight, size>>

\* Seeded fault: a reaper that hangs counts as one that makes progress.
StartReapersStuck ==
  LET alive == {r \in Reapers : rp[r].pc # "off"}
      room == Least(MaxReapers, Cardinality(Reapers)) - Cardinality(alive)
      want == Least(Cardinality(deferred), room) IN
  /\ tk.pc = "defer"
  /\ \E new \in SUBSET (Reapers \ alive) :
       /\ Cardinality(new) = IF want > 0 THEN want ELSE 0
       /\ rp' = [r \in Reapers |-> IF r \in new THEN [IdleReaper EXCEPT !.pc = "drain"] ELSE rp[r]]
  /\ TGo("burst")
  /\ UNCHANGED <<slot, reaping, queueVars, cl, stop, inflight, size>>

\* _reap_deferred: a reaper that has been in the runtime for too long (slow) is
\* retired after what it is doing; held husks are released once no other is draining; and as many
\* reapers are started as there is work and room for.
StartReapers ==
  LET alive == {r \in Reapers : rp[r].pc # "off"}
      busy == {r \in Reapers : rp[r].pc = "reaping"} IN
  /\ tk.pc = "defer"
  /\ IF Stopping THEN UNCHANGED <<rp, deferred, held>>
     ELSE \E slow \in SUBSET busy :
       LET live == alive \ slow
           work == IF live = {} THEN deferred \cup held ELSE deferred
           room == Least(MaxReapers - Cardinality(live), Cardinality(Reapers \ alive))
           want == Least(Cardinality(work), room) IN
       /\ {r \in busy : rp[r].retired} \subseteq slow
       /\ deferred' = work
       /\ held' = IF live = {} THEN {} ELSE held
       /\ \E new \in SUBSET (Reapers \ alive) :
            /\ Cardinality(new) = IF want > 0 THEN want ELSE 0
            /\ rp' = [r \in Reapers |->
                        IF r \in new THEN [IdleReaper EXCEPT !.pc = "drain"]
                        ELSE IF r \in slow THEN [rp[r] EXCEPT !.retired = TRUE]
                        ELSE rp[r]]
  /\ TGo("burst")
  /\ UNCHANGED <<slot, reaping, suspected, tries, cl, stop, inflight, size>>

\* _update_burst: demand misses that lasted, or their absence.  A burst of no slots
\* changes nothing.
UpdateBurst ==
  /\ tk.pc = "burst"
  /\ \E b \in BOOLEAN : (b => BurstSize > 0) /\ size' = [size EXCEPT !.burst = b]
  /\ TGo("plan")
  /\ UNCHANGED <<slot, reaping, queueVars, tickRest, inflight>>

\* Seeded fault: husks count as slots that serve.
SpawnPlanHusks ==
  LET deficit == Target - Cardinality(Tracked) IN
  /\ tk.pc = "plan"
  /\ tk' = [tk EXCEPT !.pc = IF deficit > 0 THEN "spawn" ELSE "surplus",
                      !.left = IF deficit > 0 THEN deficit ELSE 0]
  /\ UNCHANGED <<slot, reaping, queueVars, tickRest, inflight, size>>

\* _spawn_to_deficit: how many are missing, and how many there is room for.
SpawnPlan ==
  LET deficit == Target - Cardinality(Active)
      headroom == size.ceiling - Cardinality(Tracked)
      count == IF deficit > 0 /\ headroom > 0 THEN Least(deficit, headroom) ELSE 0 IN
  /\ tk.pc = "plan"
  /\ \/ /\ tk' = [tk EXCEPT !.pc = IF count = 0 THEN "surplus" ELSE "spawn", !.left = count]
        /\ ~(SpawnConcurrency > 1 /\ count > 1)
        /\ UNCHANGED inflight
     \/ \* _spawn_batch_concurrent: the reservations, as far as the rate allows
        /\ SpawnConcurrency > 1 /\ count > 1
        /\ \E k \in 0..count :
             /\ inflight' = k
             /\ tk' = [tk EXCEPT !.pc = IF k = 0 THEN "surplus" ELSE "batch", !.left = k]
     \/ \* the runtime is not ready, or its base was rebuilt in this tick
        TGo("surplus") /\ UNCHANGED inflight
  /\ UNCHANGED <<slot, reaping, queueVars, tickRest, size>>

Born == [OutSlot EXCEPT !.st = "born", !.worker = "up"]

\* One spawn of the serial loop.
SpawnOne(s) ==
  /\ tk.pc = "spawn" /\ tk.left > 0
  /\ Cardinality(Tracked) < size.ceiling
  /\ slot[s].st = "out" /\ Forgotten(s)
  /\ slot' = [slot EXCEPT ![s] = Born]
  /\ tk' = [tk EXCEPT !.pc = "publish", !.slot = s]
  /\ UNCHANGED <<reaping, queueVars, tickRest, inflight, size>>

\* It fails; or the loop ends: at its count, at the rate limit, at the ceiling,
\* or because there is no capacity.
SpawnFails ==
  /\ tk.pc = "spawn" /\ tk.left > 0
  /\ tk' = [tk EXCEPT !.left = @ - 1]
  /\ UNCHANGED <<slot, reaping, queueVars, tickRest, inflight, size>>

SpawnEnd ==
  /\ tk.pc = "spawn"
  /\ tk' = [tk EXCEPT !.pc = "surplus", !.left = 0]
  /\ UNCHANGED <<slot, reaping, queueVars, tickRest, inflight, size>>

\* Seeded fault: the ceiling is not read again after the spawn.
UnwantedStopped == Stopping

\* A spawned slot that is not wanted any more.
Unwanted == Stopping \/ Cardinality(Tracked) >= size.ceiling

Publish ==
  /\ tk.pc = "publish"
  /\ IF Unwanted THEN TGo("drop") /\ UNCHANGED slot
     ELSE /\ SetState(tk.slot, "warming")
          /\ tk' = [tk EXCEPT !.pc = "spawn", !.slot = None, !.left = @ - 1]
  /\ UNCHANGED <<reaping, queueVars, tickRest, inflight, size>>

\* It is reaped, or kept in the books as a husk.
Dropped(s) == \E ok \in BOOLEAN :
  slot' = [slot EXCEPT ![s] = IF ok THEN OutSlot ELSE [@ EXCEPT !.st = "draining"]]

Drop ==
  /\ tk.pc = "drop"
  /\ Dropped(tk.slot)
  /\ tk' = [tk EXCEPT !.pc = "surplus", !.slot = None, !.left = 0]
  /\ UNCHANGED <<reaping, queueVars, tickRest, inflight, size>>

\* _gated_spawn, on a thread of the batch: left counts those still to run, todo
\* holds what they brought.
BatchSpawn(s) ==
  /\ tk.pc = "batch" /\ tk.left > 0
  /\ ~Stopping /\ Cardinality(Tracked) + inflight <= size.ceiling
  /\ slot[s].st = "out" /\ Forgotten(s)
  /\ slot' = [slot EXCEPT ![s] = Born]
  /\ tk' = [tk EXCEPT !.left = @ - 1, !.todo = @ \cup {s}]
  /\ UNCHANGED <<reaping, queueVars, tickRest, inflight, size>>

BatchSpawnFails ==
  /\ tk.pc = "batch" /\ tk.left > 0
  /\ tk' = [tk EXCEPT !.left = @ - 1]
  /\ UNCHANGED <<slot, reaping, queueVars, tickRest, inflight, size>>

\* All threads of the batch are through: the failures' reservations go first.
BatchEnd ==
  /\ tk.pc = "batch" /\ tk.left = 0
  /\ TGo("settle")
  /\ inflight' = Cardinality(tk.todo)
  /\ UNCHANGED <<slot, reaping, queueVars, tickRest, size>>

\* _publish_or_reap_spawned for one of them.
Settle(s) ==
  /\ tk.pc = "settle" /\ s \in tk.todo
  /\ IF Unwanted
       THEN /\ tk' = [tk EXCEPT !.pc = "settleDrop", !.slot = s, !.todo = @ \ {s}]
            /\ UNCHANGED <<slot, inflight>>
       ELSE /\ SetState(s, "warming")
            /\ tk' = [tk EXCEPT !.todo = @ \ {s}]
            /\ inflight' = inflight - 1
  /\ UNCHANGED <<reaping, queueVars, tickRest, size>>

SettleDrop ==
  /\ tk.pc = "settleDrop"
  /\ Dropped(tk.slot)
  /\ tk' = [tk EXCEPT !.pc = "settle", !.slot = None]
  /\ inflight' = inflight - 1
  /\ UNCHANGED <<reaping, queueVars, tickRest, size>>

\* _reap_surplus: a pool that was resized sheds idle slots above its target.
Surplus ==
  LET surplus == Cardinality(Active) - Target
      idle == In({"idle"}) IN
  /\ tk.pc = "surplus" \/ (tk.pc = "settle" /\ tk.todo = {})
  /\ IF size.auto /\ surplus > 0
       THEN \E victims \in SUBSET idle :
              /\ Cardinality(victims) = Least(surplus, Cardinality(idle))
              /\ slot' = [s \in Slots |->
                   IF s \in victims THEN [slot[s] EXCEPT !.st = "draining"] ELSE slot[s]]
              /\ tk' = [tk EXCEPT !.pc = "shed", !.todo = victims]
       ELSE TGo("shed") /\ UNCHANGED slot
  /\ UNCHANGED <<reaping, queueVars, tickRest, inflight, size>>

-------------------------------------------------------------------------------
\* Reaper threads: _drain_deferred_reaps.

reaperRest == <<cl, tk, stop, inflight, size>>
PGo(r, pc) == rp' = [rp EXCEPT ![r].pc = pc]

ReaperTake(r, s) ==
  /\ rp[r].pc = "drain" /\ ~rp[r].retired
  /\ s \in deferred
  /\ deferred' = deferred \ {s}
  /\ rp' = IF s \in Tracked THEN [rp EXCEPT ![r].pc = "reap", ![r].slot = s] ELSE rp
  /\ UNCHANGED <<slot, reaping, held, suspected, tries, reaperRest>>

ReaperEnd(r) ==
  /\ rp[r].pc = "drain"
  /\ rp[r].retired \/ deferred = {}
  /\ rp' = [rp EXCEPT ![r] = IdleReaper]
  /\ UNCHANGED <<slot, reaping, queueVars, reaperRest>>

\* What a disposal that is over leaves of the marks on its slot.
Unmark(s) ==
  /\ suspected' = suspected \ {s}
  /\ tries' = [tries EXCEPT ![s] = -1]

ReaperReap(r) ==
  LET s == rp[r].slot IN
  /\ rp[r].pc = "reap"
  /\ IF MayReap(s)
       THEN /\ reaping' = reaping \cup {s}
            /\ PGo(r, "reaping")
            /\ UNCHANGED <<suspected, tries>>
       ELSE /\ Unmark(s)
            /\ rp' = [rp EXCEPT ![r].pc = "drain", ![r].slot = None]
            /\ UNCHANGED reaping
  /\ UNCHANGED <<slot, deferred, held, reaperRest>>

ReaperReaped(r) ==
  /\ rp[r].pc = "reaping"
  /\ \/ Disposed(rp[r].slot) /\ rp' = [rp EXCEPT ![r].pc = "drain", ![r].slot = None]
     \/ NotDisposed(rp[r].slot) /\ PGo(r, "failed")
  /\ UNCHANGED reaperRest

\* Seeded fault: the retry budget is read before the failure is counted.
ReaperFailedLate(r) ==
  LET s == rp[r].slot
      again == ~Stopping /\ tries[s] >= 0 /\ tries[s] < MaxTries IN
  /\ rp[r].pc = "failed"
  /\ tries' = [tries EXCEPT ![s] = IF again THEN @ + 1 ELSE -1]
  /\ held' = IF again THEN held \cup {s} ELSE held
  /\ suspected' = suspected \ {s}
  /\ rp' = [rp EXCEPT ![r].pc = "drain", ![r].slot = None]
  /\ UNCHANGED <<slot, reaping, deferred, reaperRest>>

\* A husk from the upkeep is tried again a few times; a suspect goes back to what
\* it was; any other husk stays.
ReaperFailed(r) ==
  LET s == rp[r].slot
      again == ~Stopping /\ tries[s] >= 0 /\ tries[s] + 1 < MaxTries
      restore == ~Stopping /\ tries[s] < 0 /\ s \in suspected IN
  /\ rp[r].pc = "failed"
  /\ tries' = [tries EXCEPT ![s] = IF again THEN @ + 1 ELSE -1]
  /\ held' = IF again THEN held \cup {s} ELSE held
  /\ slot' = IF restore /\ slot[s].st = "draining"
               THEN [slot EXCEPT ![s].st = IF slot[s].ready THEN "idle" ELSE "warming"]
               ELSE slot
  /\ suspected' = suspected \ {s}
  /\ rp' = [rp EXCEPT ![r].pc = "drain", ![r].slot = None]
  /\ UNCHANGED <<reaping, deferred, reaperRest>>

-------------------------------------------------------------------------------
\* stop().

stopRest == <<cl, tk, rp, inflight, size>>
SGo(pc) == stop' = [stop EXCEPT !.pc = pc]

StopBegin ==
  /\ Stops
  /\ stop.pc = "no"
  /\ SGo("join")
  /\ UNCHANGED <<slot, reaping, queueVars, stopRest>>

\* The background thread has ended, or is given up as wedged.
StopJoin ==
  /\ stop.pc = "join"
  /\ stop' = [stop EXCEPT !.pc = "flip", !.wedged = tk.pc # "off"]
  /\ UNCHANGED <<slot, reaping, queueVars, stopRest>>

\* The reapers have ended too, or were given up.  Nothing is queued, and no slot
\* can be claimed any more.
StopFlip ==
  /\ stop.pc = "flip"
  /\ deferred' = {} /\ held' = {}
  /\ slot' = [s \in Slots |->
               IF s \in Tracked THEN [slot[s] EXCEPT !.st = "draining"] ELSE slot[s]]
  /\ stop' = [stop EXCEPT !.pc = "reap", !.todo = Tracked]
  /\ UNCHANGED <<reaping, suspected, tries, stopRest>>

StopReap(s) ==
  /\ stop.pc = "reap" /\ s \in stop.todo
  /\ IF MayReap(s)
       THEN /\ reaping' = reaping \cup {s}
            /\ stop' = [stop EXCEPT !.pc = "reaping", !.todo = @ \ {s}, !.slot = s]
       ELSE /\ stop' = [stop EXCEPT !.todo = @ \ {s}]
            /\ UNCHANGED reaping
  /\ UNCHANGED <<slot, queueVars, stopRest>>

\* Here the slot does not leave the books with its ownership, but one step later.
StopReaped ==
  LET s == stop.slot IN
  /\ stop.pc = "reaping"
  /\ reaping' = reaping \ {s}
  /\ \/ /\ slot' = [slot EXCEPT ![s].worker = "none"]
        /\ SGo("pop")
     \/ /\ stop' = [stop EXCEPT !.pc = "reap", !.slot = None]
        /\ UNCHANGED slot
  /\ UNCHANGED <<queueVars, stopRest>>

StopPop ==
  LET s == stop.slot IN
  /\ stop.pc = "pop"
  /\ slot' = [slot EXCEPT ![s] = OutSlot]
  /\ held' = held \ {s}
  /\ Unmark(s)
  /\ stop' = [stop EXCEPT !.pc = "reap", !.slot = None]
  /\ UNCHANGED <<reaping, deferred, stopRest>>

\* What stop() reports: the slots it could not dispose of, and the spawns a wedged
\* thread may still bring.
StopCount ==
  /\ stop.pc = "reap" /\ stop.todo = {}
  /\ stop' = [stop EXCEPT !.pc = "done",
       !.left = Cardinality(Tracked)
                + IF stop.wedged THEN IF inflight > 1 THEN inflight ELSE 1 ELSE 0]
  /\ UNCHANGED <<slot, reaping, queueVars, stopRest>>

-------------------------------------------------------------------------------
\* resize, by the sizer.
Resize ==
  /\ Resizes
  /\ \E ceiling \in 1..MaxCeiling, warm \in 0..MaxCeiling :
       size' = [size EXCEPT !.ceiling = ceiling, !.warm = Least(warm, ceiling), !.auto = TRUE]
  /\ UNCHANGED <<slot, reaping, queueVars, cl, tk, rp, stop, inflight>>

ClientStep(c) ==
  \/ ClaimAlive(c) \/ ClaimUnknown(c) \/ ClaimDead(c)
  \/ Unclaim(c) \/ Release(c) \/ Recycle(c) \/ Drain(c)
  \/ ClientReap(c) \/ ClientReaped(c)

TickStep ==
  \/ TickBegin \/ HealthList \/ HealthDemote \/ TickReaped
  \/ MaintainNothing \/ Upkeep \/ StartReapers \/ UpdateBurst \/ SpawnPlan
  \/ SpawnFails \/ SpawnEnd \/ Publish \/ Drop \/ BatchSpawnFails \/ BatchEnd
  \/ SettleDrop \/ Surplus
  \/ \E s \in Slots :
       Promote(s) \/ HealthProbe(s) \/ TickReap(s) \/ MaintainPick(s)
       \/ SpawnOne(s) \/ BatchSpawn(s) \/ Settle(s)

ReaperStep(r) ==
  \/ ReaperEnd(r) \/ ReaperReap(r) \/ ReaperReaped(r) \/ ReaperFailed(r)
  \/ \E s \in Slots : ReaperTake(r, s)

StopStep ==
  \/ StopBegin \/ StopJoin \/ StopFlip \/ StopReaped \/ StopPop
  \/ StopCount
  \/ \E s \in Slots : StopReap(s)

Next ==
  \/ \E s \in Slots : WorkerDies(s)
  \/ \E c \in Clients, s \in Slots : ClaimPick(c, s)
  \/ \E c \in Clients : ClientStep(c)
  \/ TickStep
  \/ \E r \in Reapers : ReaperStep(r)
  \/ StopStep
  \/ Resize

Spec == Init /\ [][Next]_vars

\* The background thread runs, jobs end, and calls into the runtime return, but for
\* those of the reapers that hang; a reaper that does not return is given up in the
\* end; and the runtime is ready and spawns again and again.
Fairness ==
  /\ WF_vars(TickStep)
  /\ \A c \in Clients : WF_vars(ClientStep(c))
  /\ \A r \in Reapers : WF_vars(ReaperStep(r) /\ (r \in Hanging => rp[r].pc # "reaping"))
  /\ SF_vars(StartReapers /\ \A r \in Reapers : rp[r].pc = "reaping" => rp'[r].retired)
  /\ SF_vars(SpawnPlan /\ tk'.left > 0)
  /\ SF_vars(\E s \in Slots : SpawnOne(s) \/ BatchSpawn(s))

FairSpec == Spec /\ Fairness

-------------------------------------------------------------------------------
\* Every variable keeps its type.
PoolTypeOK ==
  /\ slot \in [Slots -> SlotRecords]
  /\ {reaping, deferred, held, suspected} \subseteq SUBSET Slots
  /\ tries \in [Slots -> -1..MaxTries - 1]
  /\ cl \in [Clients -> Client]
  /\ tk \in Ticker
  /\ rp \in [Reapers -> Reaper]
  /\ stop \in Stopper
  /\ inflight \in 0..MaxCeiling
  /\ size \in [warm : 0..MaxCeiling, ceiling : 1..MaxCeiling, burst : BOOLEAN, auto : BOOLEAN]

\* The slot a job has been given is its own until it gives it back: no other job
\* and no upkeep has it, and neither the health check, the surplus, a reaper nor a
\* late verdict on it destroys the worker under the job; only stop() may.
HeldSlotSafe ==
  \A c \in Clients : cl[c].pc \in {"hold", "recycle"} /\ ~Stopping =>
    LET s == cl[c].slot IN
    /\ slot[s].st = "assigned" /\ slot[s].worker # "none" /\ s \notin reaping
    /\ \A d \in Clients \ {c} : cl[d].slot # s
    /\ tk.slot # s

\* A job never inherits what another left behind: it gets a worker that was reset
\* after the last failed job, and after at most JobsPerRecycle jobs.
CleanHandOut ==
  \A c \in Clients : cl[c].pc \in {"probe", "hold"} =>
    LET w == slot[cl[c].slot] IN
    w.taint = "fresh" \/ (w.taint = "used" /\ w.jobs % JobsPerRecycle # 0)

\* The slots that are being disposed of.
InDisposal ==
  {cl[c].slot : c \in {d \in Clients : cl[d].pc = "reaping"}}
  \cup {rp[r].slot : r \in {q \in Reapers : rp[q].pc = "reaping"}}
  \cup (IF tk.pc \in {"promoting", "evicting", "shedding"} THEN {tk.slot} ELSE {})
  \cup (IF stop.pc = "reaping" THEN {stop.slot} ELSE {})

\* Exactly one path disposes of a slot: whoever is in the runtime's reap owns the
\* slot until it is through, and, until stop() begins, its worker has not been
\* disposed of before.  (stop() gives up the ownership before it pops the slot, so
\* a release() can dispose of it a second time.)
DisposedOnce ==
  /\ InDisposal \subseteq reaping
  /\ Stopping \/ \A s \in reaping : slot[s].worker # "none"

\* No worker is lost: while it exists it is in the books, or in the hands of the
\* spawn that made it.
WorkersTracked ==
  \A s \in Slots : slot[s].worker # "none" =>
    s \in Tracked \/ s = tk.slot \/ s \in tk.todo

\* Whatever the sizer does meanwhile, a spawn brings no usable slot in above the
\* ceiling of the moment.
CeilingKept ==
  [][\A s \in Slots : slot[s].st = "born" /\ slot'[s].st = "warming"
       => Cardinality(Tracked) < size.ceiling]_vars

\* Only a slot that has been ready can be claimed, also after a disposal that
\* failed was undone.
OnlyReadyServe ==
  \A s \in Slots : slot[s].st \in {"idle", "assigned"} => slot[s].ready

\* Once stop() has begun to dispose of the slots nothing makes one claimable
\* again, and no worker comes in.
StopIsFinal ==
  stop.pc \in {"reap", "reaping", "pop", "done"} => Active = {}

\* The dispatcher keeps its reservation on the node for as many workers as
\* stop() reports: there are never more alive.
StopCountsLive ==
  stop.pc = "done" => Cardinality({s \in Slots : slot[s].worker # "none"}) <= stop.left

\* The books of the pool, whoever disposes of slots, however the disposals end and
\* whenever the pool is stopped.
SlotsAccounted ==
  /\ HeldSlotSafe /\ DisposedOnce /\ WorkersTracked /\ OnlyReadyServe
  /\ StopIsFinal /\ StopCountsLive

\* While slots are condemned a reaper takes one again and again, also when another
\* reaper hangs in the runtime for ever.
HusksTaken == deferred # {} ~> (deferred = {} \/ \E r \in Reapers : rp[r].pc = "reap")

\* A pool without a usable slot fills up again, unless husks have used up its
\* ceiling.
Starved == Active = {} /\ size.warm > 0 /\ Cardinality(Tracked) < size.ceiling

PoolRefills == Starved ~> ~Starved
===============================================================================
