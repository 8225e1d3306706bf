------------------------------ MODULE BaseRebuild ------------------------------
(* How the warm pool judges the base its workers are restored from, and drops   *)
(* it (host/pool.py: the accounting of release(), _maybe_rebuild_base,          *)
(* _invalidate_now, _drain_runtime_repairs).  Releasing threads and the tick    *)
(* collect evidence under the pool's lock, decide outside it, and serialise the *)
(* repair itself on a second lock: everything read before may be stale by then. *)
EXTENDS Naturals, FiniteSets

CONSTANTS Bases,          \* identities of the bases (the tiers of a cascade, or one)
          WarmSlots,      \* slot ids
          Releasers,      \* threads that run release()
          RebuildAfter,   \* worker failures in a row that condemn a base
          PreGuestAfter,  \* distinct slots that failed before their guest ran, likewise
          Cooldown,       \* ticks of the clock after a repair
          MaxRepair,      \* ticks from a decision to the end of its repair
          MaxClock, MaxPoison, MaxClean, MaxDropFails   \* bounds

VARIABLES
  rbNow,
  rbVer, rbBad,        \* base -> what is installed, and whether it is poisoned
  rbOwed,              \* bases the runtime repaired by itself and the pool has not heard of
  rbHealed,            \* bases the runtime ever repaired by itself (history)
  rbGuilty,            \* bases the runtime blames for failed spawns
  rbGen,               \* base -> _base_generation
  rbSlot,              \* slot -> its state, stamp, and what it was really restored from
  rbFails, rbPre,      \* _pool_consecutive_failures, _pool_pre_guest_failures
  rbFrom,              \* base -> the versions of the workers behind that evidence (history)
  rbClean,             \* _clean_release_by_base
  rbSpawnFails,
  rbLastAt, rbLastIdents,   \* the last repair: when (0: never), and of which bases
  rbLock,              \* _invalidation_lock
  rbThread,
  rbPoisons, rbDropFails

worldVars == <<rbVer, rbBad, rbOwed, rbHealed, rbGuilty, rbPoisons, rbDropFails>>
bookVars == <<rbGen, rbFails, rbPre, rbFrom, rbClean, rbSpawnFails, rbLastAt, rbLastIdents>>
rebuildVars == <<rbNow, rbSlot, rbLock, rbThread, worldVars, bookVars>>

Threads == Releasers \cup {"tick"}
Free == [st |-> "free", base |-> "none", gen |-> 0, ver |-> 0, bad |-> FALSE]
Resting == [at |-> "idle", slot |-> "none", reason |-> "job", base |-> "none", n |-> 0, pre |-> {},
            from |-> {}, scope |-> {}, seen |-> [b \in Bases |-> 0], now |-> 0, repaired |-> {}]

RebuildInit ==
  /\ rbNow = 1
  /\ rbVer = [b \in Bases |-> 0] /\ rbBad = [b \in Bases |-> FALSE]
  /\ rbOwed = {} /\ rbHealed = {} /\ rbGuilty = {}
  /\ rbGen = [b \in Bases |-> 0]
  /\ rbSlot = [s \in WarmSlots |-> Free]
  /\ rbFails = [b \in Bases |-> 0] /\ rbPre = [b \in Bases |-> {}]
  /\ rbFrom = [b \in Bases |-> {}]
  /\ rbClean = [b \in Bases |-> 0] /\ rbSpawnFails = 0
  /\ rbLastAt = 0 /\ rbLastIdents = {} /\ rbLock = "nobody"
  /\ rbThread = [t \in Threads |-> Resting]
  /\ rbPoisons = 0 /\ rbDropFails = 0

At(t, pc) == rbThread[t].at = pc
Put(t, rec) == rbThread' = [rbThread EXCEPT ![t] = rec]
Go(t, pc) == Put(t, [rbThread[t] EXCEPT !.at = pc])
-------------------------------------------------------------------------------
(* The world: the clock, the artifact going bad, the runtime's own repairs *)

\* A decision is carried out or given up within MaxRepair.
ClockTicks ==
  /\ rbNow < MaxClock
  /\ \A t \in Threads : rbThread[t].now > 0 => rbNow - rbThread[t].now < MaxRepair
  /\ rbNow' = rbNow + 1
  /\ UNCHANGED <<rbSlot, rbLock, rbThread, worldVars, bookVars>>

BaseGoesBad(b) ==
  /\ rbPoisons < MaxPoison /\ ~rbBad[b]
  /\ rbPoisons' = rbPoisons + 1
  /\ rbBad' = [rbBad EXCEPT ![b] = TRUE]
  /\ UNCHANGED <<rbNow, rbVer, rbOwed, rbHealed, rbGuilty, rbDropFails, rbSlot, rbLock, rbThread, bookVars>>

\* What installing a new artifact for the bases bs makes of the world.
Installed(bs) ==
  /\ rbVer' = [b \in Bases |-> IF b \in bs THEN rbVer[b] + 1 ELSE rbVer[b]]
  /\ rbBad' = [b \in Bases |-> b \notin bs /\ rbBad[b]]
  /\ rbGuilty' = rbGuilty \ bs

\* A cascade repairs a tier whose spawns fail on its own.
RuntimeRepairs(b) ==
  /\ b \in rbGuilty
  /\ Installed({b}) /\ rbOwed' = rbOwed \cup {b} /\ rbHealed' = rbHealed \cup {b}
  /\ UNCHANGED <<rbNow, rbPoisons, rbDropFails, rbSlot, rbLock, rbThread, bookVars>>

\* Advance the generation of bs and void the evidence against them.
Retire(bs) ==
  /\ rbGen' = [b \in Bases |-> IF b \in bs THEN rbGen[b] + 1 ELSE rbGen[b]]
  /\ rbPre' = [b \in Bases |-> IF b \in bs THEN {} ELSE rbPre[b]]

Void(bs) ==
  /\ rbFails' = [b \in Bases |-> IF b \in bs THEN 0 ELSE rbFails[b]]
  /\ rbFrom' = [b \in Bases |-> IF b \in bs THEN {} ELSE rbFrom[b]]

\* Skipped while a repair is under way.
DrainRuntimeRepairs ==
  /\ At("tick", "idle") /\ rbLock = "nobody" /\ rbOwed # {}
  /\ Retire(rbOwed) /\ Void(rbOwed)
  /\ rbOwed' = {}
  /\ UNCHANGED <<rbNow, rbVer, rbBad, rbHealed, rbGuilty, rbPoisons, rbDropFails, rbSlot, rbLock, rbThread,
                 rbClean, rbSpawnFails, rbLastAt, rbLastIdents>>
-------------------------------------------------------------------------------
(* Spawn *)

\* The generations are read ahead of the call; the slot is stamped with them after it.
SpawnBegins(s, b) ==
  /\ At("tick", "idle") /\ rbSlot[s].st = "free"
  /\ rbSlot' = [rbSlot EXCEPT ![s] = [Free EXCEPT !.st = "spawning", !.base = b, !.gen = rbGen[b]]]
  /\ Put("tick", [Resting EXCEPT !.at = "spawn", !.slot = s])
  /\ UNCHANGED <<rbNow, rbLock, worldVars, bookVars>>

SpawnReturns ==
  LET s == rbThread["tick"].slot  b == rbSlot[s].base IN
  /\ At("tick", "spawn")
  /\ rbSlot' = [rbSlot EXCEPT ![s].st = "live", ![s].ver = rbVer[b], ![s].bad = rbBad[b]]
  /\ Put("tick", Resting)
  /\ UNCHANGED <<rbNow, rbLock, worldVars, bookVars>>

\* A restore of a poisoned base may fail outright (or its worker dies before it served a job).
RestoreFails ==
  LET s == rbThread["tick"].slot  b == rbSlot[s].base IN
  /\ At("tick", "spawn") /\ rbBad[b] /\ rbSpawnFails < RebuildAfter + 1
  /\ rbSpawnFails' = rbSpawnFails + 1
  /\ rbGuilty' = rbGuilty \cup {b}
  /\ rbSlot' = [rbSlot EXCEPT ![s] = Free]
  /\ Put("tick", [Resting EXCEPT !.at = "spawn streak", !.reason = "spawn", !.n = rbSpawnFails + 1])
  /\ UNCHANGED <<rbNow, rbLock, rbVer, rbBad, rbOwed, rbHealed, rbPoisons, rbDropFails,
                 rbGen, rbFails, rbPre, rbFrom, rbClean, rbLastAt, rbLastIdents>>

\* The clean releases are counted ahead of asking the runtime for its guilty bases.
SpawnStreak ==
  /\ At("tick", "spawn streak")
  /\ IF rbThread["tick"].n < RebuildAfter
       THEN Put("tick", Resting)
       ELSE Put("tick", [rbThread["tick"] EXCEPT !.at = "scope", !.seen = rbClean])
  /\ UNCHANGED <<rbNow, rbSlot, rbLock, worldVars, bookVars>>

SpawnScope ==
  /\ At("tick", "scope")
  /\ Put("tick", [rbThread["tick"] EXCEPT !.at = "cooling", !.scope = rbGuilty, !.now = rbNow])
  /\ UNCHANGED <<rbNow, rbSlot, rbLock, worldVars, bookVars>>
-------------------------------------------------------------------------------
(* Release: the evidence, under the pool's lock *)

Current(s) == rbSlot[s].gen = rbGen[rbSlot[s].base]

\* The worker returned a valid result, or a valid engine error.
ReleaseServed(t, s) ==
  LET b == rbSlot[s].base IN
  /\ At(t, "idle") /\ rbSlot[s].st = "live" /\ ~rbSlot[s].bad
  /\ rbClean[b] < MaxClean
  /\ rbFails' = [rbFails EXCEPT ![b] = 0]
  /\ rbPre' = IF Current(s) THEN [rbPre EXCEPT ![b] = {}] ELSE rbPre
  /\ rbFrom' = [rbFrom EXCEPT ![b] = IF rbPre'[b] = {} THEN {} ELSE @]
  /\ rbClean' = IF Current(s) THEN [rbClean EXCEPT ![b] = @ + 1] ELSE rbClean
  /\ rbSpawnFails' = 0
  /\ rbSlot' = [rbSlot EXCEPT ![s] = Free]
  /\ UNCHANGED <<rbNow, rbLock, rbThread, worldVars, rbGen, rbLastAt, rbLastIdents>>

\* A worker fault of a slot restored from any base: counted against the base it stands for.
CountFault(t, s, preGuest) ==
  LET b == rbSlot[s].base IN
  /\ rbFails' = [rbFails EXCEPT ![b] = IF @ <= RebuildAfter THEN @ + 1 ELSE @]
  /\ rbPre' = IF preGuest THEN [rbPre EXCEPT ![b] = @ \cup {s}] ELSE rbPre
  /\ rbFrom' = [rbFrom EXCEPT ![b] = @ \cup {rbSlot[s].ver}]

\* A worker of a retired generation says nothing of the base installed now.
CountCurrentFault(t, s, preGuest) ==
  IF Current(s) THEN CountFault(t, s, preGuest) ELSE UNCHANGED <<rbFails, rbPre, rbFrom>>

\* A worker fault: from any slot for a reason of its own, from one of a poisoned base always.
ReleaseFaulted(t, s, preGuest) ==
  /\ At(t, "idle") /\ rbSlot[s].st = "live"
  /\ CountCurrentFault(t, s, preGuest)
  /\ rbSlot' = [rbSlot EXCEPT ![s].st = "releasing"]
  /\ Put(t, [Resting EXCEPT !.at = "take", !.slot = s])
  /\ UNCHANGED <<rbNow, rbLock, worldVars, rbGen, rbClean, rbSpawnFails, rbLastAt, rbLastIdents>>

\* release() reaps the slot once the base is judged.
ReleaseEnds(t) ==
  /\ rbSlot' = IF t = "tick" THEN rbSlot ELSE [rbSlot EXCEPT ![rbThread[t].slot] = Free]
  /\ Put(t, Resting)
-------------------------------------------------------------------------------
(* _maybe_rebuild_base *)

\* The base with most pre-guest slots past their threshold, else the worst streak past its own:
\* its evidence is taken off the books, whoever else reports meanwhile.
Episodes ==
  LET crossed == {b \in Bases : Cardinality(rbPre[b]) >= PreGuestAfter /\
                                 \A c \in Bases : Cardinality(rbPre[c]) <= Cardinality(rbPre[b])}
  IN IF crossed # {} THEN crossed
     ELSE {b \in Bases : rbFails[b] >= RebuildAfter /\ \A c \in Bases : rbFails[c] <= rbFails[b]}

TakeEpisode(t) ==
  /\ At(t, "take")
  /\ \/ /\ Episodes = {} /\ ReleaseEnds(t)
        /\ UNCHANGED bookVars
     \/ \E b \in Episodes :
          /\ Put(t, [rbThread[t] EXCEPT !.at = "cooling", !.base = b, !.n = rbFails[b],
                       !.pre = rbPre[b], !.from = rbFrom[b], !.seen = rbClean, !.now = rbNow])
          /\ Void({b}) /\ rbPre' = [rbPre EXCEPT ![b] = {}]
          /\ UNCHANGED <<rbSlot, rbGen, rbClean, rbSpawnFails, rbLastAt, rbLastIdents>>
  /\ UNCHANGED <<rbNow, rbLock, worldVars>>

\* A streak of spawns that names no base is about any.
About(t) ==
  LET r == rbThread[t] IN
  IF r.reason # "spawn" THEN {r.base} ELSE IF r.scope = {} THEN Bases ELSE r.scope
SucceededSince(t) == \E b \in About(t) : rbClean[b] # rbThread[t].seen[b]
Cooling(t) == rbLastAt > 0 /\ rbThread[t].now - rbLastAt < Cooldown

\* Put the evidence back, unless the base served a job since it was taken.
RestoreEpisode(t) ==
  LET r == rbThread[t] IN
  IF r.reason = "spawn" \/ SucceededSince(t)
    THEN UNCHANGED <<rbFails, rbPre, rbFrom>>
    ELSE /\ rbFails' = [rbFails EXCEPT ![r.base] = IF @ > r.n THEN @ ELSE r.n]
         /\ rbPre' = [rbPre EXCEPT ![r.base] = @ \cup r.pre]
         /\ rbFrom' = [rbFrom EXCEPT ![r.base] = @ \cup r.from]

CheckCooling(t) ==
  LET r == rbThread[t] IN
  /\ At(t, "cooling")
  /\ \/ /\ ~Cooling(t) /\ Go(t, IF r.reason = "spawn" THEN "usable" ELSE "stale")
        /\ UNCHANGED <<rbSlot, rbFails, rbPre, rbFrom, rbSpawnFails>>
     \/ /\ Cooling(t) /\ ReleaseEnds(t)
        /\ IF r.reason = "spawn"
             THEN /\ rbSpawnFails' = IF r.scope = {} \/ rbLastIdents \cap r.scope # {} THEN 0 ELSE rbSpawnFails
                  /\ UNCHANGED <<rbFails, rbPre, rbFrom>>
             ELSE /\ IF r.base \in rbLastIdents
                       THEN Void({r.base}) /\ rbPre' = [rbPre EXCEPT ![r.base] = {}]
                       ELSE RestoreEpisode(t)
                  /\ UNCHANGED rbSpawnFails
  /\ UNCHANGED <<rbNow, rbLock, worldVars, rbGen, rbClean, rbLastAt, rbLastIdents>>

\* Spawns that fail beside workers that serve do not condemn the base.
CheckUsable(t) ==
  /\ At(t, "usable")
  /\ IF \E s \in WarmSlots : rbSlot[s].st \in {"live", "releasing"}
       THEN ReleaseEnds(t) ELSE Go(t, "stale") /\ UNCHANGED rbSlot
  /\ UNCHANGED <<rbNow, rbLock, worldVars, bookVars>>

CheckStale(t) ==
  /\ At(t, "stale")
  /\ IF SucceededSince(t) THEN ReleaseEnds(t) ELSE Go(t, "lock") /\ UNCHANGED rbSlot
  /\ UNCHANGED <<rbNow, rbLock, worldVars, bookVars>>

\* The decision taken before the wait stands.
DecideBeforeLock(t) ==
  Go(t, "drop") /\ rbLock' = t /\ UNCHANGED <<rbSlot, rbFails, rbPre, rbFrom>>

\* Everything is looked at again once the repair lock is held.
DecideUnderLock(t) ==
  /\ IF Cooling(t) /\ rbThread[t].base \notin rbLastIdents
       THEN RestoreEpisode(t) ELSE UNCHANGED <<rbFails, rbPre, rbFrom>>
  /\ IF Cooling(t) \/ SucceededSince(t)
       THEN ReleaseEnds(t) /\ UNCHANGED rbLock
       ELSE Go(t, "drop") /\ rbLock' = t /\ UNCHANGED rbSlot

TakeRepairLock(t) ==
  /\ At(t, "lock") /\ rbLock = "nobody"
  /\ DecideUnderLock(t)
  /\ UNCHANGED <<rbNow, worldVars, rbGen, rbClean, rbSpawnFails, rbLastAt, rbLastIdents>>

\* Where no base is named, the runtime looks for the guilty ones itself.
Unnamed(t) == rbThread[t].reason = "spawn" /\ rbThread[t].scope = {}
Targets(t) == IF Unnamed(t) /\ rbGuilty # {} THEN rbGuilty ELSE About(t)

\* The runtime drops its targets, or some of them and raises; or it has nobody to blame,
\* because it has repaired by itself, and answers with that repair.
DropBases(t) ==
  /\ At(t, "drop")
  /\ \/ /\ Installed(Targets(t)) /\ UNCHANGED rbDropFails
        /\ Put(t, [rbThread[t] EXCEPT !.at = "dropped", !.repaired = Targets(t)])
     \/ \E some \in SUBSET Targets(t) :
          /\ some # Targets(t) /\ rbDropFails < MaxDropFails /\ rbDropFails' = rbDropFails + 1
          /\ Installed(some)
          /\ Put(t, [rbThread[t] EXCEPT !.at = "refused", !.repaired = some])
     \/ \E done \in SUBSET rbHealed :
          /\ Unnamed(t) /\ rbGuilty = {} /\ done # {}
          /\ UNCHANGED <<rbVer, rbBad, rbGuilty, rbDropFails>>
          /\ Put(t, [rbThread[t] EXCEPT !.at = "dropped", !.repaired = done])
  /\ UNCHANGED <<rbNow, rbOwed, rbHealed, rbPoisons, rbSlot, rbLock, bookVars>>

Commit(t) ==
  LET done == rbThread[t].repaired IN
  /\ At(t, "dropped")
  /\ Retire(done) /\ Void(done)
  /\ rbSpawnFails' = IF rbThread[t].reason = "spawn" THEN 0 ELSE rbSpawnFails
  /\ rbLastIdents' = done /\ rbLastAt' = rbThread[t].now
  /\ rbLock' = "nobody" /\ ReleaseEnds(t)
  /\ UNCHANGED <<rbNow, worldVars, rbClean>>

\* A repair that failed: what it did repair is retired, the rest keeps its evidence.
RepairFailed(t) ==
  LET done == rbThread[t].repaired IN
  /\ At(t, "refused")
  /\ rbGen' = [b \in Bases |-> IF b \in done THEN rbGen[b] + 1 ELSE rbGen[b]]
  /\ rbLastIdents' = rbLastIdents \cup done
  /\ IF rbThread[t].reason = "spawn"
       THEN Void(done) /\ rbPre' = [b \in Bases |-> IF b \in done THEN {} ELSE rbPre[b]]
       ELSE RestoreEpisode(t)
  /\ rbLock' = "nobody" /\ ReleaseEnds(t)
  /\ UNCHANGED <<rbNow, worldVars, rbClean, rbSpawnFails, rbLastAt>>

Judge(t) ==
  \/ TakeEpisode(t) \/ CheckCooling(t) \/ CheckUsable(t) \/ CheckStale(t)
  \/ TakeRepairLock(t) \/ DropBases(t) \/ Commit(t) \/ RepairFailed(t)

RebuildNext ==
  \/ ClockTicks \/ DrainRuntimeRepairs \/ SpawnReturns \/ RestoreFails \/ SpawnStreak \/ SpawnScope
  \/ \E b \in Bases : BaseGoesBad(b) \/ RuntimeRepairs(b) \/ \E s \in WarmSlots : SpawnBegins(s, b)
  \/ \E t \in Releasers, s \in WarmSlots :
       ReleaseServed(t, s) \/ \E preGuest \in BOOLEAN : ReleaseFaulted(t, s, preGuest)
  \/ \E t \in Threads : Judge(t)

RebuildSpec == RebuildInit /\ [][RebuildNext]_rebuildVars
-------------------------------------------------------------------------------
(* A base is dropped only on the word of workers that were restored from the    *)
(* very artifact installed at that moment: failures of workers of a retired     *)
(* generation, of the losers of a race for the repair lock, and evidence put    *)
(* back after a failed repair never condemn its replacement.  (A repair the     *)
(* runtime makes by itself is heard of later, and an episode in hand survives.) *)
DropIsEarned ==
  \A t \in Releasers : At(t, "drop") =>
    LET r == rbThread[t] IN r.from \subseteq {rbVer[r.base]} \/ r.base \in rbHealed

===============================================================================
