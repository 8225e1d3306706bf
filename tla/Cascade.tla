-------------------------------- MODULE Cascade --------------------------------
(* The cascading runtime: a worker is spawned on the first tier that has room,  *)
(* and every tier keeps a count of its workers that must stay exact although    *)
(* spawns, reaps and their failures overlap.  A tier whose control plane gave   *)
(* no verdict at startup is deferred and admitted later by a background thread, *)
(* which a shutdown may stop between any two of its steps; a tier admitted late *)
(* owes a sweep of the workers an earlier process left behind.                  *)
(* Tiers are numbered by their position in BLASTBOX_POOL_TIERS.                 *)
EXTENDS Integers, Sequences, FiniteSets

CONSTANTS
  NTiers,        \* tiers configured
  Undecided,     \* tiers without a verdict when the process starts
  Capacity,      \* the capacity of every tier
  SpawnThreads,  \* threads that call spawn
  CSlots,        \* identities of workers
  RebuildAfter,  \* tier_rebuild_after
  MaxFails,      \* bound on a tier's count of failures
  MaxCloses      \* bound on the number of shutdowns

Tiers == 1..NTiers
NoTier == 0

VARIABLES
  tiers,      \* tiers: the admitted ones, in order of admission
  counts,     \* _counts
  fails,      \* _tier_failures
  guilty,     \* _recently_guilty, _job_guilty and _repaired_this_episode
  owner,      \* _owner
  backend,    \* the workers that exist, by tier
  sp,         \* the spawning threads
  reaps,      \* how far the reap of a slot is
  deferred,   \* _deferred
  owed,       \* _sweep_owed
  adm,        \* the admission thread
  closing,    \* _admit_closing
  closes,     \* history: shutdowns so far
  verdict     \* history: tiers swept, and tiers dropped by a verdict

cascVars == <<tiers, counts, fails, guilty, owner, backend, sp, reaps,
              deferred, owed, adm, closing, closes, verdict>>
admVars == <<deferred, owed, adm, closing, closes, verdict>>
useVars == <<counts, fails, guilty, owner, backend, sp, reaps>>

NoAdm == [pc |-> "idle", todo |-> {}, pending |-> {}, still |-> {}, cur |-> NoTier]
IdleSpawn == [pc |-> "idle", i |-> 0, slot |-> 0, streak |-> 0]

Admitted == {tiers[i] : i \in DOMAIN tiers}

\* build_cascade_runtime: the tiers with a verdict, in the order configured.
CascInit ==
  /\ tiers \in [1..Cardinality(Tiers \ Undecided) -> Tiers \ Undecided]
  /\ \A i, j \in DOMAIN tiers : i < j => tiers[i] < tiers[j]
  /\ counts = [i \in Tiers |-> 0]
  /\ fails = [i \in Tiers |-> 0]
  /\ guilty = [recent |-> {}, job |-> {}, repaired |-> {}]
  /\ owner = [s \in CSlots |-> NoTier]
  /\ backend = [s \in CSlots |-> NoTier]
  /\ sp = [x \in SpawnThreads |-> IdleSpawn]
  /\ reaps = [s \in CSlots |-> "no"]
  /\ deferred = Undecided /\ owed = {} /\ adm = NoAdm
  /\ closing = FALSE /\ closes = 0
  /\ verdict = [swept |-> {}, dropped |-> {}]

-------------------------------------------------------------------------------
\* spawn

T(x) == tiers[sp[x].i]
SAt(x, p) == sp[x].pc = p
NextTier(x) == sp' = [sp EXCEPT ![x].pc = "try", ![x].i = @ + 1]
FreeSlots == {s \in CSlots : owner[s] = NoTier /\ backend[s] = NoTier /\ reaps[s] = "no"
                             /\ \A x \in SpawnThreads : sp[x].slot # s}

\* spawn also polls the admission: AdmitBegins may follow at any time.
SpawnBegins(x) ==
  /\ SAt(x, "idle")
  /\ sp' = [sp EXCEPT ![x] = [IdleSpawn EXCEPT !.pc = "try", !.i = 1]]
  /\ UNCHANGED <<tiers, counts, fails, guilty, owner, backend, reaps, admVars>>

\* A tier that is full or not prepared is passed over; the room is taken before
\* the backend is called.
TryTier(x) ==
  /\ SAt(x, "try")
  /\ IF sp[x].i > Len(tiers)
       THEN sp' = [sp EXCEPT ![x] = IdleSpawn] /\ UNCHANGED counts
       ELSE \/ NextTier(x) /\ UNCHANGED counts
            \/ /\ counts[T(x)] < Capacity[T(x)]
               /\ counts' = [counts EXCEPT ![T(x)] = @ + 1]
               /\ sp' = [sp EXCEPT ![x].pc = "call"]
  /\ UNCHANGED <<tiers, fails, guilty, owner, backend, reaps, admVars>>

\* The backend's spawn: a worker, a refusal that says nothing about the tier
\* (at capacity, or a resource of this host), or a failure of the tier.
SpawnSucceeds(x) ==
  /\ SAt(x, "call")
  /\ \E s \in FreeSlots :
       /\ backend' = [backend EXCEPT ![s] = T(x)]
       /\ sp' = [sp EXCEPT ![x].pc = "own", ![x].slot = s]
  /\ UNCHANGED <<tiers, counts, fails, guilty, owner, reaps, admVars>>

SpawnRefused(x) ==
  /\ SAt(x, "call")
  /\ counts' = [counts EXCEPT ![T(x)] = @ - 1]
  /\ NextTier(x)
  /\ UNCHANGED <<tiers, fails, guilty, owner, backend, reaps, admVars>>

\* After RebuildAfter failures in a row the base of the tier is invalidated.
SpawnFails(x) ==
  LET streak == fails[T(x)] + 1 IN
  /\ SAt(x, "call") /\ streak <= MaxFails
  /\ counts' = [counts EXCEPT ![T(x)] = @ - 1]
  /\ IF RebuildAfter > 0 /\ streak >= RebuildAfter
       THEN /\ fails' = [fails EXCEPT ![T(x)] = 0]
            /\ sp' = [sp EXCEPT ![x].pc = "repair", ![x].streak = streak]
       ELSE /\ fails' = [fails EXCEPT ![T(x)] = streak]
            /\ NextTier(x)
  /\ UNCHANGED <<tiers, guilty, owner, backend, reaps, admVars>>

\* _maybe_repair_tier: the streak is back if the invalidation failed.
Repair(x) ==
  /\ SAt(x, "repair")
  /\ \/ /\ guilty' = [guilty EXCEPT !.repaired = @ \cup {T(x)}]
        /\ UNCHANGED fails
     \/ /\ fails' = [fails EXCEPT ![T(x)] = IF @ > sp[x].streak THEN @ ELSE sp[x].streak]
        /\ UNCHANGED guilty
  /\ sp' = [sp EXCEPT ![x].pc = "try", ![x].i = @ + 1, ![x].streak = 0]
  /\ UNCHANGED <<tiers, counts, owner, backend, reaps, admVars>>

SpawnOwns(x) ==
  /\ SAt(x, "own")
  /\ owner' = [owner EXCEPT ![sp[x].slot] = T(x)]
  /\ fails' = [fails EXCEPT ![T(x)] = 0]
  /\ guilty' = [guilty EXCEPT !.recent = @ \ {T(x)}]
  /\ sp' = [sp EXCEPT ![x] = IdleSpawn]
  /\ UNCHANGED <<tiers, counts, backend, reaps, admVars>>

-------------------------------------------------------------------------------
\* reap, of a slot the pool disposes of; a reap that raises is tried again.

ReapBegins(s) ==
  /\ owner[s] # NoTier /\ reaps[s] = "no"
  /\ reaps' = [reaps EXCEPT ![s] = "call"]
  /\ UNCHANGED <<tiers, counts, fails, guilty, owner, backend, sp, admVars>>

\* Seeded fault: the room is given back although the reap failed.
ReapCallsOnce(s) ==
  /\ reaps[s] = "call"
  /\ reaps' = [reaps EXCEPT ![s] = "forget"]
  /\ \/ backend' = [backend EXCEPT ![s] = NoTier]
     \/ UNCHANGED backend
  /\ UNCHANGED <<tiers, counts, fails, guilty, owner, sp, admVars>>

ReapCalls(s) ==
  /\ reaps[s] = "call"
  /\ \/ /\ backend' = [backend EXCEPT ![s] = NoTier]
        /\ reaps' = [reaps EXCEPT ![s] = "forget"]
     \/ reaps' = [reaps EXCEPT ![s] = "no"] /\ UNCHANGED backend
  /\ UNCHANGED <<tiers, counts, fails, guilty, owner, sp, admVars>>

ReapForgets(s) ==
  /\ reaps[s] = "forget"
  /\ counts' = [counts EXCEPT ![owner[s]] = IF @ > 0 THEN @ - 1 ELSE 0]
  /\ owner' = [owner EXCEPT ![s] = NoTier]
  /\ reaps' = [reaps EXCEPT ![s] = "no"]
  /\ UNCHANGED <<tiers, fails, guilty, backend, sp, admVars>>

-------------------------------------------------------------------------------
\* Blame and repair

\* blame_tier_for_slot: a job blames the base its worker came from.
Blame(s) ==
  /\ owner[s] # NoTier /\ fails[owner[s]] < MaxFails
  /\ fails' = [fails EXCEPT ![owner[s]] = @ + 1]
  /\ guilty' = [guilty EXCEPT !.recent = @ \cup {owner[s]}, !.job = @ \cup {owner[s]}]
  /\ UNCHANGED <<tiers, counts, owner, backend, sp, reaps, admVars>>

ClearJobGuilt ==
  /\ guilty.job # {}
  /\ guilty' = [guilty EXCEPT !.job = {}]
  /\ UNCHANGED <<tiers, counts, fails, owner, backend, sp, reaps, admVars>>

\* The tiers invalidate_base(reason) turns to: the ones a job blamed; for a
\* reason of spawning those that fail, or nothing when this episode has already
\* repaired some; all of them when nobody is known to be guilty.
Targets(spawning) ==
  LET suspects == {i \in Admitted : fails[i] > 0} \cup guilty.recent IN
  CASE ~spawning /\ guilty.job # {} -> guilty.job
    [] spawning /\ suspects # {} -> suspects
    [] spawning /\ suspects = {} /\ guilty.repaired # {} -> {}
    [] OTHER -> Admitted

\* done: the tiers whose invalidation succeeded.
InvalidateBase(spawning) ==
  /\ \E done \in SUBSET Targets(spawning) :
       /\ fails' = [i \in Tiers |-> IF i \in done THEN 0 ELSE fails[i]]
       /\ guilty' = [recent |-> {}, job |-> guilty.job \ done, repaired |-> {}]
  /\ UNCHANGED <<tiers, counts, owner, backend, sp, reaps, admVars>>

-------------------------------------------------------------------------------
\* Admission of the deferred tiers

AAt(p) == adm.pc = p
AGo(p) == adm' = [adm EXCEPT !.pc = p]

\* _admit_deferred_async, called by spawn and poll when admit_retry_s have passed.
AdmitBegins ==
  /\ ~closing /\ AAt("idle")
  /\ deferred # {} \/ owed # {}
  /\ adm' = [NoAdm EXCEPT !.pc = "owed", !.pending = deferred]
  /\ UNCHANGED <<tiers, useVars, deferred, owed, closing, closes, verdict>>

\* _run_owed_sweeps takes the list, and puts back what it did not get done.
TakeOwed ==
  /\ AAt("owed")
  /\ IF closing THEN adm' = NoAdm /\ UNCHANGED owed
     ELSE /\ adm' = [adm EXCEPT !.pc = "sweeps", !.todo = owed]
          /\ owed' = {}
  /\ UNCHANGED <<tiers, useVars, deferred, closing, closes, verdict>>

\* Before each sweep the latch is read again; what is left is handed back.
RunOwed ==
  /\ AAt("sweeps")
  /\ CASE adm.todo = {} ->
            adm' = (IF closing THEN NoAdm ELSE [adm EXCEPT !.pc = "next"]) /\ UNCHANGED owed
       [] adm.todo # {} /\ closing ->
            adm' = NoAdm /\ owed' = owed \cup adm.todo
       [] OTHER ->
            UNCHANGED owed /\ \E d \in adm.todo : adm' = [adm EXCEPT !.pc = "owing", !.cur = d]
  /\ UNCHANGED <<tiers, useVars, deferred, closing, closes, verdict>>

\* The sweep of adm.cur, which a shutdown does not interrupt; one that fails is owed.
SweepCur ==
  \/ verdict' = [verdict EXCEPT !.swept = @ \cup {adm.cur}] /\ UNCHANGED owed
  \/ owed' = owed \cup {adm.cur} /\ UNCHANGED verdict

OwedSwept ==
  /\ AAt("owing")
  /\ SweepCur
  /\ adm' = [adm EXCEPT !.pc = "sweeps", !.todo = @ \ {adm.cur}]
  /\ UNCHANGED <<tiers, useVars, deferred, closing, closes>>

\* _admit_probe: the next deferred tier, until a shutdown begins.
ProbeNext ==
  /\ AAt("next")
  /\ CASE adm.pending = {} -> AGo("finish")
       [] adm.pending # {} /\ closing ->
            adm' = [adm EXCEPT !.pc = "finish", !.still = @ \cup adm.pending, !.pending = {}]
       [] OTHER -> \E d \in adm.pending :
            adm' = [adm EXCEPT !.pc = "build", !.cur = d, !.pending = @ \ {d}]
  /\ UNCHANGED <<tiers, useVars, deferred, owed, closing, closes, verdict>>

\* The tier is built: still no verdict, a verdict against it, or a runtime.
ProbeBuilds ==
  /\ AAt("build")
  /\ \/ adm' = [adm EXCEPT !.pc = "next", !.still = @ \cup {adm.cur}] /\ UNCHANGED verdict
     \/ /\ verdict' = [verdict EXCEPT !.dropped = @ \cup {adm.cur}]
        /\ AGo("next")
     \/ AGo("admit") /\ UNCHANGED verdict
  /\ UNCHANGED <<tiers, useVars, deferred, owed, closing, closes>>

\* It is admitted unless its transport does not match or a shutdown has begun.
ProbeAdmits ==
  /\ AAt("admit")
  /\ \/ /\ adm.cur \notin Admitted
        /\ verdict' = [verdict EXCEPT !.dropped = @ \cup {adm.cur}]
        /\ AGo("next") /\ UNCHANGED tiers
     \/ /\ closing
        /\ adm' = [adm EXCEPT !.pc = "finish", !.pending = {},
                              !.still = @ \cup {adm.cur} \cup adm.pending]
        /\ UNCHANGED <<tiers, verdict>>
     \/ /\ ~closing
        /\ tiers' = Append(tiers, adm.cur)
        /\ AGo("sweep")
        /\ UNCHANGED verdict
  /\ UNCHANGED <<useVars, deferred, owed, closing, closes>>

\* The latch is read once more: the tier's leftovers are swept now, or owed.
ProbeSweeps ==
  /\ AAt("sweep")
  /\ IF closing THEN owed' = owed \cup {adm.cur} /\ AGo("next")
                ELSE AGo("sweeping") /\ UNCHANGED owed
  /\ UNCHANGED <<tiers, useVars, deferred, closing, closes, verdict>>

LateSwept ==
  /\ AAt("sweeping")
  /\ SweepCur
  /\ AGo("next")
  /\ UNCHANGED <<tiers, useVars, deferred, closing, closes>>

ProbeEnds ==
  /\ AAt("finish")
  /\ deferred' = adm.still \ Admitted
  /\ adm' = NoAdm
  /\ UNCHANGED <<tiers, useVars, owed, closing, closes, verdict>>

\* begin_close, close (which waits for the thread, but not for ever) and reopen.
BeginClose ==
  /\ ~closing /\ closes < MaxCloses
  /\ closing' = TRUE /\ closes' = closes + 1
  /\ UNCHANGED <<tiers, useVars, deferred, owed, adm, verdict>>

Reopen ==
  /\ closing
  /\ closing' = FALSE
  /\ UNCHANGED <<tiers, useVars, deferred, owed, adm, closes, verdict>>

-------------------------------------------------------------------------------
AdmitStep == TakeOwed \/ RunOwed \/ OwedSwept \/ ProbeNext \/ ProbeBuilds \/ ProbeAdmits
             \/ ProbeSweeps \/ LateSwept \/ ProbeEnds

SpawnStep(x) == TryTier(x) \/ SpawnSucceeds(x) \/ SpawnRefused(x) \/ SpawnFails(x)
                \/ Repair(x) \/ SpawnOwns(x)

CascNext ==
  \/ \E x \in SpawnThreads : SpawnBegins(x) \/ SpawnStep(x)
  \/ \E s \in CSlots : ReapBegins(s) \/ ReapCalls(s) \/ ReapForgets(s) \/ Blame(s)
  \/ ClearJobGuilt \/ \E b \in BOOLEAN : InvalidateBase(b)
  \/ AdmitBegins \/ AdmitStep \/ BeginClose \/ Reopen

CascSpec == CascInit /\ [][CascNext]_cascVars

\* The pool polls again and again and the thread goes on; a sweep that is tried
\* for ever succeeds at last.
AdmitDecides == AdmitStep /\ verdict' # verdict
CascFairness ==
  /\ WF_cascVars(AdmitBegins) /\ WF_cascVars(AdmitStep)
  /\ SF_cascVars(AdmitDecides)

-------------------------------------------------------------------------------
\* Properties

\* A tier never has more workers than its capacity, and the room it accounts for
\* is exactly the workers it owns and the spawns under way: failures of spawn and
\* reap neither leak room nor give it out twice.  (spawn 773-837, reap 1252-1276)
TierRoomExact ==
  \A i \in Tiers :
    /\ Cardinality({s \in CSlots : backend[s] = i}) <= Capacity[i]
    /\ counts[i] = Cardinality({s \in CSlots : owner[s] = i}) +
         Cardinality({x \in SpawnThreads : sp[x].pc \in {"call", "own"} /\ T(x) = i})

\* A tier that had no verdict is never lost, and one that was admitted late never
\* escapes its sweep, whenever a shutdown cuts in: it waits, or the admission
\* thread has it in hand; and none is admitted twice.  (_admit_probe 594-720, _run_owed_sweeps 497-531)
TierAccountedFor ==
  /\ Cardinality(Admitted) = Len(tiers)
  /\ \A d \in Undecided :
    \/ d \in verdict.dropped
    \/ d \in Admitted /\ (d \in verdict.swept \cup owed \cup adm.todo
                          \/ (adm.pc \in {"sweep", "sweeping"} /\ adm.cur = d))
    \/ d \notin Admitted /\ d \in deferred

\* If the pool stays open, every deferred tier gets its verdict and every late
\* tier its sweep.
DecidedOrClosing(d) == closing \/ d \in verdict.swept \cup verdict.dropped
===============================================================================
