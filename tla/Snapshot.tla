-------------------------------- MODULE Snapshot --------------------------------
(***************************************************************************)
(* SnapshotManager (host/runtime/fc_snapshot.py), which both snapshot      *)
(* runtimes (firecracker and gVisor) keep their warm base in, with the     *)
(* runtime's spawn and reap and the pool's tick around it.                 *)
(*                                                                         *)
(* A base is built by a thread, published under an epoch, and restored     *)
(* from by slots, which map its files for as long as they live: a base     *)
(* that is replaced is retired and unlinked when its last user is gone.  A *)
(* base that grows old is replaced by a refresh, which is staged and only  *)
(* swapped in by the pool's drain, on the thread that stamps and spawns    *)
(* slots.  Everything under _build_lock is one step here; the unlinks,     *)
(* boots and restores happen outside it and are steps of their own.        *)
(***************************************************************************)
EXTENDS Naturals, FiniteSets

CONSTANTS
    SnapSlots,      \* slot ids, used once each
    MaxBuilds,      \* bound: bases built
    MaxBatch,       \* spawns of one pool tick
    MaxSnapFaults,  \* bound
    SnapFaults      \* subset of {"discard", "build", "restore", "kill", "stale", "drop"}

VARIABLES
    files,          \* the bases whose files are on disk
    cur,            \* _artifact: a base, or 0
    age,            \* of cur: "young" | "old" (max_age) | "past" (the ceiling)
    epoch,          \* _build_epoch
    staged,         \* _staged with _staged_for and _staged_epoch, or NoStage
    repaired,       \* _repaired
    reported,       \* _reported_epoch
    refs,           \* base -> restores that hold it
    retired,        \* _retired
    trash,          \* artifacts some thread is about to discard: <<base, why>>
    sweepDue,       \* _sweep_due
    builder,        \* the build thread
    built,          \* bases built so far
    slot,           \* slot -> "none" | "stamped" | "restoring" | "live" | "orphan"
                    \*         | "stale" | "gone"
    uses,           \* slot -> the base it maps
    gen,            \* the pool's generation
    stamp,          \* slot -> the generation the pool stamped it with
    tick,           \* spawns left in the pool's batch, or NoTick
    dropping,       \* the pool's own repair is between drop() and its generation
    snapFaults

baseVars == <<files, cur, age, epoch, staged, repaired, reported, refs, retired, trash,
              sweepDue>>
poolVars == <<gen, stamp, tick, dropping>>
snapVars == <<baseVars, builder, built, slot, uses, poolVars, snapFaults>>

Bases == 1..MaxBuilds
NoStage == [base |-> 0, for |-> 0, epoch |-> 0]
NoTick == MaxBatch + 1
NoBuild == [kind |-> "none", for |-> 0, epoch |-> 0]
Building == builder # NoBuild

SnapInit ==
    /\ files = {} /\ cur = 0 /\ age = "young" /\ epoch = 0 /\ staged = NoStage
    /\ repaired = FALSE /\ reported = 0 /\ refs = [b \in Bases |-> 0]
    /\ retired = {} /\ trash = {} /\ sweepDue = FALSE
    /\ builder = NoBuild /\ built = 0
    /\ slot = [s \in SnapSlots |-> "none"] /\ uses = [s \in SnapSlots |-> 0]
    /\ gen = 0 /\ stamp = [s \in SnapSlots |-> 0] /\ tick = NoTick /\ dropping = FALSE
    /\ snapFaults = 0

Fault(f) == f \in SnapFaults /\ snapFaults < MaxSnapFaults /\ snapFaults' = snapFaults + 1

(* ----- giving up a base ---------------------------------------------------- *)

(* _retire_locked: kept while slots map it, otherwise handed to the caller,   *)
(* who discards it after the lock.                                            *)
KeptForItsUsersNot(b) == FALSE
KeptForItsUsers(b) == refs[b] > 0

(* _invalidate_locked: the epoch rejects the build in flight.  A finished     *)
(* refresh is adopted by the first repair after it was staged and discarded   *)
(* by a second one.                                                           *)
InvalidateLocked ==
    LET convicted == staged # NoStage /\ ~(staged.for # 0 /\ staged.epoch = epoch + 1)
        gone == {b \in {cur} \ {0} : ~KeptForItsUsers(b)}
                  \cup (IF convicted THEN {staged.base} ELSE {})
    IN  /\ epoch' = epoch + 1
        /\ cur' = 0 /\ age' = "young"
        /\ staged' = IF staged = NoStage \/ convicted THEN NoStage
                     ELSE [staged EXCEPT !.for = 0]
        /\ retired' = retired \cup {b \in {cur} \ {0} : KeptForItsUsers(b)}
        /\ trash' = trash \cup {<<b, "collect">> : b \in gone}

(* _collect and _sweep_retired, outside the lock: the backend unlinks the     *)
(* files, or fails and the base stays retired for a later sweep.              *)
Discard(t) ==
    /\ t \in trash /\ trash' = trash \ {t}
    /\ \/ /\ files' = files \ {t[1]}
          /\ retired' = IF t[2] = "sweep" THEN retired \ {t[1]} ELSE retired
          /\ UNCHANGED snapFaults
       \/ /\ Fault("discard")
          /\ retired' = retired \cup {t[1]}
          /\ UNCHANGED files
    /\ UNCHANGED <<cur, age, epoch, staged, repaired, reported, refs, sweepDue, builder,
                   built, slot, uses, poolVars>>

Unmapped == {<<b, "sweep">> : b \in {x \in retired : refs[x] = 0}}

(* release and _unpin: the last user of a retired base takes it out, and a    *)
(* sweep follows.                                                             *)
Unpin(s) ==
    LET b == uses[s]
        last == refs[b] = 1 /\ b \in retired
    IN  /\ refs' = [refs EXCEPT ![b] = @ - 1]
        /\ retired' = IF last THEN retired \ {b} ELSE retired
        /\ trash' = trash \cup Unmapped \cup (IF last THEN {<<b, "collect">>} ELSE {})

(* ----- building ------------------------------------------------------------ *)

StartBuild == builder' = [kind |-> "build", for |-> 0, epoch |-> epoch]
StartRefresh == builder' = [kind |-> "refresh", for |-> cur, epoch |-> epoch]

(* ensure_build_started, from prepare() at every tick: sweep what the drain   *)
(* parked; refresh a base past its age; drop one past the ceiling that no     *)
(* refresh has replaced, and report it; otherwise see that a build runs.      *)
EnsureSweepsNothing ==
    /\ sweepDue /\ sweepDue' = FALSE
    /\ UNCHANGED <<files, cur, age, epoch, staged, repaired, reported, refs, retired, trash,
                   builder, built, slot, uses, poolVars, snapFaults>>
EnsureSweeps ==
    /\ sweepDue /\ sweepDue' = FALSE
    /\ trash' = trash \cup Unmapped
    /\ UNCHANGED <<files, cur, age, epoch, staged, repaired, reported, refs, retired,
                   builder, built, slot, uses, poolVars, snapFaults>>

EnsureRefreshes ==
    /\ tick = NoTick /\ cur # 0 /\ age = "old" /\ staged = NoStage /\ ~Building
    /\ built < MaxBuilds
    /\ StartRefresh
    /\ UNCHANGED <<baseVars, built, slot, uses, poolVars, snapFaults>>

EnsureDrops ==
    /\ tick = NoTick /\ cur # 0 /\ age = "past" /\ staged = NoStage
    /\ InvalidateLocked
    /\ repaired' = TRUE /\ reported' = epoch + 1
    /\ builder' = IF Building \/ built = MaxBuilds THEN builder
                  ELSE [kind |-> "build", for |-> 0, epoch |-> epoch + 1]
    /\ UNCHANGED <<files, refs, sweepDue, built, slot, uses, poolVars, snapFaults>>

(* Reached from prepare() and, mid-batch, from acquire_built().               *)
EnsureBuilds ==
    /\ cur = 0 /\ staged = NoStage /\ ~Building /\ built < MaxBuilds
    /\ StartBuild
    /\ UNCHANGED <<baseVars, built, slot, uses, poolVars, snapFaults>>

(* _build ends: publish, stage, adopt or reject, compared and done under one  *)
(* lock.                                                                      *)
Publish(b) ==
    IF builder.kind = "build"
    THEN IF builder.epoch = epoch
         THEN cur' = b /\ age' = "young" /\ UNCHANGED <<staged, trash>>
         ELSE trash' = trash \cup {<<b, "collect">>} /\ UNCHANGED <<cur, age, staged>>
    ELSE CASE builder.epoch = epoch /\ cur = builder.for ->
                staged' = [base |-> b, for |-> cur, epoch |-> epoch + 1]
                  /\ UNCHANGED <<cur, age, trash>>
           [] cur = 0 /\ epoch = builder.epoch + 1 ->
                staged' = [base |-> b, for |-> 0, epoch |-> epoch]
                  /\ UNCHANGED <<cur, age, trash>>
           [] OTHER ->
                trash' = trash \cup {<<b, "collect">>} /\ UNCHANGED <<cur, age, staged>>

BuildEnds ==
    /\ Building
    /\ builder' = NoBuild
    /\ built' = built + 1
    /\ files' = files \cup {built + 1}
    /\ Publish(built + 1)
    /\ UNCHANGED <<epoch, repaired, reported, refs, retired, sweepDue, slot, uses, poolVars,
                   snapFaults>>

(* The boot or the checkpoint fails; the backoff before the retry is time.    *)
BuildFails ==
    /\ Building /\ Fault("build")
    /\ builder' = NoBuild
    /\ UNCHANGED <<baseVars, built, slot, uses, poolVars>>

BaseAges ==
    /\ cur # 0 /\ age # "past"
    /\ age' = IF age = "young" THEN "old" ELSE "past"
    /\ UNCHANGED <<files, cur, epoch, staged, repaired, reported, refs, retired, trash,
                   sweepDue, builder, built, slot, uses, poolVars, snapFaults>>

(* ----- the pool's tick ----------------------------------------------------- *)

(* take_repaired through the pool's drain: a staged refresh is swapped in and *)
(* reported, except the adopted swap of a drop that was reported already.     *)
TakeRepaired ==
    LET adopted == staged # NoStage /\ staged.for = 0
        fits == staged # NoStage /\ cur = staged.for
                  /\ staged.epoch = (IF adopted THEN epoch ELSE epoch + 1)
        told == repaired \/ (fits /\ ~(adopted /\ staged.epoch = reported))
        old == IF fits THEN cur ELSE staged.base
    IN  /\ repaired' = FALSE
        /\ gen' = IF told THEN gen + 1 ELSE gen
        /\ staged' = NoStage
        /\ IF fits THEN cur' = staged.base /\ age' = "young" /\ epoch' = staged.epoch
           ELSE UNCHANGED <<cur, age, epoch>>
        /\ IF staged = NoStage \/ (fits /\ adopted)
           THEN UNCHANGED <<retired, sweepDue>>
           ELSE retired' = retired \cup {old} /\ sweepDue' = TRUE

(* The drain is skipped while the pool's own repair is under way.             *)
TickBegins ==
    /\ tick = NoTick /\ ~dropping
    /\ TakeRepaired
    /\ tick' = MaxBatch
    /\ UNCHANGED <<files, reported, refs, trash, builder, built, slot, uses, stamp, dropping,
                   snapFaults>>

(* One spawn of the batch.  The stamp is the generation read just before      *)
(* runtime.spawn();                                                           *)
SpawnStamps(s) ==
    /\ tick \in 1..MaxBatch /\ slot[s] = "none"
    /\ \A t \in SnapSlots : slot[t] \notin {"stamped", "restoring", "stale"}
    /\ tick' = tick - 1
    /\ slot' = [slot EXCEPT ![s] = "stamped"]
    /\ stamp' = [stamp EXCEPT ![s] = gen]
    /\ UNCHANGED <<baseVars, builder, built, uses, gen, dropping, snapFaults>>

(* restore() takes the base and pins it under the lock;                       *)
SpawnPins(s) ==
    /\ slot[s] = "stamped" /\ cur # 0
    /\ slot' = [slot EXCEPT ![s] = "restoring"] /\ uses' = [uses EXCEPT ![s] = cur]
    /\ refs' = [refs EXCEPT ![cur] = @ + 1]
    /\ UNCHANGED <<files, cur, age, epoch, staged, repaired, reported, retired, trash,
                   sweepDue, builder, built, poolVars, snapFaults>>

(* with no base, acquire_built sees that one is building and raises, and the  *)
(* batch goes on to its next spawn.                                           *)
SpawnUnbuilt(s) ==
    /\ slot[s] = "stamped" /\ cur = 0
    /\ slot' = [slot EXCEPT ![s] = "none"] /\ stamp' = [stamp EXCEPT ![s] = 0]
    /\ UNCHANGED <<baseVars, builder, built, uses, gen, tick, dropping, snapFaults>>

TickEnds ==
    /\ tick # NoTick
    /\ tick = 0 \/ \A s \in SnapSlots : slot[s] # "none"
    /\ \A s \in SnapSlots : slot[s] \notin {"stamped", "restoring", "stale"}
    /\ tick' = NoTick
    /\ UNCHANGED <<baseVars, builder, built, slot, uses, gen, stamp, dropping, snapFaults>>

(* restore_in returns a live slot,                                            *)
RestoreReturns(s) ==
    /\ slot[s] = "restoring"
    /\ slot' = [slot EXCEPT ![s] = "live"]
    /\ UNCHANGED <<baseVars, builder, built, uses, poolVars, snapFaults>>

(* fails with nothing left running, and the pin is given back,                *)
RestoreFails(s) ==
    /\ slot[s] = "restoring" /\ Fault("restore")
    /\ Unpin(s)
    /\ slot' = [slot EXCEPT ![s] = "gone"]
    /\ UNCHANGED <<files, cur, age, epoch, staged, repaired, reported, sweepDue, builder,
                   built, uses, poolVars>>

(* fails without being able to say its process is gone, and keeps the pin,    *)
RestoreOrphans(s) ==
    /\ slot[s] = "restoring" /\ Fault("kill")
    /\ slot' = [slot EXCEPT ![s] = "orphan"]
    /\ UNCHANGED <<baseVars, builder, built, uses, poolVars>>

(* or finds the rootfs changed under the base: the pin is given back and,     *)
(* unless the base was replaced meanwhile, the base is dropped and the drop   *)
(* reported in the same hold.                                                 *)
RestoreFindsStale(s) ==
    /\ slot[s] = "restoring" /\ Fault("stale")
    /\ Unpin(s)
    /\ slot' = [slot EXCEPT ![s] = "stale"]
    /\ UNCHANGED <<files, cur, age, epoch, staged, repaired, reported, sweepDue, builder,
                   built, uses, poolVars>>

StaleDrops(s) ==
    /\ slot[s] = "stale"
    /\ slot' = [slot EXCEPT ![s] = "gone"]
    /\ IF cur = uses[s]
       THEN InvalidateLocked /\ repaired' = TRUE /\ reported' = epoch + 1
       ELSE UNCHANGED <<epoch, cur, age, repaired, reported, staged, retired, trash>>
    /\ UNCHANGED <<files, refs, sweepDue, builder, built, uses, poolVars, snapFaults>>

(* _release_held_restores: the orphan's process is seen to be gone.           *)
OrphanReclaimed(s) ==
    /\ slot[s] = "orphan"
    /\ slot' = [slot EXCEPT ![s] = "gone"]
    /\ Unpin(s)
    /\ UNCHANGED <<files, cur, age, epoch, staged, repaired, reported, sweepDue, builder,
                   built, uses, poolVars, snapFaults>>

(* reap: kill, then release; a slot whose process may still run is kept with  *)
(* its pin and reaped again.                                                  *)
Reap(s) ==
    /\ slot[s] = "live"
    /\ \/ /\ slot' = [slot EXCEPT ![s] = "gone"]
          /\ Unpin(s)
          /\ UNCHANGED snapFaults
       \/ Fault("kill") /\ UNCHANGED <<slot, refs, retired, trash>>
    /\ UNCHANGED <<files, cur, age, epoch, staged, repaired, reported, sweepDue, builder,
                   built, uses, poolVars>>

(* The pool's own repair, on a releasing thread: invalidate_base, which       *)
(* subsumes a drop not yet reported, and then the generation.                 *)
PoolDrops ==
    /\ ~dropping /\ Fault("drop")
    /\ InvalidateLocked
    /\ repaired' = FALSE /\ reported' = epoch + 1
    /\ dropping' = TRUE
    /\ UNCHANGED <<files, refs, sweepDue, builder, built, slot, uses, gen, stamp, tick>>

PoolAdvances ==
    /\ dropping /\ dropping' = FALSE
    /\ gen' = gen + 1
    /\ UNCHANGED <<baseVars, builder, built, slot, uses, stamp, tick, snapFaults>>

Tick ==
    \/ TickBegins \/ TickEnds
    \/ \E s \in SnapSlots : SpawnStamps(s) \/ SpawnPins(s) \/ SpawnUnbuilt(s)
                              \/ RestoreReturns(s) \/ StaleDrops(s)
Ensure == EnsureSweeps \/ EnsureRefreshes \/ EnsureDrops \/ EnsureBuilds
Background ==
    \/ BuildEnds \/ PoolAdvances
    \/ \E t \in trash : Discard(t)
    \/ \E s \in SnapSlots : OrphanReclaimed(s)

SnapNext ==
    \/ Tick \/ Ensure \/ Background \/ BuildFails \/ BaseAges \/ PoolDrops
    \/ \E s \in SnapSlots :
          RestoreFails(s) \/ RestoreOrphans(s) \/ RestoreFindsStale(s) \/ Reap(s)

SnapSpec == SnapInit /\ [][SnapNext]_snapVars
SnapFairness == WF_snapVars(Tick) /\ WF_snapVars(Ensure) /\ WF_snapVars(Background)

(* ----- properties ---------------------------------------------------------- *)

(* No base is unlinked while a process that maps it lives, whichever of the   *)
(* drops, swaps, sweeps and releases are under way; and none is forgotten:    *)
(* one on disk is serving, staged, retired or about to be discarded.          *)
MappedIsKept ==
    \A s \in SnapSlots : slot[s] \in {"restoring", "live", "orphan"} => uses[s] \in files
NoneForgotten ==
    files \subseteq {cur, staged.base} \cup retired \cup {t[1] : t \in trash}
GenerationsHeld == MappedIsKept /\ NoneForgotten

(* The pool's stamp tells bases apart: two slots of one generation were       *)
(* restored from the same base, so a failure is charged to the base it        *)
(* happened on.                                                               *)
StampNamesItsBase ==
    \A s, t \in SnapSlots :
        uses[s] # 0 /\ uses[t] # 0 /\ stamp[s] = stamp[t] => uses[s] = uses[t]

(* A tier without a base gets one again, whatever was dropped, adopted or     *)
(* rejected meanwhile; and a base that was swapped out and parked is swept,   *)
(* on an idle pool too.                                                       *)
HasBaseOrGaveUp == cur # 0 \/ built = MaxBuilds
SweptOrUsed(b) == b \notin files \/ refs[b] > 0 \/ b \in {cur, staged.base} \/ snapFaults > 0
=================================================================================
