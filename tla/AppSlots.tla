-------------------------------- MODULE AppSlots --------------------------------
(***************************************************************************)
(* The App Sandbox slots of a macOS worker (worker/sandbox/appsandbox.py): *)
(* runs of several agents, `blastbox macos prepare`, and the locks, the    *)
(* retirement marker and the manifest that keep them apart.                *)
(*                                                                         *)
(* A slot belongs to a root, but the container a run writes in belongs to  *)
(* its bundle id, which two roots prepared with one prefix share.  What a  *)
(* run leaves (a process, files) is swept and wiped before and after it;   *)
(* a worker that dies leaves it to the next run.  One slot per root.       *)
(***************************************************************************)
EXTENDS Naturals, FiniteSets

CONSTANTS
    Roots,          \* sandbox roots, one slot each
    AppAgents,      \* agents
    RootOf,         \* agent -> root
    PreparerOf,     \* root -> the name of its prepare process
    Bundles,        \* bundle ids a prepare may be given: numbers, in lock order
    FirstBundle,    \* root -> the bundle id it was first prepared with
    MaxPrepares,    \* bound
    MaxSlotFaults,  \* bound
    SlotFaults      \* subset of {"crash", "wipe", "build"}

Preparers == {PreparerOf[r] : r \in Roots}
None == "nobody"

VARIABLES
    slotLock, prepLock,     \* root -> holder
    bundleLock,             \* bundle id -> holder
    retired,                \* roots whose slot has the .retired marker
    manifest,               \* root -> [gen, bundle]; gen 0 is the preparing marker
    onDisk,                 \* root -> bundle id signed into the slot, 0 when removed
    procs,                  \* bundle id -> agents whose child lives in its container
    files,                  \* bundle id -> agents whose files its container holds
    io,                     \* root -> agents whose files the slot's io/ holds
    loaded,                 \* agent -> the manifest it loaded
    goal,                   \* root -> the bundle id its prepare is for
    pc, prepares, slotFaults

locks == <<slotLock, prepLock, bundleLock>>
disk == <<retired, manifest, onDisk, procs, files, io>>
appVars == <<locks, disk, loaded, goal, pc, prepares, slotFaults>>

AppInit ==
    /\ slotLock = [r \in Roots |-> None] /\ prepLock = [r \in Roots |-> None]
    /\ bundleLock = [b \in Bundles |-> None]
    /\ retired = {}
    /\ manifest = [r \in Roots |-> [gen |-> 1, bundle |-> FirstBundle[r]]]
    /\ onDisk = FirstBundle
    /\ procs = [b \in Bundles |-> {}] /\ files = [b \in Bundles |-> {}]
    /\ io = [r \in Roots |-> {}]
    /\ loaded = [a \in AppAgents |-> [gen |-> 1, bundle |-> FirstBundle[RootOf[a]]]]
    /\ pc = [x \in AppAgents \cup Preparers |-> "idle"]
    /\ goal = [r \in Roots |-> 0] /\ prepares = 0 /\ slotFaults = 0

Fault(f) == f \in SlotFaults /\ slotFaults < MaxSlotFaults /\ slotFaults' = slotFaults + 1
Goes(x, to) == pc' = [pc EXCEPT ![x] = to]
BundleOf(a) == loaded[a].bundle
Without(f, x) == [k \in DOMAIN f |-> IF f[k] = x THEN None ELSE f[k]]
UnlocksAll(x) ==
    slotLock' = Without(slotLock, x) /\ prepLock' = Without(prepLock, x)
      /\ bundleLock' = Without(bundleLock, x)

(* ----- a run --------------------------------------------------------------- *)

(* _acquire_slot: the marker is looked at, and then the slot's lock is tried, *)
(* and the bundle's, which gives the slot's back when it is busy.             *)
Picks(a) ==
    /\ pc[a] = "idle" /\ RootOf[a] \notin retired
    /\ Goes(a, "picked")
    /\ UNCHANGED <<locks, disk, loaded, goal, prepares, slotFaults>>

LocksSlot(a) ==
    LET r == RootOf[a] IN
    /\ pc[a] = "picked"
    /\ IF slotLock[r] = None
       THEN slotLock' = [slotLock EXCEPT ![r] = a] /\ Goes(a, "slot")
       ELSE Goes(a, "idle") /\ UNCHANGED slotLock
    /\ UNCHANGED <<prepLock, bundleLock, disk, loaded, goal, prepares, slotFaults>>

LocksBundle(a) ==
    LET b == BundleOf(a) IN
    /\ pc[a] = "slot"
    /\ IF bundleLock[b] = None
       THEN bundleLock' = [bundleLock EXCEPT ![b] = a] /\ Goes(a, "locked") /\ UNCHANGED slotLock
       ELSE slotLock' = Without(slotLock, a) /\ Goes(a, "idle") /\ UNCHANGED bundleLock
    /\ UNCHANGED <<prepLock, disk, loaded, goal, prepares, slotFaults>>

(* _check_manifest_current, under the locks: an agent whose manifest was      *)
(* replaced refuses every run until it is restarted.                          *)
Current(a) == manifest[RootOf[a]] = loaded[a]
ChecksManifest(a) ==
    /\ pc[a] = "locked"
    /\ IF Current(a)
       THEN Goes(a, "before") /\ UNCHANGED locks
       ELSE Goes(a, "stale") /\ UnlocksAll(a)
    /\ UNCHANGED <<disk, loaded, goal, prepares, slotFaults>>

(* _wipe_slot, before and after the child: kill what is left in the           *)
(* container, empty it and io/, or retire the slot.                           *)
Emptied(r, bs) ==
    /\ procs' = [b \in Bundles |-> IF b \in bs THEN {} ELSE procs[b]]
    /\ files' = [b \in Bundles |-> IF b \in bs THEN {} ELSE files[b]]
    /\ io' = [io EXCEPT ![r] = {}]

Wipes(a) ==
    /\ pc[a] \in {"before", "after"}
    /\ \/ /\ Emptied(RootOf[a], {BundleOf(a)})
          /\ IF pc[a] = "before" THEN Goes(a, "wiped") /\ UNCHANGED locks
             ELSE Goes(a, "idle") /\ UnlocksAll(a)
          /\ UNCHANGED <<retired, slotFaults>>
       \/ /\ Fault("wipe")
          /\ retired' = retired \cup {RootOf[a]}
          /\ Goes(a, "idle") /\ UnlocksAll(a)
          /\ UNCHANGED <<procs, files, io>>
    /\ UNCHANGED <<manifest, onDisk, loaded, goal, prepares>>

Launches(a) ==
    /\ pc[a] = "wiped"
    /\ procs' = [procs EXCEPT ![BundleOf(a)] = @ \cup {a}]
    /\ files' = [files EXCEPT ![BundleOf(a)] = @ \cup {a}]
    /\ io' = [io EXCEPT ![RootOf[a]] = @ \cup {a}]
    /\ Goes(a, "running")
    /\ UNCHANGED <<locks, retired, manifest, onDisk, loaded, goal, prepares, slotFaults>>

(* The child ends, or leaves a process of its own behind.                     *)
ChildEnds(a) ==
    /\ pc[a] = "running"
    /\ \/ procs' = [procs EXCEPT ![BundleOf(a)] = @ \ {a}]
       \/ UNCHANGED procs
    /\ Goes(a, "after")
    /\ UNCHANGED <<locks, retired, manifest, onDisk, files, io, loaded, goal, prepares, slotFaults>>

(* The agent dies: its locks go with it, its child and files stay.            *)
AgentDies(a) ==
    /\ pc[a] \notin {"idle", "stale"} /\ Fault("crash")
    /\ UnlocksAll(a) /\ Goes(a, "stale")
    /\ UNCHANGED <<disk, loaded, goal, prepares>>

(* __init__: a manifest that is not being prepared, whose slot's signature    *)
(* and bundle id are the ones it names.                                       *)
AgentRestarts(a) ==
    /\ pc[a] = "stale"
    /\ manifest[RootOf[a]].gen # 0 /\ onDisk[RootOf[a]] = manifest[RootOf[a]].bundle
    /\ loaded' = [loaded EXCEPT ![a] = manifest[RootOf[a]]]
    /\ Goes(a, "idle")
    /\ UNCHANGED <<locks, disk, goal, prepares, slotFaults>>

(* ----- prepare ------------------------------------------------------------- *)

(* One prepare at a time per root, then the slot's lock, waited for.          *)
PrepareLocks(r) ==
    LET p == PreparerOf[r] IN
    \/ /\ pc[p] = "idle" /\ prepares < MaxPrepares /\ prepLock[r] = None
       /\ prepares' = prepares + 1
       /\ \E b \in Bundles : goal' = [goal EXCEPT ![r] = b]
       /\ prepLock' = [prepLock EXCEPT ![r] = p] /\ Goes(p, "prep")
       /\ UNCHANGED <<slotLock, bundleLock, disk, loaded, slotFaults>>
    \/ /\ pc[p] = "prep" /\ slotLock[r] = None
       /\ slotLock' = [slotLock EXCEPT ![r] = p] /\ Goes(p, "slots")
       /\ UNCHANGED <<prepLock, bundleLock, disk, loaded, goal, prepares, slotFaults>>

(* The ids whose containers it will sweep: what the manifest and the signed   *)
(* bundle say the slot was, and what it will be; locked in sorted order.      *)
Ids(r) == {goal[r], manifest[r].bundle, onDisk[r]} \ {0}
PrepareLocksBundles(r) ==
    LET p == PreparerOf[r]
        need == {i \in Ids(r) : bundleLock[i] # p} IN
    /\ pc[p] = "slots"
    /\ IF need = {}
       THEN Goes(p, "bundles") /\ UNCHANGED bundleLock
       ELSE \E i \in need :
               /\ \A j \in need : i <= j
               /\ bundleLock[i] = None
               /\ bundleLock' = [bundleLock EXCEPT ![i] = p]
               /\ UNCHANGED pc
    /\ UNCHANGED <<slotLock, prepLock, disk, loaded, goal, prepares, slotFaults>>

(* _sweep_previous_slots over every one of them.                              *)
PrepareSweeps(r) ==
    /\ pc[PreparerOf[r]] = "bundles"
    /\ Emptied(r, {goal[r], manifest[r].bundle, onDisk[r]})
    /\ Goes(PreparerOf[r], "swept")
    /\ UNCHANGED <<locks, retired, manifest, onDisk, loaded, goal, prepares, slotFaults>>

(* _prepare_locked: behind the preparing marker the bundle is removed and     *)
(* built and its retirement cleared, and the manifest is written last.        *)
PrepareBuilds(r) ==
    LET p == PreparerOf[r] IN
    \/ /\ pc[p] = "swept" /\ Goes(p, "marked")
       /\ manifest' = [manifest EXCEPT ![r] = [gen |-> 0, bundle |-> 0]]
       /\ UNCHANGED <<locks, onDisk, retired>>
    \/ /\ pc[p] = "marked" /\ Goes(p, "removed")
       /\ onDisk' = [onDisk EXCEPT ![r] = 0] /\ retired' = retired \ {r}
       /\ UNCHANGED <<locks, manifest>>
    \/ /\ pc[p] = "removed" /\ Goes(p, "built")
       /\ onDisk' = [onDisk EXCEPT ![r] = goal[r]]
       /\ UNCHANGED <<locks, manifest, retired>>
    \/ /\ pc[p] = "built" /\ Goes(p, "idle") /\ UnlocksAll(p)
       /\ manifest' = [manifest EXCEPT ![r] = [gen |-> prepares + 1, bundle |-> goal[r]]]
       /\ UNCHANGED <<onDisk, retired>>
PrepareSteps(r) ==
    PrepareBuilds(r) /\ UNCHANGED <<procs, files, io, loaded, goal, prepares, slotFaults>>

(* It gives up waiting for a lock, or a step of it fails, or it is killed.    *)
PrepareEnds(r) ==
    LET p == PreparerOf[r] IN
    /\ pc[p] # "idle"
    /\ \/ pc[p] \in {"prep", "slots"} /\ UNCHANGED slotFaults
       \/ Fault("build")
    /\ UnlocksAll(p) /\ Goes(p, "idle")
    /\ UNCHANGED <<disk, loaded, goal, prepares>>

AppNext ==
    \/ \E a \in AppAgents :
          \/ Picks(a) \/ LocksSlot(a) \/ LocksBundle(a) \/ ChecksManifest(a) \/ Wipes(a)
          \/ Launches(a) \/ ChildEnds(a) \/ AgentDies(a) \/ AgentRestarts(a)
    \/ \E r \in Roots :
          \/ PrepareLocks(r) \/ PrepareLocksBundles(r) \/ PrepareSweeps(r) \/ PrepareSteps(r)
          \/ PrepareEnds(r)

AppSpec == AppInit /\ [][AppNext]_appVars

(* ----- properties ---------------------------------------------------------- *)

(* A run has its container and its io/ to itself from its launch to its end:  *)
(* nothing of another run is in them, no other run's or prepare's sweep kills *)
(* its child, and the slot it runs in is the one its agent verified.          *)
RunsAlone ==
    \A a \in AppAgents : pc[a] = "running" =>
        /\ procs[BundleOf(a)] = {a}
        /\ files[BundleOf(a)] = {a}
        /\ io[RootOf[a]] = {a}
        /\ Current(a) /\ onDisk[RootOf[a]] = BundleOf(a)
=================================================================================
