----------------------------- MODULE GuestGate ------------------------------
(***************************************************************************)
(* The check of a guest rootfs before it is booted (host/rootfs_stamp.py    *)
(* GuestGate and RootfsPin, and their use in runtime/firecracker.py and     *)
(* fc_snapshot_launcher.py): a file is judged by its stamp, the verdict is  *)
(* cached by the file's identity, and the VM opens the path by name later,  *)
(* while `build-images` republishes or rolls back what the name stands for. *)
(*                                                                         *)
(* A VM is cold-booted from the rootfs, or restored from a base that was    *)
(* checkpointed over it.  An identity is a file and its modification.       *)
(***************************************************************************)
EXTENDS Integers

CONSTANTS
    Images,         \* the rootfs files there are
    FirstImage,     \* the one published at first
    Drifted,        \* images whose stamp does not match this host
    ColdSlots,      \* VMs booted from the rootfs
    WarmSlots,      \* VMs restored from the base
    MaxPublishes, MaxRewrites

Absent == 0         \* the name is free for a moment while it is republished
Builder == "base"
Checkers == ColdSlots \cup {Builder}
Vms == Checkers \cup WarmSlots
NoId == <<0, 0>>

VARIABLES
    path,           \* the image the rootfs path names
    edits,          \* per image: its modification, and with it what it contains
    cache,          \* GuestGate: the identity checked last, its problem, and whether for good
    vm,             \* per VM: where it is, the identity it is bound to, the image it opened
    base,           \* the checkpointed base: RootfsPin's key, the identity the guest really had
    publishes

gateVars == <<path, edits, cache, vm, base, publishes>>

NoVm == [pc |-> "none", key |-> NoId, held |-> NoId, found |-> "none", opened |-> 0, ran |-> NoId,
         doubt |-> FALSE]
NoBase == [key |-> NoId, ran |-> NoId, doubt |-> FALSE]

GateInit ==
    /\ path = FirstImage
    /\ edits = [i \in Images |-> 0]
    /\ cache = [key |-> NoId, problem |-> FALSE, sure |-> TRUE]
    /\ vm = [v \in Vms |-> NoVm]
    /\ base = NoBase
    /\ publishes = 0

\* What the image's stamp says of it: an edit may turn a good image into a drifted one.
Drift(id) == id[1] \in Drifted \/ id[2] > 0
Identity(i) == IF i = Absent THEN NoId ELSE <<i, edits[i]>>    \* file_identity

(***************************************************************************)
(* The publisher (imagerun.py): a swap, through an absent name or not, to   *)
(* another image or back; or a rewrite in place.                            *)
(***************************************************************************)
Publish(i) ==
    /\ publishes < MaxPublishes /\ i # path
    /\ path' = i /\ publishes' = publishes + 1
    /\ UNCHANGED <<edits, cache, vm, base>>

Rewrite(i) ==
    /\ edits[i] < MaxRewrites
    /\ edits' = [edits EXCEPT ![i] = @ + 1]
    /\ UNCHANGED <<path, cache, vm, base, publishes>>

(***************************************************************************)
(* GuestGate.checked.                                                       *)
(***************************************************************************)
Stands(v, pc) == vm[v].pc = pc
Move(v, rec) == vm' = [vm EXCEPT ![v] = rec]

\* The identity of the name; a missing file is not booted, and a cached verdict for this
\* identity is used while it stands.
Stat(v) ==
    /\ v \in Checkers /\ Stands(v, "none") /\ path # Absent
    /\ LET key == Identity(path)
       IN  IF key = cache.key
           THEN \/ Move(v, IF cache.problem THEN [NoVm EXCEPT !.pc = "refused"]
                           ELSE [NoVm EXCEPT !.pc = "passed", !.key = key, !.doubt = ~cache.sure])
                \/ ~cache.sure /\ Move(v, [NoVm EXCEPT !.pc = "open", !.key = key])
           ELSE Move(v, [NoVm EXCEPT !.pc = "open", !.key = key])
    /\ UNCHANGED <<path, edits, cache, base, publishes>>

\* The file is opened and everything after this is read through the descriptor.
Open(v) ==
    /\ Stands(v, "open")
    /\ Move(v, IF path = Absent THEN [NoVm EXCEPT !.pc = "refused"]
               ELSE [vm[v] EXCEPT !.pc = "judge", !.held = Identity(path)])
    /\ UNCHANGED <<path, edits, cache, base, publishes>>

\* guest_verdict: a drifted stamp is a problem; one that cannot be read now is no problem, but
\* not a verdict for good either.
Judge(v) ==
    /\ Stands(v, "judge")
    /\ \E found \in {"undecided", IF Drift(Identity(vm[v].held[1])) THEN "drift" ELSE "good"} :
          Move(v, [vm[v] EXCEPT !.pc = "settle", !.found = found])
    /\ UNCHANGED <<path, edits, cache, base, publishes>>

\* The verdict is kept only if the name, the descriptor and the file agree before and after;
\* a check of another file than the one named at first is refused.
SameThroughout(v) ==
    LET c == vm[v]
    IN  c.held = c.key /\ Identity(c.held[1]) = c.key /\ Identity(path) = c.key

Settle(v) ==
    LET c == vm[v]
    IN  /\ Stands(v, "settle")
        /\ cache' = IF SameThroughout(v)
                    THEN [key |-> c.key, problem |-> c.found = "drift", sure |-> c.found # "undecided"]
                    ELSE cache
        /\ Move(v, IF (~SameThroughout(v) /\ c.held # c.key) \/ c.found = "drift"
                   THEN [NoVm EXCEPT !.pc = "refused"]
                   ELSE [NoVm EXCEPT !.pc = "passed", !.key = c.key, !.doubt = c.found = "undecided"])
        /\ UNCHANGED <<path, edits, base, publishes>>

(***************************************************************************)
(* FirecrackerRuntime.spawn and is_ready; the base build.                   *)
(***************************************************************************)
\* The VM process is started; before_boot looks at the name once more for a base.
Start(v) ==
    /\ v \in Checkers /\ Stands(v, "passed")
    /\ Move(v, IF v = Builder /\ Identity(path) # vm[v].key THEN [NoVm EXCEPT !.pc = "refused"]
               ELSE [vm[v] EXCEPT !.pc = "started"])
    /\ UNCHANGED <<path, edits, cache, base, publishes>>

\* The VM opens the path by name, whatever it stands for by now.
OpenDrive(v) ==
    /\ Stands(v, "started") /\ path # Absent
    /\ Move(v, [vm[v] EXCEPT !.pc = "booting", !.opened = path])
    /\ UNCHANGED <<path, edits, cache, base, publishes>>

\* opened_matches: the file the process holds open, by inode, size and mtime.
OpenedMatches(v) == Identity(vm[v].opened) = vm[v].key

\* is_ready: a slot not ready yet is killed if the name or the drive changed; a ready one is
\* promoted only on the drive that was checked.
NotReadyYet(v) ==
    /\ v \in ColdSlots
    /\ \/ Stands(v, "started") /\ Identity(path) # vm[v].key
       \/ Stands(v, "booting") /\ ~OpenedMatches(v)
    /\ Move(v, [NoVm EXCEPT !.pc = "killed"])
    /\ UNCHANGED <<path, edits, cache, base, publishes>>

Promote(v) ==
    /\ v \in ColdSlots /\ Stands(v, "booting") /\ OpenedMatches(v)
    /\ Move(v, [vm[v] EXCEPT !.pc = "ready", !.ran = Identity(vm[v].opened)])
    /\ UNCHANGED <<path, edits, cache, base, publishes>>

\* _PinnedBoot.checkpoint: not over another file than the one checked; the base is recorded
\* with its key.
Checkpoint ==
    /\ Stands(Builder, "booting")
    /\ IF OpenedMatches(Builder)
       THEN base' = [key |-> vm[Builder].key, ran |-> Identity(vm[Builder].opened),
                     doubt |-> vm[Builder].doubt]
       ELSE UNCHANGED base
    /\ Move(Builder, NoVm)
    /\ UNCHANGED <<path, edits, cache, publishes>>

(***************************************************************************)
(* Restores.                                                                *)
(***************************************************************************)
\* check_restore: the name still stands for the identity the base was taken over.
RestoreBegins(v) ==
    /\ v \in WarmSlots /\ Stands(v, "none") /\ base.key # NoId
    /\ Move(v, IF Identity(path) # base.key THEN [NoVm EXCEPT !.pc = "stale"]
               ELSE [NoVm EXCEPT !.pc = "started", !.key = base.key, !.doubt = base.doubt,
                                 !.held = base.ran])
    /\ UNCHANGED <<path, edits, cache, base, publishes>>

\* check_opened, once the restored VM has its drives.
RestoreEnds(v) ==
    /\ v \in WarmSlots /\ Stands(v, "booting")
    /\ Move(v, IF OpenedMatches(v) THEN [vm[v] EXCEPT !.pc = "ready", !.ran = Identity(vm[v].opened)]
               ELSE [NoVm EXCEPT !.pc = "stale"])
    /\ UNCHANGED <<path, edits, cache, base, publishes>>

\* The slot is reaped and spawned anew.
Reap(v) ==
    /\ vm[v].pc \in {"ready", "refused", "killed", "stale"}
    /\ Move(v, NoVm)
    /\ UNCHANGED <<path, edits, cache, base, publishes>>

GateNext ==
    \/ \E i \in Images \cup {Absent} : Publish(i)
    \/ \E i \in Images : Rewrite(i)
    \/ \E v \in Vms :
          \/ Stat(v) \/ Open(v) \/ Judge(v) \/ Settle(v) \/ Start(v) \/ OpenDrive(v)
          \/ NotReadyYet(v) \/ Promote(v) \/ RestoreBegins(v) \/ RestoreEnds(v) \/ Reap(v)
    \/ Checkpoint

GateSpec == GateInit /\ [][GateNext]_gateVars

(***************************************************************************)
(* Properties.                                                              *)
(***************************************************************************)

\* A VM that serves runs a rootfs that passed the check, and a restored one runs the very
\* rootfs its memory image was taken over, however often the name is republished, rolled back
\* or its file rewritten between the check, the boot, the checkpoint and the restore: a drifted
\* guest serves only where its stamp could not be read (GuestGate.checked, is_ready, RootfsPin).
ServesTheCheckedRootfs ==
    \A v \in Vms : Stands(v, "ready") =>
        /\ Drift(vm[v].ran) => vm[v].doubt
        /\ v \in WarmSlots => vm[v].ran = vm[v].held
=============================================================================
