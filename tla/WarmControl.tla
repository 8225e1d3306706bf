---------------------------- MODULE WarmControl ----------------------------
(***************************************************************************)
(* The warm worker protocol: one job handed to a parked guest over a       *)
(* control directory ("file") or over vsock ("vsock"), and the question    *)
(* the host has to answer when that goes wrong: was it the worker, and had *)
(* the guest started at all?  A guest that never started ("pre_guest")     *)
(* convicts the snapshot it was restored from after a few such slots, so   *)
(* the answer rests on evidence: an image that speaks the ack protocol     *)
(* says so when it is READY, and a guest of such an image says START       *)
(* before it runs a job or refuses the job.  AckCapability ties that       *)
(* evidence to the published snapshot through its build epoch.             *)
(***************************************************************************)
EXTENDS Naturals, FiniteSets

CONSTANTS WarmSlots,     \* slots restored from the published snapshot
          Seam,          \* "file" (gVisor) or "vsock" (firecracker)
          MaxEpoch,      \* invalidations the model allows
          MaxAttempts    \* builds attempted

VARIABLES epoch,      \* SnapshotManager._build_epoch
          base,       \* the published artifact: "none", "silent" or "speaks"
          build,      \* the base being built
          attempts,   \* builds attempted so far
          ack,        \* AckCapability: [epoch, capable, pending]
          full,       \* the host's disk is full: control writes fail
          slot        \* WarmSlots -> one slot's guest and its host control

warmVars == <<epoch, base, build, attempts, ack, full, slot>>

Images == {"silent", "speaks"}
NoBuild == [phase |-> "none", epoch |-> 0, image |-> "silent"]

\* A slot between two uses.
Free == [guest |-> "none", pin |-> 0, image |-> "silent", go |-> FALSE, started |-> FALSE,
         done |-> "no", output |-> "none", host |-> "free", told |-> "unknown",
         late |-> FALSE, charge |-> "none"]

WarmInit == /\ epoch = 0 /\ base = "none" /\ build = NoBuild /\ attempts = 0 /\ full = FALSE
            /\ ack = [epoch |-> <<"none", 0>>, capable |-> FALSE, pending |-> {}]
            /\ slot = [s \in WarmSlots |-> Free]

-----------------------------------------------------------------------------
(* AckCapability (worker/warm.py), scoped to the published artifact.       *)

\* capable_for(): the artifact of this epoch is the published one and it advertised.
CapableFor(e) == ack.capable /\ ack.epoch = <<"at", e>>

\* learn(): a live slot acked; an epoch that is no longer published teaches nothing.
Learn(e) == IF ack.epoch = <<"at", e>> THEN [ack EXCEPT !.capable = TRUE] ELSE ack

\* publish(): the flag becomes what THIS artifact advertised.
PublishAck(e) == [epoch |-> <<"at", e>>, capable |-> e \in ack.pending, pending |-> {}]

-----------------------------------------------------------------------------
(* The manager's builds, as far as the capability can tell them apart.     *)

\* begin_build() and boot_base(): attempts may share an epoch, so the last
\* attempt's observation is forgotten; the image is whatever is deployed now.
ForgetPending == [ack EXCEPT !.pending = {}]

BeginBuild(i) ==
  /\ build.phase = "none" /\ base = "none" /\ attempts < MaxAttempts
  /\ build' = [phase |-> "booting", epoch |-> epoch, image |-> i]
  /\ attempts' = attempts + 1 /\ ack' = ForgetPending
  /\ UNCHANGED <<epoch, base, full, slot>>

\* The base's READY reaches the host: "ack" in it is observed, not yet believed.
BaseReady ==
  /\ build.phase = "booting"
  /\ build' = [build EXCEPT !.phase = "ready"]
  /\ ack' = IF build.image = "speaks"
            THEN [ack EXCEPT !.pending = @ \cup {build.epoch}] ELSE ack
  /\ UNCHANGED <<epoch, base, attempts, full, slot>>

\* READY never comes, or the checkpoint fails.
BuildFails ==
  /\ build.phase # "none" /\ build' = NoBuild
  /\ UNCHANGED <<epoch, base, attempts, ack, full, slot>>

\* The artifact becomes live, unless an invalidation landed while it was built.
PublishBase ==
  /\ build.phase = "ready" /\ build' = NoBuild
  /\ IF build.epoch = epoch
     THEN base' = build.image /\ ack' = PublishAck(epoch)
     ELSE UNCHANGED <<base, ack>>
  /\ UNCHANGED <<epoch, attempts, full, slot>>

\* invalidate(): retires the artifact, bumps the epoch; also during a build.
Invalidate ==
  /\ epoch < MaxEpoch /\ (base # "none" \/ build.phase # "none")
  /\ epoch' = epoch + 1 /\ base' = "none"
  /\ UNCHANGED <<build, attempts, ack, full, slot>>

\* The disk that holds the control directories fills up and stays full.
DiskFills == /\ Seam = "file" /\ ~full /\ full' = TRUE
             /\ UNCHANGED <<epoch, base, build, attempts, ack, slot>>

-----------------------------------------------------------------------------
(* The guest: serve_warm() with FileWarmControl or VsockWarmControl.       *)

Is(s, r) == slot' = [slot EXCEPT ![s] = r]
Quiet == UNCHANGED <<epoch, base, build, attempts, full>>

\* spawn(): restored blocked in wait_for_go, pinned to the artifact's epoch.
Spawn(s) ==
  /\ slot[s].host = "free" /\ base # "none"
  /\ Is(s, [Free EXCEPT !.guest = "wait", !.pin = epoch, !.image = base, !.host = "sent"])
  /\ Quiet /\ UNCHANGED ack

\* What the guest leaves behind with signal_done(): a control file, unless the
\* disk is full; a frame on the connection, which then closes.
Leaves(r, status) ==
  IF Seam = "file" THEN IF full THEN r.done ELSE status
  ELSE IF status = "ok" THEN "ok" ELSE "closed"

\* wait_for_go() gives up: no job within the idle timeout.
GuestIdles(s) ==
  /\ slot[s].guest = "wait" /\ ~slot[s].go
  /\ Is(s, [slot[s] EXCEPT !.guest = "gone", !.done = Leaves(slot[s], "idle_timeout")])
  /\ Quiet /\ UNCHANGED ack

\* wait_for_go() sees the job.
GuestTakes(s) ==
  /\ slot[s].guest = "wait" /\ slot[s].go
  /\ Is(s, [slot[s] EXCEPT !.guest = "took"])
  /\ Quiet /\ UNCHANGED ack

\* The START: written to the control directory or sent on the connection before
\* any work; an image of the older protocol says nothing.  A guest that cannot
\* say it refuses the job.
CannotSay(s) == IF Seam = "file" THEN full ELSE slot[s].host = "judged"

GuestStarts(s) ==
  LET r == slot[s] IN
  /\ r.guest = "took"
  /\ Is(s, IF r.image = "silent" THEN [r EXCEPT !.guest = "run"]
           ELSE IF CannotSay(s)
           THEN [r EXCEPT !.guest = IF r.host = "judged" THEN "gone" ELSE "refused",
                          !.done = Leaves(r, "idle_timeout")]
           ELSE [r EXCEPT !.guest = "run", !.started = TRUE])
  /\ Quiet /\ UNCHANGED ack

\* run_detonation() returned: metadata.json is in place (or the engine died on
\* the document and it is not); then signal_done("ok").
GuestEnds(s, o) ==
  LET r == [slot[s] EXCEPT !.output = o] IN
  /\ slot[s].guest = "run" /\ o \in {"part", "whole"}
  /\ Is(s, [r EXCEPT !.guest = "ended", !.done = Leaves(r, "ok")])
  /\ Quiet /\ UNCHANGED ack

\* The guest is killed or panics; only a connection shows it.
GuestDies(s) ==
  /\ slot[s].guest \in {"wait", "took", "run"}
  /\ Is(s, [slot[s] EXCEPT !.guest = "gone",
                           !.done = IF Seam = "vsock" THEN "closed" ELSE @])
  /\ Quiet /\ UNCHANGED ack

-----------------------------------------------------------------------------
(* The host: dispatch._dispatch_warm with HostWarmControl or               *)
(* VsockHostWarmControl.                                                   *)

\* warm_fault_stage(): a worker fault of a guest proven not to have started.
Stage(r) == IF r.told = "no" THEN "pre_guest" ELSE "worker"

Judged(r, c) == [r EXCEPT !.host = "judged",
                          !.charge = IF c = "worker" THEN Stage(r) ELSE c]

\* signal_go(): writes go.json, or connects and sends; a full disk is the
\* host's fault, an unreachable guest the worker's.
SignalGo(s) ==
  LET r == slot[s] IN
  /\ r.host = "sent" /\ ~r.go
  /\ Is(s, IF Seam = "file" /\ full THEN Judged(r, "host")
           ELSE IF Seam = "vsock" /\ r.guest # "wait" THEN Judged(r, "worker")
           ELSE [r EXCEPT !.go = TRUE])
  /\ Quiet /\ UNCHANGED ack

\* wait_for_done() begins: a start is expected only of a capable artifact.
WaitForDone(s) ==
  LET r == slot[s] IN
  /\ r.host = "sent" /\ r.go
  /\ Is(s, [r EXCEPT !.host = "look", !.told = IF CapableFor(r.pin) THEN "no" ELSE @])
  /\ Quiet /\ UNCHANGED ack

\* The poll of the file seam, first half: the started marker.
LookForStart(s) ==
  LET r == slot[s] IN
  /\ Seam = "file" /\ r.host = "look"
  /\ Is(s, [r EXCEPT !.host = "read", !.told = IF r.started THEN "yes" ELSE @])
  /\ ack' = IF r.started /\ r.told # "yes" THEN Learn(r.pin) ELSE ack
  /\ Quiet

\* Second half: the done file; and at the deadline the control directory is
\* probed, so that a disk the guest could not write to is not held against it.
AtDeadline(r) == IF r.told = "no" /\ full THEN Judged([r EXCEPT !.told = "unknown"], "host")
                 ELSE Judged(r, "worker")

ReadDone(s) ==
  LET r == slot[s] IN
  /\ Seam = "file" /\ r.host = "read"
  /\ \/ r.done # "no" /\ Is(s, [r EXCEPT !.host = "told"])
     \/ r.done = "no" /\ Is(s, [r EXCEPT !.host = "look"])
     \/ r.done = "no" /\ Is(s, AtDeadline([r EXCEPT !.late = TRUE]))
  /\ Quiet /\ UNCHANGED ack

\* The vsock seam blocks on a frame: the ACK first if there is one, and then the
\* status, a connection that closed, or the deadline.
FrameArrived(r) == r.done = "ok" \/ (r.started /\ r.told # "yes")

FrameIsStart(r) == r.started /\ r.told # "yes"

HearFrame(s) ==
  LET r == slot[s] IN
  /\ Seam = "vsock" /\ r.host = "look" /\ FrameArrived(r)
  /\ IF FrameIsStart(r)
     THEN Is(s, [r EXCEPT !.told = "yes"]) /\ ack' = Learn(r.pin)
     ELSE Is(s, [r EXCEPT !.host = "told"]) /\ ack' = ack
  /\ Quiet

HearNothing(s) ==
  LET r == slot[s] IN
  /\ Seam = "vsock" /\ r.host = "look"
  /\ \/ r.done = "closed" /\ ~FrameArrived(r) /\ Is(s, Judged(r, "worker"))
     \/ r.done # "ok" /\ ~FrameArrived(r) /\ Is(s, Judged([r EXCEPT !.late = TRUE], "worker"))
  /\ Quiet /\ UNCHANGED ack

\* The status is discarded; the output itself decides.  The claim may be lost or
\* the upload fail after that, which is not the worker's fault.
JudgeOutput(s) ==
  LET r == slot[s] IN
  /\ r.host = "told"
  /\ IF r.output = "whole" THEN \E c \in {"clean", "job"} : Is(s, Judged(r, c))
     ELSE Is(s, Judged(r, "worker"))
  /\ Quiet /\ UNCHANGED ack

\* release(): the pool disposes of the used slot, its guest with it.
ReleaseSlot(s) ==
  /\ slot[s].host = "judged" /\ Is(s, Free)
  /\ Quiet /\ UNCHANGED ack

WarmNext ==
  \/ \E i \in Images : BeginBuild(i)
  \/ BaseReady \/ BuildFails \/ PublishBase \/ Invalidate \/ DiskFills
  \/ \E s \in WarmSlots :
       \/ Spawn(s) \/ GuestIdles(s) \/ GuestTakes(s) \/ GuestStarts(s)
       \/ \E o \in {"part", "whole"} : GuestEnds(s, o)
       \/ GuestDies(s) \/ SignalGo(s) \/ WaitForDone(s) \/ LookForStart(s) \/ ReadDone(s)
       \/ HearFrame(s) \/ HearNothing(s) \/ JudgeOutput(s) \/ ReleaseSlot(s)

WarmSpec == WarmInit /\ [][WarmNext]_warmVars

-----------------------------------------------------------------------------
(***************************************************************************)
(* Only evidence convicts a base: a slot is charged as one whose guest     *)
(* never started only when the image it was restored from speaks the ack   *)
(* protocol -- through failed builds that share an epoch, invalidations,   *)
(* replacements by an older image and acks of retired slots -- and never   *)
(* when the guest refused the job because the host's own disk was full;    *)
(* and a worker is charged only when its output was not whole or it was    *)
(* late.                                                                   *)
(***************************************************************************)
ConvictsOnEvidence ==
  \A s \in WarmSlots :
    /\ slot[s].charge = "pre_guest" => /\ slot[s].image = "speaks"
                                       /\ (Seam = "file" => slot[s].guest # "refused")
    /\ slot[s].charge \in {"worker", "pre_guest"} => slot[s].output # "whole" \/ slot[s].late

=============================================================================
