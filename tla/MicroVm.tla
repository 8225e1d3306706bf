------------------------------ MODULE MicroVm -------------------------------
(***************************************************************************)
(* The Lambda SnapStart worker (host/runtime/aws_worker.py: the calls and   *)
(* verdicts of AwsDisposableRuntime, LambdaMicroVmRuntime and               *)
(* LambdaSnapStartRuntime, and the claim seam of vm_dispatch.py): what the  *)
(* host may conclude about one microVM from an agent probe, a control-plane *)
(* read and a resume call that each may go unanswered, while the microVM    *)
(* suspends when idle, wakes when called, and may break or die.             *)
(*                                                                         *)
(* A verdict is "condemned" (the pool terminates the worker) or "unknown"   *)
(* (the slot is handed back).                                               *)
(***************************************************************************)
EXTENDS Integers

CONSTANTS
    AutoResume,     \* BLASTBOX_LAMBDA_SNAPSTART_AUTO_RESUME: traffic wakes a parked microVM
    VmTroubles      \* "straddle" the microVM changes state within one pass, "lag" the state
                    \* field is a step behind, "notoken" a mint answers without a usable token,
                    \* "parkedmint" a mint for a parked microVM is answered

VARIABLES
    vm,             \* the microVM, as the service really has it
    broken,         \* its agent no longer answers
    token,          \* the slot's proxy token: none, good, or stale (minted while parked)
    mintFailed,     \* a mint went unanswered within the throttle window
    url,            \* the endpoint is known
    live,           \* _live_cache: none, alive, dead or unknown
    pc, evidence, verdict

microVars == <<vm, broken, token, mintFailed, url, live, pc, evidence, verdict>>
cloudVars == <<vm, broken>>
slotVars == <<token, mintFailed, url, live>>

NoEvidence == [silent |-> FALSE, silentWhileUp |-> FALSE, dead |-> FALSE]
AliveStates == {"pending", "running", "suspending", "suspended", "resuming"}
UpStates == {"running"}

MicroInit ==
    /\ vm = "pending" /\ broken = FALSE
    /\ token = "none" /\ mintFailed = FALSE /\ url = FALSE /\ live = "none"
    /\ pc = "idle" /\ evidence = NoEvidence /\ verdict = "none"

(***************************************************************************)
(* The service.                                                             *)
(***************************************************************************)
\* Between a pass's probe and its last call.
MidPass == pc \in {"state", "nudge"}

Changes(next) ==
    /\ verdict # "condemned"
    /\ MidPass => "straddle" \in VmTroubles
    /\ vm' = next
    /\ UNCHANGED <<broken, slotVars, pc, evidence, verdict>>

\* The idle policy parks a microVM nothing talks to.
Parks ==
    \/ vm = "running" /\ pc \in {"idle", "claimed"} /\ Changes("suspending")
    \/ vm = "suspending" /\ Changes("suspended")

Wakes == vm \in {"pending", "resuming"} /\ Changes("running")

Dies ==
    /\ vm # "dead" /\ verdict # "condemned" /\ vm' = "dead"
    /\ UNCHANGED <<broken, slotVars, pc, evidence, verdict>>

Breaks ==
    /\ ~broken /\ verdict # "condemned" /\ broken' = TRUE
    /\ UNCHANGED <<vm, slotVars, pc, evidence, verdict>>

\* _aws: a call is answered, answered "no such resource", or not answered at all: timed out,
\* throttled, not executed, empty or unparseable.
Outcomes == {"unknown"} \cup (IF vm = "dead" THEN {"gone"} ELSE {"ok"})

\* get-microvm's state field, eventually consistent.
Described ==
    {vm} \cup (IF "lag" \in VmTroubles /\ vm \in {"suspending", "suspended"} THEN {"running"} ELSE {})

(***************************************************************************)
(* Liveness checks.                                                         *)
(***************************************************************************)
\* is_alive's verdicts: False only for a state it read, or an answer that the resource is gone.
AliveIn(outcome) ==
    CASE outcome = "ok"      -> IF vm \in AliveStates THEN "alive" ELSE "dead"
      [] outcome = "gone"    -> "dead"
      [] outcome = "unknown" -> "unknown"

Concluded(alive) == verdict' = IF alive = "dead" THEN "condemned" ELSE verdict

\* is_alive, from the pool's tick: a fresh cached verdict, or a read under the probe budget.
Tick ==
    /\ pc = "idle" /\ verdict # "condemned"
    /\ IF live # "none" THEN Concluded(live) /\ UNCHANGED live
       ELSE \E o \in Outcomes : live' = AliveIn(o) /\ Concluded(AliveIn(o))
    /\ UNCHANGED <<cloudVars, token, mintFailed, url, pc, evidence>>

\* The caches and the mint throttle run out.
CacheExpires ==
    /\ live # "none" /\ live' = "none"
    /\ UNCHANGED <<cloudVars, token, mintFailed, url, pc, evidence, verdict>>

MintThrottleEnds ==
    /\ mintFailed /\ mintFailed' = FALSE
    /\ UNCHANGED <<cloudVars, token, url, live, pc, evidence, verdict>>

\* is_alive_for_claim: never a cached verdict.
ClaimProbe ==
    /\ pc = "idle" /\ verdict # "condemned"
    /\ \E o \in Outcomes :
          /\ live' = IF o = "unknown" THEN live ELSE AliveIn(o)
          /\ Concluded(AliveIn(o))
          /\ pc' = IF AliveIn(o) = "alive" THEN "claimed" ELSE "idle"
    /\ UNCHANGED <<cloudVars, token, mintFailed, url, evidence>>

(***************************************************************************)
(* resume, pass by pass.                                                    *)
(***************************************************************************)
\* The prelude: no budget at all, or the endpoint that cannot be read, ends it at once.
ResumeBegins ==
    /\ pc = "claimed"
    /\ \/ pc' = "idle" /\ verdict' = "unknown" /\ UNCHANGED <<token, url, evidence>>
       \/ \E o \in IF url THEN {"ok"} ELSE Outcomes :
             CASE o = "ok"      -> /\ url' = TRUE /\ token' = "none" /\ evidence' = NoEvidence
                                   /\ pc' = "probe" /\ UNCHANGED verdict
               [] o = "unknown" -> pc' = "idle" /\ verdict' = "unknown" /\ UNCHANGED <<token, url, evidence>>
               [] o = "gone"    -> pc' = "idle" /\ verdict' = "condemned" /\ UNCHANGED <<token, url, evidence>>
    /\ UNCHANGED <<cloudVars, mintFailed, live>>

\* _ensure_token / _mint_token: a token minted while the microVM is parked is no good.
Parked == vm \in {"suspending", "suspended"}
Minted == IF Parked THEN "stale" ELSE "good"

\* A held token, a mint suppressed by the throttle, or a mint: for a parked microVM it may
\* be answered or refused, and an answer may carry no usable token.
MintOutcomes ==
    IF token # "none" THEN {"held"} ELSE IF mintFailed THEN {"suppressed"}
    ELSE (IF Parked /\ "parkedmint" \notin VmTroubles THEN {"unknown"} ELSE Outcomes)
         \cup (IF "notoken" \in VmTroubles THEN {"notoken"} ELSE {})

Mint(o, tok) ==
    /\ token' = tok
    /\ mintFailed' = (mintFailed \/ o = "unknown")

\* Traffic wakes a parked microVM.
Touched == IF AutoResume /\ vm = "suspended" THEN "resuming" ELSE vm

AgentAnswers(tok) == vm = "running" /\ ~broken /\ tok = "good"

\* _health_ok in a pass: no token and no probe; the agent answers and the slot is leased; a
\* full-duration probe stays silent; or a probe the budget squeezed, which says nothing.
Probe ==
    /\ pc = "probe"
    /\ \E o \in MintOutcomes :
          IF o \in {"held", "ok"}
          THEN LET tok == IF o = "ok" THEN Minted ELSE token
               IN  /\ Mint(o, tok)
                   /\ vm' = Touched
                   /\ \/ /\ AgentAnswers(tok) /\ pc' = "leased" /\ verdict' = "served"
                         /\ UNCHANGED evidence
                      \/ /\ ~AgentAnswers(tok)
                         /\ evidence' = [evidence EXCEPT !.silent = TRUE]
                         /\ pc' = "state" /\ UNCHANGED verdict
                      \/ /\ evidence' = [evidence EXCEPT !.silent = FALSE]
                         /\ pc' = "state" /\ UNCHANGED verdict
          ELSE /\ Mint(o, token)
               /\ evidence' = [evidence EXCEPT !.silent = FALSE,
                                               !.dead = @ \/ o \in {"gone", "notoken"}]
               /\ pc' = "state"
               /\ UNCHANGED <<vm, verdict>>
    /\ UNCHANGED <<broken, url, live>>

\* Silence convicts only when the state read that follows it in the same pass says "up".
Corroborated(up) == evidence.silent /\ up

\* The state query of the pass.
ReadState ==
    /\ pc = "state"
    /\ \E o \in Outcomes, st \in Described :
          CASE o = "ok" ->
                 /\ evidence' = [evidence EXCEPT !.silentWhileUp = @ \/ Corroborated(st \in UpStates)]
                 /\ pc' = "nudge" /\ UNCHANGED verdict
            [] o = "gone" ->
                 /\ evidence' = [evidence EXCEPT !.dead = TRUE]
                 /\ pc' = "nudge" /\ UNCHANGED verdict
            [] o = "unknown" -> pc' = "nudge" /\ UNCHANGED <<evidence, verdict>>
    /\ UNCHANGED <<cloudVars, slotVars>>

\* A state that says terminating or terminated ends the resume.
ReadDeadState ==
    /\ pc = "state" /\ vm = "dead"
    /\ pc' = "idle" /\ verdict' = "condemned"
    /\ UNCHANGED <<cloudVars, slotVars, evidence>>

\* resume-microvm: only a suspended microVM is resumed (any other is a conflict, no verdict);
\* on success the token of the time before is discarded.
Nudge ==
    /\ pc = "nudge"
    /\ \E o \in Outcomes \cup {"conflict"} :
          /\ o = "conflict" => vm \notin {"suspended", "dead"}
          /\ o = "ok" => vm = "suspended"
          /\ vm' \in CASE vm = "suspended" /\ o = "ok"      -> {"resuming"}
                      [] vm = "suspended" /\ o = "unknown" -> {"suspended", "resuming"}
                      [] OTHER                             -> {vm}
          /\ token' = IF o = "ok" THEN "none" ELSE token
          /\ evidence' = [evidence EXCEPT !.dead = @ \/ o = "gone"]
    /\ pc' = "between"
    /\ UNCHANGED <<broken, mintFailed, url, live, verdict>>

NextPass ==
    /\ pc = "between"
    /\ evidence' = [evidence EXCEPT !.silent = FALSE]
    /\ pc' = "probe"
    /\ UNCHANGED <<cloudVars, slotVars, verdict>>

\* The deadline: positive evidence condemns (_resume_on_claim releases the slot dirty),
\* anything else is unknown and the slot is unclaimed.
Deadline ==
    /\ pc = "between"
    /\ verdict' = IF evidence.dead \/ evidence.silentWhileUp THEN "condemned" ELSE "unknown"
    /\ pc' = "idle"
    /\ UNCHANGED <<cloudVars, slotVars, evidence>>

\* The job is over and the slot goes back.
LeaseEnds ==
    /\ pc = "leased"
    /\ pc' = "idle" /\ verdict' = "none"
    /\ UNCHANGED <<cloudVars, slotVars, evidence>>

MicroNext ==
    \/ Parks \/ Wakes \/ Dies \/ Breaks
    \/ Tick \/ CacheExpires \/ MintThrottleEnds \/ ClaimProbe
    \/ ResumeBegins \/ Probe \/ ReadState \/ ReadDeadState \/ Nudge \/ NextPass \/ Deadline
    \/ LeaseEnds

MicroSpec == MicroInit /\ [][MicroNext]_microVars

(***************************************************************************)
(* Properties.                                                              *)
(***************************************************************************)

\* Only a worker that is gone or whose agent is dead is ever condemned: no run of unanswered
\* calls, squeezed probes, throttled mints, parked states and conflicts adds up to a verdict
\* against a healthy microVM (is_alive, is_alive_for_claim, resume, _resume_on_claim).
HealthyNeverCondemned == verdict = "condemned" => vm = "dead" \/ broken
=============================================================================
