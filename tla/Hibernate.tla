------------------------------- MODULE Hibernate -------------------------------
(* The hibernating EC2 tier: a slot is an instance that is parked by            *)
(* stop-instances --hibernate once its agent is up, and started again when a    *)
(* job claims it.  Ec2HibernateRuntime learns everything through an API that    *)
(* may refuse, time out after it has acted, or answer from before the last      *)
(* change, and several threads share its tables: the pool's upkeep (is_ready,   *)
(* maintain_idle), a claim (is_alive_for_claim, resume) and a reap.             *)
(* One slot is modelled: the runtime's tables are keyed by slot.                *)
(* The instance and its API are modelled from how the code uses them.           *)
EXTENDS Integers

CONSTANTS
  Timeout,      \* hibernate_timeout_s, in ticks
  CallTime,     \* how long one call may take, in ticks
  CacheTime,    \* _liveness_cache_s, in ticks: how old a description may be, how
                \* long "running" is not believed after an accepted stop, and how
                \* long no other stop is sent
  Lag,          \* how long a description may say "running" after a stop was executed
  MaxTime       \* bound on the clock

VARIABLES
  vm,           \* the instance: its state, its agent, and whose stop it obeys
  desc,         \* _desc_cache
  park,         \* the park tables' entries for the slot
  asked,        \* _hib_attempt: when a stop was last sent or its call returned
  gone,         \* the slot is in _reaped_ids
  slot,         \* what the pool makes of the slot
  up,           \* the upkeep thread
  cl,           \* the claiming thread
  rp,           \* the reaping thread
  hnow,         \* the clock
  charged,      \* history: ticks of the park clock in which AWS was
                \* not known to be silent, or a step it answered was under way
  verdicts      \* history: how the slot's stop requests ended

hibVars == <<vm, desc, park, asked, gone, slot, up, cl, rp, hnow, charged, verdicts>>

Never == -1

\* phase, _hib_started, _park_since, _park_unknown_since, _park_credit,
\* _park_attempted and _park_refused.
NoPark == [phase |-> "warming", hib |-> Never, since |-> Never, unknown |-> Never,
           credit |-> 0, attempted |-> FALSE, refused |-> FALSE]
NoDesc == [st |-> "none", at |-> Never]
Resting == [pc |-> "idle", st |-> "none", t |-> 0, out |-> "none"]

HibInit ==
  /\ vm = [st |-> "running", agent |-> FALSE, ours |-> FALSE, at |-> Never]
  /\ desc = NoDesc /\ park = NoPark /\ asked = Never /\ gone = FALSE
  /\ slot = "warming"
  /\ up = Resting /\ cl = "idle" /\ rp = "idle"
  /\ hnow = 0 /\ charged = 0 /\ verdicts = {}

Later(x, y) == IF x > y THEN x ELSE y
Sooner(x, y) == IF x < y THEN x ELSE y
Dead == {"terminated"}

-------------------------------------------------------------------------------
\* The instance and its API

\* What describe-instances may say: for a while after a stop was executed it may
\* still say running.
Described == {vm.st} \cup (IF vm.ours /\ hnow - vm.at < Lag THEN {"running"} ELSE {})

\* A stop that AWS executes, within its call.
Stopped == [vm EXCEPT !.st = "stopping", !.ours = TRUE, !.at = hnow]

AgentComesUp ==
  /\ vm.st = "running" /\ ~vm.agent
  /\ vm' = [vm EXCEPT !.agent = TRUE]
  /\ UNCHANGED <<desc, park, asked, gone, slot, up, cl, rp, hnow, charged, verdicts>>

\* The agent answers until the guest is frozen to be saved.
GuestFreezes ==
  /\ vm.st = "stopping" /\ vm.agent
  /\ vm' = [vm EXCEPT !.agent = FALSE]
  /\ UNCHANGED <<desc, park, asked, gone, slot, up, cl, rp, hnow, charged, verdicts>>

StopCompletes ==
  /\ vm.st = "stopping"
  /\ vm' = [vm EXCEPT !.st = "stopped", !.agent = FALSE]
  /\ UNCHANGED <<desc, park, asked, gone, slot, up, cl, rp, hnow, charged, verdicts>>

\* The instance stops by itself: nothing is saved.
StopsByItself ==
  /\ vm.st = "running"
  /\ vm' = [vm EXCEPT !.st = "stopped", !.agent = FALSE]
  /\ UNCHANGED <<desc, park, asked, gone, slot, up, cl, rp, hnow, charged, verdicts>>

\* A call takes at most CallTime.
Tick ==
  /\ hnow < MaxTime
  /\ up.pc # "idle" => hnow - up.t < CallTime
  /\ hnow' = hnow + 1
  /\ charged' = IF park.since # Never /\ (park.unknown = Never \/ up.pc # "idle")
                THEN charged + 1 ELSE charged
  /\ UNCHANGED <<vm, desc, park, asked, gone, slot, up, cl, rp, verdicts>>

-------------------------------------------------------------------------------
\* The park clock.  Every operator maps the slot's tables to their new value;
\* all of them run under _park_lock and only for a slot that is not reaped.

\* _freeze_park: AWS stopped answering at t.
Freeze(p, t, att) ==
  [p EXCEPT !.unknown = IF @ = Never THEN t ELSE @, !.attempted = @ \/ att]

\* _thaw_park_locked: AWS answers again; the silence is credited, and an attempt
\* that had no answer starts the clock where the silence began.
Thaw(p, t) ==
  LET since == IF p.attempted /\ p.since = Never THEN p.unknown ELSE p.since
      q == [p EXCEPT !.unknown = Never, !.since = since]
  IN  CASE p.unknown = Never -> p
        [] p.unknown # Never /\ since = Never -> q
        [] OTHER -> [q EXCEPT !.credit = @ + Later(0, t - Later(p.unknown, since))]

\* The time charged to the attempt, as _park_expired computes it: at most one
\* Timeout of silence is credited.
Accounted(p, t) ==
  LET silent == IF p.unknown = Never THEN 0 ELSE Later(0, t - p.unknown)
  IN  t - p.since - Sooner(p.credit + silent, Timeout)

ParkExpired(p, t) == p.since # Never /\ Accounted(p, t) > Timeout

StartClock(p, t) == [p EXCEPT !.since = IF @ = Never THEN t ELSE @]

\* _record_park_accepted_locked
Accepted(p) == [p EXCEPT !.phase = "hibernating", !.hib = hnow]

\* The history counts from the moment the clock starts.
SetPark(p) ==
  /\ park' = p
  /\ charged' = IF park.since = Never \/ p.since = Never THEN 0 ELSE charged

\* _forget_slot_locked, reap
Forget == /\ desc' = NoDesc /\ SetPark(NoPark) /\ asked' = Never

-------------------------------------------------------------------------------
\* Upkeep: is_ready of a warming slot, maintain_idle of an idle one.  Calls to
\* AWS and to the agent are made without the lock; a reap may come in between.

Upkeeping == up.pc = "idle" /\ cl = "idle" /\ slot \in {"warming", "ready"}

\* The state is read: from the cache if it is fresh (is_ready only), or from
\* AWS, which may give no verdict, fail, or say that there is no such instance.
Look ==
  /\ Upkeeping
  /\ \/ /\ slot = "warming" /\ desc.at # Never /\ hnow - desc.at < CacheTime
        /\ up' = [Resting EXCEPT !.pc = "step", !.st = desc.st, !.t = hnow]
        /\ UNCHANGED <<desc, park, charged>>
     \/ \E st \in Described :
          /\ up' = [Resting EXCEPT !.pc = "step", !.st = st, !.t = hnow]
          /\ desc' = IF slot = "warming" /\ ~gone THEN [st |-> st, at |-> hnow]
                     ELSE desc
          /\ UNCHANGED <<park, charged>>
     \/ /\ SetPark(IF park.since # Never /\ ~gone
                   THEN Freeze(park, hnow, FALSE) ELSE park)
        /\ UNCHANGED <<up, desc>>
  /\ UNCHANGED <<vm, asked, gone, slot, cl, rp, hnow, verdicts>>

\* What the caller makes of the outcome: is_ready TRUE promotes a warming slot,
\* and a slot that is given up or dead is left to the reaper.
Report(ready, usable) ==
  /\ slot' = CASE slot \in {"leased", "dead"} -> slot
               [] slot = "warming" /\ ready -> "ready"
               [] ~usable -> "dead"
               [] OTHER -> slot
  /\ up' = Resting

\* A stopped instance is a parked one only if a park was attempted and the last
\* one was not refused.
Attempted(p) ==
  /\ \/ p.phase \in {"hibernating", "parked"} \/ p.hib # Never \/ p.since # Never
     \/ p.attempted
  /\ ~(p.refused /\ ~p.attempted)

\* _park_step_locked before the agent is asked.
Step ==
  /\ up.pc = "step"
  /\ \/ /\ gone /\ Forget /\ Report(FALSE, TRUE)
     \/ /\ ~gone /\ up.st \in Dead
        /\ Report(FALSE, FALSE) /\ UNCHANGED <<desc, park, asked, charged>>
     \/ /\ ~gone /\ up.st = "stopped" /\ Attempted(park)
        /\ SetPark([NoPark EXCEPT !.phase = "parked"])
        /\ Report(TRUE, TRUE) /\ UNCHANGED <<desc, asked>>
     \/ /\ ~gone /\ up.st = "stopped" /\ ~Attempted(park)
        /\ Report(FALSE, TRUE) /\ UNCHANGED <<desc, park, asked, charged>>
     \/ /\ ~gone /\ up.st = "stopping"
        /\ \/ /\ ~(park.phase = "hibernating" \/ park.attempted \/ park.hib # Never)
              /\ Report(FALSE, TRUE) /\ UNCHANGED <<park, charged>>
           \/ /\ park.phase = "hibernating" \/ park.attempted \/ park.hib # Never
              /\ LET began == IF park.attempted /\ park.unknown # Never
                              THEN park.unknown ELSE up.t
                     p == Thaw(StartClock([park EXCEPT !.phase = "hibernating",
                            !.hib = IF @ = Never THEN up.t ELSE @], began), up.t)
                 IN  SetPark(p) /\ Report(FALSE, ~ParkExpired(p, up.t))
        /\ UNCHANGED <<desc, asked>>
     \/ /\ ~gone /\ up.st = "running"
        /\ park.phase \in {"hibernating", "parked", "resuming"}
        /\ IF park.phase = "hibernating" /\ park.hib # Never /\ up.t - park.hib < CacheTime
           THEN UNCHANGED <<park, charged>>
           ELSE SetPark(StartClock([park EXCEPT !.phase = "warming", !.hib = Never],
                                   up.t))
        /\ Report(FALSE, TRUE) /\ UNCHANGED <<desc, asked>>
     \/ /\ ~gone /\ up.st = "running" /\ park.phase = "warming"
        /\ IF ParkExpired(park, up.t) THEN Report(FALSE, FALSE)
           ELSE up' = [up EXCEPT !.pc = "probe"] /\ UNCHANGED slot
        /\ UNCHANGED <<desc, park, asked, charged>>
  /\ UNCHANGED <<vm, gone, cl, rp, hnow, verdicts>>

\* _agent_healthy: yes, no, could not ask, or AWS gave no verdict on the address.
AskAgent ==
  /\ up.pc = "probe"
  /\ \/ /\ up' = [up EXCEPT !.pc = "judge",
                            !.out = IF vm.agent THEN "yes" ELSE "no"]
        /\ UNCHANGED <<park, charged>>
     \/ /\ up' = [up EXCEPT !.pc = "judge", !.out = "none"]
        /\ UNCHANGED <<park, charged>>
     \/ /\ SetPark(IF park.since # Never /\ ~gone
                   THEN Freeze(park, hnow, FALSE) ELSE park)
        /\ up' = Resting
  /\ UNCHANGED <<vm, desc, asked, gone, slot, cl, rp, hnow, verdicts>>

\* _park_step_locked with the agent's answer.
Judge ==
  /\ up.pc = "judge"
  /\ \/ /\ gone /\ Forget /\ Report(FALSE, TRUE)
     \/ /\ ~gone /\ up.out = "none"
        /\ SetPark(Freeze(park, up.t, FALSE)) /\ Report(FALSE, TRUE)
        /\ UNCHANGED <<desc, asked>>
     \/ /\ ~gone /\ up.out = "no"
        /\ SetPark(Thaw(park, up.t)) /\ Report(FALSE, TRUE)
        /\ UNCHANGED <<desc, asked>>
     \/ /\ ~gone /\ up.out = "yes"
        /\ up' = [up EXCEPT !.pc = "park"]
        /\ UNCHANGED <<desc, park, asked, charged, slot>>
  /\ UNCHANGED <<vm, gone, cl, rp, hnow, verdicts>>

\* _try_park: no stop is sent while the last one is a moment old.
Throttled == asked # Never /\ hnow - asked < CacheTime

TryPark ==
  /\ up.pc = "park"
  /\ IF gone \/ Throttled
     THEN up' = [up EXCEPT !.pc = "settle", !.out = "skip"] /\ UNCHANGED asked
     ELSE up' = [up EXCEPT !.pc = "sent", !.out = "none"] /\ asked' = hnow
  /\ UNCHANGED <<vm, desc, park, charged, gone, slot, cl, rp, hnow, verdicts>>

Answers(out) ==
  /\ up' = [up EXCEPT !.pc = "answered", !.out = out]
  /\ verdicts' = verdicts \cup {out}
\* AWS and the stop request.  One without a verdict may have been executed.  One is
\* refused because the instance cannot hibernate yet, or because an earlier one,
\* perhaps without a verdict, is taking effect.
StopAnswered ==
  /\ up.pc = "sent"
  /\ \/ Answers("ok") /\ vm.st \notin Dead /\ vm' = IF vm.st = "running" THEN Stopped ELSE vm
     \/ Answers("refused") /\ UNCHANGED vm
     \/ Answers("noverdict") /\ vm' \in {vm} \cup (IF vm.st = "running" THEN {Stopped} ELSE {})
     \/ Answers("notexecuted") /\ UNCHANGED vm
  /\ UNCHANGED <<desc, park, asked, charged, gone, slot, cl, rp, hnow>>

\* Seeded fault: the throttle is counted from when the stop was sent.
AskedBefore == asked
\* The throttle is counted from when the call returned.
AskedAfter == IF gone THEN asked ELSE hnow

\* The call returns.  An answer about a slot that was reaped meanwhile is none, and
\* an accepted stop is recorded.
ParkReturns ==
  /\ up.pc = "answered"
  /\ asked' = AskedAfter
  /\ up' = [up EXCEPT !.pc = "settle",
                      !.out = IF gone /\ @ \in {"ok", "refused"} THEN "skip" ELSE @]
  /\ IF ~gone /\ up.out = "ok"
     THEN desc' = NoDesc /\ SetPark(Accepted(park))
     ELSE UNCHANGED <<desc, park, charged>>
  /\ UNCHANGED <<vm, gone, slot, cl, rp, hnow, verdicts>>

\* _settle_park_locked: what the answer, or its absence, does to the clock.
SettlePark ==
  /\ up.pc = "settle"
  /\ \/ /\ gone /\ Forget
     \/ /\ ~gone /\ up.out = "skip" /\ UNCHANGED <<desc, park, asked, charged>>
     \/ /\ ~gone /\ up.out = "notexecuted"
        /\ SetPark(Freeze(park, hnow, FALSE)) /\ UNCHANGED <<desc, asked>>
     \/ /\ ~gone /\ up.out = "noverdict"
        /\ SetPark(Freeze([park EXCEPT !.refused = FALSE], hnow, TRUE))
        /\ UNCHANGED <<desc, asked>>
     \/ /\ ~gone /\ up.out \in {"ok", "refused"}
        /\ SetPark([StartClock(Thaw(park, hnow), hnow)
                      EXCEPT !.refused = (up.out = "refused")])
        /\ UNCHANGED <<desc, asked>>
  /\ Report(FALSE, TRUE)
  /\ UNCHANGED <<vm, gone, cl, rp, hnow, verdicts>>

\* is_warming_terminal: the pool retires a warming slot whose clock ran out.
WarmingTerminal ==
  /\ Upkeeping /\ slot = "warming" /\ ParkExpired(park, hnow)
  /\ slot' = "dead"
  /\ UNCHANGED <<vm, desc, park, asked, gone, up, cl, rp, hnow, charged, verdicts>>

-------------------------------------------------------------------------------
\* A claim of an idle slot.

\* No park is under way, and none is unanswered.
ParkSettled == park.phase # "hibernating" /\ park.unknown = Never

\* is_alive_for_claim
ClaimProbe ==
  /\ slot = "ready" /\ up.pc = "idle" /\ cl = "idle"
  /\ ParkSettled
  /\ desc' = NoDesc
  /\ \E st \in Described :
       /\ st \notin {"stopping"} \cup Dead
       /\ cl' = "start"
  /\ UNCHANGED <<vm, park, asked, gone, slot, up, rp, hnow, charged, verdicts>>

\* resume: a stopped instance is started; the phase says so.
ResumeStart ==
  /\ cl = "start"
  /\ \/ /\ vm.st \notin Dead
        /\ vm' = IF vm.st = "stopped"
                 THEN [st |-> "running", agent |-> FALSE, ours |-> FALSE, at |-> Never]
                 ELSE vm
        /\ IF gone THEN UNCHANGED <<park, charged>>
           ELSE SetPark([park EXCEPT !.phase = "resuming"])
        /\ cl' = "wait"
        /\ desc' = NoDesc
        /\ UNCHANGED slot
     \/ /\ vm.st \in Dead
        /\ cl' = "idle"
        /\ slot' = "dead"
        /\ UNCHANGED <<vm, desc, park, charged>>
  /\ UNCHANGED <<asked, gone, up, rp, hnow, verdicts>>

\* resume's loop: the agent answers and the job runs; a stopped instance is
\* started again; the deadline passes with a verdict (the slot is retired) or
\* without one (it goes back).
ResumeWait ==
  /\ cl = "wait"
  /\ \/ /\ vm.agent /\ slot = "ready"
        /\ slot' = "leased" /\ cl' = "idle" /\ UNCHANGED vm
     \/ /\ vm.st = "stopped"
        /\ vm' = [st |-> "running", agent |-> FALSE, ours |-> FALSE, at |-> Never]
        /\ UNCHANGED <<slot, cl>>
     \/ /\ cl' = "idle" /\ UNCHANGED vm
        /\ \/ UNCHANGED slot
           \/ slot' = IF slot = "ready" THEN "dead" ELSE slot
  /\ UNCHANGED <<desc, park, asked, gone, up, rp, hnow, charged, verdicts>>

-------------------------------------------------------------------------------
\* A reap: after the job, of a dead slot, or because the pool stops.
ReapBegins ==
  /\ rp = "idle"
  /\ rp' = "terminate"
  /\ slot' = "dead"
  /\ desc' = NoDesc
  /\ UNCHANGED <<vm, park, asked, gone, up, cl, hnow, charged, verdicts>>

ReapTerminates ==
  /\ rp = "terminate"
  /\ vm' = [st |-> "terminated", agent |-> FALSE, ours |-> FALSE, at |-> Never]
  /\ rp' = "forget"
  /\ UNCHANGED <<desc, park, asked, gone, slot, up, cl, hnow, charged, verdicts>>

ReapForgets ==
  /\ rp = "forget"
  /\ gone' = TRUE /\ Forget
  /\ rp' = "done"
  /\ UNCHANGED <<vm, slot, up, cl, hnow, verdicts>>

HibNext ==
  \/ AgentComesUp \/ GuestFreezes \/ StopCompletes \/ StopsByItself \/ Tick
  \/ Look \/ Step \/ AskAgent \/ Judge \/ TryPark \/ StopAnswered \/ ParkReturns \/ SettlePark
  \/ WarmingTerminal
  \/ ClaimProbe \/ ResumeStart \/ ResumeWait
  \/ ReapBegins \/ ReapTerminates \/ ReapForgets

HibSpec == HibInit /\ [][HibNext]_hibVars

-------------------------------------------------------------------------------
\* Properties

\* A job never runs on an instance that is about to hibernate under it: a park
\* that is under way or unanswered keeps the slot from being claimed.
LeasedNotStopped == slot = "leased" => ~vm.ours

\* The park clock charges a slot only for the time in which AWS was answering,
\* up to the length of one call, and the credit for silence is itself bounded:
\* no slot is given up because of an outage, and none outlives two timeouts.
ParkClockHonest ==
  park.since # Never =>
    LET total == hnow - park.since
    IN  /\ ParkExpired(park, hnow) =>
             charged + CallTime > Timeout \/ total > 2 * Timeout
        /\ total > 2 * Timeout => ParkExpired(park, hnow)

\* An instance that stopped by itself has no saved worker in it: a slot is not
\* promoted when every park of it was refused or never sent.
ColdStopNotAdopted == park.phase = "parked" => verdicts \cap {"ok", "noverdict"} # {}

\* A reap that overtakes an upkeep step in flight leaves nothing behind: the
\* step's later writes do not bring the slot's entries back.
ReapedIsForgotten == gone => park = NoPark /\ desc = NoDesc /\ asked = Never
===============================================================================
