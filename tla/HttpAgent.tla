----------------------------- MODULE HttpAgent ------------------------------
(***************************************************************************)
(* The worker agent (worker/http_agent.py): one detonation at a time under  *)
(* _JOB_LOCK, the warmup before serving and its retries, the hard deadline  *)
(* of a hung engine, and retirement -- by a signal, by the deadline or by   *)
(* an unconfined run -- against the runs in flight                          *)
(* (worker/sandbox/base.py, macos_common.run_confined, seatbelt.run).       *)
(*                                                                         *)
(* A signal handler runs ON the main thread between two of its bytecodes:   *)
(* while it does, the main thread itself does not move.                     *)
(***************************************************************************)
EXTENDS Integers, FiniteSets

CONSTANTS
    Handlers,       \* request threads
    MaxJobs,        \* bound: detonations, warmups and warmup retries started
    MaxSignals,     \* bound: SIGTERM / SIGINT delivered
    AgentFaults     \* "hang" an engine hangs, "slow" a copy-back outlasts the wait, "late" a run
                    \* is preempted between its registration and its Popen, "locked" a signal
                    \* lands while the main thread holds one of the locks below

VARIABLES
    at,             \* where each thread is
    child,          \* threads whose sandboxed child is alive
    registered,     \* _EMERGENCY: runs with a registered cleanup
    emLock,         \* _EMERGENCY_LOCK
    jobLock,        \* _JOB_LOCK
    serving,        \* main() has finished its warmup
    warmupError,    \* _Handler.warmup_error is set
    closed,         \* _REGISTRATION_CLOSED
    shutting,       \* _SHUTTING_DOWN
    deferred,       \* a retirement waits for the main thread's teardown section
    retiring,       \* who holds _RETIRE_LOCK, and how far it is
    toSweep,        \* emergency cleanups not finished
    exited,         \* os._exit
    jobs, signals

agentVars == <<at, child, registered, emLock, jobLock, serving, warmupError, closed, shutting,
               deferred, retiring, toSweep, exited, jobs, signals>>
runVars == <<child, registered, emLock>>
doorVars == <<jobLock, serving, warmupError, jobs>>
retireVars == <<closed, shutting, deferred, retiring, toSweep, exited, signals>>

Threads == Handlers \cup {"main", "warm"}
NoRetirement == [by |-> "nobody", step |-> "none"]
HoldsSpawn == {"spawning", "spawned"}

AgentInit ==
    /\ at = [t \in Threads |-> "idle"]
    /\ child = {} /\ registered = {} /\ emLock = "free" /\ jobLock = "free"
    /\ serving = FALSE /\ warmupError = FALSE
    /\ closed = FALSE /\ shutting = FALSE /\ deferred = FALSE
    /\ retiring = NoRetirement /\ toSweep = {} /\ exited = FALSE
    /\ jobs = 0 /\ signals = 0

\* A thread moves unless the process is gone or the handler runs on top of it.
Moves(t) == ~exited /\ retiring.by # t

Go(t, where) == at' = [at EXCEPT ![t] = where]

(***************************************************************************)
(* The door: warmup, requests, warmup retries.                              *)
(***************************************************************************)
\* main: _bounded_warmup before serve(); its runs are on the main thread.
MainWarms ==
    /\ Moves("main") /\ ~serving /\ at["main"] = "idle" /\ jobs < MaxJobs
    /\ jobs' = jobs + 1
    /\ Go("main", "outer")
    /\ UNCHANGED <<runVars, jobLock, serving, warmupError, retireVars>>

\* _warmup's verdict; serve() follows whatever it was.
MainServes(failed) ==
    /\ Moves("main") /\ at["main"] = "over"
    /\ serving' = TRUE /\ warmupError' = failed
    /\ Go("main", "idle")
    /\ UNCHANGED <<runVars, jobLock, jobs, retireVars>>

\* do_POST up to _JOB_LOCK: shutting down, not ready and busy are refused.
Accept(h) ==
    /\ Moves(h) /\ at[h] = "idle" /\ serving /\ jobs < MaxJobs
    /\ ~closed /\ ~warmupError /\ jobLock = "free"
    /\ jobLock' = h /\ jobs' = jobs + 1
    /\ Go(h, "locked")
    /\ UNCHANGED <<runVars, serving, warmupError, retireVars>>

\* The second look at shutting_down(), then the body: slow, truncated or refused for egress.
ReadBody(h, good) ==
    /\ Moves(h) /\ at[h] = "locked"
    /\ Go(h, IF good /\ ~closed THEN "outer" ELSE "over")
    /\ UNCHANGED <<runVars, doorVars, retireVars>>

\* do_POST's finally: the answer, and the lock back.
Answer(h) ==
    /\ Moves(h) /\ at[h] = "over" /\ h \in Handlers
    /\ jobLock' = "free"
    /\ Go(h, "idle")
    /\ UNCHANGED <<runVars, serving, warmupError, jobs, retireVars>>

\* retry_warmup's loop, under _JOB_LOCK.
WarmRetries ==
    /\ Moves("warm") /\ at["warm"] = "idle" /\ serving /\ warmupError /\ jobs < MaxJobs
    /\ jobLock = "free"
    /\ jobLock' = "warm" /\ jobs' = jobs + 1
    /\ Go("warm", "outer")
    /\ UNCHANGED <<runVars, serving, warmupError, retireVars>>

WarmRetried(failed) ==
    /\ Moves("warm") /\ at["warm"] = "over"
    /\ jobLock' = "free" /\ warmupError' = failed
    /\ Go("warm", "idle")
    /\ UNCHANGED <<runVars, serving, jobs, retireVars>>

(***************************************************************************)
(* One confined run.                                                        *)
(***************************************************************************)
\* The backend's set-up: mounts, claims, scratch and profile (seatbelt.run).
SetUp(t) ==
    /\ Moves(t) /\ at[t] = "outer"
    /\ \E next \in {"register", "over"} : Go(t, next)
    /\ UNCHANGED <<runVars, doorVars, retireVars>>

TakeRegistry(t) ==
    /\ Moves(t) /\ at[t] = "register" /\ emLock = "free"
    /\ emLock' = t
    /\ Go(t, "registering")
    /\ UNCHANGED <<child, registered, doorVars, retireVars>>

\* register_emergency_cleanup refuses a run once retirement has begun.
RegistrationRefused == closed

Register(t) ==
    /\ Moves(t) /\ at[t] = "registering"
    /\ emLock' = "free"
    /\ IF RegistrationRefused
       THEN Go(t, "over") /\ UNCHANGED registered
       ELSE Go(t, "registered") /\ registered' = registered \cup {t}
    /\ UNCHANGED <<child, doorVars, retireVars>>

\* run_confined: the run's own spawn lock is held over Popen until its state is recorded.
TakeSpawn(t) ==
    /\ Moves(t) /\ at[t] = "registered"
    /\ Go(t, "spawning")
    /\ UNCHANGED <<runVars, doorVars, retireVars>>

Popen(t) ==
    /\ Moves(t) /\ at[t] = "spawning"
    /\ \/ Go(t, "spawned") /\ child' = child \cup {t}
       \/ Go(t, "ended") /\ UNCHANGED child
    /\ UNCHANGED <<registered, emLock, doorVars, retireVars>>

Recorded(t) ==
    /\ Moves(t) /\ at[t] = "spawned"
    /\ Go(t, "running")
    /\ UNCHANGED <<runVars, doorVars, retireVars>>

\* The child exits or times out; either way the family is killed and swept.
RunEnds(t) ==
    /\ Moves(t) /\ at[t] = "running"
    /\ child' = child \ {t}
    /\ Go(t, "ended")
    /\ UNCHANGED <<registered, emLock, doorVars, retireVars>>

\* The engine hangs in-process; its child may live on meanwhile.
Hangs(t) ==
    /\ "hang" \in AgentFaults
    /\ Moves(t) /\ at[t] = "running"
    /\ Go(t, "hung")
    /\ UNCHANGED <<runVars, doorVars, retireVars>>

TakeUnregister(t) ==
    /\ Moves(t) /\ at[t] = "ended" /\ emLock = "free"
    /\ emLock' = t
    /\ Go(t, "unregistering")
    /\ UNCHANGED <<child, registered, doorVars, retireVars>>

Unregister(t) ==
    /\ Moves(t) /\ at[t] = "unregistering"
    /\ emLock' = "free" /\ registered' = registered \ {t}
    /\ \E next \in {"copy", "over"} : Go(t, next)
    /\ UNCHANGED <<child, doorVars, retireVars>>

\* teardown_critical: a section is refused, not interrupted, once shutdown has begun.
EnterTeardown(t) ==
    /\ Moves(t) /\ at[t] = "copy"
    /\ Go(t, IF shutting THEN "over" ELSE "crit")
    /\ UNCHANGED <<runVars, doorVars, retireVars>>

(***************************************************************************)
(* Retirement.                                                              *)
(***************************************************************************)
\* _retire: one per process; the loser returns.
Retire(who) ==
    retiring' = IF retiring = NoRetirement THEN [by |-> who, step |-> "close"] ELSE retiring

LeaveTeardown(t) ==
    /\ Moves(t) /\ at[t] = "crit"
    /\ Go(t, "over")
    /\ IF t = "main" /\ deferred THEN Retire("main") /\ deferred' = FALSE
       ELSE UNCHANGED <<retiring, deferred>>
    /\ UNCHANGED <<runVars, doorVars, closed, shutting, toSweep, exited, signals>>

\* defer_until_teardown_done: only for a section of the calling thread itself.
Defers == at["main"] = "crit"

\* SIGTERM / SIGINT: the handler runs on the main thread.
Signal ==
    /\ ~exited /\ signals < MaxSignals
    /\ signals' = signals + 1
    /\ at["main"] \in HoldsSpawn \cup {"registering", "unregistering"} => "locked" \in AgentFaults
    /\ IF Defers THEN deferred' = TRUE /\ UNCHANGED retiring
       ELSE Retire("main") /\ UNCHANGED deferred
    /\ UNCHANGED <<at, runVars, doorVars, closed, shutting, toSweep, exited>>

\* _on_hard_deadline, on a timer thread.
HardDeadline(t) ==
    /\ ~exited /\ at[t] = "hung" /\ retiring = NoRetirement
    /\ Retire("timer")
    /\ UNCHANGED <<at, runVars, doorVars, closed, shutting, deferred, toSweep, exited, signals>>

\* do_POST's _Unconfined: the result is refused and the agent retires, the lock still held.
Unconfined(h) ==
    /\ Moves(h) /\ at[h] = "over" /\ h \in Handlers /\ jobLock = h
    /\ retiring = NoRetirement
    /\ Retire(h)
    /\ UNCHANGED <<at, runVars, doorVars, closed, shutting, deferred, toSweep, exited, signals>>

At(step) == ~exited /\ retiring.step = step
Then(step) == retiring' = [retiring EXCEPT !.step = step]

\* begin_shutdown: registrations are closed before the cleanups are listed,
CloseRegistration ==
    /\ At("close") /\ emLock = "free"
    /\ closed' = TRUE /\ Then("shut")
    /\ UNCHANGED <<at, runVars, doorVars, shutting, deferred, toSweep, exited, signals>>

\* new teardown sections are refused,
RefuseTeardowns ==
    /\ At("shut")
    /\ shutting' = TRUE /\ Then("wait")
    /\ UNCHANGED <<at, runVars, doorVars, closed, deferred, toSweep, exited, signals>>

\* and those of other threads are waited for, a third of the budget at most.
WaitTeardowns ==
    /\ At("wait")
    /\ (\A t \in Threads \ {retiring.by} : at[t] # "crit") \/ "slow" \in AgentFaults
    /\ emLock = "free"
    /\ toSweep' = registered /\ Then("sweep")
    /\ UNCHANGED <<at, runVars, doorVars, closed, shutting, deferred, exited, signals>>

\* run_emergency_cleanups: each family on a thread of its own; a cleanup waits for the run's
\* spawn lock, then kills what the run started.
Cleanup(t) ==
    /\ At("sweep") /\ t \in toSweep /\ at[t] \notin HoldsSpawn
    /\ at[t] = "registered" => t = retiring.by \/ "late" \in AgentFaults
    /\ child' = child \ {t}
    /\ toSweep' = toSweep \ {t}
    /\ UNCHANGED <<at, registered, emLock, doorVars, closed, shutting, deferred, retiring, exited, signals>>

\* A cleanup that waits for a lock of the very thread the handler runs on outlasts the budget.
CleanupTimesOut(t) ==
    /\ At("sweep") /\ t \in toSweep /\ at[t] \in HoldsSpawn /\ t = retiring.by
    /\ toSweep' = toSweep \ {t}
    /\ UNCHANGED <<at, runVars, doorVars, closed, shutting, deferred, retiring, exited, signals>>

HardExit ==
    /\ At("sweep") /\ toSweep = {}
    /\ exited' = TRUE
    /\ UNCHANGED <<at, runVars, doorVars, closed, shutting, deferred, retiring, toSweep, signals>>

RunStep(t) ==
    \/ SetUp(t) \/ TakeRegistry(t) \/ Register(t) \/ TakeSpawn(t) \/ Popen(t) \/ Recorded(t)
    \/ RunEnds(t) \/ TakeUnregister(t) \/ Unregister(t) \/ EnterTeardown(t) \/ LeaveTeardown(t)

RetireStep ==
    \/ CloseRegistration \/ RefuseTeardowns \/ WaitTeardowns \/ HardExit
    \/ \E t \in Threads : Cleanup(t) \/ CleanupTimesOut(t) \/ HardDeadline(t)

AgentNext ==
    \/ MainWarms \/ WarmRetries \/ Signal
    \/ \E b \in BOOLEAN : MainServes(b) \/ WarmRetried(b)
    \/ \E h \in Handlers : Accept(h) \/ Answer(h) \/ Unconfined(h) \/ \E b \in BOOLEAN : ReadBody(h, b)
    \/ \E t \in Threads : RunStep(t) \/ Hangs(t)
    \/ RetireStep

AgentSpec == AgentInit /\ [][AgentNext]_agentVars

\* Threads and timers run; jobs, signals and hangs come when they come.
AgentFairness ==
    /\ WF_agentVars(RetireStep)
    /\ \A t \in Threads : WF_agentVars(RunStep(t))

AgentLive == AgentSpec /\ AgentFairness

(***************************************************************************)
(* Properties.                                                              *)
(***************************************************************************)

\* The agent never exits with a sandboxed child of a run alive -- out of the supervisor's
\* reach, with its grants -- and never between the renames of a copy-back, unless it outlasted
\* the wait (_retire, begin_shutdown and run_emergency_cleanups against every step of a run).
RetiresClean ==
    exited => /\ child = {}
              /\ "slow" \notin AgentFaults => \A t \in Threads : at[t] # "crit"

\* A hung engine, a signal or an unconfined run ends the agent: the box never keeps answering
\* /healthz with its only job slot lost, and no signal waits for the thread it interrupted.
EndsIfItMust ==
  (retiring # NoRetirement \/ deferred \/ \E t \in Threads : at[t] = "hung") => exited
=============================================================================
