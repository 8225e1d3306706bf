-------------------------------- MODULE Watchdog --------------------------------
(***************************************************************************)
(* Ending a confined run on macOS (run_confined, RssWatchdog and           *)
(* sweep_sandboxed in worker/sandbox/macos_common.py).                     *)
(*                                                                         *)
(* The kernel names a process by a pid it reuses, so the worker keeps      *)
(* (pid, start time) pairs and believes a pair only after a second look at *)
(* the process table.  The run's own processes fork, leave the group and   *)
(* exit while they are being counted and killed, and processes of other    *)
(* jobs of the same user are born into pids that were theirs.              *)
(*                                                                         *)
(* A process is a number, its start time; it is born with a free pid.      *)
(***************************************************************************)
EXTENDS Naturals, FiniteSets

CONSTANTS
    Pids,           \* pids the kernel has to give
    MaxProcs,       \* bound: processes born in a behaviour
    MaxForks,       \* bound: forks of the run's processes
    MaxSamples,     \* bound: samples of the watchdog thread
    QuietRounds     \* SWEEP_QUIET_ROUNDS

Born == 1..MaxProcs
Leader == 1

VARIABLES
    state,      \* process -> "unborn" | "live" | "zombie" | "gone"
    pid,        \* process -> pid
    ours,       \* the run's processes
    inGroup,    \* processes in the run's process group
    parent,     \* process -> the parent, 0 once it was handed to launchd
    forks,
    reaped,     \* proc.wait() or poll() has collected the leader
    slain,      \* processes of others the worker killed
    seen,       \* RssWatchdog.seen: pairs <<pid, start>>
    dog,        \* the watchdog thread: [at, first, fresh]
    samples,
    run,        \* run_confined: [at, first, fresh, list, live, killed, quiet, sure]
    timedOut

procVars == <<state, pid, ours, inGroup, parent, forks, slain>>
dogVars == <<procVars, reaped, seen, dog, samples, run, timedOut>>

NoScan == [at |-> "idle", first |-> {}, fresh |-> {}]
DogInit ==
    /\ state = [p \in Born |-> IF p = Leader THEN "live" ELSE "unborn"]
    /\ pid = [p \in Born |-> IF p = Leader THEN CHOOSE i \in Pids : TRUE ELSE 0]
    /\ ours = {Leader} /\ inGroup = {Leader} /\ parent = [p \in Born |-> 0]
    /\ forks = 0 /\ reaped = FALSE /\ slain = {} /\ seen = {}
    /\ dog = NoScan /\ samples = 0
    /\ run = [at |-> "waiting", first |-> {}, fresh |-> {}, list |-> {}, live |-> {},
              killed |-> {}, quiet |-> 0, sure |-> TRUE]
    /\ timedOut = FALSE

Live == {p \in Born : state[p] = "live"}
Present == {p \in Born : state[p] \in {"live", "zombie"}}
FreePids == Pids \ {pid[p] : p \in Present}

(* ----- the kernel and the processes ---------------------------------------- *)

NextBorn == {p \in Born : state[p] = "unborn" /\ \A q \in Born : q < p => state[q] # "unborn"}

Fork(p) ==
    /\ p \in Live \cap ours /\ forks < MaxForks
    /\ \E q \in NextBorn, i \in FreePids, g \in BOOLEAN :
          /\ state' = [state EXCEPT ![q] = "live"]
          /\ pid' = [pid EXCEPT ![q] = i]
          /\ ours' = ours \cup {q}
          /\ inGroup' = IF g /\ p \in inGroup THEN inGroup \cup {q} ELSE inGroup
          /\ parent' = [parent EXCEPT ![q] = p]
    /\ forks' = forks + 1
    /\ UNCHANGED <<slain, reaped, seen, dog, samples, run, timedOut>>

OtherBorn ==
    /\ \E q \in NextBorn, i \in FreePids :
          state' = [state EXCEPT ![q] = "live"] /\ pid' = [pid EXCEPT ![q] = i]
    /\ UNCHANGED <<ours, inGroup, parent, forks, slain, reaped, seen, dog, samples, run,
                   timedOut>>

(* The leader stays a zombie, holding its pid, until the worker reaps it.     *)
Dead(ps) ==
    /\ state' = [p \in Born |-> IF p \in ps
                                THEN IF p = Leader /\ ~reaped THEN "zombie" ELSE "gone"
                                ELSE state[p]]
    /\ parent' = [p \in Born |-> IF parent[p] \in ps THEN 0 ELSE parent[p]]
    /\ slain' = slain

Exit(p) ==
    /\ p \in Live /\ Dead({p})
    /\ UNCHANGED <<pid, ours, inGroup, forks, reaped, seen, dog, samples, run, timedOut>>

(* ----- RssWatchdog ----------------------------------------------------------- *)

(* _family: the group while it is known to be the run's, what was seen and    *)
(* still has its start time, what carries the run's identity, and their       *)
(* children.                                                                  *)
SeenAlive == {p \in Live : <<pid[p], p>> \in seen}
GroupIsOurs == ~reaped
Family ==
    LET roots == SeenAlive \cup (Live \cap ours)
                   \cup (IF GroupIsOurs THEN Live \cap inGroup ELSE {})
    IN  {pid[p] : p \in roots \cup {c \in Live : parent[c] \in roots}}

Starts(is) == {<<pid[p], p>> : p \in {q \in Live : pid[q] \in is}}

(* _sample, with _remember_confirmed: list, read start times, and list again. *)
Sample ==
    \/ /\ dog.at = "idle" /\ samples < MaxSamples /\ run.at = "waiting"
       /\ dog' = [dog EXCEPT !.at = "listed", !.first = Family]
       /\ samples' = samples + 1 /\ UNCHANGED seen
    \/ /\ dog.at = "listed"
       /\ dog' = [dog EXCEPT !.at = "read", !.fresh = Starts(dog.first \ {s[1] : s \in seen})]
       /\ UNCHANGED <<seen, samples>>
    \/ /\ dog.at = "read"
       /\ seen' = seen \cup {s \in dog.fresh : s[1] \in Family /\ s \in Starts({s[1]})}
       /\ dog' = NoScan /\ UNCHANGED samples
SampleSteps == Sample /\ UNCHANGED <<procVars, reaped, run, timedOut>>

(* kill_if_same: the pid is signalled only while its start time is the one    *)
(* believed.                                                                  *)
KillBelieved(targets) ==
    LET hit == {p \in Live : <<pid[p], p>> \in targets} IN
    /\ state' = [p \in Born |-> IF p \in hit
                                THEN IF p = Leader /\ ~reaped THEN "zombie" ELSE "gone"
                                ELSE state[p]]
    /\ parent' = [p \in Born |-> IF parent[p] \in hit THEN 0 ELSE parent[p]]
    /\ slain' = slain \cup (hit \ ours)

(* ----- run_confined ---------------------------------------------------------- *)

(* The leader is waited for until it ends or the limit passes; then           *)
(* kill_family runs, and runs again, and then the sweep.                      *)
Waited ==
    /\ run.at = "waiting"
    /\ \/ state[Leader] # "live" /\ reaped' = TRUE /\ UNCHANGED timedOut
          /\ state' = [state EXCEPT ![Leader] = "gone"]
       \/ timedOut' = TRUE /\ UNCHANGED <<reaped, state>>
    /\ run' = [run EXCEPT !.at = "killpg"]
    /\ UNCHANGED <<pid, ours, inGroup, parent, forks, slain, seen, dog, samples>>

KillGroup ==
    /\ run.at = "killpg"
    /\ IF GroupIsOurs THEN Dead(Live \cap inGroup) ELSE UNCHANGED <<state, parent, slain>>
    /\ run' = [run EXCEPT !.at = "first"]
    /\ UNCHANGED <<pid, ours, inGroup, forks, reaped, seen, dog, samples, timedOut>>

(* _kill_targets: list, read the start times of what was not seen, and list   *)
(* again before any of them is believed.                                      *)
Targets == seen \cup {s \in run.fresh : s[1] \in Family}
KillFamily ==
    \/ /\ run.at = "first"
       /\ run' = [run EXCEPT !.at = "fresh", !.first = Family]
       /\ UNCHANGED <<state, parent, slain>>
    \/ /\ run.at = "fresh"
       /\ run' = [run EXCEPT !.at = "kill", !.fresh = Starts(run.first \ {s[1] : s \in seen})]
       /\ UNCHANGED <<state, parent, slain>>
    \/ /\ run.at = "kill"
       /\ KillBelieved(Targets)
       /\ run' = [run EXCEPT !.at = "list", !.first = {}, !.fresh = {}]
KillFamilySteps ==
    KillFamily /\ UNCHANGED <<pid, ours, inGroup, forks, reaped, seen, dog, samples, timedOut>>

(* sweep_sandboxed: a round lists the pids and then looks at each; one that   *)
(* is gone by then may have handed off to a child the listing missed, and the *)
(* round proves nothing.                                                      *)
RoundLists ==
    /\ run.at = "list"
    /\ run' = [run EXCEPT !.at = "round", !.list = {pid[p] : p \in Present}, !.live = {},
                          !.sure = TRUE]
    /\ UNCHANGED <<procVars, reaped, seen, dog, samples, timedOut>>

Matching(i) == {p \in Live \cap ours : pid[p] = i}
RoundLooks(i) ==
    /\ run.at = "round" /\ i \in run.list
    /\ LET there == {p \in Present : pid[p] = i}
       IN  run' = [run EXCEPT !.list = @ \ {i},
                              !.live = @ \cup {<<i, p>> : p \in Matching(i)},
                              !.sure = @ /\ there # {}]
    /\ UNCHANGED <<procVars, reaped, seen, dog, samples, timedOut>>

RoundQuiet == IF run.sure THEN run.quiet + 1 ELSE 0

RoundEnds ==
    /\ run.at = "round" /\ run.list = {}
    /\ IF run.live = {}
       THEN /\ run' = [run EXCEPT !.at = IF RoundQuiet >= QuietRounds THEN "returned" ELSE "list",
                                  !.quiet = RoundQuiet]
            /\ UNCHANGED <<state, parent, slain>>
       ELSE /\ KillBelieved(run.live)
            /\ run' = [run EXCEPT !.at = "list", !.quiet = 0]
    /\ UNCHANGED <<pid, ours, inGroup, forks, reaped, seen, dog, samples, timedOut>>

Worker ==
    \/ Waited \/ KillGroup \/ KillFamilySteps \/ RoundLists \/ RoundEnds
    \/ \E i \in Pids : RoundLooks(i)

DogNext ==
    \/ Worker \/ SampleSteps \/ OtherBorn
    \/ \E p \in Born : Fork(p) \/ Exit(p)

DogSpec == DogInit /\ [][DogNext]_dogVars

(* ----- properties ------------------------------------------------------------ *)

(* No process of another job is ever killed, whatever pid it was born into    *)
(* between two looks; and when run_confined returns, nothing of its run is    *)
(* alive, though processes forked and exited while they were being swept.     *)
OthersSpared == slain = {}
ReturnsEmpty == run.at = "returned" => Live \cap ours = {}
RunEndsAlone == OthersSpared /\ ReturnsEmpty
=================================================================================
