------------------------------- MODULE EgressNode -------------------------------
(***************************************************************************)
(* The egress tier of a worker node in global mode: the plan of host       *)
(* commands in host/egress.py and its execution in host/egress_apply.py.   *)
(*                                                                         *)
(* Worker traffic reaches the forwarder container, and the node must carry *)
(* the forwarder's traffic into the tunnel or not at all.  Two layers see  *)
(* to it: the routing rules (a lookup of the tunnel's table with a         *)
(* blackhole behind it) and a filter chain (accept into the tunnel, drop   *)
(* the rest) that must stand above docker's own accept.  `egress apply'    *)
(* rebuilds both, command by command, on a node that is carrying traffic;  *)
(* a timer repeats it every three minutes; `egress teardown' removes them. *)
(* No lock keeps two of these apart.                                       *)
(*                                                                         *)
(* A program is the sequence of commands it has still to run.              *)
(***************************************************************************)
EXTENDS Naturals, Sequences, FiniteSets

CONSTANTS
    Operator,       \* what the operator may start: subset of {"apply", "teardown"}
    MaxRuns,        \* bound: programs the operator starts
    MaxStack,       \* bound: copies of a rule, and length of the chain
    MaxEgressFaults,
    EgressFaults    \* subset of {"step", "tunnel", "dockerd"}

VARIABLES
    lookups,        \* copies of the ip rule "from forwarder lookup table"
    blackholes,     \* copies of the ip rule "from forwarder blackhole"
    tunRoute,       \* the table has its default route into the tunnel
    tunUp,          \* the WireGuard interface exists
    jump,           \* "none" | "top" | "buried" below docker's accept
    chain,          \* the filter chain: sequence over {"accept", "drop"}
    fwd,            \* the forwarder container is running
    envFile,        \* /etc/blastbox/egress.env exists
    unitOn,         \* the boot unit is installed and enabled
    timerOn,        \* the reconcile timer is enabled
    prog,           \* actor -> the commands left
    undone,         \* the operator's last finished program was a teardown
    runs, faults    \* bounds

hostVars2 == <<lookups, blackholes, tunRoute, tunUp, jump, chain, fwd>>
egressVars == <<hostVars2, envFile, unitOn, timerOn, prog, undone, runs, faults>>

Actors == {"cli", "timer"}

(* _overlay_main_steps and the return chain carry no traffic out and are left *)
(* out; the rest in the order of forwarder_source_route_steps: _rule_steps,   *)
(* then _chain_jump_steps and the two rules of the chain.                     *)
RuleSteps == <<"lookup-del", "lookup-add", "blackhole-del", "blackhole-add">>
ChainJumpSteps == <<"jump-del", "jump-insert", "chain-flush">>
ForwarderSteps ==
    <<"route">> \o RuleSteps \o ChainJumpSteps \o <<"chain-accept", "chain-drop">>

(* start_forwarder replaces the container; persist_config arms the node; the  *)
(* units are installed only when systemd did not start this run.              *)
ApplySteps(p) ==
    ForwarderSteps \o <<"forwarder-rm", "forwarder-run", "env-write">>
      \o IF p = "cli" THEN <<"units">> ELSE << >>

(* teardown_node: every command is best-effort.                               *)
TeardownSteps ==
    <<"forwarder-rm", "rules-purge", "route-flush", "chain-flush", "jump-purge",
      "tunnel-down", "unit-off", "timer-off", "env-unlink">>

BestEffort == {"lookup-del", "blackhole-del", "jump-del", "rules-purge", "route-flush",
               "jump-purge", "forwarder-rm", "tunnel-down", "unit-off", "timer-off",
               "env-unlink", "units"}

EgressInit ==
    /\ lookups = 0 /\ blackholes = 0 /\ tunRoute = FALSE /\ tunUp = TRUE
    /\ jump = "none" /\ chain = << >> /\ fwd = FALSE
    /\ envFile = FALSE /\ unitOn = FALSE /\ timerOn = FALSE
    /\ prog = [p \in Actors |-> << >>] /\ undone = FALSE
    /\ runs = 0 /\ faults = 0

Less(n) == IF n > 0 THEN n - 1 ELSE 0
More(n) == IF n < MaxStack THEN n + 1 ELSE n
Room(s) == Len(s) < MaxStack

(* ----- the commands -------------------------------------------------------- *)

(* ip route replace default dev <wg>, which needs the interface; ip rule del  *)
(* takes one copy, ip rule add stacks another; teardown purges them all.      *)
Route(cmd) ==
    /\ cmd \in {"route", "lookup-del", "lookup-add", "blackhole-del", "blackhole-add",
                "rules-purge", "route-flush"}
    /\ cmd = "route" => tunUp
    /\ tunRoute' = CASE cmd = "route" -> TRUE [] cmd = "route-flush" -> FALSE
                     [] OTHER -> tunRoute
    /\ lookups' = CASE cmd = "lookup-del" -> Less(lookups) [] cmd = "lookup-add" -> More(lookups)
                    [] cmd = "rules-purge" -> 0 [] OTHER -> lookups
    /\ blackholes' = CASE cmd = "blackhole-del" -> Less(blackholes)
                       [] cmd = "blackhole-add" -> More(blackholes)
                       [] cmd = "rules-purge" -> 0 [] OTHER -> blackholes
    /\ UNCHANGED <<jump, chain, fwd, tunUp, envFile, unitOn, timerOn>>

FilterCheckFirst(cmd) ==
    /\ cmd \in {"jump-del", "jump-insert", "jump-purge", "chain-flush", "chain-accept",
                "chain-drop"}
    /\ jump' = CASE cmd = "jump-purge" -> "none"
                 [] cmd = "jump-insert" /\ jump = "none" -> "top" [] OTHER -> jump
    /\ chain' = CASE cmd = "chain-flush" -> << >>
                  [] cmd = "chain-accept" /\ Room(chain) -> Append(chain, "accept")
                  [] cmd = "chain-drop" /\ Room(chain) -> Append(chain, "drop")
                  [] OTHER -> chain
    /\ UNCHANGED <<lookups, blackholes, tunRoute, fwd, tunUp, envFile, unitOn, timerOn>>

(* The jump is deleted and inserted again at the head of FORWARD, which is    *)
(* what puts it back above docker's; the chain is flushed, then refilled.     *)
Filter(cmd) ==
    /\ cmd \in {"jump-del", "jump-insert", "jump-purge", "chain-flush", "chain-accept",
                "chain-drop"}
    /\ jump' = CASE cmd \in {"jump-del", "jump-purge"} -> "none"
                 [] cmd = "jump-insert" -> "top" [] OTHER -> jump
    /\ chain' = CASE cmd = "chain-flush" -> << >>
                  [] cmd = "chain-accept" /\ Room(chain) -> Append(chain, "accept")
                  [] cmd = "chain-drop" /\ Room(chain) -> Append(chain, "drop")
                  [] OTHER -> chain
    /\ UNCHANGED <<lookups, blackholes, tunRoute, fwd, tunUp, envFile, unitOn, timerOn>>

Containers(cmd) ==
    /\ cmd \in {"forwarder-rm", "forwarder-run", "tunnel-down"}
    /\ fwd' = CASE cmd = "forwarder-rm" -> FALSE [] cmd = "forwarder-run" -> TRUE
                [] OTHER -> fwd
    /\ tunUp' = (tunUp /\ cmd # "tunnel-down")
    /\ tunRoute' = (tunRoute /\ cmd # "tunnel-down")
    /\ UNCHANGED <<lookups, blackholes, jump, chain, envFile, unitOn, timerOn>>

(* persist_config; install_persistence_unit, which returns at once when the   *)
(* boot unit is already enabled, and install_reconcile_timer behind it.       *)
Persistence(cmd) ==
    /\ cmd \in {"env-write", "units", "unit-off", "timer-off", "env-unlink"}
    /\ envFile' = CASE cmd = "env-write" -> TRUE [] cmd = "env-unlink" -> FALSE
                    [] OTHER -> envFile
    /\ unitOn' = CASE cmd = "units" -> TRUE [] cmd = "unit-off" -> FALSE [] OTHER -> unitOn
    /\ timerOn' = CASE cmd = "units" /\ ~unitOn -> TRUE [] cmd = "timer-off" -> FALSE
                    [] OTHER -> timerOn
    /\ UNCHANGED hostVars2

(* ----- running a program --------------------------------------------------- *)

(* run_steps: the next command takes effect.                                  *)
Step(p) ==
    /\ prog[p] # << >>
    /\ LET cmd == Head(prog[p])
       IN  Route(cmd) \/ Filter(cmd) \/ Containers(cmd) \/ Persistence(cmd)
    /\ prog' = [prog EXCEPT ![p] = Tail(@)]
    /\ undone' = IF p = "cli" /\ Len(prog[p]) = 1 THEN Head(prog[p]) = "env-unlink" ELSE undone
    /\ UNCHANGED <<runs, faults>>

(* A command that fails and is not best-effort ends the program where it      *)
(* stands: the route of a tunnel that is down, or any other.                  *)
StepFails(p) ==
    /\ prog[p] # << >> /\ Head(prog[p]) \notin BestEffort
    /\ \/ Head(prog[p]) = "route" /\ ~tunUp /\ UNCHANGED faults
       \/ "step" \in EgressFaults /\ faults < MaxEgressFaults /\ faults' = faults + 1
    /\ prog' = [prog EXCEPT ![p] = << >>]
    /\ UNCHANGED <<hostVars2, envFile, unitOn, timerOn, undone, runs>>

OperatorStarts(what) ==
    /\ prog["cli"] = << >> /\ runs < MaxRuns
    /\ prog' = [prog EXCEPT !["cli"] = IF what = "apply" THEN ApplySteps("cli")
                                       ELSE TeardownSteps]
    /\ runs' = runs + 1 /\ undone' = FALSE
    /\ UNCHANGED <<hostVars2, envFile, unitOn, timerOn, faults>>

(* The reconcile service, never two at a time, and only on an armed node.     *)
TimerFires ==
    /\ timerOn /\ envFile /\ prog["timer"] = << >>
    /\ prog' = [prog EXCEPT !["timer"] = ApplySteps("timer")]
    /\ UNCHANGED <<hostVars2, envFile, unitOn, timerOn, undone, runs, faults>>

(* ----- the host ------------------------------------------------------------ *)

(* dockerd restarts by itself and puts its chains back at the head of FORWARD. *)
DockerdRestarts ==
    /\ "dockerd" \in EgressFaults /\ faults < MaxEgressFaults
    /\ jump' = IF jump = "top" THEN "buried" ELSE jump
    /\ faults' = faults + 1
    /\ UNCHANGED <<lookups, blackholes, tunRoute, tunUp, chain, fwd, envFile, unitOn,
                   timerOn, prog, undone, runs>>

(* The interface goes away, and with it every route through it.               *)
TunnelDrops ==
    /\ "tunnel" \in EgressFaults /\ faults < MaxEgressFaults /\ tunUp
    /\ tunUp' = FALSE /\ tunRoute' = FALSE /\ faults' = faults + 1
    /\ UNCHANGED <<lookups, blackholes, jump, chain, fwd, envFile, unitOn, timerOn, prog,
                   undone, runs>>

TunnelReturns ==
    /\ ~tunUp /\ unitOn
    /\ tunUp' = TRUE
    /\ UNCHANGED <<lookups, blackholes, tunRoute, jump, chain, fwd, envFile, unitOn,
                   timerOn, prog, undone, runs, faults>>

TimerRuns == TimerFires \/ Step("timer") \/ StepFails("timer")

EgressNext ==
    \/ \E p \in Actors : Step(p) \/ StepFails(p)
    \/ \E what \in Operator : OperatorStarts(what)
    \/ TimerFires \/ DockerdRestarts \/ TunnelDrops \/ TunnelReturns

EgressSpec == EgressInit /\ [][EgressNext]_egressVars

(* A program that was started runs on; systemd fires the timer again and      *)
(* brings the tunnel back.                                                    *)
CommandRuns == Step("cli") \/ StepFails("cli")
EgressFairness ==
    WF_egressVars(TimerRuns) /\ WF_egressVars(CommandRuns) /\ WF_egressVars(TunnelReturns)

(* ----- properties ---------------------------------------------------------- *)

(* Where the kernel sends the forwarder's traffic: no rule matches, or one    *)
(* matches a table without a route and falls through.                         *)
RoutedToWan == blackholes = 0 /\ (lookups = 0 \/ ~tunRoute)
(* The filter stops what would leave by anything but the tunnel.              *)
FilterDrops == jump = "top" /\ \E i \in 1..Len(chain) : chain[i] = "drop"

(* While one apply at a time rebuilds the rules under a running forwarder, no *)
(* single fault - a failed command, a tunnel or a dockerd that goes away -    *)
(* lets its traffic out by the WAN: at every point between two commands one   *)
(* of the two layers still holds.                                             *)
NoWanEscape == fwd => ~RoutedToWan \/ FilterDrops

(* enforcement_present, and a chain that lets the tunnel's traffic through.   *)
Enforced ==
    /\ lookups > 0 /\ blackholes > 0 /\ tunRoute /\ jump = "top"
    /\ chain # << >> /\ chain[1] = "accept" /\ chain[Len(chain)] = "drop"

(* Whatever a fault or two interleaved applies left behind, an armed node     *)
(* with its timer comes back to full enforcement again and again.             *)
EnforcedOrLifted == timerOn /\ envFile => Enforced

=================================================================================
