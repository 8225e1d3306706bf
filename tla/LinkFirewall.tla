----------------------------- MODULE LinkFirewall -----------------------------
(* The worker's end of the overlay link on Linux: `join` and `leave`, the nft   *)
(* table that filters the link, the unit that loads it before the link at boot, *)
(* and the timer that loads it again every minute (worker/link.py, and the      *)
(* units of host/worker_link.py).  Commands hold the node's lock, so one runs   *)
(* at a time; the timer, a flush of the tables by another tool, a kill of the   *)
(* command and a reboot happen between any two of its steps.                    *)
EXTENDS Naturals

CONSTANTS Ifaces,     \* interface names `keygen` was run for
          MaxFailures \* how many of the commands a run may see fail

NoIface == "none"

VARIABLES
  lkConf,   \* the interfaces with a WireGuard config of worker-link's
  lkJoined, \* the interfaces whose state record names a host
  lkFile,   \* the interface the saved ruleset filters
  lkUnits,  \* the interface the installed units name
  lkTable,  \* the interface the loaded table filters
  lkReq,    \* the interface whose wg-quick unit requires the firewall unit
  lkTimer,  \* the re-assert timer is enabled and active
  lkBoot,   \* the interfaces started at boot (wg-quick@ enabled)
  lkUp,     \* the interfaces that are up
  lkOp,     \* the command in flight
  lkTold,   \* the interfaces the operator was last told to bring down by hand
  lkFails   \* commands that failed so far

linkVars == <<lkConf, lkJoined, lkFile, lkUnits, lkTable, lkReq, lkTimer, lkBoot,
              lkUp, lkOp, lkTold, lkFails>>
files == <<lkConf, lkJoined, lkFile, lkUnits>>
services == <<lkReq, lkTimer, lkBoot>>

Idle == [at |-> "idle", iface |-> NoIface]
At(pc) == [lkOp EXCEPT !.at = pc]
i == lkOp.iface

\* A node on which `keygen` has run and nothing else.
LinkInit ==
  /\ lkConf = {} /\ lkJoined = {} /\ lkFile = NoIface /\ lkUnits = NoIface
  /\ lkTable = NoIface /\ lkReq = NoIface /\ lkTimer = FALSE
  /\ lkBoot = {} /\ lkUp = {} /\ lkOp = Idle /\ lkTold = {} /\ lkFails = 0

Succeeds == UNCHANGED lkFails
Fails == lkFails < MaxFailures /\ lkFails' = lkFails + 1

\* The links this node has: the one its unit names, and every recorded one with a config.
Installed == ({lkUnits} \ {NoIface}) \cup (lkJoined \cap lkConf)

Live(l) == l \in lkUp \/ l \in lkBoot
-------------------------------------------------------------------------------
(* join *)

\* A second link is refused (the firewall is node-wide), and so is an interface somebody
\* else brought up.  Then the WireGuard config is written.
JoinBegins(l) ==
  /\ lkOp = Idle
  /\ Installed \subseteq {l}
  /\ l \in lkConf \/ ~Live(l)
  /\ lkConf' = lkConf \cup {l}
  /\ lkOp' = [at |-> "load", iface |-> l]
  /\ UNCHANGED <<lkJoined, lkFile, lkUnits, lkTable, services, lkUp, lkTold, lkFails>>

\* The ruleset goes into the kernel first; a refused one leaves the old one as it was.
JoinLoads ==
  /\ lkOp.at = "load"
  /\ \/ Succeeds /\ lkTable' = i /\ lkOp' = At("save")
     \/ Fails /\ lkOp' = Idle /\ UNCHANGED lkTable
  /\ UNCHANGED <<files, services, lkUp, lkTold>>

JoinSaves ==
  /\ lkOp.at = "save"
  /\ lkFile' = i
  /\ lkOp' = At("check")
  /\ UNCHANGED <<lkConf, lkJoined, lkUnits, lkTable, services, lkUp, lkTold, lkFails>>

\* Read back: a table that is not in force takes the link down (it stays enabled).
JoinChecks ==
  /\ lkOp.at = "check"
  /\ lkOp' = At(IF lkTable = i THEN "units" ELSE "down")
  /\ UNCHANGED <<files, lkTable, services, lkUp, lkTold, lkFails>>

JoinInstallsUnits ==
  /\ lkOp.at = "units"
  /\ lkUnits' = i
  /\ lkOp' = At("enable")
  /\ UNCHANGED <<lkConf, lkJoined, lkFile, lkTable, services, lkUp, lkTold, lkFails>>

\* Enabling the firewall unit starts it, which loads the saved ruleset, unless it already ran.
JoinEnablesFirewall ==
  /\ lkOp.at = "enable"
  /\ \/ Succeeds /\ lkReq' = i /\ lkTable' \in {lkTable, lkFile} /\ lkOp' = At("timer")
     \/ Fails /\ lkOp' = At("disable") /\ UNCHANGED <<lkReq, lkTable>>
  /\ UNCHANGED <<files, lkTimer, lkBoot, lkUp, lkTold>>

\* The timer's failure ignored: nothing puts a flushed table back.
JoinEnablesTimerOrNot ==
  /\ lkOp.at = "timer"
  /\ \/ Succeeds /\ lkTimer' = TRUE
     \/ Fails /\ UNCHANGED lkTimer
  /\ lkOp' = At("start")
  /\ UNCHANGED <<files, lkTable, lkReq, lkBoot, lkUp, lkTold>>

JoinEnablesTimer ==
  /\ lkOp.at = "timer"
  /\ \/ Succeeds /\ lkTimer' = TRUE /\ lkOp' = At("start")
     \/ Fails /\ lkOp' = At("disable") /\ UNCHANGED lkTimer
  /\ UNCHANGED <<files, lkTable, lkReq, lkBoot, lkUp, lkTold>>

\* A running link is restarted, another one enabled and started.
JoinStarts ==
  /\ lkOp.at = "start"
  /\ \/ /\ Succeeds
        /\ lkUp' = lkUp \cup {i}
        /\ lkBoot' = IF i \in lkUp THEN lkBoot ELSE lkBoot \cup {i}
        /\ lkOp' = At("persist")
     \/ /\ Fails
        /\ lkUp' \in {lkUp, lkUp \ {i}}
        /\ lkOp' = At("retry")
        /\ UNCHANGED lkBoot
  /\ UNCHANGED <<files, lkTable, lkReq, lkTimer, lkTold>>

\* A failed (re)start: stop it, and bring it up by hand unless it would not stop.
JoinRetries ==
  /\ lkOp.at = "retry"
  /\ \/ /\ i \in lkUp /\ Fails
        /\ lkTold' = lkTold \cup {i}
        /\ lkOp' = Idle /\ UNCHANGED lkUp
     \/ /\ Succeeds
        /\ lkUp' = lkUp \cup {i}
        /\ lkOp' = At("persist") /\ UNCHANGED lkTold
     \/ /\ Fails
        /\ lkUp' = lkUp \ {i}
        /\ lkOp' = Idle /\ UNCHANGED lkTold
  /\ UNCHANGED <<files, lkTable, services>>

\* A link that is up but will not be enabled is reported and left up, filtered.
JoinPersists ==
  /\ lkOp.at = "persist"
  /\ \/ /\ i \notin lkUp /\ lkOp' = Idle /\ Succeeds /\ UNCHANGED lkBoot
     \/ /\ i \in lkUp /\ Succeeds
        /\ lkBoot' = lkBoot \cup {i} /\ lkOp' = At("verify")
     \/ /\ i \in lkUp \ lkBoot /\ Fails
        /\ lkOp' = Idle /\ UNCHANGED lkBoot
  /\ UNCHANGED <<files, lkTable, lkReq, lkTimer, lkUp, lkTold>>

\* A peer other than the bundle's takes the link down again; otherwise the join is recorded.
JoinVerifies ==
  /\ lkOp.at = "verify"
  /\ \/ Fails /\ lkOp' = At("down") /\ UNCHANGED <<lkJoined, lkTold>>
     \/ Succeeds /\ lkJoined' = lkJoined \cup {i} /\ lkTold' = lkTold \ {i} /\ lkOp' = Idle
  /\ UNCHANGED <<lkConf, lkFile, lkUnits, lkTable, services, lkUp>>

\* _linux_fail_closed, first half: the link must not start at boot without its firewall.
FailClosedDisables ==
  /\ lkOp.at = "disable"
  /\ \/ Succeeds /\ lkBoot' = lkBoot \ {i} /\ UNCHANGED lkTold
     \/ i \in lkBoot /\ Fails /\ lkTold' = lkTold \cup {i} /\ UNCHANGED lkBoot
  /\ lkOp' = At("down")
  /\ UNCHANGED <<files, lkTable, lkReq, lkTimer, lkUp>>

\* _linux_fail_closed, second half: stop, wg-quick down, ip link delete.
FailClosedDowns ==
  /\ lkOp.at = "down"
  /\ \/ Succeeds /\ lkUp' = lkUp \ {i} /\ UNCHANGED lkTold
     \/ i \in lkUp /\ Fails /\ lkTold' = lkTold \cup {i} /\ UNCHANGED lkUp
  /\ lkOp' = Idle
  /\ UNCHANGED <<files, lkTable, services>>
-------------------------------------------------------------------------------
(* leave *)

\* Refused for an interface that is not the node's link, or that worker-link did not bring up.
LeaveBegins(l) ==
  /\ lkOp = Idle
  /\ Installed # {} => l \in Installed
  /\ l \in lkConf \/ l \in Installed \/ ~Live(l)
  /\ lkOp' = [at |-> "ldown", iface |-> l]
  /\ UNCHANGED <<files, lkTable, services, lkUp, lkTold, lkFails>>

LeaveEndsTold == lkOp' = Idle /\ lkTold' = lkTold \cup {i}

\* Stop and disable the link; while it is up, or would start at boot, its firewall stays.
LeaveDowns ==
  /\ lkOp.at = "ldown"
  /\ \/ /\ Succeeds
        /\ lkUp' = lkUp \ {i} /\ lkBoot' = lkBoot \ {i}
        /\ lkOp' = At("lunits") /\ UNCHANGED lkTold
     \/ /\ Fails /\ i \in lkUp
        /\ lkBoot' \in {lkBoot, lkBoot \ {i}} /\ UNCHANGED lkUp
        /\ LeaveEndsTold
     \/ /\ Fails /\ i \in lkBoot
        /\ lkUp' = lkUp \ {i} /\ UNCHANGED lkBoot
        /\ LeaveEndsTold
  /\ UNCHANGED <<files, lkTable, lkReq, lkTimer>>

\* The timer first, then the firewall unit, whose stop deletes the table; either may resist.
LeaveStopsUnits ==
  /\ lkOp.at = "lunits"
  /\ \/ /\ Succeeds
        /\ lkTimer' = FALSE /\ lkReq' = NoIface /\ lkTable' = NoIface
        /\ lkOp' = At("ltable")
     \/ /\ Fails
        /\ lkTimer' \in {lkTimer, FALSE}
        /\ \/ UNCHANGED <<lkReq, lkTable>>
           \/ lkReq' = NoIface /\ lkTable' = NoIface
        /\ lkOp' = Idle
  /\ UNCHANGED <<files, lkBoot, lkUp, lkTold>>

LeaveDeletesTable ==
  /\ lkOp.at = "ltable"
  /\ \/ Succeeds /\ lkTable' = NoIface /\ lkOp' = At("lfiles")
     \/ Fails /\ lkOp' = Idle /\ UNCHANGED lkTable
  /\ UNCHANGED <<files, services, lkUp, lkTold>>

LeaveRemovesUnits ==
  /\ lkOp.at = "lfiles"
  /\ lkUnits' = NoIface /\ lkFile' = NoIface
  /\ lkOp' = At("lconf")
  /\ UNCHANGED <<lkConf, lkJoined, lkTable, services, lkUp, lkTold, lkFails>>

LeaveRemovesConf ==
  /\ lkOp.at = "lconf"
  /\ lkConf' = lkConf \ {i}
  /\ lkOp' = At("lstate")
  /\ UNCHANGED <<lkJoined, lkFile, lkUnits, lkTable, services, lkUp, lkTold, lkFails>>

LeaveForgets ==
  /\ lkOp.at = "lstate"
  /\ lkJoined' = lkJoined \ {i}
  /\ lkTold' = lkTold \ {i}
  /\ lkOp' = Idle
  /\ UNCHANGED <<lkConf, lkFile, lkUnits, lkTable, services, lkUp, lkFails>>
-------------------------------------------------------------------------------
(* What happens beside the commands *)

\* The re-assert service: load the saved ruleset, or take the link down.
Reassert ==
  /\ lkTimer
  /\ \/ /\ lkFile # NoIface
        /\ lkTable' = lkFile /\ UNCHANGED <<lkUp, lkFails>>
     \/ /\ lkFile = NoIface /\ UNCHANGED lkFails
        /\ lkUp' = lkUp \ {lkUnits} /\ UNCHANGED lkTable
     \/ /\ lkFile # NoIface /\ Fails
        /\ lkUp' = lkUp \ {lkUnits} /\ UNCHANGED lkTable
  /\ UNCHANGED <<files, services, lkOp, lkTold>>

\* Another tool flushes every table (an nft flush, a stock nftables.conf).
TableFlushed ==
  /\ lkTable # NoIface
  /\ Fails
  /\ lkTable' = NoIface
  /\ UNCHANGED <<files, services, lkUp, lkOp, lkTold>>

\* The command is killed between two steps.
CommandKilled ==
  /\ lkOp # Idle
  /\ Fails
  /\ lkOp' = Idle
  /\ UNCHANGED <<files, lkTable, services, lkUp, lkTold>>

\* A reboot: the firewall unit loads the saved ruleset (or fails its assertion), then the
\* enabled links start, each only after the unit it requires.
Reboot ==
  /\ Fails
  /\ lkOp' = Idle
  /\ lkTable' \in IF lkReq = NoIface THEN {NoIface} ELSE {lkFile, NoIface}
  /\ lkUp' = {l \in lkBoot \cap lkConf : lkReq = l => lkTable' # NoIface}
  /\ UNCHANGED <<files, services, lkTold>>

LinkNext ==
  \/ \E l \in Ifaces : JoinBegins(l) \/ LeaveBegins(l)
  \/ JoinLoads \/ JoinSaves \/ JoinChecks \/ JoinInstallsUnits
  \/ JoinEnablesFirewall \/ JoinEnablesTimer \/ JoinStarts \/ JoinRetries
  \/ JoinPersists \/ JoinVerifies \/ FailClosedDisables \/ FailClosedDowns
  \/ LeaveDowns \/ LeaveStopsUnits \/ LeaveDeletesTable
  \/ LeaveRemovesUnits \/ LeaveRemovesConf \/ LeaveForgets
  \/ Reassert \/ TableFlushed \/ CommandKilled \/ Reboot

LinkSpec == LinkInit /\ [][LinkNext]_linkVars

\* systemd fires an active timer every minute.
LinkFairness == WF_linkVars(Reassert)
-------------------------------------------------------------------------------
(* A link that is up is filtered, or the timer that filters it again (or takes  *)
(* it down) is running on units that name it, or the command is taking it down, *)
(* or the operator was told to do so by hand.                                   *)
LinkFiltered ==
  \A l \in lkUp :
    \/ lkTable = l
    \/ lkTimer /\ lkUnits = l
    \/ lkOp.iface = l /\ lkOp.at \in {"disable", "down", "ldown"}
    \/ l \in lkTold

(* A link that starts at boot requires the firewall unit, and the ruleset that  *)
(* unit asserts is the link's: no boot, and no kill of a command followed by a  *)
(* boot, brings the link up without its table.                                  *)
BootsFiltered ==
  \A l \in lkBoot :
    \/ lkReq = l /\ lkFile = l /\ lkUnits = l
    \/ lkOp.iface = l /\ lkOp.at = "disable"
    \/ l \in lkTold

(* A link that is up without its table is filtered again, taken down, or the    *)
(* operator is told, whatever command, flush or reboot got in between.          *)
DownOrFiltered(l) == l \notin lkUp \/ lkTable = l \/ l \in lkTold
===============================================================================
