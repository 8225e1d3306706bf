------------------------------ MODULE LinkDarwin ------------------------------
(* The worker's end of the overlay link on macOS: the root watchdog that launchd *)
(* runs every 30 s, `join` and `leave` (worker/link.py).  wg-quick is given a    *)
(* utun by the kernel and keeps a note of it in a name file; pf filters the      *)
(* link only while it is enabled, its main ruleset evaluates our anchor, and the *)
(* anchor holds the rules of that utun.  The watchdog does not take the node's   *)
(* lock: its steps interleave with the commands', with the other tunnels of the  *)
(* machine, and with whoever else uses pf.                                       *)
EXTENDS Naturals, FiniteSets

CONSTANTS Utuns,     \* utun numbers (macOS reuses them)
          MaxEvents  \* how many outside events and failures may happen

NoUtun == "none"

VARIABLES
  dkTun,    \* utun -> "free", "ours" (it runs our key) or "other"
  dkName,   \* the utun in wg-quick's name file
  dkPf,     \* pf is enabled
  dkMain,   \* the main ruleset evaluates our anchor and passes nothing before it
  dkAnchor, \* the anchor: no rules, the closed ones, or those for a utun
  dkStamp,  \* the utun the watchdog last loaded rules for
  dkLoaded, \* the LaunchDaemon is loaded
  dkPlist,  \* its plist is installed: it is loaded again at boot
  dkDog,    \* the watchdog run in flight and the utun it works on
  dkOp,     \* the join or leave in flight
  dkTold,   \* a command reported that it could not finish the link off
  dkEvents

darwinVars == <<dkTun, dkName, dkPf, dkMain, dkAnchor, dkStamp, dkLoaded, dkPlist, dkDog,
                dkOp, dkTold, dkEvents>>
pfVars == <<dkPf, dkMain, dkAnchor>>

Asleep == [at |-> "asleep", real |-> NoUtun]
Ours == {u \in Utuns : dkTun[u] = "ours"}
Quiet == UNCHANGED dkEvents
Event == dkEvents < MaxEvents /\ dkEvents' = dkEvents + 1
Dog(pc, real) == dkDog' = [at |-> pc, real |-> real]

\* What `wg-quick down` acts on is whatever the name file names.
DownNamed(tun, name) == IF name = NoUtun THEN tun ELSE [tun EXCEPT ![name] = "free"]

\* The note is kept only when the utun's key is positively ours.
NameKept == IF dkName # NoUtun /\ dkTun[dkName] = "ours" THEN dkName ELSE NoUtun

DarwinInit ==
  /\ dkTun = [u \in Utuns |-> "free"] /\ dkName = NoUtun
  /\ dkPf = FALSE /\ dkMain = TRUE /\ dkAnchor = NoUtun /\ dkStamp = NoUtun
  /\ dkLoaded = FALSE /\ dkPlist = FALSE /\ dkDog = Asleep /\ dkOp = "idle" /\ dkTold = FALSE /\ dkEvents = 0
-------------------------------------------------------------------------------
(* The watchdog *)

\* Take one enable reference of pf; a pf that stays disabled takes the link down.
DogEnablesPf ==
  /\ dkLoaded /\ dkDog = Asleep
  /\ \/ Quiet /\ dkPf' = TRUE /\ Dog("main", NoUtun)
     \/ ~dkPf /\ Event /\ UNCHANGED dkPf /\ Dog("force", NoUtun)
  /\ UNCHANGED <<dkTun, dkName, dkMain, dkAnchor, dkStamp, dkLoaded, dkOp, dkTold, dkPlist>>

DogChecksMain ==
  /\ dkDog.at = "main"
  /\ Dog(IF dkMain THEN "find" ELSE "force", NoUtun)
  /\ UNCHANGED <<dkTun, dkName, pfVars, dkStamp, dkLoaded, dkOp, dkTold, dkEvents, dkPlist>>

OursLive(name) == name # NoUtun /\ dkTun[name] = "ours"

\* A missing or stale name file while a utun runs our key is written again.
DogFinds ==
  /\ dkDog.at = "find"
  /\ IF OursLive(dkName) \/ Ours = {} THEN UNCHANGED dkName ELSE dkName' \in Ours
  /\ IF OursLive(dkName') THEN Dog("anchor", dkName') ELSE Dog("close", NoUtun)
  /\ UNCHANGED <<dkTun, pfVars, dkStamp, dkLoaded, dkOp, dkTold, dkEvents, dkPlist>>

\* The closed rules go in before the tunnel comes up; if pf refuses them, nothing is brought up.
DogCloses ==
  /\ dkDog.at = "close"
  /\ \/ Quiet /\ dkAnchor' = "closed" /\ dkStamp' = NoUtun /\ Dog("down", NoUtun)
     \/ Event /\ UNCHANGED <<dkAnchor, dkStamp>> /\ dkDog' = Asleep
  /\ UNCHANGED <<dkTun, dkName, dkPf, dkMain, dkLoaded, dkOp, dkTold, dkPlist>>

DogDowns ==
  /\ dkDog.at = "down"
  /\ dkTun' = DownNamed(dkTun, NameKept)
  /\ dkName' = NoUtun
  /\ Dog("up", NoUtun)
  /\ UNCHANGED <<pfVars, dkStamp, dkLoaded, dkOp, dkTold, dkEvents, dkPlist>>

\* wg-quick up: the kernel picks a free utun; it may fail.
DogUps ==
  /\ dkDog.at = "up"
  /\ \/ \E u \in Utuns :
          /\ dkTun[u] = "free" /\ Quiet
          /\ dkTun' = [dkTun EXCEPT ![u] = "ours"]
          /\ dkName' = u
          /\ Dog("anchor", u)
     \/ (Event \/ (Quiet /\ \A u \in Utuns : dkTun[u] # "free"))
        /\ dkDog' = Asleep /\ UNCHANGED <<dkTun, dkName>>
  /\ UNCHANGED <<pfVars, dkStamp, dkLoaded, dkOp, dkTold, dkPlist>>

\* Load the rules of this utun unless exactly they are in force.
DogLoadsAnchor ==
  /\ dkDog.at = "anchor"
  /\ \/ /\ dkStamp = dkDog.real /\ dkAnchor = dkDog.real /\ Quiet
        /\ Dog("bypass", dkDog.real) /\ UNCHANGED <<dkAnchor, dkStamp>>
     \/ /\ ~(dkStamp = dkDog.real /\ dkAnchor = dkDog.real) /\ Quiet
        /\ dkAnchor' = dkDog.real /\ dkStamp' = dkDog.real
        /\ Dog("bypass", dkDog.real)
     \/ /\ ~(dkStamp = dkDog.real /\ dkAnchor = dkDog.real) /\ Event
        /\ Dog("force", dkDog.real) /\ UNCHANGED <<dkAnchor, dkStamp>>
  /\ UNCHANGED <<dkTun, dkName, dkPf, dkMain, dkLoaded, dkOp, dkTold, dkPlist>>

DogChecksBypass ==
  /\ dkDog.at = "bypass"
  /\ IF dkMain THEN dkDog' = Asleep ELSE Dog("force", dkDog.real)
  /\ UNCHANGED <<dkTun, dkName, pfVars, dkStamp, dkLoaded, dkOp, dkTold, dkEvents, dkPlist>>

\* The tunnels running our key, stopped by removing their control sockets.
KeyDown(tun) == [u \in Utuns |-> IF tun[u] = "ours" THEN "free" ELSE tun[u]]

\* force_down: by name if the note is ours, then every utun that runs our key; a tunnel that
\* stays up is logged and the next run tries again.
DogForcesDown ==
  /\ dkDog.at = "force"
  /\ \/ Quiet /\ dkTun' = KeyDown(dkTun)
     \/ Event /\ UNCHANGED dkTun
  /\ dkName' = NoUtun /\ dkStamp' = NoUtun
  /\ dkDog' = Asleep
  /\ UNCHANGED <<pfVars, dkLoaded, dkOp, dkTold, dkPlist>>
-------------------------------------------------------------------------------
(* join and leave *)

\* A re-join with a changed config takes the old tunnel down first, and stops if it cannot.
JoinsDown ==
  /\ dkOp = "idle"
  /\ \/ dkTun' = KeyDown(dkTun) /\ dkName' = NoUtun /\ dkOp' = "load" /\ Quiet /\ UNCHANGED dkTold
     \/ Ours # {} /\ Event /\ dkTold' = TRUE /\ dkName' = NameKept /\ UNCHANGED <<dkTun, dkOp>>
  /\ UNCHANGED <<pfVars, dkStamp, dkLoaded, dkDog, dkPlist>>

\* A re-join with nothing changed leaves the tunnel alone.
JoinsUnchanged ==
  /\ dkOp = "idle"
  /\ dkOp' = "load"
  /\ UNCHANGED <<dkTun, dkName, pfVars, dkStamp, dkLoaded, dkDog, dkTold, dkEvents, dkPlist>>

JoinLoadsDog ==
  /\ dkOp = "load"
  /\ \/ Quiet /\ dkLoaded' = TRUE /\ dkOp' = "wait"
     \/ ~dkLoaded /\ Event /\ dkOp' = "idle" /\ UNCHANGED dkLoaded
  /\ dkPlist' = TRUE
  /\ UNCHANGED <<dkTun, dkName, pfVars, dkStamp, dkDog, dkTold>>

InForce(u) == dkPf /\ dkMain /\ dkAnchor = u

\* Wait for the watchdog to bring the link up and for its rules; a link that is up without
\* them at the deadline is taken down and the watchdog unloaded.
JoinWaits ==
  /\ dkOp = "wait"
  /\ \/ Ours # {} /\ (\A u \in Ours : InForce(u)) /\ Quiet /\ dkOp' = "idle" /\ dkTold' = FALSE
     \/ Ours = {} /\ Event /\ dkOp' = "idle" /\ UNCHANGED dkTold
     \/ Ours # {} /\ Event /\ dkOp' = "unload" /\ UNCHANGED dkTold
  /\ UNCHANGED <<dkTun, dkName, pfVars, dkStamp, dkLoaded, dkDog, dkPlist>>

\* bootout ends a watchdog run in flight; it may leave the daemon loaded.
Unloads == dkLoaded' = FALSE /\ dkDog' = Asleep

JoinUnloads ==
  /\ dkOp = "unload"
  /\ \/ Quiet /\ Unloads
     \/ Event /\ UNCHANGED <<dkLoaded, dkDog>>
  /\ dkOp' = "undo"
  /\ UNCHANGED <<dkTun, dkName, pfVars, dkStamp, dkTold, dkPlist>>

\* _darwin_link_down; what is not confirmed down is reported.
JoinUndoes ==
  /\ dkOp = "undo"
  /\ \/ Quiet /\ dkTun' = KeyDown(dkTun) /\ dkName' = NoUtun /\ UNCHANGED dkTold
     \/ Event /\ dkTold' = TRUE /\ dkName' = NameKept /\ UNCHANGED dkTun
  /\ dkOp' = "idle"
  /\ UNCHANGED <<pfVars, dkStamp, dkLoaded, dkDog, dkPlist>>

\* A daemon that stays loaded ends the leave: the link and its rules are left as they are.
LeaveUnloads ==
  /\ dkOp = "idle"
  /\ \/ Quiet /\ Unloads /\ dkOp' = "leave"
     \/ dkLoaded /\ Event /\ UNCHANGED <<dkLoaded, dkDog, dkOp>>
  /\ UNCHANGED <<dkTun, dkName, pfVars, dkStamp, dkTold, dkPlist>>

\* Only a link confirmed down gives up its rules.
LeaveTakesDown ==
  /\ dkOp = "leave"
  /\ \/ /\ Quiet /\ dkTun' = KeyDown(dkTun) /\ dkName' = NoUtun
        /\ dkOp' = "flush" /\ UNCHANGED dkTold
     \/ /\ Event /\ Ours # {} /\ dkTold' = TRUE /\ dkName' = NameKept
        /\ dkOp' = "idle" /\ UNCHANGED dkTun
  /\ UNCHANGED <<pfVars, dkStamp, dkLoaded, dkDog, dkPlist>>

\* Flush the anchor and give the pf reference back, the last of which disables pf.
LeaveFlushes ==
  /\ dkOp = "flush"
  /\ \/ Quiet /\ dkAnchor' = NoUtun /\ dkPf' \in {dkPf, FALSE} /\ dkTold' = FALSE
        /\ dkPlist' = FALSE
     \/ Event /\ UNCHANGED <<dkAnchor, dkPf, dkTold, dkPlist>>
  /\ dkOp' = "idle"
  /\ UNCHANGED <<dkTun, dkName, dkMain, dkStamp, dkLoaded, dkDog>>
-------------------------------------------------------------------------------
(* The rest of the machine *)

PfInterfered ==
  /\ Event
  /\ \/ dkPf' = FALSE /\ UNCHANGED <<dkMain, dkAnchor>>
     \/ dkMain' = ~dkMain /\ UNCHANGED <<dkPf, dkAnchor>>
     \/ dkAnchor' = NoUtun /\ UNCHANGED <<dkPf, dkMain>>
  /\ UNCHANGED <<dkTun, dkName, dkStamp, dkLoaded, dkDog, dkOp, dkTold, dkPlist>>

OtherTunnel(u) ==
  /\ Event
  /\ \/ dkTun[u] = "free" /\ dkTun' = [dkTun EXCEPT ![u] = "other"]
     \/ dkTun[u] = "other" /\ dkTun' = [dkTun EXCEPT ![u] = "free"]
  /\ UNCHANGED <<dkName, pfVars, dkStamp, dkLoaded, dkDog, dkOp, dkTold, dkPlist>>

\* wireguard-go dies and leaves its name file behind, or the file goes.
TunnelDies ==
  /\ Event
  /\ \/ Ours # {} /\ dkTun' = KeyDown(dkTun) /\ UNCHANGED dkName
     \/ dkName # NoUtun /\ dkName' = NoUtun /\ UNCHANGED dkTun
  /\ UNCHANGED <<pfVars, dkStamp, dkLoaded, dkDog, dkOp, dkTold, dkPlist>>

\* The command is killed under its operator's eyes, or the machine reboots: pf is off, no
\* tunnel is up, and launchd loads what is installed.
MacKilled ==
  /\ Event
  /\ dkOp' = "idle"
  /\ \/ /\ dkOp # "idle" /\ dkTold' = TRUE
        /\ UNCHANGED <<dkTun, dkName, pfVars, dkDog, dkLoaded>>
     \/ /\ dkTun' = [u \in Utuns |-> "free"] /\ dkName' = NoUtun
        /\ dkPf' = FALSE /\ dkMain' = TRUE /\ dkAnchor' = NoUtun /\ dkDog' = Asleep
        /\ dkLoaded' = dkPlist /\ UNCHANGED dkTold
  /\ UNCHANGED <<dkStamp, dkPlist>>

DogRuns ==
  \/ DogEnablesPf \/ DogChecksMain \/ DogFinds \/ DogCloses \/ DogDowns \/ DogUps
  \/ DogLoadsAnchor \/ DogChecksBypass \/ DogForcesDown

Commands ==
  \/ JoinsDown \/ JoinsUnchanged \/ JoinLoadsDog \/ JoinWaits \/ JoinUnloads \/ JoinUndoes
  \/ LeaveUnloads \/ LeaveTakesDown \/ LeaveFlushes

DarwinNext ==
  \/ DogRuns \/ Commands
  \/ PfInterfered \/ TunnelDies \/ MacKilled
  \/ \E u \in Utuns : OtherTunnel(u)

DarwinSpec == DarwinInit /\ [][DarwinNext]_darwinVars

\* launchd runs the watchdog every 30 s and a command in flight goes on.
CommandSteps == dkOp # "idle" /\ Commands
DarwinFairness == WF_darwinVars(DogRuns) /\ WF_darwinVars(CommandSteps)
-------------------------------------------------------------------------------
(* No second tunnel ever runs the link's key beside the first, however the name *)
(* file was lost or went stale.                                                 *)
OneTunnel == Cardinality(Ours) <= 1

(* Nothing worker-link does takes down a tunnel that runs another key, although *)
(* wg-quick acts on the utun its name file names and utun numbers are reused.   *)
OthersUntouched ==
  (DogRuns \/ Commands) =>
    \A u \in Utuns : dkTun[u] = "other" => dkTun'[u] = "other"

Enforced == \A u \in Ours : dkPf /\ dkMain /\ dkAnchor \in {u, "closed"}

(* A link without rules in force is filtered again or taken down, or a command  *)
(* has reported it could not be: whoever disables pf, replaces its rulesets or  *)
(* kills the tunnel, and whatever joins and leaves are running.                 *)
EnforcedOrTold == Enforced \/ dkTold
===============================================================================
