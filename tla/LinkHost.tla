------------------------------- MODULE LinkHost -------------------------------
(* The host's end of the overlay link: init, add, remove and teardown of        *)
(* host/worker_link_apply.py, over the key file, the interface config, the      *)
(* persisted environment file and the live interface.  A command holds the      *)
(* installation lock, so one runs at a time; it may be killed between two       *)
(* steps, every system command in it may fail, files may be lost or restored    *)
(* from a backup, and the host may reboot.                                      *)
EXTENDS Naturals

CONSTANTS LinkWorkers, \* names of workers
          Addrs,       \* overlay addresses of the host an operator may pass to init
          MaxKeys,     \* how many host keys may be generated
          MaxTrouble   \* how many faults (failed commands, kills, lost files, reboots)

NoAddr == 0

VARIABLES
  hlKey,     \* the key in the key file, 0 when there is none
  hlConf,    \* the interface config: its key (0: no file), address and peers
  hlEnv,     \* the address in the environment file, NoAddr when there is none
  hlFw,      \* the firewall is loaded and its units are installed
  hlUp,      \* the interface is up
  hlLive,    \* what the interface runs with
  hlBoot,    \* the interface starts at boot
  hlBundle,  \* worker -> the key and address its join bundle pins (key 0: none)
  hlRotated, \* workers told that the key they pin was rotated on request
  hlOp,      \* the command in flight
  hlClean,   \* the last command ended in success
  hlNext,    \* the next key to be generated
  hlTrouble

hostVars == <<hlKey, hlConf, hlEnv, hlFw, hlUp, hlLive, hlBoot, hlBundle,
              hlRotated, hlOp, hlClean, hlNext, hlTrouble>>

NoConf == [key |-> 0, addr |-> NoAddr, peers |-> {}]
NoBundle == [key |-> 0, addr |-> NoAddr]
NoCommand == [at |-> "idle"]

HostInit ==
  /\ hlKey = 0 /\ hlConf = NoConf /\ hlEnv = NoAddr
  /\ hlFw = FALSE /\ hlUp = FALSE /\ hlLive = NoConf /\ hlBoot = FALSE
  /\ hlBundle = [w \in LinkWorkers |-> NoBundle]
  /\ hlRotated = {} /\ hlOp = NoCommand /\ hlClean = TRUE
  /\ hlNext = 1 /\ hlTrouble = 0

Trouble == hlTrouble < MaxTrouble /\ hlTrouble' = hlTrouble + 1
Smooth == UNCHANGED hlTrouble
Ends == hlOp' = NoCommand
Done == Ends /\ hlClean' = TRUE
Raises == Ends /\ UNCHANGED hlClean
ToStep(pc) == hlOp' = [hlOp EXCEPT !.at = pc] /\ UNCHANGED hlClean
-------------------------------------------------------------------------------
(* init *)

\* What the fleet was configured for: the environment file, or what the config keeps.
Previous == IF hlEnv # NoAddr THEN hlEnv ELSE hlConf.addr

\* The address may change only while no worker is registered.
Compatible(a) == hlConf.peers = {} \/ Previous = a

\* _reconcile_host_key: keep the key the registered workers pin, unless told to rotate it.
Reconcile(rotate) ==
  \/ /\ rotate
     /\ hlKey' = 0
     /\ hlRotated' = hlRotated \cup hlConf.peers
  \/ /\ ~rotate /\ hlKey = 0 /\ hlConf.key # 0
     /\ hlKey' = hlConf.key
     /\ UNCHANGED hlRotated
  \/ /\ ~rotate /\ ~(hlKey = 0 /\ hlConf.key # 0)
     /\ hlConf.peers # {} => hlKey # 0 /\ hlKey = hlConf.key
     /\ UNCHANGED <<hlKey, hlRotated>>

InitBegins(a, rotate) ==
  /\ hlOp = NoCommand
  /\ hlConf.key # 0 \/ ~(hlUp \/ hlBoot)
  /\ Compatible(a)
  /\ Reconcile(rotate)
  /\ hlOp' = [at |-> "fw", addr |-> a]
  /\ hlClean' = FALSE
  /\ UNCHANGED <<hlConf, hlEnv, hlFw, hlUp, hlLive, hlBoot, hlBundle, hlNext, hlTrouble>>

\* install_firewall: a refused ruleset changes nothing, one that is not in force or not
\* persisted closes the link.
InitFirewall ==
  /\ hlOp.at = "fw"
  /\ \/ Smooth /\ hlFw' = TRUE /\ ToStep("key")
     \/ Trouble /\ Raises /\ UNCHANGED hlFw
     \/ Trouble /\ ToStep("close") /\ UNCHANGED hlFw
  /\ UNCHANGED <<hlKey, hlConf, hlEnv, hlUp, hlLive, hlBoot, hlBundle, hlRotated, hlNext>>

\* _host_fail_closed; what could not be disabled or taken down is reported.
InitFailsClosed ==
  /\ hlOp.at = "close"
  /\ \/ Smooth /\ hlBoot' = FALSE /\ hlUp' = FALSE
     \/ Trouble /\ hlBoot' \in {hlBoot, FALSE} /\ hlUp' \in {hlUp, FALSE}
  /\ Raises
  /\ UNCHANGED <<hlKey, hlConf, hlEnv, hlFw, hlLive, hlBundle, hlRotated, hlNext>>

\* ensure_keypair generates a key when the file is missing or empty.
InitKeys ==
  /\ hlOp.at = "key"
  /\ \/ hlKey # 0 /\ UNCHANGED <<hlKey, hlNext>>
     \/ hlKey = 0 /\ hlNext <= MaxKeys /\ hlKey' = hlNext /\ hlNext' = hlNext + 1
  /\ ToStep("conf")
  /\ Smooth
  /\ UNCHANGED <<hlConf, hlEnv, hlFw, hlUp, hlLive, hlBoot, hlBundle, hlRotated>>

InitWritesConf ==
  /\ hlOp.at = "conf"
  /\ hlConf' = [hlConf EXCEPT !.key = hlKey, !.addr = hlOp.addr]
  /\ ToStep("link")
  /\ Smooth
  /\ UNCHANGED <<hlKey, hlEnv, hlFw, hlUp, hlLive, hlBoot, hlBundle, hlRotated, hlNext>>

Stale == hlLive.key # hlConf.key \/ hlLive.addr # hlConf.addr

\* Bring the link up, or restart it when it runs another key or address.
InitLink ==
  /\ hlOp.at = "link"
  /\ \/ ~hlUp /\ Smooth /\ hlUp' = TRUE /\ hlLive' = hlConf /\ hlBoot' = TRUE /\ ToStep("peers")
     \/ hlUp /\ Stale /\ Smooth /\ hlLive' = hlConf /\ ToStep("peers") /\ UNCHANGED <<hlUp, hlBoot>>
     \/ hlUp /\ ~Stale /\ Smooth /\ ToStep("peers") /\ UNCHANGED <<hlUp, hlLive, hlBoot>>
     \/ ~hlUp /\ Trouble /\ Raises /\ UNCHANGED <<hlUp, hlLive, hlBoot>>
     \/ hlUp /\ Stale /\ Trouble /\ Raises /\ hlUp' \in BOOLEAN /\ UNCHANGED <<hlLive, hlBoot>>
  /\ UNCHANGED <<hlKey, hlConf, hlEnv, hlFw, hlBundle, hlRotated, hlNext>>

\* _apply_peers: wg syncconf until the live peers are the config's; not on a link that is down.
PeersApplied == hlLive' = IF hlUp THEN [hlLive EXCEPT !.peers = hlConf.peers] ELSE hlLive

InitAppliesPeers ==
  /\ hlOp.at = "peers"
  /\ \/ Smooth /\ PeersApplied /\ ToStep("persist")
     \/ hlLive.peers # hlConf.peers /\ Trouble /\ Raises /\ UNCHANGED hlLive
  /\ UNCHANGED <<hlKey, hlConf, hlEnv, hlFw, hlUp, hlBoot, hlBundle, hlRotated, hlNext>>

\* The link is enabled at boot, and only then is its configuration recorded.
InitPersists ==
  /\ hlOp.at = "persist"
  /\ \/ Smooth /\ hlBoot' = TRUE /\ hlEnv' = hlOp.addr /\ Done
     \/ ~hlBoot /\ Trouble /\ Raises /\ UNCHANGED <<hlBoot, hlEnv>>
  /\ UNCHANGED <<hlKey, hlConf, hlFw, hlUp, hlLive, hlBundle, hlRotated, hlNext>>
-------------------------------------------------------------------------------
(* add and remove *)

\* _refuse_uninstalled_override: the settings of the command are those of the environment file.
AsInstalled == hlEnv # NoAddr

\* Refused without an environment file, a config, or with a key the config does not run with.
AddWrites(w) ==
  /\ hlOp = NoCommand
  /\ AsInstalled /\ hlConf.key # 0 /\ hlKey = hlConf.key
  /\ hlConf' = [hlConf EXCEPT !.peers = @ \cup {w}]
  /\ hlOp' = [at |-> "add", worker |-> w]
  /\ hlClean' = FALSE
  /\ UNCHANGED <<hlKey, hlEnv, hlFw, hlUp, hlLive, hlBoot, hlBundle, hlRotated, hlNext, hlTrouble>>

\* The bundle is handed out only once the live interface has the peer.
AddApplies ==
  /\ hlOp.at = "add"
  /\ \/ /\ Smooth /\ PeersApplied /\ Done
        /\ hlBundle' = [hlBundle EXCEPT ![hlOp.worker] = [key |-> hlKey, addr |-> hlEnv]]
        /\ hlRotated' = hlRotated \ {hlOp.worker}
     \/ /\ hlUp /\ hlLive.peers # hlConf.peers
        /\ Trouble /\ Raises /\ UNCHANGED <<hlLive, hlBundle, hlRotated>>
  /\ UNCHANGED <<hlKey, hlConf, hlEnv, hlFw, hlUp, hlBoot, hlNext>>

\* A name that is not registered is reconciled all the same: an earlier remove may have failed
\* after it wrote the config.
RemoveWrites(w) ==
  /\ hlOp = NoCommand
  /\ hlConf.key # 0 /\ (AsInstalled \/ hlFw)
  /\ hlConf' = [hlConf EXCEPT !.peers = @ \ {w}]
  /\ hlBundle' = IF w \in hlConf.peers THEN [hlBundle EXCEPT ![w] = NoBundle] ELSE hlBundle
  /\ hlOp' = [at |-> "remove"]
  /\ hlClean' = FALSE
  /\ UNCHANGED <<hlKey, hlEnv, hlFw, hlUp, hlLive, hlBoot, hlRotated, hlNext, hlTrouble>>

RemoveApplies ==
  /\ hlOp.at = "remove"
  /\ \/ Smooth /\ PeersApplied /\ Done
     \/ hlUp /\ hlLive.peers # hlConf.peers /\ Trouble /\ Raises /\ UNCHANGED hlLive
  /\ UNCHANGED <<hlKey, hlConf, hlEnv, hlFw, hlUp, hlBoot, hlBundle, hlRotated, hlNext>>
-------------------------------------------------------------------------------
(* teardown: the link first, then its firewall and records; config and keys stay *)

TeardownDowns ==
  /\ hlOp = NoCommand
  /\ \/ Smooth /\ hlUp' = FALSE /\ hlBoot' = FALSE /\ hlOp' = [at |-> "tear"]
     \/ Trouble /\ UNCHANGED hlOp
        /\ \/ hlUp /\ hlBoot' \in {hlBoot, FALSE} /\ UNCHANGED hlUp
           \/ hlBoot /\ hlUp' = FALSE /\ UNCHANGED hlBoot
  /\ hlClean' = FALSE
  /\ UNCHANGED <<hlKey, hlConf, hlEnv, hlFw, hlLive, hlBundle, hlRotated, hlNext>>

TeardownRemoves ==
  /\ hlOp.at = "tear"
  /\ \/ Smooth /\ hlFw' = FALSE /\ hlEnv' = NoAddr /\ Done
     \/ Trouble /\ hlFw' \in {hlFw, FALSE} /\ UNCHANGED hlEnv /\ Raises
  /\ UNCHANGED <<hlKey, hlConf, hlUp, hlLive, hlBoot, hlBundle, hlRotated, hlNext>>
-------------------------------------------------------------------------------
(* What happens beside the commands *)

\* The key file is deleted, or restored from an older backup.
KeyFileChanges ==
  /\ hlOp = NoCommand /\ Trouble
  /\ hlKey' \in (0..(hlNext - 1)) \ {hlKey}
  /\ UNCHANGED <<hlConf, hlEnv, hlFw, hlUp, hlLive, hlBoot, hlBundle, hlRotated, hlOp, hlClean, hlNext>>

EnvFileLost ==
  /\ hlOp = NoCommand /\ hlEnv # NoAddr /\ Trouble
  /\ hlEnv' = NoAddr
  /\ UNCHANGED <<hlKey, hlConf, hlFw, hlUp, hlLive, hlBoot, hlBundle, hlRotated, hlOp, hlClean, hlNext>>

HostKilled ==
  /\ hlOp # NoCommand /\ Trouble
  /\ Raises
  /\ UNCHANGED <<hlKey, hlConf, hlEnv, hlFw, hlUp, hlLive, hlBoot, hlBundle, hlRotated, hlNext>>

\* The link comes back, with what its config holds, if it is enabled and its firewall loads.
HostReboots ==
  /\ Trouble
  /\ hlUp' = (hlBoot /\ hlFw /\ hlConf.key # 0)
  /\ hlLive' = IF hlUp' THEN hlConf ELSE hlLive
  /\ Raises
  /\ UNCHANGED <<hlKey, hlConf, hlEnv, hlFw, hlBoot, hlBundle, hlRotated, hlNext>>

HostNext ==
  \/ \E a \in Addrs, rotate \in BOOLEAN : InitBegins(a, rotate)
  \/ InitFirewall \/ InitFailsClosed \/ InitKeys \/ InitWritesConf \/ InitLink
  \/ InitAppliesPeers \/ InitPersists
  \/ \E w \in LinkWorkers : AddWrites(w) \/ RemoveWrites(w)
  \/ AddApplies \/ RemoveApplies \/ TeardownDowns \/ TeardownRemoves
  \/ KeyFileChanges \/ EnvFileLost \/ HostKilled \/ HostReboots

HostSpec == HostInit /\ [][HostNext]_hostVars
-------------------------------------------------------------------------------
(* The config runs the key that every registered worker's bundle pins, unless   *)
(* the operator asked for a rotation: no lost or restored key file, failed or   *)
(* killed init, teardown or reboot cuts the fleet off silently.                 *)
FleetKeepsItsKey ==
  \A w \in hlConf.peers \ hlRotated :
    hlBundle[w].key # 0 => hlBundle[w].key = hlConf.key

(* After a command that reports success the live interface has exactly the      *)
(* registered peers: re-running a command that failed or was killed reconciles  *)
(* the interface, and a removed worker is off it.                               *)
PeersReconciled == hlClean /\ hlUp => hlLive.peers = hlConf.peers

===============================================================================
