---------------------------------- MODULE Netd ----------------------------------
(***************************************************************************)
(* blastbox-netd (host/netd.py), the root daemon beside the dispatcher: it *)
(* follows `docker events' and, for each labelled worker, captures its     *)
(* traffic, installs the leak guard in its network namespace and wires its *)
(* route (and, for a transproxy worker, redirect rules on the host keyed   *)
(* by its bridge address, which docker hands out again).  The dispatcher   *)
(* seals the capture asynchronously, on a sentinel file.                   *)
(*                                                                         *)
(* netd is one thread: `todo' is what is left of the handler it is in and, *)
(* during a reconcile, of the handlers it will call next.  Everything else *)
(* moves between any two of its calls.                                     *)
(***************************************************************************)
EXTENDS Naturals, Sequences, FiniteSets, SequencesExt

CONSTANTS
    Boxes,          \* the worker containers, in the order docker starts them
    JobOf,          \* container -> its job: attempts of a job share a capture path
    AddrOf,         \* container -> its bridge address, reused when it is free
    WireMode,       \* container -> "transproxy" | "vpn" | "none"
    MaxDrops,       \* bound: times the event stream breaks
    NetFaults       \* subset of {"gap", "list", "cmd", "crash"}

VARIABLES
    life,           \* container -> "none" | "up" | "gone"
    events,         \* docker's event stream, not yet read: <<kind, container>>
    stream,         \* "down" | "listed" (docker ps taken, not subscribed) | "up"
    drops,          \* stream breaks so far
    todo,           \* netd's remaining calls: <<step, container>>
    active,         \* netd.active, netd.wired, netd.transproxy_wired,
    wired,          \*   netd.leakguarded, netd.leakguard_failed
    tproxied,
    guardedSet,
    guardFailed,
    dump,           \* container -> its tcpdump is running
    pcap,           \* job -> the container whose traffic dump.pcap holds, or "none"
    doneFile,       \* job -> dump.pcap.done exists
    guard,          \* container -> the guard's rules are in its namespace
    route,          \* container -> its default route is in place
    redirect,       \* address -> copies of the redirect rules on the host
    sealed          \* container -> "no" | what the dispatcher sealed as its capture

netdMem == <<active, wired, tproxied, guardedSet, guardFailed>>
netVars == <<life, events, stream, drops, todo, netdMem, dump, pcap, doneFile,
             guard, route, redirect, sealed>>

JobIds == {JobOf[c] : c \in Boxes}
Addrs4 == {AddrOf[c] : c \in Boxes}
Fails(f) == f \in NetFaults
Up(c) == life[c] = "up"

NetInit ==
    /\ life = [c \in Boxes |-> "none"]
    /\ events = << >> /\ stream = "down" /\ drops = 0 /\ todo = << >>
    /\ active = {} /\ wired = {} /\ tproxied = {} /\ guardedSet = {} /\ guardFailed = {}
    /\ dump = [c \in Boxes |-> FALSE]
    /\ pcap = [j \in JobIds |-> "none"] /\ doneFile = [j \in JobIds |-> FALSE]
    /\ guard = [c \in Boxes |-> FALSE] /\ route = [c \in Boxes |-> FALSE]
    /\ redirect = [a \in Addrs4 |-> 0]
    /\ sealed = [c \in Boxes |-> "no"]

(* ----- docker and the dispatcher ------------------------------------------- *)

(* An event reaches netd only while the subscription stands; the calls before *)
(* the subscription and after a break are lost.                               *)
Emit(kind, c) == events' = IF stream = "up" THEN Append(events, <<kind, c>>) ELSE events
InWindow == stream # "listed" \/ Fails("gap")

(* The dispatcher runs the next attempt of a job after the previous one ended *)
(* and was sealed; docker gives it an address no running container holds.     *)
ContainerStarts(c) ==
    /\ life[c] = "none" /\ InWindow
    /\ \A d \in Boxes : Up(d) => AddrOf[d] # AddrOf[c] /\ JobOf[d] # JobOf[c]
    /\ \A d \in Boxes : life[d] = "gone" /\ JobOf[d] = JobOf[c] => sealed[d] # "no"
    /\ life' = [life EXCEPT ![c] = "up"]
    /\ Emit("start", c)
    /\ UNCHANGED <<stream, drops, todo, netdMem, dump, pcap, doneFile, guard, route,
                   redirect, sealed>>

ContainerDies(c) ==
    /\ Up(c) /\ InWindow
    /\ life' = [life EXCEPT ![c] = "gone"]
    /\ guard' = [guard EXCEPT ![c] = FALSE] /\ route' = [route EXCEPT ![c] = FALSE]
    /\ Emit("die", c)
    /\ UNCHANGED <<stream, drops, todo, netdMem, dump, pcap, doneFile, redirect, sealed>>

(* _seal_network_capture, after the worker ended: with a pcap and no sentinel *)
(* it waits, but not for ever.                                                *)
SealCapture(c) ==
    /\ life[c] = "gone" /\ sealed[c] = "no"
    /\ sealed' = [sealed EXCEPT ![c] = IF pcap[JobOf[c]] = "none" THEN "nothing"
                                       ELSE pcap[JobOf[c]]]
    /\ UNCHANGED <<life, events, stream, drops, todo, netdMem, dump, pcap, doneFile,
                   guard, route, redirect>>

(* ----- handle_start -------------------------------------------------------- *)

StartSteps(c) == <<<<"inspect", c>>, <<"capture", c>>, <<"guard", c>>, <<"rules", c>>, <<"route", c>>>>
DieSteps(c) == <<<<"stop", c>>, <<"release", c>>>>
Do(step, c) == todo # << >> /\ Head(todo) = <<step, c>>
Done1 == todo' = Tail(todo)
SkipOf(c) == SelectSeq(todo, LAMBDA s : s[2] # c)
Abandon(c) == todo' = SkipOf(c)

(* The container is inspected once, and what the inspection showed is used by *)
(* every later step.  One that is already gone shows neither pid nor address, *)
(* and no step does anything; the inspection may fail as well.                *)
InspectContainer(c) ==
    /\ Do("inspect", c)
    /\ \/ Up(c) /\ Done1
       \/ (~Up(c) \/ Fails("cmd")) /\ Abandon(c)
    /\ UNCHANGED <<life, events, stream, drops, netdMem, dump, pcap, doneFile, guard,
                   route, redirect, sealed>>

(* _maybe_capture: the previous attempt's pcap and sentinel are unlinked      *)
(* before tcpdump starts, which may fail.                                     *)
MaybeCapture(c) ==
    /\ Do("capture", c) /\ Done1
    /\ IF c \in active
       THEN UNCHANGED <<active, dump, pcap, doneFile>>
       ELSE /\ doneFile' = [doneFile EXCEPT ![JobOf[c]] = FALSE]
            /\ \/ /\ active' = active \cup {c}
                  /\ dump' = [dump EXCEPT ![c] = TRUE]
                  /\ pcap' = [pcap EXCEPT ![JobOf[c]] = c]
               \/ /\ Fails("cmd")
                  /\ pcap' = [pcap EXCEPT ![JobOf[c]] = "none"]
                  /\ UNCHANGED <<active, dump>>
    /\ UNCHANGED <<life, events, stream, drops, wired, tproxied, guardedSet, guardFailed,
                   guard, route, redirect, sealed>>

MaybeLeakguardOpen(c) ==
    /\ Do("guard", c) /\ Done1
    /\ \/ Up(c) /\ guard' = [guard EXCEPT ![c] = TRUE] /\ guardedSet' = guardedSet \cup {c}
       \/ Fails("cmd") /\ UNCHANGED <<guard, guardedSet>>
    /\ UNCHANGED <<life, events, stream, drops, active, wired, tproxied, guardFailed, dump,
                   pcap, doneFile, route, redirect, sealed>>

(* _maybe_leakguard with _install_v6_guard, then handle_start's check: a      *)
(* worker whose guard failed is never wired.  A command fails in the          *)
(* namespace of a container that died.                                        *)
MaybeLeakguard(c) ==
    /\ Do("guard", c)
    /\ \/ /\ c \in guardedSet
          /\ UNCHANGED <<guard, guardedSet, guardFailed>>
       \/ /\ c \notin guardedSet /\ Up(c)
          /\ guard' = [guard EXCEPT ![c] = TRUE]
          /\ guardedSet' = guardedSet \cup {c}
          /\ UNCHANGED guardFailed
       \/ /\ c \notin guardedSet /\ (~Up(c) \/ Fails("cmd"))
          /\ guardFailed' = guardFailed \cup {c}
          /\ UNCHANGED <<guard, guardedSet>>
    /\ IF c \in guardFailed' THEN Abandon(c) ELSE Done1
    /\ UNCHANGED <<life, events, stream, drops, active, wired, tproxied, dump, pcap,
                   doneFile, route, redirect, sealed>>

(* _maybe_wire and what each tier does before the route, which comes last and *)
(* releases the worker.  The vpn and inspect tiers do nothing; the socks tier *)
(* starts tun2socks and ends it again on any failure; the transproxy tier     *)
(* installs the host's rules and rolls back a failed one.                     *)
WireRules(c) ==
    /\ Do("rules", c)
    /\ \/ (c \in wired \/ WireMode[c] = "none") /\ Abandon(c) /\ UNCHANGED redirect
       \/ c \notin wired /\ WireMode[c] = "vpn" /\ Done1 /\ UNCHANGED redirect
       \/ /\ c \notin wired /\ WireMode[c] = "transproxy"
          /\ Done1
          /\ redirect' = [redirect EXCEPT ![AddrOf[c]] = @ + 1]
       \/ /\ c \notin wired /\ WireMode[c] = "transproxy" /\ Fails("cmd")
          /\ Abandon(c) /\ UNCHANGED redirect
    /\ UNCHANGED <<life, events, stream, drops, netdMem, dump, pcap, doneFile, guard,
                   route, sealed>>

(* One copy of the rules is deleted: iptables -D of each.                     *)
TeardownTransproxy(a) == redirect' = [redirect EXCEPT ![a] = IF @ > 0 THEN @ - 1 ELSE 0]

(* The route, the last step of every _wire_ method; when it fails a           *)
(* transproxy worker's host rules are taken back.                             *)
WireRoute(c) ==
    /\ Do("route", c) /\ Done1
    /\ \/ /\ Up(c)
          /\ route' = [route EXCEPT ![c] = TRUE]
          /\ wired' = wired \cup {c}
          /\ tproxied' = IF WireMode[c] = "transproxy" THEN tproxied \cup {c} ELSE tproxied
          /\ UNCHANGED redirect
       \/ /\ ~Up(c) \/ Fails("cmd")
          /\ IF WireMode[c] = "transproxy" THEN TeardownTransproxy(AddrOf[c])
             ELSE UNCHANGED redirect
          /\ UNCHANGED <<route, wired, tproxied>>
    /\ UNCHANGED <<life, events, stream, drops, active, guardedSet, guardFailed, dump,
                   pcap, doneFile, guard, sealed>>

(* ----- handle_die ---------------------------------------------------------- *)

(* _force_stop: a tcpdump neither SIGTERM nor SIGKILL was seen to end.         *)
StopUnconfirmed(c) == c \in active /\ Fails("cmd")

WriteCaptureDone(c) ==
    doneFile' = IF c \in active THEN [doneFile EXCEPT ![JobOf[c]] = TRUE] ELSE doneFile

(* The capture: terminate and wait, kill when it will not stop, and the       *)
(* sentinel only for a tcpdump that is known to have exited.                  *)
StopCapture(c) ==
    /\ Do("stop", c) /\ Done1
    /\ active' = active \ {c}
    /\ \/ dump' = [dump EXCEPT ![c] = FALSE] /\ WriteCaptureDone(c)
       \/ StopUnconfirmed(c) /\ UNCHANGED <<dump, doneFile>>
    /\ UNCHANGED <<life, events, stream, drops, wired, tproxied, guardedSet, guardFailed,
                   pcap, guard, route, redirect, sealed>>

(* The rest: a transproxy worker's host rules, and what netd remembers of it. *)
Release(c) ==
    /\ Do("release", c) /\ Done1
    /\ IF c \in tproxied THEN TeardownTransproxy(AddrOf[c]) ELSE UNCHANGED redirect
    /\ wired' = wired \ {c} /\ tproxied' = tproxied \ {c}
    /\ guardedSet' = guardedSet \ {c} /\ guardFailed' = guardFailed \ {c}
    /\ UNCHANGED <<life, events, stream, drops, active, dump, pcap, doneFile, guard,
                   route, sealed>>

(* ----- run: reconcile, subscribe, follow ----------------------------------- *)

Tracked == active \cup wired \cup tproxied \cup guardedSet
Listed == {c \in Boxes : Up(c)}

(* _reconcile on a fresh `docker ps': the vanished first, then everything that *)
(* is running; the subscription comes after.                                   *)
ReconcileCalls ==
    FlattenSeq([i \in 1..Cardinality(Tracked \ Listed) |->
                    DieSteps(SetToSeq(Tracked \ Listed)[i])])
      \o FlattenSeq([i \in 1..Cardinality(Listed) |-> StartSteps(SetToSeq(Listed)[i])])

Reconcile ==
    /\ stream = "down" /\ todo = << >>
    /\ stream' = "listed"
    /\ \/ todo' = ReconcileCalls
       \/ Fails("list") /\ todo' = << >>
    /\ UNCHANGED <<life, events, drops, netdMem, dump, pcap, doneFile, guard, route,
                   redirect, sealed>>

Subscribe ==
    /\ stream = "listed" /\ todo = << >>
    /\ stream' = "up" /\ events' = << >>
    /\ UNCHANGED <<life, drops, todo, netdMem, dump, pcap, doneFile, guard, route,
                   redirect, sealed>>

(* _follow_events: one event, one handler.                                    *)
FollowEvent ==
    /\ stream = "up" /\ todo = << >> /\ events # << >>
    /\ events' = Tail(events)
    /\ LET e == Head(events)
       IN  todo' = IF e[1] = "die" THEN DieSteps(e[2]) ELSE StartSteps(e[2])
    /\ UNCHANGED <<life, stream, drops, netdMem, dump, pcap, doneFile, guard, route,
                   redirect, sealed>>

StreamBreaks ==
    /\ stream = "up" /\ todo = << >> /\ drops < MaxDrops
    /\ stream' = "down" /\ events' = << >> /\ drops' = drops + 1
    /\ UNCHANGED <<life, todo, netdMem, dump, pcap, doneFile, guard, route, redirect,
                   sealed>>

(* netd is killed and restarted by systemd: its children go with it, what it  *)
(* remembered is gone, what it put into the kernel stays.                     *)
NetdRestarts ==
    /\ Fails("crash") /\ drops < MaxDrops
    /\ drops' = drops + 1 /\ stream' = "down" /\ events' = << >> /\ todo' = << >>
    /\ active' = {} /\ wired' = {} /\ tproxied' = {} /\ guardedSet' = {} /\ guardFailed' = {}
    /\ dump' = [c \in Boxes |-> FALSE]
    /\ UNCHANGED <<life, pcap, doneFile, guard, route, redirect, sealed>>

NetdStep ==
    \/ \E c \in Boxes :
          \/ InspectContainer(c) \/ MaybeCapture(c) \/ MaybeLeakguard(c) \/ WireRules(c) \/ WireRoute(c)
          \/ StopCapture(c) \/ Release(c)
    \/ Reconcile \/ Subscribe \/ FollowEvent

NetNext ==
    \/ NetdStep
    \/ \E c \in Boxes : ContainerStarts(c) \/ ContainerDies(c) \/ SealCapture(c)
    \/ StreamBreaks \/ NetdRestarts

NetSpec == NetInit /\ [][NetNext]_netVars

(* netd's loop keeps running; containers, docker and the dispatcher need not. *)
NetFairness == WF_netVars(NetdStep)

(* ----- properties ---------------------------------------------------------- *)

(* A worker whose route is up has its leak guard, and the redirect rules of   *)
(* its address are exactly its own: none for a worker of another tier, one    *)
(* copy for a transproxy worker.  The rules outlive the container they were   *)
(* written for until netd learns of its death, and docker hands the address   *)
(* to another worker meanwhile.                                               *)
RoutedThroughItsOwn ==
    \A c \in Boxes : Up(c) /\ route[c] =>
        /\ guard[c]
        /\ redirect[AddrOf[c]] = IF WireMode[c] = "transproxy" THEN 1 ELSE 0

(* The sentinel the dispatcher takes for "this capture is complete" never     *)
(* stands beside a tcpdump that is still writing that file.                   *)
DoneMeansClosed ==
    \A c \in Boxes : dump[c] /\ pcap[JobOf[c]] = c => ~doneFile[JobOf[c]]

(* Whatever netd missed while the stream was down, it catches up on: a        *)
(* running worker is wired, and the host rules of one that ended go away.     *)
WiredIfUp(c) == Up(c) /\ WireMode[c] # "none" => route[c]
AddressFreed(c) ==
    life[c] = "gone" =>
        redirect[AddrOf[c]] = 0 \/ \E d \in Boxes : Up(d) /\ AddrOf[d] = AddrOf[c]
=================================================================================
