----------------------------- MODULE LibvirtVm -----------------------------
(***************************************************************************)
(* Libvirt VM workers: a slot is a guest booted off an overlay with an     *)
(* address from a fixed pool (its MAC is a function of the address, so is  *)
(* its DHCP reservation), host firewall and exit routing rules keyed by    *)
(* that address, and a warm snapshot it is reverted to between jobs.  The  *)
(* pool's threads call spawn, is_ready, recycle and reap; virsh, iptables  *)
(* and rm can each fail, and the manager can crash and start again over    *)
(* guests that are still running.                                          *)
(***************************************************************************)
EXTENDS Naturals, FiniteSets

CONSTANTS VmIps,        \* worker_ip_pool
          VmSlotIds,    \* slots the pool may hold at once
          VmFaults,     \* which calls may fail
          MaxVmFaults,  \* failures in a behaviour
          MaxOrphans    \* guests a crash may leave behind

VARIABLES ipFree,     \* LibvirtVmRuntime._ip_free
          reservations, \* addresses with a DHCP reservation
          rules,      \* VmIps -> which of the address's rules are installed
          slots,      \* VmSlotIds -> the slot
          orphans,    \* guests of a manager that crashed: [ip, used]
          vmFaults    \* failures so far

libvirtVars == <<ipFree, reservations, rules, slots, orphans, vmFaults>>

Parts == {"route", "hook"}
NoSlot == [pc |-> "free", ip |-> 0, reserved |-> FALSE, running |-> FALSE, used |-> FALSE,
           overlay |-> FALSE, by |-> "pool"]

LibvirtInit ==
  /\ ipFree = VmIps /\ reservations = {} /\ rules = [i \in VmIps |-> {}]
  /\ slots = [s \in VmSlotIds |-> NoSlot] /\ orphans = {} /\ vmFaults = 0

May(f) == f \in VmFaults /\ vmFaults < MaxVmFaults /\ vmFaults' = vmFaults + 1
Works == vmFaults' = vmFaults
Slot(s, r) == slots' = [slots EXCEPT ![s] = r]
At(s, pc) == slots[s].pc = pc
Rules(s, R) == rules' = [rules EXCEPT ![slots[s].ip] = R]
Host == <<ipFree, reservations, rules, orphans>>

-----------------------------------------------------------------------------
(* spawn(): every failure reaps what there is so far and raises.           *)

FailSpawn(s) == Slot(s, [slots[s] EXCEPT !.pc = "reap", !.by = "spawn"])

AllocIp(s) ==
  /\ At(s, "free")
  /\ \E i \in ipFree : /\ ipFree' = ipFree \ {i}
                       /\ Slot(s, [NoSlot EXCEPT !.pc = "new", !.ip = i])
  /\ Works /\ UNCHANGED <<reservations, rules, orphans>>

CreateOverlay(s) ==
  /\ At(s, "new")
  /\ \/ Works /\ Slot(s, [slots[s] EXCEPT !.pc = "disk", !.overlay = TRUE])
     \/ May("start") /\ FailSpawn(s)
  /\ UNCHANGED Host

\* A reservation that is already there makes net-update fail.
Reserve(s) ==
  LET i == slots[s].ip IN
  /\ At(s, "disk")
  /\ \/ /\ i \notin reservations /\ Works
        /\ reservations' = reservations \cup {i}
        /\ Slot(s, [slots[s] EXCEPT !.pc = "reserved", !.reserved = TRUE])
     \/ /\ i \in reservations /\ Works /\ FailSpawn(s) /\ UNCHANGED reservations
     \/ /\ May("reserve") /\ FailSpawn(s) /\ UNCHANGED reservations
  /\ UNCHANGED <<ipFree, rules, orphans>>

StartDomain(s) ==
  /\ At(s, "reserved")
  /\ \/ Works /\ Slot(s, [slots[s] EXCEPT !.pc = "warming", !.running = TRUE])
     \/ May("start") /\ FailSpawn(s)
  /\ UNCHANGED Host

-----------------------------------------------------------------------------
(* is_ready(): finalizes the guest once something answers on its address.  *)

Answers(i) == \/ \E t \in VmSlotIds : slots[t].running /\ slots[t].ip = i
              \/ \E o \in orphans : o.ip = i

\* apply() starts from nothing: remove() first.
StripRules(s) ==
  /\ At(s, "warming") /\ Answers(slots[s].ip)
  /\ Rules(s, {}) /\ Slot(s, [slots[s] EXCEPT !.pc = "stripped"])
  /\ Works /\ UNCHANGED <<ipFree, reservations, orphans>>

\* A failing rule is undone by remove(), and is_ready reaps the slot: the guest
\* is up and not firewalled.
ApplyFails(s) ==
  /\ slots[s].pc \in {"stripped", "routed"} /\ May("apply")
  /\ Rules(s, {}) /\ Slot(s, [slots[s] EXCEPT !.pc = "reap", !.by = "ready"])
  /\ UNCHANGED <<ipFree, reservations, orphans>>

\* Where traffic goes is decided before the chain that lets it out is hooked.
InstallRouting(s) ==
  /\ At(s, "stripped") /\ Rules(s, {"route"})
  /\ Slot(s, [slots[s] EXCEPT !.pc = "routed"])
  /\ Works /\ UNCHANGED <<ipFree, reservations, orphans>>

HookChains(s) ==
  /\ At(s, "routed") /\ Rules(s, rules[slots[s].ip] \cup {"hook"})
  /\ Slot(s, [slots[s] EXCEPT !.pc = "hooked"])
  /\ Works /\ UNCHANGED <<ipFree, reservations, orphans>>

\* The smoke test or the snapshot may say no, which only means "not yet"; there
\* is no snapshot of a domain that is gone.
Finalize(s) ==
  /\ At(s, "hooked") /\ Works
  /\ \/ slots[s].running /\ Slot(s, [slots[s] EXCEPT !.pc = "idle"])
     \/ Slot(s, [slots[s] EXCEPT !.pc = "warming"])
  /\ UNCHANGED Host

\* The pool gives a warming slot up after its timeout.
WarmingTimeout(s) ==
  /\ At(s, "warming") /\ Works
  /\ Slot(s, [slots[s] EXCEPT !.pc = "reap", !.by = "pool"])
  /\ UNCHANGED Host

-----------------------------------------------------------------------------
(* Jobs, recycle() and reap().                                             *)

ClaimVm(s) ==
  /\ At(s, "idle") /\ slots[s].running /\ Works
  /\ Slot(s, [slots[s] EXCEPT !.pc = "busy", !.used = TRUE])
  /\ UNCHANGED Host

\* recycle(): snapshot-revert; a failed revert or an unhealthy guest is reaped.
Recycle(s) ==
  /\ At(s, "busy") /\ Works
  /\ \/ Slot(s, [slots[s] EXCEPT !.pc = "idle", !.used = FALSE])
     \/ Slot(s, [slots[s] EXCEPT !.pc = "reap", !.by = "pool"])
  /\ UNCHANGED Host

\* A reap that raised: the pool keeps the slot as a husk and tries again; inside
\* is_ready the slot stays warming; inside spawn nobody holds the slot any more.
ReapRaises(r) == [r EXCEPT !.pc = CASE r.by = "pool" -> "husk" [] r.by = "ready" -> "warming"
                                    [] OTHER -> "lost"]

Destroyed(r) == [r EXCEPT !.pc = "unhook", !.running = FALSE, !.used = FALSE]

\* destroy fails: the guest may still run, so everything else stays in place.
DestroyRefused(s) == ReapRaises(slots[s])

ReapDestroys(s) ==
  /\ At(s, "reap")
  /\ \/ Works /\ Slot(s, Destroyed(slots[s]))
     \/ May("destroy") /\ slots[s].running /\ Slot(s, DestroyRefused(s))
  /\ UNCHANGED Host

ReapUnhooks(s) ==
  /\ At(s, "unhook") /\ Rules(s, {}) /\ Works
  /\ Slot(s, [slots[s] EXCEPT !.pc = "unreserve"])
  /\ UNCHANGED <<ipFree, reservations, orphans>>

\* The address returns to the pool once the reservation this slot made is gone;
\* a delete that fails (or finds nothing) keeps it out.
Unreserves(s) ==
  LET i == slots[s].ip IN
  \/ ~slots[s].reserved /\ Works /\ UNCHANGED reservations /\ ipFree' = ipFree \cup {i}
  \/ /\ slots[s].reserved /\ i \in reservations /\ Works
     /\ reservations' = reservations \ {i} /\ ipFree' = ipFree \cup {i}
  \/ slots[s].reserved /\ i \notin reservations /\ Works /\ UNCHANGED <<reservations, ipFree>>
  \/ slots[s].reserved /\ May("unreserve") /\ UNCHANGED <<reservations, ipFree>>

ReapUnreserves(s) ==
  /\ At(s, "unreserve") /\ Unreserves(s)
  /\ Slot(s, [slots[s] EXCEPT !.pc = "rm"])
  /\ UNCHANGED <<rules, orphans>>

ReapRemovesOverlay(s) ==
  /\ At(s, "rm")
  /\ \/ /\ Works
        /\ Slot(s, IF slots[s].by = "ready" THEN [slots[s] EXCEPT !.pc = "warming", !.overlay = FALSE]
                   ELSE NoSlot)
     \/ May("overlay") /\ Slot(s, ReapRaises(slots[s]))
  /\ UNCHANGED Host

\* The pool's next attempt at a husk.
RetryHusk(s) ==
  /\ At(s, "husk") /\ Works
  /\ Slot(s, [slots[s] EXCEPT !.pc = "reap"])
  /\ UNCHANGED Host

-----------------------------------------------------------------------------
(* The manager dies and a new one starts: _reconcile_reservations.         *)

LeftBehind == orphans \cup {[ip |-> slots[s].ip, used |-> slots[s].used] :
                              s \in {t \in VmSlotIds : slots[t].running}}

\* A reservation whose guest is still running is kept and its address withheld.
ReconciledFree == VmIps \ (reservations \cap {o.ip : o \in LeftBehind})

Restart ==
  /\ May("crash") /\ Cardinality(LeftBehind) <= MaxOrphans
  /\ orphans' = LeftBehind
  /\ reservations' = reservations \cap {o.ip : o \in LeftBehind}
  /\ ipFree' = ReconciledFree
  /\ slots' = [s \in VmSlotIds |-> NoSlot] /\ UNCHANGED rules

LibvirtNext ==
  \/ Restart
  \/ \E s \in VmSlotIds :
       \/ AllocIp(s) \/ CreateOverlay(s) \/ Reserve(s) \/ StartDomain(s)
       \/ StripRules(s) \/ ApplyFails(s) \/ InstallRouting(s) \/ HookChains(s) \/ Finalize(s)
       \/ WarmingTimeout(s) \/ ClaimVm(s) \/ Recycle(s)
       \/ ReapDestroys(s) \/ ReapUnhooks(s) \/ ReapUnreserves(s) \/ ReapRemovesOverlay(s)
       \/ RetryHusk(s)

LibvirtSpec == LibvirtInit /\ [][LibvirtNext]_libvirtVars

-----------------------------------------------------------------------------
\* Every guest that runs, tracked or not.
Guests == {[id |-> s, ip |-> slots[s].ip, used |-> slots[s].used] :
             s \in {t \in VmSlotIds : slots[t].running}}
            \cup {[id |-> "orphan", ip |-> o.ip, used |-> o.used] : o \in orphans}

(***************************************************************************)
(* There is never a window where a live guest that has run a sample is     *)
(* without its rules (libvirt_vm.reap destroys the guest first, and leaves *)
(* the rules in place when it cannot).                                     *)
(***************************************************************************)
GuestsFirewalled == \A g \in Guests : g.used => rules[g.ip] = Parts

(***************************************************************************)
(* Guests are contained: a used guest is behind its rules, no two running  *)
(* guests share an address, and the address of a running guest is never    *)
(* free to be handed out -- through failing virsh calls, husks that are    *)
(* reaped again and a crash of the manager over running guests.            *)
(***************************************************************************)
GuestsContained ==
  /\ GuestsFirewalled
  /\ \A g \in Guests : g.ip \notin ipFree /\ \A k \in Guests : g # k => g.ip # k.ip
=============================================================================
