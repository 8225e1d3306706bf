------------------------------ MODULE Generations ------------------------------
(* Who may remove what in the snapshot directory several dispatchers share     *)
(* through a rolling deployment (runtime/snapshot_backend.py leases,           *)
(* fc_snapshot_launcher.py, fc_snapshot_backend.py, gvisor_snapshot.py).  A    *)
(* build sweeps what dead dispatchers left, boots a base machine in a workdir  *)
(* of its own, takes this process's lease, writes a generation and kills the   *)
(* base; slots are restored from the generation.  A lease is a file locked for *)
(* the life of its process: the kernel lets go of the lock, never of the file. *)
EXTENDS Naturals, FiniteSets

CONSTANTS Procs,       \* dispatcher processes, in any number of PID namespaces
          Backend,     \* "fc" or "gvisor"
          NGens,       \* builds a process may have on disk at once
          MaxCrashes, MaxGenFaults,
          GenFaults    \* which of "boot", "write", "kill", "rmtree", "restore", "window" may happen

VARIABLES
  gnUp,        \* process -> "new", "up" or "dead"
  gnLease,     \* process -> its lease file: "none", "free", "held", "probed"
  gnHolds,     \* processes that believe they hold their lease
  gnDir,       \* workdirs on disk
  gnVm,        \* workdirs whose machine runs
  gnFiles,     \* generations on disk
  gnKept,      \* generations their process may still restore from or has mapped
  gnParked,    \* workdirs and partial generations parked for a later removal
  gnLoading,   \* slots whose restore is under way
  gnOrphan,    \* slots whose machine could not be confirmed gone
  gnAt,        \* process -> where its build is
  gnList,      \* process -> what its sweep has still to look at
  gnSwept, gnMissed,   \* process -> owners it reclaimed from, owners it failed on
  gnCrashes, gnFaults

diskVars == <<gnDir, gnFiles, gnParked>>
sweepVars == <<gnList, gnSwept, gnMissed>>
genVars == <<gnUp, gnLease, gnHolds, diskVars, gnVm, gnKept, gnLoading, gnOrphan, gnAt, sweepVars, gnCrashes, gnFaults>>

Bases == {<<p, "base", k>> : p \in Procs, k \in 1..NGens}
Gens == {<<p, "gen", k>> : p \in Procs, k \in 1..NGens}
SlotDirs == {<<p, "slot", 1>> : p \in Procs}
Owner(x) == x[1]
GenOf(b) == <<b[1], "gen", b[3]>>

GenInit ==
  /\ gnUp = [p \in Procs |-> "new"] /\ gnLease = [p \in Procs |-> "none"] /\ gnHolds = {}
  /\ gnDir = {} /\ gnVm = {} /\ gnFiles = {} /\ gnKept = {} /\ gnParked = {} /\ gnOrphan = {} /\ gnLoading = {}
  /\ gnAt = [p \in Procs |-> <<"rest">>]
  /\ gnList = [p \in Procs |-> {}] /\ gnSwept = [p \in Procs |-> {}] /\ gnMissed = [p \in Procs |-> {}]
  /\ gnCrashes = 0 /\ gnFaults = 0

GenFault(kind) == kind \in GenFaults /\ gnFaults < MaxGenFaults /\ gnFaults' = gnFaults + 1
At(p, what) == gnUp[p] = "up" /\ gnAt[p][1] = what
Goes(p, to) == gnAt' = [gnAt EXCEPT ![p] = to]

StartProc(p) ==
  /\ gnUp[p] = "new"
  /\ gnUp' = [gnUp EXCEPT ![p] = "up"]
  /\ UNCHANGED <<gnLoading, gnLease, gnHolds, diskVars, gnVm, gnKept, gnOrphan, gnAt, sweepVars, gnCrashes, gnFaults>>

\* The kernel drops the lock, and the container's machines go with it.
ProcDies(p) ==
  /\ gnUp[p] = "up" /\ gnCrashes < MaxCrashes
  /\ gnCrashes' = gnCrashes + 1
  /\ gnUp' = [gnUp EXCEPT ![p] = "dead"] /\ gnAt' = [gnAt EXCEPT ![p] = <<"rest">>]
  /\ gnLease' = [q \in Procs |-> IF q = p /\ gnLease[p] = "held" THEN "free"
                                 ELSE IF At(p, "probe") /\ gnAt[p][2] = q /\ gnLease[q] = "probed" THEN "free"
                                 ELSE gnLease[q]]
  /\ gnHolds' = gnHolds \ {p}
  /\ gnVm' = {x \in gnVm : Owner(x) # p} /\ gnKept' = {x \in gnKept : Owner(x) # p}
  /\ gnOrphan' = {x \in gnOrphan : Owner(x) # p} /\ gnLoading' = {x \in gnLoading : Owner(x) # p}
  /\ gnParked' = {x \in gnParked : Owner(x) # p}
  /\ gnList' = [gnList EXCEPT ![p] = {}] /\ gnSwept' = [gnSwept EXCEPT ![p] = {}]
  /\ gnMissed' = [gnMissed EXCEPT ![p] = {}]
  /\ UNCHANGED <<gnDir, gnFiles, gnFaults>>
-------------------------------------------------------------------------------
(* The sweep of what dead dispatchers left *)
Listed(p) == {x \in gnFiles \cup (IF Backend = "fc" THEN gnDir \cap Bases ELSE {}) : Owner(x) # p}
BuildBegins(p) ==
  /\ At(p, "rest")
  /\ gnList' = [gnList EXCEPT ![p] = Listed(p)] /\ Goes(p, <<"sweep">>)
  /\ UNCHANGED <<gnLoading, gnUp, gnLease, gnHolds, diskVars, gnVm, gnKept, gnOrphan, gnSwept, gnMissed, gnCrashes, gnFaults>>

\* owner_alive: no lease file is no proof of death; a lock that can be taken is.
LeaseAlive(q) == gnLease[q] # "free"
ProbeLease(p, x) ==
  /\ At(p, "sweep") /\ x \in gnList[p]
  /\ IF LeaseAlive(Owner(x))
     THEN /\ gnList' = [gnList EXCEPT ![p] = @ \ {x}]
          /\ UNCHANGED <<gnLease, gnAt>>
     ELSE /\ gnLease' = [gnLease EXCEPT ![Owner(x)] = IF @ = "free" THEN "probed" ELSE @]
          /\ Goes(p, <<"probe", Owner(x), x>>) /\ UNCHANGED gnList
  /\ UNCHANGED <<gnLoading, gnUp, gnHolds, diskVars, gnVm, gnKept, gnOrphan, gnSwept, gnMissed, gnCrashes, gnFaults>>

ProbeCloses(p) ==
  /\ At(p, "probe")
  /\ gnLease' = [gnLease EXCEPT ![gnAt[p][2]] = IF @ = "probed" THEN "free" ELSE @]
  /\ Goes(p, <<"remove", gnAt[p][2], gnAt[p][3]>>)
  /\ UNCHANGED <<gnLoading, gnUp, gnHolds, diskVars, gnVm, gnKept, gnOrphan, sweepVars, gnCrashes, gnFaults>>

SweepRemoves(p) ==
  LET x == gnAt[p][3] IN
  /\ At(p, "remove")
  /\ \/ /\ gnDir' = gnDir \ {x} /\ gnFiles' = gnFiles \ {x}
        /\ gnSwept' = [gnSwept EXCEPT ![p] = @ \cup {Owner(x)}] /\ UNCHANGED <<gnMissed, gnFaults>>
     \/ /\ GenFault("rmtree")
        /\ gnMissed' = [gnMissed EXCEPT ![p] = @ \cup {Owner(x)}] /\ UNCHANGED <<gnDir, gnFiles, gnSwept>>
  /\ gnList' = [gnList EXCEPT ![p] = @ \ {x}] /\ Goes(p, <<"sweep">>)
  /\ UNCHANGED <<gnLoading, gnUp, gnLease, gnHolds, gnParked, gnVm, gnKept, gnOrphan, gnCrashes>>

Pruned(p) == gnSwept[p] \ gnMissed[p]
SweepEnds(p) ==
  /\ At(p, "sweep") /\ gnList[p] = {}
  /\ gnLease' = [q \in Procs |-> IF q \in Pruned(p) THEN "none" ELSE gnLease[q]]
  /\ gnSwept' = [gnSwept EXCEPT ![p] = {}] /\ gnMissed' = [gnMissed EXCEPT ![p] = {}]
  /\ Goes(p, <<"retry", "boot">>)
  /\ UNCHANGED <<gnLoading, gnUp, gnHolds, diskVars, gnVm, gnKept, gnOrphan, gnList, gnCrashes, gnFaults>>
-------------------------------------------------------------------------------
(* The build *)

\* _retry_stranded_partials: what is parked is removed, or parked again.
Mine(p, S) == {x \in S : Owner(x) = p}
RetryParked(p) ==
  /\ At(p, "retry")
  /\ \E done \in SUBSET Mine(p, gnParked) :
       /\ done = Mine(p, gnParked) \/ "rmtree" \in GenFaults
       /\ IF done = Mine(p, gnParked) THEN UNCHANGED gnFaults ELSE GenFault("rmtree")
       /\ gnParked' = gnParked \ done /\ gnDir' = gnDir \ done /\ gnFiles' = gnFiles \ done
  /\ Goes(p, IF gnAt[p][2] = "boot" THEN <<"boot">> ELSE <<"lease", gnAt[p][3]>>)
  /\ UNCHANGED <<gnLoading, gnUp, gnLease, gnHolds, gnVm, gnKept, gnOrphan, sweepVars, gnCrashes>>

FreeBases(p) == {b \in Mine(p, Bases) : b \notin gnDir \cup gnVm /\ GenOf(b) \notin gnFiles \cup gnParked}
BootBase(p) ==
  /\ At(p, "boot")
  /\ \/ \E b \in FreeBases(p) : /\ gnDir' = gnDir \cup {b} /\ gnVm' = gnVm \cup {b}
                                /\ Goes(p, <<"booting", b>>)
     \/ FreeBases(p) = {} /\ Goes(p, <<"rest">>) /\ UNCHANGED <<gnDir, gnVm>>
  /\ UNCHANGED <<gnLoading, gnUp, gnLease, gnHolds, gnFiles, gnParked, gnKept, gnOrphan, sweepVars, gnCrashes, gnFaults>>

BootReady(p) ==
  /\ At(p, "booting")
  /\ Goes(p, <<"retry", "checkpoint", gnAt[p][2]>>)
  /\ UNCHANGED <<gnLoading, gnUp, gnLease, gnHolds, diskVars, gnVm, gnKept, gnOrphan, sweepVars, gnCrashes, gnFaults>>

\* The boot fails: the machine is gone and its workdir removed, or parked when that fails.
BootFails(p) ==
  LET b == gnAt[p][2] IN
  /\ At(p, "booting") /\ GenFault("boot")
  /\ gnVm' = gnVm \ {b}
  /\ \/ gnDir' = gnDir \ {b} /\ UNCHANGED gnParked
     \/ gnParked' = gnParked \cup {b} /\ UNCHANGED gnDir
  /\ Goes(p, <<"rest">>)
  /\ UNCHANGED <<gnLoading, gnUp, gnLease, gnHolds, gnFiles, gnKept, gnOrphan, sweepVars, gnCrashes>>

\* The boot fails and the machine does not go: the workdir is parked all the same.
BootFailsAlive(p) ==
  /\ At(p, "booting") /\ "boot" \in GenFaults /\ GenFault("kill")
  /\ gnParked' = gnParked \cup {gnAt[p][2]}
  /\ Goes(p, <<"rest">>)
  /\ UNCHANGED <<gnLoading, gnUp, gnLease, gnHolds, gnDir, gnFiles, gnVm, gnKept, gnOrphan, sweepVars, gnCrashes>>

\* hold_owner_lease: the file is opened (and so created), then locked.
LeaseOpens(p) ==
  /\ At(p, "lease")
  /\ IF p \in gnHolds
     THEN Goes(p, <<"write", gnAt[p][2]>>) /\ UNCHANGED <<gnLease, gnHolds>>
     ELSE IF "window" \in GenFaults
     THEN /\ gnLease' = [gnLease EXCEPT ![p] = IF @ = "none" THEN "free" ELSE @]
          /\ Goes(p, <<"lock", gnAt[p][2]>>) /\ UNCHANGED gnHolds
     ELSE /\ gnLease' = [gnLease EXCEPT ![p] = "held"] /\ gnHolds' = gnHolds \cup {p}
          /\ Goes(p, <<"write", gnAt[p][2]>>)
  /\ UNCHANGED <<gnLoading, gnUp, diskVars, gnVm, gnKept, gnOrphan, sweepVars, gnCrashes, gnFaults>>

LeaseLocks(p) ==
  /\ At(p, "lock")
  /\ IF gnLease[p] = "probed"
     THEN Goes(p, <<"kill", gnAt[p][2]>>) /\ UNCHANGED <<gnLease, gnHolds>>
     ELSE /\ gnLease' = [gnLease EXCEPT ![p] = IF @ = "free" THEN "held" ELSE @]
          /\ gnHolds' = gnHolds \cup {p}
          /\ Goes(p, <<"write", gnAt[p][2]>>)
  /\ UNCHANGED <<gnLoading, gnUp, diskVars, gnVm, gnKept, gnOrphan, sweepVars, gnCrashes, gnFaults>>

\* The generation is written and published; or the write fails and what it left is removed, or parked.
WriteGeneration(p) ==
  LET g == GenOf(gnAt[p][2]) IN
  /\ At(p, "write")
  /\ \/ gnFiles' = gnFiles \cup {g} /\ gnKept' = gnKept \cup {g} /\ UNCHANGED <<gnParked, gnFaults>>
     \/ GenFault("write") /\ UNCHANGED <<gnFiles, gnKept, gnParked>>
     \/ GenFault("write") /\ gnFiles' = gnFiles \cup {g} /\ gnParked' = gnParked \cup {g} /\ UNCHANGED gnKept
  /\ Goes(p, <<"kill", gnAt[p][2]>>)
  /\ UNCHANGED <<gnLoading, gnUp, gnLease, gnHolds, gnDir, gnVm, gnOrphan, sweepVars, gnCrashes>>

\* The base is killed.  Its workdir goes once it is known to be gone.
KillBase(p) ==
  LET b == gnAt[p][2] IN
  /\ At(p, "kill")
  /\ \/ gnVm' = gnVm \ {b} /\ gnDir' = gnDir \ {b} /\ UNCHANGED <<gnParked, gnFaults>>
     \/ GenFault("rmtree") /\ gnVm' = gnVm \ {b} /\ gnParked' = gnParked \cup {b} /\ UNCHANGED gnDir
     \/ GenFault("kill") /\ UNCHANGED <<gnVm, gnDir, gnParked>>
  /\ Goes(p, <<"rest">>)
  /\ UNCHANGED <<gnLoading, gnUp, gnLease, gnHolds, gnFiles, gnKept, gnOrphan, sweepVars, gnCrashes>>
-------------------------------------------------------------------------------
(* Slots, and the end of a generation *)
SlotOf(p) == <<p, "slot", 1>>
SlotFree(p) == SlotOf(p) \notin gnDir \cup gnVm \cup gnOrphan \cup gnParked
\* restore_in: a machine is spawned in the slot's workdir, then its disk is copied and the snapshot loaded.
RestoreIn(p) ==
  /\ gnUp[p] = "up" /\ Mine(p, gnKept) # {} /\ SlotFree(p)
  /\ gnDir' = gnDir \cup {SlotOf(p)} /\ gnVm' = gnVm \cup {SlotOf(p)}
  /\ gnLoading' = gnLoading \cup {SlotOf(p)}
  /\ UNCHANGED <<gnUp, gnLease, gnHolds, gnFiles, gnParked, gnKept, gnOrphan, gnAt, sweepVars, gnCrashes, gnFaults>>

RestoreReturns(p) ==
  /\ SlotOf(p) \in gnLoading
  /\ gnLoading' = gnLoading \ {SlotOf(p)}
  /\ UNCHANGED <<gnUp, gnLease, gnHolds, diskVars, gnVm, gnKept, gnOrphan, gnAt, sweepVars, gnCrashes, gnFaults>>

\* It raises: the machine is gone, or cannot be confirmed gone and is held for a retry.
RestoreRaises(p) ==
  /\ SlotOf(p) \in gnLoading /\ GenFault("restore")
  /\ gnLoading' = gnLoading \ {SlotOf(p)}
  /\ \/ gnVm' = gnVm \ {SlotOf(p)} /\ gnDir' = gnDir \ {SlotOf(p)} /\ UNCHANGED gnOrphan
     \/ "kill" \in GenFaults /\ gnOrphan' = gnOrphan \cup {SlotOf(p)} /\ UNCHANGED <<gnVm, gnDir>>
  /\ UNCHANGED <<gnUp, gnLease, gnHolds, gnFiles, gnParked, gnKept, gnAt, sweepVars, gnCrashes>>

ReapSlot(p) ==
  /\ SlotOf(p) \in gnVm \ (gnOrphan \cup gnLoading)
  /\ gnVm' = gnVm \ {SlotOf(p)} /\ gnDir' = gnDir \ {SlotOf(p)}
  /\ UNCHANGED <<gnUp, gnLease, gnHolds, gnFiles, gnParked, gnKept, gnOrphan, gnLoading, gnAt, sweepVars, gnCrashes, gnFaults>>

\* The machine of a held slot goes at last; the next look finds it gone, removes its workdir or parks it.
OrphanExits(p) ==
  /\ SlotOf(p) \in gnOrphan \cap gnVm
  /\ gnVm' = gnVm \ {SlotOf(p)}
  /\ UNCHANGED <<gnLoading, gnUp, gnLease, gnHolds, diskVars, gnKept, gnOrphan, gnAt, sweepVars, gnCrashes, gnFaults>>
Reclaimable(p) == SlotOf(p) \in gnOrphan /\ SlotOf(p) \notin gnVm
RestoreReclaimed(p) ==
  /\ Reclaimable(p)
  /\ gnOrphan' = gnOrphan \ {SlotOf(p)}
  /\ \/ gnDir' = gnDir \ {SlotOf(p)} /\ UNCHANGED <<gnParked, gnFaults>>
     \/ GenFault("rmtree") /\ gnParked' = gnParked \cup {SlotOf(p)} /\ UNCHANGED gnDir
  /\ UNCHANGED <<gnLoading, gnUp, gnLease, gnHolds, gnFiles, gnVm, gnKept, gnAt, sweepVars, gnCrashes>>

\* discard: a generation nothing of this process uses any more.
DiscardGen(p) ==
  /\ SlotOf(p) \notin gnVm
  /\ \E g \in Mine(p, gnKept) : gnKept' = gnKept \ {g} /\ gnFiles' = gnFiles \ {g}
  /\ UNCHANGED <<gnLoading, gnUp, gnLease, gnHolds, gnDir, gnParked, gnVm, gnOrphan, gnAt, sweepVars, gnCrashes, gnFaults>>

Build(p) ==
  \/ BuildBegins(p) \/ (\E x \in gnList[p] : ProbeLease(p, x)) \/ ProbeCloses(p) \/ SweepRemoves(p) \/ SweepEnds(p)
  \/ RetryParked(p) \/ BootBase(p) \/ BootReady(p) \/ BootFails(p) \/ BootFailsAlive(p)
  \/ LeaseOpens(p) \/ LeaseLocks(p) \/ WriteGeneration(p) \/ KillBase(p)

GenNext == \E p \in Procs :
  \/ StartProc(p) \/ ProcDies(p) \/ Build(p)
  \/ RestoreIn(p) \/ RestoreReturns(p) \/ RestoreRaises(p) \/ ReapSlot(p) \/ OrphanExits(p) \/ RestoreReclaimed(p) \/ DiscardGen(p)

GenSpec == GenInit /\ [][GenNext]_genVars
GenFairness == \A p \in Procs : WF_genVars(Build(p)) /\ WF_genVars(StartProc(p))
-------------------------------------------------------------------------------
\* No sweep of another dispatcher and no retry of its own takes a generation from
\* the process that still restores from it or has it mapped, nor the workdir from
\* under a slot's machine whose kill could not be confirmed.
InUseIsKept == gnKept \subseteq gnFiles /\ gnVm \cap SlotDirs \subseteq gnDir

\* The generations of a dispatcher that died are removed by one that lives.
DeadReclaimed(g) == g \in gnFiles => gnUp[Owner(g)] # "dead"
===============================================================================
