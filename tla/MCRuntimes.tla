------------------------------ MODULE MCRuntimes -------------------------------
(* The runtimes and the worker side for TLC. The components share no state    *)
(* here, so one state graph holds them side by side: focus names the          *)
(* component a behaviour is about, its variables live in the registers r1,    *)
(* r2, ..., and the rest of them stay 0. Every property is guarded by the     *)
(* focus it is about. The instances without a property run the fault handling *)
(* of their component; README names what fails there and why.                 *)
EXTENDS Integers, TLC

CONSTANTS t1, t2    \* the dispatch threads of "budget"

VARIABLES focus, r1, r2, r3, r4, r5, r6, r7, r8, r9, r10, r11, r12, r13, r14, r15,
          r16, r17, r18, r19, r20

registers == <<r1, r2, r3, r4, r5, r6, r7, r8, r9, r10, r11, r12, r13, r14, r15,
               r16, r17, r18, r19, r20>>
all == <<focus, registers>>

--------------------------------------------------------------------------------
\* Two spawn threads over two tiers, one of them undecided.
CS == INSTANCE Cascade WITH
  tiers <- r1, counts <- r2, fails <- r3, guilty <- r4, owner <- r5, backend <- r6,
  sp <- r7, reaps <- r8, deferred <- r9, owed <- r10, adm <- r11, closing <- r12,
  closes <- r13, verdict <- r14, NTiers <- 2, Undecided <- {2},
  Capacity <- <<1, 1>>, SpawnThreads <- {"x1", "x2"}, CSlots <- {1, 2},
  RebuildAfter <- 0, MaxFails <- 0, MaxCloses <- 1

\* Failures that count towards a rebuild of a tier.
CH == INSTANCE Cascade WITH
  tiers <- r1, counts <- r2, fails <- r3, guilty <- r4, owner <- r5, backend <- r6,
  sp <- r7, reaps <- r8, deferred <- r9, owed <- r10, adm <- r11, closing <- r12,
  closes <- r13, verdict <- r14, NTiers <- 2, Undecided <- {},
  Capacity <- <<1, 1>>, SpawnThreads <- {"x1"}, CSlots <- {1, 2},
  RebuildAfter <- 2, MaxFails <- 2, MaxCloses <- 0

\* Two undecided tiers, and shutdowns during admission.
CA == INSTANCE Cascade WITH
  tiers <- r1, counts <- r2, fails <- r3, guilty <- r4, owner <- r5, backend <- r6,
  sp <- r7, reaps <- r8, deferred <- r9, owed <- r10, adm <- r11, closing <- r12,
  closes <- r13, verdict <- r14, NTiers <- 3, Undecided <- {2, 3},
  Capacity <- <<1, 1, 1>>, SpawnThreads <- {}, CSlots <- {}, RebuildAfter <- 2,
  MaxFails <- 2, MaxCloses <- 2

\* A warm worker behind control files.
WF == INSTANCE WarmControl WITH
  epoch <- r1, base <- r2, build <- r3, attempts <- r4, ack <- r5, full <- r6,
  slot <- r7, WarmSlots <- {"s"}, Seam <- "file", MaxEpoch <- 1, MaxAttempts <- 2

\* A warm worker behind a socket.
WV == INSTANCE WarmControl WITH
  epoch <- r1, base <- r2, build <- r3, attempts <- r4, ack <- r5, full <- r6,
  slot <- r7, WarmSlots <- {"s"}, Seam <- "vsock", MaxEpoch <- 1, MaxAttempts <- 2

\* Two releases that judge one base at a time.
BR == INSTANCE BaseRebuild WITH
  rbNow <- r1, rbVer <- r2, rbBad <- r3, rbOwed <- r4, rbHealed <- r5,
  rbGuilty <- r6, rbGen <- r7, rbSlot <- r8, rbFails <- r9, rbPre <- r10,
  rbFrom <- r11, rbClean <- r12, rbSpawnFails <- r13, rbLastAt <- r14,
  rbLastIdents <- r15, rbLock <- r16, rbThread <- r17, rbPoisons <- r18,
  rbDropFails <- r19, Bases <- {"b"}, WarmSlots <- {"x", "y"},
  Releasers <- {"r1", "r2"}, RebuildAfter <- 2, PreGuestAfter <- 2, Cooldown <- 2, MaxRepair <- 1,
  MaxClock <- 2, MaxPoison <- 0, MaxClean <- 1, MaxDropFails <- 1

\* A base that is found poisoned.
BP == INSTANCE BaseRebuild WITH
  rbNow <- r1, rbVer <- r2, rbBad <- r3, rbOwed <- r4, rbHealed <- r5,
  rbGuilty <- r6, rbGen <- r7, rbSlot <- r8, rbFails <- r9, rbPre <- r10,
  rbFrom <- r11, rbClean <- r12, rbSpawnFails <- r13, rbLastAt <- r14,
  rbLastIdents <- r15, rbLock <- r16, rbThread <- r17, rbPoisons <- r18,
  rbDropFails <- r19, Bases <- {"b"}, WarmSlots <- {"x"}, Releasers <- {"r1"},
  RebuildAfter <- 2, PreGuestAfter <- 2, Cooldown <- 2, MaxRepair <- 1, MaxClock <- 2,
  MaxPoison <- 1, MaxClean <- 1, MaxDropFails <- 1

\* Two slots over up to three bases.
SN == INSTANCE Snapshot WITH
  files <- r1, cur <- r2, age <- r3, epoch <- r4, staged <- r5, repaired <- r6,
  reported <- r7, refs <- r8, retired <- r9, trash <- r10, sweepDue <- r11,
  builder <- r12, built <- r13, slot <- r14, uses <- r15, gen <- r16, stamp <- r17,
  tick <- r18, dropping <- r19, snapFaults <- r20, SnapSlots <- {"s", "t"},
  MaxBuilds <- 3, MaxBatch <- 2, MaxSnapFaults <- 1,
  SnapFaults <- {"discard", "build", "restore", "kill"}

\* A base that goes stale, or is dropped, while it is staged.
SS == INSTANCE Snapshot WITH
  files <- r1, cur <- r2, age <- r3, epoch <- r4, staged <- r5, repaired <- r6,
  reported <- r7, refs <- r8, retired <- r9, trash <- r10, sweepDue <- r11,
  builder <- r12, built <- r13, slot <- r14, uses <- r15, gen <- r16, stamp <- r17,
  tick <- r18, dropping <- r19, snapFaults <- r20, SnapSlots <- {"s"},
  MaxBuilds <- 3, MaxBatch <- 2, MaxSnapFaults <- 2,
  SnapFaults <- {"discard", "stale", "drop"}

\* Two processes over the generations of a host; every fault.
GE == INSTANCE Generations WITH
  gnUp <- r1, gnLease <- r2, gnHolds <- r3, gnDir <- r4, gnVm <- r5, gnFiles <- r6,
  gnKept <- r7, gnParked <- r8, gnLoading <- r9, gnOrphan <- r10, gnAt <- r11,
  gnList <- r12, gnSwept <- r13, gnMissed <- r14, gnCrashes <- r15,
  gnFaults <- r16, Procs <- {"p1", "p2"}, Backend <- "fc", NGens <- 1,
  MaxCrashes <- 1, MaxGenFaults <- 1,
  GenFaults <- {"boot", "write", "kill", "rmtree", "restore", "window"}

\* The same for gVisor, whose machines outlive no directory.
GV == INSTANCE Generations WITH
  gnUp <- r1, gnLease <- r2, gnHolds <- r3, gnDir <- r4, gnVm <- r5, gnFiles <- r6,
  gnKept <- r7, gnParked <- r8, gnLoading <- r9, gnOrphan <- r10, gnAt <- r11,
  gnList <- r12, gnSwept <- r13, gnMissed <- r14, gnCrashes <- r15,
  gnFaults <- r16, Procs <- {"p1", "p2"}, Backend <- "gvisor", NGens <- 1,
  MaxCrashes <- 1, MaxGenFaults <- 1, GenFaults <- {"rmtree", "restore"}

\* Images replaced under a warm base.
GG == INSTANCE GuestGate WITH
  path <- r1, edits <- r2, cache <- r3, vm <- r4, base <- r5, publishes <- r6,
  Images <- {1, 2}, FirstImage <- 1, Drifted <- {2}, ColdSlots <- {},
  WarmSlots <- {"w"}, MaxPublishes <- 2, MaxRewrites <- 1

\* Images replaced under a cold start.
GC == INSTANCE GuestGate WITH
  path <- r1, edits <- r2, cache <- r3, vm <- r4, base <- r5, publishes <- r6,
  Images <- {1, 2}, FirstImage <- 1, Drifted <- {2}, ColdSlots <- {"c"},
  WarmSlots <- {}, MaxPublishes <- 1, MaxRewrites <- 1

\* Two guests, failing commands and restarts.
LV == INSTANCE LibvirtVm WITH
  ipFree <- r1, reservations <- r2, rules <- r3, slots <- r4, orphans <- r5,
  vmFaults <- r6, VmSlotIds <- {"s", "t"}, VmIps <- {1, 2},
  VmFaults <- {"destroy", "unreserve", "reserve", "start", "crash"},
  MaxVmFaults <- 2, MaxOrphans <- 2

\* One guest and every fault.
LW == INSTANCE LibvirtVm WITH
  ipFree <- r1, reservations <- r2, rules <- r3, slots <- r4, orphans <- r5,
  vmFaults <- r6, VmSlotIds <- {"s"}, VmIps <- {1, 2},
  VmFaults <- {"destroy", "unreserve", "reserve", "start", "crash", "apply", "overlay"},
  MaxVmFaults <- 2, MaxOrphans <- 2

\* Three agents, two slots, one account each.
AS == INSTANCE AppSlots WITH
  slotLock <- r1, prepLock <- r2, bundleLock <- r3, retired <- r4, manifest <- r5,
  onDisk <- r6, procs <- r7, files <- r8, io <- r9, loaded <- r10, goal <- r11,
  pc <- r12, prepares <- r13, slotFaults <- r14, Roots <- {"r1", "r2"},
  AppAgents <- {"a", "b", "c"},
  RootOf <- ("a" :> "r1") @@ ("b" :> "r1") @@ ("c" :> "r2"),
  PreparerOf <- ("r1" :> "p1") @@ ("r2" :> "p2"), Bundles <- {1, 2},
  FirstBundle <- [r \in {"r1", "r2"} |-> 1], MaxPrepares <- 1, MaxSlotFaults <- 1,
  SlotFaults <- {"crash", "wipe", "build"}

\* A run that forks, and process ids that are used again.
WD == INSTANCE Watchdog WITH
  state <- r1, pid <- r2, ours <- r3, inGroup <- r4, parent <- r5, forks <- r6,
  reaped <- r7, slain <- r8, seen <- r9, dog <- r10, samples <- r11, run <- r12,
  timedOut <- r13, Pids <- {1, 2, 3}, MaxProcs <- 3, MaxForks <- 2,
  MaxSamples <- 1, QuietRounds <- 3

\* A copy-back that crashes, and its recoverers.
CB == INSTANCE CopyBack WITH
  oldAt <- r1, newAt <- r2, dirs <- r3, journal <- r4, record <- r5, claim <- r6,
  pc <- r7, known <- r8, undoLeft <- r9, undone <- r10, swapFaults <- r11,
  OldNames <- {"a", "b"}, NewNames <- {"b", "c"}, Stagers <- {"x"},
  Agents <- {"g"}, MaxSwapFaults <- 2, SwapFaults <- {"crash", "noxattr"}

\* A copy-back whose calls fail.
CF == INSTANCE CopyBack WITH
  oldAt <- r1, newAt <- r2, dirs <- r3, journal <- r4, record <- r5, claim <- r6,
  pc <- r7, known <- r8, undoLeft <- r9, undone <- r10, swapFaults <- r11,
  OldNames <- {"a", "b"}, NewNames <- {"b", "c"}, Stagers <- {"x"},
  Agents <- {"g"}, MaxSwapFaults <- 2, SwapFaults <- {"fail", "noxattr"}

\* Every fault, one at a time.
CX == INSTANCE CopyBack WITH
  oldAt <- r1, newAt <- r2, dirs <- r3, journal <- r4, record <- r5, claim <- r6,
  pc <- r7, known <- r8, undoLeft <- r9, undone <- r10, swapFaults <- r11,
  OldNames <- {"a", "b"}, NewNames <- {"b", "c"}, Stagers <- {"x"},
  Agents <- {"g"}, MaxSwapFaults <- 1,
  SwapFaults <- {"crash", "fail", "noxattr", "window"}

\* An agent told to stop while engines hang.
AG == INSTANCE HttpAgent WITH
  at <- r1, child <- r2, registered <- r3, emLock <- r4, jobLock <- r5,
  serving <- r6, warmupError <- r7, closed <- r8, shutting <- r9, deferred <- r10,
  retiring <- r11, toSweep <- r12, exited <- r13, jobs <- r14, signals <- r15,
  Handlers <- {"h1", "h2"}, MaxJobs <- 3, MaxSignals <- 2,
  AgentFaults <- {"slow", "hang"}

\* A signal that lands while its own thread holds a lock.
AL == INSTANCE HttpAgent WITH
  at <- r1, child <- r2, registered <- r3, emLock <- r4, jobLock <- r5,
  serving <- r6, warmupError <- r7, closed <- r8, shutting <- r9, deferred <- r10,
  retiring <- r11, toSweep <- r12, exited <- r13, jobs <- r14, signals <- r15,
  Handlers <- {"h1", "h2"}, MaxJobs <- 2, MaxSignals <- 2,
  AgentFaults <- {"locked"}

\* Docker containers: two jobs over two permits, and kills that are not confirmed.
\* Threads of one process are interchangeable.
Pair == {t1, t2}
SameProcess == Permutations(Pair)
BU == INSTANCE Dispatch WITH
  row <- r1, issued <- r2, submitted <- r3, th <- r4, mt <- r5, disk <- r6,
  box <- r7, blob <- r8, permits <- r9, orphans <- r10, upfail <- r11,
  published <- r12, crashes <- r13,
  Nodes <- {"n1"}, Threads <- Pair, NodeOf <- [t \in Pair |-> "n1"],
  Serves <- [t \in Pair |-> {1, 2}], Home <- "n1", NJobs <- 2, MaxClaims <- 2,
  MaxAttempts <- 1, Retaining <- FALSE, Limit <- 2, MaxCrashes <- 0,
  SlowOwners <- FALSE, StoreFaults <- FALSE, QueuedAgeCap <- FALSE

--------------------------------------------------------------------------------
\* The registers a component leaves unused.
Off6 == r7 = 0 /\ r8 = 0 /\ r9 = 0 /\ r10 = 0 /\ r11 = 0 /\ r12 = 0 /\ r13 = 0 /\ r14 = 0 /\
  r15 = 0 /\ r16 = 0 /\ r17 = 0 /\ r18 = 0 /\ r19 = 0 /\ r20 = 0
Keep6 == UNCHANGED <<r7, r8, r9, r10, r11, r12, r13, r14, r15, r16, r17, r18, r19,
  r20>>
Off7 == r8 = 0 /\ r9 = 0 /\ r10 = 0 /\ r11 = 0 /\ r12 = 0 /\ r13 = 0 /\ r14 = 0 /\ r15 = 0 /\
  r16 = 0 /\ r17 = 0 /\ r18 = 0 /\ r19 = 0 /\ r20 = 0
Keep7 == UNCHANGED <<r8, r9, r10, r11, r12, r13, r14, r15, r16, r17, r18, r19, r20>>
Off11 == r12 = 0 /\ r13 = 0 /\ r14 = 0 /\ r15 = 0 /\ r16 = 0 /\ r17 = 0 /\ r18 = 0 /\ r19 = 0 /\
  r20 = 0
Keep11 == UNCHANGED <<r12, r13, r14, r15, r16, r17, r18, r19, r20>>
Off13 == r14 = 0 /\ r15 = 0 /\ r16 = 0 /\ r17 = 0 /\ r18 = 0 /\ r19 = 0 /\ r20 = 0
Keep13 == UNCHANGED <<r14, r15, r16, r17, r18, r19, r20>>
Off14 == r15 = 0 /\ r16 = 0 /\ r17 = 0 /\ r18 = 0 /\ r19 = 0 /\ r20 = 0
Keep14 == UNCHANGED <<r15, r16, r17, r18, r19, r20>>
Off15 == r16 = 0 /\ r17 = 0 /\ r18 = 0 /\ r19 = 0 /\ r20 = 0
Keep15 == UNCHANGED <<r16, r17, r18, r19, r20>>
Off16 == r17 = 0 /\ r18 = 0 /\ r19 = 0 /\ r20 = 0
Keep16 == UNCHANGED <<r17, r18, r19, r20>>
Off19 == r20 = 0
Keep19 == UNCHANGED <<r20>>

RuntimesInit ==
  \/ focus = "spawn" /\ CS!CascInit /\ Off14
  \/ focus = "heal" /\ CH!CascInit /\ Off14
  \/ focus = "admit" /\ CA!CascInit /\ Off14
  \/ focus = "file" /\ WF!WarmInit /\ Off7
  \/ focus = "vsock" /\ WV!WarmInit /\ Off7
  \/ focus = "rebuild" /\ BR!RebuildInit /\ Off19
  \/ focus = "poison" /\ BP!RebuildInit /\ Off19
  \/ focus = "snap" /\ SN!SnapInit
  \/ focus = "stale" /\ SS!SnapInit
  \/ focus = "gens" /\ GE!GenInit /\ Off16
  \/ focus = "gensgv" /\ GV!GenInit /\ Off16
  \/ focus = "gate" /\ GG!GateInit /\ Off6
  \/ focus = "gatecold" /\ GC!GateInit /\ Off6
  \/ focus = "libvirt" /\ LV!LibvirtInit /\ Off6
  \/ focus = "libvirt1" /\ LW!LibvirtInit /\ Off6
  \/ focus = "slots" /\ AS!AppInit /\ Off14
  \/ focus = "dog" /\ WD!DogInit /\ Off13
  \/ focus = "back" /\ CB!BackInit /\ Off11
  \/ focus = "backfail" /\ CF!BackInit /\ Off11
  \/ focus = "backall" /\ CX!BackInit /\ Off11
  \/ focus = "agent" /\ AG!AgentInit /\ Off15
  \/ focus = "agentlock" /\ AL!AgentInit /\ Off15
  \/ focus = "budget" /\ BU!Init /\ Off13

RuntimesNext ==
  /\ \/ focus = "spawn" /\ CS!CascNext /\ Keep14
     \/ focus = "heal" /\ CH!CascNext /\ Keep14
     \/ focus = "admit" /\ CA!CascNext /\ Keep14
     \/ focus = "file" /\ WF!WarmNext /\ Keep7
     \/ focus = "vsock" /\ WV!WarmNext /\ Keep7
     \/ focus = "rebuild" /\ BR!RebuildNext /\ Keep19
     \/ focus = "poison" /\ BP!RebuildNext /\ Keep19
     \/ focus = "snap" /\ SN!SnapNext
     \/ focus = "stale" /\ SS!SnapNext
     \/ focus = "gens" /\ GE!GenNext /\ Keep16
     \/ focus = "gensgv" /\ GV!GenNext /\ Keep16
     \/ focus = "gate" /\ GG!GateNext /\ Keep6
     \/ focus = "gatecold" /\ GC!GateNext /\ Keep6
     \/ focus = "libvirt" /\ LV!LibvirtNext /\ Keep6
     \/ focus = "libvirt1" /\ LW!LibvirtNext /\ Keep6
     \/ focus = "slots" /\ AS!AppNext /\ Keep14
     \/ focus = "dog" /\ WD!DogNext /\ Keep13
     \/ focus = "back" /\ CB!BackNext /\ Keep11
     \/ focus = "backfail" /\ CF!BackNext /\ Keep11
     \/ focus = "backall" /\ CX!BackNext /\ Keep11
     \/ focus = "agent" /\ AG!AgentNext /\ Keep15
     \/ focus = "agentlock" /\ AL!AgentNext /\ Keep15
     \/ focus = "budget" /\ BU!Next /\ Keep13
  /\ UNCHANGED focus

RuntimesSpec == RuntimesInit /\ [][RuntimesNext]_all

--------------------------------------------------------------------------------
\* The permits in use count every live container, no exit path leaks or doubles
\* one, and nobody removes the job directory a live container writes to.
ContainersAccounted ==
  focus = "budget" => BU!PermitsConserved /\ BU!ContainersBudgeted /\ BU!LiveTreeKept

\* The books of the cascade are exact: the room of a tier is what its workers
\* leave, and an undecided tier is deferred, owed or being admitted, never lost.
TiersAccounted ==
  /\ focus = "spawn" => CS!TierRoomExact /\ CS!TierAccountedFor
  /\ focus = "heal" => CH!TierRoomExact /\ CH!TierAccountedFor
  /\ focus = "admit" => CA!TierAccountedFor

\* A worker is convicted, and a base dropped, only on evidence about itself.
EvidenceDecides ==
  /\ focus = "file" => WF!ConvictsOnEvidence
  /\ focus = "vsock" => WV!ConvictsOnEvidence
  /\ focus = "rebuild" => BR!DropIsEarned
  /\ focus = "poison" => BP!DropIsEarned

\* A base stays while something runs from it, across processes and generations,
\* and what runs was started from the files that were checked.
BasesHeld ==
  /\ focus = "snap" => SN!GenerationsHeld /\ SN!StampNamesItsBase
  /\ focus = "stale" => SS!GenerationsHeld
  /\ focus = "gens" => GE!InUseIsKept
  /\ focus = "gensgv" => GV!InUseIsKept
  /\ focus = "gate" => GG!ServesTheCheckedRootfs
  /\ focus = "gatecold" => GC!ServesTheCheckedRootfs

\* A run ends alone and whole: a guest is filtered as long as it lives, a slot
\* runs one agent at a time, the watchdog kills the run and nobody else, a
\* copy-back leaves all of the old or all of the new, and an agent that retires
\* leaves no child behind.
RunsEndClean ==
  /\ focus = "libvirt" => LV!GuestsContained
  /\ focus = "libvirt1" => LW!GuestsContained
  /\ focus = "slots" => AS!RunsAlone
  /\ focus = "dog" => WD!RunEndsAlone
  /\ focus = "back" => CB!CopyBackWhole
  /\ focus = "backfail" => CF!CopyBackWhole
  /\ focus = "agent" => AG!RetiresClean
================================================================================
