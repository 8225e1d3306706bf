------------------------------ MODULE MCProgress -------------------------------
(* The liveness of the components that stand alone, for TLC: focus names the  *)
(* component a behaviour is about, its variables live in the registers r1,    *)
(* r2, ..., and the rest of them stay 0. The sizer keeps its own variables,   *)
(* because its table of plans is a constant that TLC evaluates once only in a *)
(* module it extends.                                                         *)
EXTENDS NodeSizer, TLC

VARIABLES focus, r1, r2, r3, r4, r5, r6, r7, r8, r9, r10, r11, r12, r13, r14, r15,
          r16, r17, r18, r19, r20

registers == <<r1, r2, r3, r4, r5, r6, r7, r8, r9, r10, r11, r12, r13, r14, r15,
               r16, r17, r18, r19, r20>>
all == <<focus, registers, sizerVars>>

\* The two dispatchers of the sizer serve different engines.
TwoEngines == (1 :> "e") @@ (2 :> "f")

--------------------------------------------------------------------------------
\* Two nodes with different certificates over two jobs; nothing fails.
NF == INSTANCE NodeClaim WITH
  nrow <- r1, nspool <- r2, grants <- r3, memo <- r4, unrunnable <- r5, creq <- r6,
  seen <- r7, session <- r8, tracked <- r9, settled <- r10, work <- r11,
  wire <- r12, faults <- r13, Nodes <- {"a", "b"}, NClaims <- 8, MaxProbes <- 1,
  MaxSkips <- 2, MaxTracked <- 1, MaxListed <- 1, MaxMemo <- 4,
  QueuedAgeCap <- FALSE, Granted <- ("a" :> {2}) @@ ("b" :> {1}),
  Regranted <- ("a" :> {1, 2}) @@ ("b" :> {1}), NJobs <- 2, Slots <- 1,
  MaxFaults <- 0

\* Lost answers, crashes and expired claims.
NL == INSTANCE NodeClaim WITH
  nrow <- r1, nspool <- r2, grants <- r3, memo <- r4, unrunnable <- r5, creq <- r6,
  seen <- r7, session <- r8, tracked <- r9, settled <- r10, work <- r11,
  wire <- r12, faults <- r13, Nodes <- {"a", "b"}, NClaims <- 8, MaxProbes <- 1,
  MaxSkips <- 2, MaxTracked <- 1, MaxListed <- 1, MaxMemo <- 4,
  QueuedAgeCap <- FALSE, Granted <- ("a" :> {2}) @@ ("b" :> {1}),
  Regranted <- ("a" :> {1, 2}) @@ ("b" :> {1}), NJobs <- 1, Slots <- 1,
  MaxFaults <- 2

\* Two hosts over one job, a store that fails, dead and slow owners; two claims.
VM == INSTANCE VmDispatch WITH
  row <- r1, issued <- r2, submitted <- r3, w <- r4, val <- r5, slotOf <- r6,
  dir <- r7, vblob <- r8, sweep <- r9, exhausted <- r10, NJobs <- 1,
  MaxClaims <- 2, MaxAttempts <- 2, Retaining <- FALSE, Workers <- {"x1", "x2"},
  VmHosts <- {"h1", "h2"}, HostOf <- ("x1" :> "h1") @@ ("x2" :> "h2"),
  VmSlots <- {"s1"}, SoleOwner <- FALSE,
  Faults <- {"store", "fetch", "blob", "crash", "slow"}

\* Two undecided tiers, and shutdowns during admission.
CA == INSTANCE Cascade WITH
  tiers <- r1, counts <- r2, fails <- r3, guilty <- r4, owner <- r5, backend <- r6,
  sp <- r7, reaps <- r8, deferred <- r9, owed <- r10, adm <- r11, closing <- r12,
  closes <- r13, verdict <- r14, NTiers <- 3, Undecided <- {2, 3},
  Capacity <- <<1, 1, 1>>, SpawnThreads <- {}, CSlots <- {}, RebuildAfter <- 2,
  MaxFails <- 2, MaxCloses <- 2

\* One slot over up to three bases and any fault.
SN == INSTANCE Snapshot WITH
  files <- r1, cur <- r2, age <- r3, epoch <- r4, staged <- r5, repaired <- r6,
  reported <- r7, refs <- r8, retired <- r9, trash <- r10, sweepDue <- r11,
  builder <- r12, built <- r13, slot <- r14, uses <- r15, gen <- r16, stamp <- r17,
  tick <- r18, dropping <- r19, snapFaults <- r20, SnapSlots <- {"s"},
  MaxBuilds <- 3, MaxBatch <- 1, MaxSnapFaults <- 1,
  SnapFaults <- {"discard", "build", "restore", "kill", "stale", "drop"}

\* Two processes, one of which dies; a removal may fail.
GV == INSTANCE Generations WITH
  gnUp <- r1, gnLease <- r2, gnHolds <- r3, gnDir <- r4, gnVm <- r5, gnFiles <- r6,
  gnKept <- r7, gnParked <- r8, gnLoading <- r9, gnOrphan <- r10, gnAt <- r11,
  gnList <- r12, gnSwept <- r13, gnMissed <- r14, gnCrashes <- r15,
  gnFaults <- r16, Procs <- {"p1", "p2"}, Backend <- "gvisor", NGens <- 1,
  MaxCrashes <- 1, MaxGenFaults <- 1, GenFaults <- {"rmtree"}

\* Two interfaces of a linux worker.
LF == INSTANCE LinkFirewall WITH
  lkConf <- r1, lkJoined <- r2, lkFile <- r3, lkUnits <- r4, lkTable <- r5,
  lkReq <- r6, lkTimer <- r7, lkBoot <- r8, lkUp <- r9, lkOp <- r10, lkTold <- r11,
  lkFails <- r12, Ifaces <- {"wa", "wb"}, MaxFailures <- 2

\* A worker on macOS: two tunnel devices.
LD == INSTANCE LinkDarwin WITH
  dkTun <- r1, dkName <- r2, dkPf <- r3, dkMain <- r4, dkAnchor <- r5,
  dkStamp <- r6, dkLoaded <- r7, dkPlist <- r8, dkDog <- r9, dkOp <- r10,
  dkTold <- r11, dkEvents <- r12, Utuns <- {"u1", "u2"}, MaxEvents <- 2

\* netd and an event stream that breaks.
ND == INSTANCE Netd WITH
  life <- r1, events <- r2, stream <- r3, drops <- r4, todo <- r5, active <- r6,
  wired <- r7, tproxied <- r8, guardedSet <- r9, guardFailed <- r10, dump <- r11,
  pcap <- r12, doneFile <- r13, guard <- r14, route <- r15, redirect <- r16,
  sealed <- r17, Boxes <- {"c1", "c2"}, JobOf <- [c \in {"c1", "c2"} |-> "j"],
  AddrOf <- [c \in {"c1", "c2"} |-> 1],
  WireMode <- ("c1" :> "transproxy") @@ ("c2" :> "vpn"), MaxDrops <- 2,
  NetFaults <- {}

\* Two operator programs on an egress host and one fault.
EG == INSTANCE EgressNode WITH
  lookups <- r1, blackholes <- r2, tunRoute <- r3, tunUp <- r4, jump <- r5,
  chain <- r6, fwd <- r7, envFile <- r8, unitOn <- r9, timerOn <- r10, prog <- r11,
  undone <- r12, runs <- r13, faults <- r14, Operator <- {"apply", "teardown"},
  MaxRuns <- 2, MaxStack <- 4, MaxEgressFaults <- 1,
  EgressFaults <- {"step", "tunnel", "dockerd"}

\* A copy-back that crashes, and its recoverers.
CB == INSTANCE CopyBack WITH
  oldAt <- r1, newAt <- r2, dirs <- r3, journal <- r4, record <- r5, claim <- r6,
  pc <- r7, known <- r8, undoLeft <- r9, undone <- r10, swapFaults <- r11,
  OldNames <- {"a", "b"}, NewNames <- {"b", "c"}, Stagers <- {"x"},
  Agents <- {"g"}, MaxSwapFaults <- 2, SwapFaults <- {"crash", "noxattr"}

\* An agent told to stop while engines hang.
AG == INSTANCE HttpAgent WITH
  at <- r1, child <- r2, registered <- r3, emLock <- r4, jobLock <- r5,
  serving <- r6, warmupError <- r7, closed <- r8, shutting <- r9, deferred <- r10,
  retiring <- r11, toSweep <- r12, exited <- r13, jobs <- r14, signals <- r15,
  Handlers <- {"h1", "h2"}, MaxJobs <- 3, MaxSignals <- 2, AgentFaults <- {"hang"}

--------------------------------------------------------------------------------
\* The registers a component leaves unused.
Off0 == r1 = 0 /\ r2 = 0 /\ r3 = 0 /\ r4 = 0 /\ r5 = 0 /\ r6 = 0 /\ r7 = 0 /\ r8 = 0 /\ r9 = 0 /\
  r10 = 0 /\ r11 = 0 /\ r12 = 0 /\ r13 = 0 /\ r14 = 0 /\ r15 = 0 /\ r16 = 0 /\ r17 = 0 /\ r18 = 0 /\
  r19 = 0 /\ r20 = 0
Keep0 == UNCHANGED <<r1, r2, r3, r4, r5, r6, r7, r8, r9, r10, r11, r12, r13, r14,
  r15, r16, r17, r18, r19, r20>>
Off10 == r11 = 0 /\ r12 = 0 /\ r13 = 0 /\ r14 = 0 /\ r15 = 0 /\ r16 = 0 /\ r17 = 0 /\ r18 = 0 /\
  r19 = 0 /\ r20 = 0
Keep10 == UNCHANGED <<r11, r12, r13, r14, r15, r16, r17, r18, r19, r20>>
Off11 == r12 = 0 /\ r13 = 0 /\ r14 = 0 /\ r15 = 0 /\ r16 = 0 /\ r17 = 0 /\ r18 = 0 /\ r19 = 0 /\
  r20 = 0
Keep11 == UNCHANGED <<r12, r13, r14, r15, r16, r17, r18, r19, r20>>
Off12 == r13 = 0 /\ r14 = 0 /\ r15 = 0 /\ r16 = 0 /\ r17 = 0 /\ r18 = 0 /\ r19 = 0 /\ r20 = 0
Keep12 == UNCHANGED <<r13, r14, r15, r16, r17, r18, r19, r20>>
Off13 == r14 = 0 /\ r15 = 0 /\ r16 = 0 /\ r17 = 0 /\ r18 = 0 /\ r19 = 0 /\ r20 = 0
Keep13 == UNCHANGED <<r14, r15, r16, r17, r18, r19, r20>>
Off14 == r15 = 0 /\ r16 = 0 /\ r17 = 0 /\ r18 = 0 /\ r19 = 0 /\ r20 = 0
Keep14 == UNCHANGED <<r15, r16, r17, r18, r19, r20>>
Off15 == r16 = 0 /\ r17 = 0 /\ r18 = 0 /\ r19 = 0 /\ r20 = 0
Keep15 == UNCHANGED <<r16, r17, r18, r19, r20>>
Off16 == r17 = 0 /\ r18 = 0 /\ r19 = 0 /\ r20 = 0
Keep16 == UNCHANGED <<r17, r18, r19, r20>>
Off17 == r18 = 0 /\ r19 = 0 /\ r20 = 0
Keep17 == UNCHANGED <<r18, r19, r20>>
NoNodeSizer == szShare = 0 /\ szWarm = 0 /\ szCeil = 0 /\ szGate = 0 /\ szIdle = 0 /\
  szBusy = 0 /\ szCold = 0 /\ szQueue = 0 /\ szLast = 0 /\ szScale = 0 /\ szFree = 0 /\
  szBlocked = 0 /\ szTick = 0 /\ szUp = 0 /\ szLease = 0 /\ szComing = 0
KeepNodeSizer == UNCHANGED sizerVars

ProgressInit ==
  \/ focus = "fleet" /\ NF!NodeInit /\ Off13 /\ NoNodeSizer
  \/ focus = "lossy" /\ NL!NodeInit /\ Off13 /\ NoNodeSizer
  \/ focus = "vm" /\ VM!VmInit /\ Off10 /\ NoNodeSizer
  \/ focus = "sizer" /\ SizerInit /\ Off0
  \/ focus = "admit" /\ CA!CascInit /\ Off14 /\ NoNodeSizer
  \/ focus = "snap" /\ SN!SnapInit /\ NoNodeSizer
  \/ focus = "gens" /\ GV!GenInit /\ Off16 /\ NoNodeSizer
  \/ focus = "firewall" /\ LF!LinkInit /\ Off12 /\ NoNodeSizer
  \/ focus = "mac" /\ LD!DarwinInit /\ Off12 /\ NoNodeSizer
  \/ focus = "netd" /\ ND!NetInit /\ Off17 /\ NoNodeSizer
  \/ focus = "egress" /\ EG!EgressInit /\ Off14 /\ NoNodeSizer
  \/ focus = "back" /\ CB!BackInit /\ Off11 /\ NoNodeSizer
  \/ focus = "agent" /\ AG!AgentInit /\ Off15 /\ NoNodeSizer

ProgressNext ==
  /\ \/ focus = "fleet" /\ NF!NodeNext /\ Keep13 /\ KeepNodeSizer
     \/ focus = "lossy" /\ NL!NodeNext /\ Keep13 /\ KeepNodeSizer
     \/ focus = "vm" /\ VM!VmNext /\ Keep10 /\ KeepNodeSizer
     \/ focus = "sizer" /\ SizerNext /\ Keep0
     \/ focus = "admit" /\ CA!CascNext /\ Keep14 /\ KeepNodeSizer
     \/ focus = "snap" /\ SN!SnapNext /\ KeepNodeSizer
     \/ focus = "gens" /\ GV!GenNext /\ Keep16 /\ KeepNodeSizer
     \/ focus = "firewall" /\ LF!LinkNext /\ Keep12 /\ KeepNodeSizer
     \/ focus = "mac" /\ LD!DarwinNext /\ Keep12 /\ KeepNodeSizer
     \/ focus = "netd" /\ ND!NetNext /\ Keep17 /\ KeepNodeSizer
     \/ focus = "egress" /\ EG!EgressNext /\ Keep14 /\ KeepNodeSizer
     \/ focus = "back" /\ CB!BackNext /\ Keep11 /\ KeepNodeSizer
     \/ focus = "agent" /\ AG!AgentNext /\ Keep15 /\ KeepNodeSizer
  /\ UNCHANGED focus

\* Each component has the fairness its own module states.  A behaviour is about one
\* component, so the i-th fair action of all of them is one disjunction.
Fair1 ==
  \/ focus = "fleet" /\ NF!Handshake("a") /\ Keep13 /\ KeepNodeSizer /\ UNCHANGED focus
  \/ focus = "lossy" /\ NL!Handshake("a") /\ Keep13 /\ KeepNodeSizer /\ UNCHANGED focus
  \/ focus = "vm" /\ VM!WorkerStep("x1") /\ Keep10 /\ KeepNodeSizer /\ UNCHANGED focus
  \/ focus = "sizer" /\ Ticks(1) /\ Keep0 /\ UNCHANGED focus
  \/ focus = "admit" /\ CA!AdmitBegins /\ Keep14 /\ KeepNodeSizer /\ UNCHANGED focus
  \/ focus = "snap" /\ SN!Tick /\ KeepNodeSizer /\ UNCHANGED focus
  \/ focus = "gens" /\ GV!Build("p1") /\ Keep16 /\ KeepNodeSizer /\ UNCHANGED focus
  \/ focus = "firewall" /\ LF!Reassert /\ Keep12 /\ KeepNodeSizer /\ UNCHANGED focus
  \/ focus = "mac" /\ LD!DogRuns /\ Keep12 /\ KeepNodeSizer /\ UNCHANGED focus
  \/ focus = "netd" /\ ND!NetdStep /\ Keep17 /\ KeepNodeSizer /\ UNCHANGED focus
  \/ focus = "egress" /\ EG!TimerRuns /\ Keep14 /\ KeepNodeSizer /\ UNCHANGED focus
  \/ focus = "back" /\ CB!WriterGoes /\ Keep11 /\ KeepNodeSizer /\ UNCHANGED focus
  \/ focus = "agent" /\ AG!RetireStep /\ Keep15 /\ KeepNodeSizer /\ UNCHANGED focus
Fair2 ==
  \/ focus = "fleet" /\ NF!ClaimRequest("a") /\ Keep13 /\ KeepNodeSizer /\ UNCHANGED focus
  \/ focus = "lossy" /\ NL!ClaimRequest("a") /\ Keep13 /\ KeepNodeSizer /\ UNCHANGED focus
  \/ focus = "vm" /\ VM!WorkerStep("x2") /\ Keep10 /\ KeepNodeSizer /\ UNCHANGED focus
  \/ focus = "sizer" /\ Ticks(2) /\ Keep0 /\ UNCHANGED focus
  \/ focus = "admit" /\ CA!AdmitStep /\ Keep14 /\ KeepNodeSizer /\ UNCHANGED focus
  \/ focus = "snap" /\ SN!Ensure /\ KeepNodeSizer /\ UNCHANGED focus
  \/ focus = "gens" /\ GV!StartProc("p1") /\ Keep16 /\ KeepNodeSizer /\ UNCHANGED focus
  \/ focus = "mac" /\ LD!CommandSteps /\ Keep12 /\ KeepNodeSizer /\ UNCHANGED focus
  \/ focus = "egress" /\ EG!CommandRuns /\ Keep14 /\ KeepNodeSizer /\ UNCHANGED focus
  \/ focus = "agent" /\ AG!RunStep("main") /\ Keep15 /\ KeepNodeSizer /\ UNCHANGED focus
Fair3 ==
  \/ focus = "fleet" /\ NF!ServeClaim("a") /\ Keep13 /\ KeepNodeSizer /\ UNCHANGED focus
  \/ focus = "lossy" /\ NL!ServeClaim("a") /\ Keep13 /\ KeepNodeSizer /\ UNCHANGED focus
  \/ focus = "vm" /\ VM!ValidateStep(1) /\ Keep10 /\ KeepNodeSizer /\ UNCHANGED focus
  \/ focus = "sizer" /\ Serves(1) /\ Keep0 /\ UNCHANGED focus
  \/ focus = "snap" /\ SN!Background /\ KeepNodeSizer /\ UNCHANGED focus
  \/ focus = "gens" /\ GV!Build("p2") /\ Keep16 /\ KeepNodeSizer /\ UNCHANGED focus
  \/ focus = "egress" /\ EG!TunnelReturns /\ Keep14 /\ KeepNodeSizer /\ UNCHANGED focus
  \/ focus = "agent" /\ AG!RunStep("h1") /\ Keep15 /\ KeepNodeSizer /\ UNCHANGED focus
Fair4 ==
  \/ focus = "fleet" /\ NF!Reports("a") /\ Keep13 /\ KeepNodeSizer /\ UNCHANGED focus
  \/ focus = "lossy" /\ NL!Reports("a") /\ Keep13 /\ KeepNodeSizer /\ UNCHANGED focus
  \/ focus = "vm" /\ VM!ValidateStep(2) /\ Keep10 /\ KeepNodeSizer /\ UNCHANGED focus
  \/ focus = "sizer" /\ Serves(2) /\ Keep0 /\ UNCHANGED focus
  \/ focus = "gens" /\ GV!StartProc("p2") /\ Keep16 /\ KeepNodeSizer /\ UNCHANGED focus
  \/ focus = "agent" /\ AG!RunStep("h2") /\ Keep15 /\ KeepNodeSizer /\ UNCHANGED focus
Fair5 ==
  \/ focus = "fleet" /\ NF!Handshake("b") /\ Keep13 /\ KeepNodeSizer /\ UNCHANGED focus
  \/ focus = "lossy" /\ NL!Handshake("b") /\ Keep13 /\ KeepNodeSizer /\ UNCHANGED focus
  \/ focus = "vm" /\ VM!VmAge(1) /\ Keep10 /\ KeepNodeSizer /\ UNCHANGED focus
  \/ focus = "agent" /\ AG!RunStep("warm") /\ Keep15 /\ KeepNodeSizer /\ UNCHANGED focus
Fair6 ==
  \/ focus = "fleet" /\ NF!ClaimRequest("b") /\ Keep13 /\ KeepNodeSizer /\ UNCHANGED focus
  \/ focus = "lossy" /\ NL!ClaimRequest("b") /\ Keep13 /\ KeepNodeSizer /\ UNCHANGED focus
  \/ focus = "vm" /\ VM!VmDue(1) /\ Keep10 /\ KeepNodeSizer /\ UNCHANGED focus
Fair7 ==
  \/ focus = "fleet" /\ NF!ServeClaim("b") /\ Keep13 /\ KeepNodeSizer /\ UNCHANGED focus
  \/ focus = "lossy" /\ NL!ServeClaim("b") /\ Keep13 /\ KeepNodeSizer /\ UNCHANGED focus
  \/ focus = "vm" /\ VM!PeerRequeues(1) /\ Keep10 /\ KeepNodeSizer /\ UNCHANGED focus
Fair8 ==
  \/ focus = "fleet" /\ NF!Reports("b") /\ Keep13 /\ KeepNodeSizer /\ UNCHANGED focus
  \/ focus = "lossy" /\ NL!Reports("b") /\ Keep13 /\ KeepNodeSizer /\ UNCHANGED focus
  \/ focus = "vm" /\ VM!SweepRead("h1", 1) /\ Keep10 /\ KeepNodeSizer /\ UNCHANGED focus
Fair9 ==
  \/ focus = "fleet" /\ NF!ReportArrives /\ Keep13 /\ KeepNodeSizer /\ UNCHANGED focus
  \/ focus = "lossy" /\ NL!ReportArrives /\ Keep13 /\ KeepNodeSizer /\ UNCHANGED focus
  \/ focus = "vm" /\ VM!SweepRead("h2", 1) /\ Keep10 /\ KeepNodeSizer /\ UNCHANGED focus
Fair10 ==
  \/ focus = "fleet" /\ NF!AnswerArrives /\ Keep13 /\ KeepNodeSizer /\ UNCHANGED focus
  \/ focus = "lossy" /\ NL!AnswerArrives /\ Keep13 /\ KeepNodeSizer /\ UNCHANGED focus
  \/ focus = "vm" /\ (VM!SweepFail("h1") \/ VM!SweepUnlink("h1")) /\ Keep10 /\ KeepNodeSizer /\ UNCHANGED focus
Fair11 ==
  \/ focus = "fleet" /\ NF!Sweep /\ Keep13 /\ KeepNodeSizer /\ UNCHANGED focus
  \/ focus = "lossy" /\ NL!Sweep /\ Keep13 /\ KeepNodeSizer /\ UNCHANGED focus
  \/ focus = "vm" /\ (VM!SweepFail("h2") \/ VM!SweepUnlink("h2")) /\ Keep10 /\ KeepNodeSizer /\ UNCHANGED focus
Fair12 ==
  \/ focus = "fleet" /\ NF!DeferralPasses(1) /\ Keep13 /\ KeepNodeSizer /\ UNCHANGED focus
  \/ focus = "lossy" /\ NL!DeferralPasses(1) /\ Keep13 /\ KeepNodeSizer /\ UNCHANGED focus
Fair13 ==
  \/ focus = "fleet" /\ NF!DeferralPasses(2) /\ Keep13 /\ KeepNodeSizer /\ UNCHANGED focus
Strong1 ==
  \/ focus = "fleet" /\ NF!ListRunning(1) /\ Keep13 /\ KeepNodeSizer /\ UNCHANGED focus
  \/ focus = "lossy" /\ NL!ListRunning(1) /\ Keep13 /\ KeepNodeSizer /\ UNCHANGED focus
  \/ focus = "admit" /\ CA!AdmitDecides /\ Keep14 /\ KeepNodeSizer /\ UNCHANGED focus
  \/ focus = "back" /\ CB!RecovererGoes("x") /\ Keep11 /\ KeepNodeSizer /\ UNCHANGED focus
Strong2 ==
  \/ focus = "fleet" /\ NF!ListRunning(2) /\ Keep13 /\ KeepNodeSizer /\ UNCHANGED focus
  \/ focus = "back" /\ CB!RecovererGoes("g") /\ Keep11 /\ KeepNodeSizer /\ UNCHANGED focus

Fairness ==
  /\ WF_all(Fair1)
  /\ WF_all(Fair2)
  /\ WF_all(Fair3)
  /\ WF_all(Fair4)
  /\ WF_all(Fair5)
  /\ WF_all(Fair6)
  /\ WF_all(Fair7)
  /\ WF_all(Fair8)
  /\ WF_all(Fair9)
  /\ WF_all(Fair10)
  /\ WF_all(Fair11)
  /\ WF_all(Fair12)
  /\ WF_all(Fair13)
  /\ SF_all(Strong1)
  /\ SF_all(Strong2)

ProgressSpec == ProgressInit /\ [][ProgressNext]_all /\ Fairness

--------------------------------------------------------------------------------
\* A queued job that some live node may run is taken, and no claim, of a node or of
\* a virtual machine dispatcher, holds its job for ever, whatever was lost.
ClaimsProgress ==
  []<>(/\ focus = "fleet" => \A j \in 1..2 : NF!TakenOrEnded(j)
       /\ focus = "lossy" => NL!Unclaimed(1)
       /\ focus = "vm" => \A c \in 1..2 : VM!LetGo(1, c))

\* The dispatchers of a node come to share its memory without exceeding it.
CeilingsFit == <>[](focus = "sizer" => Fits)

\* A tier without a base gets one again, a parked base is swept, an undecided tier
\* of a pool that stays open gets its verdict, and the generations of a dead
\* dispatcher are removed.
TiersRecover ==
  []<>(/\ focus = "admit" => \A d \in {2, 3} : CA!DecidedOrClosing(d)
       /\ focus = "snap" => SN!HasBaseOrGaveUp /\ \A b \in 1..3 : SN!SweptOrUsed(b)
       /\ focus = "gens" => \A g \in GV!Gens : GV!DeadReclaimed(g))

\* A link, an egress host, netd's wiring, a copy-back and an agent do not stay in
\* the state a fault left them in: they are enforced again, caught up with,
\* resolved or ended.
NodeRecovers ==
  []<>(/\ focus = "firewall" => \A l \in {"wa", "wb"} : LF!DownOrFiltered(l)
       /\ focus = "mac" => LD!EnforcedOrTold
       /\ focus = "netd" => \A c \in {"c1", "c2"} : ND!WiredIfUp(c) /\ ND!AddressFreed(c)
       /\ focus = "egress" => EG!EnforcedOrLifted
       /\ focus = "back" => CB!Resolved
       /\ focus = "agent" => AG!EndsIfItMust)
================================================================================
