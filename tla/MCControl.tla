------------------------------ MODULE MCControl --------------------------------
(* The control plane, the network of a node and the remote machines for TLC.  *)
(* The components share no state here, so one state graph holds them side by  *)
(* side: focus names the component a behaviour is about, its variables live   *)
(* in the registers r1, r2, ..., and the rest of them stay 0. Every property  *)
(* is guarded by the focus it is about.                                       *)
EXTENDS Naturals, SequencesExt, TLC

VARIABLES focus, r1, r2, r3, r4, r5, r6, r7, r8, r9, r10, r11, r12, r13, r14, r15,
          r16, r17

registers == <<r1, r2, r3, r4, r5, r6, r7, r8, r9, r10, r11, r12, r13, r14, r15,
               r16, r17>>
all == <<focus, registers>>

Rq(n, fits, extras, under) == [name |-> n, fits |-> fits, extras |-> extras, under |-> under]
Pin(n, v, here, hashed, extras) == [kind |-> "pin", name |-> n, version |-> v, here |-> here,
                                    hashed |-> hashed, extras |-> extras, to |-> "none"]
Ref(kind, f) == [kind |-> kind, to |-> f, name |-> "none", version |-> 0]

\* Requirement files that include and constrain each other in any way.
Layouts ==
  {[lines |-> [root |-> SetToSeq(R1) \o <<Pin("blastbox", 1, TRUE, TRUE, {})>>,
               inc  |-> SetToSeq(R2) \o <<Pin("p", 1, TRUE, TRUE, {})>>,
               cons |-> SetToSeq(R3) \o <<Pin("p", 2, TRUE, TRUE, {})>>],
    requires |-> {}, needs |-> << >>, declared |-> {}] :
     R1 \in SUBSET {Ref("r", "inc"), Ref("c", "cons"), Ref("c", "inc")},
     R2 \in SUBSET {Ref("r", "root"), Ref("c", "cons"), Ref("c", "inc")},
     R3 \in SUBSET {Ref("r", "inc"), Ref("c", "cons")}}

\* Dependency graphs over two packages with extras, cycles and duplicate pins.
DependencyGraphs ==
  {[lines |-> [root |-> <<Ref("r", "inc"), Pin("blastbox", 1, TRUE, TRUE, bx)>>,
               inc  |-> SelectSeq(<<Pin("p", 1, TRUE, TRUE, {}), p, q>>,
                                  LAMBDA l : l.version > 0),
               cons |-> << >>],
    requires |-> rs, needs |-> (<<"p", 1>> :> np) @@ (<<"q", 1>> :> nq), declared |-> {}] :
     bx \in {{}, {"y"}},
     p \in {Pin("p", 0, TRUE, TRUE, {}), Pin("p", 2, TRUE, TRUE, {}), Pin("p", 2, FALSE, TRUE, {})},
     q \in {Pin("q", 0, TRUE, TRUE, {}), Pin("q", 1, TRUE, FALSE, {}), Pin("q", 1, TRUE, TRUE, {})},
     rs \in SUBSET {Rq("p", {1, 2}, {"x"}, ""), Rq("q", {1}, {}, "x"),
                    Rq("blastbox", {1}, {"x"}, "y")},
     np \in SUBSET {Rq("q", {1}, {}, ""), Rq("p", {1, 2}, {"x"}, ""), Rq("q", {1}, {"x"}, "x")},
     nq \in SUBSET {Rq("p", {2}, {}, ""), Rq("z", {1}, {}, "x")}}

Worlds == Layouts \cup DependencyGraphs

--------------------------------------------------------------------------------
\* One tree of the present format and one from before receipts, one death.
RC == INSTANCE Receipts WITH
  stored <- r1, tree <- r2, stage <- r3, todo <- r4, rowDone <- r5, reader <- r6,
  remark <- r7, deaths <- r8, FreshTrees <- {1}, LegacyTrees <- {2}, MaxDeaths <- 1

\* A versioned bucket: two deletes, a late upload and a reader.
DE == INSTANCE ResultStore WITH
  objs <- r1, newest <- r2, row <- r3, versioning <- r4, del <- r5, read <- r6,
  errs <- r7, puts <- r8, Deleters <- {"route", "sweep"},
  History <- <<2, 1, 3, 1>>, DeleteBatch <- 3, Versioned <- TRUE, Denied <- {},
  MaxErrors <- 2, MaxPuts <- 1

\* A plain bucket whose policy hides the versioning status.
DB == INSTANCE ResultStore WITH
  objs <- r1, newest <- r2, row <- r3, versioning <- r4, del <- r5, read <- r6,
  errs <- r7, puts <- r8, Deleters <- {"route", "sweep"},
  History <- <<1, 1, 1, 1>>, DeleteBatch <- 3, Versioned <- FALSE,
  Denied <- {"status", "versions"}, MaxErrors <- 2, MaxPuts <- 1

\* Two dispatchers that agree and an ingress on another store.
BO == INSTANCE StoreBoot WITH
  objects <- r1, registry <- r2, phase <- r3, probe <- r4, probes <- r5,
  resets <- r6, Dispatchers <- {"d1", "d2"}, Ingresses <- {"i"},
  WritesTo <- ("d1" :> "a") @@ ("d2" :> "a") @@ ("i" :> "b"),
  ReadsFrom <- ("d1" :> "a") @@ ("d2" :> "a") @@ ("i" :> "b"), NoDelete <- {},
  KeyOf <- ("d1" :> "k") @@ ("d2" :> "k") @@ ("i" :> "i"), MaxProbes <- 2,
  MaxResets <- 1

\* Two nodes over one job, one of them certified for it later; two faults.
NC == INSTANCE NodeClaim WITH
  nrow <- r1, nspool <- r2, grants <- r3, memo <- r4, unrunnable <- r5, creq <- r6,
  seen <- r7, session <- r8, tracked <- r9, settled <- r10, work <- r11,
  wire <- r12, faults <- r13, Nodes <- {"a", "b"}, NJobs <- 1, NClaims <- 8,
  Slots <- 2, MaxProbes <- 1, MaxSkips <- 2, MaxTracked <- 1, MaxListed <- 1,
  MaxMemo <- 4, MaxFaults <- 2, QueuedAgeCap <- TRUE,
  Granted <- ("a" :> {2}) @@ ("b" :> {1}),
  Regranted <- ("a" :> {1, 2}) @@ ("b" :> {1})

\* Two hosts over one job with every fault; two claims.
VM == INSTANCE VmDispatch WITH
  row <- r1, issued <- r2, submitted <- r3, w <- r4, val <- r5, slotOf <- r6,
  dir <- r7, vblob <- r8, sweep <- r9, exhausted <- r10, NJobs <- 1,
  MaxClaims <- 2, MaxAttempts <- 2, Retaining <- FALSE, Workers <- {"x1", "x2"},
  VmHosts <- {"h1", "h2"}, HostOf <- ("x1" :> "h1") @@ ("x2" :> "h2"),
  VmSlots <- {"s1"}, SoleOwner <- FALSE,
  Faults <- {"store", "fetch", "hang", "busy", "agent", "blob", "crash", "slow", "gate"}

\* Two configured boxes and two spawn threads.
SP == INSTANCE StaticPool WITH
  free <- r1, burned <- r2, cooling <- r3, seen <- r4, lease <- r5, thr <- r6,
  Boxes <- {1, 2}, Spawners <- {"x1", "x2"}, NeedsEgress <- TRUE

\* Two interfaces of a linux worker.
LF == INSTANCE LinkFirewall WITH
  lkConf <- r1, lkJoined <- r2, lkFile <- r3, lkUnits <- r4, lkTable <- r5,
  lkReq <- r6, lkTimer <- r7, lkBoot <- r8, lkUp <- r9, lkOp <- r10, lkTold <- r11,
  lkFails <- r12, Ifaces <- {"wa", "wb"}, MaxFailures <- 2

\* The hub: one worker, two addresses, two keys, three faults.
LH == INSTANCE LinkHost WITH
  hlKey <- r1, hlConf <- r2, hlEnv <- r3, hlFw <- r4, hlUp <- r5, hlLive <- r6,
  hlBoot <- r7, hlBundle <- r8, hlRotated <- r9, hlOp <- r10, hlClean <- r11,
  hlNext <- r12, hlTrouble <- r13, LinkWorkers <- {"u"}, Addrs <- {1, 2},
  MaxKeys <- 2, MaxTrouble <- 3

\* A worker on macOS: two tunnel devices.
LD == INSTANCE LinkDarwin WITH
  dkTun <- r1, dkName <- r2, dkPf <- r3, dkMain <- r4, dkAnchor <- r5,
  dkStamp <- r6, dkLoaded <- r7, dkPlist <- r8, dkDog <- r9, dkOp <- r10,
  dkTold <- r11, dkEvents <- r12, Utuns <- {"u1", "u2"}, MaxEvents <- 3

\* Two containers that follow each other on one address; commands may fail.
ND == INSTANCE Netd WITH
  life <- r1, events <- r2, stream <- r3, drops <- r4, todo <- r5, active <- r6,
  wired <- r7, tproxied <- r8, guardedSet <- r9, guardFailed <- r10, dump <- r11,
  pcap <- r12, doneFile <- r13, guard <- r14, route <- r15, redirect <- r16,
  sealed <- r17, Boxes <- {"c1", "c2"}, JobOf <- [c \in {"c1", "c2"} |-> "j"],
  AddrOf <- [c \in {"c1", "c2"} |-> 1],
  WireMode <- ("c1" :> "transproxy") @@ ("c2" :> "vpn"), MaxDrops <- 2,
  NetFaults <- {"cmd"}

\* The same while netd restarts, docker ps fails and events are missed.
NG == INSTANCE Netd WITH
  life <- r1, events <- r2, stream <- r3, drops <- r4, todo <- r5, active <- r6,
  wired <- r7, tproxied <- r8, guardedSet <- r9, guardFailed <- r10, dump <- r11,
  pcap <- r12, doneFile <- r13, guard <- r14, route <- r15, redirect <- r16,
  sealed <- r17, Boxes <- {"c1", "c2"}, JobOf <- [c \in {"c1", "c2"} |-> "j"],
  AddrOf <- [c \in {"c1", "c2"} |-> 1],
  WireMode <- ("c1" :> "transproxy") @@ ("c2" :> "vpn"), MaxDrops <- 1,
  NetFaults <- {"gap", "list", "crash"}

\* One operator program on an egress host and one fault.
EG == INSTANCE EgressNode WITH
  lookups <- r1, blackholes <- r2, tunRoute <- r3, tunUp <- r4, jump <- r5,
  chain <- r6, fwd <- r7, envFile <- r8, unitOn <- r9, timerOn <- r10, prog <- r11,
  undone <- r12, runs <- r13, faults <- r14, Operator <- {"apply", "teardown"},
  MaxRuns <- 1, MaxStack <- 4, MaxEgressFaults <- 1,
  EgressFaults <- {"step", "tunnel", "dockerd"}

\* A bump of three files; a file may be unreadable.
PS == INSTANCE PinSet WITH
  pnKind <- r1, pnDigests <- r2, pnText <- r3, pnStaged <- r4, pnOriginal <- r5,
  pnTodo <- r6, pnAt <- r7, pnBefore <- r8, pnFaults <- r9,
  PinFiles <- {"f1", "f2", "f3"}, PinFaults <- {"read"}, MaxPinFaults <- 1

\* A bump of two files; a write may fail.
PW == INSTANCE PinSet WITH
  pnKind <- r1, pnDigests <- r2, pnText <- r3, pnStaged <- r4, pnOriginal <- r5,
  pnTodo <- r6, pnAt <- r7, pnBefore <- r8, pnFaults <- r9,
  PinFiles <- {"f1", "f2"}, PinFaults <- {"write", "read"}, MaxPinFaults <- 1

\* The lock audit over every small layout of requirement files.
LK == INSTANCE PinLocks WITH
  lkWorld <- r1, lkAt <- r2, lkStack <- r3, lkRead <- r4, lkPins <- r5,
  lkLimits <- r6, lkExtras <- r7, lkQueue <- r8, lkSeen <- r9, lkGaps <- r10,
  LockFiles <- {"root", "inc", "cons"}, LockWorlds <- Worlds,
  LockExtras <- {"x", "y"}

\* Two publications of the same chain.
IM == INSTANCE ImagePublish WITH
  imDest <- r1, imBak <- r2, imTag <- r3, imDestLock <- r4, imTagLock <- r5,
  imRun <- r6, imPubs <- r7, imSource <- r8, imNoted <- r9, imMishaps <- r10,
  Runs <- {"ra", "rb"}, Tags <- {"base", "worker"}, MaxMishaps <- 2, MaxSaves <- 1,
  Before <- "old"

\* Two nodes and a client race over a job that has just ended; nothing fails.
SW == INSTANCE Retention WITH
  row <- r1, issued <- r2, submitted <- r3, th <- r4, mt <- r5, disk <- r6,
  box <- r7, blob <- r8, permits <- r9, orphans <- r10, upfail <- r11,
  published <- r12, crashes <- r13, rt <- r14, del <- r15,
  Nodes <- {"n1", "n2"}, Threads <- {"t"}, NodeOf <- ("t" :> "n1"),
  Serves <- ("t" :> {1}), Home <- "n2", NJobs <- 1, MaxClaims <- 1,
  MaxAttempts <- 1, Retaining <- TRUE, Limit <- 1, MaxCrashes <- 0,
  SlowOwners <- FALSE, StoreFaults <- FALSE, QueuedAgeCap <- TRUE, UndoFails <- FALSE

\* One node crashed and attempts its job again.
RR == INSTANCE Retention WITH
  row <- r1, issued <- r2, submitted <- r3, th <- r4, mt <- r5, disk <- r6,
  box <- r7, blob <- r8, permits <- r9, orphans <- r10, upfail <- r11,
  published <- r12, crashes <- r13, rt <- r14, del <- r15,
  Nodes <- {"n1"}, Threads <- {"t"}, NodeOf <- ("t" :> "n1"),
  Serves <- ("t" :> {1}), Home <- "n1", NJobs <- 1, MaxClaims <- 2,
  MaxAttempts <- 1, Retaining <- FALSE, Limit <- 1, MaxCrashes <- 1,
  SlowOwners <- FALSE, StoreFaults <- FALSE, QueuedAgeCap <- FALSE, UndoFails <- FALSE

\* One node, a crash, store faults and deletions that fail half-way.
RF == INSTANCE Retention WITH
  row <- r1, issued <- r2, submitted <- r3, th <- r4, mt <- r5, disk <- r6,
  box <- r7, blob <- r8, permits <- r9, orphans <- r10, upfail <- r11,
  published <- r12, crashes <- r13, rt <- r14, del <- r15,
  Nodes <- {"n1"}, Threads <- {"t"}, NodeOf <- ("t" :> "n1"),
  Serves <- ("t" :> {1}), Home <- "n1", NJobs <- 1, MaxClaims <- 1,
  MaxAttempts <- 1, Retaining <- TRUE, Limit <- 1, MaxCrashes <- 1,
  SlowOwners <- FALSE, StoreFaults <- TRUE, QueuedAgeCap <- TRUE, UndoFails <- TRUE

\* The moment at which a warm attempt of the one job has made its terminal write:
\* its upload failed, before or after the first object, and the result is
\* retained, or it is stored and the job DONE. Its clean-up is still to come.
WarmRow == [SW!NewRow EXCEPT !.claim = 1, !.runtime = "warm"]
WarmTree == [SW!NoTree EXCEPT !.input = TRUE, !.by = 1, !.stage = "sealed"]

JobEnded ==
  /\ \/ /\ r1 = <<SW!Failed(WarmRow, TRUE)>>
        /\ \E body \in {SW!NoClaim, 1} : r8 = <<[SW!NoBlob EXCEPT !.body = body]>>
        /\ r6 = "n1" :> <<[WarmTree EXCEPT !.marker = 1]>>
                @@ "n2" :> <<[SW!NoTree EXCEPT !.input = TRUE]>>
        /\ r11 = "n1" :> {1} @@ "n2" :> {}
        /\ r12 = {}
     \/ /\ r1 = <<SW!Done(WarmRow)>>
        /\ r8 = <<[body |-> 1, seal |-> 1]>>
        /\ r6 = "n1" :> <<WarmTree>>
                @@ "n2" :> <<[SW!NoTree EXCEPT !.input = TRUE]>>
        /\ r11 = [n \in {"n1", "n2"} |-> {}]
        /\ r12 = {1}
  /\ r2 = 1 /\ r3 = 1
  /\ r4 = "t" :> [SW!IdleThread EXCEPT !.pc = "release", !.job = 1, !.claim = 1, !.warm = TRUE]
  /\ r5 = [n \in {"n1", "n2"} |-> SW!IdleMaint]
  /\ r7 = [n \in {"n1", "n2"} |-> <<SW!NoClaim>>]
  /\ r9 = [n \in {"n1", "n2"} |-> 0]
  /\ r10 = [n \in {"n1", "n2"} |-> <<SW!NoClaim>>]
  /\ r13 = 0
  /\ r14 = [n \in {"n1", "n2"} |-> SW!IdleRetention]
  /\ r15 = <<"no">>

\* The process died between writing a marker, in either kind of attempt, and failing
\* the row: the marker outlives its attempt.
AttemptDied ==
  /\ \E runtime \in {"cold", "warm"} :
       r1 = <<[WarmRow EXCEPT !.status = "running", !.runtime = runtime]>>
  /\ r2 = 1 /\ r3 = 1
  /\ r4 = "t" :> SW!IdleThread
  /\ r5 = "n1" :> SW!IdleMaint
  /\ r6 = "n1" :> <<[WarmTree EXCEPT !.marker = 1]>>
  /\ r7 = "n1" :> <<SW!NoClaim>>
  /\ \E body \in {SW!NoClaim, 1} : r8 = <<[SW!NoBlob EXCEPT !.body = body]>>
  /\ r9 = "n1" :> 0
  /\ r10 = "n1" :> <<SW!NoClaim>>
  /\ r11 = "n1" :> {}
  /\ r12 = {}
  /\ r13 = 1
  /\ r14 = "n1" :> SW!IdleRetention
  /\ r15 = <<"no">>

\* A slot of a remote machine that is parked, woken and reaped.
HI == INSTANCE Hibernate WITH
  vm <- r1, desc <- r2, park <- r3, gone <- r4, slot <- r5, up <- r6, cl <- r7,
  rp <- r8, hnow <- r9, charged <- r10, verdicts <- r11, asked <- r12, Timeout <- 1,
  CallTime <- 1, MaxTime <- 3, CacheTime <- 1, Lag <- 1

\* A microVM that traffic wakes up.
MV == INSTANCE MicroVm WITH
  vm <- r1, broken <- r2, token <- r3, mintFailed <- r4, url <- r5, live <- r6,
  pc <- r7, evidence <- r8, verdict <- r9, AutoResume <- TRUE, VmTroubles <- {}

\* One that must be resumed, and whose reported state lags.
ML == INSTANCE MicroVm WITH
  vm <- r1, broken <- r2, token <- r3, mintFailed <- r4, url <- r5, live <- r6,
  pc <- r7, evidence <- r8, verdict <- r9, AutoResume <- FALSE,
  VmTroubles <- {"lag"}

\* Every trouble the health check may meet.
MA == INSTANCE MicroVm WITH
  vm <- r1, broken <- r2, token <- r3, mintFailed <- r4, url <- r5, live <- r6,
  pc <- r7, evidence <- r8, verdict <- r9, AutoResume <- TRUE,
  VmTroubles <- {"straddle", "lag", "notoken", "parkedmint"}

--------------------------------------------------------------------------------
\* The registers a component leaves unused.
Off6 == r7 = 0 /\ r8 = 0 /\ r9 = 0 /\ r10 = 0 /\ r11 = 0 /\ r12 = 0 /\ r13 = 0 /\ r14 = 0 /\
  r15 = 0 /\ r16 = 0 /\ r17 = 0
Keep6 == UNCHANGED <<r7, r8, r9, r10, r11, r12, r13, r14, r15, r16, r17>>
Off8 == r9 = 0 /\ r10 = 0 /\ r11 = 0 /\ r12 = 0 /\ r13 = 0 /\ r14 = 0 /\ r15 = 0 /\ r16 = 0 /\
  r17 = 0
Keep8 == UNCHANGED <<r9, r10, r11, r12, r13, r14, r15, r16, r17>>
Off9 == r10 = 0 /\ r11 = 0 /\ r12 = 0 /\ r13 = 0 /\ r14 = 0 /\ r15 = 0 /\ r16 = 0 /\ r17 = 0
Keep9 == UNCHANGED <<r10, r11, r12, r13, r14, r15, r16, r17>>
Off10 == r11 = 0 /\ r12 = 0 /\ r13 = 0 /\ r14 = 0 /\ r15 = 0 /\ r16 = 0 /\ r17 = 0
Keep10 == UNCHANGED <<r11, r12, r13, r14, r15, r16, r17>>
Off12 == r13 = 0 /\ r14 = 0 /\ r15 = 0 /\ r16 = 0 /\ r17 = 0
Keep12 == UNCHANGED <<r13, r14, r15, r16, r17>>
Off13 == r14 = 0 /\ r15 = 0 /\ r16 = 0 /\ r17 = 0
Keep13 == UNCHANGED <<r14, r15, r16, r17>>
Off14 == r15 = 0 /\ r16 = 0 /\ r17 = 0
Keep14 == UNCHANGED <<r15, r16, r17>>
Off15 == r16 = 0 /\ r17 = 0
Keep15 == UNCHANGED <<r16, r17>>

ControlInit ==
  \/ focus = "receipts" /\ RC!ReceiptInit /\ Off8
  \/ focus = "delete" /\ DE!ResultInit /\ Off8
  \/ focus = "bucket" /\ DB!ResultInit /\ Off8
  \/ focus = "boot" /\ BO!BootInit /\ Off6
  \/ focus = "claim" /\ NC!NodeInit /\ Off13
  \/ focus = "vm" /\ VM!VmInit /\ Off10
  \/ focus = "static" /\ SP!StatInit /\ Off6
  \/ focus = "firewall" /\ LF!LinkInit /\ Off12
  \/ focus = "host" /\ LH!HostInit /\ Off13
  \/ focus = "mac" /\ LD!DarwinInit /\ Off12
  \/ focus = "netd" /\ ND!NetInit
  \/ focus = "netdgap" /\ NG!NetInit
  \/ focus = "egress" /\ EG!EgressInit /\ Off14
  \/ focus = "pins" /\ PS!PinInit /\ Off9
  \/ focus = "pinsw" /\ PW!PinInit /\ Off9
  \/ focus = "locks" /\ LK!LockInit /\ Off10
  \/ focus = "publish" /\ IM!ImageInit /\ Off10
  \/ focus = "expiry" /\ JobEnded /\ Off15
  \/ focus = "repair" /\ AttemptDied /\ Off15
  \/ focus = "retained" /\ RF!RetentionInit /\ Off15
  \/ focus = "park" /\ HI!HibInit /\ Off12
  \/ focus = "micro" /\ MV!MicroInit /\ Off9
  \/ focus = "microlag" /\ ML!MicroInit /\ Off9
  \/ focus = "microall" /\ MA!MicroInit /\ Off9

ControlNext ==
  /\ \/ focus = "receipts" /\ RC!ReceiptNext /\ Keep8
     \/ focus = "delete" /\ DE!ResultNext /\ Keep8
     \/ focus = "bucket" /\ DB!ResultNext /\ Keep8
     \/ focus = "boot" /\ BO!BootNext /\ Keep6
     \/ focus = "claim" /\ NC!NodeNext /\ Keep13
     \/ focus = "vm" /\ VM!VmNext /\ Keep10
     \/ focus = "static" /\ SP!StatNext /\ Keep6
     \/ focus = "firewall" /\ LF!LinkNext /\ Keep12
     \/ focus = "host" /\ LH!HostNext /\ Keep13
     \/ focus = "mac" /\ LD!DarwinNext /\ Keep12
     \/ focus = "netd" /\ ND!NetNext
     \/ focus = "netdgap" /\ NG!NetNext
     \/ focus = "egress" /\ EG!EgressNext /\ Keep14
     \/ focus = "pins" /\ PS!PinNext /\ Keep9
     \/ focus = "pinsw" /\ PW!PinNext /\ Keep9
     \/ focus = "locks" /\ LK!LockNext /\ Keep10
     \/ focus = "publish" /\ IM!ImageNext /\ Keep10
     \/ focus = "expiry" /\ SW!RetentionNext /\ Keep15
     \/ focus = "repair" /\ RR!RetentionNext /\ Keep15
     \/ focus = "retained" /\ RF!RetentionNext /\ Keep15
     \/ focus = "park" /\ HI!HibNext /\ Keep12
     \/ focus = "micro" /\ MV!MicroNext /\ Keep9
     \/ focus = "microlag" /\ ML!MicroNext /\ Keep9
     \/ focus = "microall" /\ MA!MicroNext /\ Keep9
  /\ UNCHANGED focus

ControlSpec == ControlInit /\ [][ControlNext]_all

--------------------------------------------------------------------------------
\* What a client is served is what the host signed: no interleaving of upload,
\* receipt, deaths and retries serves a receipt of another tree; and no order of
\* deletes, late uploads and errors brings an old version back, drops the mask of
\* a receipt, reports a deletion that left bytes, or serves a mixed archive.
ServedResultsAreCurrent ==
  /\ focus = "receipts" => RC!ServedIsHosts
  /\ focus = "delete" => DE!NothingResurfaces /\ DE!ReceiptStaysMasked
                         /\ DE!GoneMeansGone /\ DE!ServedIsCurrent
  /\ focus = "bucket" => DB!NothingResurfaces /\ DB!ReceiptStaysMasked
                         /\ DB!GoneMeansGone /\ DB!ServedIsCurrent

\* A held machine is held: one that is leased is not stopped by us, the clock of a
\* parked one is honest, a reaped one is forgotten, and no healthy microVM is
\* condemned on a silence that has another reason.
MachinesHeld ==
  /\ focus = "park" => HI!LeasedNotStopped /\ HI!ParkClockHonest
                       /\ HI!ColdStopNotAdopted /\ HI!ReapedIsForgotten
  /\ focus = "micro" => MV!HealthyNeverCondemned
  /\ focus = "microlag" => ML!HealthyNeverCondemned

\* A dispatcher starts exactly if it would read back what it writes and agrees
\* with the fleet's blob target, however probes of a peer interleave.
StoreBootsExactly == focus = "boot" => BO!BootGateExact

\* A settlement that a node reported as accepted stays; a DONE row of the virtual
\* machine dispatcher serves its own attempt, and nothing but a DELETE takes the
\* last copy of a result from it or from the dispatcher, crashes included.
OutcomesAreKept ==
  /\ focus = "claim" => NC!SettledIsSettled
  /\ focus = "vm" => VM!VmDoneServesItsResult /\ VM!VmLastCopyKept
  /\ focus = "retained" => RF!RetentionTypeOK /\ RF!LastCopySafe

\* The virtual machine dispatchers, and the dispatcher with its sweeps, its expiry
\* and DELETE, implement the job life cycle: no step of theirs revives a job.
NoRow == [j \in {1} |-> "absent"]
Lifecycle == INSTANCE JobLifecycle WITH
  Jobs <- {1}, Claims <- 1..2,
  state <- IF focus \in {"vm", "retained"} THEN [j \in {1} |-> r1[j].status] ELSE NoRow,
  holder <- IF focus \in {"vm", "retained"} THEN [j \in {1} |-> r1[j].claim]
            ELSE [j \in {1} |-> 0],
  used <- IF focus \in {"vm", "retained"} THEN 1..r2 ELSE {}
ImplementLifecycle == Lifecycle!Spec

\* A worker link never forwards unfiltered, not even while it boots or is taken
\* down half-way; the hub keeps the key its fleet knows and the peers it enrolled;
\* on macOS one tunnel at a time runs our key.
LinksContained ==
  /\ focus = "firewall" => LF!LinkFiltered /\ LF!BootsFiltered
  /\ focus = "host" => LH!FleetKeepsItsKey /\ LH!PeersReconciled
  /\ focus = "mac" => LD!OneTunnel

\* A container's traffic takes its own route, a capture is only reported closed
\* when it is, and forwarded traffic never leaves by the WAN.
TrafficContained ==
  /\ focus = "netd" => ND!RoutedThroughItsOwn /\ ND!DoneMeansClosed
  /\ focus = "egress" => EG!NoWanEscape

\* A bump of pins, a publication and an audit are whole or not at all: every file
\* carries the new pin or all carry the old, the live tags are of one release that
\* stands, and the audit reports exactly what pip would miss.
ReleasesAreWhole ==
  /\ focus = "pins" => PS!BumpWholeOrNothing
  /\ focus = "locks" => LK!AuditExact
  /\ focus = "publish" => IM!TagsOfOneRun /\ IM!PublicationStands

\* A configured box is leased once at a time and is never lost.
BoxesConserved == focus = "static" => SP!BoxesConserved

\* An expired row that no sweep will select again has no result in the store that
\* would be taken for complete, whatever upload was under way when it expired.
ExpiredLeavesNoResult == focus = "expiry" => SW!ExpiredLeavesNoResult

\* A marker that outlived its attempt never turns the failure of a later attempt
\* into DONE.
RepairsItsOwnAttempt == [][focus = "repair" => RR!RepairIsOwn]_all

\* Steps nobody may take: revoke an outcome a node was told, refuse egress to a
\* fleet in which another box has it, or take down another's tunnel.
NoForbiddenStep ==
  [][ /\ focus = "claim" => NC!OutcomeStands
      /\ focus = "static" => SP!NoEgressIsFleetWide
      /\ focus = "mac" => LD!OthersUntouched ]_all
================================================================================
