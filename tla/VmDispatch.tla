------------------------------ MODULE VmDispatch ------------------------------
(* The dispatcher of the network-endpoint tiers (VmJobDispatcher): a worker     *)
(* thread claims a row, stamps it warm, fetches the sample, hands it to a       *)
(* validate thread it waits for with a timeout, publishes the result, writes    *)
(* the outcome and clears the job's directory.  The validate thread              *)
(* (make_remote_validate) takes a slot of the pool, posts the sample to the     *)
(* worker agent and extracts the answer; it cannot be stopped, so it may        *)
(* outlive the attempt that started it.  The maintenance thread of every host   *)
(* fails rows whose heartbeat is old.  Job directories are local to a host;     *)
(* rows and result blobs are shared.                                            *)
EXTENDS JobStore

CONSTANTS
  Workers,      \* worker threads of the dispatchers
  VmHosts,      \* hosts with a dispatcher
  HostOf,       \* the host of every worker thread
  VmSlots,      \* slots of the pool
  SoleOwner,    \* sole_owner: no dispatcher of another kind shares the store
  Faults        \* what may go wrong: "store", "fetch", "hang", "busy", "agent",
                \* "blob", "crash", "slow", "gate"

VARIABLES
  w,        \* the worker threads
  val,      \* the validate thread of every claim
  slotOf,   \* the slots, and the claim each one is out to
  dir,      \* the job directories of every host
  vblob,    \* the result blobs
  sweep,    \* the claim the orphan sweep of a host has read as old
  exhausted \* history: claims whose upload was given up

vmVars == <<row, issued, submitted, w, val, slotOf, dir, vblob, sweep, exhausted>>

IdleWorker == [pc |-> "idle", job |-> 0, claim |-> NoClaim, ok |-> FALSE,
               pend |-> FALSE, owned |-> FALSE, term |-> "none"]
NoVal(h) == [pc |-> "none", res |-> "none", job |-> 0, host |-> h]
Unread == [job |-> 0, claim |-> NoClaim, failed |-> FALSE]
EmptyDir == [input |-> FALSE, out |-> NoClaim, marker |-> NoClaim]
NoBlob == [body |-> NoClaim, seal |-> NoClaim]

VmInit ==
  /\ StoreInit
  /\ w = [x \in Workers |-> IdleWorker]
  /\ val = [c \in ClaimIds |-> NoVal(CHOOSE h \in VmHosts : TRUE)]
  /\ slotOf = [s \in VmSlots |-> NoClaim]
  /\ dir = [h \in VmHosts |-> [j \in Jobs |-> EmptyDir]]
  /\ vblob = [j \in Jobs |-> NoBlob]
  /\ sweep = [h \in VmHosts |-> Unread]
  /\ exhausted = {}

-------------------------------------------------------------------------------
J(x) == w[x].job
C(x) == w[x].claim
H(x) == HostOf[x]
At(x, p) == w[x].pc = p
Go(x, p) == w' = [w EXCEPT ![x].pc = p]
Rest(x) == w' = [w EXCEPT ![x] = IdleWorker]
Dir(x) == dir[H(x)][J(x)]
SetDir(x, d) == dir' = [dir EXCEPT ![H(x)][J(x)] = d]

\* The outcomes of a call to the store: answered, or an exception.
Answers == IF "store" \in Faults THEN BOOLEAN ELSE {TRUE}
May(f) == IF f \in Faults THEN BOOLEAN ELSE {FALSE}

\* _claim_is_still_ours: a store that does not answer counts as no.
Ours(x) == Matches(J(x), "running", C(x))

noStore == <<row, issued, submitted>>
elsewhere == <<val, slotOf, vblob, sweep, exhausted>>

-------------------------------------------------------------------------------
\* _worker_loop
VmCreate(j) ==
  /\ Create(j)
  /\ UNCHANGED <<w, dir, elsewhere>>

VmClaim(x, j) ==
  /\ At(x, "idle")
  /\ ClaimNext(Jobs, j)
  /\ w' = [w EXCEPT ![x] = [IdleWorker EXCEPT !.pc = "gate", !.job = j,
                                              !.claim = issued + 1]]
  /\ UNCHANGED <<dir, elsewhere>>

\* _claim_is_ours, the grants gate and the net policy: a row of another engine
\* or one this node has no grant for goes back to the queue, the latter with a
\* delay; a net policy the pool cannot honour fails the job and its directory is
\* cleared whether or not the row was still ours.
Gate(x) ==
  /\ At(x, "gate")
  /\ \/ Go(x, "stamp") /\ UNCHANGED noStore
     \/ /\ "gate" \in Faults
        /\ \E defer \in BOOLEAN, up \in Answers :
             IF up THEN UpdateIfStatus(J(x), "running", C(x), Requeued(row[J(x)], defer))
                   ELSE UNCHANGED noStore
        /\ Rest(x)
     \/ /\ "gate" \in Faults
        /\ UpdateIfStatus(J(x), "running", C(x), Failed(row[J(x)], FALSE))
        /\ Go(x, "purge")
  /\ UNCHANGED <<dir, elsewhere>>

Purge(x) ==
  /\ At(x, "purge")
  /\ SetDir(x, EmptyDir)
  /\ Rest(x)
  /\ UNCHANGED <<noStore, elsewhere>>

\* Seeded fault: the row is not stamped warm.
StampCold(x) ==
  /\ At(x, "stamp")
  /\ \E up \in Answers :
       CASE up /\ Ours(x) -> Go(x, "fetch")
         [] up /\ ~Ours(x) -> Go(x, "purge")
         [] ~up -> Rest(x)
  /\ UNCHANGED <<noStore, dir, elsewhere>>

\* The row is stamped warm, which keeps the requeue sweep of the other
\* dispatchers off it; the stamp is also the first ownership check.
Stamp(x) ==
  /\ At(x, "stamp")
  /\ \E up \in Answers :
       CASE up /\ Ours(x) ->
              /\ UpdateIfStatus(J(x), "running", C(x), [row[J(x)] EXCEPT !.runtime = "warm"])
              /\ Go(x, "fetch")
         [] up /\ ~Ours(x) -> Go(x, "purge") /\ UNCHANGED noStore
         [] ~up -> Rest(x) /\ UNCHANGED noStore
  /\ UNCHANGED <<dir, elsewhere>>

StartValidate(x) ==
  /\ val' = [val EXCEPT ![C(x)] = [pc |-> "slot", res |-> "none", job |-> J(x),
                                         host |-> H(x)]]
  /\ Go(x, "run")

\* The sample is on the disk, or it is fetched (and the row's count of failed
\* fetches is reset), or the fetch fails: the claim is released with a delay,
\* or the job fails once MaxAttempts have failed in a row.
Fetch(x) ==
  /\ At(x, "fetch")
  /\ \/ /\ Dir(x).input
        /\ StartValidate(x)
        /\ UNCHANGED <<noStore, dir>>
     \/ /\ ~Dir(x).input
        /\ SetDir(x, [Dir(x) EXCEPT !.input = TRUE])
        /\ \E up \in Answers :
             IF up \/ row[J(x)].attempts = 0
               THEN /\ UpdateIfStatus(J(x), "running", C(x), [row[J(x)] EXCEPT !.attempts = 0])
                    /\ StartValidate(x)
               ELSE Go(x, "fail") /\ UNCHANGED <<noStore, val>>
     \/ /\ ~Dir(x).input /\ "fetch" \in Faults
        /\ \E up \in Answers :
             LET n == row[J(x)].attempts + 1
                 r == [row[J(x)] EXCEPT !.attempts = n]
             IN  CASE ~up -> Go(x, "fail") /\ UNCHANGED noStore
                   [] up /\ n >= MaxAttempts ->
                        /\ UpdateIfStatus(J(x), "running", C(x), Failed(r, FALSE))
                        /\ w' = [w EXCEPT ![x] = [@ EXCEPT !.pc = "final", !.owned = Ours(x),
                                                           !.term = "failed"]]
                   [] OTHER ->
                        /\ UpdateIfStatus(J(x), "running", C(x), [Requeued(r, TRUE)
                              EXCEPT !.runtime = r.runtime])
                        /\ Go(x, "final")
        /\ UNCHANGED <<dir, val>>
  /\ UNCHANGED <<slotOf, vblob, sweep, exhausted>>

-------------------------------------------------------------------------------
\* _validate_with_heartbeat: the heartbeat runs while the worker thread waits.
Heartbeat(x) ==
  /\ At(x, "run") /\ row[J(x)].age # Fresh
  /\ UpdateIfStatus(J(x), "running", C(x), [row[J(x)] EXCEPT !.age = Fresh])
  /\ UNCHANGED <<w, dir, elsewhere>>

Join(x) ==
  /\ At(x, "run") /\ val[C(x)].pc = "over"
  /\ LET res == val[C(x)].res IN
     w' = [w EXCEPT ![x].ok = res = "ok",
                    ![x].pc = CASE res = "ok" -> "own1"
                                [] res = "bad" -> "cas"
                                [] res = "busy" -> "requeue"
                                [] res = "lost" -> "fail"]
  /\ UNCHANGED <<noStore, dir, elsewhere>>

\* The thread is given up, and goes on.
Timeout(x) ==
  /\ "hang" \in Faults
  /\ At(x, "run") /\ val[C(x)].pc # "over"
  /\ Go(x, "fail")
  /\ UNCHANGED <<noStore, dir, elsewhere>>

\* The claim is looked up before the metadata is written, and again before the
\* upload; each time it may be lost right after.
CheckOwner(x) ==
  /\ \/ At(x, "own1") \/ At(x, "own2")
  /\ \E up \in Answers :
       Go(x, CASE ~(up /\ Ours(x)) -> "final"
               [] up /\ Ours(x) /\ At(x, "own1") -> "meta"
               [] up /\ Ours(x) /\ At(x, "own2") -> "body")
  /\ UNCHANGED <<noStore, dir, elsewhere>>

EnsureMetadata(x) ==
  /\ At(x, "meta")
  /\ SetDir(x, [Dir(x) EXCEPT !.out = C(x)])
  /\ Go(x, "own2")
  /\ UNCHANGED <<noStore, elsewhere>>

\* upload_output_with_retry: the files, then the seal.
PutOutput(x) ==
  /\ \/ At(x, "body") \/ At(x, "seal")
  /\ \/ /\ vblob' = IF At(x, "body") THEN [vblob EXCEPT ![J(x)].body = C(x)]
                                     ELSE [vblob EXCEPT ![J(x)].seal = C(x)]
        /\ Go(x, IF At(x, "body") THEN "seal" ELSE "cas")
     \/ /\ "blob" \in Faults
        /\ Go(x, "mark")
        /\ UNCHANGED vblob
  /\ UNCHANGED <<noStore, dir, val, slotOf, sweep, exhausted>>

\* The upload was given up: the tree is the only copy.
MarkPending(x) ==
  /\ At(x, "mark")
  /\ SetDir(x, [Dir(x) EXCEPT !.marker = C(x)])
  /\ w' = [w EXCEPT ![x].pc = "part", ![x].pend = TRUE, ![x].ok = FALSE]
  /\ exhausted' = exhausted \cup {C(x)}
  /\ UNCHANGED <<noStore, val, slotOf, vblob, sweep>>

\* The half-uploaded blob is removed, if the claim was ours when we looked.
CheckPartial(x) ==
  /\ At(x, "part")
  /\ \E up \in Answers : Go(x, IF up /\ Ours(x) THEN "reap" ELSE "cas")
  /\ UNCHANGED <<noStore, dir, elsewhere>>

ReapPartial(x) ==
  /\ At(x, "reap")
  /\ vblob' = [vblob EXCEPT ![J(x)] = NoBlob]
  /\ Go(x, "cas")
  /\ UNCHANGED <<noStore, dir, val, slotOf, sweep, exhausted>>

-------------------------------------------------------------------------------
\* The outcome, and the two exception handlers.  A store that does not answer
\* the outcome's write sends the attempt to the handler, which writes FAILED.
WriteOutcome(x) ==
  LET r == row[J(x)] IN
  /\ At(x, "cas")
  /\ \E up \in Answers :
       IF up
         THEN /\ UpdateIfStatus(J(x), "running", C(x),
                                IF w[x].ok THEN Done(r) ELSE Failed(r, w[x].pend))
              /\ w' = [w EXCEPT ![x] = [@ EXCEPT !.pc = "final", !.owned = Ours(x),
                                                 !.term = IF w[x].ok THEN "done" ELSE "failed"]]
         ELSE Go(x, "fail") /\ UNCHANGED noStore
  /\ UNCHANGED <<dir, elsewhere>>

WriteFailed(x) ==
  /\ At(x, "fail")
  /\ \E up \in Answers :
       IF up
         THEN /\ UpdateIfStatus(J(x), "running", C(x), Failed(row[J(x)], FALSE))
              /\ w' = [w EXCEPT ![x] = [@ EXCEPT !.pc = "final", !.owned = Ours(x),
                                                 !.term = "failed"]]
         ELSE Go(x, "final") /\ UNCHANGED noStore
  /\ UNCHANGED <<dir, elsewhere>>

\* NoWarmSlot, WorkerBusy, ProbeNotAttempted: the job never ran.
Requeue(x) ==
  /\ At(x, "requeue")
  /\ \E up \in Answers :
       IF up THEN UpdateIfStatus(J(x), "running", C(x), Requeued(row[J(x)], FALSE))
             ELSE UNCHANGED noStore
  /\ Go(x, "final")
  /\ UNCHANGED <<dir, elsewhere>>

\* The directory is cleared, unless it is the only copy of a result and no
\* answer of the store said that the row is somebody else's.
Finally(x) ==
  /\ At(x, "final")
  /\ IF w[x].pend /\ (w[x].owned \/ w[x].term = "none")
       THEN UNCHANGED dir ELSE SetDir(x, EmptyDir)
  /\ Rest(x)
  /\ UNCHANGED <<noStore, elsewhere>>

-------------------------------------------------------------------------------
\* The validate thread of claim c, which works for job VJ(c) on host VH(c).

VAt(c, p) == val[c].pc = p
VGo(c, p) == val' = [val EXCEPT ![c].pc = p]
VJ(c) == val[c].job
VH(c) == val[c].host

\* The slot is released in a finally: whatever the verdict, it is given back.
End(c, res) ==
  /\ val' = [val EXCEPT ![c].pc = "over", ![c].res = res]
  /\ slotOf' = [s \in VmSlots |-> IF slotOf[s] = c THEN NoClaim ELSE slotOf[s]]

\* claim(): a slot, or NoWarmSlot.
ClaimSlot(c) ==
  /\ VAt(c, "slot")
  /\ \/ \E s \in VmSlots :
          /\ slotOf[s] = NoClaim
          /\ slotOf' = [slotOf EXCEPT ![s] = c]
          /\ VGo(c, "clear")
     \/ (\A s \in VmSlots : slotOf[s] # NoClaim) /\ End(c, "busy")
  /\ UNCHANGED <<noStore, w, dir, vblob, sweep, exhausted>>

\* detonate_remote: the sample must be there, and the claim ours, before the
\* output directory is emptied and the sample posted.
ClearOutput(c) ==
  LET j == VJ(c)  h == VH(c) IN
  /\ VAt(c, "clear")
  /\ CASE ~dir[h][j].input -> End(c, "bad") /\ UNCHANGED dir
       [] dir[h][j].input /\ ~Matches(j, "running", c) -> End(c, "lost") /\ UNCHANGED dir
       [] OTHER -> /\ dir' = [dir EXCEPT ![h][j].out = NoClaim]
                   /\ VGo(c, "post") /\ UNCHANGED slotOf
  /\ UNCHANGED <<noStore, w, vblob, sweep, exhausted>>

\* The agent answers, is busy with an earlier run, or the transport fails.
Post(c) ==
  /\ VAt(c, "post")
  /\ \/ /\ Matches(VJ(c), "running", c) /\ VGo(c, "write") /\ UNCHANGED slotOf
     \/ ~Matches(VJ(c), "running", c) /\ End(c, "lost")
     \/ "busy" \in Faults /\ End(c, "busy")
     \/ "agent" \in Faults /\ End(c, "bad")
  /\ UNCHANGED <<noStore, w, dir, vblob, sweep, exhausted>>

\* The answer is extracted, into a directory that is made if need be, and
\* judged (output_trust).
Extract(c) ==
  /\ VAt(c, "write")
  /\ dir' = [dir EXCEPT ![VH(c)][VJ(c)].out = c]
  /\ \E bad \in May("agent") : End(c, IF bad THEN "bad" ELSE "ok")
  /\ UNCHANGED <<noStore, w, vblob, sweep, exhausted>>

-------------------------------------------------------------------------------
\* Maintenance

\* _run_maintenance lists the RUNNING rows and fails those whose heartbeat is
\* old: only stamped ones unless this is the sole dispatcher.
SweepRead(h, j) ==
  /\ sweep[h] = Unread
  /\ row[j].status = "running" /\ row[j].age = PastStale
  /\ SoleOwner \/ row[j].runtime = "warm"
  /\ sweep' = [sweep EXCEPT ![h] = [Unread EXCEPT !.job = j, !.claim = row[j].claim]]
  /\ UNCHANGED <<noStore, w, dir, val, slotOf, vblob, exhausted>>

SweepFail(h) ==
  LET j == sweep[h].job  c == sweep[h].claim IN
  /\ sweep[h] # Unread /\ ~sweep[h].failed
  /\ UpdateIfStatus(j, "running", c, Failed(row[j], FALSE))
  /\ sweep' = [sweep EXCEPT ![h] = IF Matches(j, "running", c)
                                    THEN [@ EXCEPT !.failed = TRUE] ELSE Unread]
  /\ UNCHANGED <<w, dir, val, slotOf, vblob, exhausted>>

\* The input of a row it has failed is dropped.
SweepUnlink(h) ==
  /\ sweep[h].failed
  /\ dir' = [dir EXCEPT ![h][sweep[h].job].input = FALSE]
  /\ sweep' = [sweep EXCEPT ![h] = Unread]
  /\ UNCHANGED <<noStore, w, val, slotOf, vblob, exhausted>>

\* The requeue sweep of a container dispatcher that shares the store takes a
\* RUNNING row that is not stamped warm for a dead container job.
PeerRequeues(j) ==
  /\ ~SoleOwner
  /\ row[j].status = "running" /\ row[j].runtime # "warm" /\ row[j].age # Fresh
  /\ row' = [row EXCEPT ![j] = Requeued(row[j], FALSE)]
  /\ UNCHANGED <<issued, submitted, w, dir, elsewhere>>

\* Time passes.  "slow": a heartbeat may be late, or a step take very long.
VmAge(j) ==
  /\ Age(j)
  /\ "slow" \in Faults \/ \A x \in Workers : w[x].claim # row[j].claim
  /\ UNCHANGED <<w, dir, elsewhere>>

VmDue(j) ==
  /\ BecomeClaimable(j)
  /\ UNCHANGED <<w, dir, elsewhere>>

\* The dispatcher process of host h dies, with its threads and its pool.
VmCrash(h) ==
  /\ "crash" \in Faults
  /\ \E x \in Workers : H(x) = h /\ ~At(x, "idle")
  /\ val' = [c \in ClaimIds |-> IF VH(c) = h THEN NoVal(h) ELSE val[c]]
  /\ slotOf' = [s \in VmSlots |-> IF VH(slotOf[s]) = h THEN NoClaim ELSE slotOf[s]]
  /\ w' = [x \in Workers |-> IF H(x) = h THEN IdleWorker ELSE w[x]]
  /\ sweep' = [sweep EXCEPT ![h] = Unread]
  /\ UNCHANGED <<noStore, dir, vblob, exhausted>>

-------------------------------------------------------------------------------
WorkerStep(x) ==
  \/ Gate(x) \/ Purge(x) \/ Stamp(x) \/ Fetch(x) \/ Join(x) \/ Timeout(x)
  \/ CheckOwner(x) \/ EnsureMetadata(x) \/ PutOutput(x) \/ MarkPending(x)
  \/ CheckPartial(x) \/ ReapPartial(x) \/ WriteOutcome(x) \/ WriteFailed(x)
  \/ Requeue(x) \/ Finally(x)

ValidateStep(c) == ClaimSlot(c) \/ ClearOutput(c) \/ Post(c) \/ Extract(c)

VmNext ==
  \/ \E j \in Jobs :
       \/ VmCreate(j) \/ VmAge(j) \/ VmDue(j) \/ PeerRequeues(j)
       \/ \E x \in Workers : VmClaim(x, j)
       \/ \E h \in VmHosts : SweepRead(h, j)
  \/ \E x \in Workers : WorkerStep(x) \/ Heartbeat(x)
  \/ \E c \in ClaimIds : ValidateStep(c)
  \/ \E h \in VmHosts : SweepFail(h) \/ SweepUnlink(h) \/ VmCrash(h)

VmSpec == VmInit /\ [][VmNext]_vmVars

\* Every thread goes on; a call has a timeout; the sweeps run periodically.
VmFairness ==
  /\ \A x \in Workers : WF_vmVars(WorkerStep(x))
  /\ \A c \in ClaimIds : WF_vmVars(ValidateStep(c))
  /\ \A j \in Jobs : WF_vmVars(VmAge(j)) /\ WF_vmVars(VmDue(j)) /\ WF_vmVars(PeerRequeues(j))
  /\ \A h \in VmHosts : WF_vmVars(\E j \in Jobs : SweepRead(h, j)) /\ WF_vmVars(SweepFail(h) \/ SweepUnlink(h))

VmLive == VmSpec /\ VmFairness

-------------------------------------------------------------------------------
\* Properties

\* What the blob store serves for a DONE row is the result of the run that the
\* row names, although an upload is not fenced by the claim: a stamped row is
\* never given to a second attempt while the first one may still upload or
\* remove the partial blob.  (_process 770-912, the stamp at 608)
VmDoneServesItsResult ==
  \A j \in Jobs : row[j].status = "done" =>
    vblob[j] = [body |-> row[j].claim, seal |-> row[j].claim]

\* An attempt whose upload failed and that could not write its outcome because
\* the store did not answer keeps the only copy of the result; so does one whose
\* row says that the result is retained.  (the finally of _process, 942-982)
VmLastCopyKept ==
  \A j \in Jobs :
    LET c == row[j].claim
        gone == \A x \in Workers : w[x].claim # c
    IN  (row[j].kept \/ (row[j].status = "running" /\ c \in exhausted)) /\ gone =>
          \E h \in VmHosts : dir[h][j].marker = c /\ dir[h][j].out = c

\* A row does not stay RUNNING for ever: its owner ends, or a sweep takes it,
\* also when the owner died or lost the store.  (_run_maintenance 1150-1188)
LetGo(j, c) == ~(row[j].status = "running" /\ row[j].claim = c)

\* The rows go through the states a client may rely on.
VmLifecycle == INSTANCE JobLifecycle WITH
  Jobs <- Jobs, Claims <- 1..MaxClaims,
  state <- [j \in Jobs |-> row[j].status],
  holder <- [j \in Jobs |-> row[j].claim],
  used <- 1..issued
VmImplementsLifecycle == VmLifecycle!Spec
===============================================================================
