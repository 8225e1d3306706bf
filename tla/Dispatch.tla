------------------------------- MODULE Dispatch -------------------------------
(* The job dispatcher: threads that claim a job, run it in a cold container or  *)
(* a warm slot, publish its result and commit its row; the sweep that recovers  *)
(* jobs whose owner is gone; and the reconciliation of containers that          *)
(* `docker kill` did not confirm.  A node is one dispatcher process with its    *)
(* job_root and its docker daemon; several nodes share the job store and the    *)
(* blob store.                                                                  *)
(*                                                                              *)
(* A step is one access to shared state: a store call, a blob-store call, a     *)
(* change of the job's scratch tree, or a docker call.  Whatever the code reads *)
(* in one step and uses in a later one may be stale by then.                    *)
EXTENDS JobStore, FiniteSets

CONSTANTS
  Nodes,        \* dispatcher processes
  Threads,      \* their dispatch threads
  NodeOf,       \* the process a thread belongs to
  Serves,       \* the jobs a thread may claim (tier and engine filters)
  Home,         \* the node whose job_root the ingress spools uploads into
  Limit,        \* the concurrency gate's limit of a node
  MaxCrashes,   \* bound on the number of process crashes
  SlowOwners,   \* may a sweep judge a job whose owner is slow but alive?
  StoreFaults,  \* may a job-store call fail?
  QueuedAgeCap  \* BLASTBOX_MAX_QUEUED_AGE_S > 0

ASSUME DispatchAssumption ==
  /\ NodeOf \in [Threads -> Nodes]
  /\ Serves \in [Threads -> SUBSET Jobs]
  /\ Home \in Nodes
  /\ Limit \in Nat \ {0}
  /\ MaxCrashes \in Nat
  /\ SlowOwners \in BOOLEAN
  /\ StoreFaults \in BOOLEAN
  /\ QueuedAgeCap \in BOOLEAN
  /\ IsFiniteSet(Threads)

VARIABLES
  th,         \* the dispatch threads
  mt,         \* the maintenance thread of every node
  disk,       \* job_root/<job> on every node
  box,        \* the claim a running worker container was launched for
  blob,       \* results/<job> in the blob store
  permits,    \* the gate's in-flight count of every node
  orphans,    \* _retained_cold_orphans: job -> claim
  upfail,     \* _upload_failed_job_ids
  published,  \* observer: claims whose put_output was acknowledged
  crashes     \* how many crashes have happened

vars == <<row, issued, submitted, th, mt, disk, box, blob, permits, orphans,
          upfail, published, crashes>>

ThreadPcs ==
  {"idle", "admit", "stampw", "fetch", "fetchdrop", "stampc", "launch",
   "boxed", "guest", "refresh", "seal", "check", "body", "putseal", "reapcheck",
   "reap", "mark", "keep", "unmark", "commit", "fail", "release", "inread",
   "indel", "pgread", "pgdel"}

\* A thread's local state: its Job object is the snapshot claim_next returned.
ThreadStates == [pc : ThreadPcs, job : 0..NJobs, claim : ClaimIds,
                 attempts : 0..(MaxAttempts - 1), warm : BOOLEAN,
                 orphan : BOOLEAN]

IdleThread == [pc |-> "idle", job |-> 0, claim |-> NoClaim, attempts |-> 0,
               warm |-> FALSE, orphan |-> FALSE]

MaintPcs == {"idle", "judge", "gone", "rcps", "rcpop", "rcread", "rcdel"}

MaintStates == [pc : MaintPcs, job : 0..NJobs, claim : ClaimIds, age : Ages,
                runtime : Runtimes]

IdleMaint == [pc |-> "idle", job |-> 0, claim |-> NoClaim, age |-> Fresh,
              runtime |-> "none"]

\* job_root/<job>: the staged input; the output directory and the claim it was
\* made for (NoClaim: no directory), empty, as the worker left it, or sealed;
\* the claim in .pending-upload (NoClaim: no marker); .retained-orphan.
Trees == [input : BOOLEAN, by : ClaimIds, stage : {"empty", "raw", "sealed"},
          marker : ClaimIds, orphan : BOOLEAN]

NoTree == [input |-> FALSE, by |-> NoClaim, stage |-> "empty",
           marker |-> NoClaim, orphan |-> FALSE]

\* results/<job>: the attempt whose artifacts and whose seal are stored.
Blobs == [body : ClaimIds, seal : ClaimIds]

NoBlob == [body |-> NoClaim, seal |-> NoClaim]

Init ==
  /\ StoreInit
  /\ th = [t \in Threads |-> IdleThread]
  /\ mt = [n \in Nodes |-> IdleMaint]
  /\ disk = [n \in Nodes |-> [j \in Jobs |-> NoTree]]
  /\ box = [n \in Nodes |-> [j \in Jobs |-> NoClaim]]
  /\ blob = [j \in Jobs |-> NoBlob]
  /\ permits = [n \in Nodes |-> 0]
  /\ orphans = [n \in Nodes |-> [j \in Jobs |-> NoClaim]]
  /\ upfail = [n \in Nodes |-> {}]
  /\ published = {}
  /\ crashes = 0

-------------------------------------------------------------------------------
\* Abbreviations for the job, claim, node and tree a thread works on.
J(t) == th[t].job
C(t) == th[t].claim
N(t) == NodeOf[t]
Tree(t) == disk[N(t)][J(t)]

At(t, p) == th[t].pc = p
Go(t, p) == th' = [th EXCEPT ![t].pc = p]

SetTree(n, j, d) == disk' = [disk EXCEPT ![n][j] = d]

\* What a store read may do: answer, or (with StoreFaults) raise.  Every reader
\* below treats a failed read as "not ours".
Answers == IF StoreFaults THEN BOOLEAN ELSE {TRUE}

\* _claim_is_still_ours
StillOurs(t) == Matches(J(t), "running", C(t))

\* Seeded fault: the claim on the row is not looked at.
OwnsTreeUnfenced(j, c) == row[j].status \in Statuses

\* The check of _delete_input_if_owned and _purge_job_dir_if_claim_matches: the
\* row is gone, or it still carries the claim the caller held.
OwnsTree(j, c) == row[j].status = "absent" \/ row[j].claim = c

\* update_if_status(job, RUNNING, expect_claim_id=claim, ...), and where the
\* thread goes when it applied and when it lost.
Cas(t, r, won, lost) ==
  /\ UpdateIfStatus(J(t), "running", C(t), r)
  /\ Go(t, IF StillOurs(t) THEN won ELSE lost)

localVars == <<mt, disk, box, blob, permits, orphans, upfail, published, crashes>>

-------------------------------------------------------------------------------
\* The ingress: spool the upload, store the sample, create the row.
Submit(j) ==
  /\ Create(j)
  /\ SetTree(Home, j, [disk[Home][j] EXCEPT !.input = TRUE])
  /\ UNCHANGED <<th, mt, box, blob, permits, orphans, upfail, published, crashes>>

-------------------------------------------------------------------------------
\* dispatch_once and the admission part of _dispatch_claimed_job.

Claim(t) ==
  /\ At(t, "idle")
  /\ \E j \in Jobs :
       /\ ClaimNext(Serves[t], j)
       /\ th' = [th EXCEPT ![t] =
                   [pc |-> "admit", job |-> j, claim |-> issued + 1,
                    attempts |-> row[j].attempts, warm |-> FALSE,
                    orphan |-> FALSE]]
  /\ UNCHANGED localVars

\* _requeue_claimed, then back to the loop without any clean-up: the grants
\* gate refuses or is cooling down (deferred), the dispatcher is warm-only and
\* no slot came free, or the process is shutting down (not deferred).
Refuse(t) ==
  /\ At(t, "admit")
  /\ \E defer \in BOOLEAN :
       UpdateIfStatus(J(t), "running", C(t), Requeued(row[J(t)], defer))
  /\ th' = [th EXCEPT ![t] = IdleThread]
  /\ UNCHANGED localVars

\* gate.acquire(0) fails: no cold headroom.
NoHeadroom(t) ==
  /\ At(t, "admit")
  /\ permits[N(t)] >= Limit
  /\ UpdateIfStatus(J(t), "running", C(t), Requeued(row[J(t)], TRUE))
  /\ th' = [th EXCEPT ![t] = IdleThread]
  /\ UNCHANGED localVars

\* pool.claim returned a slot.
AdmitWarm(t) ==
  /\ At(t, "admit")
  /\ th' = [th EXCEPT ![t] = [@ EXCEPT !.pc = "stampw", !.warm = TRUE]]
  /\ UNCHANGED <<storeVars, localVars>>

\* No slot (or an egress job): the cold path takes a permit.
AdmitCold(t) ==
  /\ At(t, "admit")
  /\ permits[N(t)] < Limit
  /\ permits' = [permits EXCEPT ![N(t)] = @ + 1]
  /\ Go(t, "fetch")
  /\ UNCHANGED <<storeVars, mt, disk, box, blob, orphans, upfail, published,
                 crashes>>

-------------------------------------------------------------------------------
\* Staging, common to both paths.

\* _dispatch_warm stamps worker_runtime="warm" before it stages anything.
StampWarm(t) ==
  /\ At(t, "stampw")
  /\ Cas(t, [row[J(t)] EXCEPT !.runtime = "warm"], "fetch", "release")
  /\ UNCHANGED localVars

\* _materialise_sample: the input is spooled already, or is fetched from the
\* blob store; a fetch after failed attempts resets the counter.
Fetch(t) ==
  /\ At(t, "fetch")
  /\ SetTree(N(t), J(t), [Tree(t) EXCEPT !.input = TRUE])
  /\ IF ~Tree(t).input /\ th[t].attempts > 0
       THEN UpdateIfStatus(J(t), "running", C(t), [row[J(t)] EXCEPT !.attempts = 0])
       ELSE UNCHANGED storeVars
  /\ Go(t, IF th[t].warm THEN "guest" ELSE "stampc")
  /\ UNCHANGED <<mt, box, blob, permits, orphans, upfail, published, crashes>>

\* Seeded fault: one attempt too many.
FetchFailedLate(r, attempts) ==
  IF attempts > MaxAttempts
    THEN [Failed(r, FALSE) EXCEPT !.attempts = attempts]
    ELSE [r EXCEPT !.status = "queued", !.claim = NoClaim, !.runtime = "none",
                   !.deferred = TRUE, !.attempts = attempts]

\* The row a failed fetch writes: FAILED once the attempts are used up, else
\* QUEUED again after a back-off (started_at and error are left as they are).
FetchFailed(r, attempts) ==
  IF attempts >= MaxAttempts
    THEN [Failed(r, FALSE) EXCEPT !.attempts = attempts]
    ELSE [r EXCEPT !.status = "queued", !.claim = NoClaim, !.runtime = "none",
                   !.deferred = TRUE, !.attempts = attempts]

FetchFails(t) ==
  /\ At(t, "fetch")
  /\ ~Tree(t).input
  /\ UpdateIfStatus(J(t), "running", C(t),
                    FetchFailed(row[J(t)], th[t].attempts + 1))
  /\ Go(t, "fetchdrop")
  /\ UNCHANGED localVars

\* ... and then drops the staged input, whoever owns the job by now.
FetchDrop(t) ==
  /\ At(t, "fetchdrop")
  /\ SetTree(N(t), J(t), [Tree(t) EXCEPT !.input = FALSE])
  /\ Go(t, "release")
  /\ UNCHANGED <<storeVars, mt, box, blob, permits, orphans, upfail, published,
                 crashes>>

\* Unknown engine, no spooled input and no digest to fetch it by, runtime
\* selection or net-policy refusal: _fail_job.
Reject(t) ==
  /\ \/ At(t, "stampw")
     \/ At(t, "fetch") /\ (~th[t].warm \/ ~Tree(t).input)
     \/ At(t, "stampc")
  /\ Go(t, "fail")
  /\ UNCHANGED <<storeVars, localVars>>

-------------------------------------------------------------------------------
\* The cold path: _dispatch_inner.

\* The node's egress is degraded: release the job to the fleet.
EgressDefer(t) ==
  /\ At(t, "stampc")
  /\ UpdateIfStatus(J(t), "running", C(t), Requeued(row[J(t)], TRUE))
  /\ Go(t, "release")
  /\ UNCHANGED localVars

StampCold(t) ==
  /\ At(t, "stampc")
  /\ Cas(t, [row[J(t)] EXCEPT !.runtime = "cold"], "launch", "release")
  /\ UNCHANGED localVars

\* rmtree + mkdir of the output directory, then `docker run --name <job>`.  The
\* run ends at once without output when a container of that name is still there
\* or the input is gone.
Launch(t) ==
  /\ At(t, "launch")
  /\ SetTree(N(t), J(t), [Tree(t) EXCEPT !.by = C(t), !.stage = "empty"])
  /\ IF box[N(t)][J(t)] = NoClaim /\ Tree(t).input
       THEN /\ box' = [box EXCEPT ![N(t)][J(t)] = C(t)]
            /\ Go(t, "boxed")
       ELSE /\ Go(t, "seal")
            /\ UNCHANGED box
  /\ UNCHANGED <<storeVars, mt, blob, permits, orphans, upfail, published, crashes>>

\* docker could not be run at all.
LaunchFails(t) ==
  /\ At(t, "launch")
  /\ SetTree(N(t), J(t), [Tree(t) EXCEPT !.by = C(t), !.stage = "empty"])
  /\ Go(t, "fail")
  /\ UNCHANGED <<storeVars, mt, box, blob, permits, orphans, upfail, published,
                 crashes>>

\* The container ends, with or without output.  What it wrote is visible only
\* if the directory it was started with is still the job's output directory.
BoxExits(n, j) ==
  /\ box[n][j] # NoClaim
  /\ \E out \in {"empty", "raw"} :
       SetTree(n, j, IF disk[n][j].by = box[n][j]
                       THEN [disk[n][j] EXCEPT !.stage = out] ELSE disk[n][j])
  /\ box' = [box EXCEPT ![n][j] = NoClaim]
  /\ UNCHANGED <<storeVars, th, mt, blob, permits, orphans, upfail, published,
                 crashes>>

\* `docker run` returned.
BoxDone(t) ==
  /\ At(t, "boxed")
  /\ box[N(t)][J(t)] # C(t)
  /\ Go(t, "seal")
  /\ UNCHANGED <<storeVars, localVars>>

\* TimeoutExpired: `docker kill` is confirmed ...
BoxKilled(t) ==
  /\ At(t, "boxed")
  /\ box' = [box EXCEPT ![N(t)][J(t)] = IF @ = C(t) THEN NoClaim ELSE @]
  /\ Go(t, "fail")
  /\ UNCHANGED <<storeVars, mt, disk, blob, permits, orphans, upfail, published,
                 crashes>>

\* ... or it is not, and the container may still be running.
BoxOrphaned(t) ==
  /\ At(t, "boxed")
  /\ th' = [th EXCEPT ![t] = [@ EXCEPT !.pc = "fail", !.orphan = TRUE]]
  /\ UNCHANGED <<storeVars, localVars>>

-------------------------------------------------------------------------------
\* The warm path: staging into the slot, GO, DONE.

GuestDone(t) ==
  /\ At(t, "guest")
  /\ Go(t, "refresh")
  /\ UNCHANGED <<storeVars, localVars>>

\* Staging into the slot, signalling or waiting failed or timed out.
GuestFails(t) ==
  /\ At(t, "guest")
  /\ Go(t, "fail")
  /\ UNCHANGED <<storeVars, localVars>>

\* started_at is refreshed before the sealing phase.
Refresh(t) ==
  /\ At(t, "refresh")
  /\ Cas(t, [row[J(t)] EXCEPT !.age = Fresh], "seal", "release")
  /\ UNCHANGED localVars

-------------------------------------------------------------------------------
\* Sealing, publishing and committing, common to both paths.

\* Cold: validate and seal what lies in the output directory.  Warm: the sealed
\* output is materialised from the slot into a fresh output directory.
Seal(t) ==
  /\ At(t, "seal")
  /\ th[t].warm \/ Tree(t).stage # "empty"
  /\ SetTree(N(t), J(t),
             IF th[t].warm THEN [Tree(t) EXCEPT !.by = C(t), !.stage = "sealed"]
                           ELSE [Tree(t) EXCEPT !.stage = "sealed"])
  /\ Go(t, "check")
  /\ UNCHANGED <<storeVars, mt, box, blob, permits, orphans, upfail, published,
                 crashes>>

\* Output too large, trust validation failed, engine_error.
SealFails(t) ==
  /\ At(t, "seal")
  /\ Go(t, "fail")
  /\ UNCHANGED <<storeVars, localVars>>

Check(t) ==
  /\ At(t, "check")
  /\ \E up \in Answers : Go(t, IF up /\ StillOurs(t) THEN "body" ELSE "release")
  /\ UNCHANGED <<storeVars, localVars>>

\* put_output copies every file of the directory, metadata.json (the seal)
\* last.  A missing directory is an error; an empty one uploads nothing.
PutBody(t) ==
  /\ At(t, "body")
  /\ Tree(t).by # NoClaim
  /\ blob' = IF Tree(t).stage = "empty" THEN blob
             ELSE [blob EXCEPT ![J(t)].body = Tree(t).by]
  /\ Go(t, "putseal")
  /\ UNCHANGED <<storeVars, mt, disk, box, permits, orphans, upfail, published,
                 crashes>>

PutSeal(t) ==
  /\ At(t, "putseal")
  /\ Tree(t).by # NoClaim
  /\ blob' = IF Tree(t).stage = "empty" THEN blob
             ELSE [blob EXCEPT ![J(t)].seal = Tree(t).by]
  /\ published' = published \cup {C(t)}
  /\ Go(t, "commit")
  /\ UNCHANGED <<storeVars, mt, disk, box, permits, orphans, upfail, crashes>>

\* Seeded fault: a failed upload is swallowed.
PutFailsSwallowed(t) ==
  /\ th[t].pc \in {"body", "putseal"}
  /\ published' = published \cup {C(t)}
  /\ Go(t, "commit")
  /\ UNCHANGED <<storeVars, mt, disk, box, blob, permits, orphans, upfail, crashes>>

\* The receipt could not be sealed, or every attempt to upload failed, perhaps
\* half-way.
PutFails(t) ==
  /\ th[t].pc \in {"body", "putseal"}
  /\ Go(t, "reapcheck")
  /\ UNCHANGED <<storeVars, localVars>>

\* _upload_output reaps a partial result, but only while the claim is ours.
ReapCheck(t) ==
  /\ At(t, "reapcheck")
  /\ \E up \in Answers : Go(t, IF up /\ StillOurs(t) THEN "reap" ELSE "mark")
  /\ UNCHANGED <<storeVars, localVars>>

Reap(t) ==
  /\ At(t, "reap")
  /\ \E deleted \in BOOLEAN :
       blob' = IF deleted THEN [blob EXCEPT ![J(t)] = NoBlob] ELSE blob
  /\ Go(t, "mark")
  /\ UNCHANGED <<storeVars, mt, disk, box, permits, orphans, upfail, published,
                 crashes>>

\* _retain_for_upload_retry: mark first ...
Mark(t) ==
  /\ At(t, "mark")
  /\ upfail' = [upfail EXCEPT ![N(t)] = @ \cup {J(t)}]
  /\ SetTree(N(t), J(t), IF Tree(t).by = NoClaim THEN Tree(t)
                         ELSE [Tree(t) EXCEPT !.marker = C(t)])
  /\ Go(t, "keep")
  /\ UNCHANGED <<storeVars, mt, box, blob, permits, orphans, published, crashes>>

\* ... then the terminal write ...
Keep(t) ==
  /\ At(t, "keep")
  /\ Cas(t, Failed(row[J(t)], TRUE), "release", "unmark")
  /\ UNCHANGED localVars

\* ... and if that lost, withdraw the marker this claim wrote.
Unmark(t) ==
  /\ At(t, "unmark")
  /\ SetTree(N(t), J(t), IF Tree(t).marker = C(t)
                         THEN [Tree(t) EXCEPT !.marker = NoClaim] ELSE Tree(t))
  /\ Go(t, "release")
  /\ UNCHANGED <<storeVars, mt, box, blob, permits, orphans, upfail, published,
                 crashes>>

Commit(t) ==
  /\ At(t, "commit")
  /\ Cas(t, Done(row[J(t)]), "release", "release")
  /\ UNCHANGED localVars

\* _fail_job
Fail(t) ==
  /\ At(t, "fail")
  /\ Cas(t, Failed(row[J(t)], FALSE), "release", "release")
  /\ UNCHANGED localVars

\* A store call, or staging into the slot, raised out of _dispatch_inner or
\* _dispatch_warm: the row keeps its RUNNING claim and only the finally blocks
\* run.
Raise(t) ==
  /\ \/ At(t, "guest")
     \/ /\ StoreFaults
        /\ th[t].pc \in {"stampw", "fetch", "stampc", "refresh", "keep", "commit", "fail"}
  /\ Go(t, "release")
  /\ UNCHANGED <<storeVars, localVars>>

-------------------------------------------------------------------------------
\* The finally block of _dispatch_claimed_job.

\* gate.release(): the count never goes below zero.
Returned(n) == [permits EXCEPT ![n] = IF @ > 0 THEN @ - 1 ELSE 0]

\* Seeded fault: the permit of a container that was not killed is given back.
ReleaseOrphan(t) ==
  /\ At(t, "release")
  /\ permits' = IF th[t].warm THEN permits ELSE Returned(N(t))
  /\ IF th[t].orphan
       THEN /\ orphans' = [orphans EXCEPT ![N(t)][J(t)] = C(t)]
            /\ SetTree(N(t), J(t), [Tree(t) EXCEPT !.orphan = TRUE])
       ELSE UNCHANGED <<orphans, disk>>
  /\ Go(t, "inread")
  /\ UNCHANGED <<storeVars, mt, box, blob, upfail, published, crashes>>

\* Seeded fault: a warm job gives back a permit too, and the count may go below
\* zero.
ReleaseWarm(t) ==
  /\ At(t, "release")
  /\ IF th[t].orphan
       THEN /\ orphans' = [orphans EXCEPT ![N(t)][J(t)] = C(t)]
            /\ SetTree(N(t), J(t), [Tree(t) EXCEPT !.orphan = TRUE])
            /\ UNCHANGED permits
       ELSE /\ permits' = [permits EXCEPT ![N(t)] = @ - 1]
            /\ UNCHANGED <<orphans, disk>>
  /\ Go(t, "inread")
  /\ UNCHANGED <<storeVars, mt, box, blob, upfail, published, crashes>>

\* A cold job gives its permit back unless its container may still be running;
\* then the permit and the tree are retained.  A warm job releases its slot.
Release(t) ==
  /\ At(t, "release")
  /\ IF th[t].orphan
       THEN /\ orphans' = [orphans EXCEPT ![N(t)][J(t)] = C(t)]
            /\ SetTree(N(t), J(t), [Tree(t) EXCEPT !.orphan = TRUE])
            /\ UNCHANGED permits
       ELSE /\ permits' = IF th[t].warm THEN permits ELSE Returned(N(t))
            /\ UNCHANGED <<orphans, disk>>
  /\ Go(t, "inread")
  /\ UNCHANGED <<storeVars, mt, box, blob, upfail, published, crashes>>

\* _delete_input_if_owned: read the row, then unlink.
InRead(t) ==
  /\ At(t, "inread")
  /\ \E up \in Answers :
       Go(t, IF up /\ OwnsTree(J(t), C(t)) THEN "indel" ELSE "pgread")
  /\ UNCHANGED <<storeVars, localVars>>

InDel(t) ==
  /\ At(t, "indel")
  /\ SetTree(N(t), J(t), [Tree(t) EXCEPT !.input = FALSE])
  /\ Go(t, "pgread")
  /\ UNCHANGED <<storeVars, mt, box, blob, permits, orphans, upfail, published,
                 crashes>>

\* Seeded fault: a failed upload does not keep the tree.
PgReadUploadBlind(t) ==
  /\ At(t, "pgread")
  /\ \E up \in Answers :
       IF ~th[t].orphan /\ up /\ OwnsTree(J(t), C(t))
         THEN Go(t, "pgdel")
         ELSE th' = [th EXCEPT ![t] = IdleThread]
  /\ UNCHANGED <<storeVars, mt, disk, box, blob, permits, orphans, upfail, published,
                 crashes>>

\* _purge_job_dir_if_owned: not while the container may be running, not when
\* the upload failed (that flag is consumed), and only a tree we own.
PgRead(t) ==
  /\ At(t, "pgread")
  /\ \E up \in Answers :
       IF ~th[t].orphan /\ J(t) \notin upfail[N(t)] /\ up /\ OwnsTree(J(t), C(t))
         THEN Go(t, "pgdel")
         ELSE th' = [th EXCEPT ![t] = IdleThread]
  /\ upfail' = IF th[t].orphan THEN upfail
               ELSE [upfail EXCEPT ![N(t)] = @ \ {J(t)}]
  /\ UNCHANGED <<storeVars, mt, disk, box, blob, permits, orphans, published,
                 crashes>>

PgDel(t) ==
  /\ At(t, "pgdel")
  /\ SetTree(N(t), J(t), NoTree)
  /\ th' = [th EXCEPT ![t] = IdleThread]
  /\ UNCHANGED <<storeVars, mt, box, blob, permits, orphans, upfail, published,
                 crashes>>

-------------------------------------------------------------------------------
\* _run_maintenance: the sweep over RUNNING rows (requeue_orphaned_jobs), the
\* stale-queued sweep and the cold-orphan reconciliation.

MaintGo(n, p) == mt' = [mt EXCEPT ![n].pc = p]
MaintIdle(n) == mt' = [mt EXCEPT ![n] = IdleMaint]

\* The timing assumption a run makes with SlowOwners = FALSE: the cutoffs are
\* generous enough that a sweep finds a stale warm row, or a cold row without a
\* container, only when nobody works under its claim any more; and a deferral
\* outlasts the clean-up of the thread that asked for it.
Abandoned(c) == SlowOwners \/ \A t \in Threads : C(t) # c
Settled(j) == SlowOwners \/ \A t \in Threads : J(t) # j

\* job_store.list(status=RUNNING): a snapshot that the judgement is made on.
SweepList(n, j) ==
  /\ mt[n].pc = "idle"
  /\ row[j].status = "running"
  /\ row[j].runtime = "warm" /\ row[j].age = PastStale => Abandoned(row[j].claim)
  /\ mt' = [mt EXCEPT ![n] = [pc |-> "judge", job |-> j, claim |-> row[j].claim,
                              age |-> row[j].age, runtime |-> row[j].runtime]]
  /\ UNCHANGED <<storeVars, th, disk, box, blob, permits, orphans, upfail,
                 published, crashes>>

\* Warm pass: too old is abandoned; it is failed, never run again, and only its
\* staged input is dropped.
SweepWarm(n) ==
  LET j == mt[n].job  c == mt[n].claim IN
  /\ mt[n].pc = "judge"
  /\ mt[n].runtime = "warm"
  /\ mt[n].age = PastStale
  /\ UpdateIfStatus(j, "running", c, Failed(row[j], FALSE))
  /\ SetTree(n, j, IF Matches(j, "running", c)
                   THEN [disk[n][j] EXCEPT !.input = FALSE] ELSE disk[n][j])
  /\ MaintIdle(n)
  /\ UNCHANGED <<th, box, blob, permits, orphans, upfail, published, crashes>>

\* Seeded fault: only rows that say "cold" are looked at, so a job whose owner
\* died before it stamped the runtime is never recovered.
SweepPsStamped(n) ==
  /\ mt[n].pc = "judge"
  /\ mt[n].runtime # "warm"
  /\ IF mt[n].runtime = "cold" /\ box[n][mt[n].job] = NoClaim /\ Abandoned(mt[n].claim)
       THEN MaintGo(n, "gone") ELSE MaintIdle(n)
  /\ UNCHANGED <<storeVars, th, disk, box, blob, permits, orphans, upfail,
                 published, crashes>>

\* Cold pass: `docker ps` on this node.
SweepPs(n) ==
  /\ mt[n].pc = "judge"
  /\ mt[n].runtime # "warm"
  /\ IF box[n][mt[n].job] = NoClaim /\ Abandoned(mt[n].claim)
       THEN MaintGo(n, "gone") ELSE MaintIdle(n)
  /\ UNCHANGED <<storeVars, th, disk, box, blob, permits, orphans, upfail,
                 published, crashes>>

\* `docker ps` failed, or the job is too young for either pass.
SweepSkip(n) ==
  /\ \/ mt[n].pc = "judge" /\ mt[n].runtime # "warm"
     \/ mt[n].pc = "judge" /\ mt[n].runtime = "warm" /\ mt[n].age # PastStale
     \/ mt[n].pc = "gone" /\ mt[n].age = Fresh
     \/ mt[n].pc = "rcps"
  /\ MaintIdle(n)
  /\ UNCHANGED <<storeVars, th, disk, box, blob, permits, orphans, upfail,
                 published, crashes>>

\* No container and past the grace window: back to the queue.
SweepRequeue(n) ==
  LET j == mt[n].job  c == mt[n].claim IN
  /\ mt[n].pc = "gone"
  /\ mt[n].age # Fresh
  /\ UpdateIfStatus(j, "running", c, Requeued(row[j], row[j].deferred))
  /\ MaintIdle(n)
  /\ UNCHANGED <<th, disk, box, blob, permits, orphans, upfail, published, crashes>>

\* _fail_stale_queued_jobs: the compare-and-set is on the status alone.
FailStaleQueued(n, j) ==
  /\ QueuedAgeCap
  /\ mt[n].pc = "idle"
  /\ row[j].status = "queued"
  /\ UpdateIfStatusOnly(j, "queued", Failed(row[j], FALSE))
  /\ SetTree(n, j, [disk[n][j] EXCEPT !.input = FALSE])
  /\ UNCHANGED <<th, mt, box, blob, permits, orphans, upfail, published, crashes>>

\* _reconcile_cold_orphans: candidates first, then `docker ps` ...
ReconcileList(n, j) ==
  /\ mt[n].pc = "idle"
  /\ orphans[n][j] # NoClaim
  /\ mt' = [mt EXCEPT ![n] = [IdleMaint EXCEPT !.pc = "rcps", !.job = j]]
  /\ UNCHANGED <<storeVars, th, disk, box, blob, permits, orphans, upfail,
                 published, crashes>>

ReconcilePs(n) ==
  /\ mt[n].pc = "rcps"
  /\ IF box[n][mt[n].job] = NoClaim THEN MaintGo(n, "rcpop") ELSE MaintIdle(n)
  /\ UNCHANGED <<storeVars, th, disk, box, blob, permits, orphans, upfail,
                 published, crashes>>

\* Seeded fault: the permit comes back but the job stays on the list.
ReconcilePopForgets(n) ==
  LET j == mt[n].job IN
  /\ mt[n].pc = "rcpop"
  /\ mt' = [mt EXCEPT ![n] = [@ EXCEPT !.pc = "rcread", !.claim = orphans[n][j]]]
  /\ permits' = Returned(n)
  /\ SetTree(n, j, [disk[n][j] EXCEPT !.orphan = FALSE])
  /\ UNCHANGED <<storeVars, th, box, blob, orphans, upfail, published, crashes>>

\* ... then the confirmed-gone ones give back their permit and their mark ...
ReconcilePop(n) ==
  LET j == mt[n].job IN
  /\ mt[n].pc = "rcpop"
  /\ mt' = [mt EXCEPT ![n] = [@ EXCEPT !.pc = "rcread", !.claim = orphans[n][j]]]
  /\ orphans' = [orphans EXCEPT ![n][j] = NoClaim]
  /\ permits' = Returned(n)
  /\ SetTree(n, j, [disk[n][j] EXCEPT !.orphan = FALSE])
  /\ UNCHANGED <<storeVars, th, box, blob, upfail, published, crashes>>

\* ... and their tree, if its claim is still on the row.
ReconcileRead(n) ==
  LET j == mt[n].job IN
  /\ mt[n].pc = "rcread"
  /\ \E up \in Answers :
       IF j \notin upfail[n] /\ up /\ OwnsTree(j, mt[n].claim)
         THEN MaintGo(n, "rcdel") ELSE MaintIdle(n)
  /\ upfail' = [upfail EXCEPT ![n] = @ \ {j}]
  /\ UNCHANGED <<storeVars, th, disk, box, blob, permits, orphans, published,
                 crashes>>

ReconcileDel(n) ==
  /\ mt[n].pc = "rcdel"
  /\ SetTree(n, mt[n].job, NoTree)
  /\ MaintIdle(n)
  /\ UNCHANGED <<storeVars, th, box, blob, permits, orphans, upfail, published,
                 crashes>>

-------------------------------------------------------------------------------
\* The process dies and is started again: what it held in memory is gone, its
\* disk and its containers are not.
Crash(n) ==
  /\ crashes < MaxCrashes
  /\ crashes' = crashes + 1
  /\ th' = [t \in Threads |-> IF N(t) = n THEN IdleThread ELSE th[t]]
  /\ MaintIdle(n)
  /\ permits' = [permits EXCEPT ![n] = 0]
  /\ orphans' = [orphans EXCEPT ![n] = [j \in Jobs |-> NoClaim]]
  /\ upfail' = [upfail EXCEPT ![n] = {}]
  /\ UNCHANGED <<storeVars, disk, box, blob, published>>

\* Time passes for a row.
Elapse(j) ==
  /\ Age(j) \/ (BecomeClaimable(j) /\ Settled(j))
  /\ UNCHANGED <<th, localVars>>

-------------------------------------------------------------------------------
ThreadStep(t) ==
  \/ Refuse(t)    \/ NoHeadroom(t) \/ AdmitWarm(t)  \/ AdmitCold(t)
  \/ StampWarm(t) \/ Fetch(t)      \/ FetchFails(t) \/ FetchDrop(t) \/ Reject(t)
  \/ EgressDefer(t) \/ StampCold(t) \/ Launch(t)    \/ LaunchFails(t)
  \/ BoxDone(t)   \/ BoxKilled(t)  \/ BoxOrphaned(t)
  \/ GuestDone(t) \/ GuestFails(t) \/ Refresh(t)
  \/ Seal(t)      \/ SealFails(t)  \/ Check(t)      \/ PutBody(t)  \/ PutSeal(t)
  \/ PutFails(t)  \/ ReapCheck(t)  \/ Reap(t)       \/ Mark(t)     \/ Keep(t)
  \/ Unmark(t)    \/ Commit(t)     \/ Fail(t)       \/ Raise(t)
  \/ Release(t)   \/ InRead(t)     \/ InDel(t)      \/ PgRead(t)   \/ PgDel(t)

MaintStep(n) ==
  \/ SweepWarm(n) \/ SweepPs(n) \/ SweepSkip(n) \/ SweepRequeue(n)
  \/ ReconcilePs(n) \/ ReconcilePop(n) \/ ReconcileRead(n) \/ ReconcileDel(n)

\* What the maintenance thread may begin between two of its passes.
MaintBegin(n, j) == SweepList(n, j) \/ FailStaleQueued(n, j) \/ ReconcileList(n, j)

Next ==
  \/ \E j \in Jobs : Submit(j) \/ Elapse(j)
  \/ \E t \in Threads : Claim(t) \/ ThreadStep(t)
  \/ \E n \in Nodes : MaintStep(n) \/ Crash(n)
  \/ \E n \in Nodes, j \in Jobs : MaintBegin(n, j) \/ BoxExits(n, j)

Spec == Init /\ [][Next]_vars

\* What the code's scheduling guarantees: a dispatch thread that has claimed a
\* job keeps running (every wait in it is bounded by a timeout), containers end,
\* clocks advance, the maintenance loop comes round to every job, and
\* `docker ps` does not fail for ever.
Fairness ==
  /\ \A t \in Threads : WF_vars(ThreadStep(t))
  /\ \A n \in Nodes : WF_vars(MaintStep(n)) /\ SF_vars(SweepPs(n))
                        /\ SF_vars(ReconcilePs(n))
  /\ \A j \in Jobs : WF_vars(Elapse(j))
  /\ \A n \in Nodes, j \in Jobs :
       WF_vars(BoxExits(n, j)) /\ SF_vars(SweepList(n, j))
       /\ SF_vars(ReconcileList(n, j))

FairSpec == Spec /\ Fairness

-------------------------------------------------------------------------------
\* Every variable keeps its type.
TypeOK ==
  /\ row \in [Jobs -> Rows]
  /\ issued \in 0..MaxClaims
  /\ submitted \in 0..NJobs
  /\ th \in [Threads -> ThreadStates]
  /\ mt \in [Nodes -> MaintStates]
  /\ disk \in [Nodes -> [Jobs -> Trees]]
  /\ box \in [Nodes -> [Jobs -> ClaimIds]]
  /\ blob \in [Jobs -> Blobs]
  /\ permits \in [Nodes -> Nat]
  /\ orphans \in [Nodes -> [Jobs -> ClaimIds]]
  /\ upfail \in [Nodes -> SUBSET Jobs]
  /\ published \subseteq ClaimIds
  /\ crashes \in 0..MaxCrashes

\* A job whose sample could not be fetched MAX_MATERIALISE_ATTEMPTS times is
\* never queued or run again, however its attempts were spread over claims,
\* nodes, sweeps and crashes.
AttemptsBounded ==
  \A j \in Jobs : row[j].status \in {"queued", "running"}
                    => row[j].attempts < MaxAttempts

\* The steps at which a cold thread holds a permit of its node's gate.
HoldsPermit(t) ==
  /\ ~th[t].warm
  /\ th[t].pc \notin {"idle", "admit", "inread", "indel", "pgread", "pgdel"}

\* The gate's in-flight count is exactly the cold jobs being run plus the
\* containers whose kill was not confirmed: no exit path of
\* _dispatch_claimed_job leaks a permit or gives one back twice, and the
\* reconciliation returns each retained one once.
PermitsConserved ==
  \A n \in Nodes :
    permits[n] = Cardinality({t \in Threads : N(t) = n /\ HoldsPermit(t)})
                 + Cardinality({j \in Jobs : orphans[n][j] # NoClaim})

\* Every live worker container of a node is paid for by a permit, failed kills
\* included: cold workers never stack past the gate's limit while the process
\* lives.
ContainersBudgeted ==
  \A n \in Nodes :
    /\ Cardinality({j \in Jobs : box[n][j] # NoClaim}) <= permits[n]
    /\ permits[n] <= Limit

\* A row says DONE only under a claim whose own put_output was acknowledged:
\* however late a former owner wakes up, it cannot commit the attempt of the
\* owner that replaced it.
DoneWasPublished ==
  \A j \in Jobs : row[j].status = "done" => row[j].claim \in published

\* A DONE job serves the artifacts and the seal of the attempt that committed
\* it, and of no other.
DoneServesItsResult ==
  \A j \in Jobs : row[j].status = "done" =>
    blob[j].body = row[j].claim /\ blob[j].seal = row[j].claim

\* A job that failed only because its result could not be uploaded has that
\* result, sealed and marked under its own claim, on some node's disk.
KeptResultOnDisk ==
  \A j \in Jobs : row[j].status = "failed" /\ row[j].kept =>
    \E n \in Nodes : LET d == disk[n][j] IN
      d.marker = row[j].claim /\ d.by = row[j].claim /\ d.stage = "sealed"

\* Nobody deletes the staged input of a job between the moment its owner staged
\* it and the moment the worker reads it.
StagedInputSafe ==
  \A t \in Threads :
    th[t].pc \in {"stampc", "launch", "guest"} /\ StillOurs(t) => Tree(t).input

\* The output directory a live container writes into is not removed under it.
LiveTreeKept ==
  \A n \in Nodes, j \in Jobs : box[n][j] # NoClaim => disk[n][j].by = box[n][j]

\* A claim is never held for ever: whoever crashed, the row is committed,
\* failed or handed back to the queue.
RunningEnds ==
  \A j \in Jobs, c \in 1..MaxClaims :
    Matches(j, "running", c) ~> ~Matches(j, "running", c)

\* A permit retained for an unconfirmed kill is given back in the end.
OrphansReconciled ==
  \A n \in Nodes, j \in Jobs : orphans[n][j] # NoClaim ~> orphans[n][j] = NoClaim

-------------------------------------------------------------------------------
\* The dispatcher implements the job life cycle its clients rely on.
Lifecycle == INSTANCE JobLifecycle WITH
  Claims <- 1..MaxClaims,
  state  <- [j \in Jobs |-> row[j].status],
  holder <- [j \in Jobs |-> row[j].claim],
  used   <- 1..issued

ImplementsLifecycle == Lifecycle!Spec
===============================================================================
