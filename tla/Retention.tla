------------------------------- MODULE Retention -------------------------------
(* What becomes of a job after its terminal write, beside the dispatcher that   *)
(* may still be running it: the sweep that uploads retained results and repairs *)
(* their rows (retry_pending_uploads), the reclaim of old scratch trees         *)
(* (reap_stale_scratch), the expiry of finished jobs (JobRetentionSweeper), and *)
(* DELETE /v1/jobs.  The first three run on the maintenance thread of every     *)
(* node, one at a time and never at once with the sweeps of Dispatch; a node    *)
(* that has no dispatch thread stands for the sweeper of an ingress host.       *)
EXTENDS Dispatch

CONSTANTS
  UndoFails   \* may the removal of a late upload's bytes fail?

ASSUME RetentionAssumption == UndoFails \in BOOLEAN

VARIABLES
  rt,    \* the retention work the maintenance thread of a node is doing
  del    \* the DELETE request for a job

retVars == <<rt, del>>
allVars == <<vars, rt, del>>

RetentionPcs ==
  {"idle", "rtread", "rtmark", "rtprobe", "rtbody", "rtseal", "rtfix", "rtafter",
   "rtundo", "rtclear", "scread", "scjudge", "scpurge", "exread", "exreserve", "extree",
   "exblob", "exfinal"}

\* The job in hand, and the claim and status of the row as they were read.
RetentionStates == [pc : RetentionPcs, job : 0..NJobs, claim : ClaimIds,
                    status : Statuses]

IdleRetention == [pc |-> "idle", job |-> 0, claim |-> NoClaim, status |-> "absent"]

\* "asked": a request was made and did not get through, and may be repeated.
DeletePcs == {"no", "asked", "tree", "blob", "row"}

RetentionInit ==
  /\ Init
  /\ rt = [n \in Nodes |-> IdleRetention]
  /\ del = [j \in Jobs |-> "no"]

-------------------------------------------------------------------------------
RJ(n) == rt[n].job
RAt(n, p) == rt[n].pc = p
RGo(n, p) == rt' = [rt EXCEPT ![n].pc = p]
RIdle(n) == rt' = [rt EXCEPT ![n] = IdleRetention]

\* The maintenance thread turns to job j.
RBegin(n, j, p) ==
  /\ RAt(n, "idle") /\ mt[n].pc = "idle"
  /\ rt' = [rt EXCEPT ![n] = [IdleRetention EXCEPT !.pc = p, !.job = j]]

\* What no retention step changes.
workVars == <<th, mt, box, permits, orphans, upfail, crashes, del>>

\* The claim of the tree that put_output would upload from node n.
Uploads(n) == disk[n][RJ(n)].by

-------------------------------------------------------------------------------
\* _retry_pending_one: a tree with a marker and a metadata.json ...
RetryBegin(n, j) ==
  /\ disk[n][j].marker # NoClaim
  /\ disk[n][j].stage # "empty"
  /\ RBegin(n, j, "rtread")
  /\ UNCHANGED <<storeVars, disk, blob, published, workVars>>

\* ... of a row that is FAILED ...
RetryRead(n) ==
  LET r == row[RJ(n)] IN
  /\ RAt(n, "rtread")
  /\ \E up \in Answers :
       IF up /\ r.status = "failed"
         THEN rt' = [rt EXCEPT ![n].pc = "rtmark", ![n].claim = r.claim]
         ELSE RIdle(n)
  /\ UNCHANGED <<storeVars, disk, blob, published, workVars>>

\* Seeded fault: a marker left by any attempt will do.
RetryMarkerAny(n) ==
  /\ RAt(n, "rtmark")
  /\ IF disk[n][RJ(n)].marker = NoClaim THEN RIdle(n) ELSE RGo(n, "rtprobe")
  /\ UNCHANGED <<storeVars, disk, blob, published, workVars>>

\* ... and that still carries the marker's claim; a marker that is gone by now
\* also ends it.
RetryMarker(n) ==
  /\ RAt(n, "rtmark")
  /\ IF disk[n][RJ(n)].marker \in {rt[n].claim} \ {NoClaim} THEN RGo(n, "rtprobe") ELSE RIdle(n)
  /\ UNCHANGED <<storeVars, disk, blob, published, workVars>>

\* A seal in the store counts as this result, whoever wrote it; a failed probe
\* counts as no seal.
RetryProbe(n) ==
  /\ RAt(n, "rtprobe")
  /\ \E seen \in BOOLEAN :
       RGo(n, IF seen /\ blob[RJ(n)].seal # NoClaim THEN "rtfix" ELSE "rtbody")
  /\ UNCHANGED <<storeVars, disk, blob, published, workVars>>

\* put_output of the retained tree.
RetryBody(n) ==
  /\ RAt(n, "rtbody")
  /\ Uploads(n) # NoClaim
  /\ blob' = IF disk[n][RJ(n)].stage = "empty" THEN blob
             ELSE [blob EXCEPT ![RJ(n)].body = Uploads(n)]
  /\ RGo(n, "rtseal")
  /\ UNCHANGED <<storeVars, disk, published, workVars>>

\* Seeded fault: the marker is cleared as soon as the bytes are stored.
RetrySealClears(n) ==
  /\ RAt(n, "rtseal")
  /\ Uploads(n) # NoClaim
  /\ blob' = [blob EXCEPT ![RJ(n)].seal = Uploads(n)]
  /\ SetTree(n, RJ(n), [disk[n][RJ(n)] EXCEPT !.marker = NoClaim])
  /\ published' = published \cup {Uploads(n)}
  /\ RGo(n, "rtfix")
  /\ UNCHANGED <<storeVars, workVars>>

RetrySeal(n) ==
  /\ RAt(n, "rtseal")
  /\ Uploads(n) # NoClaim
  /\ blob' = IF disk[n][RJ(n)].stage = "empty" THEN blob
             ELSE [blob EXCEPT ![RJ(n)].seal = Uploads(n)]
  /\ published' = published \cup {Uploads(n)}
  /\ RGo(n, "rtfix")
  /\ UNCHANGED <<storeVars, disk, workVars>>

\* The upload failed: the tree stays retained for the next sweep.
RetryPutFails(n) ==
  /\ RAt(n, "rtbody") \/ RAt(n, "rtseal")
  /\ RIdle(n)
  /\ UNCHANGED <<storeVars, disk, blob, published, workVars>>

\* The row becomes DONE with a fresh expiry, if it is still FAILED.
RetryFix(n) ==
  LET j == RJ(n) IN
  /\ RAt(n, "rtfix")
  /\ UpdateIfStatusOnly(j, "failed", Done(row[j]))
  /\ RGo(n, IF row[j].status = "failed" THEN "rtclear" ELSE "rtafter")
  /\ UNCHANGED <<disk, blob, published, workVars>>

\* The store raises, or refuses the write of a credential-less node that no longer
\* holds the claim (PermissionError): the row stays FAILED, the tree retained.
RetryFixRaises(n) ==
  /\ StoreFaults
  /\ RAt(n, "rtfix")
  /\ RGo(n, "rtafter")
  /\ UNCHANGED <<storeVars, disk, blob, published, workVars>>

\* Seeded fault: a lost repair is not looked into.
RetryAfterBlind(n) ==
  /\ RAt(n, "rtafter")
  /\ RIdle(n)
  /\ UNCHANGED <<storeVars, disk, blob, published, workVars>>

\* A lost repair: did the row expire meanwhile?
RetryAfter(n) ==
  /\ RAt(n, "rtafter")
  /\ \E up \in Answers :
       IF up /\ row[RJ(n)].status = "expired" THEN RGo(n, "rtundo") ELSE RIdle(n)
  /\ UNCHANGED <<storeVars, disk, blob, published, workVars>>

\* Then the bytes just uploaded go again; a failure is suppressed.
RetryUndo(n) ==
  /\ RAt(n, "rtundo")
  /\ \E deleted \in IF UndoFails THEN BOOLEAN ELSE {TRUE} :
       blob' = IF deleted THEN [blob EXCEPT ![RJ(n)] = NoBlob] ELSE blob
  /\ RGo(n, "rtclear")
  /\ UNCHANGED <<storeVars, disk, published, workVars>>

\* clear_pending_upload without a claim.
RetryClear(n) ==
  /\ RAt(n, "rtclear")
  /\ SetTree(n, RJ(n), [disk[n][RJ(n)] EXCEPT !.marker = NoClaim])
  /\ RIdle(n)
  /\ UNCHANGED <<storeVars, blob, published, workVars>>

-------------------------------------------------------------------------------
\* reap_stale_scratch.

\* The timing assumption of SlowOwners = FALSE: scratch_max_age_s is longer than
\* a job takes, so an untouched tree has neither a thread nor a container.
Untouched(n, j) == SlowOwners \/ (Settled(j) /\ box[n][j] = NoClaim)

\* Not while the gate is saturated, and neither a retained orphan nor a tree
\* that changed lately.
ScratchBegin(n, j) ==
  /\ permits[n] < Limit
  /\ disk[n][j] # NoTree
  /\ orphans[n][j] = NoClaim
  /\ Untouched(n, j)
  /\ RBegin(n, j, "scread")
  /\ UNCHANGED <<storeVars, disk, blob, published, workVars>>

ScratchRead(n) ==
  LET st == row[RJ(n)].status IN
  /\ RAt(n, "scread")
  /\ \E up \in Answers :
       IF up /\ st \in Terminal \cup {"absent"}
         THEN rt' = [rt EXCEPT ![n].pc = "scjudge", ![n].status = st]
         ELSE RIdle(n)
  /\ UNCHANGED <<storeVars, disk, blob, published, workVars>>

\* Seeded fault: only a DONE job's tree is looked at.
LastCopyDone(n, j, st, durable) ==
  st = "done" /\ ~durable /\ disk[n][j].by # NoClaim /\ disk[n][j].stage # "empty"

\* The last copy is kept: a marked tree of a FAILED job, and the sealed tree of
\* a DONE job without a durable result.
LastCopy(n, j, st, durable) ==
  \/ disk[n][j].marker # NoClaim /\ st = "failed"
  \/ st = "done" /\ ~durable /\ disk[n][j].by # NoClaim /\ disk[n][j].stage # "empty"

ScratchJudge(n) ==
  LET j == RJ(n) IN
  /\ RAt(n, "scjudge")
  /\ \E seen \in BOOLEAN :
       IF LastCopy(n, j, rt[n].status, seen /\ blob[j].seal # NoClaim)
         THEN RIdle(n) ELSE RGo(n, "scpurge")
  /\ UNCHANGED <<storeVars, disk, blob, published, workVars>>

ScratchPurge(n) ==
  /\ RAt(n, "scpurge")
  /\ SetTree(n, RJ(n), NoTree)
  /\ RIdle(n)
  /\ UNCHANGED <<storeVars, blob, published, workVars>>

-------------------------------------------------------------------------------
\* JobRetentionSweeper.expire_due and _expire_job.

\* The rows the listing selects.
Due(r) == r.status \in Terminal /\ r.expiry = "due"

ExpireList(n, j) ==
  /\ Retaining
  /\ Due(row[j])
  /\ RAt(n, "idle") /\ mt[n].pc = "idle"
  /\ rt' = [rt EXCEPT ![n] = [IdleRetention EXCEPT !.pc = "exread", !.job = j,
                                                    !.status = row[j].status]]
  /\ UNCHANGED <<storeVars, disk, blob, published, workVars>>

ExpireRead(n) ==
  LET r == row[RJ(n)] IN
  /\ RAt(n, "exread")
  /\ IF r.status = rt[n].status /\ Due(r) THEN RGo(n, "exreserve") ELSE RIdle(n)
  /\ UNCHANGED <<storeVars, disk, blob, published, workVars>>

\* Seeded fault: nothing is reserved before the bytes go; the row is written
\* last.
ExpireReserveLate(n) ==
  /\ RAt(n, "exreserve")
  /\ RGo(n, "extree")
  /\ UNCHANGED <<storeVars, disk, blob, published, workVars>>

\* Seeded fault: the reservation is taken for the end of the expiry.
ExpireReserveOnly(n) ==
  LET j == RJ(n) IN
  /\ RAt(n, "exreserve")
  /\ UpdateIfStatusOnly(j, rt[n].status, [row[j] EXCEPT !.status = "expired"])
  /\ RIdle(n)
  /\ UNCHANGED <<disk, blob, published, workVars>>

\* The row is reserved before anything is destroyed; its expiry stays.
ExpireReserve(n) ==
  LET j == RJ(n) IN
  /\ RAt(n, "exreserve")
  /\ UpdateIfStatusOnly(j, rt[n].status, [row[j] EXCEPT !.status = "expired"])
  /\ IF row[j].status = rt[n].status THEN RGo(n, "extree") ELSE RIdle(n)
  /\ UNCHANGED <<disk, blob, published, workVars>>

\* The local tree goes, unless it is marked.
ExpireTree(n) ==
  LET j == RJ(n) IN
  /\ RAt(n, "extree")
  /\ disk' = IF disk[n][j].marker = NoClaim THEN [disk EXCEPT ![n][j] = NoTree]
             ELSE disk
  /\ RGo(n, "exblob")
  /\ UNCHANGED <<storeVars, blob, published, workVars>>

\* What a delete_job that failed may have left.
Remains(j) == {blob[j], [blob[j] EXCEPT !.seal = NoClaim], [blob[j] EXCEPT !.body = NoClaim]}

ExpireBlob(n) ==
  /\ RAt(n, "exblob")
  /\ blob' = [blob EXCEPT ![RJ(n)] = NoBlob]
  /\ RGo(n, "exfinal")
  /\ UNCHANGED <<storeVars, disk, published, workVars>>

\* The row keeps its expiry, and the next sweep tries again.
ExpireBlobFails(n) ==
  /\ RAt(n, "exblob")
  /\ \E b \in Remains(RJ(n)) : blob' = [blob EXCEPT ![RJ(n)] = b]
  /\ RIdle(n)
  /\ UNCHANGED <<storeVars, disk, published, workVars>>

ExpireFinal(n) ==
  LET j == RJ(n) IN
  /\ RAt(n, "exfinal")
  /\ UpdateIfStatusOnly(j, "expired", [row[j] EXCEPT !.expiry = "never"])
  /\ RIdle(n)
  /\ UNCHANGED <<disk, blob, published, workVars>>

\* A store call raised: this job is given up until the next sweep.
ExpireRaises(n) ==
  /\ StoreFaults
  /\ RAt(n, "exread") \/ RAt(n, "exreserve") \/ RAt(n, "exfinal")
  /\ RIdle(n)
  /\ UNCHANGED <<storeVars, disk, blob, published, workVars>>

-------------------------------------------------------------------------------
\* DELETE /v1/jobs/<job>, on the ingress host.

deleteRest == <<th, mt, box, permits, orphans, upfail, crashes, published, rt>>

DGo(j, p) == del' = [del EXCEPT ![j] = p]

DeleteRead(j) ==
  /\ del[j] \in {"no", "asked"}
  /\ row[j].status \in Terminal
  /\ DGo(j, "tree")
  /\ UNCHANGED <<storeVars, disk, blob, deleteRest>>

DeleteTree(j) ==
  /\ del[j] = "tree"
  /\ SetTree(Home, j, NoTree)
  /\ DGo(j, "blob")
  /\ UNCHANGED <<storeVars, blob, deleteRest>>

DeleteBlob(j) ==
  /\ del[j] = "blob"
  /\ blob' = [blob EXCEPT ![j] = NoBlob]
  /\ DGo(j, "row")
  /\ UNCHANGED <<storeVars, disk, deleteRest>>

\* The blob store is unavailable: 503, and the row stays.
DeleteFails(j) ==
  /\ del[j] = "blob"
  /\ \E b \in Remains(j) : blob' = [blob EXCEPT ![j] = b]
  /\ DGo(j, "asked")
  /\ UNCHANGED <<storeVars, disk, deleteRest>>

DeleteRow(j) ==
  /\ del[j] = "row"
  /\ Delete(j)
  /\ DGo(j, "asked")
  /\ UNCHANGED <<disk, blob, deleteRest>>

-------------------------------------------------------------------------------
\* expires_at passes.
ExpiryPasses(j) ==
  /\ row[j].expiry = "set"
  /\ row' = [row EXCEPT ![j].expiry = "due"]
  /\ UNCHANGED <<issued, submitted, th, localVars, retVars>>

RetentionBegin(n, j) == RetryBegin(n, j) \/ ScratchBegin(n, j) \/ ExpireList(n, j)

RetentionStep(n) ==
  \/ RetryRead(n) \/ RetryMarker(n) \/ RetryProbe(n) \/ RetryBody(n) \/ RetrySeal(n)
  \/ RetryPutFails(n) \/ RetryFix(n) \/ RetryFixRaises(n) \/ RetryAfter(n)
  \/ RetryUndo(n) \/ RetryClear(n)
  \/ ScratchRead(n) \/ ScratchJudge(n) \/ ScratchPurge(n)
  \/ ExpireRead(n) \/ ExpireReserve(n) \/ ExpireTree(n) \/ ExpireBlob(n)
  \/ ExpireBlobFails(n) \/ ExpireFinal(n) \/ ExpireRaises(n)

DeleteStep(j) ==
  DeleteRead(j) \/ DeleteTree(j) \/ DeleteBlob(j) \/ DeleteFails(j) \/ DeleteRow(j)

\* The dispatcher's steps, on a node whose maintenance thread is not busy here.
DispatchStep ==
  \/ \E j \in Jobs : Submit(j) \/ Elapse(j)
  \/ \E t \in Threads : Claim(t) \/ ThreadStep(t)
  \/ \E n \in Nodes : MaintStep(n)
  \/ \E n \in Nodes, j \in Jobs :
       BoxExits(n, j) \/ (RAt(n, "idle") /\ MaintBegin(n, j))

\* A crash also ends the retention work of the node.
CrashAll(n) ==
  /\ Crash(n)
  /\ RIdle(n)
  /\ UNCHANGED del

RetentionNext ==
  \/ DispatchStep /\ UNCHANGED retVars
  \/ \E j \in Jobs : ExpiryPasses(j) \/ DeleteStep(j)
  \/ \E n \in Nodes : RetentionStep(n) \/ CrashAll(n)
  \/ \E n \in Nodes, j \in Jobs : RetentionBegin(n, j)

RetentionSpec == RetentionInit /\ [][RetentionNext]_allVars

\* A dispatch thread and a sweep that have begun go on, the maintenance loop comes
\* round to every tree and row, and the blob store is not down for ever.  That
\* an expiry passes is not assumed: a retained result must be stored without it.
RetentionFairness ==
  /\ \A t \in Threads : WF_allVars(ThreadStep(t) /\ UNCHANGED retVars)
  /\ \A n \in Nodes :
       /\ WF_allVars(MaintStep(n) /\ UNCHANGED retVars)
       /\ WF_allVars(RetentionStep(n))
       /\ SF_allVars(RetryBody(n)) /\ SF_allVars(RetrySeal(n))
       /\ SF_allVars(ExpireBlob(n))
  /\ \A n \in Nodes, j \in Jobs :
       SF_allVars(RetryBegin(n, j)) /\ SF_allVars(ExpireList(n, j))

RetentionFairSpec == RetentionSpec /\ RetentionFairness

-------------------------------------------------------------------------------
\* Every variable keeps its type.
RetentionTypeOK ==
  /\ TypeOK
  /\ rt \in [Nodes -> RetentionStates]
  /\ del \in [Jobs -> DeletePcs]

\* Nobody, and no sweep, destroys the only copy of a result that the row says is
\* retained, short of a client's DELETE.
LastCopySafe ==
  \A j \in Jobs : row[j].status = "failed" /\ row[j].kept /\ del[j] = "no" =>
    \E n \in Nodes : LET d == disk[n][j] IN
      d.marker = row[j].claim /\ d.by = row[j].claim /\ d.stage = "sealed"

\* Whether it was committed by its dispatcher or repaired by a sweep, and
\* whatever an expiry was about to do, a DONE job that nobody asked to delete
\* serves the artifacts and the seal of the attempt on its row.
RepairedServesItsResult ==
  \A j \in Jobs : row[j].status = "done" /\ del[j] = "no" =>
    blob[j].body = row[j].claim /\ blob[j].seal = row[j].claim

\* The sweep repairs a job only from the sealed tree of the very attempt whose
\* failure it undoes: a marker that outlived an attempt which was replaced never
\* turns the failure of a later one into DONE.
RepairIsOwn ==
  \A j \in Jobs :
    row[j].status = "failed" /\ row'[j].status = "done" /\ del[j] = "no" =>
      \E n \in Nodes :
        disk[n][j].by = row[j].claim /\ disk[n][j].stage = "sealed"

\* The retry a node may have under way for j, which could still write its bytes.
Retrying(j) == \E n \in Nodes :
  /\ RJ(n) = j
  /\ rt[n].pc \in {"rtmark", "rtprobe", "rtbody", "rtseal", "rtfix", "rtafter", "rtundo"}

\* An expired row that no sweep will select again has no result in the store
\* that a client, or another sweep, would take for complete.
ExpiredLeavesNoResult ==
  \A j \in Jobs :
    row[j].status = "expired" /\ row[j].expiry = "never" /\ ~Retrying(j)
      => blob[j].seal = NoClaim

\* A retained result does not stay where no client can reach it: it is uploaded
\* and its job repaired, unless the job expires or is deleted first.
RetainedResultStored ==
  \A j \in Jobs : row[j].status = "failed" /\ row[j].kept
                    ~> row[j].status # "failed" \/ del[j] # "no"

\* A finished job with an expiry is gone in the end, bytes included.
ExpiryCompletes ==
  \A j \in Jobs : Due(row[j]) ~> ~Due(row[j])
===============================================================================
