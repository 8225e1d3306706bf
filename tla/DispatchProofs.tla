---------------------------- MODULE DispatchProofs ----------------------------
(* Theorems about the dispatcher, for any number of nodes, threads, jobs,       *)
(* claims and crashes.                                                          *)
(*                                                                              *)
(* First what holds with owners of any speed.  Then what holds when its owners  *)
(* are prompt, that is, when no sweep judges a job whose owner is still at work *)
(* (SlowOwners = FALSE): a DONE job serves its own result, nobody deletes an    *)
(* input that is still needed, the permits of the gate are conserved,           *)
(* containers keep to its budget, and a result that could not be uploaded stays *)
(* on a disk.  There, first what a step may do to each variable; then the       *)
(* invariants, which follow from these effects alone.                           *)
EXTENDS Dispatch, FiniteSetTheorems, TLAPS

\* The type invariant, one predicate per group of variables, with the facts that
\* make it inductive: whoever is at work has a job in hand, and a job that is
\* queued or running has a fetch attempt left.
RowInv ==
  /\ row \in [Jobs -> Rows]
  /\ issued \in 0..MaxClaims
  /\ submitted \in 0..NJobs
  /\ AttemptsBounded

ThInv ==
  /\ th \in [Threads -> ThreadStates]
  /\ \A t \in Threads : th[t].pc # "idle" => th[t].job \in Jobs

MtInv ==
  /\ mt \in [Nodes -> MaintStates]
  /\ \A n \in Nodes : mt[n].pc # "idle" => mt[n].job \in Jobs

DiskInv == disk \in [Nodes -> [Jobs -> Trees]]
BoxInv == box \in [Nodes -> [Jobs -> ClaimIds]]
BlobInv == blob \in [Jobs -> Blobs]

GateInv ==
  /\ permits \in [Nodes -> Nat]
  /\ orphans \in [Nodes -> [Jobs -> ClaimIds]]
  /\ upfail \in [Nodes -> SUBSET Jobs]
  /\ crashes \in 0..MaxCrashes

PubInv == published \subseteq ClaimIds

TypeInv == RowInv /\ ThInv /\ MtInv /\ DiskInv /\ BoxInv /\ BlobInv /\ GateInv /\ PubInv

-------------------------------------------------------------------------------
\* What the writes of the model keep.

\* A compare-and-set with a well-formed row keeps the rows well-formed.
LEMMA CasKeepsRows ==
  ASSUME RowInv, NEW j \in Jobs, NEW st, NEW c, NEW r \in Rows,
         r.status \in {"queued", "running"} => r.attempts < MaxAttempts,
         UpdateIfStatus(j, st, c, r) \/ UpdateIfStatusOnly(j, st, r)
  PROVE  RowInv'
<1>1. row' = row \/ row' = [row EXCEPT ![j] = r]
  BY DEF UpdateIfStatus, UpdateIfStatusOnly
<1>2. issued' = issued /\ submitted' = submitted
  BY DEF UpdateIfStatus, UpdateIfStatusOnly
<1>3. row' \in [Jobs -> Rows]
  BY <1>1 DEF RowInv
<1>4. AttemptsBounded'
  BY <1>1 DEF RowInv, AttemptsBounded
<1> QED
  BY <1>2, <1>3, <1>4 DEF RowInv

\* A thread that is at work keeps its job when it moves on.
LEMMA GoKeepsThreads ==
  ASSUME ThInv, NEW t \in Threads, th[t].pc # "idle", NEW p \in ThreadPcs, Go(t, p)
  PROVE  ThInv'
  BY DEF ThInv, ThreadStates, Go

LEMMA IdleKeepsThreads ==
  ASSUME ThInv, NEW t \in Threads, th' = [th EXCEPT ![t] = IdleThread]
  PROVE  ThInv'
  BY JobStoreAssumption
     DEF ThInv, ThreadStates, IdleThread, ThreadPcs, ClaimIds, NoClaim

LEMMA TreeKept ==
  ASSUME DiskInv, NEW n \in Nodes, NEW j \in Jobs, NEW d \in Trees, SetTree(n, j, d)
  PROVE  DiskInv'
  BY DEF DiskInv, SetTree

LEMMA BoxKept ==
  ASSUME BoxInv, NEW n \in Nodes, NEW j \in Jobs, NEW c \in ClaimIds,
         box' = [box EXCEPT ![n][j] = c]
  PROVE  BoxInv'
  BY DEF BoxInv

LEMMA OrphanKept ==
  ASSUME GateInv, NEW n \in Nodes, NEW j \in Jobs, NEW c \in ClaimIds,
         orphans' = [orphans EXCEPT ![n][j] = c],
         UNCHANGED <<permits, upfail, crashes>>
  PROVE  GateInv'
  BY DEF GateInv

LEMMA MaintGoKept ==
  ASSUME MtInv, NEW n \in Nodes, mt[n].pc # "idle", NEW p \in MaintPcs, MaintGo(n, p)
  PROVE  MtInv'
  BY DEF MtInv, MaintStates, MaintGo

LEMMA MaintIdleKept ==
  ASSUME MtInv, NEW n \in Nodes, MaintIdle(n)
  PROVE  MtInv'
  BY JobStoreAssumption
     DEF MtInv, MaintStates, MaintIdle, IdleMaint, MaintPcs, ClaimIds, NoClaim, Ages,
         Fresh, PastStale, Runtimes

\* The row, claim and tree a thread at work refers to are well-formed.
LEMMA ThreadInHand ==
  ASSUME TypeInv, NEW t \in Threads, th[t].pc # "idle"
  PROVE  /\ J(t) \in Jobs /\ C(t) \in ClaimIds /\ N(t) \in Nodes
         /\ row[J(t)] \in Rows /\ Tree(t) \in Trees
         /\ th[t].attempts \in 0..(MaxAttempts - 1)
<1>1. J(t) \in Jobs /\ C(t) \in ClaimIds /\ th[t].attempts \in 0..(MaxAttempts - 1)
  BY DEF TypeInv, ThInv, ThreadStates, J, C
<1>2. N(t) \in Nodes
  BY DispatchAssumption DEF N
<1> QED
  BY <1>1, <1>2 DEF TypeInv, RowInv, DiskInv, Tree

LEMMA MaintInHand ==
  ASSUME TypeInv, NEW n \in Nodes, mt[n].pc # "idle"
  PROVE  /\ mt[n].job \in Jobs /\ mt[n].claim \in ClaimIds
         /\ row[mt[n].job] \in Rows /\ disk[n][mt[n].job] \in Trees
<1>1. mt[n].job \in Jobs /\ mt[n].claim \in ClaimIds
  BY DEF TypeInv, MtInv, MaintStates
<1> QED
  BY <1>1 DEF TypeInv, RowInv, DiskInv

\* The rows the clients write are well-formed, and none of them queues or runs
\* a job that has no attempt left.
LEMMA WrittenRows ==
  ASSUME NEW r \in Rows, NEW b \in BOOLEAN
  PROVE  /\ Failed(r, b) \in Rows /\ Failed(r, b).status = "failed"
         /\ Done(r) \in Rows /\ Done(r).status = "done"
         /\ Requeued(r, b) \in Rows /\ Requeued(r, b).attempts = r.attempts
<1> USE JobStoreAssumption DEF Rows, Statuses, Expiries
<1>1. ExpiresAt \in Expiries
  BY DEF ExpiresAt
<1>2. Failed(r, b) \in Rows /\ Failed(r, b).status = "failed"
  BY <1>1 DEF Failed
<1>3. Done(r) \in Rows /\ Done(r).status = "done"
  BY <1>1 DEF Done
<1>4. NoClaim \in ClaimIds /\ Fresh \in Ages /\ "none" \in Runtimes /\ "queued" \in Statuses
  BY DEF ClaimIds, NoClaim, Ages, Fresh, PastStale, Runtimes
<1> HIDE DEF Statuses, Expiries
<1>5. Requeued(r, b) \in Rows /\ Requeued(r, b).attempts = r.attempts
  BY <1>4 DEF Requeued
<1> QED
  BY <1>2, <1>3, <1>5

\* A failed fetch queues the job again only if an attempt is left.
LEMMA FetchFailedRow ==
  ASSUME NEW r \in Rows, NEW a \in 1..MaxAttempts
  PROVE  /\ FetchFailed(r, a) \in Rows
         /\ FetchFailed(r, a).status \in {"queued", "running"}
              => FetchFailed(r, a).attempts < MaxAttempts
<1> USE JobStoreAssumption
<1>1. CASE a >= MaxAttempts
  <2> DEFINE f == Failed(r, FALSE)
  <2>0. FALSE \in BOOLEAN /\ a \in 0..MaxAttempts
    OBVIOUS
  <2>1. f \in Rows /\ f.status = "failed"
    BY <2>0, WrittenRows, Zenon
  <2>2. FetchFailed(r, a) = [f EXCEPT !.attempts = a]
    BY <1>1 DEF FetchFailed
  <2> HIDE DEF f
  <2>3. [f EXCEPT !.attempts = a] \in Rows /\ [f EXCEPT !.attempts = a].status = "failed"
    BY <2>0, <2>1 DEF Rows
  <2> QED
    BY <2>2, <2>3
<1>2. CASE a < MaxAttempts
  <2> DEFINE q == [r EXCEPT !.status = "queued", !.claim = NoClaim, !.runtime = "none",
                            !.deferred = TRUE, !.attempts = a]
  <2>1. "queued" \in Statuses /\ NoClaim \in ClaimIds /\ "none" \in Runtimes
    BY DEF Statuses, ClaimIds, NoClaim, Runtimes
  <2>2. a \in 0..MaxAttempts
    OBVIOUS
  <2>3. q \in Rows
    BY <2>1, <2>2 DEF Rows
  <2>4. q.attempts = a
    BY DEF Rows
  <2>5. FetchFailed(r, a) = q
    BY <1>2 DEF FetchFailed
  <2> QED
    BY <1>2, <2>3, <2>4, <2>5
<1> QED
  BY <1>1, <1>2

LEMMA InitTyped == Init => TypeInv
<1> SUFFICES ASSUME Init PROVE TypeInv
  OBVIOUS
<1> USE JobStoreAssumption, DispatchAssumption DEF Init, NoClaim, ClaimIds
<1>1. RowInv
  BY DEF StoreInit, RowInv, AttemptsBounded, NoRow, Rows, Jobs, Statuses, Ages, Fresh,
         PastStale, Runtimes, Expiries
<1>2. ThInv
  BY DEF ThInv, IdleThread, ThreadStates, ThreadPcs
<1>3. MtInv
  BY DEF MtInv, IdleMaint, MaintStates, MaintPcs, Ages, Fresh, PastStale, Runtimes
<1>4. DiskInv
  BY DEF DiskInv, NoTree, Trees
<1>5. BoxInv /\ BlobInv /\ GateInv /\ PubInv
  BY DEF BoxInv, BlobInv, NoBlob, Blobs, GateInv, PubInv
<1> QED
  BY <1>1, <1>2, <1>3, <1>4, <1>5 DEF TypeInv

-------------------------------------------------------------------------------
\* The kinds of step a dispatch thread takes.

\* It only moves on.
LEMMA MoveTyped ==
  ASSUME TypeInv, NEW t \in Threads, ThInv', UNCHANGED <<storeVars, localVars>>
  PROVE  TypeInv'
  BY DEF TypeInv, RowInv, AttemptsBounded, MtInv, DiskInv, BoxInv, BlobInv, GateInv,
         PubInv, storeVars, localVars

\* It writes its job's row, if that still carries its claim.
LEMMA CasTyped ==
  ASSUME TypeInv, NEW t \in Threads, th[t].pc # "idle", NEW r \in Rows,
         UpdateIfStatus(J(t), "running", C(t), r),
         r.status \in {"queued", "running"} => r.attempts \in {0, row[J(t)].attempts},
         ThInv', UNCHANGED localVars
  PROVE  TypeInv'
<1>1. J(t) \in Jobs
  BY ThreadInHand
<1>2. RowInv'
  <2>1. CASE Matches(J(t), "running", C(t))
    <3>1. row[J(t)].attempts < MaxAttempts /\ 0 < MaxAttempts
      BY <1>1, <2>1, JobStoreAssumption DEF TypeInv, RowInv, AttemptsBounded, Matches
    <3> QED
      BY <1>1, <3>1, CasKeepsRows DEF TypeInv
  <2>2. CASE ~Matches(J(t), "running", C(t))
    BY <2>2 DEF TypeInv, RowInv, AttemptsBounded, UpdateIfStatus
  <2> QED
    BY <2>1, <2>2
<1> QED
  BY <1>2 DEF TypeInv, MtInv, DiskInv, BoxInv, BlobInv, GateInv, PubInv, localVars

\* It changes its job's scratch tree.
LEMMA TreeTyped ==
  ASSUME TypeInv, NEW t \in Threads, th[t].pc # "idle", NEW d \in Trees,
         SetTree(N(t), J(t), d), ThInv',
         UNCHANGED <<storeVars, mt, box, blob, permits, orphans, upfail, published,
                     crashes>>
  PROVE  TypeInv'
<1>1. J(t) \in Jobs /\ N(t) \in Nodes
  BY ThreadInHand
<1>2. DiskInv'
  BY <1>1, TreeKept DEF TypeInv
<1> QED
  BY <1>2 DEF TypeInv, RowInv, AttemptsBounded, MtInv, BoxInv, BlobInv, GateInv, PubInv,
              storeVars

\* A step of a dispatch thread keeps the types.
LEMMA ThreadStepTyped ==
  ASSUME TypeInv, NEW t \in Threads, Claim(t) \/ ThreadStep(t)
  PROVE  TypeInv'
<1> USE JobStoreAssumption, DispatchAssumption
<1> DEFINE InHand ==
       /\ th[t].pc # "idle"
       /\ J(t) \in Jobs /\ C(t) \in ClaimIds /\ N(t) \in Nodes
       /\ row[J(t)] \in Rows /\ Tree(t) \in Trees
       /\ th[t].attempts \in 0..(MaxAttempts - 1)
<1>a. th[t].pc # "idle" => InHand
  BY ThreadInHand
<1> HIDE DEF InHand
<1>1. CASE Reject(t)
  <2>1. InHand
    BY <1>1, <1>a DEF Reject, At
  <2>2. ThInv'
    BY <1>1, <2>1, GoKeepsThreads DEF InHand, TypeInv, Reject, ThreadPcs
  <2> QED
    BY <1>1, <2>2, MoveTyped DEF Reject
<1>2. CASE BoxDone(t)
  <2>1. InHand
    BY <1>2, <1>a DEF BoxDone, At
  <2>2. ThInv'
    BY <1>2, <2>1, GoKeepsThreads DEF InHand, TypeInv, BoxDone, ThreadPcs
  <2> QED
    BY <1>2, <2>2, MoveTyped DEF BoxDone
<1>3. CASE GuestDone(t)
  <2>1. InHand
    BY <1>3, <1>a DEF GuestDone, At
  <2>2. ThInv'
    BY <1>3, <2>1, GoKeepsThreads DEF InHand, TypeInv, GuestDone, ThreadPcs
  <2> QED
    BY <1>3, <2>2, MoveTyped DEF GuestDone
<1>4. CASE GuestFails(t)
  <2>1. InHand
    BY <1>4, <1>a DEF GuestFails, At
  <2>2. ThInv'
    BY <1>4, <2>1, GoKeepsThreads DEF InHand, TypeInv, GuestFails, ThreadPcs
  <2> QED
    BY <1>4, <2>2, MoveTyped DEF GuestFails
<1>5. CASE SealFails(t)
  <2>1. InHand
    BY <1>5, <1>a DEF SealFails, At
  <2>2. ThInv'
    BY <1>5, <2>1, GoKeepsThreads DEF InHand, TypeInv, SealFails, ThreadPcs
  <2> QED
    BY <1>5, <2>2, MoveTyped DEF SealFails
<1>6. CASE Check(t)
  <2>1. InHand
    BY <1>6, <1>a DEF Check, At
  <2>2. ThInv'
    BY <1>6, <2>1, GoKeepsThreads DEF InHand, TypeInv, Check, ThreadPcs
  <2> QED
    BY <1>6, <2>2, MoveTyped DEF Check
<1>7. CASE PutFails(t)
  <2>1. InHand
    BY <1>7, <1>a DEF PutFails, At
  <2>2. ThInv'
    BY <1>7, <2>1, GoKeepsThreads DEF InHand, TypeInv, PutFails, ThreadPcs
  <2> QED
    BY <1>7, <2>2, MoveTyped DEF PutFails
<1>8. CASE ReapCheck(t)
  <2>1. InHand
    BY <1>8, <1>a DEF ReapCheck, At
  <2>2. ThInv'
    BY <1>8, <2>1, GoKeepsThreads DEF InHand, TypeInv, ReapCheck, ThreadPcs
  <2> QED
    BY <1>8, <2>2, MoveTyped DEF ReapCheck
<1>9. CASE Raise(t)
  <2>1. InHand
    BY <1>9, <1>a DEF Raise, At
  <2>2. ThInv'
    BY <1>9, <2>1, GoKeepsThreads DEF InHand, TypeInv, Raise, ThreadPcs
  <2> QED
    BY <1>9, <2>2, MoveTyped DEF Raise
<1>10. CASE InRead(t)
  <2>1. InHand
    BY <1>10, <1>a DEF InRead, At
  <2>2. ThInv'
    BY <1>10, <2>1, GoKeepsThreads DEF InHand, TypeInv, InRead, ThreadPcs
  <2> QED
    BY <1>10, <2>2, MoveTyped DEF InRead
<1>11. CASE AdmitWarm(t)
  <2>1. InHand
    BY <1>11, <1>a DEF AdmitWarm, At
  <2>2. ThInv'
    <3>1. "stampw" \in ThreadPcs /\ "fail" \in ThreadPcs
      BY DEF ThreadPcs
    <3> QED
      BY <1>11, <2>1, <3>1 DEF InHand, TypeInv, ThInv, ThreadStates, J, AdmitWarm
  <2> QED
    BY <1>11, <2>2, MoveTyped DEF AdmitWarm
<1>12. CASE BoxOrphaned(t)
  <2>1. InHand
    BY <1>12, <1>a DEF BoxOrphaned, At
  <2>2. ThInv'
    <3>1. "stampw" \in ThreadPcs /\ "fail" \in ThreadPcs
      BY DEF ThreadPcs
    <3> QED
      BY <1>12, <2>1, <3>1 DEF InHand, TypeInv, ThInv, ThreadStates, J, BoxOrphaned
  <2> QED
    BY <1>12, <2>2, MoveTyped DEF BoxOrphaned
<1>13. CASE Commit(t)
  <2>1. InHand
    BY <1>13, <1>a DEF Commit, At
  <2>2. ThInv'
    BY <1>13, <2>1, GoKeepsThreads DEF InHand, TypeInv, Commit, ThreadPcs, Cas
  <2> QED
    BY <1>13, <2>1, <2>2, WrittenRows, CasTyped DEF InHand, Commit, Cas
<1>14. CASE Fail(t)
  <2>1. InHand
    BY <1>14, <1>a DEF Fail, At
  <2>2. ThInv'
    BY <1>14, <2>1, GoKeepsThreads DEF InHand, TypeInv, Fail, ThreadPcs, Cas
  <2> QED
    BY <1>14, <2>1, <2>2, WrittenRows, CasTyped DEF InHand, Fail, Cas
<1>15. CASE Keep(t)
  <2>1. InHand
    BY <1>15, <1>a DEF Keep, At
  <2>2. ThInv'
    BY <1>15, <2>1, GoKeepsThreads DEF InHand, TypeInv, Keep, ThreadPcs, Cas
  <2> QED
    BY <1>15, <2>1, <2>2, WrittenRows, CasTyped DEF InHand, Keep, Cas
<1>16. CASE StampWarm(t)
  <2>1. InHand
    BY <1>16, <1>a DEF StampWarm, At
  <2>2. ThInv'
    BY <1>16, <2>1, GoKeepsThreads DEF InHand, TypeInv, StampWarm, ThreadPcs, Cas
  <2>3. [row[J(t)] EXCEPT !.runtime = "warm"] \in Rows
    BY <2>1 DEF InHand, Rows, Runtimes
  <2> QED
    BY <1>16, <2>1, <2>2, <2>3, CasTyped DEF InHand, Rows, StampWarm, Cas
<1>17. CASE StampCold(t)
  <2>1. InHand
    BY <1>17, <1>a DEF StampCold, At
  <2>2. ThInv'
    BY <1>17, <2>1, GoKeepsThreads DEF InHand, TypeInv, StampCold, ThreadPcs, Cas
  <2>3. [row[J(t)] EXCEPT !.runtime = "cold"] \in Rows
    BY <2>1 DEF InHand, Rows, Runtimes
  <2> QED
    BY <1>17, <2>1, <2>2, <2>3, CasTyped DEF InHand, Rows, StampCold, Cas
<1>18. CASE Refresh(t)
  <2>1. InHand
    BY <1>18, <1>a DEF Refresh, At
  <2>2. ThInv'
    BY <1>18, <2>1, GoKeepsThreads DEF InHand, TypeInv, Refresh, ThreadPcs, Cas
  <2>3. [row[J(t)] EXCEPT !.age = Fresh] \in Rows
    BY <2>1 DEF InHand, Rows, Ages, Fresh, PastStale
  <2> QED
    BY <1>18, <2>1, <2>2, <2>3, CasTyped DEF InHand, Rows, Refresh, Cas
<1>19. CASE EgressDefer(t)
  <2>1. InHand
    BY <1>19, <1>a DEF EgressDefer, At
  <2>2. ThInv'
    BY <1>19, <2>1, GoKeepsThreads DEF InHand, TypeInv, EgressDefer, ThreadPcs
  <2> QED
    BY <1>19, <2>1, <2>2, WrittenRows, CasTyped DEF InHand, EgressDefer
<1>20. CASE NoHeadroom(t)
  <2>1. InHand
    BY <1>20, <1>a DEF NoHeadroom, At
  <2>2. ThInv'
    BY <1>20, IdleKeepsThreads DEF TypeInv, NoHeadroom
  <2> QED
    BY <1>20, <2>1, <2>2, WrittenRows, CasTyped DEF InHand, NoHeadroom
<1>21. CASE Refuse(t)
  <2>1. InHand
    BY <1>21, <1>a DEF Refuse, At
  <2>2. ThInv'
    BY <1>21, IdleKeepsThreads DEF TypeInv, Refuse
  <2> QED
    BY <1>21, <2>1, <2>2, WrittenRows, CasTyped DEF InHand, Refuse
<1>22. CASE FetchDrop(t)
  <2>1. InHand
    BY <1>22, <1>a DEF FetchDrop, At
  <2>2. ThInv'
    BY <1>22, <2>1, GoKeepsThreads DEF InHand, TypeInv, FetchDrop, ThreadPcs
  <2> QED
    BY <1>22, <2>1, <2>2, TreeTyped DEF InHand, FetchDrop, Trees
<1>23. CASE LaunchFails(t)
  <2>1. InHand
    BY <1>23, <1>a DEF LaunchFails, At
  <2>2. ThInv'
    BY <1>23, <2>1, GoKeepsThreads DEF InHand, TypeInv, LaunchFails, ThreadPcs
  <2> QED
    BY <1>23, <2>1, <2>2, TreeTyped DEF InHand, LaunchFails, Trees
<1>24. CASE InDel(t)
  <2>1. InHand
    BY <1>24, <1>a DEF InDel, At
  <2>2. ThInv'
    BY <1>24, <2>1, GoKeepsThreads DEF InHand, TypeInv, InDel, ThreadPcs
  <2> QED
    BY <1>24, <2>1, <2>2, TreeTyped DEF InHand, InDel, Trees
<1>25. CASE Unmark(t)
  <2>1. InHand
    BY <1>25, <1>a DEF Unmark, At
  <2>2. ThInv'
    BY <1>25, <2>1, GoKeepsThreads DEF InHand, TypeInv, Unmark, ThreadPcs
  <2> QED
    BY <1>25, <2>1, <2>2, TreeTyped DEF InHand, Unmark, Trees, ClaimIds, NoClaim
<1>26. CASE Seal(t)
  <2>1. InHand
    BY <1>26, <1>a DEF Seal, At
  <2>2. ThInv'
    BY <1>26, <2>1, GoKeepsThreads DEF InHand, TypeInv, Seal, ThreadPcs
  <2> QED
    BY <1>26, <2>1, <2>2, TreeTyped DEF InHand, Seal, Trees
<1>27. CASE PgDel(t)
  <2>1. InHand
    BY <1>27, <1>a DEF PgDel, At
  <2>2. ThInv'
    BY <1>27, IdleKeepsThreads DEF TypeInv, PgDel
  <2>3. NoTree \in Trees
    BY DEF NoTree, Trees, ClaimIds, NoClaim
  <2> QED
    BY <1>27, <2>1, <2>2, <2>3, TreeTyped DEF InHand, PgDel
<1>28. CASE AdmitCold(t)
  <2>1. InHand
    BY <1>28, <1>a DEF AdmitCold, At
  <2>2. ThInv'
    BY <1>28, <2>1, GoKeepsThreads DEF InHand, TypeInv, AdmitCold, ThreadPcs
  <2>3. GateInv'
    BY <1>28, <2>1 DEF InHand, TypeInv, GateInv, AdmitCold
  <2> QED
    BY <1>28, <2>2, <2>3 DEF TypeInv, AdmitCold, RowInv, MtInv, DiskInv,
       BoxInv, BlobInv, PubInv, AttemptsBounded, storeVars
<1>29. CASE Launch(t)
  <2>1. InHand
    BY <1>29, <1>a DEF Launch, At
  <2>2. ThInv'
    BY <1>29, <2>1, GoKeepsThreads DEF InHand, TypeInv, Launch, ThreadPcs
  <2>3. BoxInv'
    <3>1. box' = box \/ box' = [box EXCEPT ![N(t)][J(t)] = C(t)]
      BY <1>29 DEF Launch
    <3> QED
      BY <2>1, <3>1, BoxKept DEF InHand, TypeInv, BoxInv
  <2>4. DiskInv'
    BY <1>29, <2>1, TreeKept DEF InHand, TypeInv, Launch, Trees
  <2> QED
    BY <1>29, <2>2, <2>3, <2>4 DEF TypeInv, Launch, RowInv, MtInv, BlobInv,
       GateInv, PubInv, AttemptsBounded, storeVars
<1>30. CASE BoxKilled(t)
  <2>1. InHand
    BY <1>30, <1>a DEF BoxKilled, At
  <2>2. ThInv'
    BY <1>30, <2>1, GoKeepsThreads DEF InHand, TypeInv, BoxKilled, ThreadPcs
  <2>3. BoxInv'
    BY <1>30, <2>1 DEF InHand, TypeInv, BoxInv, BoxKilled, ClaimIds, NoClaim
  <2> QED
    BY <1>30, <2>2, <2>3 DEF TypeInv, BoxKilled, RowInv, MtInv, DiskInv,
       BlobInv, GateInv, PubInv, AttemptsBounded, storeVars
<1>31. CASE PutBody(t)
  <2>1. InHand
    BY <1>31, <1>a DEF PutBody, At
  <2>2. ThInv'
    BY <1>31, <2>1, GoKeepsThreads DEF InHand, TypeInv, PutBody, ThreadPcs
  <2>3. BlobInv'
    BY <1>31, <2>1 DEF InHand, TypeInv, BlobInv, PutBody, Blobs, Trees
  <2> QED
    BY <1>31, <2>2, <2>3 DEF TypeInv, PutBody, RowInv, MtInv, DiskInv, BoxInv,
       GateInv, PubInv, AttemptsBounded, storeVars
<1>32. CASE PutSeal(t)
  <2>1. InHand
    BY <1>32, <1>a DEF PutSeal, At
  <2>2. ThInv'
    BY <1>32, <2>1, GoKeepsThreads DEF InHand, TypeInv, PutSeal, ThreadPcs
  <2>3. BlobInv'
    BY <1>32, <2>1 DEF InHand, TypeInv, BlobInv, PutSeal, Blobs, Trees
  <2>4. PubInv'
    BY <1>32, <2>1 DEF InHand, TypeInv, PubInv, PutSeal
  <2> QED
    BY <1>32, <2>2, <2>3, <2>4 DEF TypeInv, PutSeal, RowInv, MtInv, DiskInv,
       BoxInv, GateInv, AttemptsBounded, storeVars
<1>33. CASE Reap(t)
  <2>1. InHand
    BY <1>33, <1>a DEF Reap, At
  <2>2. ThInv'
    BY <1>33, <2>1, GoKeepsThreads DEF InHand, TypeInv, Reap, ThreadPcs
  <2>3. BlobInv'
    BY <1>33, <2>1 DEF InHand, TypeInv, BlobInv, Reap, Blobs, NoBlob, NoClaim,
       ClaimIds
  <2> QED
    BY <1>33, <2>2, <2>3 DEF TypeInv, Reap, RowInv, MtInv, DiskInv, BoxInv,
       GateInv, PubInv, AttemptsBounded, storeVars
<1>34. CASE Mark(t)
  <2>1. InHand
    BY <1>34, <1>a DEF Mark, At
  <2>2. ThInv'
    BY <1>34, <2>1, GoKeepsThreads DEF InHand, TypeInv, Mark, ThreadPcs
  <2>3. DiskInv'
    BY <1>34, <2>1, TreeKept DEF InHand, TypeInv, Mark, Trees
  <2>4. GateInv'
    BY <1>34, <2>1 DEF InHand, TypeInv, GateInv, Mark
  <2> QED
    BY <1>34, <2>2, <2>3, <2>4 DEF TypeInv, Mark, RowInv, MtInv, BoxInv,
       BlobInv, PubInv, AttemptsBounded, storeVars
<1>35. CASE Release(t)
  <2>1. InHand
    BY <1>35, <1>a DEF Release, At
  <2>2. ThInv'
    BY <1>35, <2>1, GoKeepsThreads DEF InHand, TypeInv, Release, ThreadPcs
  <2>3. DiskInv'
    <3>1. CASE th[t].orphan
      BY <1>35, <2>1, <3>1, TreeKept DEF InHand, TypeInv, Release, Trees
    <3>2. CASE ~th[t].orphan
      BY <1>35, <3>2 DEF TypeInv, DiskInv, Release
    <3> QED
      BY <3>1, <3>2
  <2>4. GateInv'
    <3>1. CASE th[t].orphan
      BY <1>35, <2>1, <3>1, OrphanKept DEF InHand, TypeInv, Release
    <3>2. CASE ~th[t].orphan
      BY <1>35, <2>1, <3>2 DEF InHand, TypeInv, GateInv, Release, Returned
    <3> QED
      BY <3>1, <3>2
  <2> QED
    BY <1>35, <2>2, <2>3, <2>4 DEF TypeInv, Release, RowInv, MtInv, BoxInv,
       BlobInv, PubInv, AttemptsBounded, storeVars
<1>36. CASE PgRead(t)
  <2>1. InHand
    BY <1>36, <1>a DEF PgRead, At
  <2>2. ThInv'
    BY <1>36, <2>1, GoKeepsThreads, IdleKeepsThreads DEF InHand, TypeInv,
       PgRead, ThreadPcs
  <2>3. GateInv'
    BY <1>36, <2>1 DEF InHand, TypeInv, GateInv, PgRead
  <2> QED
    BY <1>36, <2>2, <2>3 DEF TypeInv, PgRead, RowInv, MtInv, DiskInv, BoxInv,
       BlobInv, PubInv, AttemptsBounded, storeVars
<1>37. CASE Fetch(t)
  <2>1. InHand
    BY <1>37, <1>a DEF Fetch, At
  <2>2. ThInv'
    BY <1>37, <2>1, GoKeepsThreads DEF InHand, TypeInv, Fetch, ThreadPcs
  <2>3. DiskInv'
    BY <1>37, <2>1, TreeKept DEF InHand, TypeInv, Fetch, Trees
  <2>4. RowInv'
    <3>1. [row[J(t)] EXCEPT !.attempts = 0] \in Rows
      BY <2>1 DEF InHand, Rows
    <3>2. CASE ~Tree(t).input /\ th[t].attempts > 0
      BY <1>37, <2>1, <3>1, <3>2, CasKeepsRows DEF InHand, TypeInv, Fetch, Rows
    <3>3. CASE ~(~Tree(t).input /\ th[t].attempts > 0)
      BY <1>37, <3>3 DEF TypeInv, RowInv, AttemptsBounded, Fetch, storeVars
    <3> QED
      BY <3>2, <3>3
  <2> QED
    BY <1>37, <2>2, <2>3, <2>4 DEF TypeInv, Fetch, MtInv, BoxInv, BlobInv,
       GateInv, PubInv
<1>38. CASE FetchFails(t)
  <2>1. InHand
    BY <1>38, <1>a DEF FetchFails, At
  <2>2. ThInv'
    BY <1>38, <2>1, GoKeepsThreads DEF InHand, TypeInv, FetchFails, ThreadPcs
  <2>3. th[t].attempts + 1 \in 1..MaxAttempts
    BY <2>1 DEF InHand
  <2>4. RowInv'
    BY <1>38, <2>1, <2>3, FetchFailedRow, CasKeepsRows DEF InHand, TypeInv, FetchFails
  <2> QED
    BY <1>38, <2>2, <2>4 DEF TypeInv, FetchFails, MtInv, DiskInv, BoxInv,
       BlobInv, GateInv, PubInv, localVars
<1>39. CASE Claim(t)
  <2>1. PICK j \in Jobs :
          /\ ClaimNext(Serves[t], j)
          /\ th' = [th EXCEPT ![t] =
                      [pc |-> "admit", job |-> j, claim |-> issued + 1,
                       attempts |-> row[j].attempts, warm |-> FALSE,
                       orphan |-> FALSE]]
    BY <1>39 DEF Claim
  <2>2. /\ row[j] \in Rows /\ row[j].status = "queued"
        /\ row[j].attempts \in 0..(MaxAttempts - 1)
        /\ issued + 1 \in ClaimIds /\ issued + 1 \in 0..MaxClaims
    BY <2>1 DEF ClaimNext, Claimable, TypeInv, RowInv, AttemptsBounded, Rows, ClaimIds
  <2>3. ThInv'
    BY <2>1, <2>2 DEF TypeInv, ThInv, ThreadStates, ThreadPcs, Jobs
  <2>4. RowInv'
    <3>1. [row[j] EXCEPT !.status = "running", !.claim = issued + 1, !.age = Fresh] \in Rows
      <4>1. "running" \in Statuses /\ Fresh \in Ages
        BY DEF Statuses, Ages, Fresh, PastStale
      <4> QED
        BY <2>2, <4>1 DEF Rows
    <3> QED
      BY <2>1, <2>2, <3>1 DEF TypeInv, RowInv, AttemptsBounded, ClaimNext, Rows
  <2> QED
    BY <1>39, <2>3, <2>4 DEF TypeInv, Claim, MtInv, DiskInv, BoxInv, BlobInv,
       GateInv, PubInv, localVars
<1> QED
  BY <1>1, <1>2, <1>3, <1>4, <1>5, <1>6, <1>7, <1>8, <1>9, <1>10, <1>11, <1>12,
     <1>13, <1>14, <1>15, <1>16, <1>17, <1>18, <1>19, <1>20, <1>21, <1>22, <1>23,
     <1>24, <1>25, <1>26, <1>27, <1>28, <1>29, <1>30, <1>31, <1>32, <1>33, <1>34,
     <1>35, <1>36, <1>37, <1>38, <1>39 DEF ThreadStep

-------------------------------------------------------------------------------
\* A step of a maintenance thread keeps the types.
LEMMA MaintStepTyped ==
  ASSUME TypeInv, NEW n \in Nodes, MaintStep(n)
  PROVE  TypeInv'
<1> USE JobStoreAssumption, DispatchAssumption
<1>a. mt[n].pc # "idle"
  BY DEF MaintStep, SweepWarm, SweepPs, SweepSkip, SweepRequeue, ReconcilePs,
         ReconcilePop, ReconcileRead, ReconcileDel
<1>b. /\ mt[n].job \in Jobs /\ mt[n].claim \in ClaimIds
      /\ row[mt[n].job] \in Rows /\ disk[n][mt[n].job] \in Trees
  BY <1>a, MaintInHand
<1>1. CASE SweepWarm(n)
  <2>1. RowInv'
    BY <1>1, <1>b, WrittenRows, CasKeepsRows DEF TypeInv, SweepWarm
  <2>2. MtInv'
    BY <1>1, MaintIdleKept DEF TypeInv, SweepWarm
  <2>3. DiskInv'
    BY <1>1, <1>b, TreeKept DEF TypeInv, SweepWarm, Trees
  <2> QED
    BY <1>1, <2>1, <2>2, <2>3 DEF TypeInv, SweepWarm, ThInv, BoxInv, BlobInv, GateInv, PubInv
<1>2. CASE SweepPs(n)
  <2>1. MtInv'
    BY <1>2, <1>a, MaintGoKept, MaintIdleKept DEF TypeInv, SweepPs, MaintPcs
  <2> QED
    BY <1>2, <2>1 DEF TypeInv, SweepPs, RowInv, AttemptsBounded, storeVars, ThInv, DiskInv,
       BoxInv, BlobInv, GateInv, PubInv
<1>3. CASE SweepSkip(n)
  <2>1. MtInv'
    BY <1>3, MaintIdleKept DEF TypeInv, SweepSkip
  <2> QED
    BY <1>3, <2>1 DEF TypeInv, SweepSkip, RowInv, AttemptsBounded, storeVars, ThInv, DiskInv,
       BoxInv, BlobInv, GateInv, PubInv
<1>4. CASE SweepRequeue(n)
  <2> DEFINE j == mt[n].job
  <2>1. RowInv'
    <3>1. CASE Matches(j, "running", mt[n].claim)
      <4>1. row[j].attempts < MaxAttempts
        BY <1>b, <3>1 DEF TypeInv, RowInv, AttemptsBounded, Matches
      <4>2. row[j].deferred \in BOOLEAN
        BY <1>b DEF Rows
      <4>3. /\ Requeued(row[j], row[j].deferred) \in Rows
            /\ Requeued(row[j], row[j].deferred).attempts = row[j].attempts
        BY <1>b, <4>2, WrittenRows, Zenon
      <4> QED
        BY <1>4, <1>b, <4>1, <4>3, CasKeepsRows DEF TypeInv, SweepRequeue
    <3>2. CASE ~Matches(j, "running", mt[n].claim)
      BY <1>4, <3>2 DEF TypeInv, RowInv, AttemptsBounded, SweepRequeue, UpdateIfStatus
    <3> QED
      BY <3>1, <3>2
  <2>2. MtInv'
    BY <1>4, MaintIdleKept DEF TypeInv, SweepRequeue
  <2> QED
    BY <1>4, <2>1, <2>2 DEF TypeInv, SweepRequeue, ThInv, DiskInv, BoxInv, BlobInv, GateInv,
       PubInv
<1>5. CASE ReconcilePs(n)
  <2>1. MtInv'
    BY <1>5, <1>a, MaintGoKept, MaintIdleKept DEF TypeInv, ReconcilePs, MaintPcs
  <2> QED
    BY <1>5, <2>1 DEF TypeInv, ReconcilePs, RowInv, AttemptsBounded, storeVars, ThInv,
       DiskInv, BoxInv, BlobInv, GateInv, PubInv
<1>6. CASE ReconcilePop(n)
  <2>1. orphans[n][mt[n].job] \in ClaimIds
    BY <1>b DEF TypeInv, GateInv
  <2>2. MtInv'
    <3>1. "rcread" \in MaintPcs
      BY DEF MaintPcs
    <3> QED
      BY <1>6, <1>b, <2>1, <3>1 DEF TypeInv, MtInv, MaintStates, ReconcilePop
  <2>3. GateInv'
    <3>1. NoClaim \in ClaimIds
      BY DEF NoClaim, ClaimIds
    <3>2. permits' \in [Nodes -> Nat]
      BY <1>6 DEF TypeInv, GateInv, ReconcilePop, Returned
    <3>3. orphans' \in [Nodes -> [Jobs -> ClaimIds]]
      BY <1>6, <1>b, <3>1 DEF TypeInv, GateInv, ReconcilePop
    <3> QED
      BY <1>6, <3>2, <3>3 DEF TypeInv, GateInv, ReconcilePop
  <2>4. DiskInv'
    BY <1>6, <1>b, TreeKept DEF TypeInv, ReconcilePop, Trees
  <2> QED
    BY <1>6, <2>2, <2>3, <2>4 DEF TypeInv, ReconcilePop, RowInv, AttemptsBounded, storeVars,
       ThInv, BoxInv, BlobInv, PubInv
<1>7. CASE ReconcileRead(n)
  <2>1. MtInv'
    BY <1>7, <1>a, MaintGoKept, MaintIdleKept DEF TypeInv, ReconcileRead, MaintPcs
  <2>2. GateInv'
    BY <1>7 DEF TypeInv, GateInv, ReconcileRead
  <2> QED
    BY <1>7, <2>1, <2>2 DEF TypeInv, ReconcileRead, RowInv, AttemptsBounded, storeVars, ThInv,
       DiskInv, BoxInv, BlobInv, PubInv
<1>8. CASE ReconcileDel(n)
  <2>1. MtInv'
    BY <1>8, MaintIdleKept DEF TypeInv, ReconcileDel
  <2>2. NoTree \in Trees
    BY DEF NoTree, Trees, ClaimIds, NoClaim
  <2>3. DiskInv'
    BY <1>8, <1>b, <2>2, TreeKept DEF TypeInv, ReconcileDel
  <2> QED
    BY <1>8, <2>1, <2>3 DEF TypeInv, ReconcileDel, RowInv, AttemptsBounded, storeVars, ThInv,
       BoxInv, BlobInv, GateInv, PubInv
<1> QED
  BY <1>1, <1>2, <1>3, <1>4, <1>5, <1>6, <1>7, <1>8 DEF MaintStep

\* So does the start of a maintenance pass.
LEMMA MaintBeginTyped ==
  ASSUME TypeInv, NEW n \in Nodes, NEW j \in Jobs, MaintBegin(n, j)
  PROVE  TypeInv'
<1> USE JobStoreAssumption, DispatchAssumption
<1>a. row[j] \in Rows /\ disk[n][j] \in Trees
  BY DEF TypeInv, RowInv, DiskInv
<1>1. CASE SweepList(n, j)
  <2>1. MtInv'
    <3>1. "judge" \in MaintPcs /\ j \in 0..NJobs
      BY DEF MaintPcs, Jobs
    <3> QED
      BY <1>1, <1>a, <3>1 DEF TypeInv, MtInv, MaintStates, SweepList, Rows
  <2> QED
    BY <1>1, <2>1 DEF TypeInv, SweepList, RowInv, AttemptsBounded, storeVars, ThInv, DiskInv,
       BoxInv, BlobInv, GateInv, PubInv
<1>2. CASE FailStaleQueued(n, j)
  <2>1. RowInv'
    BY <1>2, <1>a, WrittenRows, CasKeepsRows DEF TypeInv, FailStaleQueued
  <2>2. DiskInv'
    BY <1>2, <1>a, TreeKept DEF TypeInv, FailStaleQueued, Trees
  <2> QED
    BY <1>2, <2>1, <2>2 DEF TypeInv, FailStaleQueued, ThInv, MtInv, BoxInv, BlobInv, GateInv,
       PubInv
<1>3. CASE ReconcileList(n, j)
  <2>1. MtInv'
    <3>1. "rcps" \in MaintPcs /\ j \in 0..NJobs
      BY DEF MaintPcs, Jobs
    <3>2. IdleMaint \in MaintStates
      BY DEF IdleMaint, MaintStates, MaintPcs, ClaimIds, NoClaim, Ages, Fresh, PastStale,
             Runtimes
    <3>3. [IdleMaint EXCEPT !.pc = "rcps", !.job = j] \in MaintStates
      BY <3>1, <3>2 DEF MaintStates
    <3>4. [IdleMaint EXCEPT !.pc = "rcps", !.job = j].job = j
      BY <3>2 DEF MaintStates
    <3> HIDE DEF IdleMaint
    <3> QED
      BY <1>3, <3>3, <3>4 DEF TypeInv, MtInv, ReconcileList
  <2> QED
    BY <1>3, <2>1 DEF TypeInv, ReconcileList, RowInv, AttemptsBounded, storeVars, ThInv,
       DiskInv, BoxInv, BlobInv, GateInv, PubInv
<1> QED
  BY <1>1, <1>2, <1>3 DEF MaintBegin

\* A submission, the passing of time, the end of a container, a crash.
LEMMA OutsideTyped ==
  ASSUME TypeInv,
         \/ \E j \in Jobs : Submit(j) \/ Elapse(j)
         \/ \E n \in Nodes : Crash(n)
         \/ \E n \in Nodes, j \in Jobs : BoxExits(n, j)
  PROVE  TypeInv'
<1> USE JobStoreAssumption, DispatchAssumption
<1>1. ASSUME NEW j \in Jobs, Submit(j) PROVE TypeInv'
  <2>1. NewRow \in Rows /\ NewRow.attempts = 0
    <3>1. /\ NoClaim \in ClaimIds /\ Fresh \in Ages /\ "none" \in Runtimes
          /\ "never" \in Expiries /\ "queued" \in Statuses /\ "absent" \in Statuses
      BY DEF ClaimIds, NoClaim, Ages, Fresh, PastStale, Runtimes, Expiries, Statuses
    <3>2. NoRow \in Rows /\ NoRow.attempts = 0
      BY <3>1 DEF NoRow, Rows
    <3> QED
      BY <3>1, <3>2 DEF NewRow, Rows
  <2>2. RowInv'
    BY <1>1, <2>1 DEF TypeInv, RowInv, AttemptsBounded, Submit, Create, Jobs
  <2>3. DiskInv'
    <3>1. disk[Home][j] \in Trees
      BY DEF TypeInv, DiskInv
    <3> QED
      BY <1>1, <3>1, TreeKept DEF TypeInv, Submit, Trees
  <2> QED
    BY <1>1, <2>2, <2>3 DEF TypeInv, Submit, ThInv, MtInv, BoxInv, BlobInv, GateInv, PubInv
<1>2. ASSUME NEW j \in Jobs, Elapse(j) PROVE TypeInv'
  <2>a. row[j] \in Rows
    BY DEF TypeInv, RowInv
  <2>1. CASE Age(j)
    <3>1. row[j].age + 1 \in Ages
      BY <2>1, <2>a DEF Age, Rows, Ages, Fresh, PastStale
    <3>2. [row[j] EXCEPT !.age = @ + 1] \in Rows
      BY <2>a, <3>1 DEF Rows
    <3>3. row' = [row EXCEPT ![j] = [row[j] EXCEPT !.age = @ + 1]]
      BY <2>1 DEF Age
    <3>4. RowInv'
      BY <2>1, <2>a, <3>2, <3>3 DEF TypeInv, RowInv, AttemptsBounded, Age, Rows
    <3> QED
      BY <1>2, <3>4 DEF TypeInv, Elapse, ThInv, MtInv, DiskInv, BoxInv, BlobInv, GateInv,
         PubInv, localVars
  <2>2. CASE BecomeClaimable(j)
    <3>1. [row[j] EXCEPT !.deferred = FALSE] \in Rows
      BY <2>a DEF Rows
    <3>2. row' = [row EXCEPT ![j] = [row[j] EXCEPT !.deferred = FALSE]]
      BY <2>2 DEF BecomeClaimable
    <3>3. RowInv'
      BY <2>2, <2>a, <3>1, <3>2 DEF TypeInv, RowInv, AttemptsBounded, BecomeClaimable, Rows
    <3> QED
      BY <1>2, <3>3 DEF TypeInv, Elapse, ThInv, MtInv, DiskInv, BoxInv, BlobInv, GateInv,
         PubInv, localVars
  <2> QED
    BY <1>2, <2>1, <2>2 DEF Elapse
<1>3. ASSUME NEW n \in Nodes, Crash(n) PROVE TypeInv'
  <2>1. ThInv'
    BY <1>3 DEF TypeInv, ThInv, Crash, IdleThread, ThreadStates, ThreadPcs, ClaimIds, NoClaim
  <2>2. MtInv'
    BY <1>3, MaintIdleKept DEF TypeInv, Crash
  <2>3. GateInv'
    BY <1>3 DEF TypeInv, GateInv, Crash, ClaimIds, NoClaim
  <2> QED
    BY <1>3, <2>1, <2>2, <2>3 DEF TypeInv, Crash, RowInv, AttemptsBounded, storeVars, DiskInv,
       BoxInv, BlobInv, PubInv
<1>4. ASSUME NEW n \in Nodes, NEW j \in Jobs, BoxExits(n, j) PROVE TypeInv'
  <2>1. disk[n][j] \in Trees /\ NoClaim \in ClaimIds
    BY DEF TypeInv, DiskInv, NoClaim, ClaimIds
  <2>2. DiskInv'
    BY <1>4, <2>1, TreeKept DEF TypeInv, BoxExits, Trees
  <2>3. BoxInv'
    BY <1>4, <2>1, BoxKept DEF TypeInv, BoxExits
  <2> QED
    BY <1>4, <2>2, <2>3 DEF TypeInv, BoxExits, RowInv, AttemptsBounded, storeVars, ThInv,
       MtInv, BlobInv, GateInv, PubInv
<1> QED
  BY <1>1, <1>2, <1>3, <1>4

LEMMA NextTyped == TypeInv /\ [Next]_vars => TypeInv'
<1> SUFFICES ASSUME TypeInv, [Next]_vars PROVE TypeInv'
  OBVIOUS
<1>1. CASE Next
  BY <1>1, ThreadStepTyped, MaintStepTyped, MaintBeginTyped, OutsideTyped DEF Next
<1>2. CASE UNCHANGED vars
  BY <1>2 DEF vars, TypeInv, RowInv, AttemptsBounded, ThInv, MtInv, DiskInv, BoxInv, BlobInv,
     GateInv, PubInv
<1> QED
  BY <1>1, <1>2

\* Every reachable state of the dispatcher is well-typed, and no job is queued or
\* run again once its fetch attempts are used up.
THEOREM TypeCorrect == Spec => []TypeInv
  BY InitTyped, NextTyped, PTL DEF Spec

\* Every variable keeps its type.
THEOREM Typed == Spec => []TypeOK
<1>1. TypeInv => TypeOK
  BY DEF TypeInv, TypeOK, RowInv, ThInv, MtInv, DiskInv, BoxInv, BlobInv, GateInv, PubInv
<1> QED
  BY <1>1, TypeCorrect, PTL

\* MAX_MATERIALISE_ATTEMPTS bounds the fetch attempts of a job over all its
\* claims: once they are used up the job is neither queued nor running.
THEOREM Bounded == Spec => []AttemptsBounded
<1>1. TypeInv => AttemptsBounded
  BY DEF TypeInv, RowInv
<1> QED
  BY <1>1, TypeCorrect, PTL

-------------------------------------------------------------------------------
\* What a step does to the job store.

\* Row j, and nothing else of the store, changes, to status st under claim c.
Becomes(j, st, c) ==
  /\ \E r \in Rows : row' = [row EXCEPT ![j] = r] /\ r.status = st /\ r.claim = c
  /\ UNCHANGED <<issued, submitted>>

StoreEffect ==
  \/ UNCHANGED storeVars
  \/ \E j \in Jobs : Create(j)
  \/ \E j \in Jobs, S \in SUBSET Jobs : ClaimNext(S, j)
  \/ \E j \in Jobs : Becomes(j, row[j].status, row[j].claim)
  \/ \E j \in Jobs : row[j].status = "running" /\ Becomes(j, "queued", NoClaim)
  \/ \E j \in Jobs : /\ row[j].status \in {"queued", "running"}
                     /\ Becomes(j, "failed", row[j].claim)
  \/ \E j \in Jobs, t \in Threads :
       /\ th[t].pc = "commit" /\ th[t].claim = row[j].claim
       /\ row[j].status = "running"
       /\ Becomes(j, "done", row[j].claim)

\* A claim-fenced write changes only a row that runs under that claim.
LEMMA CasEffect ==
  ASSUME NEW j \in Jobs, NEW c, NEW r \in Rows, UpdateIfStatus(j, "running", c, r)
  PROVE  \/ UNCHANGED storeVars
         \/ /\ row[j].status = "running" /\ row[j].claim = c
            /\ Becomes(j, r.status, r.claim)
  BY DEF UpdateIfStatus, Matches, Becomes, storeVars

LEMMA FailedClaim ==
  ASSUME NEW r \in Rows, NEW b \in BOOLEAN
  PROVE  Failed(r, b) \in Rows /\ Failed(r, b).status = "failed" /\ Failed(r, b).claim = r.claim
  BY WrittenRows DEF Failed, Rows

LEMMA DoneClaim ==
  ASSUME NEW r \in Rows
  PROVE  Done(r) \in Rows /\ Done(r).status = "done" /\ Done(r).claim = r.claim
<1>1. FALSE \in BOOLEAN
  OBVIOUS
<1>2. Done(r) \in Rows /\ Done(r).status = "done"
  BY <1>1, WrittenRows, Zenon
<1> QED
  BY <1>2 DEF Done, Rows

LEMMA RequeuedClaim ==
  ASSUME NEW r \in Rows, NEW b \in BOOLEAN
  PROVE  /\ Requeued(r, b) \in Rows
         /\ Requeued(r, b).status = "queued" /\ Requeued(r, b).claim = NoClaim
  BY WrittenRows DEF Requeued, Rows

LEMMA ThreadEffect ==
  ASSUME TypeInv, NEW t \in Threads, Claim(t) \/ ThreadStep(t)
  PROVE  StoreEffect
<1> USE JobStoreAssumption, DispatchAssumption
<1>a. th[t].pc # "idle" => J(t) \in Jobs /\ C(t) \in ClaimIds /\ row[J(t)] \in Rows
                           /\ th[t].attempts \in 0..(MaxAttempts - 1)
  BY ThreadInHand
<1>b. TRUE \in BOOLEAN /\ FALSE \in BOOLEAN
  OBVIOUS
<1>1. CASE \/ AdmitWarm(t) \/ AdmitCold(t) \/ FetchDrop(t) \/ Reject(t) \/ Launch(t)
           \/ LaunchFails(t) \/ BoxDone(t) \/ BoxKilled(t) \/ BoxOrphaned(t)
           \/ GuestDone(t) \/ GuestFails(t) \/ Seal(t) \/ SealFails(t) \/ Check(t)
           \/ PutBody(t) \/ PutSeal(t) \/ PutFails(t) \/ ReapCheck(t) \/ Reap(t)
           \/ Mark(t) \/ Unmark(t) \/ Raise(t) \/ Release(t) \/ InRead(t) \/ InDel(t)
           \/ PgRead(t) \/ PgDel(t)
  BY <1>1 DEF StoreEffect, AdmitWarm, AdmitCold, FetchDrop, Reject, Launch, LaunchFails,
     BoxDone, BoxKilled, BoxOrphaned, GuestDone, GuestFails, Seal, SealFails, Check, PutBody,
     PutSeal, PutFails, ReapCheck, Reap, Mark, Unmark, Raise, Release, InRead, InDel, PgRead,
     PgDel
<1>2. CASE Claim(t)
  <2>1. PICK j \in Jobs : ClaimNext(Serves[t], j)
    BY <1>2 DEF Claim
  <2> QED
    BY <2>1 DEF StoreEffect
<1>3. CASE Refuse(t)
  <2>1. PICK b \in BOOLEAN : UpdateIfStatus(J(t), "running", C(t), Requeued(row[J(t)], b))
    BY <1>3 DEF Refuse
  <2>2. /\ J(t) \in Jobs /\ Requeued(row[J(t)], b) \in Rows
        /\ Requeued(row[J(t)], b).claim = NoClaim /\ Requeued(row[J(t)], b).status = "queued"
    BY <1>3, <1>a, RequeuedClaim DEF Refuse, At
  <2> QED
    BY <2>1, <2>2, CasEffect DEF StoreEffect
<1>4. CASE NoHeadroom(t) \/ EgressDefer(t)
  <2>1. PICK b \in BOOLEAN : UpdateIfStatus(J(t), "running", C(t), Requeued(row[J(t)], b))
    BY <1>4, <1>b DEF NoHeadroom, EgressDefer
  <2>2. J(t) \in Jobs /\ row[J(t)] \in Rows
    BY <1>4, <1>a DEF NoHeadroom, EgressDefer, At
  <2>3. /\ Requeued(row[J(t)], b) \in Rows
        /\ Requeued(row[J(t)], b).claim = NoClaim
        /\ Requeued(row[J(t)], b).status = "queued"
    BY <2>2, RequeuedClaim
  <2> QED
    BY <2>1, <2>2, <2>3, CasEffect DEF StoreEffect
<1>5. CASE Keep(t) \/ Fail(t)
  <2>1. PICK b \in BOOLEAN : UpdateIfStatus(J(t), "running", C(t), Failed(row[J(t)], b))
    BY <1>5, <1>b DEF Keep, Fail, Cas
  <2>2. J(t) \in Jobs /\ row[J(t)] \in Rows
    BY <1>5, <1>a DEF Keep, Fail, At
  <2>3. /\ Failed(row[J(t)], b) \in Rows /\ Failed(row[J(t)], b).status = "failed"
        /\ Failed(row[J(t)], b).claim = row[J(t)].claim
    BY <2>2, FailedClaim
  <2> QED
    BY <2>1, <2>2, <2>3, CasEffect DEF StoreEffect
<1>6. CASE Commit(t)
  <2>1. UpdateIfStatus(J(t), "running", C(t), Done(row[J(t)])) /\ th[t].pc = "commit"
    BY <1>6 DEF Commit, Cas, At
  <2>2. J(t) \in Jobs /\ row[J(t)] \in Rows
    BY <1>a, <2>1
  <2>3. /\ Done(row[J(t)]) \in Rows /\ Done(row[J(t)]).status = "done"
        /\ Done(row[J(t)]).claim = row[J(t)].claim
    BY <2>2, DoneClaim
  <2> QED
    BY <2>1, <2>2, <2>3, CasEffect DEF StoreEffect, C
<1>7. CASE StampWarm(t) \/ StampCold(t) \/ Refresh(t)
  <2>1. J(t) \in Jobs /\ row[J(t)] \in Rows
    BY <1>7, <1>a DEF StampWarm, StampCold, Refresh, At
  <2>2. PICK r : /\ UpdateIfStatus(J(t), "running", C(t), r)
                 /\ \/ \E x \in Runtimes : r = [row[J(t)] EXCEPT !.runtime = x]
                    \/ \E y \in Ages : r = [row[J(t)] EXCEPT !.age = y]
    <3>1. "warm" \in Runtimes /\ "cold" \in Runtimes /\ Fresh \in Ages
      BY DEF Runtimes, Ages, Fresh, PastStale
    <3> QED
      BY <1>7, <3>1, Zenon DEF StampWarm, StampCold, Refresh, Cas
  <2>3. r \in Rows /\ r.status = row[J(t)].status /\ r.claim = row[J(t)].claim
    BY <2>1, <2>2 DEF Rows
  <2> QED
    BY <2>1, <2>2, <2>3, CasEffect DEF StoreEffect
<1>8. CASE Fetch(t)
  <2>1. J(t) \in Jobs /\ row[J(t)] \in Rows
    BY <1>8, <1>a DEF Fetch, At
  <2> DEFINE r == [row[J(t)] EXCEPT !.attempts = 0]
  <2>2. r \in Rows /\ r.status = row[J(t)].status /\ r.claim = row[J(t)].claim
    BY <2>1 DEF Rows
  <2>3. UpdateIfStatus(J(t), "running", C(t), r) \/ UNCHANGED storeVars
    BY <1>8 DEF Fetch
  <2> QED
    BY <2>1, <2>2, <2>3, CasEffect DEF StoreEffect
<1>9. CASE FetchFails(t)
  <2>1. /\ J(t) \in Jobs /\ row[J(t)] \in Rows
        /\ th[t].attempts + 1 \in 1..MaxAttempts
    BY <1>9, <1>a DEF FetchFails, At
  <2> DEFINE r == FetchFailed(row[J(t)], th[t].attempts + 1)
  <2>2. r \in Rows
    BY <2>1, FetchFailedRow
  <2>3. \/ r.status = "failed" /\ r.claim = row[J(t)].claim
        \/ r.status = "queued" /\ r.claim = NoClaim
    <3>1. /\ Failed(row[J(t)], FALSE) \in Rows
          /\ Failed(row[J(t)], FALSE).status = "failed"
          /\ Failed(row[J(t)], FALSE).claim = row[J(t)].claim
      BY <1>b, <2>1, FailedClaim, Zenon
    <3> DEFINE f == Failed(row[J(t)], FALSE)
    <3>2. \A a : [f EXCEPT !.attempts = a].status = "failed"
                 /\ [f EXCEPT !.attempts = a].claim = row[J(t)].claim
      BY <3>1 DEF Rows
    <3>3. CASE th[t].attempts + 1 >= MaxAttempts
      BY <3>2, <3>3 DEF FetchFailed
    <3>4. CASE ~(th[t].attempts + 1 >= MaxAttempts)
      BY <2>1, <3>4 DEF FetchFailed, Rows
    <3> QED
      BY <3>3, <3>4
  <2>4. UpdateIfStatus(J(t), "running", C(t), r)
    BY <1>9 DEF FetchFails
  <2> HIDE DEF r
  <2> QED
    BY <2>1, <2>2, <2>3, <2>4, CasEffect DEF StoreEffect
<1> QED
  BY <1>1, <1>2, <1>3, <1>4, <1>5, <1>6, <1>7, <1>8, <1>9 DEF ThreadStep

LEMMA NextEffect == TypeInv /\ [Next]_vars => StoreEffect
<1> SUFFICES ASSUME TypeInv, [Next]_vars PROVE StoreEffect
  OBVIOUS
<1> USE JobStoreAssumption, DispatchAssumption
<1>1. ASSUME NEW t \in Threads, Claim(t) \/ ThreadStep(t) PROVE StoreEffect
  BY <1>1, ThreadEffect
<1>2. ASSUME NEW n \in Nodes, MaintStep(n) \/ Crash(n) PROVE StoreEffect
  <2>1. CASE SweepPs(n) \/ SweepSkip(n) \/ ReconcilePs(n) \/ ReconcilePop(n)
             \/ ReconcileRead(n) \/ ReconcileDel(n) \/ Crash(n)
    BY <2>1 DEF StoreEffect, SweepPs, SweepSkip, ReconcilePs, ReconcilePop, ReconcileRead,
       ReconcileDel, Crash
  <2>2. CASE SweepWarm(n)
    <3>1. mt[n].job \in Jobs /\ row[mt[n].job] \in Rows
      BY <2>2, MaintInHand DEF SweepWarm
    <3>2. PICK b \in BOOLEAN :
            UpdateIfStatus(mt[n].job, "running", mt[n].claim, Failed(row[mt[n].job], b))
      BY <2>2 DEF SweepWarm
    <3>3. /\ Failed(row[mt[n].job], b) \in Rows
          /\ Failed(row[mt[n].job], b).status = "failed"
          /\ Failed(row[mt[n].job], b).claim = row[mt[n].job].claim
      BY <3>1, FailedClaim
    <3> QED
      BY <3>1, <3>2, <3>3, CasEffect DEF StoreEffect
  <2>3. CASE SweepRequeue(n)
    <3>1. mt[n].job \in Jobs /\ row[mt[n].job] \in Rows
      BY <2>3, MaintInHand DEF SweepRequeue
    <3>2. row[mt[n].job].deferred \in BOOLEAN
      BY <3>1 DEF Rows
    <3>3. PICK b \in BOOLEAN :
            UpdateIfStatus(mt[n].job, "running", mt[n].claim, Requeued(row[mt[n].job], b))
      BY <2>3, <3>2, Zenon DEF SweepRequeue
    <3>4. /\ Requeued(row[mt[n].job], b) \in Rows
          /\ Requeued(row[mt[n].job], b).status = "queued"
          /\ Requeued(row[mt[n].job], b).claim = NoClaim
      BY <3>1, RequeuedClaim
    <3> QED
      BY <3>1, <3>3, <3>4, CasEffect DEF StoreEffect
  <2> QED
    BY <1>2, <2>1, <2>2, <2>3 DEF MaintStep
<1>3. ASSUME NEW n \in Nodes, NEW j \in Jobs, MaintBegin(n, j) \/ BoxExits(n, j)
      PROVE  StoreEffect
  <2>1. CASE SweepList(n, j) \/ ReconcileList(n, j) \/ BoxExits(n, j)
    BY <2>1 DEF StoreEffect, SweepList, ReconcileList, BoxExits
  <2>2. CASE FailStaleQueued(n, j)
    <3>1. row[j] \in Rows
      BY DEF TypeInv, RowInv
    <3>2. PICK b \in BOOLEAN : UpdateIfStatusOnly(j, "queued", Failed(row[j], b))
      BY <2>2 DEF FailStaleQueued
    <3>3. /\ row[j].status = "queued" /\ Failed(row[j], b) \in Rows
          /\ Failed(row[j], b).status = "failed" /\ Failed(row[j], b).claim = row[j].claim
      BY <2>2, <3>1, FailedClaim DEF FailStaleQueued
    <3> QED
      BY <3>2, <3>3 DEF StoreEffect, UpdateIfStatusOnly, Becomes
  <2> QED
    BY <1>3, <2>1, <2>2 DEF MaintBegin
<1>4. ASSUME NEW j \in Jobs, Submit(j) PROVE StoreEffect
  BY <1>4 DEF Submit, StoreEffect
<1>5. ASSUME NEW j \in Jobs, Elapse(j) PROVE StoreEffect
  <2>1. row[j] \in Rows
    BY DEF TypeInv, RowInv
  <2>2. PICK r : /\ row' = [row EXCEPT ![j] = r] /\ UNCHANGED <<issued, submitted>>
                 /\ \/ \E x \in Ages : r = [row[j] EXCEPT !.age = x]
                    \/ r = [row[j] EXCEPT !.deferred = FALSE]
    <3>1. CASE Age(j)
      <4>1. row[j].age + 1 \in Ages
        BY <2>1, <3>1 DEF Age, Rows, Ages, Fresh, PastStale
      <4>2. row' = [row EXCEPT ![j] = [row[j] EXCEPT !.age = row[j].age + 1]]
        BY <3>1 DEF Age
      <4> QED
        BY <3>1, <4>1, <4>2 DEF Age
    <3>2. CASE BecomeClaimable(j)
      BY <3>2 DEF BecomeClaimable
    <3> QED
      BY <1>5, <3>1, <3>2 DEF Elapse
  <2>3. r \in Rows /\ r.status = row[j].status /\ r.claim = row[j].claim
    BY <2>1, <2>2 DEF Rows
  <2> QED
    BY <2>2, <2>3 DEF StoreEffect, Becomes
<1>6. CASE UNCHANGED vars
  BY <1>6 DEF vars, StoreEffect, storeVars
<1> QED
  BY <1>1, <1>2, <1>3, <1>4, <1>5, <1>6 DEF Next

-------------------------------------------------------------------------------
\* DONE needs an acknowledged upload under the row's own claim.  A thread that is
\* about to commit has its upload behind it.
CommitInv ==
  /\ DoneWasPublished
  /\ \A t \in Threads : th[t].pc = "commit" => th[t].claim \in published

\* published only grows, and a thread comes to "commit" only through PutSeal.
LEMMA CommitPc ==
  TypeInv /\ [Next]_vars =>
    /\ published \subseteq published'
    /\ \A t \in Threads : th'[t].pc = "commit" =>
         \/ th[t].pc = "commit" /\ th'[t].claim = th[t].claim
         \/ th'[t].claim \in published'
<1> SUFFICES ASSUME TypeInv, [Next]_vars
             PROVE  /\ published \subseteq published'
                    /\ \A t \in Threads : th'[t].pc = "commit" =>
                         \/ th[t].pc = "commit" /\ th'[t].claim = th[t].claim
                         \/ th'[t].claim \in published'
  OBVIOUS
<1>a. th \in [Threads -> ThreadStates]
  BY DEF TypeInv, ThInv
<1>1. ASSUME NEW t \in Threads, PutSeal(t)
      PROVE  /\ published \subseteq published'
             /\ \A u \in Threads : th'[u].pc = "commit" =>
                  \/ th[u].pc = "commit" /\ th'[u].claim = th[u].claim
                  \/ th'[u].claim \in published'
  BY <1>1, <1>a DEF PutSeal, Go, C, ThreadStates
<1>2. ASSUME NEW t \in Threads, Claim(t) \/ ThreadStep(t), ~PutSeal(t)
      PROVE  /\ published' = published
             /\ \A u \in Threads : th'[u].pc = "commit" =>
                  th[u].pc = "commit" /\ th'[u].claim = th[u].claim
  <2>1. published' = published
    BY <1>2 DEF ThreadStep, Claim, Refuse, NoHeadroom, AdmitWarm, AdmitCold, StampWarm, Fetch,
       FetchFails, FetchDrop, Reject, EgressDefer, StampCold, Launch, LaunchFails, BoxDone,
       BoxKilled, BoxOrphaned, GuestDone, GuestFails, Refresh, Seal, SealFails, Check,
       PutBody, PutFails, ReapCheck, Reap, Mark, Keep, Unmark, Commit, Fail, Raise, Release,
       InRead, InDel, PgRead, PgDel, localVars
  <2>2. \/ \E p \in ThreadPcs \ {"commit"} : Go(t, p)
        \/ th' = [th EXCEPT ![t] = IdleThread]
        \/ AdmitWarm(t) \/ BoxOrphaned(t) \/ Claim(t)
    BY <1>2 DEF ThreadStep, Refuse, NoHeadroom, AdmitCold, StampWarm, Fetch, FetchFails,
       FetchDrop, Reject, EgressDefer, StampCold, Launch, LaunchFails, BoxDone, BoxKilled,
       GuestDone, GuestFails, Refresh, Seal, SealFails, Check, PutBody, PutFails, ReapCheck,
       Reap, Mark, Keep, Unmark, Commit, Fail, Raise, Release, InRead, InDel, PgRead, PgDel,
       Cas, ThreadPcs
  <2>3. CASE \E p \in ThreadPcs \ {"commit"} : Go(t, p)
    BY <1>a, <2>1, <2>3 DEF Go, ThreadStates
  <2>4. CASE th' = [th EXCEPT ![t] = IdleThread]
    BY <1>a, <2>1, <2>4 DEF IdleThread, ThreadStates
  <2>5. CASE AdmitWarm(t) \/ BoxOrphaned(t)
    <3>1. PICK s : s.pc # "commit" /\ th' = [th EXCEPT ![t] = s]
      <4>1. th[t] \in ThreadStates
        BY <1>a
      <4>2. /\ [th[t] EXCEPT !.pc = "stampw", !.warm = TRUE].pc # "commit"
            /\ [th[t] EXCEPT !.pc = "fail", !.orphan = TRUE].pc # "commit"
        BY <4>1 DEF ThreadStates
      <4> QED
        BY <2>5, <4>2, Zenon DEF AdmitWarm, BoxOrphaned
    <3> QED
      BY <1>a, <2>1, <3>1
  <2>6. CASE Claim(t)
    BY <1>a, <2>1, <2>6 DEF Claim
  <2> QED
    BY <2>2, <2>3, <2>4, <2>5, <2>6
<1>3. ASSUME NEW j \in Jobs, Submit(j) \/ Elapse(j)
      PROVE  published' = published /\ th' = th
  BY <1>3 DEF Submit, Elapse, localVars
<1>4. ASSUME NEW n \in Nodes, MaintStep(n)
      PROVE  published' = published /\ th' = th
  BY <1>4 DEF MaintStep, SweepWarm, SweepPs, SweepSkip, SweepRequeue, ReconcilePs,
     ReconcilePop, ReconcileRead, ReconcileDel
<1>5. ASSUME NEW n \in Nodes, NEW j \in Jobs, MaintBegin(n, j) \/ BoxExits(n, j)
      PROVE  published' = published /\ th' = th
  BY <1>5 DEF MaintBegin, SweepList, FailStaleQueued, ReconcileList, BoxExits
<1>6. ASSUME NEW n \in Nodes, Crash(n)
      PROVE  published' = published
             /\ \A t \in Threads : th'[t] = IdleThread \/ th'[t] = th[t]
  BY <1>6 DEF Crash
<1>7. CASE UNCHANGED vars
  BY <1>7 DEF vars
<1> QED
  BY <1>1, <1>2, <1>3, <1>4, <1>5, <1>6, <1>7 DEF Next, IdleThread

-------------------------------------------------------------------------------

LEMMA CommitInit == Init => CommitInv
  BY DEF Init, StoreInit, NoRow, IdleThread, CommitInv, DoneWasPublished

LEMMA CommitNext == TypeInv /\ CommitInv /\ [Next]_vars => CommitInv'
<1> SUFFICES ASSUME TypeInv, CommitInv, [Next]_vars PROVE CommitInv'
  OBVIOUS
<1>1. published \subseteq published'
  BY CommitPc
<1>2. \A t \in Threads : th'[t].pc = "commit" => th'[t].claim \in published'
  BY <1>1, CommitPc DEF CommitInv
<1>3. row \in [Jobs -> Rows]
  BY DEF TypeInv, RowInv
<1>4. \A j \in Jobs : row'[j].status = "done" =>
        \/ row[j].status = "done" /\ row'[j].claim = row[j].claim
        \/ row'[j].claim \in published
  <2>1. StoreEffect
    BY NextEffect
  <2>2. CASE UNCHANGED storeVars
    BY <2>2 DEF storeVars
  <2>3. CASE \E j \in Jobs : Create(j)
    BY <1>3, <2>3 DEF Create, NewRow, NoRow
  <2>4. CASE \E j \in Jobs, S \in SUBSET Jobs : ClaimNext(S, j)
    <3>1. PICK j \in Jobs, S \in SUBSET Jobs : ClaimNext(S, j)
      BY <2>4
    <3>2. row[j] \in Rows
      BY <1>3
    <3>3. PICK r : r.status = "running" /\ row' = [row EXCEPT ![j] = r]
      BY <3>1, <3>2 DEF ClaimNext, Rows
    <3> QED
      BY <1>3, <3>3
  <2>5. CASE \/ \E j \in Jobs : Becomes(j, row[j].status, row[j].claim)
             \/ \E j \in Jobs : row[j].status = "running" /\ Becomes(j, "queued", NoClaim)
             \/ \E j \in Jobs : /\ row[j].status \in {"queued", "running"}
                                /\ Becomes(j, "failed", row[j].claim)
    BY <1>3, <2>5 DEF Becomes
  <2>6. CASE \E j \in Jobs, t \in Threads :
               /\ th[t].pc = "commit" /\ th[t].claim = row[j].claim
               /\ row[j].status = "running"
               /\ Becomes(j, "done", row[j].claim)
    BY <1>3, <2>6 DEF Becomes, CommitInv
  <2> QED
    BY <2>1, <2>2, <2>3, <2>4, <2>5, <2>6 DEF StoreEffect
<1> QED
  BY <1>1, <1>2, <1>4 DEF CommitInv, DoneWasPublished

\* A row is DONE only under a claim whose own put_output was acknowledged, for
\* any number of jobs, threads, nodes, claims and crashes.
THEOREM Published == Spec => []DoneWasPublished
<1>1. CommitInv => DoneWasPublished
  BY DEF CommitInv
<1> QED
  BY <1>1, InitTyped, NextTyped, CommitInit, CommitNext, PTL DEF Spec

-------------------------------------------------------------------------------
\* The dispatcher implements the job life cycle.  Create needs to know that the
\* job it creates has no row yet: only submitted jobs have one.
AbsentInv ==
  \A j \in Jobs : j > submitted => row[j].status = "absent" /\ row[j].claim = NoClaim

\* Every effect on the store is a step of the life cycle, or a stutter.
LEMMA EffectRefines ==
  ASSUME TypeInv, AbsentInv, StoreEffect
  PROVE  AbsentInv' /\ [Lifecycle!Next]_(Lifecycle!lifeVars)
<1> USE JobStoreAssumption
<1>a. row \in [Jobs -> Rows] /\ issued \in 0..MaxClaims /\ submitted \in 0..NJobs
  BY DEF TypeInv, RowInv
<1> DEFINE st == [i \in Jobs |-> row[i].status]
           cl == [i \in Jobs |-> row[i].claim]
<1>c. ASSUME NEW j \in Jobs, NEW s, NEW c, Becomes(j, s, c)
      PROVE  /\ st' = [st EXCEPT ![j] = s] /\ cl' = [cl EXCEPT ![j] = c]
             /\ issued' = issued /\ submitted' = submitted
             /\ \A i \in Jobs \ {j} : row'[i] = row[i]
             /\ row'[j].status = s /\ row'[j].claim = c
  BY <1>a, <1>c DEF Becomes
<1>d. \A j \in Jobs : st[j] = row[j].status /\ cl[j] = row[j].claim
  OBVIOUS
<1>1. CASE UNCHANGED storeVars
  BY <1>1 DEF storeVars, AbsentInv, Lifecycle!lifeVars
<1>2. CASE \E j \in Jobs : Create(j)
  <2>1. PICK j \in Jobs : Create(j)
    BY <1>2
  <2>2. NewRow.status = "queued" /\ NewRow.claim = NoClaim
    BY DEF NewRow, NoRow
  <2>3. /\ st' = [st EXCEPT ![j] = "queued"] /\ cl' = [cl EXCEPT ![j] = NoClaim]
        /\ \A i \in Jobs \ {j} : row'[i] = row[i]
    <3>1. row' = [row EXCEPT ![j] = NewRow]
      BY <2>1 DEF Create
    <3> QED
      BY <1>a, <2>2, <3>1
  <2>4. /\ row[j].status = "absent" /\ row[j].claim = NoClaim
        /\ submitted' = j /\ issued' = issued
    BY <1>a, <2>1 DEF Create, AbsentInv
  <2>5. cl' = cl
    BY <1>d, <2>3, <2>4
  <2>6. AbsentInv'
    BY <1>a, <2>1, <2>3, <2>4 DEF AbsentInv, Create, Jobs
  <2>7. Lifecycle!Create(j)
    BY <1>d, <2>3, <2>4, <2>5 DEF Lifecycle!Create
  <2> QED
    BY <2>6, <2>7 DEF Lifecycle!Next
<1>3. CASE \E j \in Jobs, S \in SUBSET Jobs : ClaimNext(S, j)
  <2>1. PICK j \in Jobs, S \in SUBSET Jobs : ClaimNext(S, j)
    BY <1>3
  <2>2. row[j] \in Rows /\ row[j].status = "queued" /\ issued < MaxClaims
    BY <1>a, <2>1 DEF ClaimNext, Claimable
  <2>3. PICK r : r.status = "running" /\ r.claim = issued + 1 /\ row' = [row EXCEPT ![j] = r]
    BY <2>1, <2>2 DEF ClaimNext, Rows
  <2>4. /\ st' = [st EXCEPT ![j] = "running"] /\ cl' = [cl EXCEPT ![j] = issued + 1]
        /\ issued' = issued + 1 /\ submitted' = submitted
        /\ \A i \in Jobs \ {j} : row'[i] = row[i]
    BY <1>a, <2>1, <2>3 DEF ClaimNext
  <2>5. /\ issued + 1 \in (1..MaxClaims) \ (1..issued)
        /\ 1..issued' = (1..issued) \cup {issued + 1}
    BY <1>a, <2>2, <2>4
  <2>6. AbsentInv'
    BY <1>a, <2>2, <2>4 DEF AbsentInv
  <2>7. Lifecycle!Take(j)
    BY <1>d, <2>2, <2>4, <2>5 DEF Lifecycle!Take
  <2> QED
    BY <2>6, <2>7 DEF Lifecycle!Next
<1>4. CASE \E j \in Jobs : Becomes(j, row[j].status, row[j].claim)
  <2>1. PICK j \in Jobs : Becomes(j, row[j].status, row[j].claim)
    BY <1>4
  <2>a. /\ st' = [st EXCEPT ![j] = row[j].status] /\ cl' = [cl EXCEPT ![j] = row[j].claim]
        /\ issued' = issued /\ submitted' = submitted
        /\ \A i \in Jobs \ {j} : row'[i] = row[i]
        /\ row'[j].status = row[j].status /\ row'[j].claim = row[j].claim
    BY <1>c, <2>1, Zenon
  <2>2. st' = st /\ cl' = cl /\ issued' = issued
    BY <1>d, <2>a
  <2>3. AbsentInv'
    BY <1>a, <2>a DEF AbsentInv
  <2> QED
    BY <2>2, <2>3 DEF Lifecycle!lifeVars
<1>5. CASE \E j \in Jobs : row[j].status = "running" /\ Becomes(j, "queued", NoClaim)
  <2>1. PICK j \in Jobs : row[j].status = "running" /\ Becomes(j, "queued", NoClaim)
    BY <1>5
  <2>a. /\ issued' = issued /\ submitted' = submitted
        /\ \A i \in Jobs \ {j} : row'[i] = row[i]
    BY <1>c, <2>1, Zenon
  <2>2. AbsentInv'
    BY <1>a, <2>1, <2>a DEF AbsentInv
  <2>3. Lifecycle!GiveBack(j)
    BY <1>c, <1>d, <2>1 DEF Lifecycle!GiveBack, Lifecycle!Nobody, NoClaim
  <2> QED
    BY <2>2, <2>3 DEF Lifecycle!Next
<1>6. ASSUME NEW j \in Jobs, NEW s \in {"done", "failed"},
             \/ row[j].status = "running"
             \/ row[j].status = "queued" /\ s = "failed",
             Becomes(j, s, row[j].claim)
      PROVE  AbsentInv' /\ Lifecycle!Next
  <2>a. /\ st' = [st EXCEPT ![j] = s] /\ cl' = [cl EXCEPT ![j] = row[j].claim]
        /\ issued' = issued /\ submitted' = submitted
        /\ \A i \in Jobs \ {j} : row'[i] = row[i]
    BY <1>c, <1>6, Zenon
  <2>1. AbsentInv'
    BY <1>a, <1>6, <2>a DEF AbsentInv
  <2>2. st' = [st EXCEPT ![j] = s] /\ cl' = cl /\ issued' = issued
    BY <1>d, <2>a
  <2>3. Lifecycle!Finish(j) \/ Lifecycle!GiveUp(j)
    BY <1>6, <1>d, <2>2 DEF Lifecycle!Finish, Lifecycle!GiveUp, Lifecycle!Outcomes
  <2> QED
    BY <2>1, <2>3 DEF Lifecycle!Next
<1> QED
  BY <1>1, <1>2, <1>3, <1>4, <1>5, <1>6 DEF StoreEffect

\* The dispatcher implements the job life cycle its clients rely on: whatever
\* threads, sweeps and crashes do, every change of a row a client can see is one
\* the life cycle allows.
THEOREM Implements == Spec => ImplementsLifecycle
<1>1. Init => AbsentInv /\ Lifecycle!Init
  BY JobStoreAssumption
     DEF Init, StoreInit, NoRow, AbsentInv, Lifecycle!Init, Lifecycle!Nobody, NoClaim
<1>2. TypeInv /\ AbsentInv /\ [Next]_vars => AbsentInv' /\ [Lifecycle!Next]_(Lifecycle!lifeVars)
  BY NextEffect, EffectRefines
<1> QED
  BY <1>1, <1>2, InitTyped, NextTyped, PTL DEF Spec, ImplementsLifecycle, Lifecycle!Spec

-------------------------------------------------------------------------------
\* With prompt owners

\* A thread is at work under its claim.
Working == {"admit", "stampw", "fetch", "stampc", "launch", "boxed", "guest", "refresh",
            "seal", "check", "body", "putseal", "reapcheck", "reap", "mark", "keep",
            "commit", "fail"}

\* The way of a thread through its claim.
Follows(p, q) ==
  \/ p = "admit" /\ q \in {"stampw", "fetch"}
  \/ p = "stampw" /\ q \in {"fetch", "fail", "release"}
  \/ p = "fetch" /\ q \in {"guest", "stampc", "fetchdrop", "fail", "release"}
  \/ p = "stampc" /\ q \in {"launch", "fail", "release"}
  \/ p = "launch" /\ q \in {"boxed", "seal", "fail"}
  \/ p = "boxed" /\ q \in {"seal", "fail"}
  \/ p = "guest" /\ q \in {"refresh", "fail", "release"}
  \/ p = "refresh" /\ q \in {"seal", "release"}
  \/ p = "seal" /\ q \in {"check", "fail"}
  \/ p = "check" /\ q \in {"body", "release"}
  \/ p = "body" /\ q \in {"putseal", "reapcheck"}
  \/ p = "putseal" /\ q \in {"commit", "reapcheck"}
  \/ p = "reapcheck" /\ q \in {"reap", "mark"}
  \/ p = "reap" /\ q = "mark"
  \/ p = "mark" /\ q = "keep"
  \/ p = "keep" /\ q \in {"unmark", "release"}
  \/ p \in {"fetchdrop", "unmark", "commit", "fail"} /\ q = "release"
  \/ p = "release" /\ q = "inread"
  \/ p = "inread" /\ q \in {"indel", "pgread"}
  \/ p = "indel" /\ q = "pgread"
  \/ p = "pgread" /\ q = "pgdel"

\* Thread t goes on under its claim, ends it, or takes one.
GoesOn(t) ==
  /\ Follows(th[t].pc, th'[t].pc)
  /\ th'[t].job = th[t].job /\ th'[t].claim = th[t].claim
  /\ th'[t].warm = (th[t].warm \/ th'[t].pc = "stampw")
  /\ th[t].orphan => th'[t].orphan
  /\ th'[t].orphan => th[t].orphan \/ (th[t].pc = "boxed" /\ th'[t].pc = "fail")
  /\ th'[t].pc = "guest" => th[t].warm
  /\ th'[t].pc = "stampc" => ~th[t].warm

Ends(t) == th[t].pc \in {"admit", "pgread", "pgdel"} /\ th'[t] = IdleThread

Takes(t) ==
  /\ th[t].pc = "idle" /\ th'[t].pc = "admit" /\ ~th'[t].warm /\ ~th'[t].orphan
  /\ th'[t].claim = issued + 1 /\ issued' = issued + 1
  /\ th'[t].job \in Jobs
  /\ row'[th'[t].job].status = "running" /\ row'[th'[t].job].claim = issued + 1

Acts(t) ==
  /\ \A u \in Threads : u # t => th'[u] = th[u]
  /\ GoesOn(t) \/ Ends(t) \/ Takes(t)

-------------------------------------------------------------------------------
\* Acts is what a step of a thread does to the threads.
LEMMA GoActs ==
  ASSUME TypeInv, NEW t \in Threads, NEW p \in ThreadPcs, Go(t, p), Follows(th[t].pc, p),
         p # "stampw", p = "guest" => th[t].warm, p = "stampc" => ~th[t].warm
  PROVE  Acts(t) /\ th'[t] = [th[t] EXCEPT !.pc = p]
<1>1. th \in [Threads -> ThreadStates]
  BY DEF TypeInv, ThInv
<1>2. th'[t] = [th[t] EXCEPT !.pc = p] /\ \A u \in Threads : u # t => th'[u] = th[u]
  BY <1>1 DEF Go
<1>3. th[t] \in ThreadStates
  BY <1>1
<1>4. GoesOn(t)
  BY <1>2, <1>3 DEF GoesOn, ThreadStates
<1> QED
  BY <1>2, <1>4 DEF Acts

LEMMA EndActs ==
  ASSUME TypeInv, NEW t \in Threads, th' = [th EXCEPT ![t] = IdleThread],
         th[t].pc \in {"admit", "pgread", "pgdel"}
  PROVE  Acts(t) /\ th'[t] = IdleThread
  BY DEF TypeInv, ThInv, Acts, Ends

LEMMA ClaimActs ==
  ASSUME TypeInv, NEW t \in Threads, Claim(t)
  PROVE  Acts(t) /\ Takes(t)
<1>1. th \in [Threads -> ThreadStates] /\ row \in [Jobs -> Rows] /\ issued \in Nat
  BY JobStoreAssumption DEF TypeInv, ThInv, RowInv
<1>2. PICK j \in Jobs : /\ ClaimNext(Serves[t], j)
                        /\ th' = [th EXCEPT ![t] =
                             [pc |-> "admit", job |-> j, claim |-> issued + 1,
                              attempts |-> row[j].attempts, warm |-> FALSE, orphan |-> FALSE]]
  BY DEF Claim
<1>3. row[j] \in Rows
  BY <1>1
<1>4. row'[j].status = "running" /\ row'[j].claim = issued + 1 /\ issued' = issued + 1
  BY <1>1, <1>2, <1>3 DEF ClaimNext, Rows
<1>5. /\ th'[t].pc = "admit" /\ th'[t].job = j /\ th'[t].claim = issued + 1
      /\ ~th'[t].warm /\ ~th'[t].orphan
      /\ \A u \in Threads : u # t => th'[u] = th[u]
  BY <1>1, <1>2
<1> QED
  BY <1>2, <1>4, <1>5 DEF Acts, Takes, Claim, At

LEMMA StepActs ==
  ASSUME TypeInv, NEW t \in Threads, Claim(t) \/ ThreadStep(t)
  PROVE  Acts(t)
<1>0. {"stampw", "fetch", "guest", "stampc", "fetchdrop", "release", "fail", "launch", "boxed",
       "seal", "refresh", "check", "body", "putseal", "reapcheck", "reap", "mark", "commit",
       "keep", "unmark", "inread", "indel", "pgread", "pgdel"} \subseteq ThreadPcs
  BY DEF ThreadPcs
<1>t. th \in [Threads -> ThreadStates] /\ th[t] \in ThreadStates
  BY DEF TypeInv, ThInv
<1>1. CASE Claim(t)
  BY <1>1, ClaimActs
<1>2. CASE Refuse(t) \/ NoHeadroom(t) \/ PgDel(t)
  BY <1>2, EndActs DEF Refuse, NoHeadroom, PgDel, At
<1>3. CASE AdmitWarm(t)
  <2>1. th'[t] = [th[t] EXCEPT !.pc = "stampw", !.warm = TRUE] /\ th[t].pc = "admit"
        /\ \A u \in Threads : u # t => th'[u] = th[u]
    BY <1>3, <1>t DEF AdmitWarm, At
  <2>2. GoesOn(t)
    BY <2>1, <1>t DEF GoesOn, Follows, ThreadStates
  <2> QED
    BY <2>1, <2>2 DEF Acts
<1>4. CASE BoxOrphaned(t)
  <2>1. th'[t] = [th[t] EXCEPT !.pc = "fail", !.orphan = TRUE] /\ th[t].pc = "boxed"
        /\ \A u \in Threads : u # t => th'[u] = th[u]
    BY <1>4, <1>t DEF BoxOrphaned, At
  <2>2. GoesOn(t)
    BY <2>1, <1>t DEF GoesOn, Follows, ThreadStates
  <2> QED
    BY <2>1, <2>2 DEF Acts
<1>5. CASE AdmitCold(t) \/ FetchDrop(t) \/ Reject(t) \/ LaunchFails(t) \/ BoxDone(t)
           \/ BoxKilled(t) \/ GuestDone(t) \/ GuestFails(t) \/ SealFails(t)
  <2>1. PICK p \in {"fetch", "release", "fail", "seal", "refresh"} :
             Go(t, p) /\ Follows(th[t].pc, p)
    BY <1>5 DEF AdmitCold, FetchDrop, Reject, LaunchFails, BoxDone, BoxKilled, GuestDone,
       GuestFails, SealFails, At, Follows
  <2> QED
    BY <2>1, <1>0, GoActs
<1>6. CASE PutBody(t) \/ PutSeal(t) \/ PutFails(t) \/ Reap(t) \/ Mark(t) \/ Unmark(t)
           \/ Raise(t) \/ Release(t) \/ InDel(t) \/ Seal(t)
  <2>1. PICK p \in {"check", "putseal", "commit", "reapcheck", "mark", "keep", "release",
                    "inread", "pgread"} : Go(t, p) /\ Follows(th[t].pc, p)
    BY <1>6 DEF PutBody, PutSeal, PutFails, Reap, Mark, Unmark, Raise, Release, InDel, Seal,
       At, Follows
  <2> QED
    BY <2>1, <1>0, GoActs
<1>7. CASE StampWarm(t) \/ StampCold(t) \/ Refresh(t) \/ Keep(t) \/ Commit(t) \/ Fail(t)
           \/ EgressDefer(t) \/ FetchFails(t)
  <2>1. PICK p \in {"fetch", "launch", "seal", "release", "unmark", "fetchdrop"} :
             Go(t, p) /\ Follows(th[t].pc, p)
    BY <1>7 DEF StampWarm, StampCold, Refresh, Keep, Commit, Fail, EgressDefer, FetchFails,
       Cas, At, Follows
  <2> QED
    BY <2>1, <1>0, GoActs
<1>8. CASE Launch(t) \/ Check(t) \/ ReapCheck(t) \/ InRead(t)
  <2>1. PICK p \in {"boxed", "seal", "body", "release", "reap", "mark", "indel", "pgread"} :
             Go(t, p) /\ Follows(th[t].pc, p)
    BY <1>8 DEF Launch, Check, ReapCheck, InRead, At, Follows
  <2> QED
    BY <2>1, <1>0, GoActs
<1>9. CASE Fetch(t)
  <2>1. Go(t, IF th[t].warm THEN "guest" ELSE "stampc") /\ th[t].pc = "fetch"
    BY <1>9 DEF Fetch, At
  <2>2. CASE th[t].warm
    BY <2>1, <2>2, <1>0, GoActs DEF Follows
  <2>3. CASE ~th[t].warm
    BY <2>1, <2>3, <1>0, GoActs DEF Follows
  <2> QED
    BY <2>2, <2>3
<1>10. CASE PgRead(t)
  <2>1. th[t].pc = "pgread" /\ (Go(t, "pgdel") \/ th' = [th EXCEPT ![t] = IdleThread])
    BY <1>10 DEF PgRead, At
  <2> QED
    BY <2>1, <1>0, GoActs, EndActs DEF Follows
<1> QED
  BY <1>1, <1>2, <1>3, <1>4, <1>5, <1>6, <1>7, <1>8, <1>9, <1>10 DEF ThreadStep
-------------------------------------------------------------------------------
\* What a step of thread t does to the rows: it takes the row of a job that was
\* queued, or it ends the claim it holds and stops working.
SameRow(j) ==
  row'[j].status = row[j].status /\ row'[j].claim = row[j].claim
  /\ row'[j].deferred = row[j].deferred

StopsRow(t) ==
  /\ StillOurs(t) /\ th[t].pc \in Working /\ th'[t].pc \notin Working
  /\ \/ row'[J(t)].status = "queued" /\ row'[J(t)].claim = NoClaim
     \/ row'[J(t)].status = "failed" /\ row'[J(t)].claim = C(t)
     \/ row'[J(t)].status = "done" /\ row'[J(t)].claim = C(t) /\ th[t].pc = "commit"

RowActs(t) ==
  /\ issued' = issued \/ Takes(t)
  /\ \A j \in Jobs : \/ SameRow(j)
                     \/ /\ Takes(t) /\ j = th'[t].job
                        /\ row[j].status = "queued" /\ ~row[j].deferred
                     \/ j = J(t) /\ StopsRow(t)
  /\ th'[t].pc = "fetchdrop" /\ StillOurs(t) =>
       /\ row'[J(t)].status # "running"
       /\ row'[J(t)].status = "queued" => row'[J(t)].deferred
  /\ th[t].pc = "fail" /\ StillOurs(t) /\ ~StoreFaults =>
       row'[J(t)].status = "failed" /\ row'[J(t)].claim = C(t)

LEMMA CasStops ==
  ASSUME TypeInv, NEW t \in Threads, th[t].pc \in Working, th'[t].pc \notin Working,
         NEW r \in Rows, UpdateIfStatus(J(t), "running", C(t), r),
         \/ r.status = "queued" /\ r.claim = NoClaim
         \/ r.status = "failed" /\ r.claim = row[J(t)].claim
         \/ r.status = "done" /\ r.claim = row[J(t)].claim /\ th[t].pc = "commit"
  PROVE  /\ issued' = issued
         /\ \A j \in Jobs : SameRow(j) \/ (j = J(t) /\ StopsRow(t))
         /\ StillOurs(t) => row'[J(t)] = r
<1>1. row \in [Jobs -> Rows] /\ J(t) \in Jobs
  BY ThreadInHand DEF TypeInv, RowInv, Working
<1>2. CASE StillOurs(t)
  <2>1. row' = [row EXCEPT ![J(t)] = r]
    BY <1>2 DEF UpdateIfStatus, StillOurs
  <2>2. row'[J(t)] = r /\ \A j \in Jobs : j # J(t) => row'[j] = row[j]
    BY <1>1, <2>1
  <2>3. StopsRow(t)
    BY <1>2, <2>2 DEF StopsRow, StillOurs, Matches
  <2> QED
    BY <2>2, <2>3 DEF UpdateIfStatus, SameRow
<1>3. CASE ~StillOurs(t)
  BY <1>3 DEF UpdateIfStatus, StillOurs, SameRow
<1> QED
  BY <1>2, <1>3

\* Writing a field that is neither the status, the claim nor the deferral.
LEMMA CasStays ==
  ASSUME TypeInv, NEW t \in Threads, th[t].pc # "idle",
         NEW r \in Rows, UpdateIfStatus(J(t), "running", C(t), r),
         r.status = row[J(t)].status, r.claim = row[J(t)].claim,
         r.deferred = row[J(t)].deferred
  PROVE  issued' = issued /\ \A j \in Jobs : SameRow(j)
<1>1. row \in [Jobs -> Rows] /\ J(t) \in Jobs
  BY ThreadInHand DEF TypeInv, RowInv
<1>2. row' = row \/ row' = [row EXCEPT ![J(t)] = r]
  BY DEF UpdateIfStatus
<1> QED
  BY <1>1, <1>2 DEF UpdateIfStatus, SameRow

\* The row a failed fetch writes has failed, or is queued and put off.
LEMMA FetchFailedEnds ==
  ASSUME NEW r \in Rows, NEW a \in 1..MaxAttempts
  PROVE  LET f == FetchFailed(r, a) IN
         \/ f.status = "failed" /\ f.claim = r.claim
         \/ f.status = "queued" /\ f.claim = NoClaim /\ f.deferred
<1> USE JobStoreAssumption
<1>1. CASE a >= MaxAttempts
  <2> DEFINE f == Failed(r, FALSE)
  <2>0. FALSE \in BOOLEAN
    OBVIOUS
  <2>1. f \in Rows /\ f.status = "failed" /\ f.claim = r.claim
    BY <2>0, FailedClaim, Zenon
  <2>2. FetchFailed(r, a) = [f EXCEPT !.attempts = a]
    BY <1>1 DEF FetchFailed
  <2> HIDE DEF f
  <2> QED
    BY <2>1, <2>2 DEF Rows
<1>2. CASE ~(a >= MaxAttempts)
  BY <1>2 DEF FetchFailed, Rows
<1> QED
  BY <1>1, <1>2

LEMMA StepRow ==
  ASSUME TypeInv, NEW t \in Threads, Claim(t) \/ ThreadStep(t)
  PROVE  RowActs(t)
<1> USE JobStoreAssumption
<1>a. th[t].pc # "idle" => J(t) \in Jobs /\ C(t) \in ClaimIds /\ row[J(t)] \in Rows
                           /\ th[t].attempts \in 0..(MaxAttempts - 1)
  BY ThreadInHand
<1>b. TRUE \in BOOLEAN /\ FALSE \in BOOLEAN
  OBVIOUS
<1>t. th \in [Threads -> ThreadStates]
  BY DEF TypeInv, ThInv
<1>g. \A p : Go(t, p) => th'[t].pc = p
  BY <1>t DEF Go, ThreadStates
<1>1. CASE \/ AdmitWarm(t) \/ AdmitCold(t) \/ FetchDrop(t) \/ Reject(t) \/ Launch(t)
           \/ LaunchFails(t) \/ BoxDone(t) \/ BoxKilled(t) \/ BoxOrphaned(t)
           \/ GuestDone(t) \/ GuestFails(t) \/ Seal(t) \/ SealFails(t) \/ Check(t)
           \/ PutBody(t) \/ PutSeal(t) \/ PutFails(t) \/ ReapCheck(t) \/ Reap(t)
           \/ Mark(t) \/ Unmark(t) \/ Raise(t) \/ Release(t) \/ InRead(t) \/ InDel(t)
           \/ PgRead(t) \/ PgDel(t)
  <2>1. UNCHANGED storeVars
    BY <1>1 DEF AdmitWarm, AdmitCold, FetchDrop, Reject, Launch,
     LaunchFails, BoxDone, BoxKilled, BoxOrphaned, GuestDone, GuestFails, Seal, SealFails,
     Check, PutBody, PutSeal, PutFails, ReapCheck, Reap, Mark, Unmark, Raise, Release, InRead,
     InDel, PgRead, PgDel
  <2>2. th[t].pc = "fail" => StoreFaults
    BY <1>1 DEF AdmitWarm, AdmitCold, FetchDrop, Reject, Launch,
     LaunchFails, BoxDone, BoxKilled, BoxOrphaned, GuestDone, GuestFails, Seal, SealFails,
     Check, PutBody, PutSeal, PutFails, ReapCheck, Reap, Mark, Unmark, Raise, Release, InRead,
     InDel, PgRead, PgDel, At
  <2>3. th'[t].pc # "fetchdrop"
    <3>1. \/ \E p \in ThreadPcs \ {"fetchdrop"} : Go(t, p)
          \/ AdmitWarm(t) \/ BoxOrphaned(t) \/ th' = [th EXCEPT ![t] = IdleThread]
      BY <1>1 DEF AdmitCold, FetchDrop, Reject, Launch, LaunchFails, BoxDone, BoxKilled,
       GuestDone, GuestFails, Seal, SealFails, Check, PutBody, PutSeal, PutFails, ReapCheck,
       Reap, Mark, Unmark, Raise, Release, InRead, InDel, PgRead, PgDel, ThreadPcs
    <3>2. CASE AdmitWarm(t) \/ BoxOrphaned(t)
      BY <3>2, <1>t DEF AdmitWarm, BoxOrphaned, ThreadStates
    <3> QED
      BY <3>1, <3>2, <1>g, <1>t DEF IdleThread
  <2> QED
    BY <2>1, <2>2, <2>3 DEF RowActs, SameRow, storeVars
<1>2. CASE Claim(t)
  <2>1. PICK j \in Jobs : /\ ClaimNext(Serves[t], j)
                          /\ th' = [th EXCEPT ![t] =
                               [pc |-> "admit", job |-> j, claim |-> issued + 1,
                                attempts |-> row[j].attempts, warm |-> FALSE, orphan |-> FALSE]]
    BY <1>2 DEF Claim
  <2>2. Takes(t)
    BY <1>2, ClaimActs
  <2>3. /\ row[j].status = "queued" /\ ~row[j].deferred
        /\ \A i \in Jobs : i # j => row'[i] = row[i]
    BY <2>1 DEF ClaimNext, Claimable, TypeInv, RowInv
  <2>4. th'[t].job = j /\ th'[t].pc = "admit" /\ th[t].pc = "idle"
    BY <1>2, <2>1, <1>t DEF Claim, At
  <2> QED
    BY <2>2, <2>3, <2>4 DEF RowActs, SameRow
<1>3. CASE Refuse(t) \/ NoHeadroom(t) \/ EgressDefer(t)
  <2>1. PICK b \in BOOLEAN : UpdateIfStatus(J(t), "running", C(t), Requeued(row[J(t)], b))
    BY <1>3, <1>b DEF Refuse, NoHeadroom, EgressDefer
  <2>2. J(t) \in Jobs /\ row[J(t)] \in Rows /\ th[t].pc \in {"admit", "stampc"}
    BY <1>3, <1>a DEF Refuse, NoHeadroom, EgressDefer, At
  <2>3. th'[t].pc \in {"idle", "release"}
    <3>1. th' = [th EXCEPT ![t] = IdleThread] \/ Go(t, "release")
      BY <1>3 DEF Refuse, NoHeadroom, EgressDefer
    <3> QED
      BY <3>1, <1>t, <1>g DEF IdleThread
  <2>4. /\ Requeued(row[J(t)], b) \in Rows
        /\ Requeued(row[J(t)], b).claim = NoClaim
        /\ Requeued(row[J(t)], b).status = "queued"
    BY <2>2, RequeuedClaim
  <2> QED
    BY <2>1, <2>2, <2>3, <2>4, CasStops DEF RowActs, Working
<1>4. CASE Keep(t) \/ Fail(t)
  <2>1. PICK b \in BOOLEAN : UpdateIfStatus(J(t), "running", C(t), Failed(row[J(t)], b))
    BY <1>4, <1>b DEF Keep, Fail, Cas
  <2>2. J(t) \in Jobs /\ row[J(t)] \in Rows /\ th[t].pc \in {"keep", "fail"}
    BY <1>4, <1>a DEF Keep, Fail, At
  <2>3. th'[t].pc \in {"unmark", "release"}
    BY <1>4, <1>g DEF Keep, Fail, Cas
  <2>4. /\ Failed(row[J(t)], b) \in Rows /\ Failed(row[J(t)], b).status = "failed"
        /\ Failed(row[J(t)], b).claim = row[J(t)].claim
    BY <2>2, FailedClaim
  <2>5. th[t].pc \in Working /\ th'[t].pc \notin Working
    BY <2>2, <2>3 DEF Working
  <2>6. /\ issued' = issued
        /\ \A j \in Jobs : SameRow(j) \/ (j = J(t) /\ StopsRow(t))
        /\ StillOurs(t) => row'[J(t)] = Failed(row[J(t)], b)
    BY <2>1, <2>4, <2>5, CasStops
  <2>7. StillOurs(t) => row[J(t)].claim = C(t)
    BY DEF StillOurs, Matches
  <2> QED
    BY <2>3, <2>4, <2>6, <2>7 DEF RowActs
<1>5. CASE Commit(t)
  <2>1. UpdateIfStatus(J(t), "running", C(t), Done(row[J(t)])) /\ th[t].pc = "commit"
    BY <1>5 DEF Commit, Cas, At
  <2>2. J(t) \in Jobs /\ row[J(t)] \in Rows
    BY <1>a, <2>1
  <2>3. th'[t].pc = "release"
    BY <1>5, <1>g DEF Commit, Cas
  <2>4. /\ Done(row[J(t)]) \in Rows /\ Done(row[J(t)]).status = "done"
        /\ Done(row[J(t)]).claim = row[J(t)].claim
    BY <2>2, DoneClaim
  <2> QED
    BY <2>1, <2>3, <2>4, CasStops DEF RowActs, Working
<1>6. CASE StampWarm(t) \/ StampCold(t) \/ Refresh(t)
  <2>1. J(t) \in Jobs /\ row[J(t)] \in Rows /\ th[t].pc \in {"stampw", "stampc", "refresh"}
    BY <1>6, <1>a DEF StampWarm, StampCold, Refresh, At
  <2>2. PICK r : /\ UpdateIfStatus(J(t), "running", C(t), r)
                 /\ \/ \E x \in Runtimes : r = [row[J(t)] EXCEPT !.runtime = x]
                    \/ \E y \in Ages : r = [row[J(t)] EXCEPT !.age = y]
    <3>1. "warm" \in Runtimes /\ "cold" \in Runtimes /\ Fresh \in Ages
      BY DEF Runtimes, Ages, Fresh, PastStale
    <3> QED
      BY <1>6, <3>1, Zenon DEF StampWarm, StampCold, Refresh, Cas
  <2>3. /\ r \in Rows /\ r.status = row[J(t)].status /\ r.claim = row[J(t)].claim
        /\ r.deferred = row[J(t)].deferred
    BY <2>1, <2>2 DEF Rows
  <2>4. th'[t].pc \in {"fetch", "launch", "seal", "release"}
    BY <1>6, <1>g DEF StampWarm, StampCold, Refresh, Cas
  <2> QED
    BY <2>1, <2>2, <2>3, <2>4, CasStays DEF RowActs
<1>7. CASE Fetch(t)
  <2>1. J(t) \in Jobs /\ row[J(t)] \in Rows /\ th[t].pc = "fetch"
    BY <1>7, <1>a DEF Fetch, At
  <2> DEFINE r == [row[J(t)] EXCEPT !.attempts = 0]
  <2>2. /\ r \in Rows /\ r.status = row[J(t)].status /\ r.claim = row[J(t)].claim
        /\ r.deferred = row[J(t)].deferred
    BY <2>1 DEF Rows
  <2>3. UpdateIfStatus(J(t), "running", C(t), r) \/ UNCHANGED storeVars
    BY <1>7 DEF Fetch
  <2>4. th'[t].pc \in {"guest", "stampc"}
    BY <1>7, <1>g DEF Fetch
  <2> HIDE DEF r
  <2>5. issued' = issued /\ \A j \in Jobs : SameRow(j)
    BY <2>1, <2>2, <2>3, CasStays DEF storeVars, SameRow
  <2> QED
    BY <2>1, <2>4, <2>5 DEF RowActs
<1>8. CASE FetchFails(t)
  <2>1. /\ J(t) \in Jobs /\ row[J(t)] \in Rows /\ th[t].pc = "fetch"
        /\ th[t].attempts + 1 \in 1..MaxAttempts
    BY <1>8, <1>a DEF FetchFails, At
  <2> DEFINE r == FetchFailed(row[J(t)], th[t].attempts + 1)
  <2>2. r \in Rows
    BY <2>1, FetchFailedRow
  <2>3. \/ r.status = "failed" /\ r.claim = row[J(t)].claim
        \/ r.status = "queued" /\ r.claim = NoClaim /\ r.deferred
    BY <2>1, FetchFailedEnds
  <2>4. UpdateIfStatus(J(t), "running", C(t), r) /\ th'[t].pc = "fetchdrop"
    BY <1>8, <1>g DEF FetchFails
  <2> HIDE DEF r
  <2> QED
    BY <2>1, <2>2, <2>3, <2>4, CasStops DEF RowActs, Working
<1> QED
  BY <1>1, <1>2, <1>3, <1>4, <1>5, <1>6, <1>7, <1>8 DEF ThreadStep

-------------------------------------------------------------------------------
\* What a step of thread t does to the scratch trees: it makes the output directory
\* its own, seals it, or removes a tree; input is dropped only in a clean-up.
TreeActs(t) ==
  /\ \A n \in Nodes, j \in Jobs :
       \/ disk'[n][j].by = disk[n][j].by /\ disk'[n][j].stage = disk[n][j].stage
       \/ disk'[n][j].by = NoClaim /\ n = N(t) /\ j = J(t) /\ th[t].pc = "pgdel"
       \/ n = N(t) /\ j = J(t) /\ th[t].pc \in {"launch", "seal"}
  /\ \A n \in Nodes, j \in Jobs : disk[n][j].input =>
       \/ disk'[n][j].input
       \/ n = N(t) /\ j = J(t) /\ th[t].pc \in {"fetchdrop", "indel", "pgdel"}
  /\ th[t].pc = "launch" => disk'[N(t)][J(t)].by = C(t)
  /\ th[t].pc = "seal" /\ th'[t].pc = "check" =>
       /\ disk'[N(t)][J(t)].stage = "sealed"
       /\ disk'[N(t)][J(t)].by = IF th[t].warm THEN C(t) ELSE Tree(t).by
  /\ th[t].pc = "fetch" /\ th'[t].pc \in {"guest", "stampc"} => disk'[N(t)][J(t)].input

LEMMA TreeSet ==
  ASSUME TypeInv, NEW n \in Nodes, NEW j \in Jobs, NEW d, SetTree(n, j, d)
  PROVE  /\ disk'[n][j] = d
         /\ \A m \in Nodes, i \in Jobs : m # n \/ i # j => disk'[m][i] = disk[m][i]
<1>1. disk \in [Nodes -> [Jobs -> Trees]]
  BY DEF TypeInv, DiskInv
<1>2. disk[n] \in [Jobs -> Trees]
  BY <1>1
<1>3. disk' = [disk EXCEPT ![n] = [disk[n] EXCEPT ![j] = d]]
  BY DEF SetTree
<1> QED
  BY <1>1, <1>2, <1>3

LEMMA StepTree ==
  ASSUME TypeInv, NEW t \in Threads, Claim(t) \/ ThreadStep(t)
  PROVE  TreeActs(t)
<1>a. th[t].pc # "idle" =>
        /\ J(t) \in Jobs /\ C(t) \in ClaimIds /\ N(t) \in Nodes /\ Tree(t) \in Trees
  BY ThreadInHand
<1>t. th \in [Threads -> ThreadStates]
  BY DEF TypeInv, ThInv
<1>g. \A p : Go(t, p) => th'[t].pc = p
  BY <1>t DEF Go, ThreadStates
<1>1. CASE \/ Claim(t) \/ Refuse(t) \/ NoHeadroom(t) \/ AdmitWarm(t) \/ AdmitCold(t)
           \/ StampWarm(t) \/ FetchFails(t) \/ Reject(t) \/ EgressDefer(t) \/ StampCold(t)
           \/ BoxDone(t) \/ BoxKilled(t) \/ BoxOrphaned(t) \/ GuestDone(t) \/ GuestFails(t)
           \/ Refresh(t) \/ SealFails(t)
  <2>1. disk' = disk
    BY <1>1 DEF Claim, Refuse, NoHeadroom, AdmitWarm, AdmitCold, StampWarm, FetchFails, Reject,
       EgressDefer, StampCold, BoxDone, BoxKilled, BoxOrphaned, GuestDone, GuestFails, Refresh,
       SealFails, localVars
  <2>2. /\ th[t].pc # "launch"
        /\ th[t].pc = "fetch" => Go(t, "fetchdrop") \/ Go(t, "fail")
        /\ th[t].pc = "seal" => Go(t, "fail")
    BY <1>1 DEF Claim, Refuse, NoHeadroom, AdmitWarm, AdmitCold, StampWarm, FetchFails, Reject,
       EgressDefer, StampCold, BoxDone, BoxKilled, BoxOrphaned, GuestDone, GuestFails, Refresh,
       SealFails, At
  <2> QED
    BY <2>1, <2>2, <1>g DEF TreeActs
<1>2. CASE \/ Check(t) \/ PutBody(t) \/ PutSeal(t)
           \/ PutFails(t) \/ ReapCheck(t) \/ Reap(t) \/ Keep(t) \/ Commit(t) \/ Fail(t)
           \/ Raise(t) \/ InRead(t) \/ PgRead(t)
  <2>1. disk' = disk
    BY <1>2 DEF Check, PutBody, PutSeal, PutFails, ReapCheck, Reap, Keep, Commit, Fail, Raise,
       InRead, PgRead, localVars
  <2>2. /\ th[t].pc # "launch" /\ th[t].pc # "seal"
        /\ th[t].pc = "fetch" => Go(t, "release")
    BY <1>2 DEF Check, PutBody, PutSeal, PutFails, ReapCheck, Reap, Keep, Commit, Fail, Raise,
       InRead, PgRead, At
  <2> QED
    BY <2>1, <2>2, <1>g DEF TreeActs
<1>3. CASE FetchDrop(t) \/ InDel(t) \/ PgDel(t)
  <2>1. PICK d : /\ SetTree(N(t), J(t), d)
                 /\ \/ d = [Tree(t) EXCEPT !.input = FALSE]
                    \/ d = NoTree /\ th[t].pc = "pgdel"
    BY <1>3 DEF FetchDrop, InDel, PgDel, At
  <2>2. th[t].pc \in {"fetchdrop", "indel", "pgdel"}
    BY <1>3 DEF FetchDrop, InDel, PgDel, At
  <2>3. \/ d.by = Tree(t).by /\ d.stage = Tree(t).stage
        \/ d.by = NoClaim /\ th[t].pc = "pgdel"
    BY <2>1, <2>2, <1>a DEF Trees, NoTree
  <2> QED
    BY <2>1, <2>2, <2>3, <1>a, TreeSet DEF TreeActs, Tree
<1>4. CASE Fetch(t) \/ Mark(t) \/ Unmark(t) \/ Release(t)
  <2>1. th[t].pc \in {"fetch", "mark", "unmark", "release"} /\ Tree(t) \in Trees
    BY <1>4, <1>a DEF Fetch, Mark, Unmark, Release, At
  <2>2. \/ disk' = disk /\ th[t].pc # "fetch"
        \/ \E d : /\ SetTree(N(t), J(t), d)
                  /\ \/ d = [Tree(t) EXCEPT !.input = TRUE]
                     \/ /\ th[t].pc # "fetch"
                        /\ \/ d = Tree(t) \/ d = [Tree(t) EXCEPT !.orphan = TRUE]
                           \/ \E c \in ClaimIds : d = [Tree(t) EXCEPT !.marker = c]
    <3>1. CASE Fetch(t)
      BY <3>1 DEF Fetch
    <3>2. CASE Release(t)
      BY <3>2 DEF Release, At
    <3>3. CASE Mark(t)
      <4>1. th[t].pc = "mark" /\ C(t) \in ClaimIds
        BY <3>3, <1>a DEF Mark, At
      <4>2. \/ SetTree(N(t), J(t), Tree(t))
            \/ SetTree(N(t), J(t), [Tree(t) EXCEPT !.marker = C(t)])
        BY <3>3 DEF Mark
      <4> QED
        BY <4>1, <4>2
    <3>4. CASE Unmark(t)
      <4>1. th[t].pc = "unmark" /\ NoClaim \in ClaimIds
        BY <3>4, JobStoreAssumption DEF Unmark, At, NoClaim, ClaimIds
      <4>2. \/ SetTree(N(t), J(t), Tree(t))
            \/ SetTree(N(t), J(t), [Tree(t) EXCEPT !.marker = NoClaim])
        BY <3>4 DEF Unmark
      <4> QED
        BY <4>1, <4>2
    <3> QED
      BY <1>4, <3>1, <3>2, <3>3, <3>4
  <2>3. CASE disk' = disk /\ th[t].pc # "fetch"
    BY <2>1, <2>3 DEF TreeActs
  <2>4. ASSUME NEW d, SetTree(N(t), J(t), d), 
               \/ d = [Tree(t) EXCEPT !.input = TRUE]
               \/ /\ th[t].pc # "fetch"
                  /\ \/ d = Tree(t) \/ d = [Tree(t) EXCEPT !.orphan = TRUE]
                     \/ \E c \in ClaimIds : d = [Tree(t) EXCEPT !.marker = c]
        PROVE  TreeActs(t)
    <3>1. /\ d.by = Tree(t).by /\ d.stage = Tree(t).stage
          /\ Tree(t).input => d.input
          /\ th[t].pc = "fetch" => d.input
      BY <2>1, <2>4 DEF Trees
    <3>2. J(t) \in Jobs /\ N(t) \in Nodes
      BY <2>1, <1>a
    <3>3. /\ disk'[N(t)][J(t)] = d
          /\ \A m \in Nodes, i \in Jobs : m # N(t) \/ i # J(t) => disk'[m][i] = disk[m][i]
      BY <2>4, <3>2, TreeSet
    <3>4. th[t].pc \notin {"launch", "seal"}
      BY <2>1
    <3> HIDE <2>4
    <3> QED
      BY <3>1, <3>2, <3>3, <3>4 DEF TreeActs, Tree
  <2> QED
    BY <2>2, <2>3, <2>4
<1>5. CASE Launch(t) \/ LaunchFails(t)
  <2>1. th[t].pc = "launch" /\ Tree(t) \in Trees /\ J(t) \in Jobs /\ N(t) \in Nodes
    BY <1>5, <1>a DEF Launch, LaunchFails, At
  <2>2. PICK d : /\ SetTree(N(t), J(t), d)
                 /\ d = [Tree(t) EXCEPT !.by = C(t), !.stage = "empty"]
    BY <1>5 DEF Launch, LaunchFails
  <2>3. d.by = C(t) /\ d.input = Tree(t).input
    BY <2>1, <2>2 DEF Trees
  <2>4. /\ disk'[N(t)][J(t)] = d
        /\ \A m \in Nodes, i \in Jobs : m # N(t) \/ i # J(t) => disk'[m][i] = disk[m][i]
    BY <2>1, <2>2, TreeSet
  <2> HIDE <2>2
  <2> QED
    BY <2>1, <2>3, <2>4 DEF TreeActs, Tree
<1>6. CASE Seal(t)
  <2>1. th[t].pc = "seal" /\ Tree(t) \in Trees /\ J(t) \in Jobs /\ N(t) \in Nodes
    BY <1>6, <1>a DEF Seal, At
  <2>2. PICK d : /\ SetTree(N(t), J(t), d)
                 /\ d = IF th[t].warm THEN [Tree(t) EXCEPT !.by = C(t), !.stage = "sealed"]
                           ELSE [Tree(t) EXCEPT !.stage = "sealed"]
    BY <1>6 DEF Seal
  <2>3. /\ d.stage = "sealed" /\ d.input = Tree(t).input
        /\ d.by = IF th[t].warm THEN C(t) ELSE Tree(t).by
    BY <2>1, <2>2 DEF Trees
  <2>4. /\ disk'[N(t)][J(t)] = d
        /\ \A m \in Nodes, i \in Jobs : m # N(t) \/ i # J(t) => disk'[m][i] = disk[m][i]
    BY <2>1, <2>2, TreeSet
  <2> HIDE <2>2
  <2> QED
    BY <2>1, <2>3, <2>4 DEF TreeActs, Tree
<1> QED
  BY <1>1, <1>2, <1>3, <1>4, <1>5, <1>6 DEF ThreadStep

-------------------------------------------------------------------------------
\* What a step of thread t does to the containers, to the stored results and to the
\* gate; the maintenance threads it leaves alone.
BoxActs(t) ==
  /\ \A n \in Nodes, j \in Jobs :
       \/ box'[n][j] \in {box[n][j], NoClaim}
       \/ /\ n = N(t) /\ j = J(t) /\ box'[n][j] = C(t)
          /\ th[t].pc = "launch" /\ th'[t].pc = "boxed"
  /\ th[t].pc \in {"launch", "boxed"} /\ th'[t].pc = "seal" => box' = box
  /\ th[t].pc = "boxed" /\ th'[t].pc = "seal" => box[N(t)][J(t)] # C(t)
  /\ th[t].pc = "boxed" /\ th'[t].pc = "fail" /\ ~th'[t].orphan =>
       box'[N(t)][J(t)] = NoClaim \/ box'[N(t)][J(t)] # C(t)

BlobActs(t) ==
  /\ \A j \in Jobs :
       \/ blob'[j] = blob[j]
       \/ /\ j = J(t)
          /\ \/ th[t].pc = "body" /\ th'[t].pc = "putseal" /\ blob'[j].seal = blob[j].seal
             \/ th[t].pc = "putseal" /\ th'[t].pc = "commit" /\ blob'[j].seal = Tree(t).by
             \/ th[t].pc = "reap" /\ blob'[j] = NoBlob
  /\ th[t].pc = "body" /\ th'[t].pc = "putseal" =>
       /\ Tree(t).by # NoClaim
       /\ Tree(t).stage # "empty" => blob'[J(t)].body = Tree(t).by
  /\ th[t].pc = "putseal" /\ th'[t].pc = "commit" =>
       /\ Tree(t).by # NoClaim /\ blob'[J(t)].body = blob[J(t)].body
       /\ Tree(t).stage # "empty" => blob'[J(t)].seal = Tree(t).by

GateActs(t) ==
  /\ permits' = IF th[t].pc = "admit" /\ th'[t].pc = "fetch"
                  THEN [permits EXCEPT ![N(t)] = @ + 1]
                ELSE IF th[t].pc = "release" /\ ~th[t].orphan /\ ~th[t].warm
                  THEN Returned(N(t))
                ELSE permits
  /\ orphans' = IF th[t].pc = "release" /\ th[t].orphan
                  THEN [orphans EXCEPT ![N(t)][J(t)] = C(t)] ELSE orphans
  /\ th[t].pc = "admit" /\ th'[t].pc = "fetch" => permits[N(t)] < Limit
  /\ mt' = mt

LEMMA StepBox ==
  ASSUME TypeInv, NEW t \in Threads, Claim(t) \/ ThreadStep(t)
  PROVE  BoxActs(t)
<1>a. th[t].pc # "idle" => J(t) \in Jobs /\ N(t) \in Nodes
  BY ThreadInHand
<1>t. th \in [Threads -> ThreadStates] /\ box \in [Nodes -> [Jobs -> ClaimIds]]
  BY DEF TypeInv, ThInv, BoxInv
<1>g. \A p : Go(t, p) => th'[t].pc = p
  BY <1>t DEF Go, ThreadStates
<1>1. CASE \/ Claim(t) \/ Refuse(t) \/ NoHeadroom(t) \/ AdmitWarm(t) \/ AdmitCold(t)
           \/ StampWarm(t) \/ Fetch(t) \/ FetchFails(t) \/ FetchDrop(t) \/ Reject(t)
           \/ EgressDefer(t) \/ StampCold(t) \/ LaunchFails(t) \/ BoxDone(t) \/ BoxOrphaned(t)
           \/ GuestDone(t) \/ GuestFails(t) \/ Refresh(t) \/ Seal(t) \/ SealFails(t)
  <2>1. box' = box
    BY <1>1 DEF Claim, Refuse, NoHeadroom, AdmitWarm, AdmitCold, StampWarm, Fetch, FetchFails,
       FetchDrop, Reject, EgressDefer, StampCold, LaunchFails, BoxDone, BoxOrphaned, GuestDone,
       GuestFails, Refresh, Seal, SealFails, localVars
  <2>2. /\ th[t].pc = "boxed" /\ th'[t].pc = "seal" => box[N(t)][J(t)] # C(t)
        /\ th[t].pc = "boxed" /\ th'[t].pc = "fail" => th'[t].orphan
    <3>1. CASE BoxOrphaned(t)
      BY <3>1, <1>t DEF BoxOrphaned, ThreadStates
    <3>2. CASE ~BoxOrphaned(t)
      <4>1. th[t].pc = "boxed" => Go(t, "seal") /\ box[N(t)][J(t)] # C(t)
        BY <1>1, <3>2 DEF Claim, Refuse, NoHeadroom, AdmitWarm, AdmitCold, StampWarm, Fetch,
           FetchFails, FetchDrop, Reject, EgressDefer, StampCold, LaunchFails, BoxDone,
           GuestDone, GuestFails, Refresh, Seal, SealFails, At
      <4> QED
        BY <4>1, <1>g
    <3> QED
      BY <3>1, <3>2
  <2> QED
    BY <2>1, <2>2 DEF BoxActs
<1>2. CASE \/ Check(t) \/ PutBody(t) \/ PutSeal(t) \/ PutFails(t) \/ ReapCheck(t) \/ Reap(t)
           \/ Mark(t) \/ Keep(t) \/ Unmark(t) \/ Commit(t) \/ Fail(t) \/ Raise(t) \/ Release(t)
           \/ InRead(t) \/ InDel(t) \/ PgRead(t) \/ PgDel(t)
  <2>1. box' = box /\ th[t].pc # "boxed"
    BY <1>2 DEF Check, PutBody, PutSeal, PutFails, ReapCheck, Reap, Mark, Keep, Unmark, Commit,
       Fail, Raise, Release, InRead, InDel, PgRead, PgDel, localVars, At
  <2> QED
    BY <2>1 DEF BoxActs
<1>3. CASE Launch(t)
  <2>1. th[t].pc = "launch" /\ J(t) \in Jobs /\ N(t) \in Nodes
    BY <1>3, <1>a DEF Launch, At
  <2>2. \/ box' = [box EXCEPT ![N(t)][J(t)] = C(t)] /\ Go(t, "boxed")
        \/ box' = box /\ Go(t, "seal")
    BY <1>3 DEF Launch
  <2>3. CASE box' = [box EXCEPT ![N(t)][J(t)] = C(t)] /\ Go(t, "boxed")
    <3>1. th'[t].pc = "boxed"
      BY <2>3, <1>g
    <3>2. \A n \in Nodes, j \in Jobs :
            \/ box'[n][j] = box[n][j]
            \/ n = N(t) /\ j = J(t) /\ box'[n][j] = C(t)
      BY <2>1, <2>3, <1>t
    <3> QED
      BY <2>1, <3>1, <3>2 DEF BoxActs
  <2>4. CASE box' = box /\ Go(t, "seal")
    BY <2>1, <2>4 DEF BoxActs
  <2> QED
    BY <2>2, <2>3, <2>4
<1>4. CASE BoxKilled(t)
  <2>1. th[t].pc = "boxed" /\ J(t) \in Jobs /\ N(t) \in Nodes /\ Go(t, "fail")
    BY <1>4, <1>a DEF BoxKilled, At
  <2>2. PICK c \in {box[N(t)][J(t)], NoClaim} :
          box' = [box EXCEPT ![N(t)][J(t)] = c] /\ (c = NoClaim \/ c # C(t))
    BY <1>4, <2>1, <1>t DEF BoxKilled
  <2>3. \A n \in Nodes, j \in Jobs : box'[n][j] \in {box[n][j], NoClaim}
    BY <2>1, <2>2, <1>t
  <2>4. box'[N(t)][J(t)] = c
    BY <2>1, <2>2, <1>t
  <2> QED
    BY <2>1, <2>2, <2>3, <2>4, <1>g DEF BoxActs
<1> QED
  BY <1>1, <1>2, <1>3, <1>4 DEF ThreadStep

LEMMA StepBlob ==
  ASSUME TypeInv, NEW t \in Threads, Claim(t) \/ ThreadStep(t)
  PROVE  BlobActs(t)
<1>a. th[t].pc # "idle" => J(t) \in Jobs
  BY ThreadInHand
<1>t. th \in [Threads -> ThreadStates] /\ blob \in [Jobs -> Blobs]
  BY DEF TypeInv, ThInv, BlobInv
<1>g. \A p : Go(t, p) => th'[t].pc = p
  BY <1>t DEF Go, ThreadStates
<1>1. CASE \/ Claim(t) \/ Refuse(t) \/ NoHeadroom(t) \/ AdmitWarm(t) \/ AdmitCold(t)
           \/ StampWarm(t) \/ Fetch(t) \/ FetchFails(t) \/ FetchDrop(t) \/ Reject(t)
           \/ EgressDefer(t) \/ StampCold(t) \/ Launch(t) \/ LaunchFails(t) \/ BoxDone(t)
           \/ BoxKilled(t) \/ BoxOrphaned(t) \/ GuestDone(t) \/ GuestFails(t) \/ Refresh(t)
           \/ Seal(t) \/ SealFails(t)
  <2>1. blob' = blob /\ th[t].pc \notin {"body", "putseal"}
    BY <1>1 DEF Claim, Refuse, NoHeadroom, AdmitWarm, AdmitCold, StampWarm, Fetch, FetchFails,
       FetchDrop, Reject, EgressDefer, StampCold, Launch, LaunchFails, BoxDone, BoxKilled,
       BoxOrphaned, GuestDone, GuestFails, Refresh, Seal, SealFails, localVars, At
  <2> QED
    BY <2>1 DEF BlobActs
<1>2. CASE \/ Check(t) \/ PutFails(t) \/ ReapCheck(t)
           \/ Mark(t) \/ Keep(t) \/ Unmark(t) \/ Commit(t) \/ Fail(t) \/ Raise(t) \/ Release(t)
           \/ InRead(t) \/ InDel(t) \/ PgRead(t) \/ PgDel(t)
  <2>1. blob' = blob /\ (th[t].pc \in {"body", "putseal"} => Go(t, "reapcheck"))
    BY <1>2 DEF Check, PutFails, ReapCheck, Mark, Keep, Unmark, Commit,
       Fail, Raise, Release, InRead, InDel, PgRead, PgDel, localVars, At
  <2> QED
    BY <2>1, <1>g DEF BlobActs
<1>3. CASE Reap(t)
  <2>1. th[t].pc = "reap" /\ J(t) \in Jobs
    BY <1>3, <1>a DEF Reap, At
  <2>2. blob' = blob \/ blob' = [blob EXCEPT ![J(t)] = NoBlob]
    BY <1>3 DEF Reap
  <2> QED
    BY <2>1, <2>2, <1>t DEF BlobActs
<1>4. CASE PutBody(t)
  <2>1. /\ th[t].pc = "body" /\ J(t) \in Jobs /\ Tree(t).by # NoClaim /\ Go(t, "putseal")
        /\ blob[J(t)] \in Blobs
    BY <1>4, <1>a, <1>t DEF PutBody, At
  <2>2. \/ Tree(t).stage = "empty" /\ blob' = blob
        \/ blob' = [blob EXCEPT ![J(t)] = [blob[J(t)] EXCEPT !.body = Tree(t).by]]
    BY <1>4 DEF PutBody
  <2>3. /\ \A j \in Jobs : j # J(t) => blob'[j] = blob[j]
        /\ \/ Tree(t).stage = "empty" /\ blob'[J(t)] = blob[J(t)]
           \/ blob'[J(t)] = [blob[J(t)] EXCEPT !.body = Tree(t).by]
    BY <2>1, <2>2, <1>t
  <2>4. /\ blob'[J(t)].seal = blob[J(t)].seal
        /\ Tree(t).stage # "empty" => blob'[J(t)].body = Tree(t).by
    BY <2>1, <2>3 DEF Blobs
  <2> QED
    BY <2>1, <2>3, <2>4, <1>g DEF BlobActs
<1>5. CASE PutSeal(t)
  <2>1. /\ th[t].pc = "putseal" /\ J(t) \in Jobs /\ Tree(t).by # NoClaim /\ Go(t, "commit")
        /\ blob[J(t)] \in Blobs
    BY <1>5, <1>a, <1>t DEF PutSeal, At
  <2>2. \/ Tree(t).stage = "empty" /\ blob' = blob
        \/ blob' = [blob EXCEPT ![J(t)] = [blob[J(t)] EXCEPT !.seal = Tree(t).by]]
    BY <1>5 DEF PutSeal
  <2>3. /\ \A j \in Jobs : j # J(t) => blob'[j] = blob[j]
        /\ \/ Tree(t).stage = "empty" /\ blob'[J(t)] = blob[J(t)]
           \/ blob'[J(t)] = [blob[J(t)] EXCEPT !.seal = Tree(t).by]
    BY <2>1, <2>2, <1>t
  <2> QED
    BY <2>1, <2>3, <1>g DEF BlobActs, Blobs
<1> QED
  BY <1>1, <1>2, <1>3, <1>4, <1>5 DEF ThreadStep

LEMMA StepGate ==
  ASSUME TypeInv, NEW t \in Threads, Claim(t) \/ ThreadStep(t)
  PROVE  GateActs(t)
<1>t. th \in [Threads -> ThreadStates]
  BY DEF TypeInv, ThInv
<1>g. \A p : Go(t, p) => th'[t].pc = p
  BY <1>t DEF Go, ThreadStates
<1>1. CASE \/ Claim(t) \/ Refuse(t) \/ NoHeadroom(t) \/ AdmitWarm(t)
           \/ StampWarm(t) \/ Fetch(t) \/ FetchFails(t) \/ FetchDrop(t) \/ Reject(t)
           \/ EgressDefer(t) \/ StampCold(t) \/ Launch(t) \/ LaunchFails(t) \/ BoxDone(t)
           \/ BoxKilled(t) \/ BoxOrphaned(t) \/ GuestDone(t) \/ GuestFails(t) \/ Refresh(t)
           \/ Seal(t) \/ SealFails(t)
  <2>1. /\ permits' = permits /\ orphans' = orphans /\ mt' = mt
        /\ th[t].pc # "release"
    BY <1>1 DEF Claim, Refuse, NoHeadroom, AdmitWarm, StampWarm, Fetch, FetchFails,
       FetchDrop, Reject, EgressDefer, StampCold, Launch, LaunchFails, BoxDone, BoxKilled,
       BoxOrphaned, GuestDone, GuestFails, Refresh, Seal, SealFails, localVars, At
  <2>2. th[t].pc = "admit" => th'[t].pc # "fetch"
    <3>1. th[t].pc = "admit" => AdmitWarm(t) \/ th' = [th EXCEPT ![t] = IdleThread]
      BY <1>1 DEF Claim, Refuse, NoHeadroom, AdmitWarm, StampWarm, Fetch, FetchFails,
       FetchDrop, Reject, EgressDefer, StampCold, Launch, LaunchFails, BoxDone, BoxKilled,
       BoxOrphaned, GuestDone, GuestFails, Refresh, Seal, SealFails, At
    <3> QED
      <4>1. CASE AdmitWarm(t)
        BY <4>1, <1>t DEF AdmitWarm, ThreadStates
      <4>2. CASE th' = [th EXCEPT ![t] = IdleThread]
        BY <4>2, <1>t DEF IdleThread
      <4> QED
        BY <3>1, <4>1, <4>2
  <2> QED
    BY <2>1, <2>2 DEF GateActs
<1>2. CASE \/ Check(t) \/ PutBody(t) \/ PutSeal(t) \/ PutFails(t) \/ ReapCheck(t) \/ Reap(t)
           \/ Mark(t) \/ Keep(t) \/ Unmark(t) \/ Commit(t) \/ Fail(t) \/ Raise(t)
           \/ InRead(t) \/ InDel(t) \/ PgRead(t) \/ PgDel(t)
  <2>1. /\ permits' = permits /\ orphans' = orphans /\ mt' = mt
        /\ th[t].pc \notin {"release", "admit"}
    BY <1>2 DEF Check, PutBody, PutSeal, PutFails, ReapCheck, Reap, Mark, Keep, Unmark, Commit,
       Fail, Raise, InRead, InDel, PgRead, PgDel, localVars, At
  <2> QED
    BY <2>1 DEF GateActs
<1>3. CASE AdmitCold(t)
  BY <1>3, <1>g DEF AdmitCold, At, GateActs
<1>4. CASE Release(t)
  BY <1>4, <1>g DEF Release, At, GateActs
<1> QED
  BY <1>1, <1>2, <1>3, <1>4 DEF ThreadStep

-------------------------------------------------------------------------------
\* The steps that are not a dispatch thread's: the ingress, clocks, containers, the
\* maintenance threads and crashes.
Aside ==
  \/ \E j \in Jobs : Submit(j) \/ Elapse(j)
  \/ \E n \in Nodes : MaintStep(n) \/ Crash(n)
  \/ \E n \in Nodes, j \in Jobs : MaintBegin(n, j) \/ BoxExits(n, j)

\* A sweep has found that nobody works under the claim it read any more.
Judged(n) ==
  \/ mt[n].pc = "gone"
  \/ mt[n].pc = "judge" /\ mt[n].runtime = "warm" /\ mt[n].age = PastStale

\* Such a sweep ends the claim of row j.
Sweeps(n, j) ==
  Judged(n) /\ mt[n].job = j /\ row[j].status = "running" /\ row[j].claim = mt[n].claim

RowAside ==
  /\ issued' = issued
  /\ \A j \in Jobs :
       \/ /\ row'[j].status = row[j].status /\ row'[j].claim = row[j].claim
          /\ row'[j].deferred = row[j].deferred \/ Settled(j)
       \/ /\ row[j].status = "absent" /\ j > submitted
          /\ row'[j].status = "queued" /\ row'[j].claim = NoClaim
       \/ row[j].status = "queued" /\ row'[j].status = "failed" /\ row'[j].claim = row[j].claim
       \/ \E n \in Nodes :
            /\ Sweeps(n, j)
            /\ \/ row'[j].status = "queued" /\ row'[j].claim = NoClaim
               \/ row'[j].status = "failed" /\ row'[j].claim = row[j].claim

ThreadsAside == \A t \in Threads : th'[t] = th[t] \/ th'[t] = IdleThread

\* A maintenance thread goes from one pass to the next with what it has read.
Lists(n) ==
  /\ mt[n].pc = "idle" /\ mt'[n].pc = "judge" /\ mt'[n].job \in Jobs
  /\ row[mt'[n].job].claim = mt'[n].claim
  /\ mt'[n].runtime = "warm" /\ mt'[n].age = PastStale => Abandoned(mt'[n].claim)

Finds(n) ==
  mt[n].pc = "judge" /\ Abandoned(mt[n].claim) /\ mt'[n].pc = "gone"
  /\ mt'[n].job = mt[n].job /\ mt'[n].claim = mt[n].claim

Reconciles(n) ==
  \/ /\ mt[n].pc = "idle" /\ mt'[n].pc = "rcps" /\ mt'[n].claim = NoClaim
     /\ orphans[n][mt'[n].job] # NoClaim
  \/ /\ mt[n].pc = "rcps" /\ mt'[n].pc = "rcpop" /\ box[n][mt[n].job] = NoClaim
     /\ mt'[n].job = mt[n].job /\ mt'[n].claim = mt[n].claim
  \/ /\ mt[n].pc = "rcpop" /\ mt'[n].pc = "rcread"
     /\ mt'[n].job = mt[n].job /\ mt'[n].claim = orphans[n][mt[n].job]
  \/ /\ mt[n].pc = "rcread" /\ mt'[n].pc = "rcdel" /\ OwnsTree(mt[n].job, mt[n].claim)
     /\ mt'[n].job = mt[n].job /\ mt'[n].claim = mt[n].claim

MaintAside ==
  \A n \in Nodes :
    mt'[n] = mt[n] \/ mt'[n] = IdleMaint \/ Lists(n) \/ Finds(n) \/ Reconciles(n)

\* The gate of node n is left alone, gets back a retained permit, or dies with its
\* process.
Undisturbed(n) == \A t \in Threads : N(t) = n => th'[t] = th[t]
Regains(n) == mt[n].pc = "rcpop" /\ mt'[n].pc = "rcread"

GateAside ==
  \A n \in Nodes :
    \/ /\ permits'[n] = permits[n] /\ orphans'[n] = orphans[n]
       /\ Undisturbed(n) /\ ~Regains(n)
    \/ /\ Regains(n) /\ Undisturbed(n)
       /\ permits'[n] = IF permits[n] > 0 THEN permits[n] - 1 ELSE 0
       /\ orphans'[n] = [orphans[n] EXCEPT ![mt[n].job] = NoClaim]
    \/ /\ crashes' = crashes + 1 /\ mt'[n] = IdleMaint
       /\ permits'[n] = 0 /\ orphans'[n] = [j \in Jobs |-> NoClaim]
       /\ \A t \in Threads : N(t) = n => th'[t] = IdleThread

TreeAside ==
  \A n \in Nodes, j \in Jobs :
    /\ \/ disk'[n][j].by = disk[n][j].by /\ disk'[n][j].stage = disk[n][j].stage
       \/ disk'[n][j].by = NoClaim /\ mt[n].pc = "rcdel" /\ mt[n].job = j
       \/ /\ disk'[n][j].by = disk[n][j].by
          /\ disk[n][j].by = box[n][j] /\ box[n][j] # NoClaim
    /\ disk[n][j].input =>
         \/ disk'[n][j].input
         \/ row[j].status = "queued"
         \/ Sweeps(n, j)
         \/ mt[n].pc = "rcdel" /\ mt[n].job = j

BoxAside == \A n \in Nodes, j \in Jobs : box'[n][j] \in {box[n][j], NoClaim}

LEMMA AsideRow ==
  ASSUME TypeInv, AbsentInv, Aside
  PROVE  RowAside
<1>a. row \in [Jobs -> Rows] /\ submitted \in 0..NJobs
  BY DEF TypeInv, RowInv
<1>1. ASSUME NEW j \in Jobs, Submit(j) PROVE RowAside
  <2>1. /\ row[j].status = "absent" /\ j > submitted /\ issued' = issued
        /\ row' = [row EXCEPT ![j] = NewRow]
    BY <1>1, <1>a, JobStoreAssumption DEF Submit, Create, AbsentInv, Jobs
  <2>2. NewRow.status = "queued" /\ NewRow.claim = NoClaim
    BY DEF NewRow, NoRow
  <2> QED
    BY <1>a, <2>1, <2>2 DEF RowAside
<1>2. ASSUME NEW j \in Jobs, Elapse(j) PROVE RowAside
  <2>a. row[j] \in Rows
    BY <1>a
  <2>1. CASE Age(j)
    <3>1. row' = [row EXCEPT ![j] = [row[j] EXCEPT !.age = row[j].age + 1]] /\ issued' = issued
      BY <2>1 DEF Age
    <3> QED
      BY <1>a, <2>a, <3>1 DEF RowAside, Rows
  <2>2. CASE BecomeClaimable(j) /\ Settled(j)
    <3>1. row' = [row EXCEPT ![j] = [row[j] EXCEPT !.deferred = FALSE]] /\ issued' = issued
      BY <2>2 DEF BecomeClaimable
    <3> QED
      BY <1>a, <2>2, <2>a, <3>1 DEF RowAside, Rows
  <2> QED
    BY <1>2, <2>1, <2>2 DEF Elapse
<1>3. ASSUME NEW n \in Nodes, SweepWarm(n) \/ SweepRequeue(n) PROVE RowAside
  <2>1. mt[n].job \in Jobs /\ row[mt[n].job] \in Rows
    BY <1>3, MaintInHand DEF SweepWarm, SweepRequeue
  <2>2. Judged(n)
    BY <1>3 DEF SweepWarm, SweepRequeue, Judged
  <2>3. PICK r \in Rows : /\ UpdateIfStatus(mt[n].job, "running", mt[n].claim, r)
                          /\ \/ r.status = "queued" /\ r.claim = NoClaim
                             \/ r.status = "failed" /\ r.claim = row[mt[n].job].claim
    <3>1. CASE SweepWarm(n)
      <4>1. PICK b \in BOOLEAN :
              UpdateIfStatus(mt[n].job, "running", mt[n].claim, Failed(row[mt[n].job], b))
        BY <3>1 DEF SweepWarm
      <4>2. /\ Failed(row[mt[n].job], b) \in Rows
            /\ Failed(row[mt[n].job], b).status = "failed"
            /\ Failed(row[mt[n].job], b).claim = row[mt[n].job].claim
        BY <2>1, FailedClaim
      <4> QED
        BY <4>1, <4>2
    <3>2. CASE SweepRequeue(n)
      <4>1. row[mt[n].job].deferred \in BOOLEAN
        BY <2>1 DEF Rows
      <4>2. PICK b \in BOOLEAN :
              UpdateIfStatus(mt[n].job, "running", mt[n].claim, Requeued(row[mt[n].job], b))
        BY <3>2, <4>1, Zenon DEF SweepRequeue
      <4>3. /\ Requeued(row[mt[n].job], b) \in Rows
            /\ Requeued(row[mt[n].job], b).status = "queued"
            /\ Requeued(row[mt[n].job], b).claim = NoClaim
        BY <2>1, RequeuedClaim
      <4> QED
        BY <4>2, <4>3
    <3> QED
      BY <1>3, <3>1, <3>2
  <2> QED
    BY <1>a, <2>1, <2>2, <2>3 DEF RowAside, UpdateIfStatus, Matches, Sweeps
<1>4. ASSUME NEW n \in Nodes,
             \/ SweepPs(n) \/ SweepSkip(n) \/ ReconcilePs(n) \/ ReconcilePop(n)
             \/ ReconcileRead(n) \/ ReconcileDel(n) \/ Crash(n)
             \/ \E j \in Jobs : SweepList(n, j) \/ ReconcileList(n, j) \/ BoxExits(n, j)
      PROVE  RowAside
  <2>1. UNCHANGED storeVars
    BY <1>4 DEF SweepPs, SweepSkip, ReconcilePs, ReconcilePop, ReconcileRead, ReconcileDel,
       Crash, SweepList, ReconcileList, BoxExits
  <2> QED
    BY <2>1 DEF storeVars, RowAside
<1>5. ASSUME NEW n \in Nodes, NEW j \in Jobs, FailStaleQueued(n, j) PROVE RowAside
  <2>1. row[j] \in Rows
    BY <1>a
  <2>2. PICK b \in BOOLEAN : UpdateIfStatusOnly(j, "queued", Failed(row[j], b))
    BY <1>5 DEF FailStaleQueued
  <2>3. /\ row[j].status = "queued" /\ Failed(row[j], b) \in Rows
        /\ Failed(row[j], b).status = "failed" /\ Failed(row[j], b).claim = row[j].claim
    BY <1>5, <2>1, FailedClaim DEF FailStaleQueued
  <2> QED
    BY <1>a, <2>2, <2>3 DEF RowAside, UpdateIfStatusOnly
<1> QED
  BY <1>1, <1>2, <1>3, <1>4, <1>5 DEF Aside, MaintStep, MaintBegin

LEMMA AsideMaint ==
  ASSUME TypeInv, Aside
  PROVE  MaintAside
<1>a. mt \in [Nodes -> MaintStates]
  BY DEF TypeInv, MtInv
<1>1. ASSUME NEW j \in Jobs, Submit(j) \/ Elapse(j) PROVE MaintAside
  BY <1>1 DEF Submit, Elapse, localVars, MaintAside
<1>2. ASSUME NEW n \in Nodes, NEW j \in Jobs, FailStaleQueued(n, j) \/ BoxExits(n, j)
      PROVE  MaintAside
  BY <1>2 DEF FailStaleQueued, BoxExits, MaintAside
<1>3. ASSUME NEW n \in Nodes, MaintIdle(n) PROVE MaintAside
  BY <1>3, <1>a DEF MaintIdle, MaintAside
<1>4. ASSUME NEW n \in Nodes, NEW s, mt' = [mt EXCEPT ![n] = s], 
             \/ mt[n].pc = "idle" /\ s.pc = "judge" /\ s.job \in Jobs
                /\ row[s.job].claim = s.claim
                /\ (s.runtime = "warm" /\ s.age = PastStale => Abandoned(s.claim))
             \/ mt[n].pc = "judge" /\ Abandoned(mt[n].claim) /\ s.pc = "gone"
                /\ s.job = mt[n].job /\ s.claim = mt[n].claim
             \/ mt[n].pc = "idle" /\ s.pc = "rcps" /\ s.claim = NoClaim
                /\ orphans[n][s.job] # NoClaim
             \/ mt[n].pc = "rcps" /\ s.pc = "rcpop" /\ box[n][mt[n].job] = NoClaim
                /\ s.job = mt[n].job /\ s.claim = mt[n].claim
             \/ mt[n].pc = "rcpop" /\ s.pc = "rcread" /\ s.job = mt[n].job
                /\ s.claim = orphans[n][mt[n].job]
             \/ mt[n].pc = "rcread" /\ s.pc = "rcdel" /\ OwnsTree(mt[n].job, mt[n].claim)
                /\ s.job = mt[n].job /\ s.claim = mt[n].claim
      PROVE  MaintAside
  <2>1. mt'[n] = s /\ \A m \in Nodes : m # n => mt'[m] = mt[m]
    BY <1>4, <1>a
  <2> QED
    BY <1>4, <2>1 DEF MaintAside, Lists, Finds, Reconciles
<1>5. ASSUME NEW n \in Nodes, MaintStep(n) PROVE MaintAside
  <2>a. mt[n] \in MaintStates
    BY <1>a
  <2>1. CASE SweepWarm(n) \/ SweepSkip(n) \/ SweepRequeue(n) \/ ReconcileDel(n)
    BY <2>1, <1>3 DEF SweepWarm, SweepSkip, SweepRequeue, ReconcileDel
  <2>2. CASE SweepPs(n)
    <3>1. CASE MaintIdle(n)
      BY <3>1, <1>3
    <3>2. CASE ~MaintIdle(n)
      <4>1. MaintGo(n, "gone") /\ mt[n].pc = "judge" /\ Abandoned(mt[n].claim)
        BY <2>2, <3>2 DEF SweepPs
      <4> DEFINE s == [mt[n] EXCEPT !.pc = "gone"]
      <4>2. mt' = [mt EXCEPT ![n] = s]
        BY <4>1 DEF MaintGo
      <4>3. s.pc = "gone" /\ s.job = mt[n].job /\ s.claim = mt[n].claim
        BY <2>a DEF MaintStates
      <4> HIDE DEF s
      <4> QED
        BY <4>1, <4>2, <4>3, <1>4
    <3> QED
      BY <3>1, <3>2
  <2>3. CASE ReconcilePs(n)
    <3>1. CASE MaintIdle(n)
      BY <3>1, <1>3
    <3>2. CASE ~MaintIdle(n)
      <4>1. MaintGo(n, "rcpop") /\ mt[n].pc = "rcps" /\ box[n][mt[n].job] = NoClaim
        BY <2>3, <3>2 DEF ReconcilePs
      <4> DEFINE s == [mt[n] EXCEPT !.pc = "rcpop"]
      <4>2. mt' = [mt EXCEPT ![n] = s]
        BY <4>1 DEF MaintGo
      <4>3. s.pc = "rcpop" /\ s.job = mt[n].job /\ s.claim = mt[n].claim
        BY <2>a DEF MaintStates
      <4> HIDE DEF s
      <4> QED
        BY <4>1, <4>2, <4>3, <1>4
    <3> QED
      BY <3>1, <3>2
  <2>4. CASE ReconcileRead(n)
    <3>1. CASE MaintIdle(n)
      BY <3>1, <1>3
    <3>2. CASE ~MaintIdle(n)
      <4>1. MaintGo(n, "rcdel") /\ mt[n].pc = "rcread" /\ OwnsTree(mt[n].job, mt[n].claim)
        BY <2>4, <3>2 DEF ReconcileRead
      <4> DEFINE s == [mt[n] EXCEPT !.pc = "rcdel"]
      <4>2. mt' = [mt EXCEPT ![n] = s]
        BY <4>1 DEF MaintGo
      <4>3. s.pc = "rcdel" /\ s.job = mt[n].job /\ s.claim = mt[n].claim
        BY <2>a DEF MaintStates
      <4> HIDE DEF s
      <4> QED
        BY <4>1, <4>2, <4>3, <1>4
    <3> QED
      BY <3>1, <3>2
  <2>5. CASE ReconcilePop(n)
    <3> DEFINE s == [mt[n] EXCEPT !.pc = "rcread", !.claim = orphans[n][mt[n].job]]
    <3>1. mt' = [mt EXCEPT ![n] = s] /\ mt[n].pc = "rcpop"
      BY <2>5 DEF ReconcilePop
    <3>2. s.pc = "rcread" /\ s.job = mt[n].job /\ s.claim = orphans[n][mt[n].job]
      BY <2>a DEF MaintStates
    <3> HIDE DEF s
    <3> QED
      BY <3>1, <3>2, <1>4
  <2> QED
    BY <1>5, <2>1, <2>2, <2>3, <2>4, <2>5 DEF MaintStep
<1>6. ASSUME NEW n \in Nodes, NEW j \in Jobs, SweepList(n, j) PROVE MaintAside
  <2> DEFINE s == [pc |-> "judge", job |-> j, claim |-> row[j].claim, age |-> row[j].age,
                   runtime |-> row[j].runtime]
  <2>1. mt' = [mt EXCEPT ![n] = s] /\ mt[n].pc = "idle"
    BY <1>6 DEF SweepList
  <2>2. /\ s.pc = "judge" /\ s.job = j /\ s.claim = row[j].claim /\ s.age = row[j].age
        /\ s.runtime = row[j].runtime
    OBVIOUS
  <2>3. row[j].runtime = "warm" /\ row[j].age = PastStale => Abandoned(row[j].claim)
    BY <1>6 DEF SweepList
  <2> HIDE DEF s
  <2> QED
    BY <2>1, <2>2, <2>3, <1>4
<1>7. ASSUME NEW n \in Nodes, NEW j \in Jobs, ReconcileList(n, j) PROVE MaintAside
  <2> DEFINE s == [IdleMaint EXCEPT !.pc = "rcps", !.job = j]
  <2>1. mt' = [mt EXCEPT ![n] = s] /\ mt[n].pc = "idle" /\ orphans[n][j] # NoClaim
    BY <1>7 DEF ReconcileList
  <2>2. s.pc = "rcps" /\ s.job = j /\ s.claim = NoClaim
    BY DEF IdleMaint
  <2> HIDE DEF s
  <2> QED
    BY <2>1, <2>2, <1>4
<1>8. ASSUME NEW n \in Nodes, Crash(n) PROVE MaintAside
  BY <1>8, <1>3 DEF Crash
<1> QED
  BY <1>1, <1>2, <1>5, <1>6, <1>7, <1>8 DEF Aside, MaintBegin

LEMMA AsideTree ==
  ASSUME TypeInv, Aside
  PROVE  TreeAside
<1>a. disk \in [Nodes -> [Jobs -> Trees]]
  BY DEF TypeInv, DiskInv
<1>b. \A n \in Nodes, j \in Jobs : disk[n][j] \in Trees
  BY <1>a
<1>s. ASSUME NEW n \in Nodes, NEW j \in Jobs, NEW d, SetTree(n, j, d),
             \/ d.by = disk[n][j].by /\ d.stage = disk[n][j].stage
             \/ d.by = NoClaim /\ mt[n].pc = "rcdel" /\ mt[n].job = j
             \/ d.by = disk[n][j].by /\ disk[n][j].by = box[n][j] /\ box[n][j] # NoClaim,
             disk[n][j].input =>
               \/ d.input
               \/ row[j].status = "queued"
               \/ Sweeps(n, j)
               \/ mt[n].pc = "rcdel" /\ mt[n].job = j
      PROVE  TreeAside
  <2>1. /\ disk'[n][j] = d
        /\ \A m \in Nodes, i \in Jobs : m # n \/ i # j => disk'[m][i] = disk[m][i]
    BY <1>s, TreeSet
  <2> QED
    BY <1>s, <2>1 DEF TreeAside
<1>1. ASSUME NEW j \in Jobs, Submit(j) PROVE TreeAside
  <2>1. Home \in Nodes /\ disk[Home][j] \in Trees
    BY <1>b, DispatchAssumption
  <2> DEFINE d == [disk[Home][j] EXCEPT !.input = TRUE]
  <2>2. SetTree(Home, j, d)
    BY <1>1 DEF Submit
  <2>3. d.by = disk[Home][j].by /\ d.stage = disk[Home][j].stage /\ d.input
    BY <2>1 DEF Trees
  <2> HIDE DEF d
  <2> QED
    BY <2>1, <2>2, <2>3, <1>s
<1>2. ASSUME NEW j \in Jobs, Elapse(j) PROVE TreeAside
  BY <1>2 DEF Elapse, localVars, TreeAside
<1>3. ASSUME NEW n \in Nodes,
             \/ SweepPs(n) \/ SweepSkip(n) \/ SweepRequeue(n) \/ ReconcilePs(n)
             \/ ReconcileRead(n) \/ Crash(n)
             \/ \E j \in Jobs : SweepList(n, j) \/ ReconcileList(n, j)
      PROVE  TreeAside
  <2>1. disk' = disk
    BY <1>3 DEF SweepPs, SweepSkip, SweepRequeue, ReconcilePs, ReconcileRead, Crash, SweepList,
       ReconcileList
  <2> QED
    BY <2>1 DEF TreeAside
<1>4. ASSUME NEW n \in Nodes, SweepWarm(n) PROVE TreeAside
  <2>1. mt[n].job \in Jobs
    BY <1>4, MaintInHand DEF SweepWarm
  <2>2. disk[n][mt[n].job] \in Trees
    BY <1>b, <2>1
  <2>3. PICK d : /\ SetTree(n, mt[n].job, d)
                 /\ d = IF Matches(mt[n].job, "running", mt[n].claim)
                          THEN [disk[n][mt[n].job] EXCEPT !.input = FALSE]
                          ELSE disk[n][mt[n].job]
    BY <1>4 DEF SweepWarm
  <2>4. Matches(mt[n].job, "running", mt[n].claim) => Sweeps(n, mt[n].job)
    BY <1>4 DEF SweepWarm, Sweeps, Judged, Matches
  <2>5. /\ d.by = disk[n][mt[n].job].by /\ d.stage = disk[n][mt[n].job].stage
        /\ disk[n][mt[n].job].input => d.input \/ Sweeps(n, mt[n].job)
    BY <2>2, <2>3, <2>4 DEF Trees
  <2> QED
    BY <2>1, <2>3, <2>5, <1>s
<1>5. ASSUME NEW n \in Nodes, ReconcilePop(n) PROVE TreeAside
  <2>1. mt[n].job \in Jobs
    BY <1>5, MaintInHand DEF ReconcilePop
  <2> DEFINE d == [disk[n][mt[n].job] EXCEPT !.orphan = FALSE]
  <2>2. SetTree(n, mt[n].job, d)
    BY <1>5 DEF ReconcilePop
  <2>3. /\ d.by = disk[n][mt[n].job].by /\ d.stage = disk[n][mt[n].job].stage
        /\ d.input = disk[n][mt[n].job].input
    BY <1>b, <2>1 DEF Trees
  <2> HIDE DEF d
  <2> QED
    BY <2>1, <2>2, <2>3, <1>s
<1>6. ASSUME NEW n \in Nodes, ReconcileDel(n) PROVE TreeAside
  <2>1. mt[n].job \in Jobs /\ SetTree(n, mt[n].job, NoTree) /\ mt[n].pc = "rcdel"
    BY <1>6, MaintInHand DEF ReconcileDel
  <2>2. NoTree.by = NoClaim
    BY DEF NoTree
  <2> QED
    BY <2>1, <2>2, <1>s
<1>7. ASSUME NEW n \in Nodes, NEW j \in Jobs, FailStaleQueued(n, j) PROVE TreeAside
  <2> DEFINE d == [disk[n][j] EXCEPT !.input = FALSE]
  <2>1. SetTree(n, j, d) /\ row[j].status = "queued"
    BY <1>7 DEF FailStaleQueued
  <2>2. d.by = disk[n][j].by /\ d.stage = disk[n][j].stage
    BY <1>b DEF Trees
  <2> HIDE DEF d
  <2> QED
    BY <2>1, <2>2, <1>s
<1>8. ASSUME NEW n \in Nodes, NEW j \in Jobs, BoxExits(n, j) PROVE TreeAside
  <2>1. PICK out \in {"empty", "raw"} :
          SetTree(n, j, IF disk[n][j].by = box[n][j]
                          THEN [disk[n][j] EXCEPT !.stage = out] ELSE disk[n][j])
    BY <1>8 DEF BoxExits
  <2>2. PICK d : /\ SetTree(n, j, d)
                 /\ d = IF disk[n][j].by = box[n][j]
                          THEN [disk[n][j] EXCEPT !.stage = out] ELSE disk[n][j]
    BY <2>1
  <2>3. /\ d.by = disk[n][j].by /\ d.input = disk[n][j].input
        /\ disk[n][j].by = box[n][j] \/ d.stage = disk[n][j].stage
    BY <1>b, <2>2 DEF Trees
  <2>4. box[n][j] # NoClaim
    BY <1>8 DEF BoxExits
  <2> QED
    BY <2>2, <2>3, <2>4, <1>s
<1> QED
  BY <1>1, <1>2, <1>3, <1>4, <1>5, <1>6, <1>7, <1>8 DEF Aside, MaintStep, MaintBegin

\* Only a thread starts a container or writes a result, and only a crash stops a
\* thread from outside.
LEMMA AsideRest ==
  ASSUME TypeInv, Aside
  PROVE  /\ ThreadsAside /\ blob' = blob
         /\ BoxAside
<1> USE DEF BoxAside
<1>t. th \in [Threads -> ThreadStates] /\ box \in [Nodes -> [Jobs -> ClaimIds]]
  BY DEF TypeInv, ThInv, BoxInv
<1>1. ASSUME NEW n \in Nodes, Crash(n)
      PROVE  ThreadsAside /\ blob' = blob /\ box' = box
  BY <1>1 DEF Crash, ThreadsAside
<1>2. ASSUME NEW n \in Nodes, NEW j \in Jobs, BoxExits(n, j)
      PROVE  /\ ThreadsAside /\ blob' = blob
             /\ \A m \in Nodes, i \in Jobs : box'[m][i] \in {box[m][i], NoClaim}
  <2>1. box' = [box EXCEPT ![n][j] = NoClaim] /\ th' = th /\ blob' = blob
    BY <1>2 DEF BoxExits
  <2> QED
    BY <1>t, <2>1 DEF ThreadsAside
<1>3. ASSUME NEW n \in Nodes, NEW j \in Jobs,
             \/ Submit(j) \/ Elapse(j) \/ MaintStep(n) \/ MaintBegin(n, j)
      PROVE  ThreadsAside /\ blob' = blob /\ box' = box
  <2>1. th' = th /\ blob' = blob /\ box' = box
    BY <1>3 DEF Submit, Elapse, localVars, MaintStep, SweepWarm, SweepPs, SweepSkip,
       SweepRequeue, ReconcilePs, ReconcilePop, ReconcileRead, ReconcileDel, MaintBegin,
       SweepList, FailStaleQueued, ReconcileList
  <2> QED
    BY <2>1 DEF ThreadsAside
<1>4. ASSUME NEW j \in Jobs, Submit(j) \/ Elapse(j)
      PROVE  ThreadsAside /\ blob' = blob /\ box' = box
  BY <1>3, <1>4, DispatchAssumption
<1>5. ASSUME NEW n \in Nodes, MaintStep(n)
      PROVE  ThreadsAside /\ blob' = blob /\ box' = box
  <2>1. th' = th /\ blob' = blob /\ box' = box
    BY <1>5 DEF MaintStep, SweepWarm, SweepPs, SweepSkip,
       SweepRequeue, ReconcilePs, ReconcilePop, ReconcileRead, ReconcileDel
  <2> QED
    BY <2>1 DEF ThreadsAside
<1> QED
  BY <1>1, <1>2, <1>3, <1>4, <1>5 DEF Aside

LEMMA AsideGate ==
  ASSUME TypeInv, Aside
  PROVE  GateAside
<1>a. /\ permits \in [Nodes -> Nat] /\ orphans \in [Nodes -> [Jobs -> ClaimIds]]
      /\ mt \in [Nodes -> MaintStates] /\ th \in [Threads -> ThreadStates]
  BY DEF TypeInv, GateInv, MtInv, ThInv
<1>b. \A n \in Nodes : mt[n] \in MaintStates
  BY <1>a
<1>k. ASSUME UNCHANGED <<permits, orphans, th>>, \A n \in Nodes : ~Regains(n)
      PROVE  GateAside
  BY <1>k DEF GateAside, Undisturbed
<1>1. ASSUME NEW n \in Nodes, NEW j \in Jobs,
             Submit(j) \/ Elapse(j) \/ FailStaleQueued(n, j) \/ BoxExits(n, j)
      PROVE  GateAside
  <2>1. UNCHANGED <<permits, orphans, th, mt>>
    BY <1>1 DEF Submit, Elapse, localVars, FailStaleQueued, BoxExits
  <2> QED
    BY <2>1, <1>k DEF Regains
<1>2. ASSUME NEW n \in Nodes, NEW s, mt' = [mt EXCEPT ![n] = s], s.pc # "rcread",
             UNCHANGED <<permits, orphans, th>>
      PROVE  GateAside
  <2>1. \A m \in Nodes : ~Regains(m)
    BY <1>a, <1>2 DEF Regains
  <2> QED
    BY <1>2, <2>1, <1>k
<1>3. ASSUME NEW n \in Nodes, NEW j \in Jobs, SweepList(n, j) \/ ReconcileList(n, j)
      PROVE  GateAside
  <2>1. UNCHANGED <<permits, orphans, th>>
    BY <1>3 DEF SweepList, ReconcileList
  <2>2. PICK s : mt' = [mt EXCEPT ![n] = s] /\ s.pc \in {"judge", "rcps"}
    <3>1. [IdleMaint EXCEPT !.pc = "rcps", !.job = j].pc = "rcps"
      BY DEF IdleMaint
    <3>2. [pc |-> "judge", job |-> j, claim |-> row[j].claim, age |-> row[j].age,
           runtime |-> row[j].runtime].pc = "judge"
      OBVIOUS
    <3> QED
      BY <1>3, <3>1, <3>2, Zenon DEF SweepList, ReconcileList
  <2> QED
    BY <2>1, <2>2, <1>2
<1>4. ASSUME NEW n \in Nodes,
             \/ SweepWarm(n) \/ SweepPs(n) \/ SweepSkip(n) \/ SweepRequeue(n)
             \/ ReconcilePs(n) \/ ReconcileRead(n) \/ ReconcileDel(n)
      PROVE  GateAside
  <2>1. UNCHANGED <<permits, orphans, th>>
    BY <1>4 DEF SweepWarm, SweepPs, SweepSkip, SweepRequeue, ReconcilePs, ReconcileRead,
       ReconcileDel
  <2>2. MaintIdle(n) \/ \E p \in {"gone", "rcpop", "rcdel"} : MaintGo(n, p)
    BY <1>4 DEF SweepWarm, SweepPs, SweepSkip, SweepRequeue, ReconcilePs, ReconcileRead,
       ReconcileDel
  <2>3. CASE MaintIdle(n)
    <3>1. IdleMaint.pc # "rcread"
      BY DEF IdleMaint
    <3> QED
      BY <2>1, <2>3, <3>1, <1>2 DEF MaintIdle
  <2>4. ASSUME NEW p \in {"gone", "rcpop", "rcdel"}, MaintGo(n, p) PROVE GateAside
    <3> DEFINE s == [mt[n] EXCEPT !.pc = p]
    <3>1. mt' = [mt EXCEPT ![n] = s]
      BY <2>4 DEF MaintGo
    <3>2. s.pc = p
      BY <1>b DEF MaintStates
    <3> HIDE DEF s
    <3> QED
      BY <2>1, <2>4, <3>1, <3>2, <1>2
  <2> QED
    BY <2>2, <2>3, <2>4
<1>5. ASSUME NEW n \in Nodes, ReconcilePop(n) PROVE GateAside
  <2> DEFINE s == [mt[n] EXCEPT !.pc = "rcread", !.claim = orphans[n][mt[n].job]]
  <2>1. /\ mt' = [mt EXCEPT ![n] = s] /\ mt[n].pc = "rcpop" /\ th' = th
        /\ permits' = [permits EXCEPT ![n] = IF permits[n] > 0 THEN permits[n] - 1 ELSE 0]
        /\ orphans' = [orphans EXCEPT ![n] = [orphans[n] EXCEPT ![mt[n].job] = NoClaim]]
    BY <1>5 DEF ReconcilePop, Returned
  <2>2. s.pc = "rcread"
    BY <1>b DEF MaintStates
  <2> HIDE DEF s
  <2> QED
    BY <1>a, <2>1, <2>2 DEF GateAside, Regains, Undisturbed
<1>6. ASSUME NEW n \in Nodes, Crash(n) PROVE GateAside
  BY <1>a, <1>6 DEF Crash, MaintIdle, GateAside, Regains, Undisturbed, IdleMaint
<1>7. ASSUME NEW j \in Jobs, Submit(j) \/ Elapse(j) PROVE GateAside
  BY <1>1, <1>7, DispatchAssumption
<1> QED
  BY <1>1, <1>3, <1>4, <1>5, <1>6, <1>7 DEF Aside, MaintStep, MaintBegin

\* A thread removes an input or a tree after it has found its claim on the row.
CleanActs(t) ==
  /\ th[t].pc \in {"inread", "pgread"} /\ th'[t].pc \in {"indel", "pgdel"} =>
       OwnsTree(J(t), C(t))
  /\ th'[t].pc = "pgdel" => ~th[t].orphan

LEMMA StepClean ==
  ASSUME TypeInv, NEW t \in Threads, Claim(t) \/ ThreadStep(t)
  PROVE  CleanActs(t)
<1>t. th \in [Threads -> ThreadStates]
  BY DEF TypeInv, ThInv
<1>g. \A p : Go(t, p) => th'[t].pc = p
  BY <1>t DEF Go, ThreadStates
<1>f. th'[t].pc = "pgdel" => th[t].pc = "pgread"
  BY StepActs DEF Acts, GoesOn, Follows, Ends, Takes, IdleThread
<1>1. CASE \/ Claim(t) \/ Refuse(t) \/ NoHeadroom(t) \/ AdmitWarm(t) \/ AdmitCold(t)
           \/ StampWarm(t) \/ Fetch(t) \/ FetchFails(t) \/ FetchDrop(t) \/ Reject(t)
           \/ EgressDefer(t) \/ StampCold(t) \/ Launch(t) \/ LaunchFails(t) \/ BoxDone(t)
           \/ BoxKilled(t) \/ BoxOrphaned(t) \/ GuestDone(t) \/ GuestFails(t) \/ Refresh(t)
           \/ Seal(t) \/ SealFails(t)
  BY <1>1, <1>f DEF Claim, Refuse, NoHeadroom, AdmitWarm, AdmitCold, StampWarm, Fetch, FetchFails,
     FetchDrop, Reject, EgressDefer, StampCold, Launch, LaunchFails, BoxDone, BoxKilled,
     BoxOrphaned, GuestDone, GuestFails, Refresh, Seal, SealFails, At, CleanActs
<1>2. CASE \/ Check(t) \/ PutBody(t) \/ PutSeal(t) \/ PutFails(t) \/ ReapCheck(t) \/ Reap(t)
           \/ Mark(t) \/ Keep(t) \/ Unmark(t) \/ Commit(t) \/ Fail(t) \/ Raise(t) \/ Release(t)
           \/ InDel(t) \/ PgDel(t)
  BY <1>2, <1>f DEF Check, PutBody, PutSeal, PutFails, ReapCheck, Reap, Mark, Keep, Unmark, Commit,
     Fail, Raise, Release, InDel, PgDel, At, CleanActs
<1>3. CASE InRead(t)
  <2>1. Go(t, "pgread") \/ OwnsTree(J(t), C(t))
    BY <1>3 DEF InRead
  <2>2. th[t].pc = "inread"
    BY <1>3 DEF InRead, At
  <2> QED
    BY <2>1, <2>2, <1>f, <1>g DEF CleanActs
<1>4. CASE PgRead(t)
  <2>1. th' = [th EXCEPT ![t] = IdleThread] \/ (OwnsTree(J(t), C(t)) /\ ~th[t].orphan)
    BY <1>4 DEF PgRead
  <2> QED
    BY <2>1, <1>t DEF CleanActs, IdleThread
<1> QED
  BY <1>1, <1>2, <1>3, <1>4 DEF ThreadStep

\* Every step is a thread's or one from outside, and a stutter passes for the latter.
ThreadActs(t) ==
  /\ Acts(t) /\ RowActs(t) /\ TreeActs(t) /\ BoxActs(t) /\ BlobActs(t) /\ GateActs(t)
  /\ CleanActs(t)

AsideActs ==
  RowAside /\ ThreadsAside /\ MaintAside /\ TreeAside /\ BoxAside /\ GateAside /\ blob' = blob

LEMMA Steps ==
  ASSUME TypeInv, AbsentInv, [Next]_vars
  PROVE  (\E t \in Threads : ThreadActs(t)) \/ AsideActs
<1>1. ASSUME NEW t \in Threads, Claim(t) \/ ThreadStep(t) PROVE ThreadActs(t)
  BY <1>1, StepActs, StepRow, StepTree, StepBox, StepBlob, StepGate, StepClean DEF ThreadActs
<1>2. CASE Aside
  BY <1>2, AsideRow, AsideMaint, AsideTree, AsideRest, AsideGate DEF AsideActs
<1>3. CASE UNCHANGED vars
  BY <1>3 DEF vars, AsideActs, RowAside, ThreadsAside, MaintAside, TreeAside, BoxAside,
     GateAside, Undisturbed, Regains
<1> QED
  BY <1>1, <1>2, <1>3 DEF Next, Aside

-------------------------------------------------------------------------------
\* Who owns what.  Claims are handed out once, in order; no two threads have one
\* claim; a thread at work owns the row of its job; and what a sweep judges abandoned
\* is no thread's.
RowsFree == \A j \in Jobs : row[j].status \in {"absent", "queued"} => row[j].claim = NoClaim

ClaimsIssued ==
  /\ \A j \in Jobs : row[j].claim <= issued
  /\ \A t \in Threads : th[t].claim <= issued /\ (th[t].claim = NoClaim <=> th[t].pc = "idle")
  /\ \A n \in Nodes : mt[n].claim <= issued
  /\ \A n \in Nodes, j \in Jobs : box[n][j] <= issued /\ orphans[n][j] <= issued

OwnClaim ==
  \A t, u \in Threads : t # u /\ th[t].claim # NoClaim => th[t].claim # th[u].claim

HoldsRow == \A t \in Threads : th[t].pc \in Working => StillOurs(t)

JudgedGone ==
  \A n \in Nodes : Judged(n) => \A t \in Threads : th[t].pc # "idle" => th[t].claim # mt[n].claim

Owned == RowsFree /\ ClaimsIssued /\ OwnClaim /\ HoldsRow /\ JudgedGone

LEMMA AbsentInit == Init => AbsentInv
  BY DEF Init, StoreInit, NoRow, AbsentInv

LEMMA OwnedInit == Init => Owned
  BY JobStoreAssumption
     DEF Init, StoreInit, NoRow, IdleThread, IdleMaint, NoClaim, Owned, RowsFree, ClaimsIssued,
         OwnClaim, HoldsRow, JudgedGone, Judged, Working

\* The facts about types the next lemmas share.
LEMMA OwnedTypes ==
  ASSUME TypeInv
  PROVE  /\ issued \in Nat /\ NoClaim \in Nat
         /\ \A j \in Jobs : row[j].claim \in Nat
         /\ \A t \in Threads : /\ th[t].claim \in Nat /\ N(t) \in Nodes
                               /\ th[t].pc # "idle" => th[t].job \in Jobs
         /\ \A n \in Nodes : mt[n].claim \in Nat /\ (mt[n].pc # "idle" => mt[n].job \in Jobs)
         /\ \A n \in Nodes, j \in Jobs : box[n][j] \in Nat /\ orphans[n][j] \in Nat
<1>0. ClaimIds \subseteq Nat /\ issued \in Nat /\ NoClaim \in Nat
  BY JobStoreAssumption DEF ClaimIds, NoClaim, TypeInv, RowInv
<1>1. \A j \in Jobs : row[j].claim \in Nat
  BY <1>0 DEF TypeInv, RowInv, Rows
<1>2. \A t \in Threads : th[t].claim \in Nat /\ (th[t].pc # "idle" => th[t].job \in Jobs)
  BY <1>0 DEF TypeInv, ThInv, ThreadStates
<1>3. \A n \in Nodes : mt[n].claim \in Nat /\ (mt[n].pc # "idle" => mt[n].job \in Jobs)
  BY <1>0 DEF TypeInv, MtInv, MaintStates
<1>4. \A n \in Nodes, j \in Jobs : box[n][j] \in Nat /\ orphans[n][j] \in Nat
  BY <1>0 DEF TypeInv, BoxInv, GateInv
<1>5. \A t \in Threads : N(t) \in Nodes
  BY DispatchAssumption DEF N
<1> QED
  BY <1>0, <1>1, <1>2, <1>3, <1>4, <1>5

LEMMA OwnedThread ==
  ASSUME TypeInv, Owned, NEW t \in Threads, ThreadActs(t)
  PROVE  Owned'
<1> USE DEF Owned
<1>a. Acts(t) /\ RowActs(t) /\ BoxActs(t) /\ GateActs(t)
  BY DEF ThreadActs
<1>b. /\ issued \in Nat /\ NoClaim \in Nat
      /\ \A j \in Jobs : row[j].claim \in Nat
      /\ \A u \in Threads : /\ th[u].claim \in Nat /\ N(u) \in Nodes
                            /\ th[u].pc # "idle" => th[u].job \in Jobs
      /\ \A n \in Nodes : mt[n].claim \in Nat
      /\ \A n \in Nodes, j \in Jobs : box[n][j] \in Nat /\ orphans[n][j] \in Nat
  BY OwnedTypes
<1>c. issued' = issued \/ issued' = issued + 1
  BY <1>a DEF RowActs, Takes
<1>d. mt' = mt
  BY <1>a DEF GateActs
<1>e. \A u \in Threads : u # t => th'[u] = th[u]
  BY <1>a DEF Acts
<1>f. GoesOn(t) \/ Ends(t) \/ Takes(t)
  BY <1>a DEF Acts
<1>g. GoesOn(t) => /\ th[t].pc # "idle" /\ th'[t].pc # "idle"
                   /\ th'[t].claim = th[t].claim /\ th'[t].job = th[t].job
                   /\ th'[t].pc \in Working => th[t].pc \in Working
  BY DEF GoesOn, Follows, Working
<1>h. Ends(t) => /\ th[t].pc # "idle" /\ th'[t].pc = "idle" /\ th'[t].claim = NoClaim
  BY DEF Ends, IdleThread
<1>i. Takes(t) => /\ th[t].pc = "idle" /\ th'[t].pc = "admit" /\ th'[t].claim = issued + 1
                  /\ issued' = issued + 1 /\ th'[t].job \in Jobs
                  /\ row'[th'[t].job].status = "running" /\ row'[th'[t].job].claim = issued + 1
  BY DEF Takes
<1>r. \A j \in Jobs :
        \/ row'[j].status = row[j].status /\ row'[j].claim = row[j].claim
        \/ Takes(t) /\ j = th'[t].job /\ row[j].status = "queued"
        \/ j = J(t) /\ StopsRow(t)
  BY <1>a DEF RowActs, SameRow
<1>s. StopsRow(t) => /\ StillOurs(t) /\ th[t].pc \in Working /\ th'[t].pc \notin Working
                     /\ row'[J(t)].status \in {"queued", "failed", "done"}
                     /\ row'[J(t)].status = "queued" => row'[J(t)].claim = NoClaim
                     /\ row'[J(t)].status # "queued" => row'[J(t)].claim = C(t)
  BY DEF StopsRow
<1>1. RowsFree'
  BY <1>i, <1>r, <1>s DEF RowsFree
<1>2. ClaimsIssued'
  <2>1. \A j \in Jobs : row'[j].claim <= issued'
    BY <1>b, <1>c, <1>i, <1>r, <1>s DEF ClaimsIssued, NoClaim, C
  <2>2. \A u \in Threads : th'[u].claim <= issued' /\ (th'[u].claim = NoClaim <=> th'[u].pc = "idle")
    BY <1>b, <1>c, <1>e, <1>f, <1>g, <1>h, <1>i DEF ClaimsIssued, NoClaim
  <2>3. \A n \in Nodes : mt'[n].claim <= issued'
    BY <1>b, <1>c, <1>d DEF ClaimsIssued
  <2>4. \A n \in Nodes, j \in Jobs : box'[n][j] <= issued'
    <3>1. \A n \in Nodes, j \in Jobs : box'[n][j] \in {box[n][j], NoClaim, th[t].claim}
      BY <1>a DEF BoxActs, C
    <3> QED
      BY <3>1, <1>b, <1>c DEF ClaimsIssued, NoClaim
  <2>5. \A n \in Nodes, j \in Jobs : orphans'[n][j] <= issued'
    <3>1. orphans' = orphans \/ orphans' = [orphans EXCEPT ![N(t)][J(t)] = C(t)]
      BY <1>a DEF GateActs
    <3>2. \A n \in Nodes, j \in Jobs : orphans'[n][j] \in {orphans[n][j], th[t].claim}
      BY <3>1 DEF C, TypeInv, GateInv
    <3> QED
      BY <3>2, <1>b, <1>c DEF ClaimsIssued
  <2> QED
    BY <2>1, <2>2, <2>3, <2>4, <2>5 DEF ClaimsIssued
<1>3. OwnClaim'
  BY <1>b, <1>e, <1>f, <1>g, <1>h, <1>i DEF OwnClaim, ClaimsIssued, NoClaim
<1>4. HoldsRow'
  <2>1. ASSUME NEW u \in Threads, u # t, th'[u].pc \in Working
        PROVE  row'[th'[u].job].status = "running" /\ row'[th'[u].job].claim = th'[u].claim
    <3>1. th'[u] = th[u] /\ th[u].pc # "idle" /\ th[u].claim # NoClaim
      BY <1>e, <2>1 DEF Working, ClaimsIssued
    <3>2. th[u].job \in Jobs /\ row[th[u].job].status = "running"
          /\ row[th[u].job].claim = th[u].claim
      BY <2>1, <3>1, <1>b DEF HoldsRow, StillOurs, Matches, J, C
    <3>3. ~(th[u].job = J(t) /\ StopsRow(t))
      BY <2>1, <3>1, <3>2, <1>s DEF OwnClaim, StillOurs, Matches, J, C
    <3> QED
      BY <3>1, <3>2, <3>3, <1>r
  <2>2. ASSUME th'[t].pc \in Working
        PROVE  row'[th'[t].job].status = "running" /\ row'[th'[t].job].claim = th'[t].claim
    <3>1. CASE Takes(t)
      BY <3>1, <1>i
    <3>2. CASE GoesOn(t)
      <4>1. /\ th[t].job \in Jobs /\ row[th[t].job].status = "running"
            /\ row[th[t].job].claim = th[t].claim
        BY <2>2, <3>2, <1>b, <1>g DEF HoldsRow, StillOurs, Matches, J, C
      <4> QED
        BY <2>2, <3>2, <4>1, <1>g, <1>i, <1>r, <1>s
    <3>3. CASE Ends(t)
      BY <2>2, <3>3, <1>h DEF Working
    <3> QED
      BY <3>1, <3>2, <3>3, <1>f
  <2> QED
    BY <2>1, <2>2 DEF HoldsRow, StillOurs, Matches, J, C
<1>5. JudgedGone'
  <2>1. \A n \in Nodes : Judged(n)' => Judged(n)
    BY <1>d DEF Judged
  <2> QED
    BY <2>1, <1>b, <1>d, <1>e, <1>f, <1>g, <1>h, <1>i DEF JudgedGone, ClaimsIssued
<1> QED
  BY <1>1, <1>2, <1>3, <1>4, <1>5

LEMMA OwnedAside ==
  ASSUME ~SlowOwners, TypeInv, Owned, AsideActs
  PROVE  Owned'
<1> USE DEF Owned
<1>a. RowAside /\ ThreadsAside /\ MaintAside /\ BoxAside /\ GateAside
  BY DEF AsideActs
<1>b. /\ issued \in Nat /\ NoClaim \in Nat
      /\ \A j \in Jobs : row[j].claim \in Nat
      /\ \A u \in Threads : /\ th[u].claim \in Nat /\ N(u) \in Nodes
                            /\ th[u].pc # "idle" => th[u].job \in Jobs
      /\ \A n \in Nodes : mt[n].claim \in Nat /\ (mt[n].pc # "idle" => mt[n].job \in Jobs)
      /\ \A n \in Nodes, j \in Jobs : box[n][j] \in Nat /\ orphans[n][j] \in Nat
  BY OwnedTypes
<1>c. issued' = issued
  BY <1>a DEF RowAside
<1>d. IdleMaint.pc = "idle" /\ IdleMaint.claim = NoClaim
      /\ IdleThread.pc = "idle" /\ IdleThread.claim = NoClaim
  BY DEF IdleMaint, IdleThread
<1>e. \A u \in Threads : th'[u] = th[u] \/ th'[u] = IdleThread
  BY <1>a DEF ThreadsAside
<1>r. \A j \in Jobs :
        \/ row'[j].status = row[j].status /\ row'[j].claim = row[j].claim
        \/ row[j].status = "absent" /\ row'[j].status = "queued" /\ row'[j].claim = NoClaim
        \/ row[j].status = "queued" /\ row'[j].status = "failed" /\ row'[j].claim = row[j].claim
        \/ \E n \in Nodes :
             /\ Judged(n) /\ row[j].status = "running" /\ row[j].claim = mt[n].claim
             /\ \/ row'[j].status = "queued" /\ row'[j].claim = NoClaim
                \/ row'[j].status = "failed" /\ row'[j].claim = row[j].claim
  BY <1>a DEF RowAside, Sweeps
<1>1. RowsFree'
  BY <1>r DEF RowsFree
<1>2. ClaimsIssued'
  <2>1. \A j \in Jobs : row'[j].claim <= issued'
    BY <1>b, <1>c, <1>r DEF ClaimsIssued, NoClaim
  <2>2. \A u \in Threads : th'[u].claim <= issued' /\ (th'[u].claim = NoClaim <=> th'[u].pc = "idle")
    BY <1>b, <1>c, <1>d, <1>e DEF ClaimsIssued, NoClaim
  <2>3. \A n \in Nodes : mt'[n].claim <= issued'
    <3>1. ASSUME NEW n \in Nodes
          PROVE  \/ mt'[n].claim \in {mt[n].claim, NoClaim}
                 \/ \E j \in Jobs : mt'[n].claim \in {row[j].claim, orphans[n][j]}
      <4>1. mt[n].pc = "rcpop" => mt[n].job \in Jobs
        BY <1>b
      <4> QED
        BY <4>1, <1>a, <1>d DEF MaintAside, Lists, Finds, Reconciles
    <3> QED
      BY <3>1, <1>b, <1>c DEF ClaimsIssued, NoClaim
  <2>4. \A n \in Nodes, j \in Jobs : box'[n][j] <= issued'
    BY <1>a, <1>b, <1>c DEF ClaimsIssued, NoClaim, BoxAside
  <2>5. \A n \in Nodes, j \in Jobs : orphans'[n][j] <= issued'
    <3>1. \A n \in Nodes : orphans[n] \in [Jobs -> ClaimIds]
      BY DEF TypeInv, GateInv
    <3>2. \A n \in Nodes, j \in Jobs : orphans'[n][j] \in {orphans[n][j], NoClaim}
      BY <3>1, <1>a DEF GateAside
    <3> QED
      BY <3>2, <1>b, <1>c DEF ClaimsIssued, NoClaim
  <2> QED
    BY <2>1, <2>2, <2>3, <2>4, <2>5 DEF ClaimsIssued
<1>3. OwnClaim'
  BY <1>b, <1>d, <1>e DEF OwnClaim
<1>4. HoldsRow'
  <2>1. ASSUME NEW u \in Threads, th'[u].pc \in Working
        PROVE  row'[th'[u].job].status = "running" /\ row'[th'[u].job].claim = th'[u].claim
    <3>1. th'[u] = th[u] /\ th[u].pc # "idle"
      BY <1>d, <1>e, <2>1 DEF Working
    <3>2. th[u].job \in Jobs /\ row[th[u].job].status = "running"
          /\ row[th[u].job].claim = th[u].claim
      BY <2>1, <3>1, <1>b DEF HoldsRow, StillOurs, Matches, J, C
    <3>3. \A n \in Nodes : Judged(n) => th[u].claim # mt[n].claim
      BY <3>1 DEF JudgedGone
    <3> QED
      BY <3>1, <3>2, <3>3, <1>r
  <2> QED
    BY <2>1 DEF HoldsRow, StillOurs, Matches, J, C
<1>5. JudgedGone'
  <2>1. ASSUME NEW n \in Nodes, Judged(n)', NEW u \in Threads, th'[u].pc # "idle"
        PROVE  th'[u].claim # mt'[n].claim
    <3>1. th'[u] = th[u] /\ th[u].pc # "idle"
      BY <1>d, <1>e, <2>1
    <3>2. \/ mt'[n] = mt[n] /\ Judged(n)
          \/ Lists(n) /\ mt'[n].runtime = "warm" /\ mt'[n].age = PastStale
          \/ Finds(n)
      BY <2>1, <1>a, <1>d DEF MaintAside, Reconciles, Judged, Lists
    <3>3. CASE mt'[n] = mt[n] /\ Judged(n)
      BY <3>1, <3>3 DEF JudgedGone
    <3>4. CASE Lists(n) /\ mt'[n].runtime = "warm" /\ mt'[n].age = PastStale
      BY <3>1, <3>4 DEF Lists, Abandoned, C
    <3>5. CASE Finds(n)
      BY <3>1, <3>5 DEF Finds, Abandoned, C
    <3> QED
      BY <3>2, <3>3, <3>4, <3>5
  <2> QED
    BY <2>1 DEF JudgedGone
<1> QED
  BY <1>1, <1>2, <1>3, <1>4, <1>5

LEMMA OwnedNext ==
  ASSUME ~SlowOwners, TypeInv, AbsentInv, Owned, [Next]_vars
  PROVE  Owned'
  BY Steps, OwnedThread, OwnedAside

-------------------------------------------------------------------------------
\* The way a result takes from the output directory to the blob store.

\* Only a warm thread goes through the guest, and only a cold one through a container.
Paths ==
  \A t \in Threads :
    /\ th[t].pc \in {"stampw", "guest", "refresh"} => th[t].warm
    /\ th[t].pc \in {"admit", "stampc", "launch", "boxed"} => ~th[t].warm
    /\ th[t].orphan => /\ ~th[t].warm
                       /\ th[t].pc \in {"fail", "release", "inread", "indel", "pgread", "pgdel"}

\* The steps of a thread before its container starts and after it has gone.
Boxless == {"admit", "stampw", "fetch", "stampc", "launch", "guest", "refresh", "seal", "check",
            "body", "putseal"}

OwnBoxGone == \A t \in Threads : th[t].pc \in Boxless => box[N(t)][J(t)] # C(t)

\* The output directory a thread works on is its own or gone, and what it uploads is
\* not empty.
OwnTree ==
  \A t \in Threads :
    /\ th[t].pc \in {"boxed", "check", "body", "putseal"} \/ (th[t].pc = "seal" /\ ~th[t].warm)
         => Tree(t).by \in {NoClaim, C(t)}
    /\ th[t].pc \in {"check", "body", "putseal"} /\ Tree(t).by # NoClaim
         => Tree(t).stage # "empty"

\* What it has uploaded so far is stored, and nobody has touched it since.
OwnBlob ==
  \A t \in Threads :
    /\ th[t].pc \in {"putseal", "commit"} => blob[J(t)].body = C(t)
    /\ th[t].pc = "commit" => blob[J(t)].seal = C(t)

ResultInv == Paths /\ OwnBoxGone /\ OwnTree /\ OwnBlob /\ DoneServesItsResult

LEMMA ResultInit == Init => ResultInv
  BY DEF Init, StoreInit, NoRow, IdleThread, ResultInv, Paths, OwnBoxGone, Boxless, OwnTree,
         OwnBlob, DoneServesItsResult

LEMMA PathsNext ==
  ASSUME TypeInv, Paths, (\E t \in Threads : ThreadActs(t)) \/ AsideActs
  PROVE  Paths'
<1>a. \A u \in Threads : th[u].warm \in BOOLEAN /\ th[u].orphan \in BOOLEAN
  BY DEF TypeInv, ThInv, ThreadStates
<1>b. IdleThread.pc = "idle" /\ ~IdleThread.warm /\ ~IdleThread.orphan
  BY DEF IdleThread
<1>1. ASSUME NEW t \in Threads, ThreadActs(t) PROVE Paths'
  <2>1. \A u \in Threads : u # t => th'[u] = th[u]
    BY <1>1 DEF ThreadActs, Acts
  <2>2. CASE GoesOn(t)
    <3>1. /\ th'[t].pc \in {"stampw", "guest", "refresh"} => th'[t].warm
          /\ th'[t].pc \in {"admit", "stampc", "launch", "boxed"} => ~th'[t].warm
      BY <2>2, <1>a DEF GoesOn, Follows, Paths
    <3>2. th'[t].orphan =>
            /\ ~th'[t].warm
            /\ th'[t].pc \in {"fail", "release", "inread", "indel", "pgread", "pgdel"}
      BY <2>2, <1>a DEF GoesOn, Follows, Paths
    <3> QED
      BY <2>1, <3>1, <3>2 DEF Paths
  <2>3. CASE Ends(t) \/ Takes(t)
    BY <2>1, <2>3, <1>b DEF Ends, Takes, Paths
  <2> QED
    BY <1>1, <2>2, <2>3 DEF ThreadActs, Acts
<1>2. ASSUME AsideActs PROVE Paths'
  BY <1>2, <1>b DEF AsideActs, ThreadsAside, Paths
<1> QED
  BY <1>1, <1>2

\* Two threads at work have different jobs.
LEMMA Alone ==
  ASSUME TypeInv, Owned, NEW t \in Threads, NEW u \in Threads, u # t,
         th[t].pc \in Working, th[u].pc \in Working
  PROVE  th[t].job # th[u].job
<1>1. StillOurs(t) /\ StillOurs(u)
  BY DEF Owned, HoldsRow
<1>2. th[t].claim # th[u].claim
  BY DEF Owned, OwnClaim, ClaimsIssued, Working
<1> QED
  BY <1>1, <1>2 DEF StillOurs, Matches, J, C

\* No container of a claim runs while its thread is at another step than waiting for it.
LEMMA BoxGoneThread ==
  ASSUME TypeInv, Owned, OwnBoxGone, NEW t \in Threads, ThreadActs(t)
  PROVE  OwnBoxGone'
<1>a. Acts(t) /\ BoxActs(t)
  BY DEF ThreadActs
<1>b. /\ issued \in Nat
      /\ \A u \in Threads : /\ th[u].claim \in Nat /\ N(u) \in Nodes
                            /\ th[u].pc # "idle" => th[u].job \in Jobs /\ th[u].claim # NoClaim
      /\ \A n \in Nodes, j \in Jobs : box[n][j] \in Nat /\ box[n][j] <= issued
  BY OwnedTypes DEF Owned, ClaimsIssued
<1>e. \A u \in Threads : u # t => th'[u] = th[u]
  BY <1>a DEF Acts
<1>f. GoesOn(t) \/ Ends(t) \/ Takes(t)
  BY <1>a DEF Acts
<1>g. GoesOn(t) => /\ th[t].pc # "idle" /\ th'[t].claim = th[t].claim
                   /\ th'[t].job = th[t].job /\ Follows(th[t].pc, th'[t].pc)
  BY DEF GoesOn, Follows
<1>h. Ends(t) => th'[t].pc = "idle"
  BY DEF Ends, IdleThread
<1>i. Takes(t) => /\ th[t].pc = "idle" /\ th'[t].pc = "admit" /\ th'[t].claim = issued + 1
                  /\ th'[t].job \in Jobs
  BY DEF Takes
<1>o. \A u \in Threads : u # t /\ th[t].pc # "idle" => th[u].claim # th[t].claim
  BY <1>b DEF Owned, OwnClaim
<1>1. ASSUME NEW u \in Threads, u # t, th[u].pc \in Boxless
      PROVE  box'[N(u)][th[u].job] # th[u].claim
  <2>1. /\ th[u].job \in Jobs /\ N(u) \in Nodes /\ th[u].claim # NoClaim
        /\ box[N(u)][th[u].job] # th[u].claim
    BY <1>1, <1>b DEF OwnBoxGone, Boxless, J, C
  <2> QED
    BY <1>1, <2>1, <1>a, <1>o DEF BoxActs, C
<1>2. ASSUME th'[t].pc \in Boxless
      PROVE  box'[N(t)][th'[t].job] # th'[t].claim
  <2>1. CASE Takes(t)
    <3>1. box'[N(t)][th'[t].job] \in {box[N(t)][th'[t].job], NoClaim}
      BY <2>1, <1>a, <1>b, <1>i DEF BoxActs
    <3> QED
      BY <2>1, <3>1, <1>b, <1>i DEF NoClaim
  <2>2. CASE GoesOn(t)
    <3>1. /\ th[t].job \in Jobs /\ N(t) \in Nodes /\ th[t].claim # NoClaim
          /\ th'[t].job = th[t].job /\ th'[t].claim = th[t].claim
      BY <2>2, <1>b, <1>g
    <3>2. box[N(t)][th[t].job] # th[t].claim
      <4>1. th[t].pc \in Boxless \/ (th[t].pc = "boxed" /\ th'[t].pc = "seal")
        BY <1>2, <2>2, <1>g DEF Follows, Boxless
      <4> QED
        BY <4>1, <1>a DEF OwnBoxGone, BoxActs, J, C
    <3>3. box'[N(t)][th[t].job] \in {box[N(t)][th[t].job], NoClaim}
      BY <1>2, <3>1, <1>a DEF BoxActs, Boxless
    <3> QED
      BY <3>1, <3>2, <3>3
  <2>3. CASE Ends(t)
    BY <1>2, <2>3, <1>h DEF Boxless
  <2> QED
    BY <2>1, <2>2, <2>3, <1>f
<1> QED
  BY <1>1, <1>2, <1>e DEF OwnBoxGone, N, J, C

LEMMA BoxGoneAside ==
  ASSUME TypeInv, Owned, OwnBoxGone, AsideActs
  PROVE  OwnBoxGone'
<1>b. \A u \in Threads : /\ N(u) \in Nodes
                         /\ th[u].pc # "idle" => th[u].job \in Jobs /\ th[u].claim # NoClaim
  BY OwnedTypes DEF Owned, ClaimsIssued
<1>1. ASSUME NEW u \in Threads, th'[u].pc \in Boxless
      PROVE  box'[N(u)][th'[u].job] # th'[u].claim
  <2>1. th'[u] = th[u] /\ th[u].pc # "idle"
    BY <1>1 DEF AsideActs, ThreadsAside, IdleThread, Boxless
  <2> QED
    BY <1>1, <1>b, <2>1 DEF AsideActs, OwnBoxGone, BoxAside, J, C
<1> QED
  BY <1>1 DEF OwnBoxGone, N, J, C

LEMMA ResultThread ==
  ASSUME TypeInv, Owned, Paths, OwnBoxGone, OwnTree, OwnBlob, NEW t \in Threads, ThreadActs(t)
  PROVE  /\ OwnBoxGone' /\ OwnTree' /\ OwnBlob'
         /\ DoneServesItsResult => DoneServesItsResult'
<1>a. Acts(t) /\ RowActs(t) /\ TreeActs(t) /\ BoxActs(t) /\ BlobActs(t)
  BY DEF ThreadActs
<1>b. /\ issued \in Nat
      /\ \A u \in Threads : /\ th[u].claim \in Nat /\ N(u) \in Nodes
                            /\ th[u].pc # "idle" => th[u].job \in Jobs /\ th[u].claim # NoClaim
      /\ \A n \in Nodes, j \in Jobs : box[n][j] \in Nat /\ box[n][j] <= issued
  BY OwnedTypes DEF Owned, ClaimsIssued
<1>e. \A u \in Threads : u # t => th'[u] = th[u]
  BY <1>a DEF Acts
<1>f. GoesOn(t) \/ Ends(t) \/ Takes(t)
  BY <1>a DEF Acts
<1>g. GoesOn(t) => /\ th[t].pc # "idle" /\ th'[t].claim = th[t].claim
                   /\ th'[t].job = th[t].job /\ Follows(th[t].pc, th'[t].pc)
                   /\ th'[t].pc # "stampw" => th'[t].warm = th[t].warm
  <2>1. th[t].warm \in BOOLEAN
    BY DEF TypeInv, ThInv, ThreadStates
  <2> QED
    BY <2>1 DEF GoesOn, Follows
<1>h. Ends(t) => th[t].pc # "idle" /\ th'[t].pc = "idle"
  BY DEF Ends, IdleThread
<1>i. Takes(t) => /\ th[t].pc = "idle" /\ th'[t].pc = "admit" /\ th'[t].claim = issued + 1
                  /\ th'[t].job \in Jobs
  BY DEF Takes
<1>o. \A u \in Threads : u # t /\ th[t].pc # "idle" => th[u].claim # th[t].claim
  BY <1>b DEF Owned, OwnClaim
<1>w. \A u \in Threads : u # t /\ th[t].pc \in Working /\ th[u].pc \in Working
                           => th[t].job # th[u].job
  BY Alone
<1>1. OwnBoxGone'
  BY BoxGoneThread
<1>2. OwnTree'
  <2>1. ASSUME NEW u \in Threads, u # t, th[u].pc \in {"boxed", "check", "body", "putseal", "seal"}
        PROVE  /\ \/ disk'[N(u)][th[u].job].by = NoClaim
                  \/ /\ disk'[N(u)][th[u].job].by = disk[N(u)][th[u].job].by
                     /\ disk'[N(u)][th[u].job].stage = disk[N(u)][th[u].job].stage
    <3>1. th[u].job \in Jobs /\ N(u) \in Nodes /\ th[u].pc \in Working
      BY <2>1, <1>b DEF Working
    <3>2. th[t].pc \in {"launch", "seal"} => th[t].job # th[u].job
      BY <2>1, <3>1, <1>w DEF Working
    <3> QED
      BY <3>1, <3>2, <1>a DEF TreeActs, J
  <2>2. ASSUME th'[t].pc \in {"boxed", "check", "body", "putseal", "seal"}
        PROVE  /\ th'[t].pc # "seal" \/ ~th'[t].warm =>
                    disk'[N(t)][th'[t].job].by \in {NoClaim, th'[t].claim}
               /\ th'[t].pc \in {"check", "body", "putseal"}
                  /\ disk'[N(t)][th'[t].job].by # NoClaim
                    => disk'[N(t)][th'[t].job].stage # "empty"
    <3>1. GoesOn(t)
      BY <2>2, <1>f, <1>h, <1>i
    <3>2. /\ th[t].job \in Jobs /\ N(t) \in Nodes /\ th'[t].warm = th[t].warm
          /\ th'[t].job = th[t].job /\ th'[t].claim = th[t].claim
          /\ Follows(th[t].pc, th'[t].pc)
      BY <2>2, <3>1, <1>b, <1>g
    <3>3. CASE th[t].pc = "launch"
      BY <2>2, <3>2, <3>3, <1>a DEF TreeActs, J, C, Follows
    <3>4. CASE th[t].pc = "seal"
      <4>1. th'[t].pc = "check"
        BY <2>2, <3>2, <3>4 DEF Follows
      <4> QED
        BY <3>2, <3>4, <4>1, <1>a DEF TreeActs, OwnTree, Tree, J, C
    <3>5. CASE th[t].pc \in {"boxed", "refresh", "check", "body"}
      <4>1. \/ disk'[N(t)][th[t].job].by = NoClaim
            \/ /\ disk'[N(t)][th[t].job].by = disk[N(t)][th[t].job].by
               /\ disk'[N(t)][th[t].job].stage = disk[N(t)][th[t].job].stage
        BY <3>2, <3>5, <1>a DEF TreeActs
      <4> QED
        BY <2>2, <3>2, <3>5, <4>1 DEF OwnTree, Paths, Tree, J, C, Follows
    <3> QED
      BY <2>2, <3>2, <3>3, <3>4, <3>5 DEF Follows
  <2> QED
    BY <2>1, <2>2, <1>e DEF OwnTree, Tree, N, J, C
<1>3. OwnBlob'
  <2>1. ASSUME NEW u \in Threads, u # t, th[u].pc \in {"putseal", "commit"}
        PROVE  blob'[th[u].job] = blob[th[u].job]
    <3>1. th[u].job \in Jobs /\ th[u].pc \in Working
      BY <2>1, <1>b DEF Working
    <3>2. th[t].pc \in {"body", "putseal", "reap"} => th[t].job # th[u].job
      BY <2>1, <3>1, <1>w DEF Working
    <3> QED
      BY <3>1, <3>2, <1>a DEF BlobActs, J
  <2>2. ASSUME th'[t].pc \in {"putseal", "commit"}
        PROVE  /\ blob'[th'[t].job].body = th'[t].claim
               /\ th'[t].pc = "commit" => blob'[th'[t].job].seal = th'[t].claim
    <3>1. GoesOn(t)
      BY <2>2, <1>f, <1>h, <1>i
    <3>2. /\ th'[t].job = th[t].job /\ th'[t].claim = th[t].claim
          /\ \/ th[t].pc = "body" /\ th'[t].pc = "putseal"
             \/ th[t].pc = "putseal" /\ th'[t].pc = "commit"
      BY <2>2, <3>1, <1>g DEF Follows
    <3>3. Tree(t).by # NoClaim => Tree(t).by = C(t) /\ Tree(t).stage # "empty"
      BY <3>2 DEF OwnTree
    <3> QED
      BY <3>2, <3>3, <1>a DEF BlobActs, OwnBlob, J, C
  <2> QED
    BY <2>1, <2>2, <1>e DEF OwnBlob, J, C
<1>4. ASSUME DoneServesItsResult PROVE DoneServesItsResult'
  <2>1. ASSUME NEW j \in Jobs, row'[j].status = "done"
        PROVE  blob'[j].body = row'[j].claim /\ blob'[j].seal = row'[j].claim
    <3>1. CASE SameRow(j)
      <4>1. row[j].status = "done" /\ row'[j].claim = row[j].claim
        BY <2>1, <3>1 DEF SameRow
      <4>2. ~(j = J(t) /\ th[t].pc \in {"body", "putseal", "reap"})
        BY <4>1 DEF Owned, HoldsRow, Working, StillOurs, Matches
      <4> QED
        BY <1>4, <4>1, <4>2, <1>a DEF BlobActs, DoneServesItsResult
    <3>2. CASE j = J(t) /\ StopsRow(t)
      <4>1. row'[j].claim = C(t) /\ th[t].pc = "commit"
        BY <2>1, <3>2 DEF StopsRow
      <4> QED
        BY <3>2, <4>1, <1>a DEF BlobActs, OwnBlob
    <3>3. CASE Takes(t) /\ j = th'[t].job
      BY <2>1, <3>3 DEF Takes
    <3> QED
      BY <3>1, <3>2, <3>3, <1>a DEF RowActs
  <2> QED
    BY <2>1 DEF DoneServesItsResult
<1> QED
  BY <1>1, <1>2, <1>3, <1>4

LEMMA ResultAside ==
  ASSUME TypeInv, Owned, Paths, OwnBoxGone, OwnTree, OwnBlob, AsideActs
  PROVE  /\ OwnBoxGone' /\ OwnTree' /\ OwnBlob'
         /\ DoneServesItsResult => DoneServesItsResult'
<1>a. RowAside /\ ThreadsAside /\ TreeAside /\ BoxAside /\ blob' = blob
  BY DEF AsideActs
<1>b. \A u \in Threads : /\ N(u) \in Nodes
                         /\ th[u].pc # "idle" => th[u].job \in Jobs /\ th[u].claim # NoClaim
  BY OwnedTypes DEF Owned, ClaimsIssued
<1>e. \A u \in Threads : th'[u] = th[u] \/ th'[u].pc = "idle"
  BY <1>a DEF ThreadsAside, IdleThread
<1>1. OwnBoxGone'
  BY BoxGoneAside
<1>2. OwnTree'
  <2>1. ASSUME NEW u \in Threads, th'[u].pc \in {"boxed", "check", "body", "putseal", "seal"}
        PROVE  /\ th'[u].pc # "seal" \/ ~th'[u].warm =>
                    disk'[N(u)][th'[u].job].by \in {NoClaim, th'[u].claim}
               /\ th'[u].pc \in {"check", "body", "putseal"}
                  /\ disk'[N(u)][th'[u].job].by # NoClaim
                    => disk'[N(u)][th'[u].job].stage # "empty"
    <3>1. th'[u] = th[u] /\ th[u].pc # "idle"
      BY <2>1, <1>e
    <3>2. th[u].job \in Jobs /\ N(u) \in Nodes /\ th[u].claim # NoClaim
      BY <3>1, <1>b
    <3>3. \/ disk'[N(u)][th[u].job].by = NoClaim
          \/ /\ disk'[N(u)][th[u].job].by = disk[N(u)][th[u].job].by
             /\ \/ disk'[N(u)][th[u].job].stage = disk[N(u)][th[u].job].stage
                \/ disk[N(u)][th[u].job].by = box[N(u)][th[u].job]
      BY <3>2, <1>a DEF TreeAside
    <3>4. th[u].pc \in {"check", "body", "putseal"} => box[N(u)][th[u].job] # th[u].claim
      BY DEF OwnBoxGone, Boxless, J, C
    <3>5. /\ th[u].pc # "seal" \/ ~th[u].warm =>
               disk[N(u)][th[u].job].by \in {NoClaim, th[u].claim}
          /\ th[u].pc \in {"check", "body", "putseal"} /\ disk[N(u)][th[u].job].by # NoClaim
               => disk[N(u)][th[u].job].stage # "empty"
      BY <2>1, <3>1 DEF OwnTree, Tree, J, C
    <3> QED
      BY <3>1, <3>3, <3>4, <3>5
  <2> QED
    BY <2>1 DEF OwnTree, Tree, N, J, C
<1>3. OwnBlob'
  <2>1. ASSUME NEW u \in Threads, th'[u].pc \in {"putseal", "commit"}
        PROVE  th'[u] = th[u]
    BY <2>1, <1>e
  <2> QED
    BY <2>1, <1>a DEF OwnBlob, J, C
<1>4. ASSUME DoneServesItsResult PROVE DoneServesItsResult'
  <2>1. \A j \in Jobs : row'[j].status = "done" =>
          row[j].status = "done" /\ row'[j].claim = row[j].claim
    BY <1>a DEF RowAside
  <2> QED
    BY <1>4, <2>1, <1>a DEF DoneServesItsResult
<1> QED
  BY <1>1, <1>2, <1>3, <1>4

\* As long as no sweep judges an owner that is still at work, a DONE job serves the
\* artifacts and the seal of the attempt that committed it: for any number of nodes,
\* threads, jobs, claims and crashes, and whichever store calls fail.
THEOREM ServesItsOwn == SlowOwners = FALSE => (Spec => []DoneServesItsResult)
<1> SUFFICES ASSUME SlowOwners = FALSE PROVE Spec => []DoneServesItsResult
  OBVIOUS
<1> DEFINE Inv == TypeInv /\ AbsentInv /\ Owned /\ ResultInv
<1>1. Init => Inv
  BY InitTyped, AbsentInit, OwnedInit, ResultInit
<1>2. Inv /\ [Next]_vars => Inv'
  <2> SUFFICES ASSUME Inv, [Next]_vars PROVE Inv'
    OBVIOUS
  <2>1. TypeInv' /\ AbsentInv' /\ Owned'
    BY NextTyped, NextEffect, EffectRefines, OwnedNext
  <2>2. (\E t \in Threads : ThreadActs(t)) \/ AsideActs
    BY Steps
  <2>3. Paths'
    BY <2>2, PathsNext DEF ResultInv
  <2>4. OwnBoxGone' /\ OwnTree' /\ OwnBlob' /\ DoneServesItsResult'
    BY <2>2, ResultThread, ResultAside DEF ResultInv
  <2> QED
    BY <2>1, <2>3, <2>4 DEF ResultInv
<1>3. Inv => DoneServesItsResult
  BY DEF ResultInv
<1> QED
  BY <1>1, <1>2, <1>3, PTL DEF Spec

-------------------------------------------------------------------------------
\* The containers whose kill was not confirmed.

\* The row of a job that somebody has claimed does not vanish.
Claimed ==
  /\ \A t \in Threads : th[t].pc # "idle" => row[J(t)].status # "absent"
  /\ \A n \in Nodes, j \in Jobs : orphans[n][j] # NoClaim => row[j].status # "absent"
  /\ \A n \in Nodes : mt[n].pc \in {"rcread", "rcdel"} => row[mt[n].job].status # "absent"

\* A thread that has not been through its finally block yet.
Unreleased == Working \cup {"fetchdrop", "unmark", "release"}

\* A retained container is nobody's work any more.
Retained ==
  /\ \A n \in Nodes : mt[n].pc \in {"rcps", "rcpop"} => orphans[n][mt[n].job] # NoClaim
  /\ \A n \in Nodes : mt[n].pc \in {"rcread", "rcdel"} => mt[n].claim # NoClaim
  /\ \A n \in Nodes, j \in Jobs, t \in Threads :
       th[t].pc \in Unreleased => orphans[n][j] # th[t].claim
  /\ \A n \in Nodes, t \in Threads :
       mt[n].pc \in {"rcread", "rcdel"} /\ th[t].pc \in Unreleased => mt[n].claim # th[t].claim

\* If no store call fails, an unconfirmed kill ends its job for good.
OrphansFailed ==
  /\ \A t \in Threads : th[t].orphan /\ th[t].pc # "fail" =>
       row[J(t)].status = "failed" /\ row[J(t)].claim = C(t)
  /\ \A n \in Nodes, j \in Jobs : orphans[n][j] # NoClaim =>
       row[j].status = "failed" /\ row[j].claim = orphans[n][j]
  /\ \A n \in Nodes : mt[n].pc \in {"rcread", "rcdel"} =>
       row[mt[n].job].status = "failed" /\ row[mt[n].job].claim = mt[n].claim

OrphanInv == Claimed /\ Retained /\ (StoreFaults \/ OrphansFailed)

LEMMA OrphanInit == Init => OrphanInv
  BY DEF Init, IdleThread, IdleMaint, OrphanInv, Claimed, Retained, Unreleased, Working,
         OrphansFailed

\* What a step changes for the orphans, in one place: how a list entry, and the claim
\* of a reconciliation, come about.
LEMMA ListsChange ==
  ASSUME TypeInv, Owned, Retained, (\E t \in Threads : ThreadActs(t)) \/ AsideActs
  PROVE  /\ \A n \in Nodes, j \in Jobs :
              \/ orphans'[n][j] \in {orphans[n][j], NoClaim}
              \/ \E t \in Threads :
                   /\ ThreadActs(t) /\ th[t].pc = "release" /\ th[t].orphan /\ j = J(t)
                   /\ orphans'[n][j] = C(t)
         /\ \A n \in Nodes : mt'[n].pc \in {"rcread", "rcdel"} =>
              \/ /\ mt[n].pc \in {"rcread", "rcdel"}
                 /\ mt'[n].job = mt[n].job /\ mt'[n].claim = mt[n].claim
              \/ /\ mt[n].pc = "rcpop" /\ mt[n].job \in Jobs /\ mt'[n].job = mt[n].job
                 /\ mt'[n].claim = orphans[n][mt[n].job] /\ mt'[n].claim # NoClaim
                 /\ AsideActs
         /\ \A n \in Nodes : mt'[n].pc \in {"rcps", "rcpop"} =>
              orphans'[n][mt'[n].job] # NoClaim
<1>o. \A n \in Nodes : orphans[n] \in [Jobs -> ClaimIds]
  BY DEF TypeInv, GateInv
<1>m. \A n \in Nodes : mt[n].pc # "idle" => mt[n].job \in Jobs
  BY OwnedTypes
<1>1. ASSUME NEW t \in Threads, ThreadActs(t)
      PROVE  /\ mt' = mt
             /\ \A n \in Nodes, j \in Jobs :
                  \/ orphans'[n][j] = orphans[n][j]
                  \/ /\ th[t].pc = "release" /\ th[t].orphan /\ j = J(t)
                     /\ orphans'[n][j] = C(t)
  <2>1. mt' = mt /\ \/ orphans' = orphans
                    \/ /\ th[t].pc = "release" /\ th[t].orphan
                       /\ orphans' = [orphans EXCEPT ![N(t)][J(t)] = C(t)]
    BY <1>1 DEF ThreadActs, GateActs
  <2> QED
    BY <2>1, <1>o DEF TypeInv, GateInv
<1>2. ASSUME AsideActs
      PROVE  /\ \A n \in Nodes, j \in Jobs : orphans'[n][j] \in {orphans[n][j], NoClaim}
             /\ \A n \in Nodes : orphans'[n] = orphans[n] \/ mt'[n].pc \in {"rcread", "idle"}
  <2>1. ASSUME NEW n \in Nodes
        PROVE  /\ orphans'[n] = orphans[n] \/ mt'[n].pc \in {"rcread", "idle"}
               /\ \A j \in Jobs : orphans'[n][j] \in {orphans[n][j], NoClaim}
    <3>1. \/ orphans'[n] = orphans[n]
          \/ mt'[n].pc = "rcread" /\ orphans'[n] = [orphans[n] EXCEPT ![mt[n].job] = NoClaim]
          \/ mt'[n] = IdleMaint /\ orphans'[n] = [j \in Jobs |-> NoClaim]
      BY <1>2 DEF AsideActs, GateAside, Regains
    <3>2. IdleMaint.pc = "idle"
      BY DEF IdleMaint
    <3>3. orphans[n] \in [Jobs -> ClaimIds]
      BY <1>o
    <3> QED
      BY <3>1, <3>2, <3>3
  <2> QED
    BY <2>1
<1>3. ASSUME NEW n \in Nodes, mt'[n].pc \in {"rcread", "rcdel"}
      PROVE  \/ /\ mt[n].pc \in {"rcread", "rcdel"}
                /\ mt'[n].job = mt[n].job /\ mt'[n].claim = mt[n].claim
             \/ /\ mt[n].pc = "rcpop" /\ mt[n].job \in Jobs /\ mt'[n].job = mt[n].job
                /\ mt'[n].claim = orphans[n][mt[n].job] /\ mt'[n].claim # NoClaim
                /\ AsideActs
  <2>1. CASE mt'[n] = mt[n]
    BY <1>3, <2>1
  <2>2. CASE AsideActs /\ mt'[n] # mt[n]
    BY <1>3, <2>2, <1>m DEF AsideActs, MaintAside, IdleMaint, Lists, Finds, Reconciles, Retained
  <2> QED
    BY <2>1, <2>2, <1>1
<1>4. ASSUME NEW n \in Nodes, mt'[n].pc \in {"rcps", "rcpop"}
      PROVE  orphans'[n][mt'[n].job] # NoClaim
  <2>1. CASE \E t \in Threads : ThreadActs(t)
    <3>1. PICK t \in Threads : ThreadActs(t)
      BY <2>1
    <3>2. /\ mt' = mt
          /\ \A j \in Jobs : orphans'[n][j] = orphans[n][j]
                             \/ (th[t].pc = "release" /\ orphans'[n][j] = C(t))
      BY <3>1, <1>1
    <3>3. mt[n].job \in Jobs
      BY <1>4, <1>m, <3>2
    <3>4. orphans[n][mt[n].job] # NoClaim
      BY <1>4, <3>2 DEF Retained
    <3>5. th[t].pc = "release" => C(t) # NoClaim
      BY DEF Owned, ClaimsIssued, C
    <3> QED
      BY <3>2, <3>3, <3>4, <3>5
  <2>2. CASE AsideActs
    <3>1. orphans'[n] = orphans[n]
      BY <1>4, <1>2, <2>2
    <3>2. \/ mt'[n] = mt[n]
          \/ orphans[n][mt'[n].job] # NoClaim
          \/ mt[n].pc = "rcps" /\ mt'[n].job = mt[n].job
      BY <1>4, <2>2 DEF AsideActs, MaintAside, IdleMaint, Lists, Finds, Reconciles
    <3> QED
      BY <1>4, <3>1, <3>2 DEF Retained
  <2> QED
    BY <2>1, <2>2
<1> QED
  BY <1>1, <1>2, <1>3, <1>4

\* What happens to the row of a job that has been claimed.
LEMMA RowsChange ==
  ASSUME TypeInv, Owned, (\E t \in Threads : ThreadActs(t)) \/ AsideActs, NEW j \in Jobs,
         row[j].status # "absent"
  PROVE  /\ row'[j].status # "absent"
         /\ row[j].status = "failed" =>
              row'[j].status = "failed" /\ row'[j].claim = row[j].claim
<1>1. ASSUME NEW t \in Threads, ThreadActs(t)
      PROVE  \/ row'[j].status = row[j].status /\ row'[j].claim = row[j].claim
             \/ row[j].status # "failed" /\ row'[j].status # "absent"
  <2>1. \/ SameRow(j)
        \/ /\ Takes(t) /\ j = th'[t].job
           /\ row[j].status = "queued" /\ ~row[j].deferred
        \/ j = J(t) /\ StopsRow(t)
    BY <1>1 DEF ThreadActs, RowActs, SameRow
  <2> QED
    BY <2>1 DEF SameRow, Takes, StopsRow, StillOurs, Matches
<1>2. ASSUME AsideActs
      PROVE  \/ row'[j].status = row[j].status /\ row'[j].claim = row[j].claim
             \/ row[j].status # "failed" /\ row'[j].status # "absent"
  BY <1>2 DEF AsideActs, RowAside, Sweeps
<1> QED
  BY <1>1, <1>2

LEMMA ClaimedNext ==
  ASSUME TypeInv, Owned, Claimed, Retained, (\E t \in Threads : ThreadActs(t)) \/ AsideActs
  PROVE  Claimed'
<1>a. \A j \in Jobs : row[j].status # "absent" => row'[j].status # "absent"
  BY RowsChange
<1>b. /\ \A u \in Threads : th[u].pc # "idle" => th[u].job \in Jobs
      /\ \A n \in Nodes : mt[n].pc # "idle" => mt[n].job \in Jobs
  BY OwnedTypes
<1>1. ASSUME NEW u \in Threads, th'[u].pc # "idle"
      PROVE  row'[th'[u].job].status # "absent"
  <2>1. CASE th'[u].job = th[u].job /\ th[u].pc # "idle"
    BY <2>1, <1>a, <1>b DEF Claimed, J
  <2>2. CASE ~(th'[u].job = th[u].job /\ th[u].pc # "idle")
    <3>1. CASE AsideActs
      <4>1. th'[u] = th[u]
        BY <1>1, <3>1 DEF AsideActs, ThreadsAside, IdleThread
      <4> QED
        BY <1>1, <2>2, <4>1
    <3>2. ASSUME NEW t \in Threads, ThreadActs(t) PROVE Takes(t) /\ u = t
      <4>1. Acts(t)
        BY <3>2 DEF ThreadActs
      <4>2. u = t
        BY <1>1, <2>2, <4>1 DEF Acts
      <4>3. ~GoesOn(t)
        BY <2>2, <4>2 DEF GoesOn, Follows
      <4>4. ~Ends(t)
        BY <1>1, <4>2 DEF Ends, IdleThread
      <4> QED
        BY <4>1, <4>2, <4>3, <4>4 DEF Acts
    <3> QED
      BY <3>1, <3>2 DEF Takes
  <2> QED
    BY <2>1, <2>2
<1>2. ASSUME NEW n \in Nodes, NEW j \in Jobs, orphans'[n][j] # NoClaim
      PROVE  row'[j].status # "absent"
  <2>1. \/ orphans[n][j] # NoClaim
        \/ \E t \in Threads : th[t].pc = "release" /\ j = J(t)
    BY <1>2, ListsChange
  <2> QED
    BY <2>1, <1>a DEF Claimed
<1>3. ASSUME NEW n \in Nodes, mt'[n].pc \in {"rcread", "rcdel"}
      PROVE  row'[mt'[n].job].status # "absent"
  <2>1. \/ mt[n].pc \in {"rcread", "rcdel"} /\ mt'[n].job = mt[n].job
        \/ mt[n].pc = "rcpop" /\ mt[n].job \in Jobs /\ mt'[n].job = mt[n].job
    BY <1>3, ListsChange
  <2> QED
    BY <2>1, <1>a, <1>b DEF Claimed, Retained
<1> QED
  BY <1>1, <1>2, <1>3 DEF Claimed, J

\* A thread that has not been released was not before, or has just taken its claim.
LEMMA UnreleasedBefore ==
  ASSUME NEW u \in Threads, (\E t \in Threads : ThreadActs(t)) \/ AsideActs,
         th'[u].pc \in Unreleased
  PROVE  \/ th[u].pc \in Unreleased /\ th'[u].claim = th[u].claim /\ th'[u].job = th[u].job
            /\ ~(ThreadActs(u) /\ th[u].pc = "release")
         \/ ThreadActs(u) /\ Takes(u)
<1>1. ASSUME NEW t \in Threads, ThreadActs(t), t # u
      PROVE  th'[u] = th[u]
  BY <1>1 DEF ThreadActs, Acts
<1>2. CASE ThreadActs(u)
  <2>1. CASE GoesOn(u)
    BY <2>1 DEF GoesOn, Follows, Unreleased, Working
  <2>2. CASE Ends(u)
    BY <2>2 DEF Ends, IdleThread, Unreleased, Working
  <2> QED
    BY <1>2, <2>1, <2>2 DEF ThreadActs, Acts
<1>3. CASE AsideActs
  <2>1. th'[u] = th[u]
    BY <1>3 DEF AsideActs, ThreadsAside, IdleThread, Unreleased, Working
  <2> QED
    BY <2>1, <1>2
<1> QED
  BY <1>1, <1>2, <1>3

LEMMA RetainedNext ==
  ASSUME TypeInv, Owned, Retained, (\E t \in Threads : ThreadActs(t)) \/ AsideActs
  PROVE  Retained'
<1>b. /\ issued \in Nat /\ \A u \in Threads : th[u].claim \in Nat
      /\ \A n \in Nodes : mt[n].claim \in Nat /\ mt[n].claim <= issued
      /\ \A n \in Nodes, j \in Jobs : orphans[n][j] \in Nat /\ orphans[n][j] <= issued
  BY OwnedTypes DEF Owned, ClaimsIssued
<1>o. \A t, u \in Threads : t # u /\ th[t].pc # "idle" => th[t].claim # th[u].claim
  BY DEF Owned, OwnClaim, ClaimsIssued
<1>n. \A u \in Threads : th'[u].pc \in Unreleased => th'[u].claim # NoClaim
  <2>1. ASSUME NEW u \in Threads, th'[u].pc \in Unreleased PROVE th'[u].claim # NoClaim
    <3>1. th[u].pc \in Unreleased => th[u].claim # NoClaim
      BY DEF Owned, ClaimsIssued, Unreleased, Working
    <3>2. Takes(u) => th'[u].claim # NoClaim
      BY <1>b DEF Takes, NoClaim
    <3> QED
      BY <2>1, <3>1, <3>2, UnreleasedBefore
  <2> QED
    BY <2>1
<1>1. ASSUME NEW n \in Nodes, NEW j \in Jobs, NEW u \in Threads, th'[u].pc \in Unreleased
      PROVE  orphans'[n][j] # th'[u].claim
  <2>1. th'[u].claim # NoClaim
    BY <1>1, <1>n
  <2>2. CASE th[u].pc \in Unreleased /\ th'[u].claim = th[u].claim
             /\ ~(ThreadActs(u) /\ th[u].pc = "release")
    <3>1. orphans[n][j] # th[u].claim
      BY <2>2 DEF Retained
    <3>2. \A t \in Threads : ThreadActs(t) /\ th[t].pc = "release" => C(t) # th[u].claim
      BY <2>2, <1>o DEF C
    <3> QED
      BY <2>1, <2>2, <3>1, <3>2, ListsChange
  <2>3. CASE ThreadActs(u) /\ Takes(u)
    <3>1. th'[u].claim = issued + 1
      BY <2>3 DEF Takes
    <3>2. orphans'[n][j] = orphans[n][j]
      BY <2>3 DEF Takes, ThreadActs, GateActs
    <3> QED
      BY <3>1, <3>2, <1>b
  <2> QED
    BY <1>1, <2>2, <2>3, UnreleasedBefore
<1>2. ASSUME NEW n \in Nodes, mt'[n].pc \in {"rcread", "rcdel"}
      PROVE  /\ mt'[n].claim # NoClaim
             /\ \A u \in Threads : th'[u].pc \in Unreleased => mt'[n].claim # th'[u].claim
  <2>1. CASE /\ mt[n].pc \in {"rcread", "rcdel"} /\ mt'[n].claim = mt[n].claim
    <3>1. ASSUME NEW u \in Threads, th'[u].pc \in Unreleased PROVE mt[n].claim # th'[u].claim
      <4>1. CASE th[u].pc \in Unreleased /\ th'[u].claim = th[u].claim
        BY <2>1, <4>1 DEF Retained
      <4>2. CASE Takes(u)
        BY <4>2, <1>b DEF Takes
      <4> QED
        BY <3>1, <4>1, <4>2, UnreleasedBefore
    <3> QED
      BY <2>1, <3>1 DEF Retained
  <2>2. CASE /\ mt[n].pc = "rcpop" /\ mt[n].job \in Jobs /\ mt'[n].claim # NoClaim
             /\ mt'[n].claim = orphans[n][mt[n].job] /\ AsideActs
    <3>1. ASSUME NEW u \in Threads, th'[u].pc \in Unreleased PROVE mt'[n].claim # th'[u].claim
      <4>1. CASE th[u].pc \in Unreleased /\ th'[u].claim = th[u].claim
        BY <2>2, <4>1 DEF Retained
      <4>2. CASE Takes(u)
        BY <2>2, <4>2, <1>b DEF Takes
      <4> QED
        BY <3>1, <4>1, <4>2, UnreleasedBefore
    <3> QED
      BY <2>2, <3>1
  <2> QED
    BY <1>2, <2>1, <2>2, ListsChange
<1>3. \A n \in Nodes : mt'[n].pc \in {"rcps", "rcpop"} => orphans'[n][mt'[n].job] # NoClaim
  BY ListsChange
<1> QED
  BY <1>1, <1>2, <1>3 DEF Retained

LEMMA OrphansFailedNext ==
  ASSUME ~StoreFaults, TypeInv, Owned, Paths, Retained, OrphansFailed,
         (\E t \in Threads : ThreadActs(t)) \/ AsideActs
  PROVE  OrphansFailed'
<1>b. /\ \A u \in Threads : th[u].pc # "idle" => th[u].job \in Jobs
      /\ \A n \in Nodes : mt[n].pc # "idle" => mt[n].job \in Jobs
  BY OwnedTypes
<1>f. \A j \in Jobs : row[j].status = "failed" =>
        row'[j].status = "failed" /\ row'[j].claim = row[j].claim
  BY RowsChange
<1>i. IdleThread.pc = "idle" /\ ~IdleThread.orphan
  BY DEF IdleThread
<1>1. ASSUME NEW u \in Threads, th'[u].orphan, th'[u].pc # "fail"
      PROVE  row'[th'[u].job].status = "failed" /\ row'[th'[u].job].claim = th'[u].claim
  <2>1. CASE th'[u] = th[u]
    <3>1. th[u].pc # "idle"
      BY <1>1, <2>1 DEF Paths
    <3> QED
      BY <1>1, <2>1, <3>1, <1>b, <1>f DEF OrphansFailed, J, C
  <2>2. CASE ThreadActs(u) /\ GoesOn(u)
    <3>1. /\ th[u].orphan /\ th'[u].job = th[u].job /\ th'[u].claim = th[u].claim
          /\ th[u].pc # "idle"
      BY <1>1, <2>2 DEF GoesOn, Follows
    <3>2. CASE th[u].pc = "fail"
      <4>1. StillOurs(u)
        BY <3>2 DEF Owned, HoldsRow, Working
      <4> QED
        BY <2>2, <3>1, <3>2, <4>1 DEF ThreadActs, RowActs, J, C
    <3>3. CASE th[u].pc # "fail"
      BY <3>1, <3>3, <1>b, <1>f DEF OrphansFailed, J, C
    <3> QED
      BY <3>2, <3>3
  <2>3. ASSUME NEW t \in Threads, ThreadActs(t)
        PROVE  th'[u] = th[u] \/ (ThreadActs(u) /\ GoesOn(u))
    BY <1>1, <2>3, <1>i DEF ThreadActs, Acts, Ends, Takes
  <2>4. ASSUME AsideActs PROVE th'[u] = th[u]
    BY <1>1, <2>4, <1>i DEF AsideActs, ThreadsAside
  <2> QED
    BY <2>1, <2>2, <2>3, <2>4
<1>2. ASSUME NEW n \in Nodes, NEW j \in Jobs, orphans'[n][j] # NoClaim
      PROVE  row'[j].status = "failed" /\ row'[j].claim = orphans'[n][j]
  <2>1. CASE orphans'[n][j] = orphans[n][j]
    BY <1>2, <2>1, <1>f DEF OrphansFailed
  <2>2. ASSUME NEW t \in Threads, th[t].pc = "release", th[t].orphan, j = J(t),
               orphans'[n][j] = C(t)
        PROVE  row'[j].status = "failed" /\ row'[j].claim = orphans'[n][j]
    BY <2>2, <1>f DEF OrphansFailed
  <2> QED
    BY <1>2, <2>1, <2>2, ListsChange
<1>3. ASSUME NEW n \in Nodes, mt'[n].pc \in {"rcread", "rcdel"}
      PROVE  row'[mt'[n].job].status = "failed" /\ row'[mt'[n].job].claim = mt'[n].claim
  <2>1. CASE /\ mt[n].pc \in {"rcread", "rcdel"}
             /\ mt'[n].job = mt[n].job /\ mt'[n].claim = mt[n].claim
    BY <2>1, <1>b, <1>f DEF OrphansFailed
  <2>2. CASE /\ mt[n].pc = "rcpop" /\ mt[n].job \in Jobs /\ mt'[n].job = mt[n].job
             /\ mt'[n].claim = orphans[n][mt[n].job] /\ mt'[n].claim # NoClaim
    BY <2>2, <1>f DEF OrphansFailed
  <2> QED
    BY <1>3, <2>1, <2>2, ListsChange
<1> QED
  BY <1>1, <1>2, <1>3 DEF OrphansFailed, J, C

LEMMA OrphanNext ==
  ASSUME TypeInv, Owned, Paths, OrphanInv, (\E t \in Threads : ThreadActs(t)) \/ AsideActs
  PROVE  OrphanInv'
<1>1. Claimed' /\ Retained'
  BY ClaimedNext, RetainedNext DEF OrphanInv
<1>2. StoreFaults \/ OrphansFailed'
  BY OrphansFailedNext DEF OrphanInv
<1> QED
  BY <1>1, <1>2 DEF OrphanInv

-------------------------------------------------------------------------------
\* The permits of a node: who holds one, and which containers keep one.
Cold(n) == {t \in Threads : N(t) = n /\ HoldsPermit(t)}
Kept(n) == {j \in Jobs : orphans[n][j] # NoClaim}

LEMMA Counts ==
  ASSUME NEW U, IsFiniteSet(U), NEW S \in SUBSET U
  PROVE  /\ Cardinality(S) \in Nat
         /\ \A x \in U : x \notin S => Cardinality(S \cup {x}) = Cardinality(S) + 1
         /\ \A x \in S : Cardinality(S \ {x}) = Cardinality(S) - 1 /\ Cardinality(S) > 0
<1>1. IsFiniteSet(S) /\ Cardinality(S) \in Nat
  BY FS_Subset, FS_CardinalityType
<1>2. ASSUME NEW x \in U, x \notin S PROVE Cardinality(S \cup {x}) = Cardinality(S) + 1
  BY <1>1, <1>2, FS_AddElement
<1>3. ASSUME NEW x \in S PROVE Cardinality(S \ {x}) = Cardinality(S) - 1 /\ Cardinality(S) > 0
  <2>1. Cardinality(S \ {x}) = Cardinality(S) - 1
    BY <1>1, FS_RemoveElement
  <2>2. IsFiniteSet(S \ {x})
    BY <1>1, FS_Subset
  <2>3. Cardinality(S \ {x}) \in Nat
    BY <2>2, FS_CardinalityType
  <2> QED
    BY <1>1, <2>1, <2>3
<1> QED
  BY <1>1, <1>2, <1>3

LEMMA Finite == IsFiniteSet(Threads) /\ IsFiniteSet(Jobs)
  BY DispatchAssumption, JobStoreAssumption, FS_Interval DEF Jobs

\* How a thread comes by its permit and gives it back.
LEMMA HoldsChange ==
  ASSUME TypeInv, Paths, NEW t \in Threads, ThreadActs(t)
  PROVE  /\ th[t].pc = "admit" /\ th'[t].pc = "fetch" => ~HoldsPermit(t) /\ HoldsPermit(t)'
         /\ th[t].pc = "release" => (HoldsPermit(t) <=> ~th[t].warm) /\ ~HoldsPermit(t)'
         /\ ~(th[t].pc = "admit" /\ th'[t].pc = "fetch") /\ th[t].pc # "release" =>
              (HoldsPermit(t)' <=> HoldsPermit(t))
<1>1. th[t].warm \in BOOLEAN /\ th'[t].pc = th'[t].pc
  BY DEF TypeInv, ThInv, ThreadStates
<1>2. CASE GoesOn(t)
  BY <1>1, <1>2 DEF GoesOn, Follows, HoldsPermit, Paths
<1>3. CASE Ends(t)
  BY <1>3 DEF Ends, IdleThread, HoldsPermit
<1>4. CASE Takes(t)
  BY <1>4 DEF Takes, HoldsPermit
<1> QED
  BY <1>2, <1>3, <1>4 DEF ThreadActs, Acts

LEMMA PermitsThread ==
  ASSUME ~StoreFaults, TypeInv, Owned, Paths, OrphanInv, PermitsConserved,
         NEW t \in Threads, ThreadActs(t)
  PROVE  PermitsConserved'
<1> SUFFICES ASSUME NEW n \in Nodes
             PROVE  permits'[n] = Cardinality(Cold(n)') + Cardinality(Kept(n)')
  BY DEF PermitsConserved, Cold, Kept
<1>a. permits[n] = Cardinality(Cold(n)) + Cardinality(Kept(n))
  BY DEF PermitsConserved, Cold, Kept
<1>b. /\ permits \in [Nodes -> Nat] /\ N(t) \in Nodes
      /\ orphans \in [Nodes -> [Jobs -> ClaimIds]] /\ orphans[n] \in [Jobs -> ClaimIds]
      /\ th[t].pc # "idle" => J(t) \in Jobs
  BY OwnedTypes DEF TypeInv, GateInv, J
<1>c. /\ Cold(n) \subseteq Threads /\ Cold(n)' \subseteq Threads
      /\ Kept(n) \subseteq Jobs /\ Kept(n)' \subseteq Jobs
  BY DEF Cold, Kept
<1>d. Cardinality(Cold(n)) \in Nat /\ Cardinality(Kept(n)) \in Nat
  BY <1>c, Finite, Counts
<1>e. \A u \in Threads : u # t => (HoldsPermit(u)' <=> HoldsPermit(u))
  BY DEF ThreadActs, Acts, HoldsPermit
<1>g. GateActs(t)
  BY DEF ThreadActs
<1>s. (N(t) # n \/ (HoldsPermit(t)' <=> HoldsPermit(t))) => Cold(n)' = Cold(n)
  BY <1>e DEF Cold, N
<1>k. orphans'[n] = orphans[n] => Kept(n)' = Kept(n)
  BY DEF Kept
<1>1. CASE N(t) # n
  <2>1. permits'[n] = permits[n] /\ orphans'[n] = orphans[n]
    BY <1>1, <1>b, <1>g DEF GateActs, Returned
  <2> QED
    BY <1>1, <2>1, <1>a, <1>s, <1>k
<1>2. CASE N(t) = n /\ th[t].pc = "admit" /\ th'[t].pc = "fetch"
  <2>1. permits'[n] = permits[n] + 1 /\ orphans'[n] = orphans[n]
    BY <1>2, <1>b, <1>g DEF GateActs
  <2>2. t \notin Cold(n) /\ Cold(n)' = Cold(n) \cup {t}
    BY <1>2, <1>e, HoldsChange DEF Cold, N
  <2>3. Cardinality(Cold(n)') = Cardinality(Cold(n)) + 1
    BY <2>2, <1>c, Finite, Counts
  <2> QED
    BY <2>1, <2>3, <1>a, <1>d, <1>k
<1>3. CASE N(t) = n /\ th[t].pc = "release" /\ ~th[t].warm
  <2>1. t \in Cold(n) /\ Cold(n)' = Cold(n) \ {t}
    BY <1>3, <1>e, HoldsChange DEF Cold, N
  <2>2. Cardinality(Cold(n)') = Cardinality(Cold(n)) - 1 /\ Cardinality(Cold(n)) > 0
    BY <2>1, <1>c, Finite, Counts
  <2>3. CASE ~th[t].orphan
    <3>1. permits'[n] = permits[n] - 1 /\ orphans'[n] = orphans[n]
      BY <1>3, <2>2, <2>3, <1>a, <1>b, <1>d, <1>g DEF GateActs, Returned
    <3> QED
      BY <2>2, <3>1, <1>a, <1>d, <1>k
  <2>4. CASE th[t].orphan
    <3>1. /\ permits'[n] = permits[n]
          /\ orphans'[n] = [orphans[n] EXCEPT ![J(t)] = C(t)]
      BY <1>3, <2>4, <1>b, <1>g DEF GateActs
    <3>2. C(t) # NoClaim
      BY <1>3 DEF Owned, ClaimsIssued, C
    <3>3. J(t) \notin Kept(n)
      <4>1. row[J(t)].claim = C(t)
        BY <1>3, <2>4 DEF OrphanInv, OrphansFailed
      <4>2. orphans[n][J(t)] # C(t)
        BY <1>3, <1>b DEF OrphanInv, Retained, Unreleased, C
      <4> QED
        BY <4>1, <4>2 DEF OrphanInv, OrphansFailed, Kept
    <3>4. Kept(n)' = Kept(n) \cup {J(t)} /\ J(t) \in Jobs
      BY <1>3, <3>1, <3>2, <1>b DEF Kept
    <3>5. Cardinality(Kept(n)') = Cardinality(Kept(n)) + 1
      BY <3>3, <3>4, <1>c, Finite, Counts
    <3> QED
      BY <2>2, <3>1, <3>5, <1>a, <1>d
  <2> QED
    BY <2>3, <2>4
<1>4. CASE N(t) = n /\ ~(th[t].pc = "admit" /\ th'[t].pc = "fetch")
           /\ ~(th[t].pc = "release" /\ ~th[t].warm)
  <2>1. HoldsPermit(t)' <=> HoldsPermit(t)
    BY <1>4, HoldsChange
  <2>2. ~(th[t].pc = "release" /\ th[t].orphan)
    BY <1>4 DEF Paths
  <2>3. permits'[n] = permits[n] /\ orphans'[n] = orphans[n]
    BY <1>4, <2>2, <1>g DEF GateActs
  <2> QED
    BY <2>1, <2>3, <1>a, <1>s, <1>k
<1> QED
  BY <1>1, <1>2, <1>3, <1>4

LEMMA PermitsAside ==
  ASSUME TypeInv, Retained, PermitsConserved, AsideActs
  PROVE  PermitsConserved'
<1> SUFFICES ASSUME NEW n \in Nodes
             PROVE  permits'[n] = Cardinality(Cold(n)') + Cardinality(Kept(n)')
  BY DEF PermitsConserved, Cold, Kept
<1>a. permits[n] = Cardinality(Cold(n)) + Cardinality(Kept(n))
  BY DEF PermitsConserved, Cold, Kept
<1>c. /\ Cold(n) \subseteq Threads /\ Kept(n) \subseteq Jobs
      /\ Cardinality(Cold(n)) \in Nat /\ Cardinality(Kept(n)) \in Nat
  BY Finite, Counts DEF Cold, Kept
<1>s. Undisturbed(n) => Cold(n)' = Cold(n)
  BY DEF Undisturbed, Cold, N, HoldsPermit
<1>1. CASE /\ permits'[n] = permits[n] /\ orphans'[n] = orphans[n] /\ Undisturbed(n)
  BY <1>1, <1>a, <1>s DEF Kept
<1>2. CASE /\ Regains(n) /\ Undisturbed(n)
           /\ permits'[n] = IF permits[n] > 0 THEN permits[n] - 1 ELSE 0
           /\ orphans'[n] = [orphans[n] EXCEPT ![mt[n].job] = NoClaim]
  <2>1. mt[n].job \in Kept(n)
    BY <1>2, OwnedTypes DEF Regains, Retained, Kept
  <2>2. Kept(n)' = Kept(n) \ {mt[n].job}
    BY <1>2, <2>1 DEF Kept, TypeInv, GateInv
  <2>3. Cardinality(Kept(n)') = Cardinality(Kept(n)) - 1 /\ Cardinality(Kept(n)) > 0
    BY <2>1, <2>2, <1>c, Finite, Counts
  <2> QED
    BY <1>2, <2>3, <1>a, <1>c, <1>s
<1>3. CASE /\ permits'[n] = 0 /\ orphans'[n] = [j \in Jobs |-> NoClaim]
           /\ \A t \in Threads : N(t) = n => th'[t] = IdleThread
  <2>1. Cold(n)' = {} /\ Kept(n)' = {}
    BY <1>3 DEF Cold, Kept, N, HoldsPermit, IdleThread
  <2> QED
    BY <1>3, <2>1, FS_EmptySet
<1> QED
  BY <1>1, <1>2, <1>3 DEF AsideActs, GateAside

LEMMA PermitsInit == Init => PermitsConserved
<1> SUFFICES ASSUME Init, NEW n \in Nodes
             PROVE  permits[n] = Cardinality(Cold(n)) + Cardinality(Kept(n))
  BY DEF PermitsConserved, Cold, Kept
<1>1. permits[n] = 0 /\ Cold(n) = {} /\ Kept(n) = {}
  BY DEF Init, IdleThread, Cold, Kept, HoldsPermit
<1> QED
  BY <1>1, FS_EmptySet

\* The count of the gate is the cold jobs at work plus the containers whose kill was not
\* confirmed, on every node: no exit path of _dispatch_claimed_job leaks a permit or
\* gives one back twice, if owners are prompt and no store call raises.  (One that
\* raises can leave the row of an unconfirmed container RUNNING; the job is claimed
\* again, and a second unconfirmed container of the same name takes the first one's
\* place in _retained_cold_orphans, so that only one of the two permits comes back.)
THEOREM PermitsStay ==
  SlowOwners = FALSE /\ StoreFaults = FALSE => (Spec => []PermitsConserved)
<1> SUFFICES ASSUME SlowOwners = FALSE, StoreFaults = FALSE
             PROVE  Spec => []PermitsConserved
  OBVIOUS
<1> DEFINE Inv == TypeInv /\ AbsentInv /\ Owned /\ Paths /\ OrphanInv /\ PermitsConserved
<1>1. Init => Inv
  BY InitTyped, AbsentInit, OwnedInit, ResultInit, OrphanInit, PermitsInit DEF ResultInv
<1>2. Inv /\ [Next]_vars => Inv'
  <2> SUFFICES ASSUME Inv, [Next]_vars PROVE Inv'
    OBVIOUS
  <2>1. TypeInv' /\ AbsentInv' /\ Owned'
    BY NextTyped, NextEffect, EffectRefines, OwnedNext
  <2>2. (\E t \in Threads : ThreadActs(t)) \/ AsideActs
    BY Steps
  <2>3. Paths' /\ OrphanInv'
    BY <2>2, PathsNext, OrphanNext
  <2>4. PermitsConserved'
    BY <2>2, PermitsThread, PermitsAside DEF OrphanInv
  <2> QED
    BY <2>1, <2>3, <2>4
<1>3. Inv => PermitsConserved
  OBVIOUS
<1> QED
  BY <1>1, <1>2, <1>3, PTL DEF Spec

-------------------------------------------------------------------------------
\* Who may remove an input or a tree.

\* A thread that is about to remove one has a job nobody else can be at work on.
CleansOwn ==
  \A t \in Threads :
    /\ th[t].pc \in {"indel", "pgdel"} => row[J(t)].claim = C(t)
    /\ th[t].pc = "fetchdrop" =>
         /\ row[J(t)].status # "running"
         /\ row[J(t)].status = "queued" => row[J(t)].deferred

\* So has a reconciliation.
ReconcilesOwn == \A n \in Nodes : mt[n].pc = "rcdel" => row[mt[n].job].claim = mt[n].claim

InputInv == CleansOwn /\ ReconcilesOwn /\ StagedInputSafe

\* Nobody else's sweep is at work while a node reconciles.
LoneNode == \A m, n \in Nodes : m = n

LEMMA InputInit == Init => InputInv
  BY DEF Init, IdleThread, IdleMaint, InputInv, CleansOwn, ReconcilesOwn, StagedInputSafe

\* The claim on a row stays while its thread or its reconciliation is there.
LEMMA CleansNext ==
  ASSUME ~SlowOwners, TypeInv, Owned, Claimed, CleansOwn,
         (\E t \in Threads : ThreadActs(t)) \/ AsideActs
  PROVE  CleansOwn'
<1>b. \A u \in Threads : th[u].pc # "idle" => th[u].job \in Jobs /\ C(u) # NoClaim
  BY OwnedTypes DEF Owned, ClaimsIssued, C
<1>i. IdleThread.pc = "idle"
  BY DEF IdleThread
<1>1. ASSUME NEW t \in Threads, ThreadActs(t), NEW u \in Threads, u # t
      PROVE  /\ th[u].pc \in {"indel", "pgdel"} => row'[J(u)].claim = C(u)
             /\ th[u].pc = "fetchdrop" =>
                  /\ row'[J(u)].status # "running"
                  /\ row'[J(u)].status = "queued" => row'[J(u)].deferred
  <2>1. CASE th[u].pc \in {"indel", "pgdel"}
    <3>1. J(u) \in Jobs /\ row[J(u)].claim = C(u) /\ C(u) # NoClaim
      BY <2>1, <1>b DEF CleansOwn, J
    <3>2. row[J(u)].status # "queued"
      BY <3>1 DEF Owned, RowsFree
    <3>3. ~(J(u) = J(t) /\ StopsRow(t))
      BY <1>1, <3>1 DEF Owned, OwnClaim, StopsRow, StillOurs, Matches, C
    <3>4. SameRow(J(u))
      BY <1>1, <3>1, <3>2, <3>3 DEF ThreadActs, RowActs
    <3> QED
      BY <2>1, <3>1, <3>4 DEF SameRow
  <2>2. CASE th[u].pc = "fetchdrop"
    <3>1. /\ J(u) \in Jobs /\ row[J(u)].status # "running"
          /\ row[J(u)].status = "queued" => row[J(u)].deferred
      BY <2>2, <1>b DEF CleansOwn, J
    <3>2. ~(J(u) = J(t) /\ StopsRow(t))
      BY <3>1 DEF StopsRow, StillOurs, Matches
    <3>3. SameRow(J(u))
      BY <1>1, <3>1, <3>2 DEF ThreadActs, RowActs
    <3> QED
      BY <2>2, <3>1, <3>3 DEF SameRow
  <2> QED
    BY <2>1, <2>2
<1>2. ASSUME NEW t \in Threads, ThreadActs(t), th'[t].pc \in {"indel", "pgdel", "fetchdrop"}
      PROVE  /\ th'[t].job = th[t].job /\ th'[t].claim = th[t].claim
             /\ th'[t].pc \in {"indel", "pgdel"} => row'[J(t)].claim = C(t)
             /\ th'[t].pc = "fetchdrop" =>
                  /\ row'[J(t)].status # "running"
                  /\ row'[J(t)].status = "queued" => row'[J(t)].deferred
  <2>1. GoesOn(t)
    BY <1>2, <1>i DEF ThreadActs, Acts, Ends, Takes
  <2>2. CASE th'[t].pc \in {"indel", "pgdel"}
    <3>1. th[t].pc \in {"inread", "pgread"}
      BY <2>1, <2>2 DEF GoesOn, Follows
    <3>2. row[J(t)].claim = C(t) /\ J(t) \in Jobs /\ C(t) # NoClaim
      BY <1>2, <2>2, <3>1, <1>b DEF ThreadActs, CleanActs, OwnsTree, Claimed, J
    <3>3. row[J(t)].status # "queued" /\ ~StopsRow(t)
      BY <3>1, <3>2 DEF Owned, RowsFree, StopsRow, Working
    <3>4. SameRow(J(t))
      BY <1>2, <3>2, <3>3 DEF ThreadActs, RowActs
    <3> QED
      BY <2>1, <2>2, <3>2, <3>4 DEF SameRow, GoesOn
  <2>3. CASE th'[t].pc = "fetchdrop"
    <3>1. th[t].pc = "fetch"
      BY <2>1, <2>3 DEF GoesOn, Follows
    <3>2. StillOurs(t)
      BY <3>1 DEF Owned, HoldsRow, Working
    <3> QED
      BY <1>2, <2>1, <2>3, <3>2 DEF ThreadActs, RowActs, GoesOn
  <2> QED
    BY <1>2, <2>2, <2>3
<1>3. ASSUME NEW t \in Threads, ThreadActs(t) PROVE CleansOwn'
  <2>1. \A u \in Threads : u # t => th'[u] = th[u]
    BY <1>3 DEF ThreadActs, Acts
  <2> QED
    BY <1>1, <1>2, <1>3, <2>1 DEF CleansOwn, J, C
<1>4. ASSUME AsideActs, NEW u \in Threads, th[u].pc \in {"indel", "pgdel", "fetchdrop"}
      PROVE  /\ th[u].pc \in {"indel", "pgdel"} => row'[J(u)].claim = C(u)
             /\ th[u].pc = "fetchdrop" =>
                  /\ row'[J(u)].status # "running"
                  /\ row'[J(u)].status = "queued" => row'[J(u)].deferred
  <2>1. J(u) \in Jobs /\ C(u) # NoClaim /\ row[J(u)].status # "absent"
    BY <1>4, <1>b DEF Claimed, J
  <2>2. ~Settled(J(u))
    BY DEF Settled
  <2>3. \A n \in Nodes : Sweeps(n, J(u)) => row[J(u)].claim # C(u) /\ row[J(u)].status = "running"
    BY <1>4 DEF Sweeps, Owned, JudgedGone, C
  <2>4. row[J(u)].status = "queued" => row[J(u)].claim = NoClaim
    BY <2>1 DEF Owned, RowsFree
  <2>5. CASE th[u].pc \in {"indel", "pgdel"}
    <3>1. row[J(u)].claim = C(u)
      BY <2>5 DEF CleansOwn
    <3> QED
      BY <1>4, <2>1, <2>3, <2>4, <2>5, <3>1 DEF AsideActs, RowAside
  <2>6. CASE th[u].pc = "fetchdrop"
    <3>1. row[J(u)].status # "running" /\ (row[J(u)].status = "queued" => row[J(u)].deferred)
      BY <2>6 DEF CleansOwn
    <3> QED
      BY <1>4, <2>1, <2>2, <2>3, <2>6, <3>1 DEF AsideActs, RowAside
  <2> QED
    BY <1>4, <2>5, <2>6
<1>5. ASSUME AsideActs PROVE CleansOwn'
  <2>1. \A u \in Threads : th'[u].pc \in {"indel", "pgdel", "fetchdrop"} => th'[u] = th[u]
    BY <1>5, <1>i DEF AsideActs, ThreadsAside
  <2> QED
    BY <1>4, <1>5, <2>1 DEF CleansOwn, J, C
<1> QED
  BY <1>3, <1>5

LEMMA ReconcilesNext ==
  ASSUME ~StoreFaults \/ LoneNode, TypeInv, Owned, Paths, OrphanInv, ReconcilesOwn,
         (\E t \in Threads : ThreadActs(t)) \/ AsideActs
  PROVE  ReconcilesOwn'
<1> SUFFICES ASSUME NEW n \in Nodes, mt'[n].pc = "rcdel"
             PROVE  row'[mt'[n].job].claim = mt'[n].claim
  BY DEF ReconcilesOwn
<1>1. CASE ~StoreFaults
  BY <1>1, OrphanNext DEF OrphanInv, OrphansFailed
<1>2. CASE LoneNode
  <2>1. /\ mt[n].pc \in {"rcread", "rcdel"}
        /\ mt'[n].job = mt[n].job /\ mt'[n].claim = mt[n].claim
    <3>1. CASE mt'[n] = mt[n]
      BY <3>1
    <3>2. CASE mt'[n] # mt[n] /\ AsideActs
      BY <3>2 DEF AsideActs, MaintAside, IdleMaint, Lists, Finds, Reconciles
    <3> QED
      BY <3>1, <3>2 DEF ThreadActs, GateActs
  <2>2. mt[n].job \in Jobs /\ mt[n].claim # NoClaim /\ row[mt[n].job].status # "absent"
    BY <2>1, OwnedTypes DEF OrphanInv, Retained, Claimed
  <2>3. row[mt[n].job].claim = mt[n].claim
    <3>1. CASE mt[n].pc = "rcdel"
      BY <3>1 DEF ReconcilesOwn
    <3>2. CASE mt[n].pc = "rcread"
      <4>1. AsideActs
        BY <3>2 DEF ThreadActs, GateActs
      <4>2. OwnsTree(mt[n].job, mt[n].claim)
        BY <3>2, <4>1 DEF AsideActs, MaintAside, IdleMaint, Lists, Finds, Reconciles
      <4> QED
        BY <2>2, <4>2 DEF OwnsTree
    <3> QED
      BY <2>1, <3>1, <3>2
  <2>4. row[mt[n].job].status # "queued"
    BY <2>2, <2>3 DEF Owned, RowsFree
  <2>5. ASSUME NEW t \in Threads, ThreadActs(t) PROVE row'[mt[n].job].claim = mt[n].claim
    <3>1. ~(mt[n].job = J(t) /\ StopsRow(t))
      BY <2>1, <2>3 DEF OrphanInv, Retained, Unreleased, StopsRow, StillOurs, Matches, C
    <3>2. SameRow(mt[n].job)
      BY <2>2, <2>4, <2>5, <3>1 DEF ThreadActs, RowActs
    <3> QED
      BY <2>3, <3>2 DEF SameRow
  <2>6. ASSUME AsideActs PROVE row'[mt[n].job].claim = mt[n].claim
    <3>1. \A m \in Nodes : ~Sweeps(m, mt[n].job)
      BY <1>2, <2>1 DEF LoneNode, Sweeps, Judged
    <3> QED
      BY <2>2, <2>3, <2>4, <2>6, <3>1 DEF AsideActs, RowAside
  <2> QED
    BY <2>1, <2>5, <2>6
<1> QED
  BY <1>1, <1>2

LEMMA StagedNext ==
  ASSUME TypeInv, Owned, OrphanInv, InputInv, (\E t \in Threads : ThreadActs(t)) \/ AsideActs
  PROVE  StagedInputSafe'
<1> DEFINE Needs == {"stampc", "launch", "guest"}
<1>a. ASSUME NEW u \in Threads, th[u].pc \in Needs
      PROVE  /\ N(u) \in Nodes /\ J(u) \in Jobs /\ u \in Threads /\ StillOurs(u)
             /\ C(u) # NoClaim /\ disk[N(u)][J(u)].input
  <2>1. StillOurs(u)
    BY <1>a DEF Owned, HoldsRow, Working
  <2>2. N(u) \in Nodes /\ J(u) \in Jobs /\ C(u) # NoClaim
    BY <1>a, OwnedTypes DEF Owned, ClaimsIssued, J, C
  <2> QED
    BY <1>a, <2>1, <2>2 DEF InputInv, StagedInputSafe, Tree
<1>i. IdleThread.pc = "idle"
  BY DEF IdleThread
<1>1. ASSUME NEW t \in Threads, ThreadActs(t), NEW u \in Threads, u # t, th[u].pc \in Needs
      PROVE  disk'[N(u)][J(u)].input
  <2>1. /\ N(u) \in Nodes /\ J(u) \in Jobs /\ disk[N(u)][J(u)].input /\ C(u) # NoClaim
        /\ row[J(u)].status = "running" /\ row[J(u)].claim = C(u)
    BY <1>1, <1>a DEF StillOurs, Matches
  <2>2. J(u) = J(t) => th[t].pc \notin {"fetchdrop", "indel", "pgdel"}
    BY <1>1, <2>1 DEF InputInv, CleansOwn, Owned, OwnClaim, C
  <2> QED
    BY <1>1, <2>1, <2>2 DEF ThreadActs, TreeActs
<1>2. ASSUME NEW t \in Threads, ThreadActs(t), th'[t].pc \in Needs
      PROVE  disk'[N(t)][th'[t].job].input
  <2>1. GoesOn(t)
    BY <1>2, <1>i DEF ThreadActs, Acts, Ends, Takes
  <2>2. /\ th'[t].job = th[t].job
        /\ \/ th[t].pc = "fetch" /\ th'[t].pc \in {"guest", "stampc"}
           \/ th[t].pc = "stampc"
    BY <1>2, <2>1 DEF GoesOn, Follows
  <2>3. CASE th[t].pc = "fetch" /\ th'[t].pc \in {"guest", "stampc"}
    BY <1>2, <2>2, <2>3 DEF ThreadActs, TreeActs, J
  <2>4. CASE th[t].pc = "stampc"
    <3>1. N(t) \in Nodes /\ J(t) \in Jobs /\ disk[N(t)][J(t)].input
      BY <2>4, <1>a
    <3> QED
      BY <1>2, <2>2, <2>4, <3>1 DEF ThreadActs, TreeActs, J
  <2> QED
    BY <2>2, <2>3, <2>4
<1>3. ASSUME NEW t \in Threads, ThreadActs(t) PROVE StagedInputSafe'
  <2>1. \A u \in Threads : u # t => th'[u] = th[u]
    BY <1>3 DEF ThreadActs, Acts
  <2> QED
    BY <1>1, <1>2, <1>3, <2>1 DEF StagedInputSafe, Tree, J, N
<1>4. ASSUME AsideActs, NEW u \in Threads, th[u].pc \in Needs
      PROVE  disk'[N(u)][J(u)].input
  <2>1. /\ N(u) \in Nodes /\ J(u) \in Jobs /\ disk[N(u)][J(u)].input
        /\ row[J(u)].status = "running" /\ row[J(u)].claim = C(u)
    BY <1>4, <1>a DEF StillOurs, Matches
  <2>2. \A n \in Nodes : ~Sweeps(n, J(u))
    BY <1>4, <2>1 DEF Sweeps, Owned, JudgedGone, C
  <2>3. \A n \in Nodes : ~(mt[n].pc = "rcdel" /\ mt[n].job = J(u))
    BY <1>4, <2>1 DEF InputInv, ReconcilesOwn, OrphanInv, Retained, Unreleased, Working, C
  <2> QED
    BY <1>4, <2>1, <2>2, <2>3 DEF AsideActs, TreeAside
<1>5. ASSUME AsideActs PROVE StagedInputSafe'
  <2>1. \A u \in Threads : th'[u].pc \in Needs => th'[u] = th[u]
    BY <1>5, <1>i DEF AsideActs, ThreadsAside
  <2> QED
    BY <1>4, <1>5, <2>1 DEF StagedInputSafe, Tree, J, N
<1> QED
  BY <1>3, <1>5

\* Nobody deletes the staged input of a job between the moment its owner staged it and
\* the moment the worker reads it: neither a former owner in its clean-up
\* (_delete_input_if_owned, _purge_job_dir_if_owned, the drop after a failed fetch), nor
\* a sweep, nor a reconciliation; if owners are prompt and either no store call raises or
\* there is one node.
THEOREM InputsStaySafe ==
  SlowOwners = FALSE /\ (StoreFaults = FALSE \/ LoneNode) => (Spec => []StagedInputSafe)
<1> SUFFICES ASSUME SlowOwners = FALSE, StoreFaults = FALSE \/ LoneNode
             PROVE  Spec => []StagedInputSafe
  OBVIOUS
<1> DEFINE Inv == TypeInv /\ AbsentInv /\ Owned /\ Paths /\ OrphanInv /\ InputInv
<1>1. Init => Inv
  BY InitTyped, AbsentInit, OwnedInit, ResultInit, OrphanInit, InputInit DEF ResultInv
<1>2. Inv /\ [Next]_vars => Inv'
  <2> SUFFICES ASSUME Inv, [Next]_vars PROVE Inv'
    OBVIOUS
  <2>1. TypeInv' /\ AbsentInv' /\ Owned'
    BY NextTyped, NextEffect, EffectRefines, OwnedNext
  <2>2. (\E t \in Threads : ThreadActs(t)) \/ AsideActs
    BY Steps
  <2>3. Paths' /\ OrphanInv'
    BY <2>2, PathsNext, OrphanNext
  <2>4. CleansOwn' /\ ReconcilesOwn' /\ StagedInputSafe'
    BY <2>2, CleansNext, ReconcilesNext, StagedNext DEF OrphanInv, InputInv
  <2> QED
    BY <2>1, <2>3, <2>4 DEF InputInv
<1>3. Inv => StagedInputSafe
  BY DEF InputInv
<1> QED
  BY <1>1, <1>2, <1>3, PTL DEF Spec

-------------------------------------------------------------------------------
\* As long as no dispatcher process has crashed, a worker container is somebody's: a
\* thread waits for it, or its kill was not confirmed and its job has failed for good.
\* Hence cold containers never stack past the limit of their node's gate, and nobody
\* removes the output directory under a live one.

\* The thread that started a container is there, and it has not given it up.
Houses(t, n, j) ==
  /\ N(t) = n /\ J(t) = j /\ C(t) = box[n][j]
  /\ th[t].pc = "boxed" \/ (th[t].orphan /\ th[t].pc \in {"fail", "release"})

Housed ==
  \A n \in Nodes, j \in Jobs : box[n][j] # NoClaim =>
    (\E t \in Threads : Houses(t, n, j)) \/ orphans[n][j] # NoClaim

\* What a reconciliation takes off the list is gone, and does not come back to it.
PopsOnce ==
  \A n \in Nodes :
    /\ mt[n].pc = "rcpop" => box[n][mt[n].job] = NoClaim
    /\ mt[n].pc \in {"rcread", "rcdel"} => orphans[n][mt[n].job] # mt[n].claim

\* Whose claim is on the list knows it, and does not remove the tree.
OrphansMarked ==
  /\ \A n \in Nodes, j \in Jobs, t \in Threads :
       th[t].pc # "idle" /\ orphans[n][j] = C(t) => th[t].orphan
  /\ \A t \in Threads : th[t].pc = "pgdel" => ~th[t].orphan

LimitKept == \A n \in Nodes : permits[n] <= Limit

BudgetInv == Housed /\ PopsOnce /\ OrphansMarked /\ LimitKept /\ LiveTreeKept

LEMMA BudgetInit == Init => BudgetInv
  BY DispatchAssumption
     DEF Init, IdleThread, IdleMaint, BudgetInv, Housed, PopsOnce, OrphansMarked, LimitKept,
         LiveTreeKept

\* The row of a job with a live container is its thread's, or has failed.
LEMMA LiveRow ==
  ASSUME ~StoreFaults, TypeInv, Owned, OrphanInv, Housed,
         NEW n \in Nodes, NEW j \in Jobs, box[n][j] # NoClaim
  PROVE  \/ \E t \in Threads :
              /\ Houses(t, n, j) /\ th[t].pc \in {"boxed", "fail"}
              /\ row[j].status = "running" /\ row[j].claim = C(t)
         \/ \E t \in Threads :
              /\ Houses(t, n, j) /\ th[t].pc = "release"
              /\ row[j].status = "failed" /\ row[j].claim = C(t)
         \/ /\ orphans[n][j] # NoClaim
            /\ row[j].status = "failed" /\ row[j].claim = orphans[n][j]
<1>1. ASSUME NEW t \in Threads, Houses(t, n, j), th[t].pc \in {"boxed", "fail"}
      PROVE  row[j].status = "running" /\ row[j].claim = C(t)
  BY <1>1 DEF Houses, Owned, HoldsRow, Working, StillOurs, Matches
<1>2. ASSUME NEW t \in Threads, Houses(t, n, j), th[t].pc = "release"
      PROVE  row[j].status = "failed" /\ row[j].claim = C(t)
  BY <1>2 DEF Houses, OrphanInv, OrphansFailed
<1>3. orphans[n][j] # NoClaim => row[j].status = "failed" /\ row[j].claim = orphans[n][j]
  BY DEF OrphanInv, OrphansFailed
<1>4. \A t \in Threads : Houses(t, n, j) => th[t].pc \in {"boxed", "fail", "release"}
  BY DEF Houses
<1> QED
  BY <1>1, <1>2, <1>3, <1>4 DEF Housed

-------------------------------------------------------------------------------
\* A step of a thread.
LEMMA HousedThread ==
  ASSUME ~StoreFaults, TypeInv, Owned, OrphanInv, BudgetInv, NEW t \in Threads, ThreadActs(t)
  PROVE  Housed'
<1> SUFFICES ASSUME NEW n \in Nodes, NEW j \in Jobs, box'[n][j] # NoClaim
             PROVE  \/ \E u \in Threads : Houses(u, n, j)'
                    \/ orphans'[n][j] # NoClaim
  BY DEF Housed
<1>a. /\ orphans \in [Nodes -> [Jobs -> ClaimIds]] /\ orphans[n] \in [Jobs -> ClaimIds]
      /\ th[t].pc # "idle" => C(t) # NoClaim /\ J(t) \in Jobs /\ N(t) \in Nodes
  BY OwnedTypes DEF TypeInv, GateInv, Owned, ClaimsIssued, J, C
<1>e. \A u \in Threads : u # t => th'[u] = th[u]
  BY DEF ThreadActs, Acts
<1>1. CASE /\ n = N(t) /\ j = J(t) /\ box'[n][j] = C(t)
           /\ th[t].pc = "launch" /\ th'[t].pc = "boxed"
  <2>1. th'[t].job = th[t].job /\ th'[t].claim = th[t].claim
    BY <1>1 DEF ThreadActs, Acts, GoesOn, Ends, Takes
  <2>2. Houses(t, n, j)'
    BY <1>1, <2>1 DEF Houses, J, C, N
  <2> QED
    BY <2>2
<1>2. CASE box'[n][j] = box[n][j]
  <2>1. orphans[n][j] # NoClaim => orphans'[n][j] # NoClaim
    <3>1. \/ orphans' = orphans
          \/ th[t].pc = "release" /\ orphans' = [orphans EXCEPT ![N(t)][J(t)] = C(t)]
      BY DEF ThreadActs, GateActs
    <3> QED
      BY <3>1, <1>a
  <2>2. ASSUME NEW u \in Threads, u # t, Houses(u, n, j) PROVE Houses(u, n, j)'
    BY <1>2, <1>e, <2>2 DEF Houses, J, C, N
  <2>3. ASSUME Houses(t, n, j) PROVE Houses(t, n, j)' \/ orphans'[n][j] # NoClaim
    <3>1. th[t].pc \in {"boxed", "fail", "release"} /\ n = N(t) /\ j = J(t) /\ box[n][j] = C(t)
      BY <2>3 DEF Houses
    <3>2. GoesOn(t)
      BY <3>1 DEF ThreadActs, Acts, Ends, Takes
    <3>3. /\ th'[t].job = th[t].job /\ th'[t].claim = th[t].claim
          /\ th[t].orphan => th'[t].orphan
      BY <3>2 DEF GoesOn
    <3>4. CASE th[t].pc = "boxed"
      <4>1. th'[t].pc \in {"seal", "fail"}
        BY <3>2, <3>4 DEF GoesOn, Follows
      <4>2. th'[t].pc # "seal"
        BY <3>1, <3>4 DEF ThreadActs, BoxActs
      <4>3. th'[t].orphan
        BY <1>2, <3>1, <3>4, <4>1, <4>2 DEF ThreadActs, BoxActs
      <4> QED
        BY <1>2, <3>1, <3>3, <4>1, <4>2, <4>3 DEF Houses, J, C, N
    <3>5. CASE th[t].pc = "fail"
      <4>1. th'[t].pc = "release" /\ th[t].orphan
        BY <2>3, <3>2, <3>5 DEF GoesOn, Follows, Houses
      <4> QED
        BY <1>2, <3>1, <3>3, <4>1 DEF Houses, J, C, N
    <3>6. CASE th[t].pc = "release"
      <4>1. orphans' = [orphans EXCEPT ![N(t)][J(t)] = C(t)]
        BY <2>3, <3>6 DEF Houses, ThreadActs, GateActs
      <4>2. orphans'[n][j] = C(t)
        BY <3>1, <4>1, <1>a
      <4> QED
        BY <3>6, <4>2, <1>a
    <3> QED
      BY <3>1, <3>4, <3>5, <3>6
  <2> QED
    BY <1>2, <2>1, <2>2, <2>3 DEF BudgetInv, Housed
<1> QED
  BY <1>1, <1>2 DEF ThreadActs, BoxActs

LEMMA PopsOnceThread ==
  ASSUME ~StoreFaults, TypeInv, Owned, OrphanInv, BudgetInv, NEW t \in Threads, ThreadActs(t)
  PROVE  PopsOnce'
<1>m. mt' = mt
  BY DEF ThreadActs, GateActs
<1> SUFFICES ASSUME NEW n \in Nodes
             PROVE  /\ mt[n].pc = "rcpop" => box'[n][mt[n].job] = NoClaim
                    /\ mt[n].pc \in {"rcread", "rcdel"} =>
                         orphans'[n][mt[n].job] # mt[n].claim
  BY <1>m DEF PopsOnce
<1>a. /\ orphans \in [Nodes -> [Jobs -> ClaimIds]] /\ orphans[n] \in [Jobs -> ClaimIds]
      /\ mt[n].pc # "idle" => mt[n].job \in Jobs
  BY OwnedTypes DEF TypeInv, GateInv
<1>1. ASSUME mt[n].pc = "rcpop" PROVE box'[n][mt[n].job] = NoClaim
  <2>1. row[mt[n].job].status = "failed" /\ mt[n].job \in Jobs
    BY <1>1, <1>a DEF OrphanInv, Retained, OrphansFailed
  <2>2. ~(mt[n].job = J(t) /\ th[t].pc = "launch")
    BY <2>1 DEF Owned, HoldsRow, Working, StillOurs, Matches
  <2>3. box[n][mt[n].job] = NoClaim
    BY <1>1 DEF BudgetInv, PopsOnce
  <2> QED
    BY <2>1, <2>2, <2>3 DEF ThreadActs, BoxActs
<1>2. ASSUME mt[n].pc \in {"rcread", "rcdel"} PROVE orphans'[n][mt[n].job] # mt[n].claim
  <2>1. \/ orphans' = orphans
        \/ th[t].pc = "release" /\ orphans' = [orphans EXCEPT ![N(t)][J(t)] = C(t)]
    BY DEF ThreadActs, GateActs
  <2>2. orphans'[n][mt[n].job] = orphans[n][mt[n].job]
        \/ (th[t].pc = "release" /\ orphans'[n][mt[n].job] = C(t))
    BY <1>2, <2>1, <1>a
  <2>3. th[t].pc = "release" => mt[n].claim # C(t)
    BY <1>2 DEF OrphanInv, Retained, Unreleased, C
  <2> QED
    BY <1>2, <2>2, <2>3 DEF BudgetInv, PopsOnce
<1> QED
  BY <1>1, <1>2

LEMMA MarkedThread ==
  ASSUME TypeInv, Owned, OrphanInv, BudgetInv, NEW t \in Threads, ThreadActs(t)
  PROVE  OrphansMarked'
<1>e. \A u \in Threads : u # t => th'[u] = th[u]
  BY DEF ThreadActs, Acts
<1>o. \A n \in Nodes, j \in Jobs :
        \/ orphans'[n][j] = orphans[n][j]
        \/ th[t].pc = "release" /\ th[t].orphan /\ orphans'[n][j] = C(t)
  <2>1. \/ orphans' = orphans
        \/ /\ th[t].pc = "release" /\ th[t].orphan
           /\ orphans' = [orphans EXCEPT ![N(t)][J(t)] = C(t)]
    BY DEF ThreadActs, GateActs
  <2>2. \A n \in Nodes : orphans[n] \in [Jobs -> ClaimIds]
    BY DEF TypeInv, GateInv
  <2> QED
    BY <2>1, <2>2 DEF TypeInv, GateInv
<1>1. ASSUME NEW n \in Nodes, NEW j \in Jobs, NEW u \in Threads, th'[u].pc # "idle",
             orphans'[n][j] = th'[u].claim
      PROVE  th'[u].orphan
  <2>1. CASE u # t
    <3>1. th'[u] = th[u] /\ th[u].claim # C(t)
      BY <1>1, <1>e, <2>1 DEF Owned, OwnClaim, ClaimsIssued, C
    <3> QED
      BY <1>1, <1>o, <3>1 DEF BudgetInv, OrphansMarked, C
  <2>2. CASE u = t
    <3>1. ~Ends(t)
      BY <1>1, <2>2 DEF Ends, IdleThread
    <3>2. CASE GoesOn(t)
      <4>1. th[t].pc # "idle" /\ th'[t].claim = th[t].claim /\ (th[t].orphan => th'[t].orphan)
        BY <3>2 DEF GoesOn, Follows
      <4> QED
        BY <1>1, <1>o, <2>2, <4>1 DEF BudgetInv, OrphansMarked, C
    <3>3. CASE Takes(t)
      <4>1. orphans' = orphans /\ th'[t].claim = issued + 1
        BY <3>3 DEF Takes, ThreadActs, GateActs
      <4>2. orphans[n][j] <= issued /\ orphans[n][j] \in Nat /\ issued \in Nat
        BY OwnedTypes DEF Owned, ClaimsIssued
      <4> QED
        BY <1>1, <2>2, <4>1, <4>2
    <3> QED
      BY <3>1, <3>2, <3>3 DEF ThreadActs, Acts
  <2> QED
    BY <2>1, <2>2
<1>2. ASSUME NEW u \in Threads, th'[u].pc = "pgdel" PROVE ~th'[u].orphan
  <2>1. CASE u # t
    BY <1>2, <1>e, <2>1 DEF BudgetInv, OrphansMarked
  <2>2. CASE u = t
    <3>1. GoesOn(t) /\ th[t].pc = "pgread"
      BY <1>2, <2>2 DEF ThreadActs, Acts, Ends, Takes, IdleThread, GoesOn, Follows
    <3>2. ~th[t].orphan
      BY <1>2, <2>2 DEF ThreadActs, CleanActs
    <3> QED
      BY <2>2, <3>1, <3>2 DEF GoesOn
  <2> QED
    BY <2>1, <2>2
<1> QED
  BY <1>1, <1>2 DEF OrphansMarked, C

LEMMA LimitThread ==
  ASSUME TypeInv, LimitKept, NEW t \in Threads, ThreadActs(t)
  PROVE  LimitKept'
<1>1. permits \in [Nodes -> Nat] /\ Limit \in Nat /\ N(t) \in Nodes
  BY DispatchAssumption DEF TypeInv, GateInv, N
<1>2. GateActs(t)
  BY DEF ThreadActs
<1>3. \/ permits' = permits
      \/ permits' = [permits EXCEPT ![N(t)] = @ + 1] /\ permits[N(t)] < Limit
      \/ permits' = [permits EXCEPT ![N(t)] = IF @ > 0 THEN @ - 1 ELSE 0]
  BY <1>2 DEF GateActs, Returned
<1> SUFFICES ASSUME NEW n \in Nodes PROVE permits'[n] <= Limit
  BY DEF LimitKept
<1>4. permits[n] <= Limit /\ permits[n] \in Nat
  BY <1>1 DEF LimitKept
<1> QED
  BY <1>1, <1>3, <1>4

\* Who touches the output directory of a live container would have to own its job.
LEMMA TreeThread ==
  ASSUME ~StoreFaults, TypeInv, Owned, OrphanInv, CleansOwn, BudgetInv,
         NEW t \in Threads, ThreadActs(t)
  PROVE  LiveTreeKept'
<1> SUFFICES ASSUME NEW n \in Nodes, NEW j \in Jobs, box'[n][j] # NoClaim
             PROVE  disk'[n][j].by = box'[n][j]
  BY DEF LiveTreeKept
<1>o. \A u \in Threads : u # t /\ th[u].claim # NoClaim => th[u].claim # th[t].claim
  BY DEF Owned, OwnClaim
<1>c. \A u \in Threads : th[u].pc # "idle" => th[u].claim # NoClaim
  BY DEF Owned, ClaimsIssued
<1>1. CASE /\ n = N(t) /\ j = J(t) /\ box'[n][j] = C(t)
           /\ th[t].pc = "launch" /\ th'[t].pc = "boxed"
  BY <1>1 DEF ThreadActs, TreeActs
<1>2. CASE box'[n][j] = box[n][j]
  <2>1. disk[n][j].by = box[n][j]
    BY <1>2 DEF BudgetInv, LiveTreeKept
  <2>2. ~(j = J(t) /\ th[t].pc \in {"launch", "seal"})
    <3>1. ASSUME j = J(t), th[t].pc \in {"launch", "seal"} PROVE FALSE
      <4>1. row[j].status = "running" /\ row[j].claim = C(t)
        BY <3>1 DEF Owned, HoldsRow, Working, StillOurs, Matches
      <4>2. PICK u \in Threads : Houses(u, n, j) /\ row[j].claim = C(u)
                                  /\ th[u].pc \in {"boxed", "fail"}
        BY <1>2, <4>1, LiveRow DEF BudgetInv
      <4> QED
        BY <3>1, <4>1, <4>2, <1>o, <1>c DEF C
    <3> QED
      BY <3>1
  <2>3. ~(n = N(t) /\ j = J(t) /\ th[t].pc = "pgdel")
    <3>1. ASSUME j = J(t), th[t].pc = "pgdel" PROVE FALSE
      <4>1. row[j].claim = C(t) /\ ~th[t].orphan
        BY <3>1 DEF CleansOwn, BudgetInv, OrphansMarked
      <4>2. \A u \in Threads : Houses(u, n, j) => C(u) # C(t)
        BY <3>1, <1>o, <1>c DEF Houses, C
      <4>3. orphans[n][j] # C(t)
        BY <3>1, <4>1 DEF BudgetInv, OrphansMarked
      <4> QED
        BY <1>2, <4>1, <4>2, <4>3, LiveRow DEF BudgetInv
    <3> QED
      BY <3>1
  <2> QED
    BY <1>2, <2>1, <2>2, <2>3 DEF ThreadActs, TreeActs
<1> QED
  BY <1>1, <1>2 DEF ThreadActs, BoxActs

-------------------------------------------------------------------------------
\* A step from outside that is not a crash.
LEMMA BudgetAside ==
  ASSUME ~StoreFaults, TypeInv, Owned, OrphanInv, BudgetInv, AsideActs, crashes' = crashes
  PROVE  BudgetInv'
<1>a. /\ \A n \in Nodes : orphans[n] \in [Jobs -> ClaimIds] /\ permits[n] \in Nat
      /\ \A n \in Nodes : mt[n].pc # "idle" => mt[n].job \in Jobs
      /\ Limit \in Nat
  BY OwnedTypes, DispatchAssumption DEF TypeInv, GateInv
<1>n. crashes' # crashes + 1
  BY DispatchAssumption DEF TypeInv, GateInv
<1>g. ASSUME NEW n \in Nodes
      PROVE  \/ /\ permits'[n] = permits[n] /\ orphans'[n] = orphans[n]
                /\ Undisturbed(n) /\ ~Regains(n)
             \/ /\ Regains(n) /\ Undisturbed(n)
                /\ permits'[n] = IF permits[n] > 0 THEN permits[n] - 1 ELSE 0
                /\ orphans'[n] = [orphans[n] EXCEPT ![mt[n].job] = NoClaim]
  BY <1>n DEF AsideActs, GateAside
<1>t. \A t \in Threads : th'[t] = th[t]
  BY <1>g, OwnedTypes DEF Undisturbed
<1>b. \A n \in Nodes, j \in Jobs : box'[n][j] \in {box[n][j], NoClaim}
  BY DEF AsideActs, BoxAside
<1>1. Housed'
  <2> SUFFICES ASSUME NEW n \in Nodes, NEW j \in Jobs, box'[n][j] # NoClaim
               PROVE  (\E t \in Threads : Houses(t, n, j)') \/ orphans'[n][j] # NoClaim
    BY DEF Housed
  <2>1. box'[n][j] = box[n][j]
    BY <1>b
  <2>2. \A t \in Threads : Houses(t, n, j) => Houses(t, n, j)'
    BY <1>t, <2>1 DEF Houses, J, C, N
  <2>3. orphans[n][j] # NoClaim => orphans'[n][j] # NoClaim
    <3>1. Regains(n) => mt[n].job # j
      BY <2>1 DEF Regains, BudgetInv, PopsOnce
    <3> QED
      BY <3>1, <1>a, <1>g
  <2> QED
    BY <2>1, <2>2, <2>3 DEF BudgetInv, Housed
<1>2. PopsOnce'
  <2>1. ASSUME NEW n \in Nodes, mt'[n].pc = "rcpop"
        PROVE  box'[n][mt'[n].job] = NoClaim
    <3>1. CASE mt'[n] = mt[n]
      BY <2>1, <3>1, <1>a, <1>b DEF BudgetInv, PopsOnce
    <3>2. CASE mt'[n] # mt[n]
      <4>1. /\ mt[n].pc = "rcps" /\ box[n][mt[n].job] = NoClaim
            /\ mt'[n].job = mt[n].job
        BY <2>1, <3>2 DEF AsideActs, MaintAside, IdleMaint, Lists, Finds, Reconciles
      <4> QED
        BY <4>1, <1>a, <1>b
    <3> QED
      BY <3>1, <3>2
  <2>2. ASSUME NEW n \in Nodes, mt'[n].pc \in {"rcread", "rcdel"}
        PROVE  orphans'[n][mt'[n].job] # mt'[n].claim
    <3>1. mt'[n].claim # NoClaim
      BY <2>2, RetainedNext DEF OrphanInv, Retained
    <3>2. CASE /\ mt[n].pc \in {"rcread", "rcdel"}
               /\ mt'[n].job = mt[n].job /\ mt'[n].claim = mt[n].claim
      <4>1. orphans[n][mt[n].job] # mt[n].claim
        BY <3>2 DEF BudgetInv, PopsOnce
      <4> QED
        BY <3>1, <3>2, <4>1, <1>a, <1>g
    <3>3. CASE mt[n].pc = "rcpop" /\ mt[n].job \in Jobs /\ mt'[n].job = mt[n].job
      <4>1. Regains(n)
        BY <2>2, <3>3 DEF Regains, AsideActs, MaintAside, IdleMaint, Lists, Finds, Reconciles
      <4> QED
        BY <3>1, <3>3, <4>1, <1>a, <1>g
    <3> QED
      BY <2>2, <3>2, <3>3, ListsChange DEF OrphanInv
  <2> QED
    BY <2>1, <2>2 DEF PopsOnce
<1>3. OrphansMarked'
  <2>1. ASSUME NEW n \in Nodes, NEW j \in Jobs, NEW t \in Threads, th[t].pc # "idle",
               orphans'[n][j] = C(t)
        PROVE  th[t].orphan
    <3>1. C(t) # NoClaim
      BY <2>1 DEF Owned, ClaimsIssued, C
    <3>2. orphans[n][j] = C(t)
      BY <2>1, <3>1, <1>a, <1>g
    <3> QED
      BY <2>1, <3>2 DEF BudgetInv, OrphansMarked
  <2> QED
    BY <1>t, <2>1 DEF BudgetInv, OrphansMarked, C
<1>4. LimitKept'
  <2>1. ASSUME NEW n \in Nodes PROVE permits'[n] <= Limit
    <3>1. permits[n] \in Nat /\ permits[n] <= Limit
      BY <1>a DEF BudgetInv, LimitKept
    <3>2. permits'[n] = permits[n] \/ permits'[n] = (IF permits[n] > 0 THEN permits[n] - 1 ELSE 0)
      BY <1>g
    <3> QED
      BY <1>a, <3>1, <3>2
  <2> QED
    BY <2>1 DEF LimitKept
<1>5. LiveTreeKept'
  <2> SUFFICES ASSUME NEW n \in Nodes, NEW j \in Jobs, box'[n][j] # NoClaim
               PROVE  disk'[n][j].by = box'[n][j]
    BY DEF LiveTreeKept
  <2>1. box'[n][j] = box[n][j] /\ box[n][j] # NoClaim
    BY <1>b
  <2>2. ~(mt[n].pc = "rcdel" /\ mt[n].job = j)
    <3>1. ASSUME mt[n].pc = "rcdel", mt[n].job = j PROVE FALSE
      <4>1. row[j].status = "failed" /\ row[j].claim = mt[n].claim
        BY <3>1 DEF OrphanInv, OrphansFailed
      <4>2. \A t \in Threads : th[t].pc = "release" => C(t) # mt[n].claim
        BY <3>1 DEF OrphanInv, Retained, Unreleased, C
      <4>3. orphans[n][j] # mt[n].claim
        BY <3>1 DEF BudgetInv, PopsOnce
      <4> QED
        BY <2>1, <4>1, <4>2, <4>3, LiveRow DEF BudgetInv
    <3> QED
      BY <3>1
  <2> QED
    BY <2>1, <2>2 DEF AsideActs, TreeAside, BudgetInv, LiveTreeKept
<1> QED
  BY <1>1, <1>2, <1>3, <1>4, <1>5 DEF BudgetInv

-------------------------------------------------------------------------------
\* Only a crash counts as one.
LEMMA CrashGrows ==
  ASSUME [Next]_vars
  PROVE  crashes' \in {crashes, crashes + 1}
<1>1. ASSUME NEW t \in Threads, Claim(t) \/ ThreadStep(t) PROVE crashes' = crashes
  BY <1>1 DEF Claim, localVars, ThreadStep, Refuse, NoHeadroom, AdmitWarm, AdmitCold, StampWarm,
     Fetch, FetchFails, FetchDrop, Reject, EgressDefer, StampCold, Launch, LaunchFails, BoxDone,
     BoxKilled, BoxOrphaned, GuestDone, GuestFails, Refresh, Seal, SealFails, Check, PutBody,
     PutSeal, PutFails, ReapCheck, Reap, Mark, Keep, Unmark, Commit, Fail, Raise, Release,
     InRead, InDel, PgRead, PgDel
<1>2. ASSUME NEW n \in Nodes, MaintStep(n) PROVE crashes' = crashes
  BY <1>2 DEF MaintStep, SweepWarm, SweepPs, SweepSkip, SweepRequeue, ReconcilePs, ReconcilePop,
     ReconcileRead, ReconcileDel
<1>3. ASSUME NEW n \in Nodes, Crash(n) PROVE crashes' = crashes + 1
  BY <1>3 DEF Crash
<1>4. ASSUME NEW n \in Nodes, NEW j \in Jobs, MaintBegin(n, j) \/ BoxExits(n, j)
      PROVE  crashes' = crashes
  BY <1>4 DEF MaintBegin, SweepList, FailStaleQueued, ReconcileList, BoxExits
<1>5. ASSUME NEW j \in Jobs, Submit(j) \/ Elapse(j) PROVE crashes' = crashes
  BY <1>5 DEF Submit, Elapse, localVars
<1>6. CASE UNCHANGED vars
  BY <1>6 DEF vars
<1> QED
  BY <1>1, <1>2, <1>3, <1>4, <1>5, <1>6 DEF Next

\* Until the first crash, every step keeps the budget.
LEMMA BudgetNext ==
  ASSUME ~StoreFaults, TypeInv, AbsentInv, Owned, OrphanInv, CleansOwn,
         crashes = 0 => BudgetInv, [Next]_vars
  PROVE  crashes' = 0 => BudgetInv'
<1> SUFFICES ASSUME crashes' = 0 PROVE BudgetInv'
  OBVIOUS
<1>1. crashes = 0 /\ BudgetInv
  BY CrashGrows, DispatchAssumption DEF TypeInv, GateInv
<1>2. CASE \E t \in Threads : ThreadActs(t)
  <2>1. PICK t \in Threads : ThreadActs(t)
    BY <1>2
  <2>2. Housed' /\ PopsOnce'
    BY <1>1, <2>1, HousedThread, PopsOnceThread
  <2>3. OrphansMarked' /\ LimitKept'
    BY <1>1, <2>1, MarkedThread, LimitThread DEF BudgetInv
  <2>4. LiveTreeKept'
    BY <1>1, <2>1, TreeThread
  <2> QED
    BY <2>2, <2>3, <2>4 DEF BudgetInv
<1>3. CASE AsideActs
  BY <1>1, <1>3, BudgetAside
<1> QED
  BY <1>2, <1>3, Steps

\* A container is charged to the thread that waits for it or to the list.
LEMMA Budgeted ==
  ASSUME TypeInv, Paths, BudgetInv, PermitsConserved
  PROVE  ContainersBudgeted
<1> SUFFICES ASSUME NEW n \in Nodes
             PROVE  Cardinality({j \in Jobs : box[n][j] # NoClaim}) <= permits[n]
  BY DEF ContainersBudgeted, BudgetInv, LimitKept
<1> DEFINE Live == {j \in Jobs : box[n][j] # NoClaim}
           Served == {J(t) : t \in Cold(n)}
           serves == [t \in Cold(n) |-> J(t)]
<1>1. /\ IsFiniteSet(Cold(n)) /\ IsFiniteSet(Kept(n))
      /\ Cardinality(Cold(n)) \in Nat /\ Cardinality(Kept(n)) \in Nat
  BY Finite, Counts, FS_Subset DEF Cold, Kept
<1>2. serves \in Surjection(Cold(n), Served)
  BY DEF Surjection
<1>3. /\ IsFiniteSet(Served) /\ Cardinality(Served) <= Cardinality(Cold(n))
      /\ Cardinality(Served) \in Nat
  BY <1>1, <1>2, FS_Surjection, FS_CardinalityType
<1>4. /\ IsFiniteSet(Served \cup Kept(n))
      /\ Cardinality(Served \cup Kept(n)) <= Cardinality(Served) + Cardinality(Kept(n))
      /\ Cardinality(Served \cup Kept(n)) \in Nat
  <2>1. /\ IsFiniteSet(Served \cup Kept(n))
        /\ Cardinality(Served \cup Kept(n)) =
             Cardinality(Served) + Cardinality(Kept(n)) - Cardinality(Served \cap Kept(n))
    BY <1>1, <1>3, FS_Union
  <2>2. Cardinality(Served \cap Kept(n)) \in Nat /\ Cardinality(Served \cup Kept(n)) \in Nat
    <3>1. IsFiniteSet(Served \cap Kept(n))
      BY <1>3, FS_Subset
    <3> QED
      BY <2>1, <3>1, FS_CardinalityType
  <2> QED
    BY <1>1, <1>3, <2>1, <2>2
<1>5. Live \subseteq Served \cup Kept(n)
  <2> SUFFICES ASSUME NEW j \in Jobs, box[n][j] # NoClaim PROVE j \in Served \cup Kept(n)
    OBVIOUS
  <2>1. ASSUME NEW t \in Threads, Houses(t, n, j) PROVE j \in Served
    <3>1. t \in Cold(n)
      BY <2>1 DEF Houses, Cold, HoldsPermit, Paths
    <3> QED
      BY <2>1, <3>1 DEF Houses
  <2>2. orphans[n][j] # NoClaim => j \in Kept(n)
    BY DEF Kept
  <2> QED
    BY <2>1, <2>2 DEF BudgetInv, Housed
<1>6. Cardinality(Live) <= Cardinality(Served \cup Kept(n)) /\ Cardinality(Live) \in Nat
  <2>1. IsFiniteSet(Live) /\ Cardinality(Live) <= Cardinality(Served \cup Kept(n))
    BY <1>4, <1>5, FS_Subset
  <2> QED
    BY <2>1, FS_CardinalityType
<1>7. permits[n] = Cardinality(Cold(n)) + Cardinality(Kept(n))
  BY DEF PermitsConserved, Cold, Kept
<1> QED
  BY <1>1, <1>3, <1>4, <1>6, <1>7

\* Until a dispatcher process crashes, the live cold containers of a node are paid for by
\* its gate, at most Limit of them, failed kills included, and the output directory of
\* each is there and its own, whatever the sweeps, reconciliations and store reads of any
\* number of nodes do -- if owners are prompt and no store call raises.  (A crash forgets
\* the permits and the list: what its containers cost is only known again when they exit.)
THEOREM ContainersStayBudgeted ==
  SlowOwners = FALSE /\ StoreFaults = FALSE =>
    (Spec => [](crashes = 0 => ContainersBudgeted /\ LiveTreeKept))
<1> SUFFICES ASSUME SlowOwners = FALSE, StoreFaults = FALSE
             PROVE  Spec => [](crashes = 0 => ContainersBudgeted /\ LiveTreeKept)
  OBVIOUS
<1> DEFINE Inv == /\ TypeInv /\ AbsentInv /\ Owned /\ Paths /\ OrphanInv /\ CleansOwn
                  /\ PermitsConserved /\ (crashes = 0 => BudgetInv)
<1>1. Init => Inv
  BY InitTyped, AbsentInit, OwnedInit, ResultInit, OrphanInit, InputInit, PermitsInit, BudgetInit
     DEF ResultInv, InputInv
<1>2. Inv /\ [Next]_vars => Inv'
  <2> SUFFICES ASSUME Inv, [Next]_vars PROVE Inv'
    OBVIOUS
  <2>1. TypeInv' /\ AbsentInv' /\ Owned'
    BY NextTyped, NextEffect, EffectRefines, OwnedNext
  <2>2. (\E t \in Threads : ThreadActs(t)) \/ AsideActs
    BY Steps
  <2>3. Paths' /\ OrphanInv' /\ CleansOwn'
    BY <2>2, PathsNext, OrphanNext, CleansNext DEF OrphanInv
  <2>4. PermitsConserved'
    BY <2>2, PermitsThread, PermitsAside DEF OrphanInv
  <2>5. (crashes = 0 => BudgetInv)'
    BY BudgetNext
  <2> QED
    BY <2>1, <2>3, <2>4, <2>5
<1>3. Inv => (crashes = 0 => ContainersBudgeted /\ LiveTreeKept)
  BY Budgeted DEF BudgetInv
<1> QED
  BY <1>1, <1>2, <1>3, PTL DEF Spec

-------------------------------------------------------------------------------
\* A job that failed because its result could not be uploaded has that result on
\* a disk: its tree, sealed and marked, survives the owner's own clean-up, every
\* other thread, the sweeps, the reconciliations and the crashes.  First what a
\* step may do to a kept row, to the marker and to the list of failed uploads;
\* then the invariant, which follows from these effects and those above.

\* The row says that the result is retained on the worker; and says so after the step.
Retains(j) == row[j].status = "failed" /\ row[j].kept
RetainsAfter(j) == row'[j].status = "failed" /\ row'[j].kept

\* What a step of thread t does to them: only its own terminal write keeps a row, only
\* a withdrawal or a purge takes a marker away, and only a purge forgets an upload.
RowKeeps(t) ==
  /\ \A j \in Jobs : RetainsAfter(j) => Retains(j) \/ (j = J(t) /\ th[t].pc = "keep")
  /\ th[t].pc = "keep" /\ th'[t].pc = "unmark" => ~StillOurs(t)
  /\ \A j \in Jobs : row'[j].status = "queued" =>
       SameRow(j) \/ row'[j].deferred \/ th'[t] = IdleThread

MarkerKeeps(t) ==
  /\ \A n \in Nodes, j \in Jobs :
       \/ disk'[n][j].marker = disk[n][j].marker
       \/ /\ n = N(t) /\ j = J(t)
          /\ \/ th[t].pc = "mark" /\ disk'[n][j].marker = C(t)
             \/ th[t].pc \in {"unmark", "pgdel"} /\ disk'[n][j].marker = NoClaim
  /\ th[t].pc = "mark" /\ Tree(t).by # NoClaim => disk'[N(t)][J(t)].marker = C(t)

UploadKeeps(t) ==
  /\ \A n \in Nodes : \A j \in upfail[n] :
       j \in upfail'[n] \/ (n = N(t) /\ j = J(t) /\ th[t].pc = "pgread")
  /\ th[t].pc = "mark" => J(t) \in upfail'[N(t)]
  /\ th[t].pc = "pgread" /\ th'[t].pc = "pgdel" => J(t) \notin upfail[N(t)]

KeepActs(t) == RowKeeps(t) /\ MarkerKeeps(t) /\ UploadKeeps(t)

\* What a step from outside does to them.
KeepAside ==
  /\ \A j \in Jobs : RetainsAfter(j) => Retains(j)
  /\ \A n \in Nodes, j \in Jobs :
       \/ disk'[n][j].marker = disk[n][j].marker
       \/ mt[n].pc = "rcdel" /\ mt[n].job = j /\ disk'[n][j].marker = NoClaim
  /\ \A n \in Nodes : \A j \in upfail[n] :
       \/ j \in upfail'[n]
       \/ mt[n].pc = "rcread" /\ mt[n].job = j
       \/ \A t \in Threads : N(t) = n => th'[t] = IdleThread

-------------------------------------------------------------------------------
\* The rows the clients write say so only in the keep step.
LEMMA WrittenKept ==
  ASSUME NEW r \in Rows, NEW b \in BOOLEAN
  PROVE  /\ Failed(r, b) \in Rows /\ Failed(r, b).kept = b
         /\ Done(r) \in Rows /\ Done(r).status = "done"
         /\ Requeued(r, b) \in Rows /\ Requeued(r, b).status = "queued"
         /\ Requeued(r, b).deferred = b
<1>1. Failed(r, b) \in Rows /\ Done(r) \in Rows /\ Done(r).status = "done"
  BY WrittenRows
<1>2. Requeued(r, b) \in Rows /\ Requeued(r, b).status = "queued"
  BY RequeuedClaim
<1>3. Failed(r, b).kept = b
  BY DEF Failed, Rows
<1>4. Requeued(r, b).deferred = b
  BY DEF Requeued, Rows
<1> QED
  BY <1>1, <1>2, <1>3, <1>4

LEMMA FetchFailedKept ==
  ASSUME NEW r \in Rows, NEW a \in 1..MaxAttempts
  PROVE  LET f == FetchFailed(r, a) IN
         /\ f \in Rows
         /\ f.status = "failed" => ~f.kept
         /\ f.status = "queued" => f.deferred
<1>0. FetchFailed(r, a) \in Rows
  BY FetchFailedRow
<1>1. CASE a >= MaxAttempts
  <2> DEFINE f == Failed(r, FALSE)
  <2>0. FALSE \in BOOLEAN
    OBVIOUS
  <2>1. f \in Rows /\ ~f.kept /\ f.status = "failed"
    BY <2>0, WrittenKept, WrittenRows, Zenon
  <2>2. FetchFailed(r, a) = [f EXCEPT !.attempts = a]
    BY <1>1 DEF FetchFailed
  <2> HIDE DEF f
  <2> QED
    BY <1>0, <2>1, <2>2 DEF Rows
<1>2. CASE ~(a >= MaxAttempts)
  BY <1>0, <1>2 DEF FetchFailed, Rows
<1> QED
  BY <1>1, <1>2

\* A compare-and-set with a row that is not kept, or put off when it is queued.
LEMMA CasKeeps ==
  ASSUME TypeInv, NEW t \in Threads, th[t].pc # "idle",
         NEW r \in Rows, UpdateIfStatus(J(t), "running", C(t), r),
         StillOurs(t) =>
           /\ r.status = "failed" /\ r.kept => th[t].pc = "keep"
           /\ r.status = "queued" => r.deferred \/ th'[t] = IdleThread,
         th[t].pc = "keep" /\ th'[t].pc = "unmark" => ~StillOurs(t)
  PROVE  RowKeeps(t)
<1>1. row \in [Jobs -> Rows] /\ J(t) \in Jobs
  BY ThreadInHand DEF TypeInv, RowInv
<1>2. CASE StillOurs(t)
  <2>1. row' = [row EXCEPT ![J(t)] = r]
    BY <1>2 DEF UpdateIfStatus, StillOurs
  <2>2. row'[J(t)] = r /\ \A j \in Jobs : j # J(t) => row'[j] = row[j]
    BY <1>1, <2>1
  <2> QED
    BY <1>2, <2>2 DEF RowKeeps, Retains, RetainsAfter, SameRow
<1>3. CASE ~StillOurs(t)
  BY <1>3 DEF UpdateIfStatus, StillOurs, RowKeeps, Retains, RetainsAfter, SameRow
<1> QED
  BY <1>2, <1>3

LEMMA StepKeepsRow ==
  ASSUME TypeInv, NEW t \in Threads, Claim(t) \/ ThreadStep(t)
  PROVE  RowKeeps(t)
<1> USE JobStoreAssumption
<1>a. th[t].pc # "idle" => /\ J(t) \in Jobs /\ row[J(t)] \in Rows
                           /\ th[t].attempts \in 0..(MaxAttempts - 1)
  BY ThreadInHand
<1>b. TRUE \in BOOLEAN /\ FALSE \in BOOLEAN
  OBVIOUS
<1>t. th \in [Threads -> ThreadStates]
  BY DEF TypeInv, ThInv
<1>g. \A p : Go(t, p) => th'[t].pc = p
  BY <1>t DEF Go, ThreadStates
<1>1. CASE \/ AdmitWarm(t) \/ AdmitCold(t) \/ FetchDrop(t) \/ Reject(t) \/ Launch(t)
           \/ LaunchFails(t) \/ BoxDone(t) \/ BoxKilled(t) \/ BoxOrphaned(t)
           \/ GuestDone(t) \/ GuestFails(t) \/ Seal(t) \/ SealFails(t) \/ Check(t)
           \/ PutBody(t) \/ PutSeal(t) \/ PutFails(t) \/ ReapCheck(t) \/ Reap(t)
           \/ Mark(t) \/ Unmark(t) \/ Raise(t) \/ Release(t) \/ InRead(t) \/ InDel(t)
           \/ PgRead(t) \/ PgDel(t)
  <2>1. UNCHANGED storeVars
    BY <1>1 DEF AdmitWarm, AdmitCold, FetchDrop, Reject, Launch,
     LaunchFails, BoxDone, BoxKilled, BoxOrphaned, GuestDone, GuestFails, Seal, SealFails,
     Check, PutBody, PutSeal, PutFails, ReapCheck, Reap, Mark, Unmark, Raise, Release, InRead,
     InDel, PgRead, PgDel
  <2>2. th[t].pc = "keep" => Go(t, "release")
    BY <1>1 DEF AdmitWarm, AdmitCold, FetchDrop, Reject, Launch,
     LaunchFails, BoxDone, BoxKilled, BoxOrphaned, GuestDone, GuestFails, Seal, SealFails,
     Check, PutBody, PutSeal, PutFails, ReapCheck, Reap, Mark, Unmark, Raise, Release, InRead,
     InDel, PgRead, PgDel, At
  <2> QED
    BY <2>1, <2>2, <1>g DEF RowKeeps, SameRow, Retains, RetainsAfter, storeVars
<1>2. CASE Claim(t)
  <2>1. PICK j \in Jobs : ClaimNext(Serves[t], j)
    BY <1>2 DEF Claim
  <2>2. /\ row' = [row EXCEPT ![j] = [row[j] EXCEPT !.status = "running", !.claim = issued + 1,
                                                    !.age = Fresh]]
        /\ th[t].pc = "idle"
    BY <1>2, <2>1 DEF ClaimNext, Claim, At
  <2>3. row'[j].status = "running" /\ \A i \in Jobs : i # j => row'[i] = row[i]
    BY <2>2 DEF TypeInv, RowInv, Rows
  <2> QED
    BY <2>2, <2>3 DEF RowKeeps, Retains, RetainsAfter, SameRow
<1>3. CASE Refuse(t) \/ NoHeadroom(t) \/ EgressDefer(t)
  <2>1. th[t].pc \in {"admit", "stampc"} /\ row[J(t)] \in Rows
    BY <1>3, <1>a DEF Refuse, NoHeadroom, EgressDefer, At
  <2>2. PICK b \in BOOLEAN : /\ UpdateIfStatus(J(t), "running", C(t), Requeued(row[J(t)], b))
                             /\ b \/ th' = [th EXCEPT ![t] = IdleThread]
    BY <1>3, <1>b DEF Refuse, NoHeadroom, EgressDefer
  <2>3. b \/ th'[t] = IdleThread
    BY <2>2, <1>t
  <2> DEFINE r == Requeued(row[J(t)], b)
  <2>4. r \in Rows /\ r.status = "queued" /\ r.deferred = b
    BY <2>1, WrittenKept
  <2>5. UpdateIfStatus(J(t), "running", C(t), r)
    BY <2>2
  <2> HIDE DEF r
  <2> QED
    BY <2>1, <2>3, <2>4, <2>5, CasKeeps
<1>4. CASE FetchFails(t)
  <2>1. th[t].pc = "fetch" /\ row[J(t)] \in Rows /\ th[t].attempts + 1 \in 1..MaxAttempts
    BY <1>4, <1>a DEF FetchFails, At
  <2> DEFINE r == FetchFailed(row[J(t)], th[t].attempts + 1)
  <2>2. /\ r \in Rows /\ (r.status = "failed" => ~r.kept)
        /\ r.status = "queued" => r.deferred
    BY <2>1, FetchFailedKept
  <2>3. UpdateIfStatus(J(t), "running", C(t), r)
    BY <1>4 DEF FetchFails
  <2> HIDE DEF r
  <2> QED
    BY <2>1, <2>2, <2>3, CasKeeps
<1>5. CASE StampWarm(t) \/ StampCold(t) \/ Refresh(t)
  <2>1. th[t].pc \in {"stampw", "stampc", "refresh"} /\ row[J(t)] \in Rows
    BY <1>5, <1>a DEF StampWarm, StampCold, Refresh, At
  <2>2. PICK r : /\ UpdateIfStatus(J(t), "running", C(t), r)
                 /\ \/ r = [row[J(t)] EXCEPT !.runtime = "warm"]
                    \/ r = [row[J(t)] EXCEPT !.runtime = "cold"]
                    \/ r = [row[J(t)] EXCEPT !.age = Fresh]
    BY <1>5 DEF StampWarm, StampCold, Refresh, Cas
  <2>3. r \in Rows /\ r.status = row[J(t)].status
    BY <2>1, <2>2 DEF Rows, Runtimes, Ages, Fresh, PastStale
  <2>4. StillOurs(t) => r.status = "running"
    BY <2>3 DEF StillOurs, Matches
  <2> HIDE <2>2
  <2>5. UpdateIfStatus(J(t), "running", C(t), r)
    BY <2>2
  <2> QED
    BY <2>1, <2>3, <2>4, <2>5, CasKeeps
<1>6. CASE Fetch(t)
  <2>1. th[t].pc = "fetch" /\ row[J(t)] \in Rows
    BY <1>6, <1>a DEF Fetch, At
  <2>2. CASE UNCHANGED storeVars
    BY <2>1, <2>2 DEF RowKeeps, SameRow, Retains, RetainsAfter, storeVars
  <2>3. CASE UpdateIfStatus(J(t), "running", C(t), [row[J(t)] EXCEPT !.attempts = 0])
    <3> DEFINE r == [row[J(t)] EXCEPT !.attempts = 0]
    <3>1. r \in Rows /\ r.status = row[J(t)].status
      BY <2>1 DEF Rows
    <3>2. StillOurs(t) => r.status = "running"
      BY <3>1 DEF StillOurs, Matches
    <3>3. UpdateIfStatus(J(t), "running", C(t), r)
      BY <2>3
    <3> HIDE DEF r
    <3> QED
      BY <2>1, <3>1, <3>2, <3>3, CasKeeps
  <2> QED
    BY <1>6, <2>2, <2>3 DEF Fetch
<1>7. CASE Keep(t)
  <2>1. th[t].pc = "keep" /\ row[J(t)] \in Rows
    BY <1>7, <1>a DEF Keep, At
  <2>2. /\ UpdateIfStatus(J(t), "running", C(t), Failed(row[J(t)], TRUE))
        /\ Go(t, IF StillOurs(t) THEN "release" ELSE "unmark")
    BY <1>7 DEF Keep, Cas
  <2>3. th'[t].pc = "unmark" => ~StillOurs(t)
    BY <2>2, <1>g
  <2>4. Failed(row[J(t)], TRUE) \in Rows /\ Failed(row[J(t)], TRUE).status = "failed"
    BY <2>1, WrittenRows
  <2> QED
    BY <2>1, <2>2, <2>3, <2>4, CasKeeps
<1>8. CASE Commit(t) \/ Fail(t)
  <2>1. th[t].pc \in {"commit", "fail"} /\ row[J(t)] \in Rows
    BY <1>8, <1>a DEF Commit, Fail, At
  <2>2. PICK r \in {Done(row[J(t)]), Failed(row[J(t)], FALSE)} :
             UpdateIfStatus(J(t), "running", C(t), r)
    BY <1>8 DEF Commit, Fail, Cas
  <2>3. r \in Rows /\ (r.status = "done" \/ (r.status = "failed" /\ ~r.kept))
    <3>1. Done(row[J(t)]) \in Rows /\ Done(row[J(t)]).status = "done"
      BY <2>1, <1>b, WrittenKept
    <3>2. /\ Failed(row[J(t)], FALSE) \in Rows /\ Failed(row[J(t)], FALSE).status = "failed"
          /\ ~Failed(row[J(t)], FALSE).kept
      BY <2>1, <1>b, WrittenKept, WrittenRows, Zenon
    <3> QED
      BY <2>2, <3>1, <3>2
  <2> HIDE <2>2
  <2>4. UpdateIfStatus(J(t), "running", C(t), r)
    BY <2>2
  <2> QED
    BY <2>1, <2>3, <2>4, CasKeeps
<1> QED
  BY <1>1, <1>2, <1>3, <1>4, <1>5, <1>6, <1>7, <1>8 DEF ThreadStep

LEMMA StepKeepsMarker ==
  ASSUME TypeInv, NEW t \in Threads, Claim(t) \/ ThreadStep(t)
  PROVE  MarkerKeeps(t)
<1>a. th[t].pc # "idle" =>
        /\ J(t) \in Jobs /\ C(t) \in ClaimIds /\ N(t) \in Nodes /\ Tree(t) \in Trees
  BY ThreadInHand
<1>s. ASSUME NEW d, SetTree(N(t), J(t), d), th[t].pc # "idle",
             \/ d.marker = Tree(t).marker /\ th[t].pc # "mark"
             \/ th[t].pc \in {"unmark", "pgdel"} /\ d.marker \in {Tree(t).marker, NoClaim}
             \/ /\ th[t].pc = "mark" /\ d.marker \in {Tree(t).marker, C(t)}
                /\ Tree(t).by # NoClaim => d.marker = C(t)
      PROVE  MarkerKeeps(t)
  <2>1. /\ disk'[N(t)][J(t)] = d
        /\ \A m \in Nodes, i \in Jobs : m # N(t) \/ i # J(t) => disk'[m][i] = disk[m][i]
    BY <1>s, <1>a, TreeSet
  <2> QED
    BY <1>s, <2>1 DEF MarkerKeeps, Tree
<1>1. CASE \/ Claim(t) \/ Refuse(t) \/ NoHeadroom(t) \/ AdmitWarm(t) \/ AdmitCold(t)
           \/ StampWarm(t) \/ FetchFails(t) \/ Reject(t) \/ EgressDefer(t) \/ StampCold(t)
           \/ BoxDone(t) \/ BoxKilled(t) \/ BoxOrphaned(t) \/ GuestDone(t) \/ GuestFails(t)
           \/ Refresh(t) \/ SealFails(t)
  <2>1. disk' = disk /\ th[t].pc # "mark"
    BY <1>1 DEF Claim, Refuse, NoHeadroom, AdmitWarm, AdmitCold, StampWarm, FetchFails, Reject,
       EgressDefer, StampCold, BoxDone, BoxKilled, BoxOrphaned, GuestDone, GuestFails, Refresh,
       SealFails, localVars, At
  <2> QED
    BY <2>1 DEF MarkerKeeps
<1>2. CASE \/ Check(t) \/ PutBody(t) \/ PutSeal(t)
           \/ PutFails(t) \/ ReapCheck(t) \/ Reap(t) \/ Keep(t) \/ Commit(t) \/ Fail(t)
           \/ Raise(t) \/ InRead(t) \/ PgRead(t)
  <2>1. disk' = disk /\ th[t].pc # "mark"
    BY <1>2 DEF Check, PutBody, PutSeal, PutFails, ReapCheck, Reap, Keep, Commit, Fail, Raise,
       InRead, PgRead, localVars, At
  <2> QED
    BY <2>1 DEF MarkerKeeps
<1>3. CASE \/ Fetch(t) \/ FetchDrop(t) \/ InDel(t) \/ Launch(t) \/ LaunchFails(t) \/ Seal(t)
           \/ Release(t)
  <2>1. th[t].pc \in {"fetch", "fetchdrop", "indel", "launch", "seal", "release"}
    BY <1>3 DEF Fetch, FetchDrop, InDel, Launch, LaunchFails, Seal, Release, At
  <2>2. \/ disk' = disk
        \/ \E d : /\ SetTree(N(t), J(t), d)
                  /\ \/ \E b \in BOOLEAN : d = [Tree(t) EXCEPT !.input = b]
                     \/ \E c \in ClaimIds, s \in {"empty", "sealed"} :
                          d = [Tree(t) EXCEPT !.by = c, !.stage = s]
                     \/ d = [Tree(t) EXCEPT !.stage = "sealed"]
                     \/ d = [Tree(t) EXCEPT !.orphan = TRUE]
    <3>1. CASE Fetch(t) \/ FetchDrop(t) \/ InDel(t)
      BY <3>1 DEF Fetch, FetchDrop, InDel
    <3>2. CASE Launch(t) \/ LaunchFails(t)
      <4>1. SetTree(N(t), J(t), [Tree(t) EXCEPT !.by = C(t), !.stage = "empty"])
        BY <3>2 DEF Launch, LaunchFails
      <4> QED
        BY <4>1, <2>1, <1>a
    <3>3. CASE Seal(t)
      <4>1. \/ SetTree(N(t), J(t), [Tree(t) EXCEPT !.by = C(t), !.stage = "sealed"])
            \/ SetTree(N(t), J(t), [Tree(t) EXCEPT !.stage = "sealed"])
        BY <3>3 DEF Seal
      <4> QED
        BY <4>1, <2>1, <1>a
    <3>4. CASE Release(t)
      BY <3>4 DEF Release
    <3> QED
      BY <1>3, <3>1, <3>2, <3>3, <3>4
  <2>3. CASE disk' = disk
    BY <2>1, <2>3 DEF MarkerKeeps
  <2>4. ASSUME NEW d, SetTree(N(t), J(t), d),
               \/ \E b \in BOOLEAN : d = [Tree(t) EXCEPT !.input = b]
               \/ \E c \in ClaimIds, s \in {"empty", "sealed"} :
                    d = [Tree(t) EXCEPT !.by = c, !.stage = s]
               \/ d = [Tree(t) EXCEPT !.stage = "sealed"]
               \/ d = [Tree(t) EXCEPT !.orphan = TRUE]
        PROVE  MarkerKeeps(t)
    <3>1. d.marker = Tree(t).marker
      BY <2>1, <2>4, <1>a DEF Trees
    <3> HIDE <2>4
    <3>2. SetTree(N(t), J(t), d)
      BY <2>4
    <3> QED
      BY <2>1, <3>1, <3>2, <1>s
  <2> QED
    BY <2>2, <2>3, <2>4
<1>4. CASE Mark(t)
  <2>1. th[t].pc = "mark" /\ Tree(t) \in Trees
    BY <1>4, <1>a DEF Mark, At
  <2>2. PICK d : /\ SetTree(N(t), J(t), d)
                 /\ d = IF Tree(t).by = NoClaim THEN Tree(t)
                        ELSE [Tree(t) EXCEPT !.marker = C(t)]
    BY <1>4 DEF Mark
  <2>3. /\ d.marker \in {Tree(t).marker, C(t)}
        /\ Tree(t).by # NoClaim => d.marker = C(t)
    BY <2>1, <2>2 DEF Trees
  <2> QED
    BY <2>1, <2>2, <2>3, <1>s
<1>5. CASE Unmark(t) \/ PgDel(t)
  <2>1. th[t].pc \in {"unmark", "pgdel"} /\ Tree(t) \in Trees
    BY <1>5, <1>a DEF Unmark, PgDel, At
  <2>2. PICK d : /\ SetTree(N(t), J(t), d)
                 /\ d \in {Tree(t), [Tree(t) EXCEPT !.marker = NoClaim], NoTree}
    BY <1>5 DEF Unmark, PgDel
  <2>3. d.marker \in {Tree(t).marker, NoClaim}
    BY <2>1, <2>2 DEF Trees, NoTree
  <2> QED
    BY <2>1, <2>2, <2>3, <1>s
<1> QED
  BY <1>1, <1>2, <1>3, <1>4, <1>5 DEF ThreadStep

LEMMA StepKeepsUpload ==
  ASSUME TypeInv, NEW t \in Threads, Claim(t) \/ ThreadStep(t)
  PROVE  UploadKeeps(t)
<1>t. th \in [Threads -> ThreadStates] /\ upfail \in [Nodes -> SUBSET Jobs]
  BY DEF TypeInv, ThInv, GateInv
<1>a. th[t].pc # "idle" => J(t) \in Jobs /\ N(t) \in Nodes
  BY ThreadInHand
<1>1. CASE \/ Claim(t) \/ Refuse(t) \/ NoHeadroom(t) \/ AdmitWarm(t) \/ AdmitCold(t)
           \/ StampWarm(t) \/ Fetch(t) \/ FetchFails(t) \/ FetchDrop(t) \/ Reject(t)
           \/ EgressDefer(t) \/ StampCold(t) \/ Launch(t) \/ LaunchFails(t) \/ BoxDone(t)
           \/ BoxKilled(t) \/ BoxOrphaned(t) \/ GuestDone(t) \/ GuestFails(t) \/ Refresh(t)
           \/ Seal(t) \/ SealFails(t)
  <2>1. upfail' = upfail /\ th[t].pc \notin {"mark", "pgread"}
    BY <1>1 DEF Claim, Refuse, NoHeadroom, AdmitWarm, AdmitCold, StampWarm, Fetch, FetchFails,
       FetchDrop, Reject, EgressDefer, StampCold, Launch, LaunchFails, BoxDone, BoxKilled,
       BoxOrphaned, GuestDone, GuestFails, Refresh, Seal, SealFails, localVars, At
  <2> QED
    BY <2>1 DEF UploadKeeps
<1>2. CASE \/ Check(t) \/ PutBody(t) \/ PutSeal(t) \/ PutFails(t) \/ ReapCheck(t) \/ Reap(t)
           \/ Keep(t) \/ Unmark(t) \/ Commit(t) \/ Fail(t) \/ Raise(t) \/ Release(t)
           \/ InRead(t) \/ InDel(t) \/ PgDel(t)
  <2>1. upfail' = upfail /\ th[t].pc \notin {"mark", "pgread"}
    BY <1>2 DEF Check, PutBody, PutSeal, PutFails, ReapCheck, Reap, Keep, Unmark, Commit, Fail,
       Raise, Release, InRead, InDel, PgDel, localVars, At
  <2> QED
    BY <2>1 DEF UploadKeeps
<1>3. CASE Mark(t)
  <2>1. th[t].pc = "mark" /\ upfail' = [upfail EXCEPT ![N(t)] = @ \cup {J(t)}]
    BY <1>3 DEF Mark, At
  <2> QED
    BY <1>t, <1>a, <2>1 DEF UploadKeeps
<1>4. CASE PgRead(t)
  <2>1. /\ th[t].pc = "pgread"
        /\ upfail' = upfail \/ upfail' = [upfail EXCEPT ![N(t)] = @ \ {J(t)}]
        /\ J(t) \notin upfail[N(t)] \/ th' = [th EXCEPT ![t] = IdleThread]
    BY <1>4 DEF PgRead, At
  <2>2. th' = [th EXCEPT ![t] = IdleThread] => th'[t].pc # "pgdel"
    BY <1>t DEF IdleThread
  <2> QED
    BY <1>t, <1>a, <2>1, <2>2 DEF UploadKeeps
<1> QED
  BY <1>1, <1>2, <1>3, <1>4 DEF ThreadStep

-------------------------------------------------------------------------------
LEMMA AsideKeepsRow ==
  ASSUME TypeInv, AbsentInv, Aside, NEW i \in Jobs, RetainsAfter(i)
  PROVE  Retains(i)
<1>a. row \in [Jobs -> Rows] /\ submitted \in 0..NJobs
  BY DEF TypeInv, RowInv
<1>s. ASSUME NEW j \in Jobs, NEW r \in Rows, row' = row \/ row' = [row EXCEPT ![j] = r],
             r.status = "failed" => ~r.kept \/ (row[j].status = "failed" /\ r.kept = row[j].kept)
      PROVE  Retains(i)
  BY <1>a, <1>s DEF Retains, RetainsAfter
<1>1. ASSUME NEW j \in Jobs, Submit(j) PROVE Retains(i)
  <2>1. row' = [row EXCEPT ![j] = NewRow]
    BY <1>1 DEF Submit, Create
  <2>2. NewRow.status = "queued"
    BY DEF NewRow, NoRow
  <2> QED
    BY <1>a, <2>1, <2>2 DEF Retains, RetainsAfter
<1>2. ASSUME NEW j \in Jobs, Elapse(j) PROVE Retains(i)
  <2>a. row[j] \in Rows
    BY <1>a
  <2>1. PICK r : /\ row' = [row EXCEPT ![j] = r]
                 /\ \/ r = [row[j] EXCEPT !.age = row[j].age + 1]
                    \/ r = [row[j] EXCEPT !.deferred = FALSE]
    BY <1>2 DEF Elapse, Age, BecomeClaimable
  <2>2. r.status = row[j].status /\ r.kept = row[j].kept
    BY <2>a, <2>1 DEF Rows
  <2> HIDE <2>1
  <2>3. row' = [row EXCEPT ![j] = r]
    BY <2>1
  <2> QED
    BY <1>a, <2>2, <2>3 DEF Retains, RetainsAfter
<1>3. ASSUME NEW n \in Nodes, SweepWarm(n) \/ SweepRequeue(n) PROVE Retains(i)
  <2>1. mt[n].job \in Jobs /\ row[mt[n].job] \in Rows
    BY <1>3, MaintInHand DEF SweepWarm, SweepRequeue
  <2>2. FALSE \in BOOLEAN /\ row[mt[n].job].deferred \in BOOLEAN
    BY <2>1 DEF Rows
  <2>3. CASE SweepWarm(n)
    <3> DEFINE r == Failed(row[mt[n].job], FALSE)
    <3>1. r \in Rows /\ ~r.kept
      BY <2>1, <2>2, WrittenKept, Zenon
    <3>2. row' = row \/ row' = [row EXCEPT ![mt[n].job] = r]
      BY <2>3 DEF SweepWarm, UpdateIfStatus
    <3> HIDE DEF r
    <3> QED
      BY <2>1, <3>1, <3>2, <1>s
  <2>4. CASE SweepRequeue(n)
    <3> DEFINE r == Requeued(row[mt[n].job], row[mt[n].job].deferred)
    <3>1. r \in Rows /\ r.status = "queued"
      BY <2>1, <2>2, WrittenKept, Zenon
    <3>2. row' = row \/ row' = [row EXCEPT ![mt[n].job] = r]
      BY <2>4 DEF SweepRequeue, UpdateIfStatus
    <3> HIDE DEF r
    <3> QED
      BY <2>1, <3>1, <3>2, <1>s
  <2> QED
    BY <1>3, <2>3, <2>4
<1>4. ASSUME NEW n \in Nodes,
             \/ SweepPs(n) \/ SweepSkip(n) \/ ReconcilePs(n) \/ ReconcilePop(n)
             \/ ReconcileRead(n) \/ ReconcileDel(n) \/ Crash(n)
             \/ \E j \in Jobs : SweepList(n, j) \/ ReconcileList(n, j) \/ BoxExits(n, j)
      PROVE  Retains(i)
  <2>1. UNCHANGED storeVars
    BY <1>4 DEF SweepPs, SweepSkip, ReconcilePs, ReconcilePop, ReconcileRead, ReconcileDel,
       Crash, SweepList, ReconcileList, BoxExits
  <2> QED
    BY <2>1 DEF storeVars, Retains, RetainsAfter
<1>5. ASSUME NEW n \in Nodes, NEW j \in Jobs, FailStaleQueued(n, j) PROVE Retains(i)
  <2>1. row[j] \in Rows /\ FALSE \in BOOLEAN
    BY <1>a
  <2> DEFINE r == Failed(row[j], FALSE)
  <2>2. r \in Rows /\ ~r.kept
    BY <2>1, WrittenKept, Zenon
  <2>3. row' = row \/ row' = [row EXCEPT ![j] = r]
    BY <1>5 DEF FailStaleQueued, UpdateIfStatusOnly
  <2> HIDE DEF r
  <2> QED
    BY <2>2, <2>3, <1>s
<1> QED
  BY <1>1, <1>2, <1>3, <1>4, <1>5 DEF Aside, MaintStep, MaintBegin

LEMMA AsideKeepsMarker ==
  ASSUME TypeInv, Aside, NEW m \in Nodes, NEW i \in Jobs
  PROVE  \/ disk'[m][i].marker = disk[m][i].marker
         \/ mt[m].pc = "rcdel" /\ mt[m].job = i /\ disk'[m][i].marker = NoClaim
<1>a. disk \in [Nodes -> [Jobs -> Trees]]
  BY DEF TypeInv, DiskInv
<1>b. \A n \in Nodes, j \in Jobs : disk[n][j] \in Trees
  BY <1>a
<1> DEFINE Goal == \/ disk'[m][i].marker = disk[m][i].marker
                   \/ mt[m].pc = "rcdel" /\ mt[m].job = i /\ disk'[m][i].marker = NoClaim
<1>s. ASSUME NEW n \in Nodes, NEW j \in Jobs, NEW d, SetTree(n, j, d),
             \/ d.marker = disk[n][j].marker
             \/ mt[n].pc = "rcdel" /\ mt[n].job = j /\ d.marker = NoClaim
      PROVE  Goal
  <2>1. /\ disk'[n][j] = d
        /\ m # n \/ i # j => disk'[m][i] = disk[m][i]
    BY <1>s, TreeSet
  <2> QED
    BY <1>s, <2>1
<1>i. ASSUME NEW n \in Nodes, NEW j \in Jobs, NEW b \in BOOLEAN,
             \/ SetTree(n, j, [disk[n][j] EXCEPT !.input = b])
             \/ SetTree(n, j, [disk[n][j] EXCEPT !.orphan = b])
             \/ \E s \in {"empty", "raw"} : SetTree(n, j, [disk[n][j] EXCEPT !.stage = s])
             \/ SetTree(n, j, disk[n][j])
      PROVE  Goal
  <2>1. PICK d : /\ SetTree(n, j, d)
                 /\ \/ d = [disk[n][j] EXCEPT !.input = b] \/ d = [disk[n][j] EXCEPT !.orphan = b]
                    \/ \E s \in {"empty", "raw"} : d = [disk[n][j] EXCEPT !.stage = s]
                    \/ d = disk[n][j]
    BY <1>i
  <2>2. d.marker = disk[n][j].marker
    BY <1>b, <2>1 DEF Trees
  <2> QED
    BY <2>1, <2>2, <1>s
<1> HIDE DEF Goal
<1>0. TRUE \in BOOLEAN /\ FALSE \in BOOLEAN
  OBVIOUS
<1>1. ASSUME NEW j \in Jobs, Submit(j) PROVE Goal
  BY <1>0, <1>1, <1>i, DispatchAssumption DEF Submit
<1>2. ASSUME NEW j \in Jobs, Elapse(j) PROVE Goal
  BY <1>2 DEF Elapse, localVars, Goal
<1>3. ASSUME NEW n \in Nodes,
             \/ SweepPs(n) \/ SweepSkip(n) \/ SweepRequeue(n) \/ ReconcilePs(n)
             \/ ReconcileRead(n) \/ Crash(n)
             \/ \E j \in Jobs : SweepList(n, j) \/ ReconcileList(n, j)
      PROVE  Goal
  <2>1. disk' = disk
    BY <1>3 DEF SweepPs, SweepSkip, SweepRequeue, ReconcilePs, ReconcileRead, Crash, SweepList,
       ReconcileList
  <2> QED
    BY <2>1 DEF Goal
<1>4. ASSUME NEW n \in Nodes, SweepWarm(n) \/ ReconcilePop(n) PROVE Goal
  <2>1. mt[n].job \in Jobs
    BY <1>4, MaintInHand DEF SweepWarm, ReconcilePop
  <2>2. \/ SetTree(n, mt[n].job, [disk[n][mt[n].job] EXCEPT !.input = FALSE])
        \/ SetTree(n, mt[n].job, [disk[n][mt[n].job] EXCEPT !.orphan = FALSE])
        \/ SetTree(n, mt[n].job, disk[n][mt[n].job])
    BY <1>4 DEF SweepWarm, ReconcilePop
  <2> QED
    BY <1>0, <2>1, <2>2, <1>i
<1>5. ASSUME NEW n \in Nodes, ReconcileDel(n) PROVE Goal
  <2>1. mt[n].job \in Jobs /\ SetTree(n, mt[n].job, NoTree) /\ mt[n].pc = "rcdel"
    BY <1>5, MaintInHand DEF ReconcileDel
  <2>2. NoTree.marker = NoClaim
    BY DEF NoTree
  <2> QED
    BY <2>1, <2>2, <1>s
<1>6. ASSUME NEW n \in Nodes, NEW j \in Jobs, FailStaleQueued(n, j) PROVE Goal
  BY <1>0, <1>6, <1>i DEF FailStaleQueued
<1>7. ASSUME NEW n \in Nodes, NEW j \in Jobs, BoxExits(n, j) PROVE Goal
  <2>1. \/ \E s \in {"empty", "raw"} : SetTree(n, j, [disk[n][j] EXCEPT !.stage = s])
        \/ SetTree(n, j, disk[n][j])
    BY <1>7 DEF BoxExits
  <2> QED
    BY <1>0, <2>1, <1>i
<1> QED
  BY <1>1, <1>2, <1>3, <1>4, <1>5, <1>6, <1>7 DEF Aside, MaintStep, MaintBegin, Goal

LEMMA AsideKeepsUpload ==
  ASSUME TypeInv, Aside, NEW m \in Nodes, NEW i \in upfail[m]
  PROVE  \/ i \in upfail'[m]
         \/ mt[m].pc = "rcread" /\ mt[m].job = i
         \/ \A t \in Threads : N(t) = m => th'[t] = IdleThread
<1>t. upfail \in [Nodes -> SUBSET Jobs]
  BY DEF TypeInv, GateInv
<1>1. ASSUME NEW n \in Nodes, ReconcileRead(n)
      PROVE  i \in upfail'[m] \/ (mt[m].pc = "rcread" /\ mt[m].job = i)
  <2>1. mt[n].pc = "rcread" /\ upfail' = [upfail EXCEPT ![n] = @ \ {mt[n].job}]
    BY <1>1 DEF ReconcileRead
  <2> QED
    BY <1>t, <2>1
<1>2. ASSUME NEW n \in Nodes, Crash(n)
      PROVE  i \in upfail'[m] \/ \A t \in Threads : N(t) = m => th'[t] = IdleThread
  <2>1. /\ upfail' = [upfail EXCEPT ![n] = {}]
        /\ \A t \in Threads : N(t) = n => th'[t] = IdleThread
    BY <1>2 DEF Crash
  <2> QED
    BY <1>t, <2>1
<1>3. ASSUME NEW n \in Nodes, NEW j \in Jobs, MaintBegin(n, j) \/ BoxExits(n, j)
      PROVE  upfail' = upfail
  BY <1>3 DEF MaintBegin, SweepList, FailStaleQueued, ReconcileList, BoxExits
<1>4. ASSUME NEW n \in Nodes, MaintStep(n), ~ReconcileRead(n) PROVE upfail' = upfail
  BY <1>4 DEF MaintStep, SweepWarm, SweepPs, SweepSkip, SweepRequeue, ReconcilePs, ReconcilePop,
     ReconcileDel
<1>5. ASSUME NEW j \in Jobs, Submit(j) \/ Elapse(j) PROVE upfail' = upfail
  BY <1>5 DEF Submit, Elapse, localVars
<1> QED
  BY <1>1, <1>2, <1>3, <1>4, <1>5 DEF Aside

\* The effects of a step, the effects above and these together.
Moves == \E t \in Threads : ThreadActs(t) /\ KeepActs(t)
Stands == AsideActs /\ KeepAside

LEMMA KeepSteps ==
  ASSUME TypeInv, AbsentInv, [Next]_vars
  PROVE  Moves \/ Stands
<1>1. ASSUME NEW t \in Threads, Claim(t) \/ ThreadStep(t) PROVE ThreadActs(t) /\ KeepActs(t)
  BY <1>1, StepActs, StepRow, StepTree, StepBox, StepBlob, StepGate, StepClean, StepKeepsRow,
     StepKeepsMarker, StepKeepsUpload DEF ThreadActs, KeepActs
<1>2. CASE Aside
  <2>1. AsideActs
    BY <1>2, AsideRow, AsideMaint, AsideTree, AsideRest, AsideGate DEF AsideActs
  <2>2. KeepAside
    BY <1>2, AsideKeepsRow, AsideKeepsMarker, AsideKeepsUpload DEF KeepAside
  <2> QED
    BY <2>1, <2>2 DEF Stands
<1>3. CASE UNCHANGED vars
  BY <1>3 DEF vars, AsideActs, RowAside, ThreadsAside, MaintAside, TreeAside, BoxAside,
     GateAside, Undisturbed, Regains, Stands, KeepAside, Retains, RetainsAfter
<1> QED
  BY <1>1, <1>2, <1>3 DEF Next, Aside, Moves

-------------------------------------------------------------------------------
\* Why a kept result stays.

\* Two threads are never at work, or at their clean-up, on the same job; and the row of
\* such a job is nobody else's: a deferral outlasts the clean-up.
JobsApart ==
  /\ \A t, u \in Threads : t # u /\ th[t].pc # "idle" /\ th[u].pc # "idle" => J(t) # J(u)
  /\ \A t \in Threads : th[t].pc # "idle" =>
       /\ row[J(t)].status = "queued" => row[J(t)].deferred
       /\ row[J(t)].status = "running" => row[J(t)].claim = C(t)

\* The tree of claim c is sealed on node n, and no container of that claim writes to it;
\* and after the step.
SealedFor(n, j, c) == disk[n][j].by = c /\ disk[n][j].stage = "sealed" /\ box[n][j] # c
SealedAfter(n, j, c) == disk'[n][j].by = c /\ disk'[n][j].stage = "sealed" /\ box'[n][j] # c

SealedPcs == {"check", "body", "putseal", "reapcheck", "reap", "mark", "keep"}

\* What a thread has in its tree on the way to the terminal write.
WorkTree ==
  \A t \in Threads :
    /\ th[t].pc = "boxed" \/ (th[t].pc = "seal" /\ ~th[t].warm) => Tree(t).by = C(t)
    /\ th[t].pc \in SealedPcs => SealedFor(N(t), J(t), C(t))
    /\ th[t].pc = "keep" => Tree(t).marker = C(t) /\ J(t) \in upfail[N(t)]
    /\ th[t].pc # "unmark"

\* A thread that cleans up after a kept job knows that the upload failed.
Flags ==
  \A t \in Threads :
    /\ th[t].pc \in {"release", "inread", "indel", "pgread"} /\ Retains(J(t))
         => J(t) \in upfail[N(t)]
    /\ th[t].pc \in {"fetchdrop", "pgdel"} => ~Retains(J(t))

\* A job whose container may still be running is not a kept one.
OrphansLost ==
  /\ \A t \in Threads : th[t].orphan => ~Retains(J(t))
  /\ \A n \in Nodes, j \in Jobs : orphans[n][j] # NoClaim => ~Retains(j)
  /\ \A n \in Nodes : mt[n].pc \in {"rcread", "rcdel"} => ~Retains(mt[n].job)

KeptTree(j) == Retains(j) =>
  /\ row[j].claim # NoClaim
  /\ \E n \in Nodes : disk[n][j].marker = row[j].claim /\ SealedFor(n, j, row[j].claim)

Keeping == JobsApart /\ WorkTree /\ Flags /\ OrphansLost
KeepInv == Keeping /\ \A j \in Jobs : KeptTree(j)

\* A submitted job that is neither queued nor running will never be again.
Over(j) == j <= submitted /\ row[j].status \in Terminal \cup {"absent"}

\* Whoever handles a job handles one that was submitted, and an unconfirmed kill ends its
\* job for good.
InHand == \A t \in Threads : th[t].pc # "idle" => J(t) <= submitted

OrphansOver ==
  /\ \A t \in Threads : th[t].orphan /\ th[t].pc # "fail" => Over(J(t))
  /\ \A n \in Nodes, j \in Jobs : orphans[n][j] # NoClaim => Over(j)
  /\ \A n \in Nodes : mt[n].pc \in {"rcread", "rcdel"} => Over(mt[n].job)

LEMMA KeepInit == Init => KeepInv
  BY DEF Init, StoreInit, NoRow, IdleThread, IdleMaint, KeepInv, Keeping, JobsApart, WorkTree,
     SealedPcs, Flags, OrphansLost, KeptTree, Retains

\* A thread that is at work owns a RUNNING row; one that is not idle has a claim.
LEMMA AtWork ==
  ASSUME TypeInv, Owned, NEW t \in Threads
  PROVE  /\ N(t) \in Nodes
         /\ th[t].pc # "idle" => J(t) \in Jobs /\ C(t) # NoClaim
         /\ th[t].pc \in Working =>
              /\ row[J(t)].status = "running" /\ row[J(t)].claim = C(t) /\ ~Retains(J(t))
  BY OwnedTypes DEF Owned, ClaimsIssued, HoldsRow, StillOurs, Matches, Retains, J, C

\* What a step of thread t leaves alone.
LEMMA Elsewhere ==
  ASSUME TypeInv, Owned, JobsApart, NEW t \in Threads, ThreadActs(t), KeepActs(t)
  PROVE  /\ \A j \in Jobs : j # J(t) =>
              /\ SameRow(j) \/ Takes(t)
              /\ RetainsAfter(j) => Retains(j)
              /\ \A n \in Nodes :
                   /\ disk'[n][j].by = disk[n][j].by /\ disk'[n][j].stage = disk[n][j].stage
                   /\ disk'[n][j].marker = disk[n][j].marker
                   /\ box'[n][j] \in {box[n][j], NoClaim}
                   /\ j \in upfail[n] => j \in upfail'[n]
         /\ \A u \in Threads : u # t =>
              /\ th'[u] = th[u]
              /\ th[u].pc # "idle" =>
                   /\ SameRow(J(u))
                   /\ th[t].pc # "idle" => J(u) # J(t)
                   /\ J(u) # th'[t].job \/ th'[t].pc = "idle"
<1>1. ASSUME NEW j \in Jobs, j # J(t)
      PROVE  /\ SameRow(j) \/ Takes(t)
             /\ RetainsAfter(j) => Retains(j)
  BY <1>1 DEF ThreadActs, RowActs, KeepActs, RowKeeps
<1>2. ASSUME NEW j \in Jobs, j # J(t), NEW n \in Nodes
      PROVE  /\ disk'[n][j].by = disk[n][j].by /\ disk'[n][j].stage = disk[n][j].stage
             /\ disk'[n][j].marker = disk[n][j].marker
             /\ box'[n][j] \in {box[n][j], NoClaim}
             /\ j \in upfail[n] => j \in upfail'[n]
  BY <1>2 DEF ThreadActs, TreeActs, BoxActs, KeepActs, MarkerKeeps, UploadKeeps
<1>3. ASSUME NEW u \in Threads, u # t, th[u].pc # "idle"
      PROVE  /\ SameRow(J(u))
             /\ th[t].pc # "idle" => J(u) # J(t)
             /\ J(u) # th'[t].job \/ th'[t].pc = "idle"
  <2>1. J(u) \in Jobs /\ (row[J(u)].status = "queued" => row[J(u)].deferred)
    BY <1>3, AtWork DEF JobsApart
  <2>2. th[t].pc # "idle" => J(u) # J(t)
    BY <1>3 DEF JobsApart
  <2>3. Takes(t) => J(u) # th'[t].job
    <3> SUFFICES ASSUME Takes(t), J(u) = th'[t].job PROVE FALSE
      OBVIOUS
    <3>1. ~SameRow(J(u))
      <4>1. row[J(u)].claim <= issued /\ row[J(u)].claim \in Nat /\ issued \in Nat
        BY <2>1, OwnedTypes DEF Owned, ClaimsIssued
      <4> QED
        BY <4>1 DEF Takes, SameRow
    <3>2. ~StopsRow(t)
      BY DEF Takes, StopsRow, Working
    <3> QED
      BY <2>1, <3>1, <3>2 DEF ThreadActs, RowActs
  <2>4. SameRow(J(u))
    BY <2>1, <2>2, <2>3 DEF ThreadActs, RowActs, StopsRow, Working
  <2>5. J(u) # th'[t].job \/ th'[t].pc = "idle"
    BY <2>2, <2>3 DEF ThreadActs, Acts, GoesOn, Ends, IdleThread, Follows, J
  <2> QED
    BY <2>2, <2>4, <2>5
<1> QED
  BY <1>1, <1>2, <1>3 DEF ThreadActs, Acts

-------------------------------------------------------------------------------
\* A step of a thread.
LEMMA ApartThread ==
  ASSUME TypeInv, Owned, JobsApart, NEW t \in Threads, ThreadActs(t), KeepActs(t)
  PROVE  JobsApart'
<1>i. IdleThread.pc = "idle"
  BY DEF IdleThread
<1>t. th'[t].pc # "idle" =>
        \/ th[t].pc # "idle" /\ GoesOn(t) /\ th'[t].job = J(t) /\ th'[t].claim = C(t)
        \/ Takes(t)
  BY <1>i DEF ThreadActs, Acts, Ends, GoesOn, Follows, J, C
<1>1. ASSUME NEW u \in Threads, u # t, th[u].pc # "idle"
      PROVE  /\ th'[u] = th[u]
             /\ row'[J(u)].status = "queued" => row'[J(u)].deferred
             /\ row'[J(u)].status = "running" => row'[J(u)].claim = C(u)
             /\ th'[t].pc # "idle" => J(u) # th'[t].job
  BY <1>1, Elsewhere DEF JobsApart, SameRow
<1>2. ASSUME th'[t].pc # "idle"
      PROVE  /\ row'[th'[t].job].status = "queued" => row'[th'[t].job].deferred
             /\ row'[th'[t].job].status = "running" => row'[th'[t].job].claim = th'[t].claim
  <2>1. CASE Takes(t)
    BY <2>1 DEF Takes
  <2>2. CASE th[t].pc # "idle" /\ GoesOn(t) /\ th'[t].job = J(t) /\ th'[t].claim = C(t)
    <3>1. J(t) \in Jobs /\ ~Takes(t) /\ th'[t] # IdleThread
      BY <1>2, <1>i, <2>2, AtWork DEF Takes
    <3>2. SameRow(J(t)) \/ StopsRow(t)
      BY <3>1 DEF ThreadActs, RowActs
    <3>3. row'[J(t)].status = "queued" => SameRow(J(t)) \/ row'[J(t)].deferred
      BY <3>1 DEF KeepActs, RowKeeps
    <3> QED
      BY <2>2, <3>2, <3>3 DEF JobsApart, SameRow, StopsRow
  <2> QED
    BY <1>2, <1>t, <2>1, <2>2
<1>3. \A u \in Threads : u # t => th'[u] = th[u]
  BY DEF ThreadActs, Acts
<1> QED
  BY <1>1, <1>2, <1>3 DEF JobsApart, J, C

LEMMA WorkThread ==
  ASSUME TypeInv, Owned, Paths, OwnBoxGone, JobsApart, WorkTree,
         NEW t \in Threads, ThreadActs(t), KeepActs(t)
  PROVE  WorkTree'
<1>i. IdleThread.pc = "idle"
  BY DEF IdleThread
<1>1. ASSUME NEW u \in Threads, u # t
      PROVE  /\ th[u].pc = "boxed" \/ (th[u].pc = "seal" /\ ~th[u].warm)
                  => disk'[N(u)][J(u)].by = C(u)
             /\ th[u].pc \in SealedPcs => SealedAfter(N(u), J(u), C(u))
             /\ th[u].pc = "keep" =>
                  disk'[N(u)][J(u)].marker = C(u) /\ J(u) \in upfail'[N(u)]
  <2>1. CASE th[t].pc = "idle"
    <3>1. ASSUME NEW n \in Nodes, NEW j \in Jobs
          PROVE  /\ disk'[n][j].by = disk[n][j].by /\ disk'[n][j].stage = disk[n][j].stage
                 /\ disk'[n][j].marker = disk[n][j].marker
                 /\ box'[n][j] \in {box[n][j], NoClaim}
                 /\ j \in upfail[n] => j \in upfail'[n]
      BY <2>1 DEF ThreadActs, TreeActs, BoxActs, KeepActs, MarkerKeeps, UploadKeeps
    <3>2. th[u].pc # "idle" => N(u) \in Nodes /\ J(u) \in Jobs /\ C(u) # NoClaim
      BY AtWork
    <3> QED
      BY <3>1, <3>2 DEF WorkTree, SealedPcs, SealedFor, SealedAfter, Tree
  <2>2. CASE th[t].pc # "idle"
    <3>1. th[u].pc # "idle" => N(u) \in Nodes /\ J(u) \in Jobs /\ C(u) # NoClaim /\ J(u) # J(t)
      BY <1>1, <2>2, AtWork DEF JobsApart
    <3>2. th[u].pc # "idle" =>
            /\ Tree(u).by = disk'[N(u)][J(u)].by /\ Tree(u).stage = disk'[N(u)][J(u)].stage
            /\ Tree(u).marker = disk'[N(u)][J(u)].marker
            /\ box'[N(u)][J(u)] \in {box[N(u)][J(u)], NoClaim}
            /\ J(u) \in upfail[N(u)] => J(u) \in upfail'[N(u)]
      BY <3>1, Elsewhere DEF Tree
    <3> QED
      BY <3>1, <3>2 DEF WorkTree, SealedPcs, SealedFor, SealedAfter, Tree
  <2> QED
    BY <2>1, <2>2
<1>2. ASSUME th'[t].pc \in SealedPcs \cup {"boxed", "seal", "unmark"}
      PROVE  /\ th'[t].pc = "boxed" \/ (th'[t].pc = "seal" /\ ~th'[t].warm)
                  => disk'[N(t)][J(t)].by = C(t)
             /\ th'[t].pc \in SealedPcs => SealedAfter(N(t), J(t), C(t))
             /\ th'[t].pc = "keep" =>
                  disk'[N(t)][J(t)].marker = C(t) /\ J(t) \in upfail'[N(t)]
             /\ th'[t].pc # "unmark"
             /\ th'[t].job = J(t) /\ th'[t].claim = C(t)
  <2>1. GoesOn(t)
    BY <1>2, <1>i DEF ThreadActs, Acts, Ends, Takes, SealedPcs
  <2>2. /\ th[t].pc # "idle" /\ th'[t].job = J(t) /\ th'[t].claim = C(t)
        /\ th'[t].warm = (th[t].warm \/ th'[t].pc = "stampw")
    BY <2>1 DEF GoesOn, Follows, J, C
  <2>3. J(t) \in Jobs /\ C(t) # NoClaim /\ N(t) \in Nodes
    BY <2>2, AtWork
  <2>4. CASE th'[t].pc = "boxed"
    <3>1. th[t].pc = "launch"
      BY <2>1, <2>4 DEF GoesOn, Follows
    <3> QED
      BY <2>2, <2>4, <3>1 DEF ThreadActs, TreeActs, SealedPcs
  <2>5. CASE th'[t].pc = "seal"
    <3>1. th[t].pc \in {"launch", "boxed", "refresh"}
      BY <2>1, <2>5 DEF GoesOn, Follows
    <3>2. th[t].pc = "refresh" => th'[t].warm
      BY <2>2 DEF Paths
    <3>3. th[t].pc = "launch" => disk'[N(t)][J(t)].by = C(t)
      BY DEF ThreadActs, TreeActs
    <3>4. th[t].pc = "boxed" => disk'[N(t)][J(t)].by = Tree(t).by /\ Tree(t).by = C(t)
      BY <2>3 DEF ThreadActs, TreeActs, WorkTree, Tree
    <3> QED
      BY <2>2, <2>5, <3>1, <3>2, <3>3, <3>4 DEF SealedPcs
  <2>6. CASE th'[t].pc = "check"
    <3>1. th[t].pc = "seal"
      BY <2>1, <2>6 DEF GoesOn, Follows
    <3>2. disk'[N(t)][J(t)].stage = "sealed" /\ disk'[N(t)][J(t)].by = C(t)
      BY <2>6, <3>1 DEF ThreadActs, TreeActs, WorkTree
    <3>3. box[N(t)][J(t)] # C(t)
      BY <3>1 DEF OwnBoxGone, Boxless
    <3>4. box'[N(t)][J(t)] # C(t)
      BY <2>3, <3>1, <3>3 DEF ThreadActs, BoxActs
    <3> QED
      BY <2>2, <2>6, <3>2, <3>4 DEF SealedFor, SealedAfter, SealedPcs
  <2>7. CASE th'[t].pc \in SealedPcs \ {"check"} \/ th'[t].pc = "unmark"
    <3>1. th[t].pc \in SealedPcs /\ (th'[t].pc = "keep" => th[t].pc = "mark")
          /\ (th'[t].pc = "unmark" => th[t].pc = "keep")
      BY <2>1, <2>7 DEF GoesOn, Follows, SealedPcs
    <3>2. SealedFor(N(t), J(t), C(t)) /\ Tree(t).by = C(t)
      BY <3>1 DEF WorkTree, SealedFor, SealedAfter, Tree
    <3>3. /\ disk'[N(t)][J(t)].by = disk[N(t)][J(t)].by
          /\ disk'[N(t)][J(t)].stage = disk[N(t)][J(t)].stage
          /\ box'[N(t)][J(t)] \in {box[N(t)][J(t)], NoClaim}
      BY <2>3, <3>1 DEF ThreadActs, TreeActs, BoxActs, SealedPcs
    <3>4. th[t].pc = "mark" => disk'[N(t)][J(t)].marker = C(t) /\ J(t) \in upfail'[N(t)]
      BY <2>3, <3>2 DEF KeepActs, MarkerKeeps, UploadKeeps
    <3>5. th'[t].pc # "unmark"
      BY <3>1 DEF KeepActs, RowKeeps, Owned, HoldsRow, Working
    <3> QED
      BY <2>2, <2>3, <2>7, <3>1, <3>2, <3>3, <3>4, <3>5 DEF SealedFor, SealedAfter, SealedPcs
  <2> QED
    BY <1>2, <2>4, <2>5, <2>6, <2>7
<1>3. \A u \in Threads : u # t => th'[u] = th[u]
  BY DEF ThreadActs, Acts
<1> QED
  <2>1. ASSUME NEW u \in Threads
        PROVE  /\ th'[u].pc = "boxed" \/ (th'[u].pc = "seal" /\ ~th'[u].warm)
                    => disk'[N(u)][th'[u].job].by = th'[u].claim
               /\ th'[u].pc \in SealedPcs => SealedAfter(N(u), th'[u].job, th'[u].claim)
               /\ th'[u].pc = "keep" => /\ disk'[N(u)][th'[u].job].marker = th'[u].claim
                                        /\ th'[u].job \in upfail'[N(u)]
               /\ th'[u].pc # "unmark"
    <3>1. CASE u # t
      BY <1>1, <1>3, <3>1 DEF WorkTree, J, C, SealedFor
    <3>2. CASE u = t
      BY <1>2, <3>2 DEF SealedPcs
    <3> QED
      BY <3>1, <3>2
  <2> QED
    BY <2>1 DEF WorkTree, Tree, J, C, N, SealedFor, SealedAfter

LEMMA FlagsThread ==
  ASSUME TypeInv, Owned, JobsApart, WorkTree, Flags,
         NEW t \in Threads, ThreadActs(t), KeepActs(t)
  PROVE  Flags'
<1> DEFINE Knowing == {"release", "inread", "indel", "pgread"}
<1>i. IdleThread.pc = "idle"
  BY DEF IdleThread
<1>1. ASSUME NEW u \in Threads, u # t
      PROVE  /\ th[u].pc \in Knowing /\ RetainsAfter(J(u)) => J(u) \in upfail'[N(u)]
             /\ th[u].pc \in {"fetchdrop", "pgdel"} => ~RetainsAfter(J(u))
  <2>1. th[u].pc # "idle" => N(u) \in Nodes /\ J(u) \in Jobs
    BY AtWork
  <2>2. CASE th[t].pc = "idle"
    <3>1. th[u].pc # "idle" => /\ RetainsAfter(J(u)) => Retains(J(u))
                               /\ J(u) \in upfail[N(u)] => J(u) \in upfail'[N(u)]
      BY <2>1, <2>2 DEF KeepActs, RowKeeps, UploadKeeps
    <3> QED
      BY <3>1 DEF Flags
  <2>3. CASE th[t].pc # "idle"
    <3>1. th[u].pc # "idle" => J(u) # J(t)
      BY <1>1, <2>3 DEF JobsApart
    <3>2. th[u].pc # "idle" => /\ RetainsAfter(J(u)) => Retains(J(u))
                               /\ J(u) \in upfail[N(u)] => J(u) \in upfail'[N(u)]
      BY <2>1, <3>1, Elsewhere
    <3> QED
      BY <3>2 DEF Flags
  <2> QED
    BY <2>2, <2>3
<1>2. ASSUME th'[t].pc \in Knowing \cup {"fetchdrop", "pgdel"}
      PROVE  /\ th'[t].job = J(t)
             /\ th'[t].pc \in Knowing /\ RetainsAfter(J(t)) => J(t) \in upfail'[N(t)]
             /\ th'[t].pc \in {"fetchdrop", "pgdel"} => ~RetainsAfter(J(t))
  <2>1. GoesOn(t)
    BY <1>2, <1>i DEF ThreadActs, Acts, Ends, Takes
  <2>2. th[t].pc # "idle" /\ th'[t].job = J(t)
    BY <2>1 DEF GoesOn, Follows, J
  <2>3. J(t) \in Jobs /\ N(t) \in Nodes
    BY <2>2, AtWork
  <2>4. RetainsAfter(J(t)) => Retains(J(t)) \/ th[t].pc = "keep"
    BY <2>3 DEF KeepActs, RowKeeps
  <2>5. J(t) \in upfail[N(t)] => J(t) \in upfail'[N(t)] \/ th[t].pc = "pgread"
    BY <2>3 DEF KeepActs, UploadKeeps
  <2>6. CASE th[t].pc \in Working
    <3>1. ~Retains(J(t))
      BY <2>6, AtWork
    <3>2. th'[t].pc \notin {"indel", "pgdel", "inread", "pgread"}
          /\ (th'[t].pc = "fetchdrop" => th[t].pc = "fetch")
      BY <2>1, <2>6 DEF GoesOn, Follows, Working
    <3>3. th[t].pc = "keep" => J(t) \in upfail[N(t)]
      BY DEF WorkTree
    <3> QED
      BY <1>2, <2>2, <2>4, <2>5, <3>1, <3>2, <3>3
  <2>7. CASE th[t].pc = "fetchdrop"
    <3>1. ~Retains(J(t)) /\ th'[t].pc = "release"
      BY <2>1, <2>7 DEF Flags, GoesOn, Follows
    <3> QED
      BY <2>2, <2>4, <2>7, <3>1
  <2>8. CASE th[t].pc \in {"release", "inread", "indel"}
    <3>1. Retains(J(t)) => J(t) \in upfail[N(t)]
      BY <2>8 DEF Flags
    <3>2. th'[t].pc \in Knowing
      BY <2>1, <2>8 DEF GoesOn, Follows
    <3> QED
      BY <2>2, <2>4, <2>5, <2>8, <3>1, <3>2
  <2>9. CASE th[t].pc = "pgread"
    <3>1. (Retains(J(t)) => J(t) \in upfail[N(t)]) /\ th'[t].pc = "pgdel"
      BY <2>1, <2>9 DEF Flags, GoesOn, Follows
    <3>2. J(t) \notin upfail[N(t)]
      BY <2>9, <3>1 DEF KeepActs, UploadKeeps
    <3> QED
      BY <2>2, <2>4, <2>9, <3>1, <3>2
  <2>10. th[t].pc \in Working \cup {"fetchdrop", "release", "inread", "indel", "pgread"}
    BY <1>2, <2>1 DEF GoesOn, Follows, Working, WorkTree
  <2> QED
    BY <2>6, <2>7, <2>8, <2>9, <2>10
<1>3. \A u \in Threads : u # t => th'[u] = th[u]
  BY DEF ThreadActs, Acts
<1>4. ASSUME NEW u \in Threads
      PROVE  /\ th'[u].pc \in Knowing /\ RetainsAfter(th'[u].job) => th'[u].job \in upfail'[N(u)]
             /\ th'[u].pc \in {"fetchdrop", "pgdel"} => ~RetainsAfter(th'[u].job)
  <2>1. CASE u # t
    BY <1>1, <1>3, <2>1 DEF J, Retains
  <2>2. CASE u = t
    BY <1>2, <2>2 DEF Retains
  <2> QED
    BY <2>1, <2>2
<1> QED
  BY <1>4 DEF Flags, J, N, Retains, RetainsAfter

LEMMA LostThread ==
  ASSUME TypeInv, Owned, Paths, OrphansOver, JobsApart, OrphansLost,
         NEW t \in Threads, ThreadActs(t), KeepActs(t)
  PROVE  OrphansLost'
<1>i. ~IdleThread.orphan
  BY DEF IdleThread
<1>k. th[t].pc = "keep" => row[J(t)].status = "running"
  BY AtWork DEF Working
<1>1. ASSUME NEW u \in Threads, th'[u].orphan PROVE ~RetainsAfter(th'[u].job)
  <2>1. CASE u # t
    <3>1. th'[u] = th[u] /\ th[u].pc # "idle"
      BY <1>1, <2>1 DEF ThreadActs, Acts, Paths
    <3>2. J(u) \in Jobs /\ ~Retains(J(u))
      BY <1>1, <3>1, AtWork DEF OrphansLost
    <3>3. ~(J(u) = J(t) /\ th[t].pc = "keep")
      BY <2>1, <3>1 DEF JobsApart
    <3> QED
      BY <3>1, <3>2, <3>3 DEF KeepActs, RowKeeps, J
  <2>2. CASE u = t
    <3>1. GoesOn(t)
      BY <1>1, <1>i, <2>2 DEF ThreadActs, Acts, Ends, Takes
    <3>2. /\ th'[t].job = J(t) /\ th[t].pc # "idle" /\ th[t].pc # "keep"
          /\ th[t].orphan \/ th[t].pc = "boxed"
      BY <1>1, <2>2, <3>1 DEF GoesOn, Follows, Paths, J
    <3>3. J(t) \in Jobs /\ ~Retains(J(t))
      BY <3>2, AtWork DEF OrphansLost, Working
    <3> QED
      BY <2>2, <3>2, <3>3 DEF KeepActs, RowKeeps
  <2> QED
    BY <2>1, <2>2
<1>2. ASSUME NEW n \in Nodes, NEW j \in Jobs, orphans'[n][j] # NoClaim PROVE ~RetainsAfter(j)
  <2>1. \/ orphans'[n][j] = orphans[n][j]
        \/ th[t].pc = "release" /\ th[t].orphan /\ j = J(t)
    <3>1. \/ orphans' = orphans
          \/ /\ th[t].pc = "release" /\ th[t].orphan
             /\ orphans' = [orphans EXCEPT ![N(t)][J(t)] = C(t)]
      BY DEF ThreadActs, GateActs
    <3>2. orphans \in [Nodes -> [Jobs -> ClaimIds]]
      BY DEF TypeInv, GateInv
    <3> QED
      BY <3>1, <3>2
  <2>2. CASE orphans[n][j] # NoClaim
    <3>1. ~Retains(j) /\ row[j].status # "running"
      BY <2>2 DEF OrphansLost, OrphansOver, Over, Terminal
    <3> QED
      BY <1>k, <3>1 DEF KeepActs, RowKeeps
  <2>3. CASE th[t].pc = "release" /\ th[t].orphan /\ j = J(t)
    <3>1. ~Retains(j)
      BY <2>3 DEF OrphansLost
    <3> QED
      BY <2>3, <3>1 DEF KeepActs, RowKeeps
  <2> QED
    BY <1>2, <2>1, <2>2, <2>3
<1>3. ASSUME NEW n \in Nodes, mt'[n].pc \in {"rcread", "rcdel"} PROVE ~RetainsAfter(mt'[n].job)
  <2>1. mt'[n] = mt[n] /\ mt[n].job \in Jobs
    BY <1>3, OwnedTypes DEF ThreadActs, GateActs
  <2>2. ~Retains(mt[n].job) /\ row[mt[n].job].status # "running"
    BY <1>3, <2>1 DEF OrphansLost, OrphansOver, Over, Terminal
  <2> QED
    BY <1>k, <2>1, <2>2 DEF KeepActs, RowKeeps
<1> QED
  BY <1>1, <1>2, <1>3 DEF OrphansLost, J, Retains, RetainsAfter

LEMMA TreesThread ==
  ASSUME TypeInv, Owned, JobsApart, WorkTree, Flags,
         NEW t \in Threads, ThreadActs(t), KeepActs(t), NEW j \in Jobs, KeptTree(j)
  PROVE  KeptTree(j)'
<1> SUFFICES ASSUME RetainsAfter(j)
             PROVE  /\ row'[j].claim # NoClaim
                    /\ \E n \in Nodes : /\ disk'[n][j].marker = row'[j].claim
                                        /\ SealedAfter(n, j, row'[j].claim)
  BY DEF KeptTree, Retains, RetainsAfter, SealedFor, SealedAfter
<1>w. th[t].pc \in Working => row[J(t)].status = "running" /\ row[J(t)].claim = C(t)
  BY AtWork
<1>1. CASE Retains(j)
  <2>1. row[j].status = "failed"
    BY <1>1 DEF Retains
  <2>2. row'[j].claim = row[j].claim /\ row[j].claim # NoClaim
    BY <1>1, <2>1 DEF KeptTree, ThreadActs, RowActs, SameRow, StopsRow, StillOurs, Matches
  <2>3. PICK n \in Nodes : disk[n][j].marker = row[j].claim /\ SealedFor(n, j, row[j].claim)
    BY <1>1 DEF KeptTree
  <2>4. ~(j = J(t) /\ th[t].pc \in {"launch", "seal", "mark", "unmark", "pgdel"})
    BY <1>1, <1>w, <2>1 DEF Working, WorkTree, Flags
  <2>5. /\ disk'[n][j].by = disk[n][j].by /\ disk'[n][j].stage = disk[n][j].stage
        /\ disk'[n][j].marker = disk[n][j].marker
        /\ box'[n][j] \in {box[n][j], NoClaim}
    BY <2>4 DEF ThreadActs, TreeActs, BoxActs, KeepActs, MarkerKeeps
  <2> QED
    BY <2>2, <2>3, <2>5 DEF SealedFor, SealedAfter
<1>2. CASE ~Retains(j)
  <2>1. j = J(t) /\ th[t].pc = "keep"
    BY <1>2 DEF KeepActs, RowKeeps
  <2>2. N(t) \in Nodes /\ C(t) # NoClaim /\ row[j].claim = C(t) /\ row[j].status = "running"
    BY <1>w, <2>1, AtWork DEF Working
  <2>3. row'[j].claim = C(t)
    BY <2>1, <2>2 DEF RetainsAfter, ThreadActs, RowActs, SameRow, StopsRow, Takes
  <2>4. disk[N(t)][j].marker = C(t) /\ SealedFor(N(t), j, C(t))
    BY <2>1 DEF WorkTree, Tree, SealedPcs
  <2>5. /\ disk'[N(t)][j].by = disk[N(t)][j].by /\ disk'[N(t)][j].stage = disk[N(t)][j].stage
        /\ disk'[N(t)][j].marker = disk[N(t)][j].marker
        /\ box'[N(t)][j] \in {box[N(t)][j], NoClaim}
    BY <2>1, <2>2 DEF ThreadActs, TreeActs, BoxActs, KeepActs, MarkerKeeps
  <2> QED
    BY <2>2, <2>3, <2>4, <2>5 DEF SealedFor, SealedAfter
<1> QED
  BY <1>1, <1>2

-------------------------------------------------------------------------------
\* A step from outside.
LEMMA KeepFromOutside ==
  ASSUME ~SlowOwners, TypeInv, Owned, Paths, InHand, Retained, OrphansOver, Keeping, Stands
  PROVE  Keeping' /\ \A j \in Jobs : KeptTree(j) => KeptTree(j)'
<1>0. AsideActs /\ KeepAside
  BY DEF Stands
<1>i. IdleThread.pc = "idle" /\ ~IdleThread.orphan /\ IdleMaint.pc = "idle"
  BY DEF IdleThread, IdleMaint
<1>t. \A u \in Threads : th'[u].pc # "idle" \/ th'[u].orphan => th'[u] = th[u]
  BY <1>0, <1>i DEF AsideActs, ThreadsAside
<1>1. ASSUME NEW u \in Threads, th[u].pc # "idle"
      PROVE  /\ row'[J(u)].status = "queued" => row'[J(u)].deferred
             /\ row'[J(u)].status = "running" => row'[J(u)].claim = C(u)
  <2>1. J(u) \in Jobs /\ ~(J(u) > submitted) /\ C(u) # NoClaim
    BY <1>1, AtWork, JobStoreAssumption DEF InHand, TypeInv, RowInv, Jobs
  <2>2. ~Settled(J(u))
    BY DEF Settled
  <2>3. /\ row[J(u)].status = "queued" => row[J(u)].deferred
        /\ row[J(u)].status = "running" => row[J(u)].claim = C(u)
    BY <1>1 DEF Keeping, JobsApart
  <2>4. \A n \in Nodes : ~Sweeps(n, J(u))
    BY <1>1, <2>3 DEF Sweeps, Owned, JudgedGone, C
  <2> QED
    BY <1>0, <2>1, <2>2, <2>3, <2>4 DEF AsideActs, RowAside
<1>2. JobsApart'
  BY <1>1, <1>t DEF Keeping, JobsApart, J, C
<1>3. ASSUME NEW u \in Threads, th[u].pc \in SealedPcs \cup {"boxed", "seal"}, th'[u] = th[u]
      PROVE  /\ th[u].pc = "boxed" \/ (th[u].pc = "seal" /\ ~th[u].warm)
                  => disk'[N(u)][J(u)].by = C(u)
             /\ th[u].pc \in SealedPcs => SealedAfter(N(u), J(u), C(u))
             /\ th[u].pc = "keep" =>
                  disk'[N(u)][J(u)].marker = C(u) /\ J(u) \in upfail'[N(u)]
  <2>1. /\ th[u].pc # "idle" /\ N(u) \in Nodes /\ J(u) \in Jobs /\ C(u) # NoClaim
        /\ row[J(u)].status = "running"
    BY <1>3, AtWork DEF Working, SealedPcs
  <2>2. \A n \in Nodes : ~(mt[n].pc \in {"rcread", "rcdel"} /\ mt[n].job = J(u))
    BY <2>1 DEF OrphansOver, Over, Terminal
  <2>3. /\ disk'[N(u)][J(u)].by = disk[N(u)][J(u)].by
        /\ \/ disk'[N(u)][J(u)].stage = disk[N(u)][J(u)].stage
           \/ disk[N(u)][J(u)].by = box[N(u)][J(u)]
        /\ disk'[N(u)][J(u)].marker = disk[N(u)][J(u)].marker
        /\ box'[N(u)][J(u)] \in {box[N(u)][J(u)], NoClaim}
    BY <1>0, <2>1, <2>2 DEF AsideActs, TreeAside, BoxAside, KeepAside
  <2>4. J(u) \in upfail[N(u)] => J(u) \in upfail'[N(u)]
    BY <1>0, <1>3, <1>i, <2>1, <2>2 DEF KeepAside
  <2>5. /\ th[u].pc = "boxed" \/ (th[u].pc = "seal" /\ ~th[u].warm) => disk[N(u)][J(u)].by = C(u)
        /\ th[u].pc \in SealedPcs => SealedFor(N(u), J(u), C(u))
        /\ th[u].pc = "keep" => disk[N(u)][J(u)].marker = C(u) /\ J(u) \in upfail[N(u)]
    BY DEF Keeping, WorkTree, Tree
  <2> QED
    BY <2>1, <2>3, <2>4, <2>5 DEF SealedFor, SealedAfter
<1>4. WorkTree'
  <2>1. ASSUME NEW u \in Threads
        PROVE  /\ th'[u].pc = "boxed" \/ (th'[u].pc = "seal" /\ ~th'[u].warm)
                    => disk'[N(u)][th'[u].job].by = th'[u].claim
               /\ th'[u].pc \in SealedPcs => SealedAfter(N(u), th'[u].job, th'[u].claim)
               /\ th'[u].pc = "keep" => /\ disk'[N(u)][th'[u].job].marker = th'[u].claim
                                        /\ th'[u].job \in upfail'[N(u)]
               /\ th'[u].pc # "unmark"
    <3>1. CASE th'[u].pc = "idle"
      BY <3>1 DEF SealedPcs
    <3>2. CASE th'[u].pc # "idle"
      <4>1. th'[u] = th[u] /\ th[u].pc # "unmark"
        BY <1>t, <3>2 DEF Keeping, WorkTree
      <4> QED
        BY <1>3, <4>1 DEF SealedPcs, J, C
    <3> QED
      BY <3>1, <3>2
  <2> QED
    BY <2>1 DEF WorkTree, Tree, J, C, N, SealedFor, SealedAfter
<1>5. Flags'
  <2>1. ASSUME NEW u \in Threads, th'[u].pc # "idle"
        PROVE  /\ th[u].pc \in {"release", "inread", "indel", "pgread"} /\ RetainsAfter(J(u))
                    => J(u) \in upfail'[N(u)]
               /\ th[u].pc \in {"fetchdrop", "pgdel"} => ~RetainsAfter(J(u))
               /\ th'[u] = th[u]
    <3>1. th'[u] = th[u] /\ N(u) \in Nodes /\ J(u) \in Jobs
      BY <1>t, <2>1, AtWork
    <3>2. RetainsAfter(J(u)) => Retains(J(u))
      BY <1>0, <3>1 DEF KeepAside
    <3>3. Retains(J(u)) /\ J(u) \in upfail[N(u)] => J(u) \in upfail'[N(u)]
      BY <1>0, <1>i, <2>1, <3>1 DEF KeepAside, Keeping, OrphansLost
    <3> QED
      BY <3>1, <3>2, <3>3 DEF Keeping, Flags
  <2> QED
    BY <2>1 DEF Flags, J, N, Retains, RetainsAfter
<1>6. OrphansLost'
  <2>1. ASSUME NEW u \in Threads, th'[u].orphan PROVE ~RetainsAfter(th'[u].job)
    <3>1. th'[u] = th[u] /\ ~Retains(J(u))
      BY <1>t, <2>1 DEF Keeping, OrphansLost
    <3>2. J(u) \in Jobs => (RetainsAfter(J(u)) => Retains(J(u)))
      BY <1>0 DEF KeepAside
    <3>3. th[u].pc # "idle"
      BY <2>1, <3>1 DEF Paths
    <3> QED
      BY <3>1, <3>2, <3>3, AtWork DEF J
  <2>2. ASSUME NEW n \in Nodes, NEW j \in Jobs, orphans'[n][j] # NoClaim PROVE ~RetainsAfter(j)
    <3>1. orphans[n][j] # NoClaim
      <4>1. \/ orphans'[n] = orphans[n]
            \/ orphans'[n] = [orphans[n] EXCEPT ![mt[n].job] = NoClaim]
            \/ orphans'[n] = [i \in Jobs |-> NoClaim]
        BY <1>0 DEF AsideActs, GateAside
      <4>2. orphans[n] \in [Jobs -> ClaimIds]
        BY DEF TypeInv, GateInv
      <4> QED
        BY <2>2, <4>1, <4>2
    <3> QED
      BY <1>0, <3>1 DEF Keeping, OrphansLost, KeepAside
  <2>3. ASSUME NEW n \in Nodes, mt'[n].pc \in {"rcread", "rcdel"}
        PROVE  ~RetainsAfter(mt'[n].job)
    <3>1. mt'[n].job = mt[n].job /\ mt[n].pc \in {"rcpop", "rcread", "rcdel"}
      BY <1>0, <1>i, <2>3 DEF AsideActs, MaintAside, Lists, Finds, Reconciles
    <3>2. mt[n].job \in Jobs
      BY <3>1, OwnedTypes
    <3>3. ~Retains(mt[n].job)
      BY <3>1, <3>2 DEF Keeping, OrphansLost, Retained
    <3> QED
      BY <1>0, <3>1, <3>2, <3>3 DEF KeepAside
  <2> QED
    BY <2>1, <2>2, <2>3 DEF OrphansLost, J, Retains, RetainsAfter
<1>7. ASSUME NEW j \in Jobs, KeptTree(j) PROVE KeptTree(j)'
  <2> SUFFICES ASSUME RetainsAfter(j)
               PROVE  /\ row'[j].claim # NoClaim
                      /\ \E n \in Nodes : /\ disk'[n][j].marker = row'[j].claim
                                          /\ SealedAfter(n, j, row'[j].claim)
    BY DEF KeptTree, Retains, RetainsAfter, SealedFor, SealedAfter
  <2>1. Retains(j) /\ row[j].status = "failed"
    BY <1>0 DEF KeepAside, Retains
  <2>2. row'[j].claim = row[j].claim /\ row[j].claim # NoClaim
    BY <1>0, <1>7, <2>1 DEF AsideActs, RowAside, Sweeps, KeptTree
  <2>3. PICK n \in Nodes : disk[n][j].marker = row[j].claim /\ SealedFor(n, j, row[j].claim)
    BY <1>7, <2>1 DEF KeptTree
  <2>4. ~(mt[n].pc = "rcdel" /\ mt[n].job = j)
    BY <2>1 DEF Keeping, OrphansLost
  <2>5. /\ disk'[n][j].by = disk[n][j].by
        /\ disk'[n][j].stage = disk[n][j].stage \/ disk[n][j].by = box[n][j]
        /\ disk'[n][j].marker = disk[n][j].marker
        /\ box'[n][j] \in {box[n][j], NoClaim}
    BY <1>0, <2>4 DEF AsideActs, TreeAside, BoxAside, KeepAside
  <2> QED
    BY <2>2, <2>3, <2>5 DEF SealedFor, SealedAfter
<1> QED
  BY <1>2, <1>4, <1>5, <1>6, <1>7 DEF Keeping

-------------------------------------------------------------------------------
\* What holds of the orphans without the sweeps and DELETE is more than is needed here.
LEMMA OrphansAreOver ==
  ASSUME TypeInv, AbsentInv, Paths, Claimed, OrphansFailed
  PROVE  InHand /\ OrphansOver
<1>1. \A j \in Jobs : row[j].status # "absent" => j <= submitted
  BY JobStoreAssumption DEF AbsentInv, TypeInv, RowInv, Jobs
<1>2. /\ \A t \in Threads : th[t].pc # "idle" => J(t) \in Jobs
      /\ \A n \in Nodes : mt[n].pc # "idle" => mt[n].job \in Jobs
  BY DEF TypeInv, ThInv, MtInv, J
<1> QED
  BY <1>1, <1>2 DEF Paths, Claimed, OrphansFailed, InHand, OrphansOver, Over, Terminal

LEMMA KeepNext ==
  ASSUME ~SlowOwners, TypeInv, AbsentInv, Owned, Paths, OwnBoxGone, InHand, Retained,
         OrphansOver, Keeping, [Next]_vars
  PROVE  Keeping' /\ \A j \in Jobs : KeptTree(j) => KeptTree(j)'
<1>1. CASE Moves
  <2>1. PICK t \in Threads : ThreadActs(t) /\ KeepActs(t)
    BY <1>1 DEF Moves
  <2>2. JobsApart' /\ WorkTree' /\ Flags' /\ OrphansLost'
    BY <2>1, ApartThread, WorkThread, FlagsThread, LostThread DEF Keeping
  <2>3. \A j \in Jobs : KeptTree(j) => KeptTree(j)'
    BY <2>1, TreesThread DEF Keeping
  <2> QED
    BY <2>2, <2>3 DEF Keeping
<1>2. CASE Stands
  BY <1>2, KeepFromOutside
<1> QED
  BY <1>1, <1>2, KeepSteps

\* A job that failed only because its result could not be uploaded (_retain_for_upload_retry)
\* has that result on a disk, sealed and marked under the claim on its row: no clean-up of
\* its owner (_purge_job_dir_if_owned), no later run, sweep or reconciliation and no crash
\* of any node takes it away, if owners are prompt and no store call raises.
THEOREM ResultsStayKept ==
  SlowOwners = FALSE /\ StoreFaults = FALSE => (Spec => []KeptResultOnDisk)
<1> SUFFICES ASSUME SlowOwners = FALSE, StoreFaults = FALSE
             PROVE  Spec => []KeptResultOnDisk
  OBVIOUS
<1> DEFINE Inv == TypeInv /\ AbsentInv /\ Owned /\ ResultInv /\ OrphanInv /\ KeepInv
<1>1. Init => Inv
  BY InitTyped, AbsentInit, OwnedInit, ResultInit, OrphanInit, KeepInit
<1>2. Inv /\ [Next]_vars => Inv'
  <2> SUFFICES ASSUME Inv, [Next]_vars PROVE Inv'
    OBVIOUS
  <2>1. TypeInv' /\ AbsentInv' /\ Owned'
    BY NextTyped, NextEffect, EffectRefines, OwnedNext
  <2>2. (\E t \in Threads : ThreadActs(t)) \/ AsideActs
    BY Steps
  <2>3. Paths' /\ OwnBoxGone' /\ OwnTree' /\ OwnBlob' /\ DoneServesItsResult'
    BY <2>2, PathsNext, ResultThread, ResultAside DEF ResultInv
  <2>4. OrphanInv'
    BY <2>2, OrphanNext DEF ResultInv
  <2>5. KeepInv'
    BY KeepNext, OrphansAreOver DEF ResultInv, OrphanInv, KeepInv
  <2> QED
    BY <2>1, <2>3, <2>4, <2>5 DEF ResultInv
<1>3. Inv => KeptResultOnDisk
  BY DEF KeepInv, KeptTree, KeptResultOnDisk, Retains, SealedFor
<1> QED
  BY <1>1, <1>2, <1>3, PTL DEF Spec
===============================================================================
