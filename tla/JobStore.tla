------------------------------- MODULE JobStore -------------------------------
(* The job store as the dispatchers, the sweeps and the ingress see it: one row *)
(* per job, and the atomic operations every backend (memory, SQL, Redis) offers *)
(* on it.  Three operations carry the protocol:                                 *)
(*   - claim_next hands the oldest claimable QUEUED row to one caller and       *)
(*     stamps a fresh claim id on it;                                           *)
(*   - update_if_status is a compare-and-set on (status, claim id);             *)
(*   - get returns a snapshot, which may be stale by the time it is used.       *)
(* Jobs are numbered in creation order, so "oldest" is the smallest number.     *)
EXTENDS Naturals

CONSTANTS
  NJobs,        \* how many jobs are submitted
  MaxClaims,    \* bound on the number of claims ever handed out
  MaxAttempts,  \* MAX_MATERIALISE_ATTEMPTS
  Retaining     \* job_retention_seconds > 0: terminal rows get an expiry

ASSUME JobStoreAssumption ==
  /\ NJobs \in Nat
  /\ MaxClaims \in Nat
  /\ MaxAttempts \in Nat \ {0}
  /\ Retaining \in BOOLEAN

VARIABLES
  row,          \* the job rows
  issued,       \* how many claim ids have been handed out
  submitted     \* how many jobs have been created

storeVars == <<row, issued, submitted>>

Jobs == 1..NJobs

\* Claim ids are uuid4 strings: fresh on every claim.  0 is claim_id = None.
NoClaim == 0
ClaimIds == 0..MaxClaims

\* "absent" is a job without a row: not created yet, or deleted.
Statuses == {"absent", "queued", "running", "done", "failed", "expired"}
Terminal == {"done", "failed", "expired"}

\* The age of started_at, judged against the sweep's two cutoffs.
Fresh      == 0   \* younger than requeue_grace_s
PastStale  == 2   \* older than worker_timeout_s + requeue_grace_s
Ages == Fresh..PastStale

Runtimes == {"none", "warm", "cold"}

\* "never": expires_at is None; "set": in the future; "due": in the past.
Expiries == {"never", "set", "due"}

\* deferred: claimable_after lies in the future.
\* kept: the row's error says that the result is retained on the worker.
Rows == [status   : Statuses,
         claim    : ClaimIds,
         age      : Ages,
         runtime  : Runtimes,
         attempts : 0..MaxAttempts,
         deferred : BOOLEAN,
         kept     : BOOLEAN,
         expiry   : Expiries]

NoRow == [status |-> "absent", claim |-> NoClaim, age |-> Fresh,
          runtime |-> "none", attempts |-> 0, deferred |-> FALSE,
          kept |-> FALSE, expiry |-> "never"]

NewRow == [NoRow EXCEPT !.status = "queued"]

StoreInit ==
  /\ row = [j \in Jobs |-> NoRow]
  /\ issued = 0
  /\ submitted = 0

-------------------------------------------------------------------------------
\* create: the next job gets its QUEUED row.
Create(j) ==
  /\ j = submitted + 1
  /\ submitted' = j
  /\ row' = [row EXCEPT ![j] = NewRow]
  /\ UNCHANGED issued

\* The rows a claimant that serves the jobs in S may take now.
Claimable(S) == {j \in Jobs \cap S : row[j].status = "queued" /\ ~row[j].deferred}

\* claim_next: the oldest claimable row becomes RUNNING under a fresh claim.
ClaimNext(S, j) ==
  /\ issued < MaxClaims
  /\ j \in Claimable(S)
  /\ \A i \in Claimable(S) : j <= i
  /\ issued' = issued + 1
  /\ row' = [row EXCEPT ![j] = [@ EXCEPT !.status = "running",
                                         !.claim  = issued + 1,
                                         !.age    = Fresh]]
  /\ UNCHANGED submitted

\* Seeded faults: the compare-and-set ignores the claim, or the status.
MatchesStatus(j, st, c) == row[j].status = st
MatchesClaim(j, st, c) == row[j].claim = c

\* The condition of update_if_status(j, st, expect_claim_id = c).
Matches(j, st, c) == row[j].status = st /\ row[j].claim = c

\* update_if_status(j, st, expect_claim_id = c, **fields): r is the new row.
UpdateIfStatus(j, st, c, r) ==
  /\ row' = IF Matches(j, st, c) THEN [row EXCEPT ![j] = r] ELSE row
  /\ UNCHANGED <<issued, submitted>>

\* update_if_status(j, st, **fields) without expect_claim_id.
UpdateIfStatusOnly(j, st, r) ==
  /\ row' = IF row[j].status = st THEN [row EXCEPT ![j] = r] ELSE row
  /\ UNCHANGED <<issued, submitted>>

\* delete: the row goes away whatever its status.
Delete(j) ==
  /\ row' = [row EXCEPT ![j] = NoRow]
  /\ UNCHANGED <<issued, submitted>>

-------------------------------------------------------------------------------
\* The field sets the clients write.

ExpiresAt == IF Retaining THEN "set" ELSE "never"

\* status=FAILED, finished_at, expires_at, error.
Failed(r, kept) ==
  [r EXCEPT !.status = "failed", !.expiry = ExpiresAt, !.kept = kept]

\* status=DONE, finished_at, expires_at, error=None.
Done(r) ==
  [r EXCEPT !.status = "done", !.expiry = ExpiresAt, !.kept = FALSE]

\* status=QUEUED with started_at, worker_runtime, claim_id and error cleared.
Requeued(r, defer) ==
  [r EXCEPT !.status = "queued", !.claim = NoClaim, !.age = Fresh,
            !.runtime = "none", !.deferred = defer, !.kept = FALSE]

-------------------------------------------------------------------------------
\* Time: started_at grows older, and a claimable_after passes.
Age(j) ==
  /\ row[j].status = "running"
  /\ row[j].age < PastStale
  /\ row' = [row EXCEPT ![j].age = @ + 1]
  /\ UNCHANGED <<issued, submitted>>

BecomeClaimable(j) ==
  /\ row[j].deferred
  /\ row' = [row EXCEPT ![j].deferred = FALSE]
  /\ UNCHANGED <<issued, submitted>>
===============================================================================
