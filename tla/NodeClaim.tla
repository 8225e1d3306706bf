------------------------------- MODULE NodeClaim -------------------------------
(* Node mode: worker nodes that hold no database credentials take jobs from the *)
(* ingress over HTTP and report on them the same way.  The module joins the     *)
(* ingress routes (node_claim.py), the sweeps that run beside them              *)
(* (node_reclaim.py) and the node's end of the wire (http_store.py).            *)
(*                                                                              *)
(* One claim request takes several store calls: it claims a row, stamps the     *)
(* claim id with the node prefix, reads the row back, judges it against the     *)
(* node's grants, and puts back what it refused.  The ingress may die between   *)
(* any two of them, the answer may be lost, and the node may restart.           *)
(* Engine, tier and credential grants are abstracted to the set of jobs they    *)
(* allow a node to run.                                                         *)
EXTENDS Naturals, FiniteSets, SequencesExt

CONSTANTS
  Nodes, NJobs,
  NClaims,      \* bound on the claim ids in circulation
  Slots,        \* jobs a node works on at a time
  MaxProbes,    \* _MAX_CLAIM_PROBES
  MaxSkips,     \* _MAX_CLAIM_SKIPS
  MaxTracked,   \* _MAX_TRACKED_CLAIMS
  MaxListed,    \* _MAX_UNRUNNABLE
  MaxMemo,      \* the limit of _RefusalMemo
  MaxFaults,    \* bound on crashes, lost answers, releases, expiries, regrants
  QueuedAgeCap, \* BLASTBOX_MAX_QUEUED_AGE_S is set
  Granted,      \* [Nodes -> SUBSET Jobs]: what each certificate allows at first
  Regranted     \* the same after the operator re-issued the certificates

VARIABLES
  nrow,         \* the job rows
  nspool,       \* jobs whose input is spooled under job_root
  grants,       \* what the certificates in the PKI directory allow
  memo,         \* _RefusalMemo: <<node, its grants, job>>, oldest first
  unrunnable,   \* _UnrunnableSet: the generation it is about, and the jobs
  creq,         \* the claim request the ingress is serving for a node
  seen,         \* the listed row the sweeper is about to act on
  session,      \* nodes with a session token that the ingress accepts
  tracked,      \* _claims of the node's store: <<job, claim>>, oldest first
  settled,      \* _settled of the node's store
  work,         \* the <<job, claim>> pairs a node's dispatcher is running
  wire,         \* settlements between a node and the ingress
  faults

nodeVars == <<nrow, nspool, grants, memo, unrunnable, creq, seen, session,
              tracked, settled, work, wire, faults>>
ingressVars == <<memo, unrunnable, creq>>
clientVars == <<session, tracked, settled, work, wire>>

NodeJobs == 1..NJobs
Claims == 1..NClaims
None == 0

Idle == [pc |-> "idle", job |-> None, claim |-> None, skipped |-> {},
         probes |-> 0, skips |-> 0]

\* The sweeper is between two rows.
Nothing == [job |-> None, claim |-> None]

\* A generation no fleet has: nothing was listed yet.
NoneListed == [gen |-> [n \in Nodes |-> {None}], ids |-> {}]

\* stamped: the claim id carries NODE_CLAIM_PREFIX.
\* deferred: claimable_after lies in the future.
\* created_at and started_at are left out: what depends on them (whether a job
\* is past a deadline or a cutoff) is decided where it is read.
Submitted == [status |-> "queued", claim |-> None, stamped |-> FALSE,
              deferred |-> FALSE]

NodeInit ==
  /\ nrow = [j \in NodeJobs |-> Submitted]
  /\ nspool = NodeJobs
  /\ grants = Granted
  /\ memo = <<>>
  /\ unrunnable = NoneListed
  /\ creq = [n \in Nodes |-> Idle]
  /\ seen = Nothing
  /\ session = Nodes
  /\ tracked = [n \in Nodes |-> <<>>]
  /\ settled = [n \in Nodes |-> {}]
  /\ work = [n \in Nodes |-> {}]
  /\ wire = {}
  /\ faults = 0

Fault == faults < MaxFaults /\ faults' = faults + 1

\* uuid4: an id that is nowhere in the system.
Circulating ==
  {nrow[j].claim : j \in NodeJobs}
  \cup {p[2] : p \in UNION {work[n] : n \in Nodes}}
  \cup {p[2] : p \in UNION {Range(tracked[n]) : n \in Nodes}}
  \cup {w.claim : w \in wire} \cup {seen.claim}
  \cup {creq[n].claim : n \in Nodes}
  \cup {p[2] : p \in UNION {creq[n].skipped : n \in Nodes}}
FreshClaim == CHOOSE c \in Claims \ Circulating : TRUE

\* The row still runs under claim c, stamped or not as the caller knows it.
Holds(j, c, st) ==
  nrow[j].status = "running" /\ nrow[j].claim = c /\ nrow[j].stamped = st

-------------------------------------------------------------------------------
\* Sessions.  A request with a token the ingress does not accept gets a 401, and
\* the node shakes hands once more before it repeats the request.

Handshake(n) ==
  /\ n \notin session
  /\ session' = session \cup {n}
  /\ UNCHANGED <<nrow, nspool, grants, ingressVars, seen, tracked, settled, work,
                 wire, faults>>

SessionExpires(n) ==
  /\ n \in session /\ Fault
  /\ session' = session \ {n}
  /\ UNCHANGED <<nrow, nspool, grants, ingressVars, seen, tracked, settled, work,
                 wire>>

\* The operator re-issues certificates: the cached grants follow at once, since
\* the signature of the PKI directory is part of the cache key.
Regrant ==
  /\ grants # Regranted /\ Fault
  /\ grants' = Regranted
  /\ UNCHANGED <<nrow, nspool, ingressVars, seen, clientVars>>

-------------------------------------------------------------------------------
\* POST /v1/nodes/claim

\* _UnrunnableSet.current: a new generation of grants empties the set.
UnrunnableNow == IF unrunnable.gen = grants THEN unrunnable.ids ELSE {}

\* _RefusalMemo.remembered_for: keyed by the node and its present grants.
RememberedFor(n) == {j \in NodeJobs : <<n, grants[n], j>> \in Range(memo)}

\* _RefusalMemo.remember: over the limit, the older half of the limit goes.
Remember(n, j) ==
  LET m == Append(SelectSeq(memo, LAMBDA e : e # <<n, grants[n], j>>),
                  <<n, grants[n], j>>)
  IN  IF Len(m) > MaxMemo THEN SubSeq(m, (MaxMemo \div 2) + 1, Len(m)) ELSE m

\* A node with a free slot asks for work.
ClaimRequest(n) ==
  /\ creq[n].pc = "idle"
  /\ n \in session
  /\ Cardinality(work[n]) < Slots
  /\ grants[n] # {}
  /\ creq' = [creq EXCEPT ![n].pc = "probe"]
  /\ UNCHANGED <<nrow, nspool, grants, memo, unrunnable, seen, clientVars, faults>>

\* claim_next takes the oldest queued row that is neither deferred nor excluded.
Probe(n) ==
  LET excluded == UnrunnableNow \cup RememberedFor(n)
      eligible == {j \in NodeJobs \ excluded :
                     nrow[j].status = "queued" /\ ~nrow[j].deferred}
      more == creq[n].probes < MaxProbes /\ creq[n].skips < MaxSkips
  IN
  /\ creq[n].pc = "probe"
  /\ unrunnable' = [gen |-> grants, ids |-> UnrunnableNow]
  /\ \/ /\ more /\ eligible # {} /\ Claims \ Circulating # {}
        /\ LET j == CHOOSE i \in eligible : \A k \in eligible : i <= k
               c == FreshClaim
           IN  /\ nrow' = [nrow EXCEPT ![j] = [@ EXCEPT !.status = "running",
                             !.claim = c, !.stamped = FALSE]]
               /\ creq' = [creq EXCEPT ![n] = [@ EXCEPT !.pc = "stamp",
                             !.job = j, !.claim = c]]
     \/ /\ ~(more /\ eligible # {})
        /\ creq' = [creq EXCEPT ![n] = [@ EXCEPT !.pc = "release",
                      !.job = None, !.claim = None]]
        /\ UNCHANGED nrow
  /\ UNCHANGED <<nspool, grants, memo, seen, clientVars, faults>>

\* The compare-and-set that puts the prefix on the claim id.
Stamp(n) ==
  LET j == creq[n].job
      mine == Holds(j, creq[n].claim, FALSE)
  IN
  /\ creq[n].pc = "stamp"
  /\ nrow' = IF mine THEN [nrow EXCEPT ![j].stamped = TRUE] ELSE nrow
  /\ creq' = [creq EXCEPT ![n] = IF mine THEN [creq[n] EXCEPT !.pc = "vet"]
                ELSE [creq[n] EXCEPT !.pc = "probe", !.probes = @ + 1]]
  /\ UNCHANGED <<nspool, grants, memo, unrunnable, seen, clientVars, faults>>

\* Seeded fault: _fleet_verdict asks only the node that was refused.
FleetVerdictOfOne(n, j) == j \in grants[n]

\* _fleet_verdict: some enrolled node may run the job.
FleetVerdict(n, j) == \E m \in Nodes : j \in grants[m]

\* _UnrunnableSet.note, under the generation the verdict was given for.
NoteUnrunnable(j) ==
  IF unrunnable.gen # grants \/ Cardinality(unrunnable.ids) >= MaxListed
  THEN unrunnable
  ELSE [unrunnable EXCEPT !.ids = @ \cup {j}]

\* The row is read back and judged: handed over, skipped because this node was
\* refused it before, or refused now.
Vet(n) ==
  LET j == creq[n].job
      c == creq[n].claim
      again == [creq[n] EXCEPT !.pc = "probe"]
  IN
  /\ creq[n].pc = "vet"
  /\ \/ /\ ~(nrow[j].claim = c /\ nrow[j].stamped)
        /\ creq' = [creq EXCEPT ![n] = [again EXCEPT !.probes = @ + 1]]
        /\ UNCHANGED <<memo, unrunnable>>
     \/ /\ nrow[j].claim = c /\ nrow[j].stamped /\ j \in RememberedFor(n)
        /\ creq' = [creq EXCEPT ![n] = [again EXCEPT !.skips = @ + 1,
                      !.skipped = @ \cup {<<j, c>>}]]
        /\ UNCHANGED <<memo, unrunnable>>
     \/ /\ nrow[j].claim = c /\ nrow[j].stamped /\ j \notin RememberedFor(n)
        /\ j \in grants[n]
        /\ creq' = [creq EXCEPT ![n] = [@ EXCEPT !.pc = "release"]]
        /\ UNCHANGED <<memo, unrunnable>>
     \/ /\ nrow[j].claim = c /\ nrow[j].stamped /\ j \notin RememberedFor(n)
        /\ j \notin grants[n]
        /\ creq' = [creq EXCEPT ![n] = [again EXCEPT !.probes = @ + 1,
                      !.skipped = @ \cup {<<j, c>>}]]
        /\ memo' = Remember(n, j)
        /\ unrunnable' = IF FleetVerdict(n, j) THEN unrunnable ELSE NoteUnrunnable(j)
  /\ UNCHANGED <<nrow, nspool, grants, seen, clientVars, faults>>

\* QUEUED again with the claim cleared.
Requeued(r, defer) == [r EXCEPT !.status = "queued", !.claim = None,
                                !.stamped = FALSE, !.deferred = defer]

\* _release, for one refused job: _defer_until stops deferring a job that is
\* older than MAX_TOTAL_DEFERRAL_S.  A failing store call is swallowed.
Release(n) ==
  \E p \in creq[n].skipped :
    /\ creq[n].pc = "release"
    /\ \/ /\ \E defer \in BOOLEAN :
               nrow' = IF Holds(p[1], p[2], TRUE)
                       THEN [nrow EXCEPT ![p[1]] = Requeued(@, defer)] ELSE nrow
          /\ UNCHANGED faults
       \/ Fault /\ UNCHANGED nrow
    /\ creq' = [creq EXCEPT ![n].skipped = @ \ {p}]
    /\ UNCHANGED <<nspool, grants, memo, unrunnable, seen, clientVars>>

\* What a node's store tracks without the entry of a job: one job, one entry.
Without(tr, j) ==
  LET at == {i \in DOMAIN tr : tr[i][1] = j}
  IN  IF at = {} THEN tr ELSE RemoveAt(tr, CHOOSE i \in at : TRUE)

\* Node side, _record_claim: a new claim of a job replaces the older one, and the
\* older one's settled mark goes with it.
RecordClaim(n, j, c) ==
  /\ tracked' = [tracked EXCEPT ![n] = Append(Without(@, j), <<j, c>>)]
  /\ settled' = [settled EXCEPT ![n] = @ \ {j}]

\* The answer reaches the node, which starts the job, or it is lost.
AnswerClaim(n) ==
  LET j == creq[n].job
      c == creq[n].claim
  IN
  /\ creq[n].pc = "release" /\ creq[n].skipped = {}
  /\ creq' = [creq EXCEPT ![n] = Idle]
  /\ \/ /\ j = None
        /\ UNCHANGED <<tracked, settled, work, faults>>
     \/ /\ j # None
        /\ RecordClaim(n, j, c)
        /\ work' = [work EXCEPT ![n] = @ \cup {<<j, c>>}]
        /\ UNCHANGED faults
     \/ /\ j # None /\ Fault
        /\ UNCHANGED <<tracked, settled, work>>
  /\ UNCHANGED <<nrow, nspool, grants, memo, unrunnable, seen, session, wire>>

\* The ingress dies while it serves a claim.  In the two store calls between
\* claim_next and the stamp the row would be left without the prefix, which no
\* sweep of this ingress looks at: that window is left out here.
IngressCrash(n) ==
  /\ creq[n].pc \in {"probe", "vet", "release"} /\ Fault
  /\ creq' = [creq EXCEPT ![n] = Idle]
  /\ memo' = <<>>
  /\ unrunnable' = NoneListed
  /\ seen' = Nothing
  /\ UNCHANGED <<nrow, nspool, grants, clientVars>>

-------------------------------------------------------------------------------
\* The node reports.

\* The receipt the store holds for a job, None if it holds none.
ReceiptFor(n, j) ==
  LET ps == {p \in Range(tracked[n]) : p[1] = j}
  IN  IF ps = {} THEN None ELSE (CHOOSE p \in ps : TRUE)[2]

\* update_if_status(j, RUNNING, expect_claim_id = c, status = to): without a
\* receipt the write raises and the job is left to the reclaim; with the receipt
\* of a later claim it is refused locally.
Settle(n, p, to) ==
  /\ p \in work[n]
  /\ n \in session
  /\ \A w \in wire : <<w.job, w.claim>> # p
  /\ to = "queued" => faults < MaxFaults
  /\ faults' = IF to = "queued" THEN faults + 1 ELSE faults
  /\ IF ReceiptFor(n, p[1]) # p[2]
     THEN work' = [work EXCEPT ![n] = @ \ {p}] /\ UNCHANGED wire
     ELSE /\ wire' = wire \cup {[node |-> n, job |-> p[1], claim |-> p[2],
                                 to |-> to, answer |-> "none"]}
          /\ UNCHANGED work
  /\ UNCHANGED <<nrow, nspool, grants, ingressVars, seen, session, tracked, settled>>

\* _owned_job (the claim, its receipt and a grant that still stands) and the
\* compare-and-set that follows.
Owned(w) == Holds(w.job, w.claim, TRUE) /\ w.job \in grants[w.node]

\* POST /v1/nodes/jobs/{id}: vetted, applied or refused (403, 409).  A release
\* clears the claim and is deferred; an outcome keeps the claim on the row.
UpdateJob(w) ==
  /\ w.answer = "none"
  /\ nrow' = IF ~Owned(w) THEN nrow
             ELSE [nrow EXCEPT ![w.job] =
                     IF w.to = "queued" THEN Requeued(@, TRUE)
                     ELSE [@ EXCEPT !.status = w.to]]
  /\ wire' = (wire \ {w}) \cup {[w EXCEPT !.answer = IF Owned(w) THEN "ok" ELSE "no"]}
  /\ UNCHANGED <<nspool, grants, ingressVars, seen, session, tracked, settled, work,
                 faults>>

\* Seeded fault: the mark is set whichever claim the store tracks by now.
MarkAny(n, w) == settled[n] \cup {w.job}

\* _mark_settled: only if the job's tracked claim is still the one that was sent.
MarkSettled(n, w) ==
  IF <<w.job, w.claim>> \in Range(tracked[n]) THEN settled[n] \cup {w.job}
  ELSE settled[n]

\* _evict_locked, one round of its loop: the oldest settled entry, else the oldest.
EvictOne(tr, done) ==
  LET old == {i \in DOMAIN tr : tr[i][1] \in done}
  IN  RemoveAt(tr, IF old = {} THEN 1 ELSE CHOOSE k \in old : \A l \in old : k <= l)

\* The whole loop, for every entry too many.
Evict(tr, done) ==
  LET after[k \in Nat] == IF k = 0 THEN tr ELSE EvictOne(after[k - 1], done)
  IN  IF Len(tr) <= MaxTracked THEN tr ELSE after[Len(tr) - MaxTracked]

\* The answer to a settlement reaches the thread that sent it.
Answered(w) ==
  LET n == w.node
      marked == MarkSettled(n, w)
      kept == Evict(tracked[n], marked)
  IN
  /\ w.answer # "none"
  /\ wire' = wire \ {w}
  /\ work' = [work EXCEPT ![n] = @ \ {<<w.job, w.claim>>}]
  /\ \/ /\ w.answer = "ok"
        /\ tracked' = [tracked EXCEPT ![n] = kept]
        /\ settled' = [settled EXCEPT ![n] = marked \cap {p[1] : p \in Range(kept)}]
     \/ w.answer = "no" /\ UNCHANGED <<tracked, settled>>
  /\ UNCHANGED <<nrow, nspool, grants, ingressVars, seen, session, faults>>

\* The answer is lost; the dispatcher may report again or give the job up.
AnswerLost(w) ==
  /\ w.answer # "none" /\ Fault
  /\ wire' = wire \ {w}
  /\ \/ UNCHANGED work
     \/ work' = [work EXCEPT ![w.node] = @ \ {<<w.job, w.claim>>}]
  /\ UNCHANGED <<nrow, nspool, grants, ingressVars, seen, session, tracked, settled>>

\* A restarted node remembers none of its claims.
NodeRestart(n) ==
  /\ Fault
  /\ session' = session \ {n}
  /\ tracked' = [tracked EXCEPT ![n] = <<>>]
  /\ settled' = [settled EXCEPT ![n] = {}]
  /\ work' = [work EXCEPT ![n] = {}]
  /\ wire' = {w \in wire : w.node # n \/ w.answer = "none"}
  /\ UNCHANGED <<nrow, nspool, grants, ingressVars, seen>>

-------------------------------------------------------------------------------
\* The sweeps beside the routes; flock elects one sweeper per host.

\* list(QUEUED), and a job in it that is past the deadline and not deferred.
ListQueued(j) ==
  /\ QueuedAgeCap
  /\ seen = Nothing
  /\ nrow[j].status = "queued" /\ ~nrow[j].deferred
  /\ seen' = [job |-> j, claim |-> None]
  /\ UNCHANGED <<nrow, nspool, grants, ingressVars, clientVars, faults>>

\* list(RUNNING), and a job in it with a prefixed claim past the cutoff.
ListRunning(j) ==
  /\ seen = Nothing
  /\ nrow[j].status = "running" /\ nrow[j].stamped
  /\ seen' = [job |-> j, claim |-> nrow[j].claim]
  /\ UNCHANGED <<nrow, nspool, grants, ingressVars, clientVars, faults>>

\* Seeded fault: the queued sweep writes without comparing the status.
FailListed ==
  /\ seen # Nothing /\ seen.claim = None
  /\ seen' = Nothing
  /\ nrow' = [nrow EXCEPT ![seen.job].status = "failed"]
  /\ nspool' = nspool \ {seen.job}
  /\ UNCHANGED <<grants, ingressVars, clientVars, faults>>

\* fail_stale_queued: the compare-and-set, then the input goes.
FailStaleQueued ==
  /\ seen # Nothing /\ seen.claim = None
  /\ seen' = Nothing
  /\ IF nrow[seen.job].status = "queued"
     THEN /\ nrow' = [nrow EXCEPT ![seen.job].status = "failed"]
          /\ nspool' = nspool \ {seen.job}
     ELSE UNCHANGED <<nrow, nspool>>
  /\ UNCHANGED <<grants, ingressVars, clientVars, faults>>

\* reclaim_stale_claims: failed under its claim, never queued again.
Reclaim ==
  /\ seen.claim # None
  /\ seen' = Nothing
  /\ nrow' = IF Holds(seen.job, seen.claim, TRUE)
             THEN [nrow EXCEPT ![seen.job].status = "failed"] ELSE nrow
  /\ UNCHANGED <<nspool, grants, ingressVars, clientVars, faults>>

\* The time of claimable_after comes.
DeferralPasses(j) ==
  /\ nrow[j].status = "queued" /\ nrow[j].deferred
  /\ nrow' = [nrow EXCEPT ![j].deferred = FALSE]
  /\ UNCHANGED <<nspool, grants, ingressVars, seen, clientVars, faults>>

-------------------------------------------------------------------------------
ServeClaim(n) == Probe(n) \/ Stamp(n) \/ Vet(n) \/ Release(n) \/ AnswerClaim(n)
Sweep == FailStaleQueued \/ Reclaim

NodeNext ==
  \/ \E n \in Nodes :
       \/ Handshake(n) \/ SessionExpires(n) \/ ClaimRequest(n) \/ ServeClaim(n)
       \/ IngressCrash(n) \/ NodeRestart(n)
       \/ \E p \in work[n], to \in {"done", "failed", "queued"} : Settle(n, p, to)
  \/ \E w \in wire : UpdateJob(w) \/ Answered(w) \/ AnswerLost(w)
  \/ Regrant
  \/ Sweep
  \/ \E j \in NodeJobs : ListQueued(j) \/ ListRunning(j) \/ DeferralPasses(j)

\* Nodes poll while they have a slot free, requests are served, dispatchers
\* report on what they ran, deferrals pass, and the sweeps run on a timer.
Reports(n) == \E p \in work[n], to \in {"done", "failed"} : Settle(n, p, to)
ReportArrives == \E w \in wire : UpdateJob(w)
AnswerArrives == \E w \in wire : Answered(w)

NodeFairness ==
  /\ \A n \in Nodes :
       /\ WF_nodeVars(Handshake(n)) /\ WF_nodeVars(ClaimRequest(n))
       /\ WF_nodeVars(ServeClaim(n)) /\ WF_nodeVars(Reports(n))
  /\ WF_nodeVars(ReportArrives) /\ WF_nodeVars(AnswerArrives) /\ WF_nodeVars(Sweep)
  /\ \A j \in NodeJobs : SF_nodeVars(ListRunning(j)) /\ WF_nodeVars(DeferralPasses(j))

NodeSpec == NodeInit /\ [][NodeNext]_nodeVars /\ NodeFairness

-------------------------------------------------------------------------------
\* Properties

\* The store evicts settled receipts first, so a job marked settled must not be
\* running: the mark set by a late answer to an earlier claim of the same job
\* (_mark_settled, _record_claim) would give up the receipt of live work.
SettledIsSettled ==
  \A n \in Nodes : \A p \in Range(tracked[n]) :
    p[1] \in settled[n] => ~Holds(p[1], p[2], TRUE)

\* An outcome stands: neither a node's late report nor a sweep that works from
\* an old listing changes a finished row, and the input of a job goes only with
\* a job that is finished (update_job, fail_stale_queued, reclaim_stale_claims).
OutcomeStands ==
  \A j \in NodeJobs :
    /\ nrow[j].status \in {"done", "failed"} => nrow'[j] = nrow[j]
    /\ j \notin nspool' => nrow'[j].status = "failed"

\* Whatever is lost on the way (the answer to a claim, the node, the ingress, a
\* release that failed), a claim that carries the node prefix does not hold its
\* job for ever: the job is reported on, released, or failed by the reclaim.
Unclaimed(j) == ~(nrow[j].status = "running" /\ nrow[j].stamped)

\* A job that a node may run is not lost behind the refusals of the other nodes:
\* the memo, the fleet-wide exclusion and the deferrals let it through to that
\* node (claim, _release), unless the operator's deadline fails it first.
TakenOrEnded(j) ==
  \/ nrow[j].status \in {"done", "failed"}
  \/ \E n \in Nodes : j \in {p[1] : p \in work[n]}
  \/ ~\E n \in Nodes : j \in grants[n]
===============================================================================
