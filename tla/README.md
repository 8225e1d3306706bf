# blastbox: a TLA+ model of the system

blastbox detonates untrusted files in disposable workers. An ingress accepts a
sample, a job store queues it, dispatchers claim it and run it in a container, a
warm slot or a remote machine, a blob store keeps the sealed result, and sweeps
recover what crashed or failed owners left behind. Around that core stand the
runtimes that make workers, the links and network policy that contain them, and
the tools that prepare images. Hardly any of it is held together by one lock:
compare-and-set on a row, journals, leases, file locks, timers and the order of
commands do it. This project models these protocols, checks them with TLC and
proves with TLAPS the central facts of the dispatchers and their sweeps, of the warm
pool and the tiers behind it, of node claims, of receipts and stored results, and of
the workers' protocol, images and guests.

Paths below are relative to `src/src/blastbox/`.

## 1. Inventory

| Component | State | Operations | What is hard |
|---|---|---|---|
| Job store (`host/jobs/{base,memory,sql_store,redis_store}.py`) | one row per job: status, claim id, started_at, worker_runtime, fetch attempts, claimable_after, expires_at | create, get, list, update_if_status, claim_next, delete | snapshots are stale when used; some writes are fenced on status and claim, some on status alone |
| Dispatcher and maintenance (`host/dispatch.py`) | thread-local job, gate permits, `_retained_cold_orphans`, `_upload_failed_job_ids` | dispatch_once, `_dispatch_warm`, `_dispatch_inner`, `_upload_output`, the orphan and stale sweeps | an owner that lost its claim keeps running; every exit path cleans up exactly what it owns |
| Gate and sizing (`host/concurrency_gate.py`, `dispatcher_sizer.py`, `node_share.py`, `node_sizer.py`) | permits, one demand file per dispatcher | acquire, release, set_limit, tick, stop | no coordinator: each plans from files of different ages |
| Job tree and retention (`host/jobs/retention.py`) | staged input, output directory, markers, expires_at | retry_pending_uploads, reap_stale_scratch, JobRetentionSweeper, the legacy passes | races with repair, expiry and DELETE on other hosts |
| Blob store (`host/blobs/*`, `host/canary.py`) | `samples/<sha>`, `results/<job>`, seal last; versions on S3; the registry of targets | put, get, delete, boot check | uploads and deletions fail half-way; overwritten versions come back |
| Ingress and receipts (`host/ingress/app.py`, `host/attest.py`, `client/verify.py`) | none of its own | submit, read, DELETE, attestation | four reads of a tree that is being rewritten |
| Node mode (`host/ingress/node_claim.py`, `node_reclaim.py`, `host/jobs/http_store.py`) | node claims, tracked receipts, refusal memo | claim, settle, reclaim | lost answers, late settlement, refusals that hide a job |
| Warm pool (`host/pool.py`) | slots, `_reaping`, deferred queues, ceiling; failure counts and generations per base | claim, release, tick, resize, stop; rebuild | four kinds of threads dispose of slots; evidence that is stale when judged |
| Warm protocol (`worker/warm.py`, `fc_warm.py`, `fc_guest.py`) and agent (`worker/http_agent.py`) | control files, frames, acknowledgements; the running child | READY, GO, STARTED, DONE; retire | timeouts against late answers; signal handlers |
| Network-endpoint dispatcher (`host/runtime/vm_dispatch.py`, `remote_http.py`) | rows, job directory, slot, validation thread | claim, validate with heartbeat, publish, finally, sweep | the validation thread cannot be stopped |
| Remote and VM runtimes (`aws_worker.py`, `cascade.py`, `static_pool.py`, `libvirt_*.py`) | instances, tiers and their counts, addresses and rules | spawn, park, resume, claim, reap, admit | cloud calls that act and answer nothing |
| Snapshots (`fc_snapshot*.py`, `gvisor_snapshot*.py`, `snapshot_backend.py`, `rootfs_stamp.py`) | base, staged and retired artifacts, generations, leases | build, refresh, restore, sweep | files in use by machines of other processes |
| Worker link (`worker/link.py`, `host/worker_link*.py`) | WireGuard and firewall configuration, units, watchdog | join, leave, reassert; init, add, remove, teardown | a reboot or a kill between any two commands |
| Network policy (`netd.py`, `egress.py`, `egress_apply.py`) | routes, rules, captures, chains | docker events, reconcile; apply, teardown, timer | rules change under live traffic |
| Images and pins (`imagerun.py`, `pins.py`) | tags, artifacts, lock files | publish with rollback; set, audit | many files or tags, one outcome |
| Worker sandboxes (`worker/sandbox/*`) | slots, locks, journals, processes | run, copy back, recover, sweep | pids that are reused; several agents on one host |
| PKI, node identity, contract, engines, CLI, observability | files | sequential code | not modelled, section 6 |

How they interact: the ingress spools the upload into its `job_root`, stores the
sample and creates the row. A dispatcher thread (or the ingress on behalf of a
node, or the dispatcher of the network-endpoint tiers) claims the row and from
then on identifies itself by the claim id only. It takes a slot of the pool, whose
runtime made the worker and whose base may be a snapshot, hands the job over by
the warm protocol or an HTTP request, and stores the result before the row says
DONE. When the upload fails, the tree on the node is marked and becomes the only
copy; the retry sweep uploads it later. Sweeps run on the maintenance thread of
every dispatcher and on every ingress host, against the same rows and blobs. The
sizer divides the node among its dispatchers. netd and the egress tier carry a
worker's traffic, the link carries a remote worker's.

## 2. Modules

### The job protocol

| Module | Models |
|---|---|
| `JobStore` | the row and the atomic store operations |
| `JobLifecycle` | abstract specification: the status changes a client may see, and under which claim |
| `Dispatch` | dispatch threads, job trees, containers, gate, uploads, maintenance sweeps, crashes; EXTENDS `JobStore`; implements `JobLifecycle` |
| `Retention` | upload retry, scratch reclaim, expiry and DELETE beside the running dispatcher; EXTENDS `Dispatch`; implements `JobLifecycle` |
| `VmDispatch` | the dispatcher of the network-endpoint tiers; EXTENDS `JobStore`; implements `JobLifecycle` |
| `NodeClaim` | node-mode claims over HTTP and the two sweeps beside them |
| `Pool` | the warm pool: dispatch threads, the tick, reapers, resize and stop() over shared slots |
| `DispatchProofs` | theorems about `Dispatch`: with owners of any speed, with prompt ones, before the first crash, and for a result kept on the worker |
| `RetentionProofs` | theorems about `Retention` |
| `PoolProofs` | theorems about `Pool` and, last, about `BaseRebuild` |
| `NodeClaimProofs` | theorems about `NodeClaim` and, after them, about `Hibernate` and `Generations` |
| `VmProofs` | theorems about `VmDispatch` and, last, about `GuestGate` |

A step is one access to shared state: one store call, one blob call, one change
of a job tree, one docker call. Where the code reads in one call and acts in
another (`_claim_is_still_ours` then `delete_job`; `get` then `unlink`; `list`
then `update_if_status`), the model has two steps, and anything may happen in
between. `finally` blocks are steps of their own that every exit path reaches.

State of `Dispatch` and what it stands for: `row` the store; `th[t]` a dispatch
thread with the snapshot `claim_next` gave it; `mt[n]` the maintenance thread;
`disk[n][j]` the job tree on node n, with the claim its output directory was made
for; `box[n][j]` the worker container and the claim it was launched for (its name
is made from the job id, so there is at most one per job and node); `blob[j]` the
attempt whose body and whose seal are stored; `permits`, `orphans` and `upfail`
the process's gate count, `_retained_cold_orphans` and `_upload_failed_job_ids`;
`published` observes which uploads were acknowledged. A crash empties what is in
memory and leaves row, disk, containers and blobs.

Abstractions. Claim ids are numbers instead of uuids, fresh on every claim. Ages
are three classes, cut by the two cutoffs of the sweep. Bytes are named by the
claim of the attempt that made them. Which jobs a thread may claim is a constant.
A warm slot is granted or not; the pool behind it is a module of its own.
Content-addressed samples are always there but may fail to be fetched.

In `VmDispatch`, `w[x]` is a worker thread, `val[c]` the validation thread of the
attempt under claim c, which lives on when the worker thread gave it up,
`dir[h][j]` the job directory of a host with its marker, and `exhausted` observes
attempts whose last word the store did not take. In `NodeClaim`, `creq[n]` is the
claim request inside the ingress, `wire` the messages under way, `tracked[n]` and
`settled[n]` the two tables of `HttpJobStore`, `memo` and `unrunnable` what the
ingress remembers of refusals, and `seen` the listing a sweep works from.

In `Pool` a step is one critical section of the pool's lock with the runtime call
before it; probes, spawns and reaps happen between two sections. `slot[s]` is a
slot and the worker behind it ("born": spawned but not in `_slots`; "out": in
nobody's books, so the id may stand for a new slot once nobody refers to it);
`reaping`, `deferred`, `held`, `suspected`, `tries` are `_reaping`,
`_deferred_reap`, `_deferred_reap_next`, `_suspected_unknown` and
`_maintain_reap_tries`; `cl`, `tk`, `rp` and `stop` are the dispatch threads, the
thread inside `tick`, the reapers and the thread in `stop()`; `inflight` is
`_spawns_in_flight`. A probe answers the truth or nothing. What depends on clocks
and counts is a choice: whether a grace period or a warming timeout is over,
whether the eviction budget or the token bucket refuses, whether a slot has burned
out.

### Stores, receipts and releases

| Module | Models | Its state |
|---|---|---|
| `Receipts` | sealing and withholding of receipts, legacy passes, the route that serves them, the client that verifies | trees on disk and in the store file by file, the reader between its four reads, the re-marking pass between its three |
| `ResultStore` | DELETE and expiry over S3 pages and versions, against late writes and reads | versions of each key, the listing cursor and error set of each deletion, one reader |
| `StoreBoot` | canary round trip at boot and later, agreement on the blob target | canary objects, the registry row, the phase of each process |
| `StoreProofs` | theorems about these three | |
| `PinSet`, `PinLocks` | `pins --set` over files; the audit of a lock, checked against a declarative definition of what pip needs | file texts and the staged rewrite; the reader's stack, extras and work list |
| `ImagePublish` | build, stage, exchange, tags and rollback of several runs | live artifact, backup, tags, locks, each run's progress |

### Runtimes and workers

| Module | Models | Its state |
|---|---|---|
| `BaseRebuild` | how failures become the verdict to drop a base | counts, generations and versions per base; what each releasing thread has in hand |
| `WarmControl` | one job over the warm protocol, the ack capability of a base, and the charge | capability and its build epoch; guest, host and control files or frames of a slot |
| `HttpAgent` | the agent's job slot, cleanups, signals and retirement | where each thread is, the locks, children alive and registered |
| `Hibernate` | the hibernating EC2 worker against an API that may act without answering | the instance, the last description, the park's phase and clocks, when a stop was last asked, a claim and a reap |
| `MicroVm` | the microVM that suspends, and what host calls may conclude | the machine, its token, the caches, the evidence of a resume |
| `Cascade` | spawn over tiers, repair, late admission, shutdown | `_counts`, `_owner`, failures and guilt, the admission thread and what it owes |
| `StaticPool` | leases on configured boxes | `_free`, burned and cooling boxes, each spawn thread's probes |
| `LibvirtVm` | guests, addresses, rules, restart of the manager | per slot the domain, overlay, reservation and rules; running orphans |
| `TierProofs` | theorems about `StaticPool`, `Cascade`, `WarmControl` and `LibvirtVm` | |
| `Snapshot` | SnapshotManager with the pool's tick, spawn and reap around it | current, staged and retired bases, references, the builder, stamps |
| `Generations` | the directory several dispatchers share | leases, holders, generations, base and slot machines |
| `GuestGate` | check of the rootfs before boot, checkpoint and restore | identity of the published file, the cached verdict, each VM's drive |
| `CopyBack`, `AppSlots`, `Watchdog` | the macOS sandbox: copy-back journal; slots, bundles and prepare; the sweep of a run's processes | names in three places and the journal's phase; locks, leftovers and manifests; processes, pids and what was seen |

### The node

| Module | Models | Its state |
|---|---|---|
| `NodeSizer` | demand files, plans, resizes of pool and gate | published and read views per dispatcher, ceilings, warm slots, jobs |
| `LinkFirewall`, `LinkDarwin`, `LinkHost` | join, leave, timers and watchdog of a worker on Linux and on macOS; the hub | configurations, units, tables or anchors, live interfaces and peers, the command under way |
| `Netd` | capture, guard and wiring of each container, reconcile after a gap | event queue and stream, the tables of the daemon, kernel state per container and address |
| `EgressNode` | apply, teardown and the reconcile timer, command by command | routing rules, chain, tunnel, forwarder, the programs still to run |

In these modules a step is one command, one system call or one critical section,
and a fault set (`MaxFaults`, `Faults` and the like) names which of them may fail,
how often, and whether the process may die between two steps. External actors
(kernels, clouds, clocks, operators) are modelled from how the code uses them, as
the map in `PROJECT.json` marks. Text such as rules, argv and messages is
abstracted to what it makes the system do.

### Instances

`MCDispatch`, `MCRetention` and `MCPool` extend a module for TLC. `MCControl`,
`MCRuntimes` and `MCProgress` hold several components that share no state with each
other: each is a named instance with constants of its own, `focus` names the
component a behaviour is of and never changes, the component's variables live in the
registers `r1`, `r2`, ..., and unused registers stay 0. The state graph is the
disjoint union of the components' graphs, and every property is guarded by the focus
it is about. "budget" in `MCRuntimes` is `Dispatch` with two jobs and two permits
on a node that never crashes.
(`NodeSizer` alone is extended by `MCProgress`, because it tabulates its plans in a
constant that TLC then evaluates once.)

Three more scenarios of `Retention` live in `MCControl`. "retained" begins at
`RetentionInit`. "expiry" and "repair" begin later, at states the dispatcher
reaches: `JobEnded` is a thread in its last clean-up after its upload failed (the
body may be stored, the seal is not, the tree has its marker) or was acknowledged;
`AttemptDied` is a row left running by a process that died after it wrote the
marker. What follows is what the two properties are about, and the runs
`RetentionSweeps` and `RetentionStaleSeal` go there from `RetentionInit`.
Scenarios whose name ends in "all" or "lock" explore the faults
under which a property is known to fail (section 4); they show that the model
reaches those states, and no invariant is stated over them.

## 3. Runs

`SlowOwners = TRUE` lets a sweep judge an owner that is alive but slower than
every cutoff. That is the case the claim fence exists for, and the code gives no
stronger guarantee there than `DispatchFenced` states. With `FALSE` the cutoffs
are generous: a sweep finds a stale row without a container only when nobody
works under its claim, a deferral outlasts the clean-up of the thread that asked
for it, and the scratch age exceeds a job's run time. `StoreFaults` lets every
job-store call fail.

| Run | Question | Bounds |
|---|---|---|
| `DispatchFenced` | does the claim fence alone keep the life cycle, and DONE to acknowledged uploads? | 2 threads, 1 job, 2 claims, 1 fetch attempt, slow owners, store faults |
| `DispatchOwners` | does DONE serve its own result; are inputs safe from other owners? | 2 threads, 1 job, 3 claims, 2 fetch attempts, 1 crash, store faults |
| `DispatchLive` | do retained results survive a crash, do claims end, do permits come back? | 2 threads, 2 claims, 1 crash, fairness |
| `RetentionSweeps` | do repair, expiry and DELETE on two hosts leave DONE rows with results; is the last copy safe while the store and the undo fail? | 2 nodes, 1 claim, store faults, failing undo, `Home = n2` |
| `RetentionLive` | does a retained result reach the store; does an expiry finish although deletions fail half-way? | 1 crash, fairness |
| `PoolStop` | with stop() at any moment: is a held slot safe, is each worker in the books and disposed of by one thread at a time, is stop() final and its count sufficient? | 2 slots, 2 clients, 1 reaper, upkeep, burst, concurrent spawns |
| `PoolReuse` | does a job ever inherit a failed job's worker; does a spawn pass a ceiling lowered meanwhile? | 2 slots, 2 clients, 1 reaper, recycling, resizes at any moment |
| `PoolLive` | are condemned slots taken and is an empty pool refilled while a reaper hangs for ever? | 2 slots, 1 client, 2 reapers of which 1 hangs, fairness |
| `Control` | expired rows, markers of dead attempts, receipts, deletion, boot, node claims, network-endpoint dispatchers, static boxes, links, netd, egress, pins, images, parked machines, microVMs: the safety of each | below |
| `Runtimes` | permits and containers, the cascade, warm protocol, base rebuilds, snapshots, libvirt guests, macOS runs: the safety of each | below |
| `Progress` | do claims end, ceilings fit, bases and tiers recover, and half-done states of a host resolve? | below, fairness |
| `RetentionStaleSeal` | (expected to fail) is a repaired row's result its own? | 2 claims, 1 crash |

`Control`, `Runtimes` and `Progress` ask one question per property of several
components; what a property says of each, by the name of the module's operator:

| Property | Made of |
|---|---|
| `ServedResultsAreCurrent` | `Receipts!ServedIsHosts`; `ResultStore!` `NothingResurfaces`, `ReceiptStaysMasked`, `GoneMeansGone`, `ServedIsCurrent` |
| `StoreBootsExactly` | `StoreBoot!BootGateExact` |
| `OutcomesAreKept` | `NodeClaim!SettledIsSettled`; `VmDispatch!` `VmDoneServesItsResult`, `VmLastCopyKept`; `Retention!` `RetentionTypeOK`, `LastCopySafe` over a crash |
| `ImplementLifecycle` | `VmDispatch` and `Retention` refine `JobLifecycle` |
| `ExpiredLeavesNoResult` | `Retention!ExpiredLeavesNoResult`, from a job that has just ended, on two hosts |
| `RepairsItsOwnAttempt` | `Retention!RepairIsOwn`, from an attempt that died with its marker written, over the next claim |
| `BoxesConserved` | `StaticPool!BoxesConserved` |
| `LinksContained` | `LinkFirewall!` `LinkFiltered`, `BootsFiltered`; `LinkHost!` `FleetKeepsItsKey`, `PeersReconciled`; `LinkDarwin!OneTunnel` |
| `TrafficContained` | `Netd!` `RoutedThroughItsOwn`, `DoneMeansClosed`; `EgressNode!NoWanEscape` |
| `ReleasesAreWhole` | `PinSet!BumpWholeOrNothing`; `PinLocks!AuditExact`; `ImagePublish!` `TagsOfOneRun`, `PublicationStands` |
| `MachinesHeld` | `Hibernate!` `LeasedNotStopped`, `ParkClockHonest`, `ColdStopNotAdopted`, `ReapedIsForgotten`; `MicroVm!HealthyNeverCondemned` |
| `NoForbiddenStep` | `NodeClaim!OutcomeStands`; `StaticPool!NoEgressIsFleetWide`; `LinkDarwin!OthersUntouched` |
| `TiersAccounted` | `Cascade!` `TierRoomExact`, `TierAccountedFor` |
| `EvidenceDecides` | `WarmControl!ConvictsOnEvidence`; `BaseRebuild!DropIsEarned` |
| `BasesHeld` | `Snapshot!` `GenerationsHeld`, `StampNamesItsBase`; `Generations!InUseIsKept`; `GuestGate!ServesTheCheckedRootfs` |
| `ContainersAccounted` | `Dispatch!` `PermitsConserved`, `ContainersBudgeted`, `LiveTreeKept` |
| `RunsEndClean` | `LibvirtVm!GuestsContained`; `AppSlots!RunsAlone`; `Watchdog!RunEndsAlone`; `CopyBack!CopyBackWhole`; `HttpAgent!RetiresClean` |
| `ClaimsProgress` | `NodeClaim!` `TakenOrEnded`, `Unclaimed`; `VmDispatch!LetGo` |
| `CeilingsFit` | `NodeSizer!Fits`, for good from some point on |
| `TiersRecover` | `Cascade!DecidedOrClosing`; `Snapshot!` `HasBaseOrGaveUp`, `SweptOrUsed`; `Generations!DeadReclaimed` |
| `NodeRecovers` | `LinkFirewall!DownOrFiltered`; `LinkDarwin!EnforcedOrTold`; `Netd!` `WiredIfUp`, `AddressFreed`; `EgressNode!EnforcedOrLifted`; `CopyBack!Resolved`; `HttpAgent!EndsIfItMust` |

Likewise `PoolStop!SlotsAccounted` is `HeldSlotSafe`, `WorkersTracked`, `DisposedOnce`,
`StopIsFinal`, `StopCountsLive` and `OnlyReadyServe`.

### Why the bounds are enough to be interesting

Every property of the job protocol is about one job and the attempts made at it,
so two claims (a former and a present owner) reach each race, and the third claim
of `DispatchOwners` puts an owner between two others. A second job matters only
where jobs share something, which is the gate. A second node matters where one
host's tree or sweep meets another's: in `RetentionSweeps` and "expiry" `Home = n2`
makes n1 fetch its samples and gives the sweeper of the ingress host a process of its
own.
`MaxAttempts` of 2 allows one retry and one exhaustion. In the pool, two slots let
one be a husk or wedged in a reap while the other serves, two clients contend for
a slot, `MaxTries` of 2 gives a husk one retry, and a ceiling of 2 with resizes
down to 1 puts a spawn at the limit. `PoolReuse` resets every second job, so that
only the failure of a job makes the first reset necessary.

In the other modules the number of actors is the number the race needs: two nodes
with different certificates, two hosts over one job, two spawn threads for the
last place of a tier, two releases that judge one base, two processes over one
generation directory, two links or tunnels on one host, two containers that
follow each other on one address (a retry of the job included), two publications
of a chain, three agents over two slots. Thresholds are at their smallest value
that still distinguishes "once" from "enough" (`RebuildAfter`, `PreGuestAfter`,
`MaxAttempts`: 2). Fault budgets are one or two: one for "any single fault at any
point", two where the code claims to survive a fault during the recovery from
another (copy-backs, libvirt guests, link commands, publications). `MaxBuilds` of
3 lets a base be current, staged and retired at a time. In `Hibernate` three ticks, with
`CacheTime`, `Lag` and `CallTime` of one, hold an unanswered stop, its refused retry at the
first moment the throttle allows, and a claim after it. `PinLocks` is a pure
algorithm run to its end on every layout of three files and every small
dependency graph of `MCControl!Worlds`, and compared with what pip needs by
definition. `NodeSizer` runs over two dispatchers of different engines whose
floors and demands exceed three slots together, so that they have to agree.

`CHECK_DEADLOCK` is off because a system whose jobs are finished and whose budgets
of faults are used up has nothing left to do. `SYMMETRY` exchanges threads of one
process, or slots and clients, only in runs without liveness.

### Fairness

In `Dispatch` and `Retention`: weak on dispatch threads, since every wait in them
has a timeout; on containers, which the worker timeout or their own end stops; on a
sweep that has begun; in `Dispatch` also on clocks. Strong on the beginnings of a
maintenance pass, since the loop comes round to every job, and on `docker ps` and
on blob-store calls, which do not fail for ever. Nothing is assumed of `Submit`,
`Claim`, `Crash`, of clients, or of the expiry of a row: a retained result has to
be stored without it. In `Pool`: weak on the background thread, on jobs and on
reapers outside the runtime; a reaper in `Hanging` may stay in its reap for ever,
and `_reap_deferred` gives such a one up in the end, since it compares the clock
with the last progress; strong on a planned and on a successful spawn, since a
runtime that never spawns cannot refill anything.

In `Progress` each component has the fairness of its own module. The i-th fair
action of every component is one disjunct of `Fair`*i*; a behaviour is about one
component, so fairness of the disjunction is fairness of that action.

| Module | Assumed | Why |
|---|---|---|
| `NodeClaim` | weak: a node's handshake, claim request, work and report, the ingress serving it, delivery of a message that was not lost, the sweep, the end of a deferral; strong: the sweep's listing comes round to each running job | loops of node and ingress, with timeouts in every call |
| `VmDispatch` | weak: worker and validation threads, the clock, the sweeps and a peer's requeue | timeouts bound each call; the maintenance loop |
| `NodeSizer` | weak: each dispatcher's tick and its service (spawns, surplus, jobs that end, an expired file) | a timer thread each |
| `Cascade` | weak: an admission begins and goes on; strong: it decides in the end | `_admit_pending` is polled by every tick; a sweep tried for ever succeeds at last |
| `Snapshot`, `Generations` | weak: the tick, `ensure`, the build in the background; start and build of a process | the pool's background thread |
| `LinkFirewall`, `LinkDarwin` | weak: the reassertion timer; the watchdog and a command under way | systemd and launchd |
| `Netd` | weak: the daemon's loop | nothing of containers, docker or the dispatcher |
| `EgressNode` | weak: the reconcile timer, a program that runs, the return of the tunnel | systemd and wg-quick |
| `CopyBack` | weak: the writer; strong: each recoverer | workers start and stage again and again |
| `HttpAgent` | weak: each thread, the steps of a retirement, the hard-deadline timer | threads run; engines may hang |

Their liveness is stated as `[]<>P`: a state that may be left by the next fault or
the next job is reached again and again. It is not stated as "P in the end for
good" because new faults within the budget and new work may always come; once the
budgets are spent it amounts to that.

Each property of a passing run has a seeded fault (`PROJECT.json`, `mutants`),
defined just before the definition it replaces, which makes TLC report it
violated.

## 4. Where the code does less than its comments say

`RetentionStaleSeal` checks what a comment of the code says and finds it broken:
`has_output` does not say whose seal it found, and the retry repairs the row on
the strength of an earlier attempt's.

Assumptions of the passing runs are there because without them TLC reports further
limits, and some modules have a fault that only the scenarios without a property
switch on, or that no scenario does. They are described here.

Dispatcher and retention:

- `_upload_failed_job_ids` holds job ids (`host/dispatch.py:1843`). A former owner's
  purge may consume the flag the present owner has set, and the present owner's
  own purge then removes the only copy of the result: `KeptResultOnDisk` fails
  with two claims, a crash and store faults.
- `_upload_output` checks the claim and deletes the prefix in two calls
  (`host/dispatch.py:3295`); a peer's committed result may fall in between when the
  first owner is slow. A slow owner that lost its claim also still clears the output
  directory its successor writes to on the same host (`host/dispatch.py:2821`).
- `_retained_cold_orphans` has one entry per container name
  (`host/dispatch.py:1581`), so two unconfirmed kills of the same job retain two
  permits and give back one: `PermitsConserved` fails with two claims. It needs a
  slow owner or a store call that raises (else the first kill has ended the job), a
  limit of at least two, and a reconciliation that did not run, or could not ask
  docker, between the two.
- The reconciliation reads the claim on the row and then removes the tree
  (`host/dispatch.py:1861-1869`). If a store call raised when the orphaned job should
  have been failed, the sweep of another node may requeue it in between, and the input
  its next owner on this node has staged goes with the tree: `StagedInputSafe` needs
  that no store call fails, or one node.
- `docker ps` (`host/dispatch.py:1200`) shows the containers of its own host. On a
  fleet of docker hosts that share a store, the sweep of one judges the rows of
  another by their age alone.
- After a failed fetch `_materialise_sample` drops the input without the
  ownership check every other deletion has (`host/dispatch.py:3121`). With
  `Home = n2` and slow owners, `StagedInputSafe` does not hold.
- The undo of a late retry upload (`host/jobs/retention.py:681`) covers a complete
  upload under an expired row. One that failed half-way (`retention.py:690`) leaves
  its body files behind, and one that a DELETE overtook leaves a whole result
  without a row. `ExpiredLeavesNoResult` says what does hold. A crash, or a store
  that is down, between the upload and its undo has the same effect.
- A GET that read the row before a DELETE may serve an archive that lacks the files
  deleted meanwhile (`host/ingress/app.py:235`): it skips what it cannot open.

Node mode and network endpoints:

- An ingress that dies between `claim_next` and the stamp of the node prefix
  (`host/ingress/node_claim.py:788-799`) leaves a row that no node knows and that the
  node sweep does not select; only a dispatcher's sweep frees it.
- A requeue for lack of capacity gives the row back first
  (`host/runtime/vm_dispatch.py:918-929`) and purges the job directory afterwards
  (982). A second thread of the same host that claims the job in between loses the
  input it has staged there, against the comment in line 928 that the `finally` leaves the
  input alone. `VmDispatch` is therefore instantiated with one thread per host.

Warm pool, bases and snapshots:

- `stop()` calls `_reap_and_count` without `pop_on_success` (`host/pool.py:761`) and
  pops the slot one section later (766); a `release()` in between disposes of the
  worker again, although `_reap_and_count` promises that exactly one path does.
  `DisposedOnce` says what holds beside it.
- A slot that `stop()` has set to DRAINING while a claim was probing it is still
  handed out (`host/pool.py:2197`); `HeldSlotSafe` is about the time before `stop()`.
- A success on a slot of a retired base clears the identity's failure counts
  (`host/pool.py:997`, `1072`) without the generation guard that the lines below
  them (1073-1078) explain for the other tables.
- `_last_base_rebuild_idents` names the bases of the last repair only
  (`host/pool.py:3436`). A release that took the evidence against one base while it was
  being repaired, and comes to look at the cooldown after another base was repaired too,
  puts that evidence back (`host/pool.py:3146`, `3228`) although it is about the retired
  artifact, and one more failure may then condemn the fresh one. With several bases
  `DropIsEarned` therefore needs that two decisions in a row fit into one cooldown
  (`base_rebuild_cooldown_s`, 300 s by default, `host/pool.py:305`), which nothing in the
  code enforces; with `MaxRepair` of 1 and a `Cooldown` of 2 TLC finds the condemned base. A
  cooldown of 0 switches the comparison off and is not covered.
- A guest that starts and finishes between the look for its start marker
  (`worker/warm.py:626`) and the read of its answer (636) counts as one that never
  started, and an incomplete answer of it is then charged to the base.
- With "stale" or "drop" faults a slot restored by one spawn of a batch while another
  finds the base gone may carry the stamp taken before (`host/pool.py:2764`,
  `host/runtime/fc_snapshot.py:162-165`): `StampNamesItsBase` is checked without them.
- A base whose boot failed and whose machine could not be confirmed gone is parked
  (`host/runtime/fc_snapshot_launcher.py:641`, `gvisor_snapshot.py:1135`), and the next
  build removes its directory without asking again whether the machine lives.
  `InUseIsKept` is about generations and the directories of slots.
- A lease file exists for a moment before it is locked
  (`host/runtime/snapshot_backend.py:124-125`). A sweep in that moment takes its owner for
  dead and may remove the directory of the base it is building from ("window", which is
  on in "gens"); generations are written later and are not affected.
- The restore of a gVisor base compares the published file only
  (`host/runtime/gvisor_snapshot.py:1305`); it has no open drive to compare with, as
  Firecracker has, which is what `GuestGate` models.

Machines and sandboxes:

- `LibvirtVmRuntime.reap` frees the address before it removes the overlay
  (`host/runtime/libvirt_vm.py:832-847`). When that removal fails, the slot is reaped
  again later and takes away the rules of the guest that has the address by then,
  while the comment (820-821) promises that no live guest is without rules. The same
  happens after a reap of `is_ready` itself, when rules failed to install: the slot is
  still in the pool's books and is reaped again. Hence "overlay" and "apply" only in the
  instance with one slot.
- A run that is preempted between its registration and its `Popen`
  (`worker/sandbox/macos_common.py:1462-1466`) is swept before it has a child, and
  starts one after the sweep; `worker/sandbox/base.py:181-183` says no child can
  ("late"). A signal that lands while the main thread holds a lock its own handler
  needs (`worker/http_agent.py:195-201`) leaves the retirement waiting for itself
  ("locked").
- A stop that AWS executed without answering is kept from a claim by
  `_park_unknown_since`: "Unknown means unknown: not claimable until something answers"
  (`host/runtime/aws_worker.py:2274-2282`). The retry of that stop is then refused, which the
  code calls the expected answer (2650-2657), and the refusal clears the mark (2594-2600,
  2368) while the phase is still "warming": from there on only the description keeps a
  claim away, and it may still say "running". What saves the slot is that the retry is
  throttled (2165): it comes `_liveness_cache_s` after the first call returned, and the code
  takes descriptions to have caught up by then (2764-2776). `LeasedNotStopped` therefore
  needs `Lag <= CacheTime`, which the code cannot enforce; with a `Lag` of 2 and a
  `CacheTime` of 1 TLC finds the claim of an instance that is stopping. Two more things are
  assumed of the instance: a stop takes effect within its call, not after the client has
  given up, and an agent that is up answers its probe until the guest is frozen (a "no"
  clears the mark as well).
- A microVM is condemned although healthy when a token was minted while it was
  parked and the resume answers a conflict, which keeps that token
  (`host/runtime/aws_worker.py:1707-1721`); when its state changes within one pass
  (1636-1641); and when a mint answers without a usable token, which counts as an
  answer of the worker (1272-1273, 1555).
- A copy-back whose rename fails and whose process dies during the undo
  (`worker/sandbox/appsandbox.py:1543-1557`) leaves a journal in the phase it failed in,
  from which recovery goes the wrong way; likewise an agent that reads the journal
  while its writer lives and finds the writer dead at the next step ("window").

Network and releases:

- netd lists the containers, then subscribes to events (`host/netd.py:553-555`): what
  starts or dies between the two is missed until the stream breaks again. A capture
  file is named by the job, and the capture sealed for an attempt that netd missed may
  be the one an earlier attempt left (243-246). Hence no property in "netdgap".
- A teardown of the egress tier is not final: a reconciliation that is already
  running re-applies what it removes (`host/egress_apply.py:1685-1698`).
- `add` refuses a configuration the host is not running by comparing it with the
  environment file (`host/worker_link_apply.py:876`), which `init` writes last. After an
  `init` with a new address that was cut short, it hands out bundles with the old one.
- A write that fails in the middle of a bump of pins leaves the files before it
  rewritten (`host/pins.py:2295-2301`), against "rewrites nothing unless every file can be
  rewritten" (2172-2174): only what goes wrong afterwards is undone. "pinsw" reaches it.
- An image's stamp names the source as it was read before the build
  (`host/imagerun.py:582`), while the check for a changed source spans the build only
  (612). Without an atomic exchange the live path is absent for a moment, and a
  failure at that point leaves nothing live, since a run that fails inside the swap is
  not rolled back (1750-1754); a roll-back that fails in turn is reported and leaves the
  failed release live, against 1929-1932.

## 5. Proofs

`DispatchProofs` proves, for any numbers of jobs, claims, threads, nodes, permits,
attempts and crashes, with or without slow owners and store faults:

- `Typed`: `Spec => []TypeOK`.
- `Bounded`: `Spec => []AttemptsBounded`. A queued or running row has attempts
  left. The inductive invariant `TypeInv` needs it together with the types: a
  thread's own `attempts` is below the maximum because the row it claimed was
  queued, and the row a failed fetch writes back is queued only while the
  incremented count is below the maximum.
- `Published`: `Spec => []DoneWasPublished`. Not inductive alone. `CommitInv` adds
  that a thread about to commit has its claim in `published`. `NextEffect`
  classifies what any step does to the store (`StoreEffect`: nothing, create,
  claim, a field that is neither status nor claim, give back, fail, or a commit by
  a thread at "commit" holding the row's claim), and `CommitPc` follows the
  threads.
- `Implements`: `Spec => ImplementsLifecycle`, from the same classification and
  `AbsentInv` (a job not yet submitted has no row): each kind of effect maps to
  one action of `JobLifecycle` or to a stutter.

Its second part proves what holds of the dispatcher when owners are prompt
(`SlowOwners = FALSE`: no sweep finds a job abandoned whose thread is still there, and
a deferral outlasts the clean-up that follows it), again for all values of the other
constants:

- `ServesItsOwn`: `Spec => []DoneServesItsResult`, whichever store calls fail.
- `PermitsStay`: `Spec => []PermitsConserved`, if no store call fails.
- `InputsStaySafe`: `Spec => []StagedInputSafe`, if no store call fails or there is
  one node. Section 4 has the executions the two conditions exclude.

The 50 actions are looked at once: `Steps` says that every step is either one of a
thread (`ThreadActs`: how it goes on under its claim, and what it may do to the rows,
the trees, the containers, the blobs and the gate) or one from outside (`AsideActs`:
the ingress, clocks, containers, sweeps, reconciliations, crashes, a stutter). The
invariants follow from these effects alone. They are:

- `Owned`. Claims are handed out once and in order (`ClaimsIssued`), no two threads have
  one claim (`OwnClaim`), a thread at work holds the row of its job (`HoldsRow`), an
  unclaimed row carries no claim (`RowsFree`), and what a sweep judges abandoned is no
  thread's (`JudgedGone`), which is where prompt owners are used.
- `ResultInv`. The output directory a thread works on is its own or gone (`OwnTree`), no
  container of its claim writes to it any more once it is sealed (`OwnBoxGone`), and
  what the thread has uploaded is still what is stored (`OwnBlob`).
- `OrphanInv`. The row of a claimed job does not vanish (`Claimed`); an unconfirmed
  container's claim is no working thread's (`Retained`); and, if no store call fails,
  its row has failed for good under that claim (`OrphansFailed`).
- `InputInv`. A clean-up that has decided to delete, a thread's (`CleansOwn`) or a
  reconciliation's (`ReconcilesOwn`), still finds its claim on the row when it does so.

`PermitsStay` then counts: a step adds one thread to the holders of a node's permits,
removes one, or moves one from the holders to the retained containers.

A third part goes on from there to `ContainersStayBudgeted`,
`Spec => [](crashes = 0 => ContainersBudgeted /\ LiveTreeKept)`, if owners are prompt and
no store call fails. With `PermitsStay` these are all parts of `ContainersAccounted`,
under the assumptions of its run. The condition `crashes = 0` is needed: a new process
starts with an empty gate and an empty list while the containers of the old one are
still there. Counting alone does not do it; a container must be somebody's. `Housed` says
that the thread that started it has not given it up, or it is on the list;
`PopsOnce`, that a reconciliation which takes a container off the list has seen it gone,
and does not find the claim there again; `OrphansMarked`, that the thread whose claim is
on the list leaves the tree alone; `LimitKept`, that the gate admits below its limit. Who
would start a second container of the job, or remove the tree, would have to
own the row, and `LiveRow` says whose the row of a live container is. The containers of a
node are then the image of the threads that hold its permits, and the list.

The last part proves `ResultsStayKept`, `Spec => []KeptResultOnDisk`, if owners are
prompt and no store call fails; section 4 has the executions with store faults in
which the property is false. A kept row and its tree are on different sides of the
store, and who could part them is everybody: the owner's own clean-up, a thread that
reads the list of failed uploads late, a later run of the job, a retained container
that still writes, a reconciliation. `KeepInv`, again derived from effects
(what a step does to a kept row, to the marker, to the list), says in turn that two
threads are never on one job (`JobsApart`), that from the check to the write of the row
the tree is sealed and the thread's own, and is marked and on the list when the row is
written (`WorkTree`), that whoever cleans up after a kept job knows its upload failed
(`Flags`), that an unconfirmed container's job is not a kept one (`OrphansLost`), and
that the tree of every kept job is as the property wants it (`KeptTree`). TLC checked it
on one node and on two before it was proved.

`RetentionProofs` takes this on to the dispatcher beside the sweeps, the expiry and
DELETE, for all values of the constants of `Retention`:

- `RetentionTyped`: `RetentionSpec => []RetentionTypeOK`.
- `RetentionImplements`: `RetentionSpec => ImplementsLifecycle`, with or without slow
  owners and store faults.
- `LastCopiesStaySafe`: `RetentionSpec => []LastCopySafe`, if owners are prompt and no
  store call fails. (The run `RetentionSweeps` checks the property with store faults
  too, on its one instance; the proof uses `Keeping`, which store faults break.)
- `RepairsAreOwn`: `RetentionSpec => [][RepairIsOwn]_allVars`, an action property, under
  the same two conditions. The run `Control` checks it as `RepairsItsOwnAttempt`.
- `RepairedServesItsOwn`: `RetentionSpec /\ []SealsAreOwn => []RepairedServesItsResult`,
  under the same two conditions. Without the proviso it is false, which is what the run
  `RetentionStaleSeal` shows. `SealsAreOwn` excludes that finding and no more: the seal
  that a retry finds in the store, when it looks for one, is its own attempt's.
- `ExpiredStaysTraceless`: `RetentionSpec => [](crashes = 0 => ExpiredLeavesNoResult)`,
  if owners are prompt, no store call fails and no undo does (`UndoFails = FALSE`). The
  conditions are those under which it holds: section 4 tells what a crash, a failing
  store or a half-finished upload leaves behind. The run `Control` checks the property on
  two hosts.

A step of `RetentionSpec` is one of the dispatcher (`DispatcherStep`), whose effects
`DispatchProofs` has already, or one of a sweep or of
DELETE (`SweepStep`). The latter are classified once, by what they do to their own program
counter (`RtEffect`, `DelEffect`), to the rows (`RowEffect`) and to the trees
(`DiskEffect`). What holds the two apart is that a row which is over stays over, and that
the sweeps touch no other: `SweepInv` says for every program point of the retry, the
expiry and DELETE what it still knows of the row it read several calls ago. So the
invariants of the dispatcher survive a sweep's step (`Owned`, `Paths`, `OwnBoxGone`,
`Known`, `Retained`, `Keeping`; `OrphansFailed` becomes the weaker `OrphansOver`, since an
expiry may change a failed row), and `SweepInv` survives the dispatcher's. `ScratchInv`
carries what the reclaim of a scratch tree read over to the removal: its job is over, a
retained one was read as FAILED, and a tree about to be purged is not marked if its row is
retained. `KeptUnasked` is the form in which the kept trees survive: a kept row nobody has
asked to delete has its sealed and marked tree.

`RepairsAreOwn` cannot rest on the kept rows alone: an owner that dies between the marker
and the terminal write leaves a row that a sweep fails without `kept`, and the retry repairs
that one too. `MarkInv` therefore speaks of every tree marked for the claim on its row,
RUNNING or FAILED: it is sealed for that claim, whoever is still on the job knows that the
upload failed, and no unconfirmed container waits for its reconciliation, so that neither a
clean-up nor a reconciliation removes it. `HeldMark` carries the retry's look at the marker
over the calls up to the repair. TLC checked both, on one node and on two, with a crash
and with a second claim, before they were proved.

`RepairedServesItsOwn` relates the rows to the blobs, so the steps are classified once more,
by what they do to the stored results (`BlobEffect`). `StoredInv` holds for the dispatcher's
uploads and for the retry's: no two nodes have a tree marked for one attempt
(`MarkersApart`), which makes the repair of a row the business of one node; a body is
stored before its seal (`BodyFirst`), and only for claims handed out (`SealIssued`);
what a retry has uploaded is still there when it repairs the row (`RetryStored`), and a
retry that withdraws its upload withdraws it from no row that is DONE (`Undone`,
`LeftAlone`). TLC checked it together with the property on one node over two claims and a
crash (472,700 states, complete) and in part on two nodes before it was proved.

`ExpiredStaysTraceless` needs to know when an expiry may be forgotten. `NeverLast` says that
a DONE or FAILED row of a host that keeps jobs for a while has an expiry, and `Dated` and
`SweepDated` classify what the steps do to it: a row becomes EXPIRED with the expiry it had,
and only the expiry that has deleted the result, at its last write ("exfinal"), makes that
one "never". `NoTrace` is the property one call earlier: once the row says "never", or an
expiry is about to write it, a seal still in the store is one that a retry has uploaded and
will withdraw, since its look at the row comes after its upload (`SealEffects`: who seals,
who deletes). With `Undone` from above, no retry withdraws it from a row that came back.
The crash count stands in the theorem and not in the assumptions, since `NoTrace` is lost
only at the first crash; the rest of the invariant is not.

`PoolProofs` proves, for any numbers of slots, dispatch threads and reapers, any
retry budget, recycling interval and largest ceiling:

- `PoolTyped`: `Spec => []PoolTypeOK`; a reservation of the spawns is never given
  back twice (`inflight` stays a natural number) and a husk's retries stay within
  their budget.
- `SlotsStayAccounted`: `Spec => []SlotsAccounted`, the books of the pool.
- `HandOutsAreClean`: `Spec => []CleanHandOut`.
- `CeilingStays`: `Spec => CeilingKept`, an action property.

They rest on one inductive invariant, `IInv`. None of the four is inductive alone,
because what a thread may do with a slot depends on who else refers to it. `Refs`
says which program points of a thread go with a slot in its hand; `Counts` and
`BornInHand` relate the reservations and the spawned slots to the hand of the
background thread; `Owners` makes `_reaping` the set of the slots somebody is
in the runtime's reap for, with one owner each; `Apart` keeps two dispatch threads
from one slot. The parts `Open...` say, while `stop()` has not begun to take the
books, what a mark on a slot means: suspected, held and reaped slots are draining, a
deferred one is draining or gone, a slot that waits or may be put back is clean, a
reaper's slot is in no queue, upkeep works on a clean slot nobody claimed. Once
`stop()` has begun, `StopIsFinal`, `Unwedged` and `Counted` take over: nothing becomes
usable, and the live workers together with the one a wedged background thread may
still bring are at most what `stop()` counted. `IInv` was checked with TLC on the
instances of `PoolStop`, `PoolReuse` and `PoolLive` before it was proved; the proof
made two parts stronger than the checks had: what is out or just born has no retry
count, and no slot is deferred and held at once.

The last part of `PoolProofs` is about `BaseRebuild`: `DropsAreEarned`, `RebuildSpec =>
[]DropIsEarned`, for any numbers of bases, slots and releases and any thresholds. Its
hypothesis, `RepairConstants`, is about time: what is decided at one moment is carried out
or given up within `MaxRepair`, which is less than the cooldown that follows a repair, and
less than half of it if there are several bases (section 4 says what happens otherwise).
The inductive invariant, `RebuildInv`, follows the evidence from the slot to the verdict.
`Follows` ties the generation of a base to the installed artifact, one behind while it is
being replaced; `Stamped` and `Booked` say that a slot with a current stamp, and what is on
the books, is about the artifact installed now or just replaced; `Handed` says so of what a
release has in hand, unless a repair of that base is over and its cooldown is not, in
which case `CheckCooling` and `DecideUnderLock` discard it. That this exception never
outlives the cooldown is `Cooled` and `Timed`: the next repair begins a whole cooldown
after the last, and nobody holds evidence that long. `Deserted` and `Working` keep
releases out of the way of a repair by the tick, which may retire several bases at once.
Bases that the runtime ever repaired by itself are left out, as the property leaves them
out. TLC checked the invariant on one base with two releases and on two bases before it was
proved, and refuted it on two bases for a longer `MaxRepair`, which is where the
hypothesis comes from.

The step `IInv /\ [Next]_vars => IInv'` (`StepIInv`) has one lemma per action,
`<Action>Kept`. It first reduces the action to its effect (`Moved`, `Emptied`,
`Filled`, `ClientTo`, `ReaperTo`, `TickTo`, `StopTo`, ...: what becomes of one slot and
of one thread), and then derives the parts of `IInv` that these fields can disturb.
Lemmas about the operators, such as the finiteness of the tracked slots and how
their number changes with one slot, come first.

`TierProofs` has four parts. The first proves, for any fleet and any number of spawn
threads, `BoxesStay` (`StatSpec => []BoxesConserved`) and `NoEgressProved`
(`[][NoEgressIsFleetWide]_statVars`). `BoxesConserved` needs what a thread read and then
probed without the lock (`Hands`, `Batch`: a box in a thread's hand is its only one,
is not cooling and was not through a dirty run since); the verdict needs `Asks` and
`LeasedAsked`: as long as a thread has met no other reason, every box that is neither
burned out nor still ahead of it has been asked for egress.

The second is about `Cascade`, with any tiers, capacities and finite sets of spawn threads
and slots (`Configured`):

- `RoomStaysExact`: `CascSpec => []TierRoomExact`. A count is right only as a sum over
  threads and slots, each of which has to be somewhere exactly once: a worker is in its
  tier's books or in the hand of the thread that is about to enter it (`Staffed`), a reap
  leaves the books after its worker is gone (`Reaped`), and a tier's count is the slots it
  owns and the spawns placed in it (`Placed`, `BooksBalance`).
- `TiersStayAccounted`: `CascSpec => []TierAccountedFor`. No tier is admitted twice
  (`EachOnce`); one that waits is in the hands of the thread that probes, or in the list
  (`Waiting`); a late one is swept, owed its sweep, or dropped with a verdict
  (`SweptOrOwed`), wherever a shutdown cuts in.

The third, `EvidenceConvicts` (`WarmSpec => []ConvictsOnEvidence`), holds of any number of
slots and builds and of either seam, with no assumption. The capability to acknowledge belongs to an epoch, and
builds, invalidations and slots restored earlier interleave: `Credited` says that it is
that of the published artifact, and that a build under way can only bring in its own;
`Pinned` and `OneImage`, that a slot whose epoch has the capability was restored from an image
that speaks. `Evident` and `Charged` carry what the guest did over to what the host read.

The fourth, `GuestsStayContained` (`LibvirtSpec => []GuestsContained`), holds for any slots,
addresses, orphans and budget of faults, a restart of the manager included, if there is one
slot or neither `apply` nor the removal of an overlay fails (`LibvirtConstants`; section 4 has
why). `Fenced` says at which points of its life a guest has its rules and its reservation, and
`Withheld` that its address is not in the pool; that two slots never own one address holds until
the address is given back, which is where the condition is used. `OrphansKeep` says the same of
the guests a restart found running.

`NodeClaimProofs` proves about `NodeClaim`, for any nodes, jobs, certificates and bounds, for
any limit of the table of receipts (`MaxTracked \in Nat`):

- `SettledReceiptsAreOver`: `NodeSpec => []SettledIsSettled`.
- `OutcomesStand`: `NodeSpec => [][OutcomeStands]_nodeVars`, an action property.
- `AnswersStayTrue`, `OneNodePerClaim`: two parts of the invariant that say something of
  their own. An "ok" that nobody has read yet is about a claim that is over; and no claim is
  at work on two nodes, on its way to one while another works under it, or at work for two
  jobs.

Every action is reduced to what it may do to the rows, the tables of the nodes, the
messages, the spooled inputs and the claims (`RowsMove`, `TablesMove`, `WireMoves`,
`InputMoves`, `ClaimsMove`). `SettledIsOver` is not inductive without `AnswersAreTrue`: a node
marks a receipt when an answer comes, and the job may have been claimed again by then, so
an accepted answer must still be true of the row as long as it is under way; and only
`ClaimsApart` and one receipt per job (`OneEntries`) make the receipt it marks the one it is
about. The eviction from the table is a loop, whose result is proved to have the receipts of
its argument and no other for any number of rounds; as induction over an operator is not to
be had, the lemmas `LeastOne`, `ByLeast` and `Repeated` argue with the least round that goes
wrong, over a set of numbers.

The second part of `NodeClaimProofs` is about `Hibernate`, the machine behind a claim:

- `LeasedStayUp`: `HibSpec => []LeasedNotStopped`, for any `Lag` and `CacheTime` with
  `Lag <= CacheTime`. The property speaks of the moment of the lease, and the stop may have been
  sent long before, by a step that got no answer. `SleepInv` therefore says, from the stop on
  until descriptions tell the truth (`Told`), what keeps a claim away: the step that sent
  it is not over, or the park is recorded as accepted, or a silence is noted that no answer
  has ended. Four things could undo this, and the rest of the invariant excludes them: a
  refused retry, since the throttle is counted from the end of the first call and so the retry
  is sent only when `Lag` has passed (the fault "counted from when it was sent" breaks this);
  a "running" in place of an accepted park, which is not believed for `CacheTime`; a "no" of
  the agent, which only one that is down gives (`VmInv`); and a "stopped" that a resume has
  outdated (`DescInv`).
- `ColdStopsNotAdopted`: `HibSpec => []ColdStopNotAdopted`, by `ColdInv`: without a stop that
  may have been executed none of the five marks that `Attempted` looks at is set, the start
  of the clock after a refusal apart.
- `ReapedStayForgotten`: `HibSpec => []ReapedIsForgotten`.
- `ClocksStayHonest`: `HibSpec => []ParkClockHonest`, for `CallTime` and `Timeout` any natural
  numbers. `ClockInv` bounds what may be charged: the time since the start of the clock, less
  the credit and the silence under way, is at most what the history has charged and the
  length of one call. The silence counts up to `Heard`, the beginning of the step under way
  if there is one, since AWS may have answered it, and the length of one call is lost once,
  where a clock starts at the moment its step began.

TLC checked the four invariants with up to six ticks before they were proved.

Its last part is about `Generations`. `InUseStays`: `GenSpec => []InUseIsKept`, for any
dispatchers, builds, deaths and faults, "window" included. Three sweeps remove things
unasked, and the invariant `GnInv` has a part for each. What a dispatcher lists of another
was read earlier and is removed later: `SweptAreDead` says that a listed generation had a
dead owner or one that held its lease already, so that a lock that can be taken proves the
death, and stays proved between the probe and the removal (`WrittenHeld` and `HoldersLive`: a
generation is on disk only under a lease, which the kernel ends with its process; a lease file
that was pruned under a living holder is no proof of death). What a build parked it removes
on its next retry: `ParkedIdle` says that nobody uses it, and `BuildsFresh`, that no build
writes a generation under a name that is parked or in use, wherever it stands. The workdir of a
slot is never listed, and is parked only once its machine is gone. The base directories are
not in the theorem: two ways to lose one are named in section 4.

`StoreProofs` is about what is stored:

- `ServedStaysHosts`: `ReceiptSpec => []ServedIsHosts`, for any trees that are numbered apart from
  the empty prefix and the old release's envelope (`Numbered`). The reader sees four objects at
  four moments. `TreesOwn` and `StillToStore` say what an upload has and in which order it
  stores it; `Alone`, that one without a host's receipt overlaps no other upload and no
  re-marking; `Vouched`, that no marker, stored or about to be, vouches for a worker's
  receipt; `ReaderSees`, what the reader may conclude from what it has read so far. The last
  rests on envelopes that are stored for good and that nobody will vouch for again
  (`Final`, `Unvouched`).
- `BootStaysExact`: `BootSpec => []BootGateExact`, for any processes, stores and number of
  canaries, if no store's fingerprint is what an empty registry row holds (`BootConstants`). A
  probe on the shared key may find another's canary, and nothing is concluded from it; one
  on a key of its own is undisturbed (`KeptApart`), so what it finds says whether the process
  reads what it writes (`Judged`, `ReadItself`).
- `OverwrittenBytesStayGone`, `MaskOutlastsReceipt`, `ArchivesStayCurrent`: `ResultSpec =>
  []NothingResurfaces`, `[]ReceiptStaysMasked`, `[]ServedIsCurrent`, for any number of
  deletions, any history of versions and any page size (`ResultConstants`). `Targeted` says what
  a listing of any age may still remove: never the newest of several versions.
- `DeletedMeansGone`: `ResultSpec => []GoneMeansGone`, if the principal may find out
  something about a bucket that keeps versions (`~Blind`): one that may neither ask for the
  status nor list versions deletes the newest version by its name and cannot see that older
  ones are left.

`VmProofs` proves, for any hosts, threads, slots and faults, with other dispatchers
on the store or without:

- `VmServesItsOwn`: `VmSpec => []VmDoneServesItsResult`. An upload is not fenced by the
  claim. `Held` says what stands in for a fence: from the stamp to the terminal write
  the row carries the thread's claim and is RUNNING and stamped warm, or was failed. So
  a peer's requeue sweep leaves it alone, a sweep can only fail it, and the thread gives
  it back only where it has stopped uploading. Two threads that are uploading for one
  job would then have one claim (`Issued`), and what a thread has uploaded stays
  until it writes DONE (`Uploaded`).
- `VmImplements`: `VmSpec => VmImplementsLifecycle`.

`VmLastCopyKept` is not proved: with two threads on one host it is false (section 4).

The last part of `VmProofs` is about `GuestGate`: `CheckedRootfsServed`, `GateSpec =>
[]ServesTheCheckedRootfs`, for any images, guests and edits, if the published name stands for an
image at first, the value for its absence is not one, and a guest is either booted or
restored (`GateConstants`). The file may be rewritten or replaced between any two of the
reads. `HeldRight` says what an open descriptor still knows of the file, `CacheRight` that a
verdict which is kept for good is right, `Vetted` and `BaseVetted` that whatever goes on to
boot, or was checkpointed, is what was checked, or is known to be in doubt.

The assumptions are `JobStoreAssumption`, `DispatchAssumption` and `RetentionAssumption`
(`UndoFails` is a Boolean), `PoolAssumption` (finite slots, at least one job between
resets, a ceiling of at least one) and `SlotAssumption` (the null of a thread is not a
slot). TLC evaluates them in every run that extends the module. The modules that
`MCControl` and `MCRuntimes` instantiate have none; what a theorem about them needs of the
constants is its hypothesis and named above, and the instances there satisfy it.

Model-checked only: the liveness properties (`HusksTaken` and `PoolRefills` among
them), since fairness and ENABLED are outside the prover; `PinLocks`, whose reference
definition is reachability in a graph, an induction over data; `Dispatch` with slow owners beyond the
first four theorems; `ExpiredLeavesNoResult` after a crash (section 4); `RepairedServesItsResult` and
`LastCopySafe` while store calls fail, which `RetentionSweeps` checks on its instance; and
the modules not named in this section.

## 6. Not modelled

- PKI and node identity: certificates, enrolment tokens, configuration files. Parsing
  and cryptography; what they decide (a node's certificate set, a session that ends)
  is an input of `NodeClaim`.
- Contract and engines: data schemas and sequential code that runs in a worker.
- The command line, diagnostics, metrics and benchmarks: they call the components
  above or only read them.
- Sandboxes on Linux and profile texts, network policy compilation, argv and cloud
  requests: text that is generated in one piece. Its effect is in the modules that
  use it (a filter is in force or not).
- Placement, the eviction and spawn budgets' counts, page-hash search, listings:
  sequential, or a choice in the models.
- The CRaC backend, the disposable EC2 and container workers without a parked state,
  tunnel_guard, decrypt, exit attestation.

`PROJECT.json` lists each component with what is left out of it, and the hazards
that no property covers.
