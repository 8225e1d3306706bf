------------------------------- MODULE NodeSizer -------------------------------
(* How the dispatchers of one node divide its memory (host/dispatcher_sizer.py, *)
(* node_share.py, node_sizer.py, concurrency_gate.py, WarmPool.resize).  There  *)
(* is no coordinator: each publishes its demand as a file, reads everybody's,   *)
(* computes the same plan from what it read and resizes its own pool and gate.  *)
(* Views differ while demand moves, a publication fails or a peer stops.        *)
EXTENDS Integers, FiniteSets

CONSTANTS Sizers,      \* dispatchers, as numbers: their order is that of the files
          EngineOf,    \* dispatcher -> engine; two with one engine are replicas (at most two)
          NodeSlots,   \* the node's memory, in slots
          MinWarm, MaxCeiling,
          MaxJobs,     \* bound: jobs that arrive
          Events       \* bound: sets of kinds of events, one of which a behaviour sees, each kind once

VARIABLES
  szShare,     \* dispatcher -> its file
  szWarm, szCeil, szGate,    \* what it last resized to
  szIdle, szBusy, szCold,    \* its warm slots and its cold runs
  szQueue,     \* engine -> queued jobs
  szLast,      \* dispatcher -> the backlog it last counted
  szScale,     \* dispatcher -> its budget, after adaptation
  szFree,      \* the memory that is free: "low", "enough", "plenty"
  szBlocked,   \* dispatchers whose share directory refuses writes
  szTick,      \* dispatcher -> where its tick is
  szUp,        \* dispatchers that run
  szLease,     \* workers a stopped dispatcher left behind
  szComing     \* kinds of events that may yet happen

poolVars == <<szWarm, szCeil, szGate, szIdle, szBusy, szCold>>
envVars == <<szFree, szBlocked, szUp, szLease, szComing>>
sizerVars == <<szShare, poolVars, szQueue, szLast, szScale, szTick, envVars>>

Engines == {EngineOf[d] : d \in Sizers}
NoFile == [on |-> FALSE, backlog |-> 0, assigned |-> 0, budget |-> 0, lease |-> FALSE]
Waiting == [at |-> "rest", warm |-> 0, ceil |-> 0, busy |-> 0]
Larger(a, b) == IF a > b THEN a ELSE b
Smaller(a, b) == IF a < b THEN a ELSE b

SizerInit ==
  /\ szShare = [d \in Sizers |-> NoFile]
  /\ szWarm = [d \in Sizers |-> 0] /\ szCeil = [d \in Sizers |-> 1]
  /\ szGate = [d \in Sizers |-> 1]
  /\ szIdle = [d \in Sizers |-> 0] /\ szBusy = [d \in Sizers |-> 0] /\ szCold = [d \in Sizers |-> 0]
  /\ szQueue = [e \in Engines |-> 0]
  /\ szLast = [d \in Sizers |-> 0] /\ szScale = [d \in Sizers |-> NodeSlots]
  /\ szFree \in {"low", "enough"} /\ szBlocked = {} /\ szUp = Sizers /\ szLease = [d \in Sizers |-> 0]
  /\ szTick = [d \in Sizers |-> Waiting]
  /\ szComing \in Events
-------------------------------------------------------------------------------
(* The plan: a pure function of the files read *)

\* An engine's whole number, divided among its replicas; the first ones take the remainder.
Replicas(view, d) == {x \in DOMAIN view : EngineOf[x] = EngineOf[d]}
IntShare(view, d, total) ==
  LET reps == Replicas(view, d)
      n == Cardinality(reps)
      rank == Cardinality({x \in reps : x < d})
  IN total \div n + (IF rank < total % n THEN 1 ELSE 0)

\* Demands are kept doubled: an engine has at most two replicas.
PoolSpec(view, d) ==
  LET s == view[d]
      queued == (2 * s.backlog) \div Cardinality(Replicas(view, d))
  IN [queued |-> queued, demand |-> queued + 2 * s.assigned, reserved |-> s.assigned,
      floor |-> IntShare(view, d, MinWarm),
      top |-> Larger(1, Larger(IntShare(view, d, MaxCeiling), s.assigned))]

Total(alloc) ==
  LET sum[k \in 0..Cardinality(Sizers)] ==
        IF k = 0 THEN 0 ELSE sum[k - 1] + (IF k \in DOMAIN alloc THEN alloc[k] ELSE 0)
  IN sum[Cardinality(Sizers)]

\* One slot each, then what is reserved, then the warm floors, then the rest by demand.
PlanSizes(view, budget) ==
  LET spec == [d \in DOMAIN view |-> PoolSpec(view, d)]
      Room(a) == Total(a) + 1 <= budget
      More(a, d) == [a EXCEPT ![d] = @ + 1]
      ToReserved(a) == {d \in DOMAIN view : a[d] < Smaller(spec[d].reserved, spec[d].top)}
      ToFloor(a) == {d \in DOMAIN view : a[d] < Smaller(spec[d].floor, spec[d].top)}
      ToTop(a) == {d \in DOMAIN view : a[d] < spec[d].top}
      \* first of the pools with the largest demand
      Hungriest(ds) == CHOOSE d \in ds : \A x \in ds :
        spec[x].demand < spec[d].demand \/ (spec[x].demand = spec[d].demand /\ d <= x)
      \* busy pools first, then the one furthest below its floor, then by queue and demand
      Neediest(a, ds) == CHOOSE d \in ds : \A x \in ds \ {d} :
        LET waits(y) == IF spec[y].queued > 0 THEN 0 ELSE 1
            target(y) == Smaller(spec[y].floor, spec[y].top)
            filled == a[d] * target(x) - a[x] * target(d)
        IN \/ waits(d) < waits(x)
           \/ waits(d) = waits(x) /\ filled < 0
           \/ /\ waits(d) = waits(x) /\ filled = 0
              /\ \/ spec[d].queued > spec[x].queued
                 \/ spec[d].queued = spec[x].queued /\ spec[d].demand > spec[x].demand
                 \/ spec[d].queued = spec[x].queued /\ spec[d].demand = spec[x].demand /\ d < x
      \* by demand per slot it would then have; a demand of nothing still counts a little
      Worthiest(a, ds) == CHOOSE d \in ds : \A x \in ds :
        LET worth == (500 * spec[d].demand + 1) * (a[x] + 1) - (500 * spec[x].demand + 1) * (a[d] + 1)
        IN worth > 0 \/ (worth = 0 /\ d <= x)
      reserve[k \in 0..NodeSlots] ==
        IF k = 0 THEN [d \in DOMAIN view |-> 1]
        ELSE LET a == reserve[k - 1] IN
             IF Room(a) /\ ToReserved(a) # {} THEN More(a, Hungriest(ToReserved(a))) ELSE a
      floors[k \in 0..NodeSlots] ==
        IF k = 0 THEN reserve[NodeSlots]
        ELSE LET a == floors[k - 1] IN
             IF Room(a) /\ ToFloor(a) # {} THEN More(a, Neediest(a, ToFloor(a))) ELSE a
      fill[k \in 0..NodeSlots] ==
        IF k = 0 THEN floors[NodeSlots]
        ELSE LET a == fill[k - 1] IN
             IF Room(a) /\ ToTop(a) # {} THEN More(a, Worthiest(a, ToTop(a))) ELSE a
  IN fill[NodeSlots]

\* The plan depends on nothing else, so it is tabulated.
Files == [backlog : 0..MaxJobs, assigned : 0..(NodeSlots + MaxJobs)]
Plans == {[view |-> v, budget |-> b, sizes |-> PlanSizes(v, b)] :
            v \in UNION {[s -> Files] : s \in (SUBSET Sizers) \ {{}}}, b \in {NodeSlots - 1, NodeSlots}}
PlanOf(v, b) == (CHOOSE p \in Plans : p.view = v /\ p.budget = b).sizes

\* The files that are on the share; the budget is the smallest anyone declares.
View == [d \in {x \in Sizers : szShare[x].on} |->
           [backlog |-> szShare[d].backlog, assigned |-> szShare[d].assigned]]
DeclaredBudget(mine) == mine

AgreedBudget(mine) ==
  LET all == ({mine} \cup {szShare[d].budget : d \in Sizers}) \ {0}
  IN CHOOSE b \in all : \A c \in all : b <= c
-------------------------------------------------------------------------------
(* A tick *)

Reservation(d) == szIdle[d] + szBusy[d] + szCold[d]
Snapshot(d, backlog) ==
  [on |-> TRUE, backlog |-> backlog, assigned |-> Reservation(d), budget |-> szScale'[d], lease |-> FALSE]

\* Less memory when little is free, more again when there is plenty.
Adapt(d) ==
  szScale' = [szScale EXCEPT ![d] =
    IF szFree = "low" THEN Larger(@ - 1, NodeSlots - 1)
    ELSE IF szFree = "plenty" THEN Smaller(@ + 1, NodeSlots) ELSE @]

\* Publish with the backlog of the last tick, so that peers do not forget us while we count.
TickPublishes(d) ==
  /\ d \in szUp \ szBlocked /\ szTick[d].at = "rest"
  /\ Adapt(d)
  /\ szShare' = [szShare EXCEPT ![d] = Snapshot(d, szLast[d])]
  /\ szTick' = [szTick EXCEPT ![d] = [Waiting EXCEPT !.at = "count", !.busy = szBusy[d]]]
  /\ UNCHANGED <<poolVars, szQueue, szLast, envVars>>

\* Count the queue, and publish again.  A count that fails or hangs leaves the last value.
TickCounts(d) ==
  /\ d \in szUp \ szBlocked /\ szTick[d].at = "count"
  /\ szLast' = [szLast EXCEPT ![d] = szQueue[EngineOf[d]]]
  /\ szShare' = [szShare EXCEPT ![d] =
                   [on |-> TRUE, backlog |-> szLast'[d], assigned |-> Reservation(d),
                    budget |-> szScale[d], lease |-> FALSE]]
  /\ szTick' = [szTick EXCEPT ![d].at = "read"]
  /\ UNCHANGED <<poolVars, szQueue, szScale, envVars>>

\* A publication that raises ends the tick.
TickRaises(d) ==
  /\ d \in szUp \cap szBlocked /\ szTick[d].at = "count"
  /\ szTick' = [szTick EXCEPT ![d] = Waiting]
  /\ UNCHANGED <<szShare, poolVars, szQueue, szLast, szScale, envVars>>

\* Read everybody's file and plan; the warm size follows our part of the queue.
TickReads(d) ==
  LET view == View
      ceil == PlanOf(view, AgreedBudget(szScale[d]))[d]
      want == Larger(IntShare(view, d, MinWarm), IntShare(view, d, szLast[d]) + szTick[d].busy)
  IN /\ d \in szUp /\ szTick[d].at = "read" /\ szShare[d].on
     /\ szTick' = [szTick EXCEPT ![d].at = "resize", ![d].ceil = ceil, ![d].warm = Smaller(ceil, want)]
     /\ UNCHANGED <<szShare, poolVars, szQueue, szLast, szScale, envVars>>

\* Our own file is not among them: nothing is resized.
TickUnseen(d) ==
  /\ d \in szUp /\ szTick[d].at = "read" /\ ~szShare[d].on
  /\ szTick' = [szTick EXCEPT ![d] = Waiting]
  /\ UNCHANGED <<szShare, poolVars, szQueue, szLast, szScale, envVars>>

Resize(d, warm, ceil) ==
  /\ szWarm' = [szWarm EXCEPT ![d] = Smaller(warm, ceil)]
  /\ szCeil' = [szCeil EXCEPT ![d] = ceil]

\* What is left of the ceiling beside the warm slots goes to cold runs; one is always allowed.
SetLimit(d, n) == szGate' = [szGate EXCEPT ![d] = Larger(1, n)]

TickResizes(d) ==
  LET r == szTick[d] IN
  /\ d \in szUp /\ r.at = "resize"
  /\ Resize(d, r.warm, r.ceil)
  /\ SetLimit(d, r.ceil - Larger(r.warm, szIdle[d] + szBusy[d]))
  /\ szTick' = [szTick EXCEPT ![d] = Waiting]
  /\ UNCHANGED <<szShare, szIdle, szBusy, szCold, szQueue, szLast, szScale, envVars>>

\* Nobody has seen us for the staleness window: peers may have taken our part.
SizeToFloor(d) ==
  LET warm == IF MinWarm >= 1 THEN 1 ELSE 0 IN
  /\ d \in szUp \cap szBlocked /\ szTick[d].at = "rest" /\ ~szShare[d].on
  /\ szCeil[d] > 1 \/ szWarm[d] # warm
  /\ Resize(d, warm, 1) /\ SetLimit(d, 1 - warm)
  /\ UNCHANGED <<szShare, szIdle, szBusy, szCold, szQueue, szLast, szScale, szTick, envVars>>
-------------------------------------------------------------------------------
(* The pool and the cold path, as far as they hold memory *)

PoolSpawns(d) ==
  /\ d \in szUp /\ szIdle[d] + szBusy[d] < szWarm[d]
  /\ szIdle' = [szIdle EXCEPT ![d] = @ + 1]
  /\ UNCHANGED <<szShare, szWarm, szCeil, szGate, szBusy, szCold, szQueue, szLast, szScale, szTick, envVars>>

PoolReapsSurplus(d) ==
  /\ d \in szUp /\ szIdle[d] > 0 /\ szIdle[d] + szBusy[d] > szWarm[d]
  /\ szIdle' = [szIdle EXCEPT ![d] = @ - 1]
  /\ UNCHANGED <<szShare, szWarm, szCeil, szGate, szBusy, szCold, szQueue, szLast, szScale, szTick, envVars>>

\* A job goes to a warm slot, or runs cold under a permit of the gate.
JobStarts(d) ==
  /\ d \in szUp /\ szQueue[EngineOf[d]] > 0
  /\ szQueue' = [szQueue EXCEPT ![EngineOf[d]] = @ - 1]
  /\ \/ szIdle[d] > 0 /\ szIdle' = [szIdle EXCEPT ![d] = @ - 1]
                      /\ szBusy' = [szBusy EXCEPT ![d] = @ + 1] /\ UNCHANGED szCold
     \/ szIdle[d] = 0 /\ szCold[d] < szGate[d]
                      /\ szCold' = [szCold EXCEPT ![d] = @ + 1] /\ UNCHANGED <<szIdle, szBusy>>
  /\ UNCHANGED <<szShare, szWarm, szCeil, szGate, szLast, szScale, szTick, envVars>>

JobEnds(d) ==
  /\ d \in szUp
  /\ \/ szBusy[d] > 0 /\ szBusy' = [szBusy EXCEPT ![d] = @ - 1] /\ UNCHANGED szCold
     \/ szCold[d] > 0 /\ szCold' = [szCold EXCEPT ![d] = @ - 1] /\ UNCHANGED szBusy
  /\ UNCHANGED <<szShare, szWarm, szCeil, szGate, szIdle, szQueue, szLast, szScale, szTick, envVars>>
-------------------------------------------------------------------------------
(* The surroundings *)

Comes(kind) == kind \in szComing /\ szComing' = szComing \ {kind}

JobsArrive(e, n) ==
  /\ Comes("job")
  /\ szQueue' = [szQueue EXCEPT ![e] = @ + n]
  /\ UNCHANGED <<szShare, poolVars, szLast, szScale, szTick, szFree, szBlocked, szUp, szLease>>

MemorySwings(to) ==
  /\ Comes("memory") /\ to # szFree
  /\ szFree' = to
  /\ UNCHANGED <<szShare, poolVars, szQueue, szLast, szScale, szTick, szBlocked, szUp, szLease>>

ShareBlocks(d) ==
  /\ Comes("stall") /\ d \in szUp \ szBlocked
  /\ szBlocked' = szBlocked \cup {d}
  /\ UNCHANGED <<szShare, poolVars, szQueue, szLast, szScale, szTick, szFree, szUp, szLease>>

ShareRecovers(d) ==
  /\ d \in szBlocked /\ szBlocked' = szBlocked \ {d}
  /\ UNCHANGED <<szShare, poolVars, szQueue, szLast, szScale, szTick, szFree, szUp, szLease, szComing>>

\* A file nobody refreshes is no longer accepted (and later collected).
FileExpires(d) ==
  /\ szShare[d].on /\ (d \in szBlocked \/ d \notin szUp)
  /\ szShare[d].lease => szLease[d] = 0
  /\ szShare' = [szShare EXCEPT ![d] = NoFile]
  /\ UNCHANGED <<poolVars, szQueue, szLast, szScale, szTick, envVars>>

\* A dispatcher stops: its idle slots are reaped, and either its file is removed or, with
\* workers it could not reap, replaced by a lease on what they still hold.
Stops(d) ==
  LET left == szBusy[d] + szCold[d] IN
  /\ Comes("stop") /\ d \in szUp \ szBlocked
  /\ szUp' = szUp \ {d} /\ szLease' = [szLease EXCEPT ![d] = left]
  /\ szIdle' = [szIdle EXCEPT ![d] = 0] /\ szBusy' = [szBusy EXCEPT ![d] = 0]
  /\ szCold' = [szCold EXCEPT ![d] = 0]
  /\ szCeil' = [szCeil EXCEPT ![d] = 0] /\ szWarm' = [szWarm EXCEPT ![d] = 0]
  /\ szShare' = [szShare EXCEPT ![d] = IF left = 0 THEN NoFile
                   ELSE [on |-> TRUE, backlog |-> 0, assigned |-> left, budget |-> 0, lease |-> TRUE]]
  /\ szTick' = [szTick EXCEPT ![d] = Waiting]
  /\ UNCHANGED <<szGate, szQueue, szLast, szScale, szFree, szBlocked>>

OrphanEnds(d) ==
  /\ szLease[d] > 0 /\ szLease' = [szLease EXCEPT ![d] = @ - 1]
  /\ UNCHANGED <<szShare, poolVars, szQueue, szLast, szScale, szTick, szFree, szBlocked, szUp, szComing>>

Ticks(d) == TickPublishes(d) \/ TickCounts(d) \/ TickRaises(d) \/ TickReads(d) \/ TickUnseen(d) \/ TickResizes(d)

SizerNext ==
  \/ \E d \in Sizers :
       \/ Ticks(d) \/ SizeToFloor(d)
       \/ PoolSpawns(d) \/ PoolReapsSurplus(d) \/ JobStarts(d) \/ JobEnds(d)
       \/ ShareBlocks(d) \/ ShareRecovers(d) \/ FileExpires(d) \/ Stops(d) \/ OrphanEnds(d)
  \/ \E e \in Engines, n \in 1..MaxJobs : JobsArrive(e, n)
  \/ \E to \in {"low", "enough", "plenty"} : MemorySwings(to)

\* The sizer's thread, the pool's tick and the dispatcher's threads run; jobs and orphans end;
\* a share directory is repaired, a stale file expires.  Arrivals and faults need not happen.
Serves(d) ==
  \/ SizeToFloor(d) \/ PoolSpawns(d) \/ PoolReapsSurplus(d) \/ JobStarts(d) \/ JobEnds(d)
  \/ OrphanEnds(d) \/ ShareRecovers(d) \/ FileExpires(d)

SizerFairness == \A d \in Sizers : WF_sizerVars(Ticks(d)) /\ WF_sizerVars(Serves(d))

SizerSpec == SizerInit /\ [][SizerNext]_sizerVars
-------------------------------------------------------------------------------
Ceilings == [d \in szUp |-> szCeil[d]]

(* Once demand, memory and the set of dispatchers stop changing, the ceilings   *)
(* the dispatchers computed each for itself come to fit, together, the smallest *)
(* budget any of them has, and stay so: no two views differ for ever, whatever  *)
(* files were stale, missing or out of date on the way.                         *)
Fits == \A d \in szUp : Total(Ceilings) <= Larger(Cardinality(szUp), szScale[d])
===============================================================================
