------------------------------- MODULE PoolProofs -------------------------------
(* The books of the warm pool (Pool) hold for any number of slots, dispatch      *)
(* threads and reapers, and for any sizes.  IInv is the inductive invariant.  Its *)
(* parts say who refers to which slot (Refs), what is in the hands of the spawns  *)
(* (Counts, BornInHand), who disposes of what (Owners), and, while stop() has not *)
(* taken the books, what each mark on a slot says of its state (Open...).  One    *)
(* lemma per action follows, each first reducing the action to its effect on the  *)
(* fields the invariant speaks of; the theorems come last.  The second part does  *)
(* the same for the verdicts on a base (BaseRebuild), with RebuildInv.            *)
EXTENDS Pool, BaseRebuild, FiniteSetTheorems, TLAPS

\* stop() has not taken the books yet.
Open == stop.pc \in {"no", "join", "flip"}

\* The background thread is in the runtime's reap; has a spawned slot in its hand;
\* has nothing left to do.
Emptying == {"promoting", "evicting", "shedding"}
Borne == {"publish", "drop", "settleDrop"}
Quiet == {"upkeep", "defer", "burst", "plan", "spawn", "publish", "drop", "surplus", "off"}

\* A thread refers to a slot exactly while it is about one.
Refs ==
  /\ \A c \in Clients : cl[c].slot = None <=> cl[c].pc \in {"off", "idle"}
  /\ \A r \in Reapers : rp[r].slot = None <=> rp[r].pc \in {"off", "drain"}
  /\ tk.slot = None <=> tk.pc \notin Emptying \cup Borne \cup {"upkeep"}
  /\ stop.slot = None <=> stop.pc \notin {"reaping", "pop"}
  /\ tk.pc \in Quiet => tk.todo = {}

\* The reservations cover what the spawns have in hand and may still bring.
Counts ==
  /\ tk.pc = "publish" => tk.left > 0
  /\ tk.pc = "batch" => Cardinality(tk.todo) + tk.left <= inflight
  /\ tk.pc = "settle" => Cardinality(tk.todo) <= inflight
  /\ tk.pc = "settleDrop" => Cardinality(tk.todo) + 1 <= inflight

\* A spawn has brought s, and it is not in the books yet.
InHand(s) ==
  \/ tk.pc \in Borne /\ s = tk.slot
  \/ tk.pc \in {"batch", "settle", "settleDrop"} /\ s \in tk.todo

\* A born slot is exactly one in the hands of a spawn.
BornInHand == \A s \in Slots : slot[s].st = "born" <=> InHand(s)

\* What is out is blank; what has not been ready yet is fresh.
OutIsOut ==
  \A s \in Slots :
    /\ slot[s].st = "out" => slot[s] = OutSlot
    /\ slot[s].st \in {"out", "born"} => tries[s] = -1
    /\ slot[s].st \in {"born", "warming"} => ~slot[s].ready /\ slot[s].taint = "fresh"

\* Nobody disposes of a slot that is still in the hands of its spawn.
BornIsFree ==
  /\ \A s \in reaping : slot[s].st # "born"
  /\ stop.slot # None => slot[stop.slot].st # "born"
  /\ tk.pc = "settleDrop" => tk.slot \notin tk.todo

\* Who disposes of s.
ByClient(c, s) == cl[c].pc = "reaping" /\ cl[c].slot = s
ByReaper(r, s) == rp[r].pc = "reaping" /\ rp[r].slot = s
ByTick(s) == tk.pc \in Emptying /\ tk.slot = s
ByStop(s) == stop.pc = "reaping" /\ stop.slot = s

\* _reaping holds exactly the slots somebody is in the runtime's reap for, and each
\* has one owner.
Owners ==
  \A s \in Slots :
    /\ s \in reaping <=> \/ \E c \in Clients : ByClient(c, s)
                         \/ \E r \in Reapers : ByReaper(r, s)
                         \/ ByTick(s) \/ ByStop(s)
    /\ \A c, d \in Clients : ByClient(c, s) /\ ByClient(d, s) => c = d
    /\ \A r, q \in Reapers : ByReaper(r, s) /\ ByReaper(q, s) => r = q
    /\ \A c \in Clients, r \in Reapers : ~(ByClient(c, s) /\ ByReaper(r, s))
    /\ \A c \in Clients : ByClient(c, s) => ~ByTick(s) /\ ~ByStop(s)
    /\ \A r \in Reapers : ByReaper(r, s) => ~ByTick(s) /\ ~ByStop(s)
    /\ ByTick(s) => ~ByStop(s)

\* Two dispatch threads never have the same slot.
Apart == \A c, d \in Clients : c # d => cl[c].slot = None \/ cl[c].slot # cl[d].slot

\* The worker may be given to a job.
Clean(w) == w.taint = "fresh" \/ (w.taint = "used" /\ w.jobs % JobsPerRecycle # 0)

Gone(s) == slot[s].st \in {"draining", "out"}

\* Only stop() leaves slots without a worker in the books.
OpenWorkers == Open => \A s \in Slots : slot[s].worker = "none" => slot[s].st = "out"

\* Suspects, held husks and slots being disposed of are drained; a queued one is
\* drained or gone, and in one queue only.
OpenMarks == Open => \A s \in Slots :
  /\ s \in suspected \cup held \cup reaping => slot[s].st = "draining"
  /\ s \in deferred => Gone(s) /\ s \notin held

\* What waits to be claimed, or may be put back, is clean.
OpenClean == Open => \A s \in Slots :
  /\ slot[s].st = "idle" \/ s \in suspected => Clean(slot[s])
  /\ ~slot[s].ready => slot[s].taint = "fresh"

\* A reaper's slot is drained or gone, in no queue, and no other reaper's.
OpenReapers == Open => \A r \in Reapers : rp[r].slot # None =>
  /\ Gone(rp[r].slot)
  /\ rp[r].slot \notin deferred \cup held
  /\ \A q \in Reapers : q # r => rp[q].slot # rp[r].slot

\* A dispatch thread's slot is assigned until the thread drains it, and no suspect.
OpenClients == Open => \A c \in Clients : cl[c].slot # None =>
  /\ cl[c].slot \notin suspected
  /\ cl[c].pc \in {"probe", "hold", "recycle", "drain"} => slot[cl[c].slot].st = "assigned"
  /\ cl[c].pc \in {"reap", "reaping"} => Gone(cl[c].slot)

\* The slot under upkeep is clean and no dispatch thread's.
OpenUpkeep == Open /\ tk.pc = "upkeep" =>
  /\ slot[tk.slot].st = "assigned" /\ Clean(slot[tk.slot])
  /\ \A c \in Clients : cl[c].slot # tk.slot

\* What the background thread is about to promote is warming, what it is about to
\* reap is drained or gone, and none of the latter is a suspect.
OpenTodo == Open =>
  /\ tk.pc \in {"promote", "promoting"} => \A s \in tk.todo : slot[s].st = "warming"
  /\ tk.pc \in {"evict", "evicting", "shed", "shedding"} =>
       \A s \in tk.todo : Gone(s) /\ s \notin suspected
  /\ tk.pc \in Emptying => tk.slot \notin suspected

\* What is handed out is clean.
HandOuts == \A c \in Clients : cl[c].pc \in {"probe", "hold"} => Clean(slot[cl[c].slot])

\* Where the background thread may still begin a spawn of the serial loop.
Spawning == {"promote", "promoting", "health", "evict", "evicting", "upkeep", "defer",
             "burst", "plan", "spawn"}

Live == {s \in Slots : slot[s].worker # "none"}

\* A background thread that was not given up has ended.
Unwedged == stop.pc \notin {"no", "join"} /\ ~stop.wedged => tk.pc = "off"

\* stop() has counted the live workers and the one a wedged thread may bring.
Counted == stop.pc = "done" =>
  Cardinality(Live) + (IF tk.pc \in Spawning THEN 1 ELSE 0) <= stop.left

\* The inductive invariant.
IInv ==
  /\ PoolTypeOK /\ Refs /\ Counts /\ BornInHand /\ OutIsOut /\ BornIsFree
  /\ Owners /\ Apart /\ OpenWorkers /\ OpenMarks /\ OpenClean /\ OpenReapers
  /\ OpenClients /\ OpenUpkeep /\ OpenTodo /\ StopIsFinal /\ Unwedged /\ Counted
  /\ OnlyReadyServe /\ HandOuts

-------------------------------------------------------------------------------
\* What a step does, as the fields it leaves behind.

SlotOnly(s) == slot' \in [Slots -> SlotRecords] /\ \A x \in Slots : x # s => slot'[x] = slot[x]

\* s changes its state and nothing else that the invariant tells apart.
Moved(s, st) ==
  /\ SlotOnly(s)
  /\ slot'[s].st = st
  /\ slot'[s].worker = "none" <=> slot[s].worker = "none"
  /\ slot'[s].ready = slot[s].ready /\ slot'[s].taint = slot[s].taint
  /\ Clean(slot'[s]) <=> Clean(slot[s])

\* The slots of ss are drained together.
AllDrained(ss) ==
  /\ slot' \in [Slots -> SlotRecords]
  /\ \A x \in Slots :
       /\ slot'[x].st = IF x \in ss THEN "draining" ELSE slot[x].st
       /\ slot'[x].worker = slot[x].worker
       /\ slot'[x].ready = slot[x].ready /\ slot'[x].taint = slot[x].taint
       /\ Clean(slot'[x]) <=> Clean(slot[x])
       /\ x \notin ss => slot'[x] = slot[x]

Emptied(s) == SlotOnly(s) /\ slot'[s] = OutSlot /\ Clean(slot'[s])
Filled(s) ==
  /\ SlotOnly(s)
  /\ slot'[s].st = "born" /\ slot'[s].worker = "up" /\ ~slot'[s].ready /\ slot'[s].taint = "fresh"
  /\ Clean(slot'[s])

ClientOnly(c) == cl' \in [Clients -> Client] /\ \A d \in Clients : d # c => cl'[d] = cl[d]
ClientTo(c, pc, s) == ClientOnly(c) /\ cl'[c].pc = pc /\ cl'[c].slot = s
ClientFree(c) == ClientOnly(c) /\ cl'[c].pc \in {"off", "idle"} /\ cl'[c].slot = None

ReaperTo(r, pc, s) ==
  /\ rp' \in [Reapers -> Reaper] /\ \A q \in Reapers : q # r => rp'[q] = rp[q]
  /\ rp'[r].pc = pc /\ rp'[r].slot = s

\* Idle reapers are started; those at work keep what they have.
Started ==
  /\ rp' \in [Reapers -> Reaper]
  /\ \A r \in Reapers : /\ rp'[r].slot = rp[r].slot
                        /\ rp'[r].pc = rp[r].pc \/ (rp[r].pc = "off" /\ rp'[r].pc = "drain")

\* Where the background thread goes on after a disposal.
After == IF tk.pc = "promoting" THEN "promote" ELSE IF tk.pc = "evicting" THEN "evict" ELSE "shed"

TickTo(pc, todo, s, left) ==
  tk' \in Ticker /\ tk'.pc = pc /\ tk'.todo = todo /\ tk'.slot = s /\ tk'.left = left

StopTo(pc, todo, s, wedged, left) ==
  /\ stop' \in Stopper
  /\ stop'.pc = pc /\ stop'.todo = todo /\ stop'.slot = s
  /\ stop'.wedged = wedged /\ stop'.left = left

\* The count of retries of s changes, or is cleared; the others stay.
Retried(s) ==
  tries' \in [Slots -> -1..MaxTries - 1] /\ \A x \in Slots : x # s => tries'[x] = tries[x]
Cleared(s) == Retried(s) /\ tries'[s] = -1

\* No spawned slot has become usable above the ceiling.
NoneAbove ==
  \A s \in Slots :
    slot[s].st = "born" /\ slot'[s].st = "warming" => Cardinality(Tracked) < size.ceiling

Seen(s) == slot[s].st \notin {"out", "born"}

\* What a thread refers to is a slot.
Handles ==
  /\ {reaping, deferred, held, suspected, tk.todo, tk.doomed, stop.todo} \subseteq SUBSET Slots
  /\ \A c \in Clients :
       cl[c].slot # None \/ cl[c].pc \notin {"off", "idle"} => cl[c].slot \in Slots
  /\ \A r \in Reapers :
       rp[r].slot # None \/ rp[r].pc \notin {"off", "drain"} => rp[r].slot \in Slots
  /\ tk.slot # None \/ tk.pc \in Emptying \cup Borne \cup {"upkeep"} => tk.slot \in Slots
  /\ stop.slot # None \/ stop.pc \in {"reaping", "pop"} => stop.slot \in Slots

Types ==
  /\ slot \in [Slots -> SlotRecords] /\ cl \in [Clients -> Client]
  /\ rp \in [Reapers -> Reaper] /\ tk \in Ticker /\ stop \in Stopper

\* The type invariant and the references say what kind of thing each variable holds.
LEMMA TypesHold == ASSUME PoolTypeOK, Refs PROVE Types /\ Handles
BY DEF PoolTypeOK, Refs, Types, Handles, Client, Reaper, Ticker, Stopper

\* A slot is in the books unless it is out or still in the hands of its spawn.
LEMMA TrackedSeen == ASSUME NEW s \in Slots, PoolTypeOK PROVE s \in Tracked <=> Seen(s)
BY DEF Tracked, In, Seen, SlotStates, PoolTypeOK, SlotRecords

\* Setting a slot's state, as the code does under the lock, leaves the rest of it alone.
LEMMA MoveEffect ==
  ASSUME PoolTypeOK, NEW s \in Slots, NEW st \in SlotStates,
         slot' = [slot EXCEPT ![s].st = st]
  PROVE  Moved(s, st)
<1> DEFINE w == [slot[s] EXCEPT !.st = st]
<1>1. slot \in [Slots -> SlotRecords] /\ slot[s] \in SlotRecords
  BY DEF PoolTypeOK
<1>2. w \in SlotRecords /\ w.st = st /\ w.worker = slot[s].worker /\ w.ready = slot[s].ready
      /\ w.taint = slot[s].taint /\ w.jobs = slot[s].jobs
  BY <1>1 DEF SlotRecords
<1>3. slot' = [slot EXCEPT ![s] = w]
  OBVIOUS
<1> HIDE DEF w
<1>4. slot' \in [Slots -> SlotRecords] /\ slot'[s] = w
      /\ \A x \in Slots : x # s => slot'[x] = slot[x]
  BY <1>1, <1>2, <1>3
<1>5. Clean(slot'[s]) <=> Clean(slot[s])
  BY <1>2, <1>4 DEF Clean
<1> QED BY <1>2, <1>4, <1>5 DEF Moved, SlotOnly

\* A slot that is taken out of the books is out, and clean.
LEMMA EmptyEffect ==
  ASSUME PoolTypeOK, NEW s \in Slots, slot' = [slot EXCEPT ![s] = OutSlot]
  PROVE  Emptied(s)
<1>1. OutSlot \in SlotRecords
  BY PoolAssumption DEF OutSlot, SlotRecords, SlotStates
<1>2. Clean(OutSlot) BY DEF Clean, OutSlot
<1> QED BY <1>1, <1>2 DEF PoolTypeOK, Emptied, SlotOnly

\* A spawned slot is born with a worker, never ready yet, and clean.
LEMMA FillEffect ==
  ASSUME PoolTypeOK, NEW s \in Slots, slot' = [slot EXCEPT ![s] = Born]
  PROVE  Filled(s)
<1>1. OutSlot \in SlotRecords
  BY PoolAssumption DEF OutSlot, SlotRecords, SlotStates
<1>2. Born \in SlotRecords
  BY <1>1 DEF Born, SlotRecords, SlotStates
<1>3. Born.st = "born" /\ Born.worker = "up" /\ ~Born.ready /\ Born.taint = "fresh" /\ Clean(Born)
  BY DEF Born, OutSlot, Clean
<1>4. slot'[s] = Born /\ SlotOnly(s)
  BY <1>2 DEF PoolTypeOK, SlotOnly
<1> QED BY <1>3, <1>4 DEF Filled

\* Draining a set of slots in one critical section changes their states only.
LEMMA DrainEffect ==
  ASSUME PoolTypeOK, NEW ss \in SUBSET Slots,
         slot' = [x \in Slots |-> IF x \in ss THEN [slot[x] EXCEPT !.st = "draining"] ELSE slot[x]]
  PROVE  AllDrained(ss)
<1>1. slot \in [Slots -> SlotRecords] BY DEF PoolTypeOK
<1>2. ASSUME NEW x \in Slots
      PROVE  /\ slot'[x] \in SlotRecords
             /\ slot'[x].st = IF x \in ss THEN "draining" ELSE slot[x].st
             /\ slot'[x].worker = slot[x].worker
             /\ slot'[x].ready = slot[x].ready /\ slot'[x].taint = slot[x].taint
             /\ slot'[x].jobs = slot[x].jobs
             /\ x \notin ss => slot'[x] = slot[x]
  <2> DEFINE w == [slot[x] EXCEPT !.st = "draining"]
  <2>1. slot[x] \in SlotRecords BY <1>1
  <2>2. /\ w \in SlotRecords /\ w.st = "draining"
        /\ w.worker = slot[x].worker /\ w.ready = slot[x].ready
        /\ w.taint = slot[x].taint /\ w.jobs = slot[x].jobs
    BY <2>1 DEF SlotRecords, SlotStates
  <2>3. slot'[x] = IF x \in ss THEN w ELSE slot[x]
    OBVIOUS
  <2> HIDE DEF w
  <2> QED BY <2>1, <2>2, <2>3
<1>3. \A x \in Slots : Clean(slot'[x]) <=> Clean(slot[x])
  BY <1>2 DEF Clean
<1>4. slot' \in [Slots -> SlotRecords] BY <1>2
<1> QED BY <1>2, <1>3, <1>4 DEF AllDrained

\* A dispatch thread goes on with the slot it has.
LEMMA GoEffect ==
  ASSUME PoolTypeOK, NEW c \in Clients, NEW pc \in ClientPcs, CGo(c, pc)
  PROVE  ClientTo(c, pc, cl[c].slot)
<1> DEFINE w == [cl[c] EXCEPT !.pc = pc]
<1>1. cl \in [Clients -> Client] /\ cl[c] \in Client BY DEF PoolTypeOK
<1>2. w \in Client /\ w.pc = pc /\ w.slot = cl[c].slot BY <1>1 DEF Client
<1>3. cl' = [cl EXCEPT ![c] = w] BY DEF CGo
<1> HIDE DEF w
<1> QED BY <1>1, <1>2, <1>3 DEF ClientTo, ClientOnly

\* A dispatch thread comes back to claim, or ends, without a slot.
LEMMA DoneEffect ==
  ASSUME PoolTypeOK, NEW c \in Clients, CDone(c)
  PROVE  ClientFree(c)
<1> DEFINE w == [IdleClient EXCEPT !.pc = IF Stopping THEN "off" ELSE "idle"]
<1>1. cl \in [Clients -> Client] BY DEF PoolTypeOK
<1>2. w \in Client /\ w.pc \in {"off", "idle"} /\ w.slot = None BY DEF Client, ClientPcs,
                                                                   IdleClient
<1>3. cl' = [cl EXCEPT ![c] = w] BY DEF CDone
<1> HIDE DEF w
<1> QED BY <1>1, <1>2, <1>3 DEF ClientFree, ClientOnly

\* A reaper goes on with the slot it has.
LEMMA PGoEffect ==
  ASSUME PoolTypeOK, NEW r \in Reapers, NEW pc \in ReaperPcs, PGo(r, pc)
  PROVE  ReaperTo(r, pc, rp[r].slot)
<1> DEFINE w == [rp[r] EXCEPT !.pc = pc]
<1>1. rp \in [Reapers -> Reaper] /\ rp[r] \in Reaper BY DEF PoolTypeOK
<1>2. w \in Reaper /\ w.pc = pc /\ w.slot = rp[r].slot BY <1>1 DEF Reaper
<1>3. rp' = [rp EXCEPT ![r] = w] BY DEF PGo
<1> HIDE DEF w
<1> QED BY <1>1, <1>2, <1>3 DEF ReaperTo

\* A reaper takes or leaves a slot.
LEMMA HandEffect ==
  ASSUME PoolTypeOK, NEW r \in Reapers, NEW pc \in ReaperPcs, NEW s \in Slots \cup {None},
         rp' = [rp EXCEPT ![r].pc = pc, ![r].slot = s]
  PROVE  ReaperTo(r, pc, s)
<1> DEFINE w == [rp[r] EXCEPT !.pc = pc, !.slot = s]
<1>1. rp \in [Reapers -> Reaper] /\ rp[r] \in Reaper BY DEF PoolTypeOK
<1>2. w \in Reaper /\ w.pc = pc /\ w.slot = s BY <1>1 DEF Reaper
<1>3. rp' = [rp EXCEPT ![r] = w] BY <1>1 DEF Reaper
<1> HIDE DEF w
<1> QED BY <1>1, <1>2, <1>3 DEF ReaperTo

\* The background thread has finitely many slots to do.
LEMMA TodoFinite == ASSUME Handles PROVE IsFiniteSet(tk.todo) /\ Cardinality(tk.todo) \in Nat
BY PoolAssumption, FS_Subset, FS_CardinalityType DEF Handles

\* There are finitely many live workers.
LEMMA LiveFinite == IsFiniteSet(Live) /\ Cardinality(Live) \in Nat
BY PoolAssumption, FS_Subset, FS_CardinalityType DEF Live

\* The end of a disposal clears the count of its retries.
LEMMA ClearEffect ==
  ASSUME PoolTypeOK, NEW s \in Slots, tries' = [tries EXCEPT ![s] = -1]
  PROVE  Cleared(s)
<1>1. -1 \in -1..MaxTries - 1 BY PoolAssumption
<1> QED BY <1>1 DEF PoolTypeOK, Retried, Cleared

\* The books are finite.
LEMMA TrackedFinite == IsFiniteSet(Tracked) /\ Cardinality(Tracked) \in Nat
BY PoolAssumption, FS_Subset, FS_CardinalityType DEF Tracked, In

\* A machine dies behind a slot: nobody's books change.
LEMMA WorkerDiesKept ==
  ASSUME IInv, NEW s \in Slots, WorkerDies(s)
  PROVE  IInv' /\ NoneAbove
<1>1. /\ Types /\ Handles /\ PoolTypeOK
      /\ slot[s].worker = "up"
      /\ slot[s].st \in SlotStates
  BY TypesHold, SlotAssumption DEF WorkerDies, IInv, Types, Handles, Borne, Emptying,
     SlotRecords
<1>2. UNCHANGED <<reaping, deferred, held, suspected, tries, cl, tk, rp, stop, inflight, size>>
  BY DEF WorkerDies, queueVars
<1>3. Moved(s, slot[s].st)
  <2> DEFINE w == [slot[s] EXCEPT !.worker = "down"]
  <2>1. slot[s] \in SlotRecords BY <1>1 DEF Types
  <2>2. /\ w \in SlotRecords /\ w.st = slot[s].st /\ w.worker = "down" /\ w.ready = slot[s].ready
        /\ w.taint = slot[s].taint /\ w.jobs = slot[s].jobs
    BY <2>1 DEF SlotRecords
  <2>3. slot' = [slot EXCEPT ![s] = w] BY DEF WorkerDies
  <2> HIDE DEF w
  <2>4. SlotOnly(s) /\ slot'[s] = w BY <1>1, <2>2, <2>3 DEF Types, SlotOnly
  <2> QED BY <1>1, <2>2, <2>4 DEF Moved, Clean
<1>4. PoolTypeOK' BY <1>1, <1>2, <1>3 DEF PoolTypeOK, Handles, Moved, SlotOnly
<1>5. BornInHand' BY <1>1, <1>2, <1>3 DEF BornInHand, InHand, Borne, Moved, SlotOnly, IInv
<1>6. OutIsOut' BY <1>1, <1>2, <1>3 DEF OutIsOut, Moved, SlotOnly, OutSlot, IInv
<1>7. BornIsFree'
  BY <1>1, <1>2, <1>3, SlotAssumption DEF BornIsFree, Handles, Moved, SlotOnly, IInv
<1>8. OpenWorkers' BY <1>1, <1>2, <1>3 DEF OpenWorkers, Open, Moved, SlotOnly, IInv
<1>9. OpenMarks' BY <1>1, <1>2, <1>3 DEF OpenMarks, Open, Gone, Moved, SlotOnly, IInv
<1>10. OpenClean' BY <1>1, <1>2, <1>3 DEF OpenClean, Open, Moved, SlotOnly, IInv
<1>11. OpenReapers'
  BY <1>1, <1>2, <1>3, SlotAssumption DEF OpenReapers, Open, Gone, Handles, Moved, SlotOnly,
     IInv
<1>12. OpenClients'
  BY <1>1, <1>2, <1>3, SlotAssumption DEF OpenClients, Open, Gone, Handles, Apart, Moved,
     SlotOnly, IInv
<1>13. OpenUpkeep'
  BY <1>1, <1>2, <1>3, SlotAssumption DEF OpenUpkeep, Open, Handles, Borne, Emptying, Moved,
     SlotOnly, IInv
<1>14. OpenTodo'
  BY <1>1, <1>2, <1>3 DEF OpenTodo, Open, Gone, Handles, Emptying, Moved, SlotOnly, IInv
<1>15. StopIsFinal' BY <1>1, <1>2, <1>3 DEF StopIsFinal, Active, In, Moved, SlotOnly, IInv
<1>16. Counted'
  <2>1. Live' = Live
    BY <1>1, <1>3 DEF Moved, SlotOnly, Types, Live
  <2> QED BY <2>1, <1>2 DEF IInv, Counted, Spawning
<1>17. OnlyReadyServe' BY <1>1, <1>2, <1>3 DEF OnlyReadyServe, Moved, SlotOnly, IInv
<1>18. HandOuts'
  BY <1>1, <1>2, <1>3, SlotAssumption DEF HandOuts, Handles, Apart, Moved, SlotOnly, IInv
<1>19. Refs' /\ Counts' /\ Owners' /\ Apart' /\ Unwedged'
  BY <1>2 DEF IInv, Refs, Emptying, Borne, Quiet, Counts, Owners, ByClient, ByReaper, ByTick,
     ByStop, Apart, Unwedged
<1>20. NoneAbove BY <1>1, <1>3 DEF NoneAbove, Moved, SlotOnly
<1> QED
  BY <1>4, <1>5, <1>6, <1>7, <1>8, <1>9, <1>10, <1>11, <1>12, <1>13, <1>14, <1>15, <1>16, <1>17,
     <1>18, <1>19, <1>20 DEF IInv

\* _try_claim_one: an idle slot is clean and belongs to nobody, so it may be taken.
LEMMA ClaimPickKept ==
  ASSUME IInv, NEW c \in Clients, NEW s \in Slots, ClaimPick(c, s)
  PROVE  IInv' /\ NoneAbove
<1>1. /\ Types /\ Handles /\ PoolTypeOK
      /\ cl[c].pc = "idle"
      /\ slot[s].st = "idle"
  BY TypesHold, SlotAssumption DEF ClaimPick, IInv, Types, Handles, Borne, Emptying
<1>2. UNCHANGED <<reaping, deferred, held, suspected, tries, tk, rp, stop, inflight, size>>
  BY DEF ClaimPick, queueVars, clientRest
<1>3. Moved(s, "assigned") /\ ClientTo(c, "probe", s)
  <2>1. Moved(s, "assigned") BY <1>1, MoveEffect DEF ClaimPick, SetState, SlotStates
  <2>2. ClientTo(c, "probe", s) BY <1>1 DEF ClaimPick, ClientTo, ClientOnly, Client, ClientPcs,
                                   Types
  <2> QED BY <2>1, <2>2
<1>4. PoolTypeOK'
  BY <1>1, <1>2, <1>3 DEF PoolTypeOK, Handles, Moved, SlotOnly, ClientTo, ClientOnly
<1>5. Refs'
  BY <1>1, <1>2, <1>3, SlotAssumption DEF Refs, Emptying, Borne, Quiet, ClientTo, ClientOnly,
     IInv
<1>6. BornInHand' BY <1>1, <1>2, <1>3 DEF BornInHand, InHand, Borne, Moved, SlotOnly, IInv
<1>7. OutIsOut' BY <1>1, <1>2, <1>3 DEF OutIsOut, Moved, SlotOnly, IInv
<1>8. BornIsFree'
  BY <1>1, <1>2, <1>3, SlotAssumption DEF BornIsFree, Handles, Moved, SlotOnly, IInv
<1>9. Owners'
  BY <1>1, <1>2, <1>3, SlotAssumption DEF Owners, ByClient, ByReaper, ByTick, ByStop, Emptying,
     ClientTo, ClientOnly, IInv
<1>10. Apart'
  <2>1. Open
    BY <1>1 DEF IInv, Open, StopIsFinal, Active, In, Types, Stopper, StopPcs
  <2>2. \A d \in Clients : cl[d].slot # s
    BY <1>1, <2>1, SlotAssumption DEF IInv, OpenClients, Gone, Refs, Types, Client, ClientPcs
  <2> QED BY <1>1, <1>3, <2>2 DEF IInv, Apart, ClientTo, ClientOnly
<1>11. OpenWorkers' BY <1>1, <1>2, <1>3 DEF OpenWorkers, Open, Moved, SlotOnly, IInv
<1>12. OpenMarks' BY <1>1, <1>2, <1>3 DEF OpenMarks, Open, Gone, Moved, SlotOnly, IInv
<1>13. OpenClean' BY <1>1, <1>2, <1>3 DEF OpenClean, Open, Moved, SlotOnly, IInv
<1>14. OpenReapers'
  BY <1>1, <1>2, <1>3, SlotAssumption DEF OpenReapers, Open, Gone, Handles, Moved, SlotOnly,
     IInv
<1>15. OpenClients'
  BY <1>1, <1>2, <1>3, SlotAssumption DEF OpenClients, Open, Gone, Handles, Apart, Moved,
     SlotOnly, ClientTo, ClientOnly, OpenMarks, IInv
<1>16. OpenUpkeep'
  BY <1>1, <1>2, <1>3, SlotAssumption DEF OpenUpkeep, Open, Handles, Borne, Emptying, Moved,
     SlotOnly, ClientTo, ClientOnly, IInv
<1>17. OpenTodo'
  BY <1>1, <1>2, <1>3 DEF OpenTodo, Open, Gone, Handles, Emptying, Moved, SlotOnly, IInv
<1>18. StopIsFinal' BY <1>1, <1>2, <1>3 DEF StopIsFinal, Active, In, Moved, SlotOnly, IInv
<1>19. Counted'
  <2>1. Live' = Live
    BY <1>1, <1>3 DEF Moved, SlotOnly, Types, Live
  <2> QED BY <2>1, <1>2 DEF IInv, Counted, Spawning
<1>20. OnlyReadyServe' BY <1>1, <1>2, <1>3 DEF OnlyReadyServe, Moved, SlotOnly, IInv
<1>21. HandOuts'
  BY <1>1, <1>2, <1>3, SlotAssumption DEF HandOuts, Handles, Apart, Moved, SlotOnly, ClientTo,
     ClientOnly, OpenClean, Open, StopIsFinal, Active, In, Types, Stopper, StopPcs, IInv
<1>22. Counts' /\ Unwedged'
  BY <1>2 DEF IInv, Counts, Unwedged
<1>23. NoneAbove BY <1>1, <1>3 DEF NoneAbove, Moved, SlotOnly
<1> QED
  BY <1>4, <1>5, <1>6, <1>7, <1>8, <1>9, <1>10, <1>11, <1>12, <1>13, <1>14, <1>15, <1>16, <1>17,
     <1>18, <1>19, <1>20, <1>21, <1>22, <1>23 DEF IInv

\* The claimed slot answered: it is handed out as it was taken.
LEMMA ClaimAliveKept ==
  ASSUME IInv, NEW c \in Clients, ClaimAlive(c)
  PROVE  IInv' /\ NoneAbove
<1>1. /\ Types /\ Handles /\ PoolTypeOK
      /\ cl[c].pc = "probe"
  BY TypesHold, SlotAssumption DEF ClaimAlive, IInv, Types, Handles, Borne, Emptying
<1>2. UNCHANGED <<slot, reaping, deferred, held, suspected, tries, tk, rp, stop, inflight, size>>
  BY DEF ClaimAlive, queueVars, clientRest
<1>3. ClientTo(c, "hold", cl[c].slot)
  BY <1>1 , GoEffect DEF ClaimAlive, ClientPcs
<1>4. PoolTypeOK' BY <1>1, <1>2, <1>3 DEF PoolTypeOK, Handles, ClientTo, ClientOnly
<1>5. Refs'
  BY <1>1, <1>2, <1>3, SlotAssumption DEF Refs, Emptying, Borne, Quiet, ClientTo, ClientOnly,
     IInv
<1>6. Owners'
  BY <1>1, <1>2, <1>3, SlotAssumption DEF Owners, ByClient, ByReaper, ByTick, ByStop, Emptying,
     ClientTo, ClientOnly, IInv
<1>7. Apart' BY <1>1, <1>2, <1>3, SlotAssumption DEF Apart, ClientTo, ClientOnly, IInv
<1>8. OpenClients'
  BY <1>1, <1>2, <1>3, SlotAssumption DEF OpenClients, Open, Gone, Handles, Apart, ClientTo,
     ClientOnly, IInv
<1>9. OpenUpkeep'
  BY <1>1, <1>2, <1>3, SlotAssumption DEF OpenUpkeep, Open, Handles, Borne, Emptying, ClientTo,
     ClientOnly, IInv
<1>10. HandOuts'
  BY <1>1, <1>2, <1>3, SlotAssumption DEF HandOuts, Handles, Apart, ClientTo, ClientOnly, IInv
<1>11. Counts' /\ BornInHand' /\ OutIsOut' /\ BornIsFree' /\ OpenWorkers' /\ OpenMarks'
      /\ OpenClean' /\ OpenReapers' /\ OpenTodo' /\ StopIsFinal' /\ Unwedged' /\ Counted'
      /\ OnlyReadyServe'
  BY <1>2 DEF IInv, Counts, BornInHand, InHand, Borne, Emptying, OutIsOut, OutSlot, BornIsFree,
     Handles, OpenWorkers, Open, OpenMarks, Gone, OpenClean, Clean, OpenReapers, OpenTodo,
     StopIsFinal, Active, In, Unwedged, Counted, Live, Spawning, OnlyReadyServe
<1>12. NoneAbove BY <1>2 DEF NoneAbove
<1> QED
  BY <1>4, <1>5, <1>6, <1>7, <1>8, <1>9, <1>10, <1>11, <1>12 DEF IInv

\* The claimed slot is put back because nothing is known about it.
LEMMA ClaimUnknownKept ==
  ASSUME IInv, NEW c \in Clients, ClaimUnknown(c)
  PROVE  IInv' /\ NoneAbove
<1> DEFINE s == cl[c].slot
<1>1. /\ Types /\ Handles /\ PoolTypeOK
      /\ cl[c].pc = "probe"
      /\ s \in Slots
  BY TypesHold, SlotAssumption DEF ClaimUnknown, IInv, Types, Handles, Borne, Emptying
<1>2. UNCHANGED <<reaping, deferred, held, suspected, tries, tk, rp, stop, inflight, size>>
  BY DEF ClaimUnknown, queueVars, clientRest
<1>3. /\ ClientFree(c)
      /\ \/ slot[s].st = "assigned" /\ Moved(s, "idle")
         \/ slot[s].st # "assigned" /\ slot' = slot
  BY <1>1 , DoneEffect, MoveEffect DEF ClaimUnknown, SlotStates
<1> HIDE DEF s
<1>4. PoolTypeOK'
  BY <1>1, <1>2, <1>3 DEF PoolTypeOK, Handles, Moved, SlotOnly, ClientFree, ClientOnly, s
<1>5. Refs'
  BY <1>1, <1>2, <1>3, SlotAssumption DEF Refs, Emptying, Borne, Quiet, ClientFree, ClientOnly,
     s, IInv
<1>6. BornInHand' BY <1>1, <1>2, <1>3 DEF BornInHand, InHand, Borne, Moved, SlotOnly, s, IInv
<1>7. OutIsOut' BY <1>1, <1>2, <1>3 DEF OutIsOut, Moved, SlotOnly, s, IInv
<1>8. BornIsFree'
  BY <1>1, <1>2, <1>3, SlotAssumption DEF BornIsFree, Handles, Moved, SlotOnly, s, IInv
<1>9. Owners'
  BY <1>1, <1>2, <1>3, SlotAssumption DEF Owners, ByClient, ByReaper, ByTick, ByStop, Emptying,
     ClientFree, ClientOnly, s, IInv
<1>10. Apart' BY <1>1, <1>2, <1>3, SlotAssumption DEF Apart, ClientFree, ClientOnly, s, IInv
<1>11. OpenWorkers' BY <1>1, <1>2, <1>3 DEF OpenWorkers, Open, Moved, SlotOnly, s, IInv
<1>12. OpenMarks' BY <1>1, <1>2, <1>3 DEF OpenMarks, Open, Gone, Moved, SlotOnly, s, IInv
<1>13. OpenClean' BY <1>1, <1>2, <1>3 DEF OpenClean, Open, Moved, SlotOnly, HandOuts, s, IInv
<1>14. OpenReapers'
  BY <1>1, <1>2, <1>3, SlotAssumption DEF OpenReapers, Open, Gone, Handles, Moved, SlotOnly, s,
     IInv
<1>15. OpenClients'
  BY <1>1, <1>2, <1>3, SlotAssumption DEF OpenClients, Open, Gone, Handles, Apart, Moved,
     SlotOnly, ClientFree, ClientOnly, s, IInv
<1>16. OpenUpkeep'
  BY <1>1, <1>2, <1>3, SlotAssumption DEF OpenUpkeep, Open, Handles, Borne, Emptying, Moved,
     SlotOnly, ClientFree, ClientOnly, s, IInv
<1>17. OpenTodo'
  BY <1>1, <1>2, <1>3 DEF OpenTodo, Open, Gone, Handles, Emptying, Moved, SlotOnly, s, IInv
<1>18. StopIsFinal' BY <1>1, <1>2, <1>3 DEF StopIsFinal, Active, In, Moved, SlotOnly, s, IInv
<1>19. Counted'
  <2>1. Live' = Live
    BY <1>1, <1>3 DEF Moved, SlotOnly, Types, Live
  <2> QED BY <2>1, <1>2 DEF IInv, Counted, Spawning
<1>20. OnlyReadyServe' BY <1>1, <1>2, <1>3 DEF OnlyReadyServe, Moved, SlotOnly, s, IInv
<1>21. HandOuts'
  BY <1>1, <1>2, <1>3, SlotAssumption DEF HandOuts, Handles, Apart, Moved, SlotOnly, ClientFree,
     ClientOnly, s, IInv
<1>22. Counts' /\ Unwedged'
  BY <1>2 DEF IInv, Counts, Unwedged
<1>23. NoneAbove BY <1>1, <1>3 DEF NoneAbove, Moved, SlotOnly
<1> QED
  BY <1>4, <1>5, <1>6, <1>7, <1>8, <1>9, <1>10, <1>11, <1>12, <1>13, <1>14, <1>15, <1>16, <1>17,
     <1>18, <1>19, <1>20, <1>21, <1>22, <1>23 DEF IInv

\* unclaim: a slot that was not used goes back as clean as it came.
LEMMA UnclaimKept ==
  ASSUME IInv, NEW c \in Clients, Unclaim(c)
  PROVE  IInv' /\ NoneAbove
<1> DEFINE s == cl[c].slot
<1>1. /\ Types /\ Handles /\ PoolTypeOK
      /\ cl[c].pc = "hold"
      /\ s \in Slots
  BY TypesHold, SlotAssumption DEF Unclaim, IInv, Types, Handles, Borne, Emptying
<1>2. UNCHANGED <<reaping, deferred, held, suspected, tries, tk, rp, stop, inflight, size>>
  BY DEF Unclaim, queueVars, clientRest
<1>3. /\ ClientFree(c)
      /\ \/ slot[s].st = "assigned" /\ Moved(s, "idle")
         \/ slot[s].st # "assigned" /\ slot' = slot
  BY <1>1 , DoneEffect, MoveEffect DEF Unclaim, SlotStates
<1> HIDE DEF s
<1>4. PoolTypeOK'
  BY <1>1, <1>2, <1>3 DEF PoolTypeOK, Handles, Moved, SlotOnly, ClientFree, ClientOnly, s
<1>5. Refs'
  BY <1>1, <1>2, <1>3, SlotAssumption DEF Refs, Emptying, Borne, Quiet, ClientFree, ClientOnly,
     s, IInv
<1>6. BornInHand' BY <1>1, <1>2, <1>3 DEF BornInHand, InHand, Borne, Moved, SlotOnly, s, IInv
<1>7. OutIsOut' BY <1>1, <1>2, <1>3 DEF OutIsOut, Moved, SlotOnly, s, IInv
<1>8. BornIsFree'
  BY <1>1, <1>2, <1>3, SlotAssumption DEF BornIsFree, Handles, Moved, SlotOnly, s, IInv
<1>9. Owners'
  BY <1>1, <1>2, <1>3, SlotAssumption DEF Owners, ByClient, ByReaper, ByTick, ByStop, Emptying,
     ClientFree, ClientOnly, s, IInv
<1>10. Apart' BY <1>1, <1>2, <1>3, SlotAssumption DEF Apart, ClientFree, ClientOnly, s, IInv
<1>11. OpenWorkers' BY <1>1, <1>2, <1>3 DEF OpenWorkers, Open, Moved, SlotOnly, s, IInv
<1>12. OpenMarks' BY <1>1, <1>2, <1>3 DEF OpenMarks, Open, Gone, Moved, SlotOnly, s, IInv
<1>13. OpenClean' BY <1>1, <1>2, <1>3 DEF OpenClean, Open, Moved, SlotOnly, HandOuts, s, IInv
<1>14. OpenReapers'
  BY <1>1, <1>2, <1>3, SlotAssumption DEF OpenReapers, Open, Gone, Handles, Moved, SlotOnly, s,
     IInv
<1>15. OpenClients'
  BY <1>1, <1>2, <1>3, SlotAssumption DEF OpenClients, Open, Gone, Handles, Apart, Moved,
     SlotOnly, ClientFree, ClientOnly, s, IInv
<1>16. OpenUpkeep'
  BY <1>1, <1>2, <1>3, SlotAssumption DEF OpenUpkeep, Open, Handles, Borne, Emptying, Moved,
     SlotOnly, ClientFree, ClientOnly, s, IInv
<1>17. OpenTodo'
  BY <1>1, <1>2, <1>3 DEF OpenTodo, Open, Gone, Handles, Emptying, Moved, SlotOnly, s, IInv
<1>18. StopIsFinal' BY <1>1, <1>2, <1>3 DEF StopIsFinal, Active, In, Moved, SlotOnly, s, IInv
<1>19. Counted'
  <2>1. Live' = Live
    BY <1>1, <1>3 DEF Moved, SlotOnly, Types, Live
  <2> QED BY <2>1, <1>2 DEF IInv, Counted, Spawning
<1>20. OnlyReadyServe' BY <1>1, <1>2, <1>3 DEF OnlyReadyServe, Moved, SlotOnly, s, IInv
<1>21. HandOuts'
  BY <1>1, <1>2, <1>3, SlotAssumption DEF HandOuts, Handles, Apart, Moved, SlotOnly, ClientFree,
     ClientOnly, s, IInv
<1>22. Counts' /\ Unwedged'
  BY <1>2 DEF IInv, Counts, Unwedged
<1>23. NoneAbove BY <1>1, <1>3 DEF NoneAbove, Moved, SlotOnly
<1> QED
  BY <1>4, <1>5, <1>6, <1>7, <1>8, <1>9, <1>10, <1>11, <1>12, <1>13, <1>14, <1>15, <1>16, <1>17,
     <1>18, <1>19, <1>20, <1>21, <1>22, <1>23 DEF IInv

\* The claimed slot is dead: it is drained and queued for a reaper.
LEMMA ClaimDeadKept ==
  ASSUME IInv, NEW c \in Clients, ClaimDead(c)
  PROVE  IInv' /\ NoneAbove
<1> DEFINE s == cl[c].slot
<1>1. /\ Types /\ Handles /\ PoolTypeOK
      /\ cl[c].pc = "probe"
      /\ s \in Slots
  BY TypesHold, SlotAssumption DEF ClaimDead, IInv, Types, Handles, Borne, Emptying
<1>2. UNCHANGED <<reaping, held, suspected, tries, tk, rp, stop, inflight, size>>
  BY DEF ClaimDead, clientRest
<1>3. /\ ClientFree(c)
      /\ deferred' = IF Stopping THEN deferred ELSE deferred \cup {s}
      /\ \/ Seen(s) /\ Moved(s, "draining")
         \/ ~Seen(s) /\ slot' = slot
  BY <1>1 , DoneEffect, MoveEffect, TrackedSeen DEF ClaimDead, SlotStates, Queue
<1> HIDE DEF s
<1>4. PoolTypeOK'
  BY <1>1, <1>2, <1>3 DEF PoolTypeOK, Handles, Moved, SlotOnly, ClientFree, ClientOnly, Seen, s
<1>5. Refs'
  BY <1>1, <1>2, <1>3, SlotAssumption DEF Refs, Emptying, Borne, Quiet, ClientFree, ClientOnly,
     s, IInv
<1>6. BornInHand'
  BY <1>1, <1>2, <1>3 DEF BornInHand, InHand, Borne, Moved, SlotOnly, Seen, s, IInv
<1>7. OutIsOut' BY <1>1, <1>2, <1>3 DEF OutIsOut, Moved, SlotOnly, Seen, s, IInv
<1>8. BornIsFree'
  BY <1>1, <1>2, <1>3, SlotAssumption DEF BornIsFree, Handles, Moved, SlotOnly, Seen, s, IInv
<1>9. Owners'
  BY <1>1, <1>2, <1>3, SlotAssumption DEF Owners, ByClient, ByReaper, ByTick, ByStop, Emptying,
     ClientFree, ClientOnly, s, IInv
<1>10. Apart' BY <1>1, <1>2, <1>3, SlotAssumption DEF Apart, ClientFree, ClientOnly, s, IInv
<1>11. OpenWorkers' BY <1>1, <1>2, <1>3 DEF OpenWorkers, Open, Moved, SlotOnly, Seen, s, IInv
<1>12. OpenMarks'
  BY <1>1, <1>2, <1>3, SlotAssumption DEF OpenMarks, Open, Gone, Moved, SlotOnly, Seen,
     OpenClients, s, IInv
<1>13. OpenClean' BY <1>1, <1>2, <1>3 DEF OpenClean, Open, Moved, SlotOnly, Seen, s, IInv
<1>14. OpenReapers'
  BY <1>1, <1>2, <1>3, SlotAssumption DEF OpenReapers, Open, Gone, Handles, Moved, SlotOnly,
     Seen, OpenClients, s, IInv
<1>15. OpenClients'
  BY <1>1, <1>2, <1>3, SlotAssumption DEF OpenClients, Open, Gone, Handles, Apart, Moved,
     SlotOnly, ClientFree, ClientOnly, Seen, s, IInv
<1>16. OpenUpkeep'
  BY <1>1, <1>2, <1>3, SlotAssumption DEF OpenUpkeep, Open, Handles, Borne, Emptying, Moved,
     SlotOnly, ClientFree, ClientOnly, Seen, s, IInv
<1>17. OpenTodo'
  BY <1>1, <1>2, <1>3, SlotAssumption DEF OpenTodo, Open, Gone, Handles, Emptying, Moved,
     SlotOnly, Seen, OpenClients, s, IInv
<1>18. StopIsFinal'
  BY <1>1, <1>2, <1>3 DEF StopIsFinal, Active, In, Moved, SlotOnly, Seen, s, IInv
<1>19. Counted'
  <2>1. Live' = Live
    BY <1>1, <1>3 DEF Moved, SlotOnly, Types, Live
  <2> QED BY <2>1, <1>2 DEF IInv, Counted, Spawning
<1>20. OnlyReadyServe' BY <1>1, <1>2, <1>3 DEF OnlyReadyServe, Moved, SlotOnly, Seen, s, IInv
<1>21. HandOuts'
  BY <1>1, <1>2, <1>3, SlotAssumption DEF HandOuts, Handles, Apart, Moved, SlotOnly, ClientFree,
     ClientOnly, Seen, s, IInv
<1>22. Counts' /\ Unwedged'
  BY <1>2 DEF IInv, Counts, Unwedged
<1>23. NoneAbove BY <1>1, <1>3 DEF NoneAbove, Moved, SlotOnly, Seen
<1> QED
  BY <1>4, <1>5, <1>6, <1>7, <1>8, <1>9, <1>10, <1>11, <1>12, <1>13, <1>14, <1>15, <1>16, <1>17,
     <1>18, <1>19, <1>20, <1>21, <1>22, <1>23 DEF IInv

\* release: the slot is dirty or used from here on, and still the client's.
LEMMA ReleaseKept ==
  ASSUME IInv, NEW c \in Clients, Release(c)
  PROVE  IInv' /\ NoneAbove
<1> DEFINE s == cl[c].slot
<1>1. /\ Types /\ Handles /\ PoolTypeOK
      /\ cl[c].pc = "hold"
      /\ s \in Slots
  BY TypesHold, SlotAssumption DEF Release, IInv, Types, Handles, Borne, Emptying
<1>2. UNCHANGED <<reaping, deferred, held, suspected, tries, tk, rp, stop, inflight, size>>
  BY DEF Release, queueVars, clientRest
<1>3. \/ /\ Seen(s) /\ SlotOnly(s)
         /\ slot'[s].st = slot[s].st /\ slot'[s].worker = slot[s].worker
         /\ slot'[s].ready = slot[s].ready
         /\ ClientTo(c, "recycle", s) \/ ClientTo(c, "drain", s)
      \/ /\ ~Seen(s) /\ slot' = slot
         /\ ClientTo(c, "drain", s)
  <2> DEFINE w(n, t) == [slot[s] EXCEPT !.jobs = n, !.taint = t]
  <2>1. slot[s] \in SlotRecords BY <1>1 DEF Types
  <2>2. ASSUME NEW n \in 0..MaxJobsPerSlot, NEW t \in {"used", "dirty"}
        PROVE  /\ w(n, t) \in SlotRecords /\ w(n, t).st = slot[s].st
               /\ w(n, t).worker = slot[s].worker /\ w(n, t).ready = slot[s].ready
    BY <2>1 DEF SlotRecords
  <2>3. Least(slot[s].jobs + 1, MaxJobsPerSlot) \in 0..MaxJobsPerSlot
    BY <2>1, PoolAssumption DEF SlotRecords, Least
  <2>4. \/ /\ Seen(s)
           /\ \E n \in 0..MaxJobsPerSlot, t \in {"used", "dirty"} :
                slot' = [slot EXCEPT ![s] = w(n, t)]
           /\ CGo(c, "recycle") \/ CGo(c, "drain")
        \/ ~Seen(s) /\ slot' = slot /\ CGo(c, "drain")
    <3> DEFINE n == Least(slot[s].jobs + 1, MaxJobsPerSlot)
    <3>1. \E dirty \in BOOLEAN :
            slot' = IF s \in Tracked
                      THEN [slot EXCEPT ![s] = w(n, IF dirty THEN "dirty" ELSE "used")] ELSE slot
      BY <1>1 DEF Release
    <3>2. CGo(c, "recycle") \/ CGo(c, "drain")
      BY DEF Release
    <3>3. ~Seen(s) => CGo(c, "drain")
      BY <1>1, TrackedSeen DEF Release
    <3> HIDE DEF w, n
    <3> QED BY <1>1, <2>3, <3>1, <3>2, <3>3, TrackedSeen DEF n
  <2> HIDE DEF w
  <2> QED BY <1>1, <2>2, <2>4, GoEffect DEF ClientPcs, Types, SlotOnly
<1> HIDE DEF s
<1>4. PoolTypeOK'
  BY <1>1, <1>2, <1>3 DEF PoolTypeOK, Handles, SlotOnly, ClientTo, ClientOnly, Seen, s
<1>5. Refs'
  BY <1>1, <1>2, <1>3, SlotAssumption DEF Refs, Emptying, Borne, Quiet, ClientTo, ClientOnly, s,
     IInv
<1>6. BornInHand' BY <1>1, <1>2, <1>3 DEF BornInHand, InHand, Borne, SlotOnly, Seen, s, IInv
<1>7. OutIsOut'
  BY <1>1, <1>2, <1>3, SlotAssumption DEF OutIsOut, SlotOnly, Seen, OpenClients, Open,
     StopIsFinal, Active, In, Types, Stopper, StopPcs, s, IInv
<1>8. BornIsFree'
  BY <1>1, <1>2, <1>3, SlotAssumption DEF BornIsFree, Handles, SlotOnly, Seen, s, IInv
<1>9. Owners'
  BY <1>1, <1>2, <1>3, SlotAssumption DEF Owners, ByClient, ByReaper, ByTick, ByStop, Emptying,
     ClientTo, ClientOnly, s, IInv
<1>10. Apart' BY <1>1, <1>2, <1>3, SlotAssumption DEF Apart, ClientTo, ClientOnly, s, IInv
<1>11. OpenWorkers' BY <1>1, <1>2, <1>3 DEF OpenWorkers, Open, SlotOnly, Seen, s, IInv
<1>12. OpenMarks' BY <1>1, <1>2, <1>3 DEF OpenMarks, Open, Gone, SlotOnly, Seen, s, IInv
<1>13. OpenClean'
  BY <1>1, <1>2, <1>3, SlotAssumption DEF OpenClean, Open, SlotOnly, Seen, OpenClients,
     OnlyReadyServe, s, IInv
<1>14. OpenReapers'
  BY <1>1, <1>2, <1>3, SlotAssumption DEF OpenReapers, Open, Gone, Handles, SlotOnly, Seen, s,
     IInv
<1>15. OpenClients'
  BY <1>1, <1>2, <1>3, SlotAssumption DEF OpenClients, Open, Gone, Handles, Apart, SlotOnly,
     ClientTo, ClientOnly, Seen, s, IInv
<1>16. OpenUpkeep'
  BY <1>1, <1>2, <1>3, SlotAssumption DEF OpenUpkeep, Open, Handles, Borne, Emptying, SlotOnly,
     ClientTo, ClientOnly, Seen, s, IInv
<1>17. OpenTodo'
  BY <1>1, <1>2, <1>3 DEF OpenTodo, Open, Gone, Handles, Emptying, SlotOnly, Seen, s, IInv
<1>18. StopIsFinal' BY <1>1, <1>2, <1>3 DEF StopIsFinal, Active, In, SlotOnly, Seen, s, IInv
<1>19. Counted'
  <2>1. Live' = Live
    BY <1>1, <1>3 DEF SlotOnly, Types, Live
  <2> QED BY <2>1, <1>2 DEF IInv, Counted, Spawning
<1>20. OnlyReadyServe' BY <1>1, <1>2, <1>3 DEF OnlyReadyServe, SlotOnly, Seen, s, IInv
<1>21. HandOuts'
  BY <1>1, <1>2, <1>3, SlotAssumption DEF HandOuts, Handles, Apart, SlotOnly, ClientTo,
     ClientOnly, Seen, s, IInv
<1>22. Counts' /\ Unwedged'
  BY <1>2 DEF IInv, Counts, Unwedged
<1>23. NoneAbove BY <1>1, <1>3 DEF NoneAbove, SlotOnly, Seen
<1> QED
  BY <1>4, <1>5, <1>6, <1>7, <1>8, <1>9, <1>10, <1>11, <1>12, <1>13, <1>14, <1>15, <1>16, <1>17,
     <1>18, <1>19, <1>20, <1>21, <1>22, <1>23 DEF IInv

\* recycle: what goes back is clean.
LEMMA RecycleKept ==
  ASSUME IInv, NEW c \in Clients, Recycle(c)
  PROVE  IInv' /\ NoneAbove
<1> DEFINE s == cl[c].slot
<1>1. /\ Types /\ Handles /\ PoolTypeOK
      /\ cl[c].pc = "recycle"
      /\ s \in Slots
  BY TypesHold, SlotAssumption DEF Recycle, IInv, Types, Handles, Borne, Emptying
<1>2. UNCHANGED <<reaping, deferred, held, suspected, tries, tk, rp, stop, inflight, size>>
  BY DEF Recycle, queueVars, clientRest
<1>3. \/ /\ slot[s].st = "assigned" /\ SlotOnly(s) /\ ClientFree(c)
         /\ slot'[s].st = "idle" /\ slot'[s].worker = slot[s].worker
         /\ slot'[s].ready = slot[s].ready
         /\ Clean(slot'[s]) /\ (slot[s].taint = "fresh" => slot'[s].taint = "fresh")
      \/ slot' = slot /\ ClientTo(c, "drain", s)
  <2> DEFINE w(t) == [slot[s] EXCEPT !.st = "idle", !.taint = t]
  <2>1. slot[s] \in SlotRecords BY <1>1 DEF Types
  <2>2. ASSUME NEW t \in {"fresh", "used", "dirty"}
        PROVE  /\ w(t) \in SlotRecords /\ w(t).st = "idle" /\ w(t).taint = t
               /\ w(t).jobs = slot[s].jobs
               /\ w(t).worker = slot[s].worker /\ w(t).ready = slot[s].ready
    BY <2>1 DEF SlotRecords, SlotStates
  <2> DEFINE t == IF NeedsReset(s) THEN "fresh" ELSE slot[s].taint
  <2>3. t \in {"fresh", "used", "dirty"} /\ (slot[s].taint = "fresh" => t = "fresh")
    BY <2>1 DEF SlotRecords
  <2>4. \/ slot[s].st = "assigned" /\ slot' = [slot EXCEPT ![s] = w(t)] /\ CDone(c)
        \/ slot' = slot /\ CGo(c, "drain")
    BY <1>1, <2>1, TrackedSeen DEF Recycle, SlotRecords
  <2> HIDE DEF w
  <2>5. Clean(w(t))
    BY <2>1, <2>2, <2>3 DEF Clean, NeedsReset, SlotRecords
  <2> HIDE DEF t
  <2> QED BY <1>1, <2>2, <2>3, <2>4, <2>5, GoEffect, DoneEffect DEF ClientPcs, Types, SlotOnly
<1> HIDE DEF s
<1>4. PoolTypeOK'
  BY <1>1, <1>2, <1>3 DEF PoolTypeOK, Handles, SlotOnly, ClientTo, ClientOnly, ClientFree, s
<1>5. Refs'
  BY <1>1, <1>2, <1>3, SlotAssumption DEF Refs, Emptying, Borne, Quiet, ClientTo, ClientOnly,
     ClientFree, s, IInv
<1>6. BornInHand' BY <1>1, <1>2, <1>3 DEF BornInHand, InHand, Borne, SlotOnly, s, IInv
<1>7. OutIsOut' BY <1>1, <1>2, <1>3 DEF OutIsOut, SlotOnly, s, IInv
<1>8. BornIsFree' BY <1>1, <1>2, <1>3, SlotAssumption DEF BornIsFree, Handles, SlotOnly, s, IInv
<1>9. Owners'
  BY <1>1, <1>2, <1>3, SlotAssumption DEF Owners, ByClient, ByReaper, ByTick, ByStop, Emptying,
     ClientTo, ClientOnly, ClientFree, s, IInv
<1>10. Apart'
  BY <1>1, <1>2, <1>3, SlotAssumption DEF Apart, ClientTo, ClientOnly, ClientFree, s, IInv
<1>11. OpenWorkers' BY <1>1, <1>2, <1>3 DEF OpenWorkers, Open, SlotOnly, s, IInv
<1>12. OpenMarks' BY <1>1, <1>2, <1>3 DEF OpenMarks, Open, Gone, SlotOnly, s, IInv
<1>13. OpenClean' BY <1>1, <1>2, <1>3 DEF OpenClean, Open, SlotOnly, s, IInv
<1>14. OpenReapers'
  BY <1>1, <1>2, <1>3, SlotAssumption DEF OpenReapers, Open, Gone, Handles, SlotOnly, s, IInv
<1>15. OpenClients'
  BY <1>1, <1>2, <1>3, SlotAssumption DEF OpenClients, Open, Gone, Handles, Apart, SlotOnly,
     ClientTo, ClientOnly, ClientFree, s, IInv
<1>16. OpenUpkeep'
  BY <1>1, <1>2, <1>3, SlotAssumption DEF OpenUpkeep, Open, Handles, Borne, Emptying, SlotOnly,
     ClientTo, ClientOnly, ClientFree, s, IInv
<1>17. OpenTodo'
  BY <1>1, <1>2, <1>3 DEF OpenTodo, Open, Gone, Handles, Emptying, SlotOnly, s, IInv
<1>18. StopIsFinal' BY <1>1, <1>2, <1>3 DEF StopIsFinal, Active, In, SlotOnly, s, IInv
<1>19. Counted'
  <2>1. Live' = Live
    BY <1>1, <1>3 DEF SlotOnly, Types, Live
  <2> QED BY <2>1, <1>2 DEF IInv, Counted, Spawning
<1>20. OnlyReadyServe' BY <1>1, <1>2, <1>3 DEF OnlyReadyServe, SlotOnly, s, IInv
<1>21. HandOuts'
  BY <1>1, <1>2, <1>3, SlotAssumption DEF HandOuts, Handles, Apart, SlotOnly, ClientTo,
     ClientOnly, ClientFree, s, IInv
<1>22. Counts' /\ Unwedged'
  BY <1>2 DEF IInv, Counts, Unwedged
<1>23. NoneAbove BY <1>1, <1>3 DEF NoneAbove, SlotOnly
<1> QED
  BY <1>4, <1>5, <1>6, <1>7, <1>8, <1>9, <1>10, <1>11, <1>12, <1>13, <1>14, <1>15, <1>16, <1>17,
     <1>18, <1>19, <1>20, <1>21, <1>22, <1>23 DEF IInv

\* The end of release, and retire: the slot leaves the books of usable ones.
LEMMA DrainKept ==
  ASSUME IInv, NEW c \in Clients, Drain(c)
  PROVE  IInv' /\ NoneAbove
<1> DEFINE s == cl[c].slot
<1>1. /\ Types /\ Handles /\ PoolTypeOK
      /\ cl[c].pc \in {"drain", "hold"}
      /\ s \in Slots
  BY TypesHold, SlotAssumption DEF Drain, IInv, Types, Handles, Borne, Emptying
<1>2. UNCHANGED <<reaping, deferred, held, suspected, tries, tk, rp, stop, inflight, size>>
  BY DEF Drain, queueVars, clientRest
<1>3. \/ Seen(s) /\ Moved(s, "draining") /\ ClientTo(c, "reap", s)
      \/ ~Seen(s) /\ slot' = slot /\ ClientFree(c)
  BY <1>1 , GoEffect, DoneEffect, MoveEffect, TrackedSeen DEF Drain, ClientPcs, SlotStates,
     SetState
<1> HIDE DEF s
<1>4. PoolTypeOK'
  BY <1>1, <1>2, <1>3 DEF PoolTypeOK, Handles, Moved, SlotOnly, ClientTo, ClientOnly,
     ClientFree, Seen, s
<1>5. Refs'
  BY <1>1, <1>2, <1>3, SlotAssumption DEF Refs, Emptying, Borne, Quiet, ClientTo, ClientOnly,
     ClientFree, s, IInv
<1>6. BornInHand'
  BY <1>1, <1>2, <1>3 DEF BornInHand, InHand, Borne, Moved, SlotOnly, Seen, s, IInv
<1>7. OutIsOut' BY <1>1, <1>2, <1>3 DEF OutIsOut, Moved, SlotOnly, Seen, s, IInv
<1>8. BornIsFree'
  BY <1>1, <1>2, <1>3, SlotAssumption DEF BornIsFree, Handles, Moved, SlotOnly, Seen, s, IInv
<1>9. Owners'
  BY <1>1, <1>2, <1>3, SlotAssumption DEF Owners, ByClient, ByReaper, ByTick, ByStop, Emptying,
     ClientTo, ClientOnly, ClientFree, s, IInv
<1>10. Apart'
  BY <1>1, <1>2, <1>3, SlotAssumption DEF Apart, ClientTo, ClientOnly, ClientFree, s, IInv
<1>11. OpenWorkers' BY <1>1, <1>2, <1>3 DEF OpenWorkers, Open, Moved, SlotOnly, Seen, s, IInv
<1>12. OpenMarks' BY <1>1, <1>2, <1>3 DEF OpenMarks, Open, Gone, Moved, SlotOnly, Seen, s, IInv
<1>13. OpenClean' BY <1>1, <1>2, <1>3 DEF OpenClean, Open, Moved, SlotOnly, Seen, s, IInv
<1>14. OpenReapers'
  BY <1>1, <1>2, <1>3, SlotAssumption DEF OpenReapers, Open, Gone, Handles, Moved, SlotOnly,
     Seen, s, IInv
<1>15. OpenClients'
  BY <1>1, <1>2, <1>3, SlotAssumption DEF OpenClients, Open, Gone, Handles, Apart, Moved,
     SlotOnly, ClientTo, ClientOnly, ClientFree, Seen, s, IInv
<1>16. OpenUpkeep'
  BY <1>1, <1>2, <1>3, SlotAssumption DEF OpenUpkeep, Open, Handles, Borne, Emptying, Moved,
     SlotOnly, ClientTo, ClientOnly, ClientFree, Seen, s, IInv
<1>17. OpenTodo'
  BY <1>1, <1>2, <1>3, SlotAssumption DEF OpenTodo, Open, Gone, Handles, Emptying, Moved,
     SlotOnly, Seen, OpenClients, s, IInv
<1>18. StopIsFinal'
  BY <1>1, <1>2, <1>3 DEF StopIsFinal, Active, In, Moved, SlotOnly, Seen, s, IInv
<1>19. Counted'
  <2>1. Live' = Live
    BY <1>1, <1>3 DEF Moved, SlotOnly, Types, Live
  <2> QED BY <2>1, <1>2 DEF IInv, Counted, Spawning
<1>20. OnlyReadyServe' BY <1>1, <1>2, <1>3 DEF OnlyReadyServe, Moved, SlotOnly, Seen, s, IInv
<1>21. HandOuts'
  BY <1>1, <1>2, <1>3, SlotAssumption DEF HandOuts, Handles, Apart, Moved, SlotOnly, ClientTo,
     ClientOnly, ClientFree, Seen, s, IInv
<1>22. Counts' /\ Unwedged'
  BY <1>2 DEF IInv, Counts, Unwedged
<1>23. NoneAbove BY <1>1, <1>3 DEF NoneAbove, Moved, SlotOnly, Seen
<1> QED
  BY <1>4, <1>5, <1>6, <1>7, <1>8, <1>9, <1>10, <1>11, <1>12, <1>13, <1>14, <1>15, <1>16, <1>17,
     <1>18, <1>19, <1>20, <1>21, <1>22, <1>23 DEF IInv

\* A dispatch thread becomes the owner of the disposal, or somebody else is.
LEMMA ClientReapKept ==
  ASSUME IInv, NEW c \in Clients, ClientReap(c)
  PROVE  IInv' /\ NoneAbove
<1> DEFINE s == cl[c].slot
<1>1. /\ Types /\ Handles /\ PoolTypeOK
      /\ cl[c].pc = "reap"
      /\ s \in Slots
  BY TypesHold, SlotAssumption DEF ClientReap, IInv, Types, Handles, Borne, Emptying
<1>2. UNCHANGED <<slot, deferred, held, suspected, tries, tk, rp, stop, inflight, size>>
  BY DEF ClientReap, queueVars, clientRest
<1>3. \/ Seen(s) /\ s \notin reaping /\ reaping' = reaping \cup {s} /\ ClientTo(c, "reaping", s)
      \/ reaping' = reaping /\ ClientFree(c)
  BY <1>1 , GoEffect, DoneEffect, TrackedSeen DEF ClientReap, MayReap, ClientPcs
<1> HIDE DEF s
<1>4. PoolTypeOK'
  BY <1>1, <1>2, <1>3 DEF PoolTypeOK, Handles, ClientTo, ClientOnly, ClientFree, Seen, s
<1>5. Refs'
  BY <1>1, <1>2, <1>3, SlotAssumption DEF Refs, Emptying, Borne, Quiet, ClientTo, ClientOnly,
     ClientFree, s, IInv
<1>6. BornIsFree' BY <1>1, <1>2, <1>3, SlotAssumption DEF BornIsFree, Handles, Seen, s, IInv
<1>7. Owners'
  BY <1>1, <1>2, <1>3, SlotAssumption DEF Owners, ByClient, ByReaper, ByTick, ByStop, Emptying,
     ClientTo, ClientOnly, ClientFree, s, IInv
<1>8. Apart'
  BY <1>1, <1>2, <1>3, SlotAssumption DEF Apart, ClientTo, ClientOnly, ClientFree, s, IInv
<1>9. OpenMarks'
  BY <1>1, <1>2, <1>3, SlotAssumption DEF OpenMarks, Open, Gone, Seen, OpenClients, s, IInv
<1>10. OpenClients'
  BY <1>1, <1>2, <1>3, SlotAssumption DEF OpenClients, Open, Gone, Handles, Apart, ClientTo,
     ClientOnly, ClientFree, Seen, s, IInv
<1>11. OpenUpkeep'
  BY <1>1, <1>2, <1>3, SlotAssumption DEF OpenUpkeep, Open, Handles, Borne, Emptying, ClientTo,
     ClientOnly, ClientFree, Seen, s, IInv
<1>12. HandOuts'
  BY <1>1, <1>2, <1>3, SlotAssumption DEF HandOuts, Handles, Apart, ClientTo, ClientOnly,
     ClientFree, Seen, s, IInv
<1>13. Counts' /\ BornInHand' /\ OutIsOut' /\ OpenWorkers' /\ OpenClean' /\ OpenReapers'
      /\ OpenTodo' /\ StopIsFinal' /\ Unwedged' /\ Counted' /\ OnlyReadyServe'
  BY <1>2 DEF IInv, Counts, BornInHand, InHand, Borne, Emptying, OutIsOut, OutSlot, OpenWorkers,
     Open, OpenClean, Clean, OpenReapers, Gone, Handles, OpenTodo, StopIsFinal, Active, In,
     Unwedged, Counted, Live, Spawning, OnlyReadyServe
<1>14. NoneAbove BY <1>2 DEF NoneAbove
<1> QED
  BY <1>4, <1>5, <1>6, <1>7, <1>8, <1>9, <1>10, <1>11, <1>12, <1>13, <1>14 DEF IInv

\* Its disposal ends, well or not.
LEMMA ClientReapedKept ==
  ASSUME IInv, NEW c \in Clients, ClientReaped(c)
  PROVE  IInv' /\ NoneAbove
<1> DEFINE s == cl[c].slot
<1>1. /\ Types /\ Handles /\ PoolTypeOK
      /\ cl[c].pc = "reaping"
      /\ s \in Slots
  BY TypesHold, SlotAssumption DEF ClientReaped, IInv, Types, Handles, Borne, Emptying
<1>2. UNCHANGED <<deferred, tk, rp, stop, inflight, size>>
  BY DEF ClientReaped, clientRest, Disposed, NotDisposed, queueVars
<1>3. /\ reaping' = reaping \ {s} /\ ClientFree(c)
      /\ \/ /\ Emptied(s)
            /\ held' = held \ {s} /\ suspected' = suspected \ {s}
            /\ Cleared(s)
         \/ UNCHANGED <<slot, held, suspected, tries>>
  BY <1>1 , DoneEffect, EmptyEffect, ClearEffect DEF ClientReaped, Disposed, NotDisposed,
     queueVars
<1> HIDE DEF s
<1>4. PoolTypeOK'
  BY <1>1, <1>2, <1>3 DEF PoolTypeOK, Handles, Emptied, SlotOnly, OutSlot, ClientFree,
     ClientOnly, Cleared, Retried, s
<1>5. Refs'
  BY <1>1, <1>2, <1>3, SlotAssumption DEF Refs, Emptying, Borne, Quiet, ClientFree, ClientOnly,
     s, IInv
<1>6. BornInHand'
  BY <1>1, <1>2, <1>3 DEF BornInHand, InHand, Borne, Emptied, SlotOnly, OutSlot, Owners,
     ByClient, BornIsFree, s, IInv
<1>7. OutIsOut'
  BY <1>1, <1>2, <1>3 DEF OutIsOut, Emptied, SlotOnly, OutSlot, Cleared, Retried, s, IInv
<1>8. BornIsFree'
  BY <1>1, <1>2, <1>3, SlotAssumption DEF BornIsFree, Handles, Emptied, SlotOnly, OutSlot, s,
     IInv
<1>9. Owners'
  BY <1>1, <1>2, <1>3, SlotAssumption DEF Owners, ByClient, ByReaper, ByTick, ByStop, Emptying,
     ClientFree, ClientOnly, s, IInv
<1>10. Apart' BY <1>1, <1>2, <1>3, SlotAssumption DEF Apart, ClientFree, ClientOnly, s, IInv
<1>11. OpenWorkers'
  BY <1>1, <1>2, <1>3 DEF OpenWorkers, Open, Emptied, SlotOnly, OutSlot, s, IInv
<1>12. OpenMarks'
  BY <1>1, <1>2, <1>3 DEF OpenMarks, Open, Gone, Emptied, SlotOnly, OutSlot, s, IInv
<1>13. OpenClean' BY <1>1, <1>2, <1>3 DEF OpenClean, Open, Emptied, SlotOnly, OutSlot, s, IInv
<1>14. OpenReapers'
  BY <1>1, <1>2, <1>3, SlotAssumption DEF OpenReapers, Open, Gone, Handles, Emptied, SlotOnly,
     OutSlot, s, IInv
<1>15. OpenClients'
  BY <1>1, <1>2, <1>3, SlotAssumption DEF OpenClients, Open, Gone, Handles, Apart, Emptied,
     SlotOnly, OutSlot, ClientFree, ClientOnly, s, IInv
<1>16. OpenUpkeep'
  BY <1>1, <1>2, <1>3, SlotAssumption DEF OpenUpkeep, Open, Handles, Borne, Emptying, Emptied,
     SlotOnly, OutSlot, ClientFree, ClientOnly, s, IInv
<1>17. OpenTodo'
  BY <1>1, <1>2, <1>3 DEF OpenTodo, Open, Gone, Handles, Emptying, Emptied, SlotOnly, OutSlot,
     Owners, ByClient, OpenMarks, s, IInv
<1>18. StopIsFinal'
  BY <1>1, <1>2, <1>3 DEF StopIsFinal, Active, In, Emptied, SlotOnly, OutSlot, s, IInv
<1>19. Counted'
  <2>1. Live' \subseteq Live
    BY <1>1, <1>3 DEF Emptied, SlotOnly, OutSlot, Live
  <2>2. IsFiniteSet(Live) BY PoolAssumption, FS_Subset DEF Live
  <2>3. Cardinality(Live') <= Cardinality(Live) /\ Cardinality(Live') \in Nat
        /\ Cardinality(Live) \in Nat
    BY <2>1, <2>2, FS_Subset, FS_CardinalityType
  <2> QED BY <1>1, <1>2, <1>3, <2>3 DEF IInv, Counted, Spawning, Types, Stopper
<1>20. OnlyReadyServe'
  BY <1>1, <1>2, <1>3 DEF OnlyReadyServe, Emptied, SlotOnly, OutSlot, s, IInv
<1>21. HandOuts'
  BY <1>1, <1>2, <1>3, SlotAssumption DEF HandOuts, Handles, Apart, Emptied, SlotOnly, OutSlot,
     ClientFree, ClientOnly, s, IInv
<1>22. Counts' /\ Unwedged'
  BY <1>2 DEF IInv, Counts, Unwedged
<1>23. NoneAbove BY <1>1, <1>3 DEF NoneAbove, Emptied, SlotOnly, OutSlot
<1> QED
  BY <1>4, <1>5, <1>6, <1>7, <1>8, <1>9, <1>10, <1>11, <1>12, <1>13, <1>14, <1>15, <1>16, <1>17,
     <1>18, <1>19, <1>20, <1>21, <1>22, <1>23 DEF IInv

\* tick begins with the warming slots, unless the pool is being stopped.
LEMMA TickBeginKept ==
  ASSUME IInv, TickBegin
  PROVE  IInv' /\ NoneAbove
<1>1. /\ Types /\ Handles /\ PoolTypeOK
      /\ tk.pc = "shed"
      /\ tk.todo = {}
  BY TypesHold, SlotAssumption DEF TickBegin, IInv, Types, Handles, Borne, Emptying
<1>2. UNCHANGED <<slot, reaping, deferred, held, suspected, tries, cl, rp, stop, inflight, size>>
  BY DEF TickBegin, queueVars, tickRest
<1>3. \/ Stopping /\ TickTo("off", {}, tk.slot, tk.left)
      \/ ~Stopping /\ TickTo("promote", In({"warming"}), tk.slot, tk.left)
  BY <1>1 , PoolAssumption DEF TickBegin, TickTo, Types, Ticker, TickPcs, In
<1>4. PoolTypeOK' BY <1>1, <1>2, <1>3 DEF PoolTypeOK, Handles, TickTo
<1>5. Refs' BY <1>1, <1>2, <1>3, SlotAssumption DEF Refs, Emptying, Borne, Quiet, TickTo, IInv
<1>6. Counts' BY <1>1, <1>2, <1>3 DEF Counts, TickTo, IInv
<1>7. BornInHand' BY <1>1, <1>2, <1>3 DEF BornInHand, InHand, Borne, TickTo, IInv
<1>8. BornIsFree' BY <1>1, <1>2, <1>3, SlotAssumption DEF BornIsFree, Handles, TickTo, IInv
<1>9. Owners'
  BY <1>1, <1>2, <1>3, SlotAssumption DEF Owners, ByClient, ByReaper, ByTick, ByStop, Emptying,
     TickTo, IInv
<1>10. OpenUpkeep'
  BY <1>1, <1>2, <1>3, SlotAssumption DEF OpenUpkeep, Open, Handles, Borne, Emptying, TickTo,
     IInv
<1>11. OpenTodo'
  BY <1>1, <1>2, <1>3 DEF OpenTodo, Open, Gone, Handles, Emptying, TickTo, In, IInv
<1>12. Unwedged' BY <1>1, <1>2, <1>3 DEF Unwedged, TickTo, Stopping, IInv
<1>13. Counted'
  <2>1. Live' = Live BY <1>2 DEF Live
  <2> QED BY <1>1, <1>2, <1>3, <2>1, LiveFinite DEF IInv, Counted, Spawning, TickTo, Types,
             Stopper, Stopping
<1>14. OutIsOut' /\ Apart' /\ OpenWorkers' /\ OpenMarks' /\ OpenClean' /\ OpenReapers'
      /\ OpenClients' /\ StopIsFinal' /\ OnlyReadyServe' /\ HandOuts'
  BY <1>2 DEF IInv, OutIsOut, OutSlot, Apart, OpenWorkers, Open, OpenMarks, Gone, OpenClean,
     Clean, OpenReapers, Handles, OpenClients, StopIsFinal, Active, In, OnlyReadyServe, HandOuts
<1>15. NoneAbove BY <1>2 DEF NoneAbove
<1> QED
  BY <1>4, <1>5, <1>6, <1>7, <1>8, <1>9, <1>10, <1>11, <1>12, <1>13, <1>14, <1>15 DEF IInv

\* The idle slots are listed for the health check.
LEMMA HealthListKept ==
  ASSUME IInv, HealthList
  PROVE  IInv' /\ NoneAbove
<1>1. /\ Types /\ Handles /\ PoolTypeOK
      /\ tk.pc = "promote"
  BY TypesHold, SlotAssumption DEF HealthList, IInv, Types, Handles, Borne, Emptying
<1>2. UNCHANGED <<slot, reaping, deferred, held, suspected, tries, cl, rp, stop, inflight, size>>
  BY DEF HealthList, queueVars, tickRest
<1>3. TickTo("health", In({"idle"}), tk.slot, tk.left)
  <2>1. PICK late \in SUBSET Slots, unseen \in SUBSET Slots :
          tk' = [tk EXCEPT !.pc = "health", !.todo = In({"idle"}),
                           !.doomed = late, !.hunch = unseen]
    BY DEF HealthList, In
  <2>2. In({"idle"}) \in SUBSET Slots BY DEF In
  <2> QED BY <1>1, <2>1, <2>2 DEF TickTo, Types, Ticker, TickPcs
<1>4. PoolTypeOK' BY <1>1, <1>2, <1>3 DEF PoolTypeOK, Handles, TickTo
<1>5. Refs' BY <1>1, <1>2, <1>3, SlotAssumption DEF Refs, Emptying, Borne, Quiet, TickTo, IInv
<1>6. Counts' BY <1>1, <1>2, <1>3 DEF Counts, TickTo, IInv
<1>7. BornInHand' BY <1>1, <1>2, <1>3 DEF BornInHand, InHand, Borne, TickTo, IInv
<1>8. BornIsFree' BY <1>1, <1>2, <1>3, SlotAssumption DEF BornIsFree, Handles, TickTo, IInv
<1>9. Owners'
  BY <1>1, <1>2, <1>3, SlotAssumption DEF Owners, ByClient, ByReaper, ByTick, ByStop, Emptying,
     TickTo, IInv
<1>10. OpenUpkeep'
  BY <1>1, <1>2, <1>3, SlotAssumption DEF OpenUpkeep, Open, Handles, Borne, Emptying, TickTo,
     IInv
<1>11. OpenTodo' BY <1>1, <1>2, <1>3 DEF OpenTodo, Open, Gone, Handles, Emptying, TickTo, IInv
<1>12. Unwedged' BY <1>1, <1>2, <1>3 DEF Unwedged, TickTo, IInv
<1>13. Counted'
  <2>1. Live' = Live BY <1>2 DEF Live
  <2> QED BY <1>1, <1>2, <1>3, <2>1, LiveFinite DEF IInv, Counted, Spawning, TickTo, Types,
             Stopper
<1>14. OutIsOut' /\ Apart' /\ OpenWorkers' /\ OpenMarks' /\ OpenClean' /\ OpenReapers'
      /\ OpenClients' /\ StopIsFinal' /\ OnlyReadyServe' /\ HandOuts'
  BY <1>2 DEF IInv, OutIsOut, OutSlot, Apart, OpenWorkers, Open, OpenMarks, Gone, OpenClean,
     Clean, OpenReapers, Handles, OpenClients, StopIsFinal, Active, In, OnlyReadyServe, HandOuts
<1>15. NoneAbove BY <1>2 DEF NoneAbove
<1> QED
  BY <1>4, <1>5, <1>6, <1>7, <1>8, <1>9, <1>10, <1>11, <1>12, <1>13, <1>14, <1>15 DEF IInv

\* One of them is probed.
LEMMA HealthProbeKept ==
  ASSUME IInv, NEW s \in Slots, HealthProbe(s)
  PROVE  IInv' /\ NoneAbove
<1>1. /\ Types /\ Handles /\ PoolTypeOK
      /\ tk.pc = "health"
      /\ s \in tk.todo
  BY TypesHold, SlotAssumption DEF HealthProbe, IInv, Types, Handles, Borne, Emptying
<1>2. UNCHANGED <<slot, reaping, deferred, held, suspected, tries, cl, rp, stop, inflight, size>>
  BY DEF HealthProbe, queueVars, tickRest
<1>3. TickTo("health", tk.todo \ {s}, tk.slot, tk.left)
  <2>1. PICK doomed \in SUBSET Slots, hunch \in SUBSET Slots :
          tk' = [tk EXCEPT !.todo = @ \ {s}, !.doomed = doomed, !.hunch = hunch]
    <3>1. PICK alive \in ProbeAnswers(s), overdue \in BOOLEAN :
            LET suspect == alive = "unknown" /\ overdue /\ slot[s].st = "idle" IN
            tk' = [tk EXCEPT !.todo = @ \ {s},
                             !.doomed = IF alive = "dead" \/ suspect THEN @ \cup {s} ELSE @,
                             !.hunch = IF suspect THEN @ \cup {s} ELSE @]
      BY DEF HealthProbe
    <3> DEFINE suspect == alive = "unknown" /\ overdue /\ slot[s].st = "idle"
               dm == IF alive = "dead" \/ suspect THEN tk.doomed \cup {s} ELSE tk.doomed
               hn == IF suspect THEN tk.hunch \cup {s} ELSE tk.hunch
    <3>2. dm \in SUBSET Slots /\ hn \in SUBSET Slots
      BY <1>1 DEF Types, Ticker
    <3>3. tk' = [tk EXCEPT !.todo = @ \ {s}, !.doomed = dm, !.hunch = hn]
      BY <3>1
    <3> HIDE DEF dm, hn
    <3> QED BY <3>2, <3>3
  <2> QED BY <1>1, <2>1 DEF TickTo, Types, Ticker, TickPcs
<1>4. PoolTypeOK' BY <1>1, <1>2, <1>3 DEF PoolTypeOK, Handles, TickTo
<1>5. Refs' BY <1>1, <1>2, <1>3, SlotAssumption DEF Refs, Emptying, Borne, Quiet, TickTo, IInv
<1>6. Counts' BY <1>1, <1>2, <1>3 DEF Counts, TickTo, IInv
<1>7. BornInHand' BY <1>1, <1>2, <1>3 DEF BornInHand, InHand, Borne, TickTo, IInv
<1>8. BornIsFree' BY <1>1, <1>2, <1>3, SlotAssumption DEF BornIsFree, Handles, TickTo, IInv
<1>9. Owners'
  BY <1>1, <1>2, <1>3, SlotAssumption DEF Owners, ByClient, ByReaper, ByTick, ByStop, Emptying,
     TickTo, IInv
<1>10. OpenUpkeep'
  BY <1>1, <1>2, <1>3, SlotAssumption DEF OpenUpkeep, Open, Handles, Borne, Emptying, TickTo,
     IInv
<1>11. OpenTodo' BY <1>1, <1>2, <1>3 DEF OpenTodo, Open, Gone, Handles, Emptying, TickTo, IInv
<1>12. Unwedged' BY <1>1, <1>2, <1>3 DEF Unwedged, TickTo, IInv
<1>13. Counted'
  <2>1. Live' = Live BY <1>2 DEF Live
  <2> QED BY <1>1, <1>2, <1>3, <2>1, LiveFinite DEF IInv, Counted, Spawning, TickTo, Types,
             Stopper
<1>14. OutIsOut' /\ Apart' /\ OpenWorkers' /\ OpenMarks' /\ OpenClean' /\ OpenReapers'
      /\ OpenClients' /\ StopIsFinal' /\ OnlyReadyServe' /\ HandOuts'
  BY <1>2 DEF IInv, OutIsOut, OutSlot, Apart, OpenWorkers, Open, OpenMarks, Gone, OpenClean,
     Clean, OpenReapers, Handles, OpenClients, StopIsFinal, Active, In, OnlyReadyServe, HandOuts
<1>15. NoneAbove BY <1>2 DEF NoneAbove
<1> QED
  BY <1>4, <1>5, <1>6, <1>7, <1>8, <1>9, <1>10, <1>11, <1>12, <1>13, <1>14, <1>15 DEF IInv

\* No slot is due for upkeep.
LEMMA MaintainNothingKept ==
  ASSUME IInv, MaintainNothing
  PROVE  IInv' /\ NoneAbove
<1>1. /\ Types /\ Handles /\ PoolTypeOK
      /\ tk.pc = "evict"
      /\ tk.todo = {}
  BY TypesHold, SlotAssumption DEF MaintainNothing, IInv, Types, Handles, Borne, Emptying
<1>2. UNCHANGED <<slot, reaping, deferred, held, suspected, tries, cl, rp, stop, inflight, size>>
  BY DEF MaintainNothing, queueVars, tickRest
<1>3. TickTo("defer", {}, tk.slot, tk.left)
  BY <1>1 , PoolAssumption DEF MaintainNothing, TickTo, Types, Ticker, TickPcs, TGo
<1>4. PoolTypeOK' BY <1>1, <1>2, <1>3 DEF PoolTypeOK, Handles, TickTo
<1>5. Refs' BY <1>1, <1>2, <1>3, SlotAssumption DEF Refs, Emptying, Borne, Quiet, TickTo, IInv
<1>6. Counts' BY <1>1, <1>2, <1>3 DEF Counts, TickTo, IInv
<1>7. BornInHand' BY <1>1, <1>2, <1>3 DEF BornInHand, InHand, Borne, TickTo, IInv
<1>8. BornIsFree' BY <1>1, <1>2, <1>3, SlotAssumption DEF BornIsFree, Handles, TickTo, IInv
<1>9. Owners'
  BY <1>1, <1>2, <1>3, SlotAssumption DEF Owners, ByClient, ByReaper, ByTick, ByStop, Emptying,
     TickTo, IInv
<1>10. OpenUpkeep'
  BY <1>1, <1>2, <1>3, SlotAssumption DEF OpenUpkeep, Open, Handles, Borne, Emptying, TickTo,
     IInv
<1>11. OpenTodo' BY <1>1, <1>2, <1>3 DEF OpenTodo, Open, Gone, Handles, Emptying, TickTo, IInv
<1>12. Unwedged' BY <1>1, <1>2, <1>3 DEF Unwedged, TickTo, IInv
<1>13. Counted'
  <2>1. Live' = Live BY <1>2 DEF Live
  <2> QED BY <1>1, <1>2, <1>3, <2>1, LiveFinite DEF IInv, Counted, Spawning, TickTo, Types,
             Stopper
<1>14. OutIsOut' /\ Apart' /\ OpenWorkers' /\ OpenMarks' /\ OpenClean' /\ OpenReapers'
      /\ OpenClients' /\ StopIsFinal' /\ OnlyReadyServe' /\ HandOuts'
  BY <1>2 DEF IInv, OutIsOut, OutSlot, Apart, OpenWorkers, Open, OpenMarks, Gone, OpenClean,
     Clean, OpenReapers, Handles, OpenClients, StopIsFinal, Active, In, OnlyReadyServe, HandOuts
<1>15. NoneAbove BY <1>2 DEF NoneAbove
<1> QED
  BY <1>4, <1>5, <1>6, <1>7, <1>8, <1>9, <1>10, <1>11, <1>12, <1>13, <1>14, <1>15 DEF IInv

\* The burst is switched on or off.
LEMMA UpdateBurstKept ==
  ASSUME IInv, UpdateBurst
  PROVE  IInv' /\ NoneAbove
<1>1. /\ Types /\ Handles /\ PoolTypeOK
      /\ tk.pc = "burst"
  BY TypesHold, SlotAssumption DEF UpdateBurst, IInv, Types, Handles, Borne, Emptying
<1>2. UNCHANGED <<slot, reaping, deferred, held, suspected, tries, cl, rp, stop, inflight>>
  BY DEF UpdateBurst, queueVars, tickRest
<1>3. /\ size' \in [warm : 0..MaxCeiling, ceiling : 1..MaxCeiling, burst : BOOLEAN, auto : BOOLEAN]
      /\ TickTo("plan", tk.todo, tk.slot, tk.left)
  BY <1>1 , PoolAssumption DEF UpdateBurst, TickTo, Types, Ticker, TickPcs, TGo, PoolTypeOK
<1>4. PoolTypeOK' BY <1>1, <1>2, <1>3 DEF PoolTypeOK, Handles, TickTo
<1>5. Refs' BY <1>1, <1>2, <1>3, SlotAssumption DEF Refs, Emptying, Borne, Quiet, TickTo, IInv
<1>6. Counts' BY <1>1, <1>2, <1>3 DEF Counts, TickTo, IInv
<1>7. BornInHand' BY <1>1, <1>2, <1>3 DEF BornInHand, InHand, Borne, TickTo, IInv
<1>8. BornIsFree' BY <1>1, <1>2, <1>3, SlotAssumption DEF BornIsFree, Handles, TickTo, IInv
<1>9. Owners'
  BY <1>1, <1>2, <1>3, SlotAssumption DEF Owners, ByClient, ByReaper, ByTick, ByStop, Emptying,
     TickTo, IInv
<1>10. OpenUpkeep'
  BY <1>1, <1>2, <1>3, SlotAssumption DEF OpenUpkeep, Open, Handles, Borne, Emptying, TickTo,
     IInv
<1>11. OpenTodo' BY <1>1, <1>2, <1>3 DEF OpenTodo, Open, Gone, Handles, Emptying, TickTo, IInv
<1>12. Unwedged' BY <1>1, <1>2, <1>3 DEF Unwedged, TickTo, IInv
<1>13. Counted'
  <2>1. Live' = Live BY <1>2 DEF Live
  <2> QED BY <1>1, <1>2, <1>3, <2>1, LiveFinite DEF IInv, Counted, Spawning, TickTo, Types,
             Stopper
<1>14. OutIsOut' /\ Apart' /\ OpenWorkers' /\ OpenMarks' /\ OpenClean' /\ OpenReapers'
      /\ OpenClients' /\ StopIsFinal' /\ OnlyReadyServe' /\ HandOuts'
  BY <1>2 DEF IInv, OutIsOut, OutSlot, Apart, OpenWorkers, Open, OpenMarks, Gone, OpenClean,
     Clean, OpenReapers, Handles, OpenClients, StopIsFinal, Active, In, OnlyReadyServe, HandOuts
<1>15. NoneAbove BY <1>2 DEF NoneAbove
<1> QED
  BY <1>4, <1>5, <1>6, <1>7, <1>8, <1>9, <1>10, <1>11, <1>12, <1>13, <1>14, <1>15 DEF IInv

\* A spawn of the serial loop fails.
LEMMA SpawnFailsKept ==
  ASSUME IInv, SpawnFails
  PROVE  IInv' /\ NoneAbove
<1>1. /\ Types /\ Handles /\ PoolTypeOK
      /\ tk.pc = "spawn"
      /\ tk.left > 0
  BY TypesHold, SlotAssumption DEF SpawnFails, IInv, Types, Handles, Borne, Emptying
<1>2. UNCHANGED <<slot, reaping, deferred, held, suspected, tries, cl, rp, stop, inflight, size>>
  BY DEF SpawnFails, queueVars, tickRest
<1>3. TickTo("spawn", tk.todo, tk.slot, tk.left - 1)
  BY <1>1 , PoolAssumption DEF SpawnFails, TickTo, Types, Ticker, TickPcs
<1>4. PoolTypeOK' BY <1>1, <1>2, <1>3 DEF PoolTypeOK, Handles, TickTo
<1>5. Refs' BY <1>1, <1>2, <1>3, SlotAssumption DEF Refs, Emptying, Borne, Quiet, TickTo, IInv
<1>6. Counts' BY <1>1, <1>2, <1>3 DEF Counts, TickTo, IInv
<1>7. BornInHand' BY <1>1, <1>2, <1>3 DEF BornInHand, InHand, Borne, TickTo, IInv
<1>8. BornIsFree' BY <1>1, <1>2, <1>3, SlotAssumption DEF BornIsFree, Handles, TickTo, IInv
<1>9. Owners'
  BY <1>1, <1>2, <1>3, SlotAssumption DEF Owners, ByClient, ByReaper, ByTick, ByStop, Emptying,
     TickTo, IInv
<1>10. OpenUpkeep'
  BY <1>1, <1>2, <1>3, SlotAssumption DEF OpenUpkeep, Open, Handles, Borne, Emptying, TickTo,
     IInv
<1>11. OpenTodo' BY <1>1, <1>2, <1>3 DEF OpenTodo, Open, Gone, Handles, Emptying, TickTo, IInv
<1>12. Unwedged' BY <1>1, <1>2, <1>3 DEF Unwedged, TickTo, IInv
<1>13. Counted'
  <2>1. Live' = Live BY <1>2 DEF Live
  <2> QED BY <1>1, <1>2, <1>3, <2>1, LiveFinite DEF IInv, Counted, Spawning, TickTo, Types,
             Stopper
<1>14. OutIsOut' /\ Apart' /\ OpenWorkers' /\ OpenMarks' /\ OpenClean' /\ OpenReapers'
      /\ OpenClients' /\ StopIsFinal' /\ OnlyReadyServe' /\ HandOuts'
  BY <1>2 DEF IInv, OutIsOut, OutSlot, Apart, OpenWorkers, Open, OpenMarks, Gone, OpenClean,
     Clean, OpenReapers, Handles, OpenClients, StopIsFinal, Active, In, OnlyReadyServe, HandOuts
<1>15. NoneAbove BY <1>2 DEF NoneAbove
<1> QED
  BY <1>4, <1>5, <1>6, <1>7, <1>8, <1>9, <1>10, <1>11, <1>12, <1>13, <1>14, <1>15 DEF IInv

\* The serial loop ends.
LEMMA SpawnEndKept ==
  ASSUME IInv, SpawnEnd
  PROVE  IInv' /\ NoneAbove
<1>1. /\ Types /\ Handles /\ PoolTypeOK
      /\ tk.pc = "spawn"
  BY TypesHold, SlotAssumption DEF SpawnEnd, IInv, Types, Handles, Borne, Emptying
<1>2. UNCHANGED <<slot, reaping, deferred, held, suspected, tries, cl, rp, stop, inflight, size>>
  BY DEF SpawnEnd, queueVars, tickRest
<1>3. TickTo("surplus", tk.todo, tk.slot, 0)
  <2>1. 0 \in 0..MaxCeiling BY PoolAssumption
  <2>2. tk' = [tk EXCEPT !.pc = "surplus", !.left = 0] BY DEF SpawnEnd
  <2> QED BY <1>1, <2>1, <2>2 DEF TickTo, Types, Ticker, TickPcs
<1>4. PoolTypeOK' BY <1>1, <1>2, <1>3 DEF PoolTypeOK, Handles, TickTo
<1>5. Refs' BY <1>1, <1>2, <1>3, SlotAssumption DEF Refs, Emptying, Borne, Quiet, TickTo, IInv
<1>6. Counts' BY <1>1, <1>2, <1>3 DEF Counts, TickTo, IInv
<1>7. BornInHand' BY <1>1, <1>2, <1>3 DEF BornInHand, InHand, Borne, TickTo, IInv
<1>8. BornIsFree' BY <1>1, <1>2, <1>3, SlotAssumption DEF BornIsFree, Handles, TickTo, IInv
<1>9. Owners'
  BY <1>1, <1>2, <1>3, SlotAssumption DEF Owners, ByClient, ByReaper, ByTick, ByStop, Emptying,
     TickTo, IInv
<1>10. OpenUpkeep'
  BY <1>1, <1>2, <1>3, SlotAssumption DEF OpenUpkeep, Open, Handles, Borne, Emptying, TickTo,
     IInv
<1>11. OpenTodo' BY <1>1, <1>2, <1>3 DEF OpenTodo, Open, Gone, Handles, Emptying, TickTo, IInv
<1>12. Unwedged' BY <1>1, <1>2, <1>3 DEF Unwedged, TickTo, IInv
<1>13. Counted'
  <2>1. Live' = Live BY <1>2 DEF Live
  <2> QED BY <1>1, <1>2, <1>3, <2>1, LiveFinite DEF IInv, Counted, Spawning, TickTo, Types,
             Stopper
<1>14. OutIsOut' /\ Apart' /\ OpenWorkers' /\ OpenMarks' /\ OpenClean' /\ OpenReapers'
      /\ OpenClients' /\ StopIsFinal' /\ OnlyReadyServe' /\ HandOuts'
  BY <1>2 DEF IInv, OutIsOut, OutSlot, Apart, OpenWorkers, Open, OpenMarks, Gone, OpenClean,
     Clean, OpenReapers, Handles, OpenClients, StopIsFinal, Active, In, OnlyReadyServe, HandOuts
<1>15. NoneAbove BY <1>2 DEF NoneAbove
<1> QED
  BY <1>4, <1>5, <1>6, <1>7, <1>8, <1>9, <1>10, <1>11, <1>12, <1>13, <1>14, <1>15 DEF IInv

\* A spawn of the batch fails; its reservation stays until the batch ends.
LEMMA BatchSpawnFailsKept ==
  ASSUME IInv, BatchSpawnFails
  PROVE  IInv' /\ NoneAbove
<1>1. /\ Types /\ Handles /\ PoolTypeOK
      /\ tk.pc = "batch"
      /\ tk.left > 0
  BY TypesHold, SlotAssumption DEF BatchSpawnFails, IInv, Types, Handles, Borne, Emptying
<1>2. UNCHANGED <<slot, reaping, deferred, held, suspected, tries, cl, rp, stop, inflight, size>>
  BY DEF BatchSpawnFails, queueVars, tickRest
<1>3. TickTo("batch", tk.todo, tk.slot, tk.left - 1)
  BY <1>1 , PoolAssumption DEF BatchSpawnFails, TickTo, Types, Ticker, TickPcs
<1>4. PoolTypeOK' BY <1>1, <1>2, <1>3 DEF PoolTypeOK, Handles, TickTo
<1>5. Refs' BY <1>1, <1>2, <1>3, SlotAssumption DEF Refs, Emptying, Borne, Quiet, TickTo, IInv
<1>6. Counts'
  BY <1>1, <1>2, <1>3, TodoFinite DEF Counts, TickTo, Types, Ticker, PoolTypeOK, IInv
<1>7. BornInHand' BY <1>1, <1>2, <1>3 DEF BornInHand, InHand, Borne, TickTo, IInv
<1>8. BornIsFree' BY <1>1, <1>2, <1>3, SlotAssumption DEF BornIsFree, Handles, TickTo, IInv
<1>9. Owners'
  BY <1>1, <1>2, <1>3, SlotAssumption DEF Owners, ByClient, ByReaper, ByTick, ByStop, Emptying,
     TickTo, IInv
<1>10. OpenUpkeep'
  BY <1>1, <1>2, <1>3, SlotAssumption DEF OpenUpkeep, Open, Handles, Borne, Emptying, TickTo,
     IInv
<1>11. OpenTodo' BY <1>1, <1>2, <1>3 DEF OpenTodo, Open, Gone, Handles, Emptying, TickTo, IInv
<1>12. Unwedged' BY <1>1, <1>2, <1>3 DEF Unwedged, TickTo, IInv
<1>13. Counted'
  <2>1. Live' = Live BY <1>2 DEF Live
  <2> QED BY <1>1, <1>2, <1>3, <2>1, LiveFinite DEF IInv, Counted, Spawning, TickTo, Types,
             Stopper
<1>14. OutIsOut' /\ Apart' /\ OpenWorkers' /\ OpenMarks' /\ OpenClean' /\ OpenReapers'
      /\ OpenClients' /\ StopIsFinal' /\ OnlyReadyServe' /\ HandOuts'
  BY <1>2 DEF IInv, OutIsOut, OutSlot, Apart, OpenWorkers, Open, OpenMarks, Gone, OpenClean,
     Clean, OpenReapers, Handles, OpenClients, StopIsFinal, Active, In, OnlyReadyServe, HandOuts
<1>15. NoneAbove BY <1>2 DEF NoneAbove
<1> QED
  BY <1>4, <1>5, <1>6, <1>7, <1>8, <1>9, <1>10, <1>11, <1>12, <1>13, <1>14, <1>15 DEF IInv

\* The upkeep borrows an idle slot, which no client has.
LEMMA MaintainPickKept ==
  ASSUME IInv, NEW s \in Slots, MaintainPick(s)
  PROVE  IInv' /\ NoneAbove
<1>1. /\ Types /\ Handles /\ PoolTypeOK
      /\ tk.pc = "evict"
      /\ tk.todo = {}
      /\ slot[s].st = "idle"
      /\ ~Stopping
  BY TypesHold, SlotAssumption DEF MaintainPick, IInv, Types, Handles, Borne, Emptying
<1>2. UNCHANGED <<reaping, deferred, held, suspected, tries, cl, rp, stop, inflight, size>>
  BY DEF MaintainPick, queueVars, tickRest
<1>3. Moved(s, "assigned") /\ TickTo("upkeep", {}, s, tk.left)
  BY <1>1 , MoveEffect, PoolAssumption DEF MaintainPick, TickTo, Types, Ticker, TickPcs,
     SetState, SlotStates
<1>4. PoolTypeOK' BY <1>1, <1>2, <1>3 DEF PoolTypeOK, Handles, Moved, SlotOnly, TickTo
<1>5. Refs' BY <1>1, <1>2, <1>3, SlotAssumption DEF Refs, Emptying, Borne, Quiet, TickTo, IInv
<1>6. Counts' BY <1>1, <1>2, <1>3 DEF Counts, TickTo, IInv
<1>7. BornInHand'
  BY <1>1, <1>2, <1>3 DEF BornInHand, InHand, Borne, Moved, SlotOnly, TickTo, IInv
<1>8. OutIsOut' BY <1>1, <1>2, <1>3 DEF OutIsOut, Moved, SlotOnly, IInv
<1>9. BornIsFree'
  BY <1>1, <1>2, <1>3, SlotAssumption DEF BornIsFree, Handles, Moved, SlotOnly, TickTo, IInv
<1>10. Owners'
  BY <1>1, <1>2, <1>3, SlotAssumption DEF Owners, ByClient, ByReaper, ByTick, ByStop, Emptying,
     TickTo, IInv
<1>11. OpenWorkers' BY <1>1, <1>2, <1>3 DEF OpenWorkers, Open, Moved, SlotOnly, IInv
<1>12. OpenMarks' BY <1>1, <1>2, <1>3 DEF OpenMarks, Open, Gone, Moved, SlotOnly, IInv
<1>13. OpenClean' BY <1>1, <1>2, <1>3 DEF OpenClean, Open, Moved, SlotOnly, IInv
<1>14. OpenReapers'
  BY <1>1, <1>2, <1>3, SlotAssumption DEF OpenReapers, Open, Gone, Handles, Moved, SlotOnly,
     IInv
<1>15. OpenClients'
  BY <1>1, <1>2, <1>3, SlotAssumption DEF OpenClients, Open, Gone, Handles, Apart, Moved,
     SlotOnly, IInv
<1>16. OpenUpkeep'
  BY <1>1, <1>2, <1>3, SlotAssumption DEF OpenUpkeep, Open, Handles, Borne, Emptying, Moved,
     SlotOnly, TickTo, OpenClean, OpenClients, Gone, Refs, Types, Client, ClientPcs, IInv
<1>17. OpenTodo'
  BY <1>1, <1>2, <1>3 DEF OpenTodo, Open, Gone, Handles, Emptying, Moved, SlotOnly, TickTo, IInv
<1>18. StopIsFinal' BY <1>1, <1>2, <1>3 DEF StopIsFinal, Active, In, Moved, SlotOnly, IInv
<1>19. Unwedged' BY <1>1, <1>2, <1>3 DEF Unwedged, TickTo, IInv
<1>20. Counted'
  <2>1. stop.pc # "done"
    BY <1>1 DEF Stopping
  <2> QED BY <1>2, <2>1 DEF Counted
<1>21. OnlyReadyServe' BY <1>1, <1>2, <1>3 DEF OnlyReadyServe, Moved, SlotOnly, IInv
<1>22. HandOuts'
  BY <1>1, <1>2, <1>3, SlotAssumption DEF HandOuts, Handles, Apart, Moved, SlotOnly, IInv
<1>23. Apart' BY <1>2 DEF IInv, Apart
<1>24. NoneAbove BY <1>1, <1>3 DEF NoneAbove, Moved, SlotOnly
<1> QED
  BY <1>4, <1>5, <1>6, <1>7, <1>8, <1>9, <1>10, <1>11, <1>12, <1>13, <1>14, <1>15, <1>16, <1>17,
     <1>18, <1>19, <1>20, <1>21, <1>22, <1>23, <1>24 DEF IInv

\* It gives the slot back as clean as it was, or drains it.
LEMMA UpkeepKept ==
  ASSUME IInv, Upkeep
  PROVE  IInv' /\ NoneAbove
<1> DEFINE s == tk.slot
<1>1. /\ Types /\ Handles /\ PoolTypeOK
      /\ tk.pc = "upkeep"
      /\ s \in Slots
  BY TypesHold, SlotAssumption DEF Upkeep, IInv, Types, Handles, Borne, Emptying
<1>2. UNCHANGED <<reaping, held, suspected, cl, rp, stop, inflight, size>>
  BY DEF Upkeep, tickRest
<1>3. /\ TickTo("defer", tk.todo, None, tk.left)
      /\ \/ UNCHANGED <<slot, deferred, tries>>
         \/ slot[s].st = "assigned" /\ Moved(s, "idle") /\ UNCHANGED <<deferred, tries>>
         \/ /\ slot[s].st = "assigned" /\ Moved(s, "draining")
            /\ deferred' = IF Stopping THEN deferred ELSE deferred \cup {s}
            /\ Retried(s)
  <2>1. TickTo("defer", tk.todo, None, tk.left)
    BY <1>1 DEF Upkeep, TickTo, Types, Ticker, TickPcs
  <2>2. \/ UNCHANGED <<slot, deferred, tries>>
        \/ slot[s].st = "assigned" /\ SetState(s, "idle") /\ UNCHANGED <<deferred, tries>>
        \/ /\ slot[s].st = "assigned" /\ SetState(s, "draining") /\ Queue({s})
           /\ tries' = IF Stopping THEN tries ELSE [tries EXCEPT ![s] = 0]
    BY DEF Upkeep
  <2>3. tries' = (IF Stopping THEN tries ELSE [tries EXCEPT ![s] = 0]) => Retried(s)
    BY <1>1, PoolAssumption DEF PoolTypeOK, Retried
  <2> QED BY <1>1, <2>1, <2>2, <2>3, MoveEffect DEF SetState, SlotStates, Queue
<1> HIDE DEF s
<1>4. PoolTypeOK'
  BY <1>1, <1>2, <1>3 DEF PoolTypeOK, Handles, Moved, SlotOnly, TickTo, Retried, s
<1>5. Refs'
  BY <1>1, <1>2, <1>3, SlotAssumption DEF Refs, Emptying, Borne, Quiet, TickTo, s, IInv
<1>6. Counts' BY <1>1, <1>2, <1>3 DEF Counts, TickTo, s, IInv
<1>7. BornInHand'
  BY <1>1, <1>2, <1>3 DEF BornInHand, InHand, Borne, Moved, SlotOnly, TickTo, s, IInv
<1>8. OutIsOut' BY <1>1, <1>2, <1>3 DEF OutIsOut, Moved, SlotOnly, Retried, s, IInv
<1>9. BornIsFree'
  BY <1>1, <1>2, <1>3, SlotAssumption DEF BornIsFree, Handles, Moved, SlotOnly, TickTo, s, IInv
<1>10. Owners'
  BY <1>1, <1>2, <1>3, SlotAssumption DEF Owners, ByClient, ByReaper, ByTick, ByStop, Emptying,
     TickTo, s, IInv
<1>11. OpenWorkers' BY <1>1, <1>2, <1>3 DEF OpenWorkers, Open, Moved, SlotOnly, s, IInv
<1>12. OpenMarks' BY <1>1, <1>2, <1>3 DEF OpenMarks, Open, Gone, Moved, SlotOnly, s, IInv
<1>13. OpenClean' BY <1>1, <1>2, <1>3 DEF OpenClean, Open, Moved, SlotOnly, OpenUpkeep, s, IInv
<1>14. OpenReapers'
  BY <1>1, <1>2, <1>3, SlotAssumption DEF OpenReapers, Open, Gone, Handles, Moved, SlotOnly, s,
     IInv
<1>15. OpenClients'
  BY <1>1, <1>2, <1>3, SlotAssumption DEF OpenClients, Open, Gone, Handles, Apart, Moved,
     SlotOnly, OpenUpkeep, s, IInv
<1>16. OpenUpkeep'
  BY <1>1, <1>2, <1>3, SlotAssumption DEF OpenUpkeep, Open, Handles, Borne, Emptying, Moved,
     SlotOnly, TickTo, s, IInv
<1>17. OpenTodo'
  BY <1>1, <1>2, <1>3 DEF OpenTodo, Open, Gone, Handles, Emptying, Moved, SlotOnly, TickTo, s,
     IInv
<1>18. StopIsFinal' BY <1>1, <1>2, <1>3 DEF StopIsFinal, Active, In, Moved, SlotOnly, s, IInv
<1>19. Unwedged' BY <1>1, <1>2, <1>3 DEF Unwedged, TickTo, s, IInv
<1>20. Counted'
  <2>1. Live' = Live
    BY <1>1, <1>3 DEF Moved, SlotOnly, Types, Live
  <2> QED BY <1>1, <1>3, <2>1, <1>2 DEF IInv, Counted, Spawning, TickTo
<1>21. OnlyReadyServe' BY <1>1, <1>2, <1>3 DEF OnlyReadyServe, Moved, SlotOnly, s, IInv
<1>22. HandOuts'
  BY <1>1, <1>2, <1>3, SlotAssumption DEF HandOuts, Handles, Apart, Moved, SlotOnly, s, IInv
<1>23. Apart' BY <1>2 DEF IInv, Apart
<1>24. NoneAbove BY <1>1, <1>3 DEF NoneAbove, Moved, SlotOnly
<1> QED
  BY <1>4, <1>5, <1>6, <1>7, <1>8, <1>9, <1>10, <1>11, <1>12, <1>13, <1>14, <1>15, <1>16, <1>17,
     <1>18, <1>19, <1>20, <1>21, <1>22, <1>23, <1>24 DEF IInv

\* A warming slot becomes idle, fresh; or one drained meanwhile is reaped.
LEMMA PromoteKept ==
  ASSUME IInv, NEW s \in Slots, Promote(s)
  PROVE  IInv' /\ NoneAbove
<1>1. /\ Types /\ Handles /\ PoolTypeOK
      /\ tk.pc = "promote"
      /\ s \in tk.todo
      /\ s \in Slots
  BY TypesHold, SlotAssumption DEF Promote, IInv, Types, Handles, Borne, Emptying
<1>2. UNCHANGED <<deferred, held, suspected, tries, cl, rp, stop, inflight, size>>
  BY DEF Promote, queueVars, tickRest
<1>3. \/ /\ slot[s].st = "warming" /\ SlotOnly(s) /\ reaping' = reaping
         /\ slot'[s].st = "idle" /\ slot'[s].worker = slot[s].worker /\ slot'[s].ready
         /\ slot'[s].taint = slot[s].taint /\ Clean(slot'[s])
         /\ TickTo("promote", tk.todo \ {s}, tk.slot, tk.left)
      \/ UNCHANGED <<slot, reaping>> /\ TickTo("promote", tk.todo \ {s}, tk.slot, tk.left)
      \/ /\ slot[s].st = "draining" /\ s \notin reaping
         /\ slot' = slot /\ reaping' = reaping \cup {s}
         /\ TickTo("promoting", tk.todo \ {s}, s, tk.left)
  <2> DEFINE w == [slot[s] EXCEPT !.st = "idle", !.ready = TRUE]
  <2>1. slot[s] \in SlotRecords BY <1>1 DEF Types
  <2>2. /\ w \in SlotRecords /\ w.st = "idle" /\ w.ready /\ w.worker = slot[s].worker
        /\ w.taint = slot[s].taint
    BY <2>1 DEF SlotRecords, SlotStates
  <2>3. slot[s].st = "warming" => Clean(w)
    BY <1>1, <2>2 DEF IInv, OutIsOut, Clean
  <2>4. \/ /\ UNCHANGED reaping /\ tk' = [tk EXCEPT !.todo = @ \ {s}]
           /\ \/ slot[s].st = "warming" /\ slot' = [slot EXCEPT ![s] = w]
              \/ slot' = slot
        \/ /\ slot[s].st = "draining" /\ s \notin reaping
           /\ slot' = slot /\ reaping' = reaping \cup {s}
           /\ tk' = [tk EXCEPT !.todo = @ \ {s}, !.slot = s, !.pc = "promoting"]
    BY <2>1 DEF Promote, MayReap, SlotRecords
  <2>5. tk' = [tk EXCEPT !.todo = @ \ {s}] => TickTo("promote", tk.todo \ {s}, tk.slot, tk.left)
    BY <1>1 DEF Types, TickTo, Ticker
  <2>6. tk' = [tk EXCEPT !.todo = @ \ {s}, !.slot = s, !.pc = "promoting"]
        => TickTo("promoting", tk.todo \ {s}, s, tk.left)
    BY <1>1 DEF Types, TickTo, Ticker, TickPcs
  <2> HIDE DEF w
  <2>7. slot' = [slot EXCEPT ![s] = w] => SlotOnly(s) /\ slot'[s] = w
    BY <1>1, <2>2 DEF Types, SlotOnly
  <2> QED BY <2>2, <2>3, <2>4, <2>5, <2>6, <2>7
<1>4. PoolTypeOK' BY <1>1, <1>2, <1>3 DEF PoolTypeOK, Handles, SlotOnly, TickTo
<1>5. Refs' BY <1>1, <1>2, <1>3, SlotAssumption DEF Refs, Emptying, Borne, Quiet, TickTo, IInv
<1>6. Counts' BY <1>1, <1>2, <1>3 DEF Counts, TickTo, IInv
<1>7. BornInHand' BY <1>1, <1>2, <1>3 DEF BornInHand, InHand, Borne, SlotOnly, TickTo, IInv
<1>8. OutIsOut' BY <1>1, <1>2, <1>3 DEF OutIsOut, SlotOnly, IInv
<1>9. BornIsFree'
  BY <1>1, <1>2, <1>3, SlotAssumption DEF BornIsFree, Handles, SlotOnly, TickTo, IInv
<1>10. Owners'
  BY <1>1, <1>2, <1>3, SlotAssumption DEF Owners, ByClient, ByReaper, ByTick, ByStop, Emptying,
     TickTo, IInv
<1>11. OpenWorkers' BY <1>1, <1>2, <1>3 DEF OpenWorkers, Open, SlotOnly, IInv
<1>12. OpenMarks' BY <1>1, <1>2, <1>3 DEF OpenMarks, Open, Gone, SlotOnly, IInv
<1>13. OpenClean' BY <1>1, <1>2, <1>3 DEF OpenClean, Open, SlotOnly, IInv
<1>14. OpenReapers'
  BY <1>1, <1>2, <1>3, SlotAssumption DEF OpenReapers, Open, Gone, Handles, SlotOnly, IInv
<1>15. OpenClients'
  BY <1>1, <1>2, <1>3, SlotAssumption DEF OpenClients, Open, Gone, Handles, Apart, SlotOnly,
     IInv
<1>16. OpenUpkeep'
  BY <1>1, <1>2, <1>3, SlotAssumption DEF OpenUpkeep, Open, Handles, Borne, Emptying, SlotOnly,
     TickTo, IInv
<1>17. OpenTodo'
  BY <1>1, <1>2, <1>3 DEF OpenTodo, Open, Gone, Handles, Emptying, SlotOnly, TickTo, IInv
<1>18. StopIsFinal' BY <1>1, <1>2, <1>3 DEF StopIsFinal, Active, In, SlotOnly, IInv
<1>19. Unwedged' BY <1>1, <1>2, <1>3 DEF Unwedged, TickTo, IInv
<1>20. Counted'
  <2>1. Live' = Live BY <1>1, <1>2, <1>3 DEF Live, SlotOnly, Types
  <2> QED BY <1>1, <1>2, <1>3, <2>1, LiveFinite DEF IInv, Counted, Spawning, TickTo, Types,
             Stopper
<1>21. OnlyReadyServe' BY <1>1, <1>2, <1>3 DEF OnlyReadyServe, SlotOnly, IInv
<1>22. HandOuts'
  BY <1>1, <1>2, <1>3, SlotAssumption DEF HandOuts, Handles, Apart, SlotOnly, IInv
<1>23. Apart' BY <1>2 DEF IInv, Apart
<1>24. NoneAbove BY <1>1, <1>3 DEF NoneAbove, SlotOnly
<1> QED
  BY <1>4, <1>5, <1>6, <1>7, <1>8, <1>9, <1>10, <1>11, <1>12, <1>13, <1>14, <1>15, <1>16, <1>17,
     <1>18, <1>19, <1>20, <1>21, <1>22, <1>23, <1>24 DEF IInv

\* The background thread becomes the owner of the disposal of a slot it condemned.
LEMMA TickReapKept ==
  ASSUME IInv, NEW s \in Slots, TickReap(s)
  PROVE  IInv' /\ NoneAbove
<1>1. /\ Types /\ Handles /\ PoolTypeOK
      /\ tk.pc \in {"evict", "shed"}
      /\ s \in tk.todo
      /\ s \in Slots
  BY TypesHold, SlotAssumption DEF TickReap, IInv, Types, Handles, Borne, Emptying
<1>2. UNCHANGED <<slot, deferred, held, suspected, tries, cl, rp, stop, inflight, size>>
  BY DEF TickReap, queueVars, tickRest
<1>3. \/ /\ Seen(s) /\ s \notin reaping /\ reaping' = reaping \cup {s}
         /\ TickTo(IF tk.pc = "evict" THEN "evicting" ELSE "shedding", tk.todo \ {s}, s, tk.left)
      \/ reaping' = reaping /\ TickTo(tk.pc, tk.todo \ {s}, tk.slot, tk.left)
  <2>1. tk' = [tk EXCEPT !.todo = @ \ {s}, !.slot = s,
                         !.pc = IF @ = "evict" THEN "evicting" ELSE "shedding"]
        => TickTo(IF tk.pc = "evict" THEN "evicting" ELSE "shedding", tk.todo \ {s}, s, tk.left)
    BY <1>1 DEF Types, TickTo, Ticker, TickPcs
  <2>2. tk' = [tk EXCEPT !.todo = @ \ {s}] => TickTo(tk.pc, tk.todo \ {s}, tk.slot, tk.left)
    BY <1>1 DEF Types, TickTo, Ticker
  <2> QED BY <1>1, <2>1, <2>2, TrackedSeen DEF TickReap, MayReap
<1>4. PoolTypeOK' BY <1>1, <1>2, <1>3 DEF PoolTypeOK, Handles, TickTo, Seen
<1>5. Refs' BY <1>1, <1>2, <1>3, SlotAssumption DEF Refs, Emptying, Borne, Quiet, TickTo, IInv
<1>6. Counts' BY <1>1, <1>2, <1>3 DEF Counts, TickTo, IInv
<1>7. BornInHand' BY <1>1, <1>2, <1>3 DEF BornInHand, InHand, Borne, TickTo, Seen, IInv
<1>8. BornIsFree'
  BY <1>1, <1>2, <1>3, SlotAssumption DEF BornIsFree, Handles, TickTo, Seen, IInv
<1>9. Owners'
  BY <1>1, <1>2, <1>3, SlotAssumption DEF Owners, ByClient, ByReaper, ByTick, ByStop, Emptying,
     TickTo, IInv
<1>10. OpenMarks' BY <1>1, <1>2, <1>3 DEF OpenMarks, Open, Gone, Seen, OpenTodo, IInv
<1>11. OpenUpkeep'
  BY <1>1, <1>2, <1>3, SlotAssumption DEF OpenUpkeep, Open, Handles, Borne, Emptying, TickTo,
     Seen, IInv
<1>12. OpenTodo'
  BY <1>1, <1>2, <1>3 DEF OpenTodo, Open, Gone, Handles, Emptying, TickTo, Seen, IInv
<1>13. Unwedged' BY <1>1, <1>2, <1>3 DEF Unwedged, TickTo, IInv
<1>14. Counted'
  <2>1. Live' = Live BY <1>2 DEF Live
  <2> QED BY <1>1, <1>2, <1>3, <2>1, LiveFinite DEF IInv, Counted, Spawning, TickTo, Types,
             Stopper
<1>15. OutIsOut' /\ Apart' /\ OpenWorkers' /\ OpenClean' /\ OpenReapers' /\ OpenClients'
      /\ StopIsFinal' /\ OnlyReadyServe' /\ HandOuts'
  BY <1>2 DEF IInv, OutIsOut, OutSlot, Apart, OpenWorkers, Open, OpenClean, Clean, OpenReapers,
     Gone, Handles, OpenClients, StopIsFinal, Active, In, OnlyReadyServe, HandOuts
<1>16. NoneAbove BY <1>2 DEF NoneAbove
<1> QED
  BY <1>4, <1>5, <1>6, <1>7, <1>8, <1>9, <1>10, <1>11, <1>12, <1>13, <1>14, <1>15, <1>16
     DEF IInv

\* Its disposal ends, well or not.
LEMMA TickReapedKept ==
  ASSUME IInv, TickReaped
  PROVE  IInv' /\ NoneAbove
<1> DEFINE s == tk.slot
<1>1. /\ Types /\ Handles /\ PoolTypeOK
      /\ tk.pc \in Emptying
      /\ s \in Slots
  BY TypesHold, SlotAssumption DEF TickReaped, IInv, Types, Handles, Borne, Emptying
<1>2. UNCHANGED <<deferred, cl, rp, stop, inflight, size>>
  BY DEF TickReaped, tickRest, Disposed, NotDisposed, queueVars
<1>3. /\ reaping' = reaping \ {s} /\ TickTo(After, tk.todo, None, tk.left)
      /\ \/ /\ Emptied(s)
            /\ held' = held \ {s} /\ suspected' = suspected \ {s}
            /\ Cleared(s)
         \/ UNCHANGED <<slot, held, suspected, tries>>
  <2>1. TickTo(After, tk.todo, None, tk.left)
    BY <1>1 DEF TickReaped, After, Types, TickTo, Ticker, TickPcs, Emptying
  <2>2. Disposed(s) \/ NotDisposed(s) BY DEF TickReaped
  <2> QED BY <1>1, <2>1, <2>2, EmptyEffect, ClearEffect DEF Disposed, NotDisposed, queueVars
<1> HIDE DEF s
<1>4. PoolTypeOK'
  BY <1>1, <1>2, <1>3 DEF PoolTypeOK, Handles, Emptied, SlotOnly, OutSlot, TickTo, Cleared,
     Retried, After, s
<1>5. Refs'
  BY <1>1, <1>2, <1>3, SlotAssumption DEF Refs, Emptying, Borne, Quiet, TickTo, After, s, IInv
<1>6. Counts' BY <1>1, <1>2, <1>3 DEF Counts, TickTo, After, s, IInv
<1>7. BornInHand'
  BY <1>1, <1>2, <1>3 DEF BornInHand, InHand, Borne, Emptied, SlotOnly, OutSlot, TickTo, After,
     Emptying, Owners, ByTick, BornIsFree, s, IInv
<1>8. OutIsOut'
  BY <1>1, <1>2, <1>3 DEF OutIsOut, Emptied, SlotOnly, OutSlot, Cleared, Retried, s, IInv
<1>9. BornIsFree'
  BY <1>1, <1>2, <1>3, SlotAssumption DEF BornIsFree, Handles, Emptied, SlotOnly, OutSlot,
     TickTo, After, s, IInv
<1>10. Owners'
  BY <1>1, <1>2, <1>3, SlotAssumption DEF Owners, ByClient, ByReaper, ByTick, ByStop, Emptying,
     TickTo, After, s, IInv
<1>11. OpenWorkers'
  BY <1>1, <1>2, <1>3 DEF OpenWorkers, Open, Emptied, SlotOnly, OutSlot, s, IInv
<1>12. OpenMarks'
  BY <1>1, <1>2, <1>3 DEF OpenMarks, Open, Gone, Emptied, SlotOnly, OutSlot, s, IInv
<1>13. OpenClean' BY <1>1, <1>2, <1>3 DEF OpenClean, Open, Emptied, SlotOnly, OutSlot, s, IInv
<1>14. OpenReapers'
  BY <1>1, <1>2, <1>3, SlotAssumption DEF OpenReapers, Open, Gone, Handles, Emptied, SlotOnly,
     OutSlot, s, IInv
<1>15. OpenClients'
  BY <1>1, <1>2, <1>3, SlotAssumption DEF OpenClients, Open, Gone, Handles, Apart, Emptied,
     SlotOnly, OutSlot, Owners, ByTick, OpenMarks, s, IInv
<1>16. OpenUpkeep'
  BY <1>1, <1>2, <1>3, SlotAssumption DEF OpenUpkeep, Open, Handles, Borne, Emptying, Emptied,
     SlotOnly, OutSlot, TickTo, After, s, IInv
<1>17. OpenTodo'
  BY <1>1, <1>2, <1>3 DEF OpenTodo, Open, Gone, Handles, Emptying, Emptied, SlotOnly, OutSlot,
     TickTo, After, Owners, ByTick, OpenMarks, s, IInv
<1>18. StopIsFinal'
  BY <1>1, <1>2, <1>3 DEF StopIsFinal, Active, In, Emptied, SlotOnly, OutSlot, s, IInv
<1>19. Unwedged' BY <1>1, <1>2, <1>3 DEF Unwedged, TickTo, After, Emptying, s, IInv
<1>20. Counted'
  <2>1. Live' \subseteq Live
    BY <1>1, <1>3 DEF Emptied, SlotOnly, OutSlot, Live
  <2>2. IsFiniteSet(Live) BY PoolAssumption, FS_Subset DEF Live
  <2>3. Cardinality(Live') <= Cardinality(Live) /\ Cardinality(Live') \in Nat
        /\ Cardinality(Live) \in Nat
    BY <2>1, <2>2, FS_Subset, FS_CardinalityType
  <2> QED BY <1>1, <1>2, <1>3, <2>3 DEF IInv, Counted, Spawning, Types, Stopper, TickTo,
             Emptying, After
<1>21. OnlyReadyServe'
  BY <1>1, <1>2, <1>3 DEF OnlyReadyServe, Emptied, SlotOnly, OutSlot, s, IInv
<1>22. HandOuts'
  BY <1>1, <1>2, <1>3, SlotAssumption DEF HandOuts, Handles, Apart, Emptied, SlotOnly, OutSlot,
     s, IInv
<1>23. Apart' BY <1>2 DEF IInv, Apart
<1>24. NoneAbove BY <1>1, <1>3 DEF NoneAbove, Emptied, SlotOnly, OutSlot
<1> QED
  BY <1>4, <1>5, <1>6, <1>7, <1>8, <1>9, <1>10, <1>11, <1>12, <1>13, <1>14, <1>15, <1>16, <1>17,
     <1>18, <1>19, <1>20, <1>21, <1>22, <1>23, <1>24 DEF IInv

\* _reap_deferred: held husks are released only together, and only when nobody drains.
LEMMA StartReapersKept ==
  ASSUME IInv, StartReapers
  PROVE  IInv' /\ NoneAbove
<1>1. /\ Types /\ Handles /\ PoolTypeOK
      /\ tk.pc = "defer"
  BY TypesHold, SlotAssumption DEF StartReapers, IInv, Types, Handles, Borne, Emptying
<1>2. UNCHANGED <<slot, reaping, suspected, tries, cl, stop, inflight, size>>
  BY DEF StartReapers
<1>3. /\ Started /\ TickTo("burst", tk.todo, tk.slot, tk.left)
      /\ \/ UNCHANGED <<deferred, held>>
         \/ deferred' = deferred \cup held /\ held' = {}
  <2>1. TickTo("burst", tk.todo, tk.slot, tk.left)
    BY <1>1 DEF StartReapers, TGo, TickTo, Types, Ticker, TickPcs
  <2>2. CASE UNCHANGED <<rp, deferred, held>>
    BY <1>1, <2>1, <2>2 DEF Started, Types
  <2>3. CASE ~UNCHANGED <<rp, deferred, held>>
    <3>1. UNCHANGED <<deferred, held>> \/ (deferred' = deferred \cup held /\ held' = {})
      BY <2>3 DEF StartReapers
    <3>2. \E new \in SUBSET {r \in Reapers : rp[r].pc = "off"}, slow \in SUBSET Reapers :
            rp' = [r \in Reapers |->
                     IF r \in new THEN [IdleReaper EXCEPT !.pc = "drain"]
                     ELSE IF r \in slow THEN [rp[r] EXCEPT !.retired = TRUE] ELSE rp[r]]
      <4> DEFINE alive == {r \in Reapers : rp[r].pc # "off"}
                 Begun(new, slow) ==
                   rp' = [r \in Reapers |->
                            IF r \in new THEN [IdleReaper EXCEPT !.pc = "drain"]
                            ELSE IF r \in slow THEN [rp[r] EXCEPT !.retired = TRUE] ELSE rp[r]]
      <4>1. \E slow \in SUBSET {r \in Reapers : rp[r].pc = "reaping"} :
              \E new \in SUBSET (Reapers \ alive) : Begun(new, slow)
        BY <2>3, Zenon DEF StartReapers
      <4> HIDE DEF Begun
      <4>2. \E new \in SUBSET {r \in Reapers : rp[r].pc = "off"}, slow \in SUBSET Reapers :
              Begun(new, slow)
        BY <4>1
      <4> QED BY <4>2 DEF Begun
    <3>3. PICK new \in SUBSET {r \in Reapers : rp[r].pc = "off"}, slow \in SUBSET Reapers :
            rp' = [r \in Reapers |->
                     IF r \in new THEN [IdleReaper EXCEPT !.pc = "drain"]
                     ELSE IF r \in slow THEN [rp[r] EXCEPT !.retired = TRUE] ELSE rp[r]]
      BY <3>2
    <3>4. ASSUME NEW r \in Reapers
          PROVE  /\ rp'[r] \in Reaper /\ rp'[r].slot = rp[r].slot
                 /\ rp'[r].pc = rp[r].pc \/ (rp[r].pc = "off" /\ rp'[r].pc = "drain")
      <4> DEFINE w == [rp[r] EXCEPT !.retired = TRUE]
                 v == [IdleReaper EXCEPT !.pc = "drain"]
      <4>1. w \in Reaper /\ w.slot = rp[r].slot /\ w.pc = rp[r].pc
        BY <1>1 DEF Types, Reaper
      <4>2. v \in Reaper /\ v.slot = None /\ v.pc = "drain"
        BY DEF IdleReaper, Reaper, ReaperPcs
      <4>3. rp'[r] = IF r \in new THEN v ELSE IF r \in slow THEN w ELSE rp[r]
        BY <3>3
      <4>4. rp[r] \in Reaper /\ (rp[r].pc = "off" => rp[r].slot = None)
        BY <1>1 DEF IInv, Refs, Types
      <4> HIDE DEF w, v
      <4> QED BY <4>1, <4>2, <4>3, <4>4
    <3>5. rp' \in [Reapers -> Reaper]
      BY <3>3, <3>4
    <3> QED BY <2>1, <3>1, <3>4, <3>5 DEF Started
  <2> QED BY <2>2, <2>3
<1>4. PoolTypeOK' BY <1>1, <1>2, <1>3 DEF PoolTypeOK, Handles, Started, TickTo
<1>5. Refs'
  BY <1>1, <1>2, <1>3, SlotAssumption DEF Refs, Emptying, Borne, Quiet, Started, TickTo, IInv
<1>6. Counts' BY <1>1, <1>2, <1>3 DEF Counts, TickTo, IInv
<1>7. BornInHand' BY <1>1, <1>2, <1>3 DEF BornInHand, InHand, Borne, TickTo, IInv
<1>8. BornIsFree' BY <1>1, <1>2, <1>3, SlotAssumption DEF BornIsFree, Handles, TickTo, IInv
<1>9. Owners'
  BY <1>1, <1>2, <1>3, SlotAssumption DEF Owners, ByClient, ByReaper, ByTick, ByStop, Emptying,
     Started, TickTo, IInv
<1>10. OpenMarks' BY <1>1, <1>2, <1>3 DEF OpenMarks, Open, Gone, IInv
<1>11. OpenReapers'
  BY <1>1, <1>2, <1>3, SlotAssumption DEF OpenReapers, Open, Gone, Handles, Started, IInv
<1>12. OpenUpkeep'
  BY <1>1, <1>2, <1>3, SlotAssumption DEF OpenUpkeep, Open, Handles, Borne, Emptying, TickTo,
     IInv
<1>13. OpenTodo' BY <1>1, <1>2, <1>3 DEF OpenTodo, Open, Gone, Handles, Emptying, TickTo, IInv
<1>14. Unwedged' BY <1>1, <1>2, <1>3 DEF Unwedged, TickTo, IInv
<1>15. Counted'
  <2>1. Live' = Live BY <1>2 DEF Live
  <2> QED BY <1>1, <1>2, <1>3, <2>1, LiveFinite DEF IInv, Counted, Spawning, TickTo, Types,
             Stopper
<1>16. OutIsOut' /\ Apart' /\ OpenWorkers' /\ OpenClean' /\ OpenClients' /\ StopIsFinal'
      /\ OnlyReadyServe' /\ HandOuts'
  BY <1>2 DEF IInv, OutIsOut, OutSlot, Apart, OpenWorkers, Open, OpenClean, Clean, OpenClients,
     Gone, Handles, StopIsFinal, Active, In, OnlyReadyServe, HandOuts
<1>17. NoneAbove BY <1>2 DEF NoneAbove
<1> QED
  BY <1>4, <1>5, <1>6, <1>7, <1>8, <1>9, <1>10, <1>11, <1>12, <1>13, <1>14, <1>15, <1>16, <1>17
     DEF IInv

\* What is reserved and what is counted off fits the ceiling.
LEMMA SpawnPlanKept ==
  ASSUME IInv, SpawnPlan
  PROVE  IInv' /\ NoneAbove
<1>1. /\ Types /\ Handles /\ PoolTypeOK
      /\ tk.pc = "plan"
      /\ tk.todo = {}
  BY TypesHold, SlotAssumption DEF SpawnPlan, IInv, Types, Handles, Borne, Emptying, Refs, Quiet
<1>2. UNCHANGED <<slot, reaping, deferred, held, suspected, tries, cl, rp, stop, size>>
  BY DEF SpawnPlan, queueVars, tickRest
<1>3. \E left \in 0..MaxCeiling :
        \/ inflight' = inflight /\ TickTo("surplus", {}, tk.slot, left)
        \/ inflight' = inflight /\ TickTo("spawn", {}, tk.slot, left)
        \/ inflight' = left /\ TickTo("surplus", {}, tk.slot, left)
        \/ inflight' = left /\ TickTo("batch", {}, tk.slot, left)
  <2> DEFINE deficit == Target - Cardinality(Active)
             headroom == size.ceiling - Cardinality(Tracked)
             count == IF deficit > 0 /\ headroom > 0 THEN Least(deficit, headroom) ELSE 0
  <2>1. Cardinality(Active) \in Nat /\ Cardinality(Tracked) \in Nat
    BY PoolAssumption, FS_Subset, FS_CardinalityType DEF Active, Tracked, In
  <2>2. Target \in Nat /\ size.ceiling \in 1..MaxCeiling
    BY <1>1, PoolAssumption DEF PoolTypeOK, Target, Least
  <2>3. count \in 0..MaxCeiling
    BY <2>1, <2>2, PoolAssumption DEF Least
  <2>4. \/ /\ tk' = [tk EXCEPT !.pc = IF count = 0 THEN "surplus" ELSE "spawn", !.left = count]
           /\ ~(SpawnConcurrency > 1 /\ count > 1)
           /\ UNCHANGED inflight
        \/ /\ SpawnConcurrency > 1 /\ count > 1
           /\ \E k \in 0..count :
                /\ inflight' = k
                /\ tk' = [tk EXCEPT !.pc = IF k = 0 THEN "surplus" ELSE "batch", !.left = k]
        \/ TGo("surplus") /\ UNCHANGED inflight
    BY Zenon DEF SpawnPlan
  <2> HIDE DEF count
  <2>5. tk' = [tk EXCEPT !.pc = IF count = 0 THEN "surplus" ELSE "spawn", !.left = count]
        => TickTo(IF count = 0 THEN "surplus" ELSE "spawn", tk.todo, tk.slot, count)
    BY <1>1, <2>3 DEF TickTo, Types, Ticker, TickPcs
  <2>6. ASSUME NEW k \in 0..MaxCeiling,
               tk' = [tk EXCEPT !.pc = IF k = 0 THEN "surplus" ELSE "batch", !.left = k]
        PROVE  TickTo(IF k = 0 THEN "surplus" ELSE "batch", tk.todo, tk.slot, k)
    BY <1>1, <2>6 DEF TickTo, Types, Ticker, TickPcs
  <2>7. TGo("surplus") => TickTo("surplus", tk.todo, tk.slot, tk.left)
    BY <1>1 DEF TGo, TickTo, Types, Ticker, TickPcs
  <2>8. \A k \in 0..count : k \in 0..MaxCeiling
    BY <2>3, PoolAssumption
  <2>9. tk.left \in 0..MaxCeiling BY <1>1 DEF Types, Ticker
  <2> QED BY <1>1, <2>3, <2>4, <2>5, <2>6, <2>7, <2>8, <2>9
<1>4. PoolTypeOK' BY <1>1, <1>2, <1>3 DEF PoolTypeOK, Handles, TickTo
<1>5. Refs' BY <1>1, <1>2, <1>3, SlotAssumption DEF Refs, Emptying, Borne, Quiet, TickTo, IInv
<1>6. Counts' BY <1>1, <1>2, <1>3, FS_EmptySet DEF Counts, TickTo, IInv
<1>7. BornInHand' BY <1>1, <1>2, <1>3 DEF BornInHand, InHand, Borne, TickTo, IInv
<1>8. BornIsFree' BY <1>1, <1>2, <1>3, SlotAssumption DEF BornIsFree, Handles, TickTo, IInv
<1>9. Owners'
  BY <1>1, <1>2, <1>3, SlotAssumption DEF Owners, ByClient, ByReaper, ByTick, ByStop, Emptying,
     TickTo, IInv
<1>10. OpenUpkeep'
  BY <1>1, <1>2, <1>3, SlotAssumption DEF OpenUpkeep, Open, Handles, Borne, Emptying, TickTo,
     IInv
<1>11. OpenTodo' BY <1>1, <1>2, <1>3 DEF OpenTodo, Open, Gone, Handles, Emptying, TickTo, IInv
<1>12. Unwedged' BY <1>1, <1>2, <1>3 DEF Unwedged, TickTo, IInv
<1>13. Counted'
  <2>1. Live' = Live BY <1>2 DEF Live
  <2> QED BY <1>1, <1>2, <1>3, <2>1, LiveFinite DEF IInv, Counted, Spawning, TickTo, Types,
             Stopper
<1>14. OutIsOut' /\ Apart' /\ OpenWorkers' /\ OpenMarks' /\ OpenClean' /\ OpenReapers'
      /\ OpenClients' /\ StopIsFinal' /\ OnlyReadyServe' /\ HandOuts'
  BY <1>2 DEF IInv, OutIsOut, OutSlot, Apart, OpenWorkers, Open, OpenMarks, Gone, OpenClean,
     Clean, OpenReapers, Handles, OpenClients, StopIsFinal, Active, In, OnlyReadyServe, HandOuts
<1>15. NoneAbove BY <1>2 DEF NoneAbove
<1> QED
  BY <1>4, <1>5, <1>6, <1>7, <1>8, <1>9, <1>10, <1>11, <1>12, <1>13, <1>14, <1>15 DEF IInv

\* A slot id nobody refers to comes back as a spawned one.
LEMMA SpawnOneKept ==
  ASSUME IInv, NEW s \in Slots, SpawnOne(s)
  PROVE  IInv' /\ NoneAbove
<1>1. /\ Types /\ Handles /\ PoolTypeOK
      /\ tk.pc = "spawn"
      /\ tk.left > 0
      /\ slot[s].st = "out"
      /\ s \notin reaping /\ s \notin deferred
      /\ \A c \in Clients : cl[c].slot # s
      /\ \A r \in Reapers : rp[r].slot # s
      /\ tk.slot # s /\ s \notin tk.todo
      /\ stop.slot # s
  BY TypesHold, SlotAssumption DEF SpawnOne, IInv, Types, Handles, Borne, Emptying, Forgotten
<1>2. UNCHANGED <<reaping, deferred, held, suspected, tries, cl, rp, stop, inflight, size>>
  BY DEF SpawnOne, queueVars, tickRest
<1>3. Filled(s) /\ TickTo("publish", tk.todo, s, tk.left)
  BY <1>1 , FillEffect DEF SpawnOne, TickTo, Types, Ticker, TickPcs
<1>4. PoolTypeOK' BY <1>1, <1>2, <1>3 DEF PoolTypeOK, Handles, Filled, SlotOnly, TickTo
<1>5. Refs' BY <1>1, <1>2, <1>3, SlotAssumption DEF Refs, Emptying, Borne, Quiet, TickTo, IInv
<1>6. Counts' BY <1>1, <1>2, <1>3 DEF Counts, TickTo, IInv
<1>7. BornInHand'
  BY <1>1, <1>2, <1>3 DEF BornInHand, InHand, Borne, Filled, SlotOnly, TickTo, IInv
<1>8. OutIsOut' BY <1>1, <1>2, <1>3 DEF OutIsOut, Filled, SlotOnly, IInv
<1>9. BornIsFree'
  BY <1>1, <1>2, <1>3, SlotAssumption DEF BornIsFree, Handles, Filled, SlotOnly, TickTo, IInv
<1>10. Owners'
  BY <1>1, <1>2, <1>3, SlotAssumption DEF Owners, ByClient, ByReaper, ByTick, ByStop, Emptying,
     TickTo, IInv
<1>11. OpenWorkers' BY <1>1, <1>2, <1>3 DEF OpenWorkers, Open, Filled, SlotOnly, IInv
<1>12. OpenMarks' BY <1>1, <1>2, <1>3 DEF OpenMarks, Open, Gone, Filled, SlotOnly, IInv
<1>13. OpenClean' BY <1>1, <1>2, <1>3 DEF OpenClean, Open, Filled, SlotOnly, IInv
<1>14. OpenReapers'
  BY <1>1, <1>2, <1>3, SlotAssumption DEF OpenReapers, Open, Gone, Handles, Filled, SlotOnly,
     IInv
<1>15. OpenClients'
  BY <1>1, <1>2, <1>3, SlotAssumption DEF OpenClients, Open, Gone, Handles, Apart, Filled,
     SlotOnly, IInv
<1>16. OpenUpkeep'
  BY <1>1, <1>2, <1>3, SlotAssumption DEF OpenUpkeep, Open, Handles, Borne, Emptying, Filled,
     SlotOnly, TickTo, IInv
<1>17. OpenTodo'
  BY <1>1, <1>2, <1>3 DEF OpenTodo, Open, Gone, Handles, Emptying, Filled, SlotOnly, TickTo,
     IInv
<1>18. StopIsFinal' BY <1>1, <1>2, <1>3 DEF StopIsFinal, Active, In, Filled, SlotOnly, IInv
<1>19. Unwedged' BY <1>1, <1>2, <1>3 DEF Unwedged, TickTo, IInv
<1>20. Counted'
  <2>1. Live' = Live \cup {s}
    BY <1>1, <1>3 DEF Filled, SlotOnly, Live
  <2>2. Cardinality(Live') <= Cardinality(Live) + 1 /\ Cardinality(Live') \in Nat
    BY <2>1, LiveFinite, FS_AddElement
  <2> QED BY <1>1, <1>2, <1>3, <2>2, LiveFinite DEF IInv, Counted, Spawning, TickTo, Types,
             Stopper
<1>21. OnlyReadyServe' BY <1>1, <1>2, <1>3 DEF OnlyReadyServe, Filled, SlotOnly, IInv
<1>22. HandOuts'
  BY <1>1, <1>2, <1>3, SlotAssumption DEF HandOuts, Handles, Apart, Filled, SlotOnly, IInv
<1>23. Apart' BY <1>2 DEF IInv, Apart
<1>24. NoneAbove BY <1>1, <1>3 DEF NoneAbove, Filled, SlotOnly
<1> QED
  BY <1>4, <1>5, <1>6, <1>7, <1>8, <1>9, <1>10, <1>11, <1>12, <1>13, <1>14, <1>15, <1>16, <1>17,
     <1>18, <1>19, <1>20, <1>21, <1>22, <1>23, <1>24 DEF IInv

\* The same on a thread of the batch, under its reservation.
LEMMA BatchSpawnKept ==
  ASSUME IInv, NEW s \in Slots, BatchSpawn(s)
  PROVE  IInv' /\ NoneAbove
<1>1. /\ Types /\ Handles /\ PoolTypeOK
      /\ tk.pc = "batch"
      /\ tk.left > 0
      /\ ~Stopping
      /\ slot[s].st = "out"
      /\ s \notin reaping /\ s \notin deferred
      /\ \A c \in Clients : cl[c].slot # s
      /\ \A r \in Reapers : rp[r].slot # s
      /\ tk.slot # s /\ s \notin tk.todo
      /\ stop.slot # s
  BY TypesHold, SlotAssumption DEF BatchSpawn, IInv, Types, Handles, Borne, Emptying, Forgotten
<1>2. UNCHANGED <<reaping, deferred, held, suspected, tries, cl, rp, stop, inflight, size>>
  BY DEF BatchSpawn, queueVars, tickRest
<1>3. Filled(s) /\ TickTo("batch", tk.todo \cup {s}, tk.slot, tk.left - 1)
  <2>0. tk.left - 1 \in 0..MaxCeiling BY <1>1, PoolAssumption DEF Types, Ticker
  <2>1. TickTo("batch", tk.todo \cup {s}, tk.slot, tk.left - 1)
    BY <1>1, <2>0 DEF BatchSpawn, TickTo, Types, Ticker
  <2> QED BY <1>1, <2>1, FillEffect DEF BatchSpawn
<1>4. PoolTypeOK' BY <1>1, <1>2, <1>3 DEF PoolTypeOK, Handles, Filled, SlotOnly, TickTo
<1>5. Refs' BY <1>1, <1>2, <1>3, SlotAssumption DEF Refs, Emptying, Borne, Quiet, TickTo, IInv
<1>6. Counts'
  <2>1. Cardinality(tk.todo \cup {s}) = Cardinality(tk.todo) + 1
    BY <1>1, TodoFinite, FS_AddElement
  <2> QED BY <1>1, <1>2, <1>3, <2>1, TodoFinite DEF IInv, Counts, TickTo, Types, Ticker,
             PoolTypeOK
<1>7. BornInHand'
  BY <1>1, <1>2, <1>3 DEF BornInHand, InHand, Borne, Filled, SlotOnly, TickTo, IInv
<1>8. OutIsOut' BY <1>1, <1>2, <1>3 DEF OutIsOut, Filled, SlotOnly, IInv
<1>9. BornIsFree'
  BY <1>1, <1>2, <1>3, SlotAssumption DEF BornIsFree, Handles, Filled, SlotOnly, TickTo, IInv
<1>10. Owners'
  BY <1>1, <1>2, <1>3, SlotAssumption DEF Owners, ByClient, ByReaper, ByTick, ByStop, Emptying,
     TickTo, IInv
<1>11. OpenWorkers' BY <1>1, <1>2, <1>3 DEF OpenWorkers, Open, Filled, SlotOnly, IInv
<1>12. OpenMarks' BY <1>1, <1>2, <1>3 DEF OpenMarks, Open, Gone, Filled, SlotOnly, IInv
<1>13. OpenClean' BY <1>1, <1>2, <1>3 DEF OpenClean, Open, Filled, SlotOnly, IInv
<1>14. OpenReapers'
  BY <1>1, <1>2, <1>3, SlotAssumption DEF OpenReapers, Open, Gone, Handles, Filled, SlotOnly,
     IInv
<1>15. OpenClients'
  BY <1>1, <1>2, <1>3, SlotAssumption DEF OpenClients, Open, Gone, Handles, Apart, Filled,
     SlotOnly, IInv
<1>16. OpenUpkeep'
  BY <1>1, <1>2, <1>3, SlotAssumption DEF OpenUpkeep, Open, Handles, Borne, Emptying, Filled,
     SlotOnly, TickTo, IInv
<1>17. OpenTodo'
  BY <1>1, <1>2, <1>3 DEF OpenTodo, Open, Gone, Handles, Emptying, Filled, SlotOnly, TickTo,
     IInv
<1>18. StopIsFinal' BY <1>1, <1>2, <1>3 DEF StopIsFinal, Active, In, Filled, SlotOnly, IInv
<1>19. Unwedged' BY <1>1, <1>2, <1>3 DEF Unwedged, TickTo, IInv
<1>20. Counted'
  <2>1. stop.pc # "done"
    BY <1>1 DEF Stopping
  <2> QED BY <1>2, <2>1 DEF Counted
<1>21. OnlyReadyServe' BY <1>1, <1>2, <1>3 DEF OnlyReadyServe, Filled, SlotOnly, IInv
<1>22. HandOuts'
  BY <1>1, <1>2, <1>3, SlotAssumption DEF HandOuts, Handles, Apart, Filled, SlotOnly, IInv
<1>23. Apart' BY <1>2 DEF IInv, Apart
<1>24. NoneAbove BY <1>1, <1>3 DEF NoneAbove, Filled, SlotOnly
<1> QED
  BY <1>4, <1>5, <1>6, <1>7, <1>8, <1>9, <1>10, <1>11, <1>12, <1>13, <1>14, <1>15, <1>16, <1>17,
     <1>18, <1>19, <1>20, <1>21, <1>22, <1>23, <1>24 DEF IInv

\* A spawned slot comes into the books below the ceiling, or is not wanted.
LEMMA PublishKept ==
  ASSUME IInv, Publish
  PROVE  IInv' /\ NoneAbove
<1> DEFINE s == tk.slot
<1>1. /\ Types /\ Handles /\ PoolTypeOK
      /\ tk.pc = "publish"
      /\ s \in Slots
      /\ tk.left > 0
  BY TypesHold, SlotAssumption DEF Publish, IInv, Types, Handles, Borne, Emptying, Counts
<1>2. UNCHANGED <<reaping, deferred, held, suspected, tries, cl, rp, stop, inflight, size>>
  BY DEF Publish, queueVars, tickRest
<1>3. \/ slot' = slot /\ TickTo("drop", tk.todo, s, tk.left)
      \/ ~Stopping /\ Moved(s, "warming") /\ TickTo("spawn", tk.todo, None, tk.left - 1)
  <2>0. tk.left - 1 \in 0..MaxCeiling BY <1>1, PoolAssumption DEF Types, Ticker
  <2>1. TGo("drop") => TickTo("drop", tk.todo, s, tk.left)
    BY <1>1 DEF TGo, TickTo, Types, Ticker, TickPcs
  <2>2. tk' = [tk EXCEPT !.pc = "spawn", !.slot = None, !.left = @ - 1]
        => TickTo("spawn", tk.todo, None, tk.left - 1)
    BY <1>1, <2>0 DEF TickTo, Types, Ticker, TickPcs
  <2> QED BY <1>1, <2>1, <2>2, MoveEffect DEF Publish, Unwanted, SetState, SlotStates
<1> HIDE DEF s
<1>4. PoolTypeOK' BY <1>1, <1>2, <1>3 DEF PoolTypeOK, Handles, Moved, SlotOnly, TickTo, s
<1>5. Refs'
  BY <1>1, <1>2, <1>3, SlotAssumption DEF Refs, Emptying, Borne, Quiet, TickTo, s, IInv
<1>6. Counts' BY <1>1, <1>2, <1>3 DEF Counts, TickTo, s, IInv
<1>7. BornInHand'
  BY <1>1, <1>2, <1>3 DEF BornInHand, InHand, Borne, Moved, SlotOnly, TickTo, s, IInv
<1>8. OutIsOut'
  BY <1>1, <1>2, <1>3 DEF OutIsOut, Moved, SlotOnly, BornInHand, InHand, Borne, s, IInv
<1>9. BornIsFree'
  BY <1>1, <1>2, <1>3, SlotAssumption DEF BornIsFree, Handles, Moved, SlotOnly, TickTo, s, IInv
<1>10. Owners'
  BY <1>1, <1>2, <1>3, SlotAssumption DEF Owners, ByClient, ByReaper, ByTick, ByStop, Emptying,
     TickTo, s, IInv
<1>11. OpenWorkers'
  BY <1>1, <1>2, <1>3 DEF OpenWorkers, Open, Moved, SlotOnly, BornInHand, InHand, Borne, s, IInv
<1>12. OpenMarks'
  BY <1>1, <1>2, <1>3 DEF OpenMarks, Open, Gone, Moved, SlotOnly, BornInHand, InHand, Borne, s,
     IInv
<1>13. OpenClean'
  BY <1>1, <1>2, <1>3 DEF OpenClean, Open, Moved, SlotOnly, BornInHand, InHand, Borne, OutIsOut,
     OpenMarks, s, IInv
<1>14. OpenReapers'
  BY <1>1, <1>2, <1>3, SlotAssumption DEF OpenReapers, Open, Gone, Handles, Moved, SlotOnly,
     BornInHand, InHand, Borne, s, IInv
<1>15. OpenClients'
  BY <1>1, <1>2, <1>3, SlotAssumption DEF OpenClients, Open, Gone, Handles, Apart, Moved,
     SlotOnly, BornInHand, InHand, Borne, s, IInv
<1>16. OpenUpkeep'
  BY <1>1, <1>2, <1>3, SlotAssumption DEF OpenUpkeep, Open, Handles, Borne, Emptying, Moved,
     SlotOnly, TickTo, s, IInv
<1>17. OpenTodo'
  BY <1>1, <1>2, <1>3 DEF OpenTodo, Open, Gone, Handles, Emptying, Moved, SlotOnly, TickTo, s,
     IInv
<1>18. StopIsFinal'
  BY <1>1, <1>2, <1>3 DEF StopIsFinal, Active, In, Moved, SlotOnly, Stopping, s, IInv
<1>19. Unwedged' BY <1>1, <1>2, <1>3 DEF Unwedged, TickTo, s, IInv
<1>20. Counted'
  <2>1. Live' = Live BY <1>1, <1>2, <1>3 DEF Live, Moved, SlotOnly, Types
  <2> QED BY <1>1, <1>2, <1>3, <2>1, LiveFinite DEF IInv, Counted, Spawning, TickTo, Types,
             Stopper, Stopping
<1>21. OnlyReadyServe' BY <1>1, <1>2, <1>3 DEF OnlyReadyServe, Moved, SlotOnly, s, IInv
<1>22. HandOuts'
  BY <1>1, <1>2, <1>3, SlotAssumption DEF HandOuts, Handles, Apart, Moved, SlotOnly, s, IInv
<1>23. Apart' BY <1>2 DEF IInv, Apart
<1>24. NoneAbove
  <2>1. ~Unwanted => Cardinality(Tracked) < size.ceiling
    BY <1>1, TrackedFinite DEF Unwanted, PoolTypeOK
  <2>2. slot' = slot \/ ~Unwanted BY DEF Publish
  <2> QED BY <2>1, <2>2 DEF NoneAbove
<1> QED
  BY <1>4, <1>5, <1>6, <1>7, <1>8, <1>9, <1>10, <1>11, <1>12, <1>13, <1>14, <1>15, <1>16, <1>17,
     <1>18, <1>19, <1>20, <1>21, <1>22, <1>23, <1>24 DEF IInv

\* A slot that is not wanted is reaped, or becomes a husk.
LEMMA DropKept ==
  ASSUME IInv, Drop
  PROVE  IInv' /\ NoneAbove
<1> DEFINE s == tk.slot
<1>1. /\ Types /\ Handles /\ PoolTypeOK
      /\ tk.pc = "drop"
      /\ s \in Slots
  BY TypesHold, SlotAssumption DEF Drop, IInv, Types, Handles, Borne, Emptying
<1>2. UNCHANGED <<reaping, deferred, held, suspected, tries, cl, rp, stop, inflight, size>>
  BY DEF Drop, queueVars, tickRest
<1>3. (Emptied(s) \/ Moved(s, "draining")) /\ TickTo("surplus", tk.todo, None, 0)
  <2>1. Emptied(s) \/ Moved(s, "draining")
    <3> DEFINE w == [slot[s] EXCEPT !.st = "draining"]
    <3>1. w = [slot[s] EXCEPT !.st = "draining"] OBVIOUS
    <3>2. slot' = [slot EXCEPT ![s] = OutSlot] \/ slot' = [slot EXCEPT ![s].st = "draining"]
      BY DEF Drop, Dropped
    <3> QED BY <1>1, <3>2, EmptyEffect, MoveEffect DEF SlotStates
  <2>2. 0 \in 0..MaxCeiling BY PoolAssumption
  <2>3. TickTo("surplus", tk.todo, None, 0)
    BY <1>1, <2>2 DEF Drop, TickTo, Types, Ticker, TickPcs
  <2> QED BY <2>1, <2>3
<1> HIDE DEF s
<1>4. PoolTypeOK'
  BY <1>1, <1>2, <1>3 DEF PoolTypeOK, Handles, Moved, SlotOnly, Emptied, OutSlot, TickTo, s
<1>5. Refs'
  BY <1>1, <1>2, <1>3, SlotAssumption DEF Refs, Emptying, Borne, Quiet, TickTo, s, IInv
<1>6. Counts' BY <1>1, <1>2, <1>3 DEF Counts, TickTo, s, IInv
<1>7. BornInHand'
  BY <1>1, <1>2, <1>3 DEF BornInHand, InHand, Borne, Moved, SlotOnly, Emptied, OutSlot, TickTo,
     s, IInv
<1>8. OutIsOut'
  BY <1>1, <1>2, <1>3 DEF OutIsOut, Moved, SlotOnly, Emptied, OutSlot, BornInHand, InHand,
     Borne, s, IInv
<1>9. BornIsFree'
  BY <1>1, <1>2, <1>3, SlotAssumption DEF BornIsFree, Handles, Moved, SlotOnly, Emptied,
     OutSlot, TickTo, s, IInv
<1>10. Owners'
  BY <1>1, <1>2, <1>3, SlotAssumption DEF Owners, ByClient, ByReaper, ByTick, ByStop, Emptying,
     TickTo, s, IInv
<1>11. OpenWorkers'
  BY <1>1, <1>2, <1>3 DEF OpenWorkers, Open, Moved, SlotOnly, Emptied, OutSlot, BornInHand,
     InHand, Borne, s, IInv
<1>12. OpenMarks'
  BY <1>1, <1>2, <1>3 DEF OpenMarks, Open, Gone, Moved, SlotOnly, Emptied, OutSlot, BornInHand,
     InHand, Borne, BornIsFree, s, IInv
<1>13. OpenClean'
  BY <1>1, <1>2, <1>3 DEF OpenClean, Open, Moved, SlotOnly, Emptied, OutSlot, s, IInv
<1>14. OpenReapers'
  BY <1>1, <1>2, <1>3, SlotAssumption DEF OpenReapers, Open, Gone, Handles, Moved, SlotOnly,
     Emptied, OutSlot, s, IInv
<1>15. OpenClients'
  BY <1>1, <1>2, <1>3, SlotAssumption DEF OpenClients, Open, Gone, Handles, Apart, Moved,
     SlotOnly, Emptied, OutSlot, BornInHand, InHand, Borne, s, IInv
<1>16. OpenUpkeep'
  BY <1>1, <1>2, <1>3, SlotAssumption DEF OpenUpkeep, Open, Handles, Borne, Emptying, Moved,
     SlotOnly, Emptied, OutSlot, TickTo, s, IInv
<1>17. OpenTodo'
  BY <1>1, <1>2, <1>3 DEF OpenTodo, Open, Gone, Handles, Emptying, Moved, SlotOnly, Emptied,
     OutSlot, TickTo, s, IInv
<1>18. StopIsFinal'
  BY <1>1, <1>2, <1>3 DEF StopIsFinal, Active, In, Moved, SlotOnly, Emptied, OutSlot, s, IInv
<1>19. Unwedged' BY <1>1, <1>2, <1>3 DEF Unwedged, TickTo, s, IInv
<1>20. Counted'
  <2>1. Live' \subseteq Live
    BY <1>1, <1>3 DEF Emptied, Moved, SlotOnly, OutSlot, Live
  <2>2. Cardinality(Live') <= Cardinality(Live) /\ Cardinality(Live') \in Nat
    BY <2>1, LiveFinite, FS_Subset, FS_CardinalityType
  <2> QED BY <1>1, <1>2, <1>3, <2>2, LiveFinite DEF IInv, Counted, Spawning, Types, Stopper,
             TickTo
<1>21. OnlyReadyServe'
  BY <1>1, <1>2, <1>3 DEF OnlyReadyServe, Moved, SlotOnly, Emptied, OutSlot, s, IInv
<1>22. HandOuts'
  BY <1>1, <1>2, <1>3, SlotAssumption DEF HandOuts, Handles, Apart, Moved, SlotOnly, Emptied,
     OutSlot, s, IInv
<1>23. Apart' BY <1>2 DEF IInv, Apart
<1>24. NoneAbove BY <1>1, <1>3 DEF NoneAbove, Moved, SlotOnly, Emptied, OutSlot
<1> QED
  BY <1>4, <1>5, <1>6, <1>7, <1>8, <1>9, <1>10, <1>11, <1>12, <1>13, <1>14, <1>15, <1>16, <1>17,
     <1>18, <1>19, <1>20, <1>21, <1>22, <1>23, <1>24 DEF IInv

\* The reservations that remain are those of the slots in hand.
LEMMA BatchEndKept ==
  ASSUME IInv, BatchEnd
  PROVE  IInv' /\ NoneAbove
<1>1. /\ Types /\ Handles /\ PoolTypeOK
      /\ tk.pc = "batch"
      /\ tk.left = 0
  BY TypesHold, SlotAssumption DEF BatchEnd, IInv, Types, Handles, Borne, Emptying
<1>2. UNCHANGED <<slot, reaping, deferred, held, suspected, tries, cl, rp, stop, size>>
  BY DEF BatchEnd, queueVars, tickRest
<1>3. inflight' = Cardinality(tk.todo) /\ TickTo("settle", tk.todo, tk.slot, tk.left)
  BY <1>1  DEF BatchEnd, TGo, TickTo, Types, Ticker, TickPcs
<1>4. PoolTypeOK'
  <2>1. inflight' \in 0..MaxCeiling
    BY <1>1, <1>3, TodoFinite, PoolAssumption DEF IInv, Counts, PoolTypeOK
  <2> QED BY <1>1, <1>2, <1>3, <2>1 DEF PoolTypeOK, TickTo
<1>5. Refs' BY <1>1, <1>2, <1>3, SlotAssumption DEF Refs, Emptying, Borne, Quiet, TickTo, IInv
<1>6. Counts' BY <1>1, <1>2, <1>3, TodoFinite DEF Counts, TickTo, IInv
<1>7. BornInHand' BY <1>1, <1>2, <1>3 DEF BornInHand, InHand, Borne, TickTo, IInv
<1>8. BornIsFree' BY <1>1, <1>2, <1>3, SlotAssumption DEF BornIsFree, Handles, TickTo, IInv
<1>9. Owners'
  BY <1>1, <1>2, <1>3, SlotAssumption DEF Owners, ByClient, ByReaper, ByTick, ByStop, Emptying,
     TickTo, IInv
<1>10. OpenUpkeep'
  BY <1>1, <1>2, <1>3, SlotAssumption DEF OpenUpkeep, Open, Handles, Borne, Emptying, TickTo,
     IInv
<1>11. OpenTodo' BY <1>1, <1>2, <1>3 DEF OpenTodo, Open, Gone, Handles, Emptying, TickTo, IInv
<1>12. Unwedged' BY <1>1, <1>2, <1>3 DEF Unwedged, TickTo, IInv
<1>13. Counted'
  <2>1. Live' = Live BY <1>2 DEF Live
  <2> QED BY <1>1, <1>2, <1>3, <2>1, LiveFinite DEF IInv, Counted, Spawning, TickTo, Types,
             Stopper
<1>14. OutIsOut' /\ Apart' /\ OpenWorkers' /\ OpenMarks' /\ OpenClean' /\ OpenReapers'
      /\ OpenClients' /\ StopIsFinal' /\ OnlyReadyServe' /\ HandOuts'
  BY <1>2 DEF IInv, OutIsOut, OutSlot, Apart, OpenWorkers, Open, OpenMarks, Gone, OpenClean,
     Clean, OpenReapers, Handles, OpenClients, StopIsFinal, Active, In, OnlyReadyServe, HandOuts
<1>15. NoneAbove BY <1>2 DEF NoneAbove
<1> QED
  BY <1>4, <1>5, <1>6, <1>7, <1>8, <1>9, <1>10, <1>11, <1>12, <1>13, <1>14, <1>15 DEF IInv

\* _publish_or_reap_spawned: one of them comes into the books below the ceiling, or waits to be reaped.
LEMMA SettleKept ==
  ASSUME IInv, NEW s \in Slots, Settle(s)
  PROVE  IInv' /\ NoneAbove
<1>1. /\ Types /\ Handles /\ PoolTypeOK
      /\ tk.pc = "settle"
      /\ s \in tk.todo
      /\ s \in Slots
  BY TypesHold, SlotAssumption DEF Settle, IInv, Types, Handles, Borne, Emptying
<1>2. UNCHANGED <<reaping, deferred, held, suspected, tries, cl, rp, stop, size>>
  BY DEF Settle, queueVars, tickRest
<1>3. \/ UNCHANGED <<slot, inflight>> /\ TickTo("settleDrop", tk.todo \ {s}, s, tk.left)
      \/ ~Stopping /\ Moved(s, "warming") /\ inflight' = inflight - 1 /\ TickTo("settle", tk.todo \ {s}, tk.slot, tk.left)
  <2>1. tk' = [tk EXCEPT !.pc = "settleDrop", !.slot = s, !.todo = @ \ {s}]
        => TickTo("settleDrop", tk.todo \ {s}, s, tk.left)
    BY <1>1 DEF TickTo, Types, Ticker, TickPcs
  <2>2. tk' = [tk EXCEPT !.todo = @ \ {s}] => TickTo("settle", tk.todo \ {s}, tk.slot, tk.left)
    BY <1>1 DEF TickTo, Types, Ticker, TickPcs
  <2> QED BY <1>1, <2>1, <2>2, MoveEffect DEF Settle, Unwanted, SetState, SlotStates
<1>4. PoolTypeOK'
  <2>1. Cardinality(tk.todo) >= 1
    <3>1. Cardinality(tk.todo \ {s}) = Cardinality(tk.todo) - 1 /\ Cardinality(tk.todo \ {s}) \in Nat
      BY <1>1, TodoFinite, FS_RemoveElement, FS_CardinalityType
    <3> QED BY <3>1, TodoFinite, <1>1
  <2>2. inflight' \in 0..MaxCeiling
    BY <1>1, <1>3, <2>1, TodoFinite, PoolAssumption DEF IInv, Counts, PoolTypeOK
  <2> QED BY <1>1, <1>2, <1>3, <2>2 DEF PoolTypeOK, Moved, SlotOnly, TickTo
<1>5. Refs' BY <1>1, <1>2, <1>3, SlotAssumption DEF Refs, Emptying, Borne, Quiet, TickTo, IInv
<1>6. Counts'
  <2>1. Cardinality(tk.todo \ {s}) = Cardinality(tk.todo) - 1
    BY <1>1, TodoFinite, FS_RemoveElement
  <2>2. Cardinality(tk.todo) <= inflight /\ inflight \in Nat /\ Cardinality(tk.todo) \in Nat
    BY <1>1, TodoFinite DEF IInv, Counts, PoolTypeOK
  <2>3. CASE UNCHANGED <<slot, inflight>> /\ TickTo("settleDrop", tk.todo \ {s}, s, tk.left)
    BY <2>1, <2>2, <2>3 DEF Counts, TickTo
  <2>4. CASE inflight' = inflight - 1 /\ TickTo("settle", tk.todo \ {s}, tk.slot, tk.left)
    BY <2>1, <2>2, <2>4 DEF Counts, TickTo
  <2> QED BY <1>3, <2>3, <2>4
<1>7. BornInHand'
  BY <1>1, <1>2, <1>3 DEF BornInHand, InHand, Borne, Moved, SlotOnly, TickTo, IInv
<1>8. OutIsOut'
  BY <1>1, <1>2, <1>3 DEF OutIsOut, Moved, SlotOnly, BornInHand, InHand, Borne, IInv
<1>9. BornIsFree'
  BY <1>1, <1>2, <1>3, SlotAssumption DEF BornIsFree, Handles, Moved, SlotOnly, TickTo, IInv
<1>10. Owners'
  BY <1>1, <1>2, <1>3, SlotAssumption DEF Owners, ByClient, ByReaper, ByTick, ByStop, Emptying,
     TickTo, IInv
<1>11. OpenWorkers'
  BY <1>1, <1>2, <1>3 DEF OpenWorkers, Open, Moved, SlotOnly, BornInHand, InHand, Borne, IInv
<1>12. OpenMarks'
  BY <1>1, <1>2, <1>3 DEF OpenMarks, Open, Gone, Moved, SlotOnly, BornInHand, InHand, Borne,
     IInv
<1>13. OpenClean'
  BY <1>1, <1>2, <1>3 DEF OpenClean, Open, Moved, SlotOnly, BornInHand, InHand, Borne, OutIsOut,
     OpenMarks, IInv
<1>14. OpenReapers'
  BY <1>1, <1>2, <1>3, SlotAssumption DEF OpenReapers, Open, Gone, Handles, Moved, SlotOnly,
     BornInHand, InHand, Borne, IInv
<1>15. OpenClients'
  BY <1>1, <1>2, <1>3, SlotAssumption DEF OpenClients, Open, Gone, Handles, Apart, Moved,
     SlotOnly, BornInHand, InHand, Borne, IInv
<1>16. OpenUpkeep'
  BY <1>1, <1>2, <1>3, SlotAssumption DEF OpenUpkeep, Open, Handles, Borne, Emptying, Moved,
     SlotOnly, TickTo, IInv
<1>17. OpenTodo'
  BY <1>1, <1>2, <1>3 DEF OpenTodo, Open, Gone, Handles, Emptying, Moved, SlotOnly, TickTo, IInv
<1>18. StopIsFinal'
  BY <1>1, <1>2, <1>3 DEF StopIsFinal, Active, In, Moved, SlotOnly, Stopping, IInv
<1>19. Unwedged' BY <1>1, <1>2, <1>3 DEF Unwedged, TickTo, IInv
<1>20. Counted'
  <2>1. Live' = Live BY <1>1, <1>2, <1>3 DEF Live, Moved, SlotOnly, Types
  <2> QED BY <1>1, <1>2, <1>3, <2>1, LiveFinite DEF IInv, Counted, Spawning, TickTo, Types,
             Stopper, Stopping
<1>21. OnlyReadyServe' BY <1>1, <1>2, <1>3 DEF OnlyReadyServe, Moved, SlotOnly, IInv
<1>22. HandOuts'
  BY <1>1, <1>2, <1>3, SlotAssumption DEF HandOuts, Handles, Apart, Moved, SlotOnly, IInv
<1>23. Apart' BY <1>2 DEF IInv, Apart
<1>24. NoneAbove
  <2>1. ~Unwanted => Cardinality(Tracked) < size.ceiling
    BY <1>1, TrackedFinite DEF Unwanted, PoolTypeOK
  <2>2. slot' = slot \/ ~Unwanted BY DEF Settle
  <2> QED BY <2>1, <2>2 DEF NoneAbove
<1> QED
  BY <1>4, <1>5, <1>6, <1>7, <1>8, <1>9, <1>10, <1>11, <1>12, <1>13, <1>14, <1>15, <1>16, <1>17,
     <1>18, <1>19, <1>20, <1>21, <1>22, <1>23, <1>24 DEF IInv

\* It is reaped, or becomes a husk, and its reservation ends.
LEMMA SettleDropKept ==
  ASSUME IInv, SettleDrop
  PROVE  IInv' /\ NoneAbove
<1> DEFINE s == tk.slot
<1>1. /\ Types /\ Handles /\ PoolTypeOK
      /\ tk.pc = "settleDrop"
      /\ s \in Slots
  BY TypesHold, SlotAssumption DEF SettleDrop, IInv, Types, Handles, Borne, Emptying
<1>2. UNCHANGED <<reaping, deferred, held, suspected, tries, cl, rp, stop, size>>
  BY DEF SettleDrop, queueVars, tickRest
<1>3. (Emptied(s) \/ Moved(s, "draining")) /\ TickTo("settle", tk.todo, None, tk.left) /\ inflight' = inflight - 1
  <2>1. Emptied(s) \/ Moved(s, "draining")
    <3> DEFINE w == [slot[s] EXCEPT !.st = "draining"]
    <3>1. w = [slot[s] EXCEPT !.st = "draining"] OBVIOUS
    <3>2. slot' = [slot EXCEPT ![s] = OutSlot] \/ slot' = [slot EXCEPT ![s].st = "draining"]
      BY DEF SettleDrop, Dropped
    <3> QED BY <1>1, <3>2, EmptyEffect, MoveEffect DEF SlotStates
  <2>2. TickTo("settle", tk.todo, None, tk.left)
    BY <1>1 DEF SettleDrop, TickTo, Types, Ticker, TickPcs
  <2> QED BY <2>1, <2>2 DEF SettleDrop
<1> HIDE DEF s
<1>4. PoolTypeOK'
  <2>1. inflight' \in 0..MaxCeiling
    BY <1>1, <1>3, TodoFinite, PoolAssumption DEF IInv, Counts, PoolTypeOK
  <2> QED BY <1>1, <1>2, <1>3, <2>1 DEF PoolTypeOK, Emptied, Moved, SlotOnly, TickTo
<1>5. Refs'
  BY <1>1, <1>2, <1>3, SlotAssumption DEF Refs, Emptying, Borne, Quiet, TickTo, s, IInv
<1>6. Counts'
  BY <1>1, <1>2, <1>3, TodoFinite DEF Counts, TickTo, Types, Ticker, PoolTypeOK, s, IInv
<1>7. BornInHand'
  BY <1>1, <1>2, <1>3 DEF BornInHand, InHand, Borne, Moved, SlotOnly, Emptied, OutSlot, TickTo,
     BornIsFree, s, IInv
<1>8. OutIsOut'
  BY <1>1, <1>2, <1>3 DEF OutIsOut, Moved, SlotOnly, Emptied, OutSlot, BornInHand, InHand,
     Borne, s, IInv
<1>9. BornIsFree'
  BY <1>1, <1>2, <1>3, SlotAssumption DEF BornIsFree, Handles, Moved, SlotOnly, Emptied,
     OutSlot, TickTo, s, IInv
<1>10. Owners'
  BY <1>1, <1>2, <1>3, SlotAssumption DEF Owners, ByClient, ByReaper, ByTick, ByStop, Emptying,
     TickTo, s, IInv
<1>11. OpenWorkers'
  BY <1>1, <1>2, <1>3 DEF OpenWorkers, Open, Moved, SlotOnly, Emptied, OutSlot, BornInHand,
     InHand, Borne, s, IInv
<1>12. OpenMarks'
  BY <1>1, <1>2, <1>3 DEF OpenMarks, Open, Gone, Moved, SlotOnly, Emptied, OutSlot, BornInHand,
     InHand, Borne, BornIsFree, s, IInv
<1>13. OpenClean'
  BY <1>1, <1>2, <1>3 DEF OpenClean, Open, Moved, SlotOnly, Emptied, OutSlot, s, IInv
<1>14. OpenReapers'
  BY <1>1, <1>2, <1>3, SlotAssumption DEF OpenReapers, Open, Gone, Handles, Moved, SlotOnly,
     Emptied, OutSlot, s, IInv
<1>15. OpenClients'
  BY <1>1, <1>2, <1>3, SlotAssumption DEF OpenClients, Open, Gone, Handles, Apart, Moved,
     SlotOnly, Emptied, OutSlot, BornInHand, InHand, Borne, s, IInv
<1>16. OpenUpkeep'
  BY <1>1, <1>2, <1>3, SlotAssumption DEF OpenUpkeep, Open, Handles, Borne, Emptying, Moved,
     SlotOnly, Emptied, OutSlot, TickTo, s, IInv
<1>17. OpenTodo'
  BY <1>1, <1>2, <1>3 DEF OpenTodo, Open, Gone, Handles, Emptying, Moved, SlotOnly, Emptied,
     OutSlot, TickTo, s, IInv
<1>18. StopIsFinal'
  BY <1>1, <1>2, <1>3 DEF StopIsFinal, Active, In, Moved, SlotOnly, Emptied, OutSlot, s, IInv
<1>19. Unwedged' BY <1>1, <1>2, <1>3 DEF Unwedged, TickTo, s, IInv
<1>20. Counted'
  <2>1. Live' \subseteq Live
    BY <1>1, <1>3 DEF Emptied, Moved, SlotOnly, OutSlot, Live
  <2>2. Cardinality(Live') <= Cardinality(Live) /\ Cardinality(Live') \in Nat
    BY <2>1, LiveFinite, FS_Subset, FS_CardinalityType
  <2> QED BY <1>1, <1>2, <1>3, <2>2, LiveFinite DEF IInv, Counted, Spawning, Types, Stopper,
             TickTo
<1>21. OnlyReadyServe'
  BY <1>1, <1>2, <1>3 DEF OnlyReadyServe, Moved, SlotOnly, Emptied, OutSlot, s, IInv
<1>22. HandOuts'
  BY <1>1, <1>2, <1>3, SlotAssumption DEF HandOuts, Handles, Apart, Moved, SlotOnly, Emptied,
     OutSlot, s, IInv
<1>23. Apart' BY <1>2 DEF IInv, Apart
<1>24. NoneAbove BY <1>1, <1>3 DEF NoneAbove, Moved, SlotOnly, Emptied, OutSlot
<1> QED
  BY <1>4, <1>5, <1>6, <1>7, <1>8, <1>9, <1>10, <1>11, <1>12, <1>13, <1>14, <1>15, <1>16, <1>17,
     <1>18, <1>19, <1>20, <1>21, <1>22, <1>23, <1>24 DEF IInv

\* _reap_surplus: the slots that are shed were idle, so nobody has them.
LEMMA SurplusKept ==
  ASSUME IInv, Surplus
  PROVE  IInv' /\ NoneAbove
<1>1. /\ Types /\ Handles /\ PoolTypeOK
      /\ tk.pc = "surplus" \/ tk.pc = "settle"
      /\ tk.todo = {}
  BY TypesHold, SlotAssumption DEF Surplus, IInv, Types, Handles, Borne, Emptying, Refs, Quiet
<1>2. UNCHANGED <<reaping, deferred, held, suspected, tries, cl, rp, stop, inflight, size>>
  BY DEF Surplus, queueVars, tickRest
<1>3. \E ss \in SUBSET In({"idle"}) : AllDrained(ss) /\ TickTo("shed", ss, tk.slot, tk.left)
  <2>1. UNCHANGED slot /\ TGo("shed") => AllDrained({}) /\ TickTo("shed", {}, tk.slot, tk.left)
    BY <1>1 DEF AllDrained, TGo, TickTo, Types, Ticker, TickPcs
  <2>2. ASSUME NEW ss \in SUBSET In({"idle"}), tk' = [tk EXCEPT !.pc = "shed", !.todo = ss],
               slot' = [x \in Slots |-> IF x \in ss THEN [slot[x] EXCEPT !.st = "draining"] ELSE slot[x]]
        PROVE  AllDrained(ss) /\ TickTo("shed", ss, tk.slot, tk.left)
    <3>1. ss \in SUBSET Slots BY DEF In
    <3>2. TickTo("shed", ss, tk.slot, tk.left)
      BY <1>1, <2>2, <3>1 DEF TickTo, Types, Ticker, TickPcs
    <3> QED BY <1>1, <2>2, <3>1, <3>2, DrainEffect
  <2>3. {} \in SUBSET In({"idle"}) OBVIOUS
  <2>4. \/ TGo("shed") /\ UNCHANGED slot
        \/ \E ss \in SUBSET In({"idle"}) :
             /\ slot' = [x \in Slots |-> IF x \in ss THEN [slot[x] EXCEPT !.st = "draining"] ELSE slot[x]]
             /\ tk' = [tk EXCEPT !.pc = "shed", !.todo = ss]
    BY Zenon DEF Surplus
  <2> QED BY <2>1, <2>2, <2>3, <2>4
<1>4. PoolTypeOK' BY <1>1, <1>2, <1>3 DEF PoolTypeOK, Handles, AllDrained, TickTo
<1>5. Refs' BY <1>1, <1>2, <1>3, SlotAssumption DEF Refs, Emptying, Borne, Quiet, TickTo, IInv
<1>6. Counts' BY <1>1, <1>2, <1>3 DEF Counts, TickTo, IInv
<1>7. BornInHand'
  BY <1>1, <1>2, <1>3 DEF BornInHand, InHand, Borne, AllDrained, TickTo, In, IInv
<1>8. OutIsOut' BY <1>1, <1>2, <1>3 DEF OutIsOut, AllDrained, In, IInv
<1>9. BornIsFree'
  BY <1>1, <1>2, <1>3, SlotAssumption DEF BornIsFree, Handles, AllDrained, TickTo, In, IInv
<1>10. Owners'
  BY <1>1, <1>2, <1>3, SlotAssumption DEF Owners, ByClient, ByReaper, ByTick, ByStop, Emptying,
     TickTo, IInv
<1>11. OpenWorkers' BY <1>1, <1>2, <1>3 DEF OpenWorkers, Open, AllDrained, In, IInv
<1>12. OpenMarks' BY <1>1, <1>2, <1>3 DEF OpenMarks, Open, Gone, AllDrained, In, IInv
<1>13. OpenClean' BY <1>1, <1>2, <1>3 DEF OpenClean, Open, AllDrained, In, IInv
<1>14. OpenReapers'
  BY <1>1, <1>2, <1>3, SlotAssumption DEF OpenReapers, Open, Gone, Handles, AllDrained, In, IInv
<1>15. OpenClients'
  BY <1>1, <1>2, <1>3, SlotAssumption DEF OpenClients, Open, Gone, Handles, Apart, AllDrained,
     In, IInv
<1>16. OpenUpkeep'
  BY <1>1, <1>2, <1>3, SlotAssumption DEF OpenUpkeep, Open, Handles, Borne, Emptying,
     AllDrained, TickTo, In, IInv
<1>17. OpenTodo'
  BY <1>1, <1>2, <1>3 DEF OpenTodo, Open, Gone, Handles, Emptying, AllDrained, TickTo, In,
     OpenMarks, IInv
<1>18. StopIsFinal' BY <1>1, <1>2, <1>3 DEF StopIsFinal, Active, In, AllDrained, IInv
<1>19. Unwedged' BY <1>1, <1>2, <1>3 DEF Unwedged, TickTo, IInv
<1>20. Counted'
  <2>1. Live' = Live BY <1>3 DEF Live, AllDrained
  <2> QED BY <1>1, <1>2, <1>3, <2>1, LiveFinite DEF IInv, Counted, Spawning, TickTo, Types,
             Stopper
<1>21. OnlyReadyServe' BY <1>1, <1>2, <1>3 DEF OnlyReadyServe, AllDrained, In, IInv
<1>22. HandOuts'
  BY <1>1, <1>2, <1>3, SlotAssumption DEF HandOuts, Handles, Apart, AllDrained, In, IInv
<1>23. Apart' BY <1>2 DEF IInv, Apart
<1>24. NoneAbove BY <1>1, <1>3 DEF NoneAbove, AllDrained
<1> QED
  BY <1>4, <1>5, <1>6, <1>7, <1>8, <1>9, <1>10, <1>11, <1>12, <1>13, <1>14, <1>15, <1>16, <1>17,
     <1>18, <1>19, <1>20, <1>21, <1>22, <1>23, <1>24 DEF IInv

\* Only slots that are still idle or warming are condemned, so no client loses one.
LEMMA HealthDemoteKept ==
  ASSUME IInv, HealthDemote
  PROVE  IInv' /\ NoneAbove
<1>1. /\ Types /\ Handles /\ PoolTypeOK
      /\ tk.pc = "health"
  BY TypesHold, SlotAssumption DEF HealthDemote, IInv, Types, Handles, Borne, Emptying
<1>2. UNCHANGED <<reaping, held, tries, cl, rp, stop, inflight, size>>
  BY DEF HealthDemote, tickRest
<1>3. \E gone \in SUBSET Slots, hunch \in SUBSET Slots :
        /\ \A x \in gone : slot[x].st \in {"idle", "warming"}
        /\ AllDrained(gone)
        /\ suspected' = suspected \cup (gone \cap hunch)
        /\ deferred' = IF Stopping THEN deferred ELSE deferred \cup (gone \cap hunch)
        /\ TickTo("evict", gone \ hunch, tk.slot, tk.left)
  <2>1. \E gone \in SUBSET In({"idle", "warming"}) :
          /\ slot' = [x \in Slots |-> IF x \in gone THEN [slot[x] EXCEPT !.st = "draining"] ELSE slot[x]]
          /\ suspected' = suspected \cup (gone \cap tk.hunch)
          /\ deferred' = IF Stopping THEN deferred ELSE deferred \cup (gone \cap tk.hunch)
          /\ tk' = [tk EXCEPT !.pc = "evict", !.todo = gone \ tk.hunch, !.doomed = {}, !.hunch = {}]
    <3> DEFINE there == tk.doomed \cap In({"idle", "warming"})
               unproven == {s \in there : s \in tk.hunch \/ slot[s].st = "warming"}
    <3>1. PICK spared \in SUBSET unproven :
            /\ slot' = [x \in Slots |-> IF x \in there \ spared THEN [slot[x] EXCEPT !.st = "draining"] ELSE slot[x]]
            /\ suspected' = suspected \cup ((there \ spared) \cap tk.hunch)
            /\ Queue((there \ spared) \cap tk.hunch)
            /\ tk' = [tk EXCEPT !.pc = "evict", !.todo = (there \ spared) \ tk.hunch, !.doomed = {}, !.hunch = {}]
      BY Zenon DEF HealthDemote
    <3>2. there \ spared \in SUBSET In({"idle", "warming"}) OBVIOUS
    <3> HIDE DEF there
    <3> QED BY <3>1, <3>2 DEF Queue
  <2>2. PICK gone \in SUBSET In({"idle", "warming"}) :
          /\ slot' = [x \in Slots |-> IF x \in gone THEN [slot[x] EXCEPT !.st = "draining"] ELSE slot[x]]
          /\ suspected' = suspected \cup (gone \cap tk.hunch)
          /\ deferred' = IF Stopping THEN deferred ELSE deferred \cup (gone \cap tk.hunch)
          /\ tk' = [tk EXCEPT !.pc = "evict", !.todo = gone \ tk.hunch, !.doomed = {}, !.hunch = {}]
    BY <2>1
  <2>3. gone \in SUBSET Slots /\ \A x \in gone : slot[x].st \in {"idle", "warming"} BY DEF In
  <2>4. AllDrained(gone) BY <1>1, <2>2, <2>3, DrainEffect
  <2>5. TickTo("evict", gone \ tk.hunch, tk.slot, tk.left) /\ tk.hunch \in SUBSET Slots
    BY <1>1, <2>2, <2>3 DEF TickTo, Types, Ticker, TickPcs
  <2> QED BY <2>2, <2>3, <2>4, <2>5
<1>4. PoolTypeOK' BY <1>1, <1>2, <1>3 DEF PoolTypeOK, Handles, AllDrained, TickTo
<1>5. Refs' BY <1>1, <1>2, <1>3, SlotAssumption DEF Refs, Emptying, Borne, Quiet, TickTo, IInv
<1>6. Counts' BY <1>1, <1>2, <1>3 DEF Counts, TickTo, IInv
<1>7. BornInHand' BY <1>1, <1>2, <1>3 DEF BornInHand, InHand, Borne, AllDrained, TickTo, IInv
<1>8. OutIsOut' BY <1>1, <1>2, <1>3 DEF OutIsOut, AllDrained, IInv
<1>9. BornIsFree'
  BY <1>1, <1>2, <1>3, SlotAssumption DEF BornIsFree, Handles, AllDrained, TickTo, IInv
<1>10. Owners'
  BY <1>1, <1>2, <1>3, SlotAssumption DEF Owners, ByClient, ByReaper, ByTick, ByStop, Emptying,
     TickTo, IInv
<1>11. OpenWorkers' BY <1>1, <1>2, <1>3 DEF OpenWorkers, Open, AllDrained, IInv
<1>12. OpenMarks' BY <1>1, <1>2, <1>3 DEF OpenMarks, Open, Gone, AllDrained, IInv
<1>13. OpenClean' BY <1>1, <1>2, <1>3 DEF OpenClean, Open, AllDrained, OutIsOut, Clean, IInv
<1>14. OpenReapers'
  BY <1>1, <1>2, <1>3, SlotAssumption DEF OpenReapers, Open, Gone, Handles, AllDrained, IInv
<1>15. OpenClients'
  BY <1>1, <1>2, <1>3, SlotAssumption DEF OpenClients, Open, Gone, Handles, Apart, AllDrained,
     Refs, Types, Client, ClientPcs, IInv
<1>16. OpenUpkeep'
  BY <1>1, <1>2, <1>3, SlotAssumption DEF OpenUpkeep, Open, Handles, Borne, Emptying,
     AllDrained, TickTo, IInv
<1>17. OpenTodo'
  BY <1>1, <1>2, <1>3 DEF OpenTodo, Open, Gone, Handles, Emptying, AllDrained, TickTo,
     OpenMarks, IInv
<1>18. StopIsFinal' BY <1>1, <1>2, <1>3 DEF StopIsFinal, Active, In, AllDrained, IInv
<1>19. Unwedged' BY <1>1, <1>2, <1>3 DEF Unwedged, TickTo, IInv
<1>20. Counted'
  <2>1. Live' = Live BY <1>3 DEF Live, AllDrained
  <2> QED BY <1>1, <1>2, <1>3, <2>1, LiveFinite DEF IInv, Counted, Spawning, TickTo, Types,
             Stopper
<1>21. OnlyReadyServe' BY <1>1, <1>2, <1>3 DEF OnlyReadyServe, AllDrained, IInv
<1>22. HandOuts'
  BY <1>1, <1>2, <1>3, SlotAssumption DEF HandOuts, Handles, Apart, AllDrained, IInv
<1>23. Apart' BY <1>2 DEF IInv, Apart
<1>24. NoneAbove BY <1>1, <1>3 DEF NoneAbove, AllDrained
<1> QED
  BY <1>4, <1>5, <1>6, <1>7, <1>8, <1>9, <1>10, <1>11, <1>12, <1>13, <1>14, <1>15, <1>16, <1>17,
     <1>18, <1>19, <1>20, <1>21, <1>22, <1>23, <1>24 DEF IInv

\* A reaper takes a queued slot; it is in neither queue any more.
LEMMA ReaperTakeKept ==
  ASSUME IInv, NEW r \in Reapers, NEW s \in Slots, ReaperTake(r, s)
  PROVE  IInv' /\ NoneAbove
<1>1. /\ Types /\ Handles /\ PoolTypeOK
      /\ rp[r].pc = "drain"
      /\ s \in deferred
  BY TypesHold, SlotAssumption DEF ReaperTake, IInv, Types, Handles, Borne, Emptying
<1>2. UNCHANGED <<slot, reaping, held, suspected, tries, cl, tk, stop, inflight, size>>
  BY DEF ReaperTake, reaperRest
<1>3. /\ deferred' = deferred \ {s}
      /\ \/ Seen(s) /\ ReaperTo(r, "reap", s)
         \/ ~Seen(s) /\ rp' = rp
  <2>1. rp' = [rp EXCEPT ![r].pc = "reap", ![r].slot = s] => ReaperTo(r, "reap", s)
    BY <1>1, HandEffect DEF ReaperPcs
  <2> QED BY <1>1, <2>1, TrackedSeen DEF ReaperTake
<1>4. PoolTypeOK' BY <1>1, <1>2, <1>3 DEF PoolTypeOK, Handles, ReaperTo, Seen
<1>5. Refs' BY <1>1, <1>2, <1>3, SlotAssumption DEF Refs, Emptying, Borne, Quiet, ReaperTo, IInv
<1>6. Owners'
  BY <1>1, <1>2, <1>3, SlotAssumption DEF Owners, ByClient, ByReaper, ByTick, ByStop, Emptying,
     ReaperTo, IInv
<1>7. OpenMarks' BY <1>1, <1>2, <1>3 DEF OpenMarks, Open, Gone, Seen, IInv
<1>8. OpenReapers'
  BY <1>1, <1>2, <1>3, SlotAssumption DEF OpenReapers, Open, Gone, Handles, ReaperTo, Seen,
     OpenMarks, IInv
<1>9. Counts' /\ BornInHand' /\ OutIsOut' /\ BornIsFree' /\ Apart' /\ OpenWorkers'
      /\ OpenClean' /\ OpenClients' /\ OpenUpkeep' /\ OpenTodo' /\ StopIsFinal' /\ Unwedged'
      /\ Counted' /\ OnlyReadyServe' /\ HandOuts'
  BY <1>2 DEF IInv, Counts, BornInHand, InHand, Borne, Emptying, OutIsOut, OutSlot, BornIsFree,
     Handles, Apart, OpenWorkers, Open, OpenClean, Clean, OpenClients, Gone, OpenUpkeep,
     OpenTodo, StopIsFinal, Active, In, Unwedged, Counted, Live, Spawning, OnlyReadyServe,
     HandOuts
<1>10. NoneAbove BY <1>2 DEF NoneAbove
<1> QED
  BY <1>4, <1>5, <1>6, <1>7, <1>8, <1>9, <1>10 DEF IInv

\* A reaper has nothing left to do.
LEMMA ReaperEndKept ==
  ASSUME IInv, NEW r \in Reapers, ReaperEnd(r)
  PROVE  IInv' /\ NoneAbove
<1>1. /\ Types /\ Handles /\ PoolTypeOK
      /\ rp[r].pc = "drain"
  BY TypesHold, SlotAssumption DEF ReaperEnd, IInv, Types, Handles, Borne, Emptying
<1>2. UNCHANGED <<slot, reaping, deferred, held, suspected, tries, cl, tk, stop, inflight, size>>
  BY DEF ReaperEnd, queueVars, reaperRest
<1>3. ReaperTo(r, "off", None)
  BY <1>1  DEF ReaperEnd, ReaperTo, IdleReaper, Types, Reaper, ReaperPcs
<1>4. PoolTypeOK' BY <1>1, <1>2, <1>3 DEF PoolTypeOK, Handles, ReaperTo
<1>5. Refs' BY <1>1, <1>2, <1>3, SlotAssumption DEF Refs, Emptying, Borne, Quiet, ReaperTo, IInv
<1>6. Owners'
  BY <1>1, <1>2, <1>3, SlotAssumption DEF Owners, ByClient, ByReaper, ByTick, ByStop, Emptying,
     ReaperTo, IInv
<1>7. OpenReapers'
  BY <1>1, <1>2, <1>3, SlotAssumption DEF OpenReapers, Open, Gone, Handles, ReaperTo, IInv
<1>8. Counts' /\ BornInHand' /\ OutIsOut' /\ BornIsFree' /\ Apart' /\ OpenWorkers'
      /\ OpenMarks' /\ OpenClean' /\ OpenClients' /\ OpenUpkeep' /\ OpenTodo' /\ StopIsFinal'
      /\ Unwedged' /\ Counted' /\ OnlyReadyServe' /\ HandOuts'
  BY <1>2 DEF IInv, Counts, BornInHand, InHand, Borne, Emptying, OutIsOut, OutSlot, BornIsFree,
     Handles, Apart, OpenWorkers, Open, OpenMarks, Gone, OpenClean, Clean, OpenClients,
     OpenUpkeep, OpenTodo, StopIsFinal, Active, In, Unwedged, Counted, Live, Spawning,
     OnlyReadyServe, HandOuts
<1>9. NoneAbove BY <1>2 DEF NoneAbove
<1> QED
  BY <1>4, <1>5, <1>6, <1>7, <1>8, <1>9 DEF IInv

\* A reaper becomes the owner of the disposal, or somebody else is.
LEMMA ReaperReapKept ==
  ASSUME IInv, NEW r \in Reapers, ReaperReap(r)
  PROVE  IInv' /\ NoneAbove
<1> DEFINE s == rp[r].slot
<1>1. /\ Types /\ Handles /\ PoolTypeOK
      /\ rp[r].pc = "reap"
      /\ s \in Slots
  BY TypesHold, SlotAssumption DEF ReaperReap, IInv, Types, Handles, Borne, Emptying
<1>2. UNCHANGED <<slot, deferred, held, cl, tk, stop, inflight, size>>
  BY DEF ReaperReap, reaperRest
<1>3. \/ /\ Seen(s) /\ s \notin reaping /\ reaping' = reaping \cup {s} /\ UNCHANGED <<suspected, tries>>
         /\ ReaperTo(r, "reaping", s)
      \/ /\ reaping' = reaping /\ suspected' = suspected \ {s} /\ Cleared(s)
         /\ ReaperTo(r, "drain", None)
  <2>1. PGo(r, "reaping") => ReaperTo(r, "reaping", s)
    BY <1>1, PGoEffect DEF ReaperPcs
  <2>2. rp' = [rp EXCEPT ![r].pc = "drain", ![r].slot = None] => ReaperTo(r, "drain", None)
    BY <1>1, HandEffect DEF ReaperPcs
  <2> QED BY <1>1, <2>1, <2>2, ClearEffect, TrackedSeen DEF ReaperReap, MayReap, Unmark
<1> HIDE DEF s
<1>4. PoolTypeOK'
  BY <1>1, <1>2, <1>3 DEF PoolTypeOK, Handles, ReaperTo, Seen, Cleared, Retried, s
<1>5. Refs'
  BY <1>1, <1>2, <1>3, SlotAssumption DEF Refs, Emptying, Borne, Quiet, ReaperTo, s, IInv
<1>6. OutIsOut' BY <1>1, <1>2, <1>3 DEF OutIsOut, Seen, Cleared, Retried, s, IInv
<1>7. BornIsFree' BY <1>1, <1>2, <1>3, SlotAssumption DEF BornIsFree, Handles, Seen, s, IInv
<1>8. Owners'
  BY <1>1, <1>2, <1>3, SlotAssumption DEF Owners, ByClient, ByReaper, ByTick, ByStop, Emptying,
     ReaperTo, s, IInv
<1>9. OpenMarks'
  BY <1>1, <1>2, <1>3, SlotAssumption DEF OpenMarks, Open, Gone, Seen, OpenReapers, s, IInv
<1>10. OpenClean' BY <1>1, <1>2, <1>3 DEF OpenClean, Open, Seen, s, IInv
<1>11. OpenReapers'
  BY <1>1, <1>2, <1>3, SlotAssumption DEF OpenReapers, Open, Gone, Handles, ReaperTo, Seen, s,
     IInv
<1>12. OpenClients'
  BY <1>1, <1>2, <1>3, SlotAssumption DEF OpenClients, Open, Gone, Handles, Apart, Seen, s, IInv
<1>13. OpenTodo' BY <1>1, <1>2, <1>3 DEF OpenTodo, Open, Gone, Handles, Emptying, Seen, s, IInv
<1>14. Counts' /\ BornInHand' /\ Apart' /\ OpenWorkers' /\ OpenUpkeep' /\ StopIsFinal'
      /\ Unwedged' /\ Counted' /\ OnlyReadyServe' /\ HandOuts'
  BY <1>2 DEF IInv, Counts, BornInHand, InHand, Borne, Emptying, Apart, OpenWorkers, Open,
     OpenUpkeep, Handles, Clean, StopIsFinal, Active, In, Unwedged, Counted, Live, Spawning,
     OnlyReadyServe, HandOuts
<1>15. NoneAbove BY <1>2 DEF NoneAbove
<1> QED
  BY <1>4, <1>5, <1>6, <1>7, <1>8, <1>9, <1>10, <1>11, <1>12, <1>13, <1>14, <1>15 DEF IInv

\* Its disposal ends, well or not.
LEMMA ReaperReapedKept ==
  ASSUME IInv, NEW r \in Reapers, ReaperReaped(r)
  PROVE  IInv' /\ NoneAbove
<1> DEFINE s == rp[r].slot
<1>1. /\ Types /\ Handles /\ PoolTypeOK
      /\ rp[r].pc = "reaping"
      /\ s \in Slots
  BY TypesHold, SlotAssumption DEF ReaperReaped, IInv, Types, Handles, Borne, Emptying
<1>2. UNCHANGED <<deferred, cl, tk, stop, inflight, size>>
  BY DEF ReaperReaped, reaperRest, Disposed, NotDisposed, queueVars
<1>3. /\ reaping' = reaping \ {s}
      /\ \/ /\ Emptied(s) /\ ReaperTo(r, "drain", None)
            /\ held' = held \ {s} /\ suspected' = suspected \ {s}
            /\ Cleared(s)
         \/ UNCHANGED <<slot, held, suspected, tries>> /\ ReaperTo(r, "failed", s)
  <2>1. PGo(r, "failed") => ReaperTo(r, "failed", s)
    BY <1>1, PGoEffect DEF ReaperPcs
  <2>2. rp' = [rp EXCEPT ![r].pc = "drain", ![r].slot = None] => ReaperTo(r, "drain", None)
    BY <1>1, HandEffect DEF ReaperPcs
  <2> QED BY <1>1, <2>1, <2>2, EmptyEffect, ClearEffect DEF ReaperReaped, Disposed, NotDisposed,
             queueVars
<1> HIDE DEF s
<1>4. PoolTypeOK'
  BY <1>1, <1>2, <1>3 DEF PoolTypeOK, Handles, Emptied, SlotOnly, OutSlot, ReaperTo, Cleared,
     Retried, s
<1>5. Refs'
  BY <1>1, <1>2, <1>3, SlotAssumption DEF Refs, Emptying, Borne, Quiet, ReaperTo, s, IInv
<1>6. BornInHand'
  BY <1>1, <1>2, <1>3 DEF BornInHand, InHand, Borne, Emptied, SlotOnly, OutSlot, Owners,
     ByReaper, BornIsFree, s, IInv
<1>7. OutIsOut'
  BY <1>1, <1>2, <1>3 DEF OutIsOut, Emptied, SlotOnly, OutSlot, Cleared, Retried, s, IInv
<1>8. BornIsFree'
  BY <1>1, <1>2, <1>3, SlotAssumption DEF BornIsFree, Handles, Emptied, SlotOnly, OutSlot, s,
     IInv
<1>9. Owners'
  BY <1>1, <1>2, <1>3, SlotAssumption DEF Owners, ByClient, ByReaper, ByTick, ByStop, Emptying,
     ReaperTo, s, IInv
<1>10. OpenWorkers'
  BY <1>1, <1>2, <1>3 DEF OpenWorkers, Open, Emptied, SlotOnly, OutSlot, s, IInv
<1>11. OpenMarks'
  BY <1>1, <1>2, <1>3 DEF OpenMarks, Open, Gone, Emptied, SlotOnly, OutSlot, s, IInv
<1>12. OpenClean' BY <1>1, <1>2, <1>3 DEF OpenClean, Open, Emptied, SlotOnly, OutSlot, s, IInv
<1>13. OpenReapers'
  BY <1>1, <1>2, <1>3, SlotAssumption DEF OpenReapers, Open, Gone, Handles, Emptied, SlotOnly,
     OutSlot, ReaperTo, s, IInv
<1>14. OpenClients'
  BY <1>1, <1>2, <1>3, SlotAssumption DEF OpenClients, Open, Gone, Handles, Apart, Emptied,
     SlotOnly, OutSlot, Owners, ByReaper, OpenMarks, s, IInv
<1>15. OpenUpkeep'
  BY <1>1, <1>2, <1>3, SlotAssumption DEF OpenUpkeep, Open, Handles, Borne, Emptying, Emptied,
     SlotOnly, OutSlot, Owners, ByReaper, OpenMarks, s, IInv
<1>16. OpenTodo'
  BY <1>1, <1>2, <1>3 DEF OpenTodo, Open, Gone, Handles, Emptying, Emptied, SlotOnly, OutSlot,
     Owners, ByReaper, OpenMarks, s, IInv
<1>17. StopIsFinal'
  BY <1>1, <1>2, <1>3 DEF StopIsFinal, Active, In, Emptied, SlotOnly, OutSlot, s, IInv
<1>18. Counted'
  <2>1. Live' \subseteq Live
    BY <1>1, <1>3 DEF Emptied, SlotOnly, OutSlot, Live
  <2>2. IsFiniteSet(Live) BY PoolAssumption, FS_Subset DEF Live
  <2>3. Cardinality(Live') <= Cardinality(Live) /\ Cardinality(Live') \in Nat
        /\ Cardinality(Live) \in Nat
    BY <2>1, <2>2, FS_Subset, FS_CardinalityType
  <2> QED BY <1>1, <1>2, <1>3, <2>3 DEF IInv, Counted, Spawning, Types, Stopper
<1>19. OnlyReadyServe'
  BY <1>1, <1>2, <1>3 DEF OnlyReadyServe, Emptied, SlotOnly, OutSlot, s, IInv
<1>20. HandOuts'
  BY <1>1, <1>2, <1>3, SlotAssumption DEF HandOuts, Handles, Apart, Emptied, SlotOnly, OutSlot,
     s, IInv
<1>21. Counts' /\ Apart' /\ Unwedged'
  BY <1>2 DEF IInv, Counts, Apart, Unwedged
<1>22. NoneAbove BY <1>1, <1>3 DEF NoneAbove, Emptied, SlotOnly, OutSlot
<1> QED
  BY <1>4, <1>5, <1>6, <1>7, <1>8, <1>9, <1>10, <1>11, <1>12, <1>13, <1>14, <1>15, <1>16, <1>17,
     <1>18, <1>19, <1>20, <1>21, <1>22 DEF IInv

\* A husk is tried again; a suspect nobody owns goes back to what it was.
LEMMA ReaperFailedKept ==
  ASSUME IInv, NEW r \in Reapers, ReaperFailed(r)
  PROVE  IInv' /\ NoneAbove
<1> DEFINE s == rp[r].slot
<1>1. /\ Types /\ Handles /\ PoolTypeOK
      /\ rp[r].pc = "failed"
      /\ s \in Slots
  BY TypesHold, SlotAssumption DEF ReaperFailed, IInv, Types, Handles, Borne, Emptying
<1>2. UNCHANGED <<reaping, deferred, cl, tk, stop, inflight, size>>
  BY DEF ReaperFailed, reaperRest
<1>3. /\ ReaperTo(r, "drain", None) /\ suspected' = suspected \ {s} /\ Retried(s)
      /\ \/ slot' = slot /\ held' = held /\ Cleared(s)
         \/ slot' = slot /\ held' = held \cup {s} /\ ~Stopping /\ tries[s] >= 0
         \/ /\ held' = held /\ ~Stopping /\ s \in suspected /\ slot[s].st = "draining"
            /\ Moved(s, IF slot[s].ready THEN "idle" ELSE "warming")
  <2> DEFINE again == ~Stopping /\ tries[s] >= 0 /\ tries[s] + 1 < MaxTries
             restore == ~Stopping /\ tries[s] < 0 /\ s \in suspected
  <2>1. ReaperTo(r, "drain", None)
    BY <1>1, HandEffect DEF ReaperFailed, ReaperPcs
  <2>2. Retried(s) /\ tries'[s] = (IF again THEN tries[s] + 1 ELSE -1)
    <3>1. tries \in [Slots -> -1..MaxTries - 1] BY <1>1 DEF PoolTypeOK
    <3> DEFINE n == IF again THEN tries[s] + 1 ELSE -1
    <3>2. tries' = [tries EXCEPT ![s] = n] BY DEF ReaperFailed
    <3>3. n \in -1..MaxTries - 1 BY <1>1, <3>1, PoolAssumption
    <3> HIDE DEF n
    <3>4. Retried(s) /\ tries'[s] = n BY <1>1, <3>1, <3>2, <3>3 DEF Retried
    <3> QED BY <3>4 DEF n
  <2>3. /\ held' = IF again THEN held \cup {s} ELSE held
        /\ suspected' = suspected \ {s}
        /\ slot' = IF restore /\ slot[s].st = "draining"
                     THEN [slot EXCEPT ![s].st = IF slot[s].ready THEN "idle" ELSE "warming"] ELSE slot
    BY DEF ReaperFailed
  <2>4. ~(again /\ restore) BY <1>1, PoolAssumption DEF PoolTypeOK
  <2>5. (IF slot[s].ready THEN "idle" ELSE "warming") \in SlotStates BY DEF SlotStates
  <2>6. slot' = [slot EXCEPT ![s].st = IF slot[s].ready THEN "idle" ELSE "warming"]
        => Moved(s, IF slot[s].ready THEN "idle" ELSE "warming")
    BY <1>1, <2>5, MoveEffect
  <2>7. again => ~Stopping /\ tries[s] >= 0 OBVIOUS
  <2>8. restore => ~Stopping /\ s \in suspected OBVIOUS
  <2> HIDE DEF again, restore
  <2> QED BY <2>1, <2>2, <2>3, <2>4, <2>6, <2>7, <2>8 DEF Cleared
<1> HIDE DEF s
<1>4. PoolTypeOK'
  BY <1>1, <1>2, <1>3 DEF PoolTypeOK, Handles, Moved, SlotOnly, ReaperTo, Retried, Cleared, s
<1>5. Refs'
  BY <1>1, <1>2, <1>3, SlotAssumption DEF Refs, Emptying, Borne, Quiet, ReaperTo, s, IInv
<1>6. BornInHand' BY <1>1, <1>2, <1>3 DEF BornInHand, InHand, Borne, Moved, SlotOnly, s, IInv
<1>7. OutIsOut'
  BY <1>1, <1>2, <1>3 DEF OutIsOut, Moved, SlotOnly, Retried, Cleared, OpenClean, Open,
     Stopping, s, IInv
<1>8. BornIsFree'
  BY <1>1, <1>2, <1>3, SlotAssumption DEF BornIsFree, Handles, Moved, SlotOnly, s, IInv
<1>9. Owners'
  BY <1>1, <1>2, <1>3, SlotAssumption DEF Owners, ByClient, ByReaper, ByTick, ByStop, Emptying,
     ReaperTo, s, IInv
<1>10. OpenWorkers' BY <1>1, <1>2, <1>3 DEF OpenWorkers, Open, Moved, SlotOnly, s, IInv
<1>11. OpenMarks'
  <2>1. CASE slot' = slot /\ held' = held
    BY <1>2, <1>3, <2>1 DEF IInv, OpenMarks, Open, Gone
  <2>2. CASE slot' = slot /\ held' = held \cup {s} /\ ~Stopping /\ tries[s] >= 0
    <3>1. slot[s].st = "draining" /\ s \notin deferred
      BY <1>1, <2>2, SlotAssumption DEF IInv, OpenReapers, OutIsOut, Gone, Open, Stopping, s
    <3> QED BY <1>2, <1>3, <2>2, <3>1 DEF IInv, OpenMarks, Open, Gone
  <2>3. CASE /\ held' = held /\ ~Stopping /\ s \in suspected
             /\ Moved(s, IF slot[s].ready THEN "idle" ELSE "warming")
    <3>1. s \notin deferred \cup held
      BY <1>1, <2>3, SlotAssumption DEF IInv, OpenReapers, Open, Stopping, s
    <3>2. \A c \in Clients : ~ByClient(c, s)
      BY <1>1, <2>3, SlotAssumption DEF IInv, OpenClients, ByClient, Open, Stopping
    <3>3. \A q \in Reapers : ~ByReaper(q, s)
      BY <1>1, <2>3, SlotAssumption DEF IInv, OpenReapers, ByReaper, Open, Stopping, s
    <3>4. ~ByTick(s) /\ ~ByStop(s)
      BY <1>1, <2>3 DEF IInv, OpenTodo, ByTick, ByStop, Open, Stopping
    <3>5. s \notin reaping
      BY <1>1, <3>2, <3>3, <3>4 DEF IInv, Owners
    <3> QED BY <1>1, <1>2, <1>3, <2>3, <3>1, <3>5 DEF IInv, OpenMarks, Open, Gone, Moved,
               SlotOnly
  <2> QED BY <1>3, <2>1, <2>2, <2>3
<1>12. OpenClean' BY <1>1, <1>2, <1>3 DEF OpenClean, Open, Moved, SlotOnly, s, IInv
<1>13. OpenReapers'
  BY <1>1, <1>2, <1>3, SlotAssumption DEF OpenReapers, Open, Gone, Handles, Moved, SlotOnly,
     ReaperTo, s, IInv
<1>14. OpenClients'
  BY <1>1, <1>2, <1>3, SlotAssumption DEF OpenClients, Open, Gone, Handles, Apart, Moved,
     SlotOnly, s, IInv
<1>15. OpenUpkeep'
  BY <1>1, <1>2, <1>3, SlotAssumption DEF OpenUpkeep, Open, Handles, Borne, Emptying, Moved,
     SlotOnly, s, IInv
<1>16. OpenTodo'
  BY <1>1, <1>2, <1>3 DEF OpenTodo, Open, Gone, Handles, Emptying, Moved, SlotOnly, s, IInv
<1>17. StopIsFinal'
  BY <1>1, <1>2, <1>3 DEF StopIsFinal, Active, In, Moved, SlotOnly, Stopping, s, IInv
<1>18. Counted'
  <2>1. Live' = Live
    BY <1>1, <1>3 DEF Moved, SlotOnly, Types, Live
  <2> QED BY <2>1, <1>2 DEF IInv, Counted, Spawning
<1>19. OnlyReadyServe' BY <1>1, <1>2, <1>3 DEF OnlyReadyServe, Moved, SlotOnly, s, IInv
<1>20. HandOuts'
  BY <1>1, <1>2, <1>3, SlotAssumption DEF HandOuts, Handles, Apart, Moved, SlotOnly, s, IInv
<1>21. Counts' /\ Apart' /\ Unwedged'
  BY <1>2 DEF IInv, Counts, Apart, Unwedged
<1>22. NoneAbove BY <1>1, <1>3 DEF NoneAbove, Moved, SlotOnly
<1> QED
  BY <1>4, <1>5, <1>6, <1>7, <1>8, <1>9, <1>10, <1>11, <1>12, <1>13, <1>14, <1>15, <1>16, <1>17,
     <1>18, <1>19, <1>20, <1>21, <1>22 DEF IInv

\* stop() begins: the books are still open.
LEMMA StopBeginKept ==
  ASSUME IInv, StopBegin
  PROVE  IInv' /\ NoneAbove
<1>1. /\ Types /\ Handles /\ PoolTypeOK
      /\ stop.pc = "no"
  BY TypesHold, SlotAssumption DEF StopBegin, IInv, Types, Handles, Borne, Emptying
<1>2. UNCHANGED <<slot, reaping, deferred, held, suspected, tries, cl, tk, rp, inflight, size>>
  BY DEF StopBegin, queueVars, stopRest
<1>3. StopTo("join", stop.todo, stop.slot, stop.wedged, stop.left)
  BY <1>1  DEF StopBegin, SGo, StopTo, Types, Stopper, StopPcs
<1>4. PoolTypeOK' BY <1>1, <1>2, <1>3 DEF PoolTypeOK, Handles, StopTo
<1>5. Refs' BY <1>1, <1>2, <1>3, SlotAssumption DEF Refs, Emptying, Borne, Quiet, StopTo, IInv
<1>6. BornIsFree' BY <1>1, <1>2, <1>3, SlotAssumption DEF BornIsFree, Handles, StopTo, IInv
<1>7. Owners'
  BY <1>1, <1>2, <1>3, SlotAssumption DEF Owners, ByClient, ByReaper, ByTick, ByStop, Emptying,
     StopTo, IInv
<1>8. OpenWorkers' BY <1>1, <1>2, <1>3 DEF OpenWorkers, Open, StopTo, IInv
<1>9. OpenMarks' BY <1>1, <1>2, <1>3 DEF OpenMarks, Open, Gone, StopTo, IInv
<1>10. OpenClean' BY <1>1, <1>2, <1>3 DEF OpenClean, Open, StopTo, IInv
<1>11. OpenReapers'
  BY <1>1, <1>2, <1>3, SlotAssumption DEF OpenReapers, Open, Gone, Handles, StopTo, IInv
<1>12. OpenClients'
  BY <1>1, <1>2, <1>3, SlotAssumption DEF OpenClients, Open, Gone, Handles, Apart, StopTo, IInv
<1>13. OpenUpkeep'
  BY <1>1, <1>2, <1>3, SlotAssumption DEF OpenUpkeep, Open, Handles, Borne, Emptying, StopTo,
     IInv
<1>14. OpenTodo' BY <1>1, <1>2, <1>3 DEF OpenTodo, Open, Gone, Handles, Emptying, StopTo, IInv
<1>15. StopIsFinal' BY <1>1, <1>2, <1>3 DEF StopIsFinal, Active, In, StopTo, IInv
<1>16. Unwedged' BY <1>1, <1>2, <1>3 DEF Unwedged, StopTo, IInv
<1>17. Counted'
  <2>1. stop'.pc # "done"
    BY <1>3 DEF StopTo
  <2> QED BY <2>1 DEF Counted
<1>18. Counts' /\ BornInHand' /\ OutIsOut' /\ Apart' /\ OnlyReadyServe' /\ HandOuts'
  BY <1>2 DEF IInv, Counts, BornInHand, InHand, Borne, Emptying, OutIsOut, OutSlot, Apart,
     OnlyReadyServe, HandOuts, Handles, Clean
<1>19. NoneAbove BY <1>2 DEF NoneAbove
<1> QED
  BY <1>4, <1>5, <1>6, <1>7, <1>8, <1>9, <1>10, <1>11, <1>12, <1>13, <1>14, <1>15, <1>16, <1>17,
     <1>18, <1>19 DEF IInv

\* The background thread has ended, or is given up as wedged.
LEMMA StopJoinKept ==
  ASSUME IInv, StopJoin
  PROVE  IInv' /\ NoneAbove
<1>1. /\ Types /\ Handles /\ PoolTypeOK
      /\ stop.pc = "join"
  BY TypesHold, SlotAssumption DEF StopJoin, IInv, Types, Handles, Borne, Emptying
<1>2. UNCHANGED <<slot, reaping, deferred, held, suspected, tries, cl, tk, rp, inflight, size>>
  BY DEF StopJoin, queueVars, stopRest
<1>3. StopTo("flip", stop.todo, stop.slot, tk.pc # "off", stop.left)
  BY <1>1  DEF StopJoin, SGo, StopTo, Types, Stopper, StopPcs
<1>4. PoolTypeOK' BY <1>1, <1>2, <1>3 DEF PoolTypeOK, Handles, StopTo
<1>5. Refs' BY <1>1, <1>2, <1>3, SlotAssumption DEF Refs, Emptying, Borne, Quiet, StopTo, IInv
<1>6. BornIsFree' BY <1>1, <1>2, <1>3, SlotAssumption DEF BornIsFree, Handles, StopTo, IInv
<1>7. Owners'
  BY <1>1, <1>2, <1>3, SlotAssumption DEF Owners, ByClient, ByReaper, ByTick, ByStop, Emptying,
     StopTo, IInv
<1>8. OpenWorkers' BY <1>1, <1>2, <1>3 DEF OpenWorkers, Open, StopTo, IInv
<1>9. OpenMarks' BY <1>1, <1>2, <1>3 DEF OpenMarks, Open, Gone, StopTo, IInv
<1>10. OpenClean' BY <1>1, <1>2, <1>3 DEF OpenClean, Open, StopTo, IInv
<1>11. OpenReapers'
  BY <1>1, <1>2, <1>3, SlotAssumption DEF OpenReapers, Open, Gone, Handles, StopTo, IInv
<1>12. OpenClients'
  BY <1>1, <1>2, <1>3, SlotAssumption DEF OpenClients, Open, Gone, Handles, Apart, StopTo, IInv
<1>13. OpenUpkeep'
  BY <1>1, <1>2, <1>3, SlotAssumption DEF OpenUpkeep, Open, Handles, Borne, Emptying, StopTo,
     IInv
<1>14. OpenTodo' BY <1>1, <1>2, <1>3 DEF OpenTodo, Open, Gone, Handles, Emptying, StopTo, IInv
<1>15. StopIsFinal' BY <1>1, <1>2, <1>3 DEF StopIsFinal, Active, In, StopTo, IInv
<1>16. Unwedged' BY <1>1, <1>2, <1>3 DEF Unwedged, StopTo, IInv
<1>17. Counted'
  <2>1. stop'.pc # "done"
    BY <1>3 DEF StopTo
  <2> QED BY <2>1 DEF Counted
<1>18. Counts' /\ BornInHand' /\ OutIsOut' /\ Apart' /\ OnlyReadyServe' /\ HandOuts'
  BY <1>2 DEF IInv, Counts, BornInHand, InHand, Borne, Emptying, OutIsOut, OutSlot, Apart,
     OnlyReadyServe, HandOuts, Handles, Clean
<1>19. NoneAbove BY <1>2 DEF NoneAbove
<1> QED
  BY <1>4, <1>5, <1>6, <1>7, <1>8, <1>9, <1>10, <1>11, <1>12, <1>13, <1>14, <1>15, <1>16, <1>17,
     <1>18, <1>19 DEF IInv

\* stop() takes the books: no slot is usable any more.
LEMMA StopFlipKept ==
  ASSUME IInv, StopFlip
  PROVE  IInv' /\ NoneAbove
<1>1. /\ Types /\ Handles /\ PoolTypeOK
      /\ stop.pc = "flip"
  BY TypesHold, SlotAssumption DEF StopFlip, IInv, Types, Handles, Borne, Emptying
<1>2. UNCHANGED <<reaping, suspected, tries, cl, tk, rp, inflight, size>>
  BY DEF StopFlip, stopRest
<1>3. /\ deferred' = {} /\ held' = {}
      /\ AllDrained({x \in Slots : Seen(x)})
      /\ StopTo("reap", {x \in Slots : Seen(x)}, stop.slot, stop.wedged, stop.left)
  <2>1. Tracked = {x \in Slots : Seen(x)} BY <1>1, TrackedSeen DEF Tracked, In
  <2>2. slot' = [x \in Slots |-> IF x \in Tracked THEN [slot[x] EXCEPT !.st = "draining"] ELSE slot[x]]
    BY DEF StopFlip
  <2>3. Tracked \in SUBSET Slots BY DEF Tracked, In
  <2>4. AllDrained(Tracked) BY <1>1, <2>2, <2>3, DrainEffect
  <2>5. StopTo("reap", Tracked, stop.slot, stop.wedged, stop.left)
    BY <1>1, <2>3 DEF StopFlip, StopTo, Types, Stopper, StopPcs
  <2> QED BY <2>1, <2>4, <2>5 DEF StopFlip
<1>4. PoolTypeOK' BY <1>1, <1>2, <1>3 DEF PoolTypeOK, Handles, AllDrained, StopTo, Seen
<1>5. Refs' BY <1>1, <1>2, <1>3, SlotAssumption DEF Refs, Emptying, Borne, Quiet, StopTo, IInv
<1>6. BornInHand' BY <1>1, <1>2, <1>3 DEF BornInHand, InHand, Borne, AllDrained, Seen, IInv
<1>7. OutIsOut' BY <1>1, <1>2, <1>3 DEF OutIsOut, AllDrained, Seen, IInv
<1>8. BornIsFree'
  BY <1>1, <1>2, <1>3, SlotAssumption DEF BornIsFree, Handles, AllDrained, StopTo, Seen, IInv
<1>9. Owners'
  BY <1>1, <1>2, <1>3, SlotAssumption DEF Owners, ByClient, ByReaper, ByTick, ByStop, Emptying,
     StopTo, IInv
<1>10. StopIsFinal'
  BY <1>1, <1>2, <1>3 DEF StopIsFinal, Active, In, AllDrained, StopTo, Seen, Types, IInv
<1>11. Unwedged' BY <1>1, <1>2, <1>3 DEF Unwedged, StopTo, IInv
<1>12. Counted'
  <2>1. stop'.pc # "done"
    BY <1>3 DEF StopTo
  <2> QED BY <2>1 DEF Counted
<1>13. OnlyReadyServe' BY <1>1, <1>2, <1>3 DEF OnlyReadyServe, AllDrained, Seen, IInv
<1>14. HandOuts'
  BY <1>1, <1>2, <1>3, SlotAssumption DEF HandOuts, Handles, Apart, AllDrained, Seen, IInv
<1>15. OpenWorkers' /\ OpenMarks' /\ OpenClean' /\ OpenReapers'
      /\ OpenClients' /\ OpenUpkeep' /\ OpenTodo'
  <2>1. ~Open'
    BY <1>1, <1>3 DEF Open, StopTo
  <2> QED BY <2>1 DEF OpenWorkers, OpenMarks, OpenClean, OpenReapers, OpenClients, OpenUpkeep,
             OpenTodo
<1>16. Counts' /\ Apart'
  BY <1>2 DEF IInv, Counts, Apart
<1>17. NoneAbove BY <1>1, <1>3 DEF NoneAbove, AllDrained, Seen
<1> QED
  BY <1>4, <1>5, <1>6, <1>7, <1>8, <1>9, <1>10, <1>11, <1>12, <1>13, <1>14, <1>15, <1>16, <1>17
     DEF IInv

\* stop() becomes the owner of the disposal, or somebody else is.
LEMMA StopReapKept ==
  ASSUME IInv, NEW s \in Slots, StopReap(s)
  PROVE  IInv' /\ NoneAbove
<1>1. /\ Types /\ Handles /\ PoolTypeOK
      /\ stop.pc = "reap"
      /\ s \in stop.todo
      /\ s \in Slots
  BY TypesHold, SlotAssumption DEF StopReap, IInv, Types, Handles, Borne, Emptying
<1>2. UNCHANGED <<slot, deferred, held, suspected, tries, cl, tk, rp, inflight, size>>
  BY DEF StopReap, queueVars, stopRest
<1>3. \/ /\ Seen(s) /\ s \notin reaping /\ reaping' = reaping \cup {s}
         /\ StopTo("reaping", stop.todo \ {s}, s, stop.wedged, stop.left)
      \/ reaping' = reaping /\ StopTo("reap", stop.todo \ {s}, stop.slot, stop.wedged, stop.left)
  <2>1. stop' = [stop EXCEPT !.pc = "reaping", !.todo = @ \ {s}, !.slot = s]
        => StopTo("reaping", stop.todo \ {s}, s, stop.wedged, stop.left)
    BY <1>1 DEF StopTo, Types, Stopper, StopPcs
  <2>2. stop' = [stop EXCEPT !.todo = @ \ {s}] => StopTo("reap", stop.todo \ {s}, stop.slot, stop.wedged, stop.left)
    BY <1>1 DEF StopTo, Types, Stopper, StopPcs
  <2> QED BY <1>1, <2>1, <2>2, TrackedSeen DEF StopReap, MayReap
<1>4. PoolTypeOK' BY <1>1, <1>2, <1>3 DEF PoolTypeOK, Handles, StopTo, Seen
<1>5. Refs' BY <1>1, <1>2, <1>3, SlotAssumption DEF Refs, Emptying, Borne, Quiet, StopTo, IInv
<1>6. BornIsFree'
  BY <1>1, <1>2, <1>3, SlotAssumption DEF BornIsFree, Handles, StopTo, Seen, IInv
<1>7. Owners'
  BY <1>1, <1>2, <1>3, SlotAssumption DEF Owners, ByClient, ByReaper, ByTick, ByStop, Emptying,
     StopTo, IInv
<1>8. StopIsFinal' BY <1>1, <1>2, <1>3 DEF StopIsFinal, Active, In, StopTo, Seen, IInv
<1>9. Unwedged' BY <1>1, <1>2, <1>3 DEF Unwedged, StopTo, IInv
<1>10. Counted'
  <2>1. stop'.pc # "done"
    BY <1>3 DEF StopTo
  <2> QED BY <2>1 DEF Counted
<1>11. OpenWorkers' /\ OpenMarks' /\ OpenClean' /\ OpenReapers'
      /\ OpenClients' /\ OpenUpkeep' /\ OpenTodo'
  <2>1. ~Open'
    BY <1>1, <1>3 DEF Open, StopTo
  <2> QED BY <2>1 DEF OpenWorkers, OpenMarks, OpenClean, OpenReapers, OpenClients, OpenUpkeep,
             OpenTodo
<1>12. Counts' /\ BornInHand' /\ OutIsOut' /\ Apart' /\ OnlyReadyServe' /\ HandOuts'
  BY <1>2 DEF IInv, Counts, BornInHand, InHand, Borne, Emptying, OutIsOut, OutSlot, Apart,
     OnlyReadyServe, HandOuts, Handles, Clean
<1>13. NoneAbove BY <1>2 DEF NoneAbove
<1> QED
  BY <1>4, <1>5, <1>6, <1>7, <1>8, <1>9, <1>10, <1>11, <1>12, <1>13 DEF IInv

\* It gives up the ownership before the slot leaves the books.
LEMMA StopReapedKept ==
  ASSUME IInv, StopReaped
  PROVE  IInv' /\ NoneAbove
<1> DEFINE s == stop.slot
<1>1. /\ Types /\ Handles /\ PoolTypeOK
      /\ stop.pc = "reaping"
      /\ s \in Slots
  BY TypesHold, SlotAssumption DEF StopReaped, IInv, Types, Handles, Borne, Emptying
<1>2. UNCHANGED <<deferred, held, suspected, tries, cl, tk, rp, inflight, size>>
  BY DEF StopReaped, queueVars, stopRest
<1>3. /\ reaping' = reaping \ {s}
      /\ \/ /\ SlotOnly(s) /\ slot'[s].st = slot[s].st /\ slot'[s].worker = "none" /\ slot'[s].ready = slot[s].ready
            /\ slot'[s].taint = slot[s].taint /\ (Clean(slot'[s]) <=> Clean(slot[s]))
            /\ slot[s] = OutSlot => slot'[s] = OutSlot
            /\ StopTo("pop", stop.todo, s, stop.wedged, stop.left)
         \/ slot' = slot /\ StopTo("reap", stop.todo, None, stop.wedged, stop.left)
  <2> DEFINE w == [slot[s] EXCEPT !.worker = "none"]
  <2>1. slot[s] \in SlotRecords BY <1>1 DEF Types
  <2>2. /\ w \in SlotRecords /\ w.st = slot[s].st /\ w.worker = "none" /\ w.ready = slot[s].ready
        /\ w.taint = slot[s].taint /\ w.jobs = slot[s].jobs
    BY <2>1 DEF SlotRecords
  <2>3. slot[s] = OutSlot => w = OutSlot BY DEF OutSlot
  <2>4. Clean(w) <=> Clean(slot[s]) BY <2>2 DEF Clean
  <2>5. SGo("pop") => StopTo("pop", stop.todo, s, stop.wedged, stop.left)
    BY <1>1 DEF SGo, StopTo, Types, Stopper, StopPcs
  <2>6. stop' = [stop EXCEPT !.pc = "reap", !.slot = None] => StopTo("reap", stop.todo, None, stop.wedged, stop.left)
    BY <1>1 DEF StopTo, Types, Stopper, StopPcs
  <2>7. \/ slot' = [slot EXCEPT ![s] = w] /\ SGo("pop")
        \/ slot' = slot /\ stop' = [stop EXCEPT !.pc = "reap", !.slot = None]
    BY DEF StopReaped
  <2> HIDE DEF w
  <2>8. slot' = [slot EXCEPT ![s] = w] => SlotOnly(s) /\ slot'[s] = w
    BY <1>1, <2>2 DEF Types, SlotOnly
  <2>9. reaping' = reaping \ {s} BY DEF StopReaped
  <2> QED BY <2>2, <2>3, <2>4, <2>5, <2>6, <2>7, <2>8, <2>9
<1> HIDE DEF s
<1>4. PoolTypeOK' BY <1>1, <1>2, <1>3 DEF PoolTypeOK, Handles, SlotOnly, StopTo, s
<1>5. Refs'
  BY <1>1, <1>2, <1>3, SlotAssumption DEF Refs, Emptying, Borne, Quiet, StopTo, s, IInv
<1>6. BornInHand' BY <1>1, <1>2, <1>3 DEF BornInHand, InHand, Borne, SlotOnly, s, IInv
<1>7. OutIsOut' BY <1>1, <1>2, <1>3 DEF OutIsOut, SlotOnly, s, IInv
<1>8. BornIsFree'
  BY <1>1, <1>2, <1>3, SlotAssumption DEF BornIsFree, Handles, SlotOnly, StopTo, s, IInv
<1>9. Owners'
  BY <1>1, <1>2, <1>3, SlotAssumption DEF Owners, ByClient, ByReaper, ByTick, ByStop, Emptying,
     StopTo, s, IInv
<1>10. StopIsFinal' BY <1>1, <1>2, <1>3 DEF StopIsFinal, Active, In, SlotOnly, StopTo, s, IInv
<1>11. Unwedged' BY <1>1, <1>2, <1>3 DEF Unwedged, StopTo, s, IInv
<1>12. Counted'
  <2>1. stop'.pc # "done"
    BY <1>3 DEF StopTo
  <2> QED BY <2>1 DEF Counted
<1>13. OnlyReadyServe' BY <1>1, <1>2, <1>3 DEF OnlyReadyServe, SlotOnly, s, IInv
<1>14. HandOuts'
  BY <1>1, <1>2, <1>3, SlotAssumption DEF HandOuts, Handles, Apart, SlotOnly, s, IInv
<1>15. OpenWorkers' /\ OpenMarks' /\ OpenClean' /\ OpenReapers'
      /\ OpenClients' /\ OpenUpkeep' /\ OpenTodo'
  <2>1. ~Open'
    BY <1>1, <1>3 DEF Open, StopTo
  <2> QED BY <2>1 DEF OpenWorkers, OpenMarks, OpenClean, OpenReapers, OpenClients, OpenUpkeep,
             OpenTodo
<1>16. Counts' /\ Apart'
  BY <1>2 DEF IInv, Counts, Apart
<1>17. NoneAbove BY <1>1, <1>3 DEF NoneAbove, SlotOnly
<1> QED
  BY <1>4, <1>5, <1>6, <1>7, <1>8, <1>9, <1>10, <1>11, <1>12, <1>13, <1>14, <1>15, <1>16, <1>17
     DEF IInv

\* The slot leaves the books.
LEMMA StopPopKept ==
  ASSUME IInv, StopPop
  PROVE  IInv' /\ NoneAbove
<1> DEFINE s == stop.slot
<1>1. /\ Types /\ Handles /\ PoolTypeOK
      /\ stop.pc = "pop"
      /\ s \in Slots
  BY TypesHold, SlotAssumption DEF StopPop, IInv, Types, Handles, Borne, Emptying
<1>2. UNCHANGED <<reaping, deferred, cl, tk, rp, inflight, size>>
  BY DEF StopPop, stopRest
<1>3. /\ Emptied(s) /\ held' = held \ {s} /\ suspected' = suspected \ {s} /\ Cleared(s)
      /\ StopTo("reap", stop.todo, None, stop.wedged, stop.left)
  <2>1. StopTo("reap", stop.todo, None, stop.wedged, stop.left)
    BY <1>1 DEF StopPop, StopTo, Types, Stopper, StopPcs
  <2> QED BY <1>1, <2>1, EmptyEffect, ClearEffect DEF StopPop, Unmark
<1> HIDE DEF s
<1>4. PoolTypeOK'
  BY <1>1, <1>2, <1>3 DEF PoolTypeOK, Handles, Emptied, SlotOnly, OutSlot, StopTo, Cleared,
     Retried, s
<1>5. Refs'
  BY <1>1, <1>2, <1>3, SlotAssumption DEF Refs, Emptying, Borne, Quiet, StopTo, s, IInv
<1>6. BornInHand'
  BY <1>1, <1>2, <1>3, SlotAssumption DEF BornInHand, InHand, Borne, Emptied, SlotOnly, OutSlot,
     BornIsFree, s, IInv
<1>7. OutIsOut'
  BY <1>1, <1>2, <1>3 DEF OutIsOut, Emptied, SlotOnly, OutSlot, Cleared, Retried, s, IInv
<1>8. BornIsFree'
  BY <1>1, <1>2, <1>3, SlotAssumption DEF BornIsFree, Handles, Emptied, SlotOnly, OutSlot,
     StopTo, s, IInv
<1>9. Owners'
  BY <1>1, <1>2, <1>3, SlotAssumption DEF Owners, ByClient, ByReaper, ByTick, ByStop, Emptying,
     StopTo, s, IInv
<1>10. StopIsFinal'
  BY <1>1, <1>2, <1>3 DEF StopIsFinal, Active, In, Emptied, SlotOnly, OutSlot, StopTo, s, IInv
<1>11. Unwedged' BY <1>1, <1>2, <1>3 DEF Unwedged, StopTo, s, IInv
<1>12. Counted'
  <2>1. stop'.pc # "done"
    BY <1>3 DEF StopTo
  <2> QED BY <2>1 DEF Counted
<1>13. OnlyReadyServe'
  BY <1>1, <1>2, <1>3 DEF OnlyReadyServe, Emptied, SlotOnly, OutSlot, s, IInv
<1>14. HandOuts'
  BY <1>1, <1>2, <1>3, SlotAssumption DEF HandOuts, Handles, Apart, Emptied, SlotOnly, OutSlot,
     s, IInv
<1>15. OpenWorkers' /\ OpenMarks' /\ OpenClean' /\ OpenReapers'
      /\ OpenClients' /\ OpenUpkeep' /\ OpenTodo'
  <2>1. ~Open'
    BY <1>1, <1>3 DEF Open, StopTo
  <2> QED BY <2>1 DEF OpenWorkers, OpenMarks, OpenClean, OpenReapers, OpenClients, OpenUpkeep,
             OpenTodo
<1>16. Counts' /\ Apart'
  BY <1>2 DEF IInv, Counts, Apart
<1>17. NoneAbove BY <1>1, <1>3 DEF NoneAbove, Emptied, SlotOnly, OutSlot
<1> QED
  BY <1>4, <1>5, <1>6, <1>7, <1>8, <1>9, <1>10, <1>11, <1>12, <1>13, <1>14, <1>15, <1>16, <1>17
     DEF IInv

\* resize changes the sizes and nothing else.
LEMMA ResizeKept ==
  ASSUME IInv, Resize
  PROVE  IInv' /\ NoneAbove
<1>1. /\ Types /\ Handles /\ PoolTypeOK
  BY TypesHold, SlotAssumption DEF Resize, IInv, Types, Handles, Borne, Emptying
<1>2. UNCHANGED <<slot, reaping, deferred, held, suspected, tries, cl, tk, rp, stop, inflight>>
  BY DEF Resize, queueVars
<1>3. size' \in [warm : 0..MaxCeiling, ceiling : 1..MaxCeiling, burst : BOOLEAN, auto : BOOLEAN]
  <2>1. PICK ceiling \in 1..MaxCeiling, warm \in 0..MaxCeiling :
          size' = [size EXCEPT !.ceiling = ceiling, !.warm = Least(warm, ceiling), !.auto = TRUE]
    BY DEF Resize
  <2>2. Least(warm, ceiling) \in 0..MaxCeiling BY PoolAssumption DEF Least
  <2> QED BY <1>1, <2>1, <2>2 DEF PoolTypeOK
<1>4. PoolTypeOK' BY <1>1, <1>2, <1>3 DEF PoolTypeOK, Handles
<1>5. Refs' /\ Counts' /\ BornInHand' /\ OutIsOut' /\ BornIsFree' /\ Owners'
      /\ Apart' /\ OpenWorkers' /\ OpenMarks' /\ OpenClean' /\ OpenReapers' /\ OpenClients'
      /\ OpenUpkeep' /\ OpenTodo' /\ StopIsFinal' /\ Unwedged' /\ Counted' /\ OnlyReadyServe'
      /\ HandOuts'
  BY <1>2 DEF IInv, Refs, Emptying, Borne, Quiet, Counts, BornInHand, InHand, OutIsOut, OutSlot,
     BornIsFree, Handles, Owners, ByClient, ByReaper, ByTick, ByStop, Apart, OpenWorkers, Open,
     OpenMarks, Gone, OpenClean, Clean, OpenReapers, OpenClients, OpenUpkeep, OpenTodo,
     StopIsFinal, Active, In, Unwedged, Counted, Live, Spawning, OnlyReadyServe, HandOuts
<1>6. NoneAbove BY <1>2 DEF NoneAbove
<1> QED
  BY <1>4, <1>5, <1>6 DEF IInv

\* What stop() reports covers the live workers and those a wedged thread may bring.
LEMMA StopCountKept ==
  ASSUME IInv, StopCount
  PROVE  IInv' /\ NoneAbove
<1>1. /\ Types /\ Handles /\ PoolTypeOK
      /\ stop.pc = "reap"
  BY TypesHold, SlotAssumption DEF StopCount, IInv, Types, Handles, Borne, Emptying
<1>2. UNCHANGED <<slot, reaping, deferred, held, suspected, tries, cl, tk, rp, inflight, size>>
  BY DEF StopCount, queueVars, stopRest
<1>3. /\ StopTo("done", stop.todo, stop.slot, stop.wedged, stop'.left)
      /\ stop'.left = Cardinality(Tracked) + (IF stop.wedged THEN IF inflight > 1 THEN inflight ELSE 1 ELSE 0)
  <2> DEFINE n == Cardinality(Tracked) + (IF stop.wedged THEN IF inflight > 1 THEN inflight ELSE 1 ELSE 0)
  <2>1. n \in Nat BY <1>1, TrackedFinite, PoolAssumption DEF PoolTypeOK
  <2>2. stop' = [stop EXCEPT !.pc = "done", !.left = n] BY DEF StopCount
  <2> HIDE DEF n
  <2>3. StopTo("done", stop.todo, stop.slot, stop.wedged, n) BY <1>1, <2>1, <2>2 DEF StopTo,
                                                                Types, Stopper, StopPcs
  <2> QED BY <2>3 DEF n, StopTo
<1>4. PoolTypeOK' BY <1>1, <1>2, <1>3 DEF PoolTypeOK, Handles, StopTo
<1>5. Refs' BY <1>1, <1>2, <1>3, SlotAssumption DEF Refs, Emptying, Borne, Quiet, StopTo, IInv
<1>6. BornIsFree' BY <1>1, <1>2, <1>3, SlotAssumption DEF BornIsFree, Handles, StopTo, IInv
<1>7. Owners'
  BY <1>1, <1>2, <1>3, SlotAssumption DEF Owners, ByClient, ByReaper, ByTick, ByStop, Emptying,
     StopTo, IInv
<1>8. StopIsFinal' BY <1>1, <1>2, <1>3 DEF StopIsFinal, Active, In, StopTo, IInv
<1>9. Unwedged' BY <1>1, <1>2, <1>3 DEF Unwedged, StopTo, IInv
<1>10. Counted'
  <2> DEFINE Hand == {s \in Slots : InHand(s)}
             more == IF tk.pc \in Spawning THEN 1 ELSE 0
  <2>1. Live' = Live BY <1>2 DEF Live
  <2>2. Live \subseteq Tracked \cup Hand
    BY <1>1, TrackedSeen DEF IInv, Live, OutIsOut, OutSlot, BornInHand, Seen
  <2>3. IsFiniteSet(Hand) /\ Cardinality(Hand) \in Nat
    BY PoolAssumption, FS_Subset, FS_CardinalityType
  <2>4. Cardinality(Live) <= Cardinality(Tracked) + Cardinality(Hand)
    <3>1. IsFiniteSet(Tracked \cup Hand) /\ Cardinality(Tracked \cup Hand) \in Nat
          /\ Cardinality(Live) <= Cardinality(Tracked \cup Hand)
      BY <2>2, <2>3, TrackedFinite, FS_Union, FS_Subset, FS_CardinalityType
    <3>2. /\ Cardinality(Tracked \cup Hand) = Cardinality(Tracked) + Cardinality(Hand) - Cardinality(Tracked \cap Hand)
          /\ Cardinality(Tracked \cap Hand) \in Nat
      BY <2>3, TrackedFinite, FS_Union, FS_Intersection, FS_CardinalityType
    <3> QED BY <3>1, <3>2, <2>3, TrackedFinite, LiveFinite
  <2>5. Cardinality(Hand) + more <= IF stop.wedged THEN IF inflight > 1 THEN inflight ELSE 1 ELSE 0
    <3>1. Cardinality(tk.todo) \in Nat /\ IsFiniteSet(tk.todo) /\ inflight \in Nat /\ tk.todo \subseteq Slots
      BY <1>1, TodoFinite DEF PoolTypeOK, Handles
    <3>2. CASE tk.pc \in {"publish", "drop"}
      <4>1. Hand = {tk.slot} /\ more = 0 BY <1>1, <3>2 DEF Handles, InHand, Borne, Spawning
      <4>2. stop.wedged BY <1>1, <3>2 DEF IInv, Unwedged
      <4>3. Cardinality(Hand) = 1 BY <4>1, FS_Singleton
      <4>4. Cardinality(Hand) + more = 1 BY <4>1, <4>3
      <4> QED BY <4>2, <4>4, <3>1
    <3>3. CASE tk.pc = "settleDrop"
      <4>1. Hand = tk.todo \cup {tk.slot} /\ more = 0
        BY <1>1, <3>1, <3>3 DEF Handles, InHand, Borne, Spawning
      <4>2. stop.wedged BY <1>1, <3>3 DEF IInv, Unwedged
      <4> HIDE DEF Hand, more
      <4>3. Cardinality(tk.todo \cup {tk.slot}) <= Cardinality(tk.todo) + 1 
        <5>1. tk.slot \notin tk.todo BY <3>3 DEF IInv, BornIsFree
        <5>2. Cardinality(tk.todo \cup {tk.slot}) = Cardinality(tk.todo) + 1 BY <3>1, <5>1,
                                                                                FS_AddElement
        <5> QED BY <3>1, <5>2
      <4>4. Cardinality(tk.todo) + 1 <= inflight BY <3>3 DEF IInv, Counts
      <4> QED BY <2>3, <3>1, <4>1, <4>2, <4>3, <4>4
    <3>4. CASE tk.pc \in {"batch", "settle"}
      <4>1. Hand = tk.todo /\ more = 0 BY <3>1, <3>4 DEF InHand, Borne, Spawning
      <4>2. stop.wedged BY <1>1, <3>4 DEF IInv, Unwedged
      <4> HIDE DEF Hand, more
      <4>3. tk.left \in 0..MaxCeiling BY <1>1 DEF Types, Ticker
      <4>4. CASE tk.pc = "batch"
        <5>1. Cardinality(tk.todo) + tk.left <= inflight BY <4>4 DEF IInv, Counts
        <5>2. Cardinality(tk.todo) <= inflight BY <5>1, <3>1, <4>3, PoolAssumption
        <5> QED BY <3>1, <4>1, <4>2, <5>2
      <4>5. CASE tk.pc = "settle"
        <5>1. Cardinality(tk.todo) <= inflight BY <4>5 DEF IInv, Counts
        <5> QED BY <3>1, <4>1, <4>2, <5>1
      <4> QED BY <3>4, <4>4, <4>5
    <3>5. CASE tk.pc \notin {"publish", "drop", "settleDrop", "batch", "settle"}
      <4>1. Hand = {} BY <3>5 DEF InHand, Borne
      <4>2. Cardinality(Hand) = 0 BY <4>1, FS_EmptySet
      <4>3. more \in {0, 1} /\ (more = 1 => stop.wedged) BY <1>1, <3>5 DEF IInv, Unwedged,
                                                            Spawning
      <4> HIDE DEF Hand, more
      <4> QED BY <3>1, <4>2, <4>3
    <3> QED BY <3>2, <3>3, <3>4, <3>5
  <2> HIDE DEF Hand, more
  <2>6. stop'.left = Cardinality(Tracked) + (IF stop.wedged THEN IF inflight > 1 THEN inflight ELSE 1 ELSE 0)
    BY <1>3
  <2>7. Cardinality(Live) + more <= stop'.left
    BY <2>3, <2>4, <2>5, <2>6, TrackedFinite, LiveFinite, <1>1 DEF more, PoolTypeOK
  <2> QED BY <1>2, <2>1, <2>7 DEF Counted, more
<1>11. OpenWorkers' /\ OpenMarks' /\ OpenClean' /\ OpenReapers'
      /\ OpenClients' /\ OpenUpkeep' /\ OpenTodo'
  <2>1. ~Open'
    BY <1>1, <1>3 DEF Open, StopTo
  <2> QED BY <2>1 DEF OpenWorkers, OpenMarks, OpenClean, OpenReapers, OpenClients, OpenUpkeep,
             OpenTodo
<1>12. Counts' /\ BornInHand' /\ OutIsOut' /\ Apart' /\ OnlyReadyServe' /\ HandOuts'
  BY <1>2 DEF IInv, Counts, BornInHand, InHand, Borne, Emptying, OutIsOut, OutSlot, Apart,
     OnlyReadyServe, HandOuts, Handles, Clean
<1>13. NoneAbove BY <1>2 DEF NoneAbove
<1> QED
  BY <1>4, <1>5, <1>6, <1>7, <1>8, <1>9, <1>10, <1>11, <1>12, <1>13 DEF IInv

-------------------------------------------------------------------------------
\* The empty pool satisfies the invariant.
LEMMA InitIInv == Init => IInv
<1> SUFFICES ASSUME Init PROVE IInv
  OBVIOUS
<1>1. \A s \in Slots : slot[s] = OutSlot /\ tries[s] = -1
  BY DEF Init
<1>2. (\A c \in Clients : cl[c] = IdleClient) /\ (\A r \in Reapers : rp[r] = IdleReaper)
  BY DEF Init
<1>3. PoolTypeOK
  <2>1. slot \in [Slots -> SlotRecords]
    <3>1. OutSlot \in SlotRecords BY PoolAssumption DEF OutSlot, SlotRecords, SlotStates
    <3> QED BY <3>1 DEF Init
  <2>2. tries \in [Slots -> -1..MaxTries - 1] BY PoolAssumption DEF Init
  <2>3. cl \in [Clients -> Client] /\ rp \in [Reapers -> Reaper]
    <3>1. IdleClient \in Client /\ IdleReaper \in Reaper
      BY DEF IdleClient, IdleReaper, Client, ClientPcs, Reaper, ReaperPcs
    <3> QED BY <3>1 DEF Init
  <2>4. tk \in Ticker /\ stop \in Stopper
    BY PoolAssumption DEF Init, Ticker, TickPcs, Stopper, StopPcs
  <2>5. inflight \in 0..MaxCeiling
        /\ size \in [warm : 0..MaxCeiling, ceiling : 1..MaxCeiling, burst : BOOLEAN, auto : BOOLEAN]
    BY PoolAssumption DEF Init
  <2> QED BY <2>1, <2>2, <2>3, <2>4, <2>5 DEF PoolTypeOK, Init
<1>4. Refs /\ Apart /\ HandOuts
  BY <1>2 DEF Init, Refs, Apart, HandOuts, IdleClient, IdleReaper, Emptying, Borne, Quiet
<1>5. Counts /\ Unwedged /\ Counted BY DEF Init, Counts, Unwedged, Counted
<1>6. BornInHand BY <1>1 DEF Init, BornInHand, InHand, OutSlot, Borne
<1>7. OutIsOut /\ BornIsFree BY <1>1 DEF Init, OutIsOut, BornIsFree, OutSlot
<1>8. Owners
  BY <1>2 DEF Init, Owners, ByClient, ByReaper, ByTick, ByStop, Emptying, IdleClient, IdleReaper
<1>9. OpenWorkers /\ OpenMarks /\ OpenUpkeep BY <1>1 DEF Init, OpenWorkers, OpenMarks,
                                                OpenUpkeep, OutSlot
<1>10. OpenClean BY <1>1 DEF Init, OpenClean, OutSlot
<1>11. OpenReapers /\ OpenClients BY <1>2 DEF OpenReapers, OpenClients, IdleClient, IdleReaper
<1>12. OpenTodo BY DEF Init, OpenTodo, Emptying
<1>13. StopIsFinal /\ OnlyReadyServe BY <1>1 DEF Init, StopIsFinal, OnlyReadyServe, OutSlot
<1> QED
  BY <1>3, <1>4, <1>5, <1>6, <1>7, <1>8, <1>9, <1>10, <1>11, <1>12, <1>13 DEF IInv

\* Every step keeps it, and none brings a spawned slot in above the ceiling.
LEMMA StepIInv == IInv /\ [Next]_vars => IInv' /\ (NoneAbove \/ UNCHANGED vars)
<1> SUFFICES ASSUME IInv, [Next]_vars PROVE IInv' /\ (NoneAbove \/ UNCHANGED vars)
  OBVIOUS
<1>1. CASE \E s \in Slots : WorkerDies(s)
  BY <1>1, WorkerDiesKept
<1>2. CASE \E c \in Clients, s \in Slots : ClaimPick(c, s)
  BY <1>2, ClaimPickKept
<1>3. ASSUME NEW c \in Clients, ClientStep(c) PROVE IInv' /\ NoneAbove
  BY <1>3, ClaimAliveKept, ClaimUnknownKept, ClaimDeadKept, UnclaimKept, ReleaseKept,
     RecycleKept,
     DrainKept, ClientReapKept, ClientReapedKept DEF ClientStep
<1>4. CASE TickStep
  <2>1. ASSUME NEW s \in Slots,
               \/ Promote(s) \/ HealthProbe(s) \/ TickReap(s) \/ MaintainPick(s)
               \/ SpawnOne(s) \/ BatchSpawn(s) \/ Settle(s)
        PROVE  IInv' /\ NoneAbove
    BY <2>1, PromoteKept, HealthProbeKept, TickReapKept, MaintainPickKept, SpawnOneKept,
       BatchSpawnKept, SettleKept
  <2>2. ASSUME \/ TickBegin \/ HealthList \/ HealthDemote \/ TickReaped
               \/ MaintainNothing \/ Upkeep \/ StartReapers \/ UpdateBurst \/ SpawnPlan
        PROVE  IInv' /\ NoneAbove
    BY <2>2, TickBeginKept, HealthListKept, HealthDemoteKept, TickReapedKept,
       MaintainNothingKept,
       UpkeepKept, StartReapersKept, UpdateBurstKept, SpawnPlanKept
  <2>3. ASSUME \/ SpawnFails \/ SpawnEnd \/ Publish \/ Drop \/ BatchSpawnFails \/ BatchEnd
               \/ SettleDrop \/ Surplus
        PROVE  IInv' /\ NoneAbove
    BY <2>3, SpawnFailsKept, SpawnEndKept, PublishKept, DropKept, BatchSpawnFailsKept,
       BatchEndKept, SettleDropKept, SurplusKept
  <2> QED BY <1>4, <2>1, <2>2, <2>3 DEF TickStep
<1>5. ASSUME NEW r \in Reapers, ReaperStep(r) PROVE IInv' /\ NoneAbove
  BY <1>5, ReaperEndKept, ReaperReapKept, ReaperReapedKept, ReaperFailedKept, ReaperTakeKept
     DEF ReaperStep
<1>6. CASE StopStep
  BY <1>6, StopBeginKept, StopJoinKept, StopFlipKept, StopReapedKept, StopPopKept,
     StopCountKept,
     StopReapKept DEF StopStep
<1>7. CASE Resize
  BY <1>7, ResizeKept
<1>8. CASE UNCHANGED vars
  BY <1>8 DEF vars, IInv, PoolTypeOK, Refs, Counts, BornInHand, InHand, OutIsOut, BornIsFree,
     Owners, ByClient, ByReaper, ByTick, ByStop, Apart, Clean, Gone, Open, OpenWorkers, OpenMarks,
     OpenClean, OpenReapers, OpenClients, OpenUpkeep, OpenTodo, StopIsFinal, Active, In, Unwedged,
     Counted, Live, OnlyReadyServe, HandOuts
<1> QED
  BY <1>1, <1>2, <1>3, <1>4, <1>5, <1>6, <1>7, <1>8 DEF Next

\* So it holds for ever.
LEMMA IInvHolds == Spec => []IInv
<1>1. Init => IInv BY InitIInv
<1>2. IInv /\ [Next]_vars => IInv' BY StepIInv
<1> QED BY <1>1, <1>2, PTL DEF Spec

\* Every variable of the pool keeps its type; a reservation is never given back twice.
THEOREM PoolTyped == Spec => []PoolTypeOK
<1>1. IInv => PoolTypeOK BY DEF IInv
<1> QED BY <1>1, IInvHolds, PTL

\* The books the runs check follow from the invariant.
LEMMA SlotsFollow == IInv => SlotsAccounted
<1> SUFFICES ASSUME IInv PROVE SlotsAccounted
  OBVIOUS
<1>1. Types /\ Handles /\ PoolTypeOK BY TypesHold DEF IInv
<1>2. HeldSlotSafe
  <2> SUFFICES ASSUME NEW c \in Clients, cl[c].pc \in {"hold", "recycle"}, ~Stopping
               PROVE  LET s == cl[c].slot IN
                      /\ slot[s].st = "assigned" /\ slot[s].worker # "none" /\ s \notin reaping
                      /\ \A d \in Clients \ {c} : cl[d].slot # s
                      /\ tk.slot # s
    BY DEF HeldSlotSafe
  <2> DEFINE s == cl[c].slot
  <2>1. s \in Slots /\ s # None /\ Open
    BY <1>1, SlotAssumption DEF Handles, Open, Stopping
  <2>2. slot[s].st = "assigned" BY <2>1 DEF IInv, OpenClients
  <2> HIDE DEF s
  <2>3. slot[s].worker # "none" /\ s \notin reaping
    BY <2>1, <2>2 DEF IInv, OpenWorkers, OpenMarks
  <2>4. \A d \in Clients \ {c} : cl[d].slot # s
    BY <2>1 DEF IInv, Apart, s
  <2>5. tk.slot # s
    <3>1. CASE tk.slot = None BY <2>1, <3>1
    <3>2. CASE tk.pc \in Emptying
      BY <1>1, <2>1, <2>3, <3>2 DEF IInv, Owners, ByTick, Handles
    <3>3. CASE tk.pc \in Borne
      BY <1>1, <2>1, <2>2, <3>3 DEF IInv, BornInHand, InHand, Handles
    <3>4. CASE tk.pc = "upkeep"
      BY <2>1, <3>4 DEF IInv, OpenUpkeep, s
    <3> QED BY <3>1, <3>2, <3>3, <3>4 DEF IInv, Refs
  <2> QED BY <2>2, <2>3, <2>4, <2>5 DEF s
<1>3. DisposedOnce
  <2>1. InDisposal \subseteq reaping
    BY <1>1 DEF IInv, Owners, ByClient, ByReaper, ByTick, ByStop, InDisposal, Emptying, Handles
  <2>2. Stopping \/ \A s \in reaping : slot[s].worker # "none"
    BY <1>1 DEF IInv, OpenWorkers, OpenMarks, Open, Stopping, Handles
  <2> QED BY <2>1, <2>2 DEF DisposedOnce
<1>4. WorkersTracked
  BY <1>1, TrackedSeen DEF IInv, WorkersTracked, OutIsOut, OutSlot, BornInHand, InHand, Seen
<1>5. StopCountsLive BY <1>1, LiveFinite DEF IInv, Counted, StopCountsLive, Live, Types, Stopper
<1> QED BY <1>2, <1>3, <1>4, <1>5 DEF SlotsAccounted, IInv

\* No slot under a job is given to another, taken for upkeep or destroyed before
\* stop(); exactly one path disposes of a slot; no worker is lost; only a slot that
\* was ready serves; after stop() took the books nothing becomes usable; and stop()
\* reports at least as many workers as live.
THEOREM SlotsStayAccounted == Spec => []SlotsAccounted
BY IInvHolds, SlotsFollow, PTL

\* What _try_claim_one hands to a job was reset after the last failure and in time.
THEOREM HandOutsAreClean == Spec => []CleanHandOut
<1>1. IInv => CleanHandOut BY DEF IInv, HandOuts, Clean, CleanHandOut
<1> QED BY <1>1, IInvHolds, PTL

\* _publish_or_reap_spawned and the serial loop bring no usable slot in above the
\* concurrent ceiling, however resize moves it meanwhile.
THEOREM CeilingStays == Spec => CeilingKept
<1>1. IInv /\ [Next]_vars =>
        [\A s \in Slots : slot[s].st = "born" /\ slot'[s].st = "warming"
           => Cardinality(Tracked) < size.ceiling]_vars
  BY StepIInv DEF NoneAbove
<1> QED BY <1>1, IInvHolds, PTL DEF Spec, CeilingKept

-------------------------------------------------------------------------------
(* The verdicts on a base.  RebuildInv says where the evidence against a base     *)
(* comes from wherever it is: on the slots (Stamped), on the books (Booked), in    *)
(* the hands of a release (Handed).  It rests on the generations following the    *)
(* artifacts (Follows), on one repair at a time (LockHeld) that begins only after *)
(* the cooldown of the last (Cooled), and on no decision being old (Timed).       *)

\* A decision is carried out before the cooldown that follows it is over; with several
\* bases, two in a row are.
RepairConstants ==
  /\ Cooldown \in Nat /\ MaxRepair \in Nat /\ MaxRepair < Cooldown
  /\ (\A a, b \in Bases : a = b) \/ 2 * MaxRepair < Cooldown
  /\ "tick" \notin Releasers /\ "nobody" \notin Threads

Errands == {"idle", "spawn", "spawn streak", "scope", "take", "cooling", "usable", "stale", "lock",
            "drop", "dropped", "refused"}
Judges == [at : Errands, slot : WarmSlots \cup {"none"}, reason : {"job", "spawn"},
           base : Bases \cup {"none"}, n : Nat, pre : SUBSET WarmSlots, from : SUBSET Nat,
           scope : SUBSET Bases, seen : [Bases -> Nat], now : Nat, repaired : SUBSET Bases]
Stamps == [st : {"free", "spawning", "live", "releasing"}, base : Bases \cup {"none"}, gen : Nat,
           ver : Nat, bad : BOOLEAN]

RebuildTypeOK ==
  /\ rbNow \in Nat \ {0} /\ rbLastAt \in Nat /\ rbSpawnFails \in Nat
  /\ rbVer \in [Bases -> Nat] /\ rbGen \in [Bases -> Nat] /\ rbFails \in [Bases -> Nat]
  /\ rbClean \in [Bases -> Nat] /\ rbPre \in [Bases -> SUBSET WarmSlots]
  /\ rbFrom \in [Bases -> SUBSET Nat] /\ rbBad \in [Bases -> BOOLEAN]
  /\ rbOwed \subseteq rbHealed /\ rbHealed \subseteq Bases
  /\ rbGuilty \subseteq Bases /\ rbLastIdents \subseteq Bases
  /\ rbSlot \in [WarmSlots -> Stamps]
  /\ rbThread \in [Threads -> Judges]

Unhealed == Bases \ rbHealed
Now(b) == {rbGen[b], rbVer[b]}
Repairing == {"drop", "dropped", "refused"}
Holding == {"cooling", "stale", "lock"} \cup Repairing

\* The repair lock is held from the last look to the end of the repair.
LockHeld == \A t \in Threads : rbThread[t].at \in Repairing <=> rbLock = t

\* A base is being replaced by t.
Replacing(t, b) == rbThread[t].at \in {"dropped", "refused"} /\ b \in rbThread[t].repaired

\* The generation of a base follows what is installed, one behind while it is replaced.
Follows ==
  \A b \in Unhealed :
    /\ (\A t \in Threads : ~Replacing(t, b)) => rbVer[b] = rbGen[b]
    /\ (\E t \in Threads : Replacing(t, b)) => rbVer[b] = rbGen[b] + 1

\* A live slot whose stamp is current was restored from what is or was just installed.
Stamped ==
  \A s \in WarmSlots :
    /\ rbSlot[s].st # "free" => rbSlot[s].base \in Bases
    /\ rbSlot[s].st # "free" /\ rbSlot[s].base \in Unhealed =>
         /\ rbSlot[s].gen <= rbGen[rbSlot[s].base]
         /\ rbSlot[s].st = "live" /\ rbSlot[s].gen = rbGen[rbSlot[s].base] =>
              rbSlot[s].ver \in Now(rbSlot[s].base)

\* So was the evidence on the books,
Booked == \A b \in Unhealed : rbFrom[b] \subseteq Now(b)

\* and that in hand, unless a repair of that base is over and its cooldown is not.
Passed(t) ==
  /\ rbLastAt > 0 /\ rbThread[t].base \in rbLastIdents
  /\ rbThread[t].now <= rbLastAt + MaxRepair
Handed ==
  \A t \in Releasers : rbThread[t].at \in Holding =>
    /\ rbThread[t].base \in Bases
    /\ rbThread[t].base \in Unhealed =>
         /\ rbThread[t].from \subseteq Now(rbThread[t].base) \/ Passed(t)
         /\ rbThread[t].at \in {"drop", "refused"} => rbThread[t].from \subseteq {rbVer[rbThread[t].base]}

\* The tick judges spawns, a release its worker; what each repairs.
Reasons ==
  /\ rbThread["tick"].at \notin {"idle", "spawn"} => rbThread["tick"].reason = "spawn"
  /\ \A t \in Releasers :
       /\ rbThread[t].at # "idle" => rbThread[t].reason = "job"
       /\ rbThread[t].at \notin {"spawn", "spawn streak", "scope", "usable"}
       /\ rbThread[t].at = "refused" => rbThread[t].repaired = {}
       /\ rbThread[t].at = "dropped" => rbThread[t].repaired = {rbThread[t].base}

\* A repair begins only once the cooldown of the one before it is over.
Cooled == \A t \in Threads : rbThread[t].at \in Repairing => ~Cooling(t)

\* No decision is older than MaxRepair.
Timed ==
  \A t \in Threads :
    /\ rbThread[t].at \in Holding \cup {"usable"} => rbThread[t].now > 0
    /\ rbThread[t].now > 0 => rbThread[t].now <= rbNow /\ rbNow <= rbThread[t].now + MaxRepair

\* A release has its slot to itself, and the tick one that it spawns.
Working ==
  /\ \A t \in Releasers : rbThread[t].at # "idle" =>
       /\ rbThread[t].slot \in WarmSlots
       /\ rbSlot[rbThread[t].slot].st = "releasing"
  /\ \A t, u \in Releasers : t # u /\ rbThread[t].at # "idle" /\ rbThread[u].at # "idle" =>
       rbThread[t].slot # rbThread[u].slot
  /\ rbThread["tick"].at = "spawn" =>
       rbThread["tick"].slot \in WarmSlots /\ rbSlot[rbThread["tick"].slot].st = "spawning"

\* The tick repairs only where no worker is in use.
Deserted ==
  rbThread["tick"].at \in {"stale", "lock"} \cup Repairing =>
    \A s \in WarmSlots : rbSlot[s].st \notin {"live", "releasing"}

RebuildInv ==
  /\ RebuildTypeOK /\ LockHeld /\ Follows /\ Stamped /\ Booked /\ Handed /\ Reasons /\ Cooled
  /\ Timed /\ Working /\ Deserted

\* Thread t goes on with its judgement as rec, about the same worker and within its time.
Continues(t, rec) ==
  /\ rbThread[t].at \notin {"idle", "spawn"} /\ rec.at \notin {"idle", "spawn"}
  /\ rec.slot = rbThread[t].slot /\ rec.reason = rbThread[t].reason
  /\ rec.now = rbThread[t].now \/ rec.now = rbNow
  /\ rec.at \in Holding \cup {"usable"} => rec.now > 0
  /\ t \in Releasers =>
       /\ rec.at \notin {"spawn", "spawn streak", "scope", "usable"}
       /\ rec.at = "refused" => rec.repaired = {}
       /\ rec.at = "dropped" => rec.repaired = {rec.base}
  /\ t = "tick" /\ rec.at \in {"stale", "lock"} \cup Repairing =>
       \A s \in WarmSlots : rbSlot[s].st \notin {"live", "releasing"}

\* The names of the threads are told apart.
LEMMA ThreadNames ==
  ASSUME RepairConstants
  PROVE  /\ "tick" \in Threads /\ Releasers \subseteq Threads
         /\ \A t \in Releasers : t # "tick"
         /\ \A t \in Threads : t # "nobody" /\ (t # "tick" => t \in Releasers)
BY DEF RepairConstants, Threads

\* What one thread writes in its record disturbs no other.
LEMMA ThreadPut ==
  ASSUME RebuildTypeOK, NEW t \in Threads, NEW rec \in Judges, Put(t, rec)
  PROVE  /\ rbThread' \in [Threads -> Judges] /\ rbThread'[t] = rec
         /\ \A u \in Threads : u # t => rbThread'[u] = rbThread[u]
BY DEF RebuildTypeOK, Put

LEMMA RebuildRecords ==
  /\ Resting \in Judges /\ Resting.at = "idle" /\ Resting.now = 0 /\ Resting.repaired = {}
  /\ Free \in Stamps /\ Free.st = "free"
<1>1. [b \in Bases |-> 0] \in [Bases -> Nat]
  OBVIOUS
<1> QED
  BY <1>1 DEF Resting, Judges, Errands, Free, Stamps

LEMMA RebuildStart ==
  ASSUME RepairConstants, RebuildInit
  PROVE  RebuildInv
<1>1. RebuildTypeOK
  BY RebuildRecords DEF RebuildInit, RebuildTypeOK
<1>2. \A t \in Threads : rbThread[t].at = "idle" /\ rbThread[t].now = 0 /\ t # "nobody"
  BY RebuildRecords, ThreadNames DEF RebuildInit
<1>3. \A s \in WarmSlots : rbSlot[s].st = "free"
  BY RebuildRecords DEF RebuildInit
<1>4. LockHeld
  BY <1>2 DEF RebuildInit, LockHeld, Repairing
<1>5. Reasons /\ Timed /\ Cooled /\ Handed
  <2>1. \A t \in Threads : rbThread[t].at \notin Holding \cup Repairing \cup {"usable"}
    BY <1>2 DEF Repairing, Holding
  <2>2. Timed /\ Cooled
    BY <1>2, <2>1 DEF Timed, Cooled
  <2>3. Reasons /\ Handed
    BY <1>2, <2>1, ThreadNames DEF Reasons, Handed
  <2> QED
    BY <2>2, <2>3
<1>6. Stamped /\ Working /\ Deserted
  BY <1>2, <1>3, ThreadNames DEF Stamped, Working, Deserted, Repairing
<1>7. Follows /\ Booked
  BY <1>2 DEF RebuildInit, Follows, Booked, Replacing, Unhealed, Now
<1> QED
  BY <1>1, <1>4, <1>5, <1>6, <1>7 DEF RebuildInv

\* A step that leaves the threads, the slots and the pool's books alone, and the artifact of
\* every base the runtime did not repair.
LEMMA OutsideKept ==
  ASSUME RebuildInv, RebuildTypeOK', rbHealed \subseteq rbHealed', rbNow' = rbNow,
         UNCHANGED <<rbSlot, rbLock, rbThread, rbLastAt, rbLastIdents>>,
         \A b \in Unhealed' : rbVer'[b] = rbVer[b] /\ rbGen'[b] = rbGen[b] /\ rbFrom'[b] = rbFrom[b]
  PROVE  RebuildInv'
<1>1. Unhealed' \subseteq Unhealed
  BY DEF Unhealed
<1>2. \A b \in Unhealed' : Now(b)' = Now(b)
  BY DEF Now
<1>3. LockHeld' /\ Reasons' /\ Working' /\ Deserted'
  BY DEF RebuildInv, LockHeld, Reasons, Working, Deserted
<1>4. Cooled' /\ Timed'
  BY DEF RebuildInv, Cooled, Cooling, Timed
<1>5. Follows'
  BY <1>1 DEF RebuildInv, Follows, Replacing
<1>6. Stamped'
  BY <1>1, <1>2 DEF RebuildInv, Stamped
<1>7. Booked'
  BY <1>1, <1>2 DEF RebuildInv, Booked
<1>8. Handed'
  <2> SUFFICES ASSUME NEW t \in Releasers, rbThread[t].at \in Holding
              PROVE  /\ rbThread[t].base \in Bases
                     /\ rbThread[t].base \in Unhealed' =>
                          /\ rbThread[t].from \subseteq Now(rbThread[t].base)' \/ Passed(t)'
                          /\ rbThread[t].at \in {"drop", "refused"} =>
                               rbThread[t].from \subseteq {rbVer'[rbThread[t].base]}
    BY DEF Handed
  <2>1. Passed(t) => Passed(t)'
    BY DEF Passed
  <2>2. /\ rbThread[t].base \in Bases
        /\ rbThread[t].base \in Unhealed =>
             /\ rbThread[t].from \subseteq Now(rbThread[t].base) \/ Passed(t)
             /\ rbThread[t].at \in {"drop", "refused"} => rbThread[t].from \subseteq {rbVer[rbThread[t].base]}
    BY DEF RebuildInv, Handed
  <2> QED
    BY <1>1, <1>2, <2>1, <2>2
<1> QED
  BY <1>3, <1>4, <1>5, <1>6, <1>7, <1>8 DEF RebuildInv

LEMMA RebuildStutters ==
  ASSUME RebuildInv, UNCHANGED rebuildVars
  PROVE  RebuildInv'
<1>1. RebuildTypeOK'
  BY DEF RebuildInv, RebuildTypeOK, rebuildVars, worldVars, bookVars
<1> QED
  BY <1>1, OutsideKept DEF rebuildVars, worldVars, bookVars

LEMMA WorldKept ==
  ASSUME RebuildInv, NEW b \in Bases, BaseGoesBad(b) \/ RuntimeRepairs(b)
  PROVE  RebuildInv'
<1>0. RebuildTypeOK
  BY DEF RebuildInv
<1>1. CASE BaseGoesBad(b)
  <2>1. RebuildTypeOK'
    BY <1>0, <1>1 DEF RebuildTypeOK, BaseGoesBad, bookVars
  <2> QED
    BY <1>1, <2>1, OutsideKept DEF BaseGoesBad, bookVars
<1>2. CASE RuntimeRepairs(b)
  <2>1. rbVer' \in [Bases -> Nat] /\ rbBad' \in [Bases -> BOOLEAN] /\ rbGuilty' \subseteq Bases
    BY <1>0, <1>2 DEF RebuildTypeOK, RuntimeRepairs, Installed
  <2>2. rbOwed' \subseteq rbHealed' /\ rbHealed' \subseteq Bases
    BY <1>0, <1>2 DEF RebuildTypeOK, RuntimeRepairs
  <2>3. RebuildTypeOK'
    BY <1>0, <1>2, <2>1, <2>2 DEF RebuildTypeOK, RuntimeRepairs, bookVars
  <2>4. \A c \in Unhealed' : rbVer'[c] = rbVer[c]
    BY <1>2 DEF RuntimeRepairs, Installed, Unhealed
  <2> QED
    BY <1>2, <2>3, <2>4, OutsideKept DEF RuntimeRepairs, bookVars
<1> QED
  BY <1>1, <1>2

LEMMA RuntimeDrainKept ==
  ASSUME RebuildInv, DrainRuntimeRepairs
  PROVE  RebuildInv'
<1>0. RebuildTypeOK
  BY DEF RebuildInv
<1>1. /\ rbGen' \in [Bases -> Nat] /\ rbFails' \in [Bases -> Nat]
      /\ rbPre' \in [Bases -> SUBSET WarmSlots] /\ rbFrom' \in [Bases -> SUBSET Nat]
  BY <1>0 DEF RebuildTypeOK, DrainRuntimeRepairs, Retire, Void
<1>2. RebuildTypeOK'
  BY <1>0, <1>1 DEF RebuildTypeOK, DrainRuntimeRepairs
<1>3. \A c \in Unhealed' : rbGen'[c] = rbGen[c] /\ rbFrom'[c] = rbFrom[c] /\ rbVer'[c] = rbVer[c]
  BY <1>0 DEF RebuildTypeOK, DrainRuntimeRepairs, Retire, Void, Unhealed
<1> QED
  BY <1>2, <1>3, OutsideKept DEF DrainRuntimeRepairs

LEMMA ClockKept ==
  ASSUME RepairConstants, RebuildInv, ClockTicks
  PROVE  RebuildInv'
<1>0. RebuildTypeOK
  BY DEF RebuildInv
<1>1. RebuildTypeOK'
  BY <1>0 DEF RebuildTypeOK, ClockTicks, worldVars, bookVars
<1>2. UNCHANGED <<rbSlot, rbLock, rbThread, rbLastAt, rbLastIdents, rbVer, rbGen, rbFrom, rbHealed>>
  BY DEF ClockTicks, worldVars, bookVars
<1>3. LockHeld' /\ Reasons' /\ Working' /\ Deserted' /\ Cooled'
  BY <1>2 DEF RebuildInv, LockHeld, Reasons, Working, Deserted, Cooled, Cooling
<1>4. Follows' /\ Booked'
  BY <1>2 DEF RebuildInv, Follows, Replacing, Booked, Now, Unhealed
<1>5. Stamped'
  BY <1>2 DEF RebuildInv, Stamped, Now, Unhealed
<1>6. Handed'
  BY <1>2 DEF RebuildInv, Handed, Now, Unhealed, Passed
<1>7. Timed'
  <2> SUFFICES ASSUME NEW t \in Threads
              PROVE  /\ rbThread'[t].at \in Holding \cup {"usable"} => rbThread'[t].now > 0
                     /\ rbThread'[t].now > 0 => rbThread'[t].now <= rbNow' /\ rbNow' <= rbThread'[t].now + MaxRepair
    BY DEF Timed
  <2>1. rbThread'[t] = rbThread[t] /\ rbThread[t].now \in Nat /\ rbNow \in Nat /\ MaxRepair \in Nat
    BY <1>0, <1>2 DEF RebuildTypeOK, Judges, RepairConstants
  <2>2. /\ rbThread[t].at \in Holding \cup {"usable"} => rbThread[t].now > 0
        /\ rbThread[t].now > 0 => rbThread[t].now <= rbNow
    BY DEF RebuildInv, Timed
  <2>3. rbThread[t].now > 0 => rbNow - rbThread[t].now < MaxRepair
    BY DEF ClockTicks
  <2>4. rbNow' = rbNow + 1
    BY DEF ClockTicks
  <2> QED
    BY <2>1, <2>2, <2>3, <2>4
<1> QED
  BY <1>1, <1>3, <1>4, <1>5, <1>6, <1>7 DEF RebuildInv

\* The end of a judgement: the slot of a release is free again, and nobody else is disturbed.
LEMMA EndsKept ==
  ASSUME RepairConstants, RebuildInv, NEW t \in Threads, rbThread[t].at \notin {"idle", "spawn"},
         ReleaseEnds(t), rbNow' = rbNow
  PROVE  /\ rbThread' \in [Threads -> Judges] /\ rbSlot' \in [WarmSlots -> Stamps]
         /\ rbThread'[t].at = "idle" /\ rbThread'[t].now = 0 /\ rbThread'[t].repaired = {}
         /\ \A u \in Threads : u # t => rbThread'[u] = rbThread[u]
         /\ \A s \in WarmSlots : rbSlot'[s] = rbSlot[s] \/ rbSlot'[s].st = "free"
         /\ Reasons' /\ Timed' /\ Working' /\ Deserted'
<1>0. RebuildTypeOK
  BY DEF RebuildInv
<1>1. /\ rbThread' \in [Threads -> Judges] /\ rbThread'[t] = Resting
      /\ \A u \in Threads : u # t => rbThread'[u] = rbThread[u]
  BY <1>0, ThreadPut, RebuildRecords DEF ReleaseEnds
<1>2. rbThread'[t].at = "idle" /\ rbThread'[t].now = 0 /\ rbThread'[t].repaired = {}
  BY <1>1, RebuildRecords
<1>3. rbSlot' \in [WarmSlots -> Stamps] /\ \A s \in WarmSlots : rbSlot'[s] = rbSlot[s] \/ rbSlot'[s].st = "free"
  BY <1>0, RebuildRecords DEF RebuildTypeOK, ReleaseEnds
<1>4. Reasons'
  <2>1. ASSUME rbThread'["tick"].at \notin {"idle", "spawn"}
        PROVE  rbThread'["tick"].reason = "spawn"
    <3>1. t # "tick" /\ rbThread'["tick"] = rbThread["tick"]
      BY <1>1, <1>2, <2>1, ThreadNames
    <3> QED
      BY <2>1, <3>1 DEF RebuildInv, Reasons
  <2>2. ASSUME NEW u \in Releasers
        PROVE  /\ rbThread'[u].at # "idle" => rbThread'[u].reason = "job"
               /\ rbThread'[u].at \notin {"spawn", "spawn streak", "scope", "usable"}
               /\ rbThread'[u].at = "refused" => rbThread'[u].repaired = {}
               /\ rbThread'[u].at = "dropped" => rbThread'[u].repaired = {rbThread'[u].base}
    <3>1. CASE u = t
      BY <1>2, <3>1
    <3>2. CASE u # t
      <4>1. rbThread'[u] = rbThread[u]
        BY <1>1, <2>2, <3>2, ThreadNames
      <4> QED
        BY <2>2, <4>1 DEF RebuildInv, Reasons
    <3> QED
      BY <3>1, <3>2
  <2> QED
    BY <2>1, <2>2 DEF Reasons
<1>5. Timed'
  BY <1>1, <1>2 DEF RebuildInv, Timed, Holding, Repairing
<1>6. Deserted'
  <2> SUFFICES ASSUME rbThread'["tick"].at \in {"stale", "lock"} \cup Repairing, NEW s \in WarmSlots
              PROVE  rbSlot'[s].st \notin {"live", "releasing"}
    BY DEF Deserted
  <2>1. t # "tick" /\ rbThread'["tick"] = rbThread["tick"]
    BY <1>1, <1>2, ThreadNames DEF Repairing
  <2>2. rbSlot[s].st \notin {"live", "releasing"}
    BY <2>1 DEF RebuildInv, Deserted
  <2> QED
    BY <1>3, <2>2
<1>7. Working'
  <2>1. \A u \in Releasers : rbThread'[u].at # "idle" => u # t /\ rbThread'[u] = rbThread[u]
    BY <1>1, <1>2, ThreadNames
  <2>2. ASSUME NEW u \in Releasers, rbThread'[u].at # "idle"
        PROVE  rbThread'[u].slot \in WarmSlots /\ rbSlot'[rbThread'[u].slot].st = "releasing"
    <3>1. rbThread[u].slot \in WarmSlots /\ rbSlot[rbThread[u].slot].st = "releasing" /\ u # t
      BY <2>1, <2>2 DEF RebuildInv, Working
    <3>2. t # "tick" => rbThread[t].slot # rbThread[u].slot
      BY <2>1, <2>2, ThreadNames DEF RebuildInv, Working
    <3>3. rbSlot'[rbThread[u].slot] = rbSlot[rbThread[u].slot]
      BY <1>0, <3>1, <3>2 DEF ReleaseEnds, RebuildTypeOK
    <3> QED
      BY <2>1, <2>2, <3>1, <3>3
  <2>3. ASSUME NEW u \in Releasers, NEW v \in Releasers, u # v, rbThread'[u].at # "idle", rbThread'[v].at # "idle"
        PROVE  rbThread'[u].slot # rbThread'[v].slot
    BY <2>1, <2>3 DEF RebuildInv, Working
  <2>4. ASSUME rbThread'["tick"].at = "spawn"
        PROVE  rbThread'["tick"].slot \in WarmSlots /\ rbSlot'[rbThread'["tick"].slot].st = "spawning"
    <3>1. t # "tick" /\ rbThread'["tick"] = rbThread["tick"]
      BY <1>1, <1>2, <2>4, ThreadNames
    <3>2. rbThread["tick"].slot \in WarmSlots /\ rbSlot[rbThread["tick"].slot].st = "spawning"
      BY <2>4, <3>1 DEF RebuildInv, Working
    <3>3. t \in Releasers /\ rbThread[t].slot \in WarmSlots /\ rbSlot[rbThread[t].slot].st = "releasing"
      BY <3>1, ThreadNames DEF RebuildInv, Working
    <3>4. rbThread[t].slot # rbThread["tick"].slot
      BY <3>2, <3>3
    <3>5. rbSlot'[rbThread["tick"].slot] = rbSlot[rbThread["tick"].slot]
      BY <1>0, <3>1, <3>2, <3>4 DEF ReleaseEnds, RebuildTypeOK
    <3> QED
      BY <3>1, <3>2, <3>5
  <2> QED
    BY <2>2, <2>3, <2>4 DEF Working
<1> QED
  BY <1>1, <1>2, <1>3, <1>4, <1>5, <1>6, <1>7

\* A judgement that goes on, with what it is about and the slot it holds.
LEMMA MoveKept ==
  ASSUME RepairConstants, RebuildInv, NEW t \in Threads, NEW rec \in Judges, Put(t, rec),
         Continues(t, rec), UNCHANGED <<rbNow, rbSlot>>
  PROVE  /\ rbThread' \in [Threads -> Judges] /\ rbThread'[t] = rec
         /\ \A u \in Threads : u # t => rbThread'[u] = rbThread[u]
         /\ Reasons' /\ Timed' /\ Working' /\ Deserted'
<1>0. RebuildTypeOK
  BY DEF RebuildInv
<1>1. /\ rbThread' \in [Threads -> Judges] /\ rbThread'[t] = rec
      /\ \A u \in Threads : u # t => rbThread'[u] = rbThread[u]
  BY <1>0, ThreadPut
<1>2. Reasons'
  <2>1. ASSUME rbThread'["tick"].at \notin {"idle", "spawn"}
        PROVE  rbThread'["tick"].reason = "spawn"
    <3>1. CASE t = "tick"
      BY <1>1, <3>1 DEF RebuildInv, Reasons, Continues
    <3>2. CASE t # "tick"
      <4>1. rbThread'["tick"] = rbThread["tick"]
        BY <1>1, <3>2, ThreadNames
      <4> QED
        BY <2>1, <4>1 DEF RebuildInv, Reasons
    <3> QED
      BY <3>1, <3>2
  <2>2. ASSUME NEW u \in Releasers
        PROVE  /\ rbThread'[u].at # "idle" => rbThread'[u].reason = "job"
               /\ rbThread'[u].at \notin {"spawn", "spawn streak", "scope", "usable"}
               /\ rbThread'[u].at = "refused" => rbThread'[u].repaired = {}
               /\ rbThread'[u].at = "dropped" => rbThread'[u].repaired = {rbThread'[u].base}
    <3>1. CASE u = t
      BY <1>1, <2>2, <3>1 DEF RebuildInv, Reasons, Continues
    <3>2. CASE u # t
      <4>1. rbThread'[u] = rbThread[u]
        BY <1>1, <2>2, <3>2, ThreadNames
      <4> QED
        BY <2>2, <4>1 DEF RebuildInv, Reasons
    <3> QED
      BY <3>1, <3>2
  <2> QED
    BY <2>1, <2>2 DEF Reasons
<1>3. Timed'
  <2>1. rbNow \in Nat /\ MaxRepair \in Nat /\ rbNow' = rbNow
    BY <1>0 DEF RebuildTypeOK, RepairConstants
  <2>2. rbThread[t].now > 0 => rbThread[t].now <= rbNow /\ rbNow <= rbThread[t].now + MaxRepair
    BY DEF RebuildInv, Timed
  <2>3. rec.now > 0 => rec.now <= rbNow /\ rbNow <= rec.now + MaxRepair
    <3>1. rec.now = rbThread[t].now \/ rec.now = rbNow
      BY DEF Continues
    <3>2. rbNow <= rbNow /\ rbNow <= rbNow + MaxRepair
      BY <2>1
    <3> QED
      BY <2>2, <3>1, <3>2
  <2>4. rec.at \in Holding \cup {"usable"} => rec.now > 0
    BY DEF Continues
  <2> QED
    BY <1>1, <2>1, <2>3, <2>4 DEF RebuildInv, Timed
<1>4. Working'
  <2>1. \A u \in Threads : rbThread'[u].slot = rbThread[u].slot
    BY <1>1 DEF Continues
  <2>2. \A u \in Releasers : rbThread'[u].at # "idle" => rbThread[u].at # "idle"
    BY <1>1, ThreadNames DEF Continues
  <2>3. rbThread'["tick"].at = "spawn" => rbThread["tick"].at = "spawn"
    BY <1>1, ThreadNames DEF Continues
  <2>4. \A u \in Releasers : rbThread'[u].at # "idle" =>
          rbThread'[u].slot \in WarmSlots /\ rbSlot'[rbThread'[u].slot].st = "releasing"
    BY <2>1, <2>2, ThreadNames DEF RebuildInv, Working
  <2>5. \A u, v \in Releasers : u # v /\ rbThread'[u].at # "idle" /\ rbThread'[v].at # "idle" =>
          rbThread'[u].slot # rbThread'[v].slot
    BY <2>1, <2>2, ThreadNames DEF RebuildInv, Working
  <2>6. rbThread'["tick"].at = "spawn" =>
          rbThread'["tick"].slot \in WarmSlots /\ rbSlot'[rbThread'["tick"].slot].st = "spawning"
    BY <2>1, <2>3, ThreadNames DEF RebuildInv, Working
  <2> QED
    BY <2>4, <2>5, <2>6 DEF Working
<1>5. Deserted'
  BY <1>1, ThreadNames DEF RebuildInv, Deserted, Continues
<1> QED
  BY <1>1, <1>2, <1>3, <1>4, <1>5

\* Nothing is replaced while nobody holds the repair lock, and its holder holds it alone.
LEMMA LockFacts ==
  ASSUME RebuildInv, RepairConstants
  PROVE  /\ rbLock = "nobody" => \A t \in Threads : rbThread[t].at \notin Repairing
         /\ \A t \in Threads : rbThread[t].at \in Repairing =>
              rbLock = t /\ \A u \in Threads : u # t => rbThread[u].at \notin Repairing
BY ThreadNames DEF RebuildInv, LockHeld

\* Slots that are given up, with the artifacts and the generations as they were, stay stamped.
LEMMA StampedKept ==
  ASSUME RebuildInv, UNCHANGED <<rbVer, rbGen, rbHealed>>,
         \A s \in WarmSlots : rbSlot'[s] = rbSlot[s] \/ rbSlot'[s].st = "free"
  PROVE  Stamped'
<1> SUFFICES ASSUME NEW s \in WarmSlots, rbSlot'[s].st # "free"
            PROVE  /\ rbSlot'[s].base \in Bases
                   /\ rbSlot'[s].base \in Unhealed' =>
                        /\ rbSlot'[s].gen <= rbGen'[rbSlot'[s].base]
                        /\ rbSlot'[s].st = "live" /\ rbSlot'[s].gen = rbGen'[rbSlot'[s].base] =>
                             rbSlot'[s].ver \in {rbGen'[rbSlot'[s].base], rbVer'[rbSlot'[s].base]}
  BY DEF Stamped, Now
<1>1. rbSlot'[s] = rbSlot[s]
  OBVIOUS
<1>2. Unhealed' = Unhealed
  BY DEF Unhealed
<1> QED
  BY <1>1, <1>2 DEF RebuildInv, Stamped, Now

\* A step that changes neither the artifacts, nor the generations, nor who repairs.
LEMMA QuietKept ==
  ASSUME RebuildInv, NEW t \in Threads, RebuildTypeOK',
         UNCHANGED <<rbLock, rbVer, rbGen, rbHealed, rbLastAt, rbLastIdents>>,
         \A u \in Threads : u # t => rbThread'[u] = rbThread[u],
         rbThread[t].at \notin Repairing, rbThread'[t].at \notin Repairing,
         t \in Releasers /\ rbThread'[t].at \in Holding =>
           /\ rbThread'[t].base \in Bases
           /\ rbThread'[t].base \in Unhealed =>
                rbThread'[t].from \subseteq Now(rbThread'[t].base) \/ Passed(t)',
         Stamped', Booked', Reasons', Timed', Working', Deserted'
  PROVE  RebuildInv'
<1>1. Unhealed' = Unhealed /\ \A b : Now(b)' = Now(b)
  BY DEF Unhealed, Now
<1>2. \A u \in Threads : rbThread[u].at \in Repairing \/ rbThread'[u].at \in Repairing =>
                          u # t /\ rbThread'[u] = rbThread[u]
  OBVIOUS
<1>3. LockHeld'
  BY <1>2 DEF RebuildInv, LockHeld
<1>4. Cooled'
  BY <1>2 DEF RebuildInv, Cooled, Cooling
<1>5. \A u \in Threads, b \in Bases : Replacing(u, b)' <=> Replacing(u, b)
  BY <1>2 DEF Replacing, Repairing
<1>6. Follows'
  BY <1>1, <1>5 DEF RebuildInv, Follows, Unhealed
<1>7. Handed'
  <2> SUFFICES ASSUME NEW u \in Releasers, rbThread'[u].at \in Holding
              PROVE  /\ rbThread'[u].base \in Bases
                     /\ rbThread'[u].base \in Unhealed' =>
                          /\ \/ rbThread'[u].from \subseteq {rbGen'[rbThread'[u].base], rbVer'[rbThread'[u].base]}
                             \/ Passed(u)'
                          /\ rbThread'[u].at \in {"drop", "refused"} =>
                               rbThread'[u].from \subseteq {rbVer'[rbThread'[u].base]}
    BY DEF Handed, Now
  <2>1. CASE u = t
    <3>1. rbThread'[u].at \notin {"drop", "refused"}
      BY <2>1 DEF Repairing
    <3> QED
      BY <1>1, <2>1, <3>1 DEF Now
  <2>2. CASE u # t
    <3>1. rbThread'[u] = rbThread[u]
      BY <2>2 DEF Threads
    <3>2. Passed(u) => Passed(u)'
      BY <3>1 DEF Passed
    <3>3. /\ rbThread[u].base \in Bases
          /\ rbThread[u].base \in Unhealed =>
               /\ rbThread[u].from \subseteq Now(rbThread[u].base) \/ Passed(u)
               /\ rbThread[u].at \in {"drop", "refused"} => rbThread[u].from \subseteq {rbVer[rbThread[u].base]}
      BY <3>1 DEF RebuildInv, Handed
    <3> QED
      BY <1>1, <3>1, <3>2, <3>3 DEF Now
  <2> QED
    BY <2>1, <2>2
<1> QED
  BY <1>3, <1>4, <1>6, <1>7 DEF RebuildInv

\* Evidence is only taken off the books,
LEMMA BookedKept ==
  ASSUME RebuildInv, UNCHANGED <<rbVer, rbGen, rbHealed>>, \A b \in Bases : rbFrom'[b] \subseteq rbFrom[b]
  PROVE  Booked'
<1>1. Unhealed' = Unhealed /\ Unhealed \subseteq Bases
  BY DEF Unhealed
<1> QED
  BY <1>1 DEF RebuildInv, Booked, Now

LEMMA VoidKept ==
  ASSUME RebuildTypeOK, NEW bs, Void(bs)
  PROVE  /\ rbFails' \in [Bases -> Nat] /\ rbFrom' \in [Bases -> SUBSET Nat]
         /\ \A b \in Bases : rbFrom'[b] \subseteq rbFrom[b] /\ (b \in bs => rbFrom'[b] = {})
BY DEF RebuildTypeOK, Void

\* or put back while it still tells of what is installed.
LEMMA RestoreKept ==
  ASSUME RebuildInv, NEW t \in Threads, RestoreEpisode(t), UNCHANGED <<rbVer, rbGen, rbHealed>>,
         rbThread[t].reason # "spawn" =>
           /\ rbThread[t].base \in Bases
           /\ rbThread[t].base \in Unhealed => rbThread[t].from \subseteq Now(rbThread[t].base)
  PROVE  /\ rbFails' \in [Bases -> Nat] /\ rbPre' \in [Bases -> SUBSET WarmSlots]
         /\ rbFrom' \in [Bases -> SUBSET Nat] /\ Booked'
<1>0. RebuildTypeOK /\ Booked
  BY DEF RebuildInv
<1>1. CASE rbThread[t].reason = "spawn" \/ SucceededSince(t)
  <2>1. UNCHANGED <<rbFails, rbPre, rbFrom>>
    BY <1>1 DEF RestoreEpisode
  <2>2. Booked'
    BY <2>1, BookedKept
  <2> QED
    BY <1>0, <2>1, <2>2 DEF RebuildTypeOK
<1>2. CASE ~(rbThread[t].reason = "spawn" \/ SucceededSince(t))
  <2> DEFINE r == rbThread[t]
  <2>1. r.base \in Bases /\ r.n \in Nat /\ r.pre \in SUBSET WarmSlots /\ r.from \in SUBSET Nat
    BY <1>0, <1>2 DEF RebuildTypeOK, Judges
  <2>2. /\ rbFails' = [rbFails EXCEPT ![r.base] = IF @ > r.n THEN @ ELSE r.n]
        /\ rbPre' = [rbPre EXCEPT ![r.base] = @ \cup r.pre]
        /\ rbFrom' = [rbFrom EXCEPT ![r.base] = @ \cup r.from]
    BY <1>2 DEF RestoreEpisode
  <2>3. r.base \in Unhealed => r.from \subseteq Now(r.base)
    BY <1>2
  <2> HIDE DEF r
  <2>4. rbFails' \in [Bases -> Nat]
    BY <1>0, <2>1, <2>2 DEF RebuildTypeOK
  <2>5. rbPre' \in [Bases -> SUBSET WarmSlots] /\ rbFrom' \in [Bases -> SUBSET Nat]
    BY <1>0, <2>1, <2>2 DEF RebuildTypeOK
  <2>6. Booked'
    <3> SUFFICES ASSUME NEW b \in Bases, b \in Unhealed PROVE rbFrom'[b] \subseteq Now(b)'
      BY DEF Booked, Unhealed
    <3>1. rbFrom[b] \subseteq Now(b) /\ Now(b)' = Now(b)
      BY <1>0 DEF Booked, Now
    <3>2. rbFrom'[b] = IF b = r.base THEN rbFrom[b] \cup r.from ELSE rbFrom[b]
      BY <1>0, <2>2 DEF RebuildTypeOK
    <3> QED
      BY <2>3, <3>1, <3>2
  <2> QED
    BY <2>4, <2>5, <2>6
<1> QED
  BY <1>1, <1>2

\* The end of a judgement that repaired nothing.
LEMMA DismissedKept ==
  ASSUME RepairConstants, RebuildInv, NEW t \in Threads,
         rbThread[t].at \notin {"idle", "spawn"} \cup Repairing, ReleaseEnds(t),
         UNCHANGED <<rbNow, rbLock, worldVars, rbGen, rbClean, rbLastAt, rbLastIdents>>,
         rbFails' \in [Bases -> Nat], rbPre' \in [Bases -> SUBSET WarmSlots],
         rbFrom' \in [Bases -> SUBSET Nat], rbSpawnFails' \in Nat, Booked'
  PROVE  RebuildInv'
<1>0. RebuildTypeOK
  BY DEF RebuildInv
<1>1. /\ rbThread' \in [Threads -> Judges] /\ rbSlot' \in [WarmSlots -> Stamps]
      /\ rbThread'[t].at = "idle"
      /\ \A u \in Threads : u # t => rbThread'[u] = rbThread[u]
      /\ \A s \in WarmSlots : rbSlot'[s] = rbSlot[s] \/ rbSlot'[s].st = "free"
      /\ Reasons' /\ Timed' /\ Working' /\ Deserted'
  BY EndsKept
<1>2. UNCHANGED <<rbVer, rbBad, rbOwed, rbHealed, rbGuilty>>
  BY DEF worldVars
<1>3. RebuildTypeOK'
  BY <1>0, <1>1, <1>2 DEF RebuildTypeOK
<1>4. Stamped'
  BY <1>1, <1>2, StampedKept
<1>5. rbThread'[t].at \notin Repairing /\ rbThread'[t].at \notin Holding
  BY <1>1 DEF Repairing, Holding
<1> QED
  BY <1>1, <1>2, <1>3, <1>4, <1>5, QuietKept

\* A judgement that goes on towards the repair lock.
LEMMA PursuedKept ==
  ASSUME RepairConstants, RebuildInv, NEW t \in Threads, NEW rec \in Judges, Put(t, rec),
         Continues(t, rec), rbThread[t].at \notin Repairing, rec.at \notin Repairing,
         t \in Releasers /\ rec.at \in Holding =>
           /\ rec.base \in Bases
           /\ rec.base \in Unhealed => rec.from \subseteq Now(rec.base) \/ Passed(t)',
         UNCHANGED <<rbNow, rbSlot, rbLock, worldVars, rbGen, rbClean, rbSpawnFails, rbLastAt, rbLastIdents>>,
         rbFails' \in [Bases -> Nat], rbPre' \in [Bases -> SUBSET WarmSlots],
         rbFrom' \in [Bases -> SUBSET Nat], Booked'
  PROVE  RebuildInv'
<1>0. RebuildTypeOK
  BY DEF RebuildInv
<1>1. /\ rbThread' \in [Threads -> Judges] /\ rbThread'[t] = rec
      /\ \A u \in Threads : u # t => rbThread'[u] = rbThread[u]
      /\ Reasons' /\ Timed' /\ Working' /\ Deserted'
  BY MoveKept
<1>2. UNCHANGED <<rbVer, rbBad, rbOwed, rbHealed, rbGuilty>>
  BY DEF worldVars
<1>3. RebuildTypeOK'
  BY <1>0, <1>1, <1>2 DEF RebuildTypeOK
<1>4. Stamped'
  BY <1>2, StampedKept
<1> QED
  BY <1>1, <1>2, <1>3, <1>4, QuietKept

LEMMA GoRecord ==
  ASSUME NEW r \in Judges, NEW pc \in Errands
  PROVE  LET rec == [r EXCEPT !.at = pc] IN
         /\ rec \in Judges /\ rec.at = pc /\ rec.slot = r.slot /\ rec.reason = r.reason
         /\ rec.base = r.base /\ rec.from = r.from /\ rec.now = r.now /\ rec.repaired = r.repaired
BY DEF Judges

LEMMA SpawnStreakKept ==
  ASSUME RepairConstants, RebuildInv, SpawnStreak
  PROVE  RebuildInv'
<1> DEFINE r == rbThread["tick"]
<1>0. /\ RebuildTypeOK /\ "tick" \in Threads /\ "tick" \notin Releasers /\ r.at = "spawn streak"
      /\ UNCHANGED <<rbNow, rbSlot, rbLock, worldVars, bookVars>>
  BY ThreadNames DEF RebuildInv, SpawnStreak, At
<1>1. /\ rbFails' \in [Bases -> Nat] /\ rbPre' \in [Bases -> SUBSET WarmSlots]
      /\ rbFrom' \in [Bases -> SUBSET Nat] /\ rbSpawnFails' \in Nat /\ Booked'
  BY <1>0, BookedKept DEF RebuildTypeOK, worldVars, bookVars
<1>2. CASE r.n < RebuildAfter
  <2>1. ReleaseEnds("tick")
    BY <1>0, <1>2 DEF SpawnStreak, ReleaseEnds
  <2> QED
    BY <1>0, <1>1, <2>1, DismissedKept DEF Repairing, bookVars
<1>3. CASE ~(r.n < RebuildAfter)
  <2> DEFINE rec == [r EXCEPT !.at = "scope", !.seen = rbClean]
  <2>1. Put("tick", rec)
    BY <1>3 DEF SpawnStreak
  <2>2. r \in Judges /\ rbClean \in [Bases -> Nat]
    BY <1>0 DEF RebuildTypeOK
  <2>3. rec \in Judges /\ rec.at = "scope" /\ rec.slot = r.slot /\ rec.reason = r.reason /\ rec.now = r.now
    BY <2>2 DEF Judges, Errands
  <2>4. Continues("tick", rec)
    BY <1>0, <2>3 DEF Continues, Holding, Repairing
  <2> HIDE DEF rec
  <2> QED
    BY <1>0, <1>1, <2>1, <2>3, <2>4, PursuedKept DEF Repairing, bookVars
<1> QED
  BY <1>2, <1>3

LEMMA SpawnScopeKept ==
  ASSUME RepairConstants, RebuildInv, SpawnScope
  PROVE  RebuildInv'
<1> DEFINE r == rbThread["tick"]
           rec == [r EXCEPT !.at = "cooling", !.scope = rbGuilty, !.now = rbNow]
<1>0. /\ RebuildTypeOK /\ "tick" \in Threads /\ "tick" \notin Releasers /\ r.at = "scope"
      /\ UNCHANGED <<rbNow, rbSlot, rbLock, worldVars, bookVars>> /\ Put("tick", rec)
  BY ThreadNames DEF RebuildInv, SpawnScope, At
<1>1. /\ rbFails' \in [Bases -> Nat] /\ rbPre' \in [Bases -> SUBSET WarmSlots]
      /\ rbFrom' \in [Bases -> SUBSET Nat] /\ Booked'
  BY <1>0, BookedKept DEF RebuildTypeOK, worldVars, bookVars
<1>2. r \in Judges /\ rbGuilty \in SUBSET Bases /\ rbNow \in Nat /\ rbNow > 0
  BY <1>0 DEF RebuildTypeOK
<1>3. rec \in Judges /\ rec.at = "cooling" /\ rec.slot = r.slot /\ rec.reason = r.reason /\ rec.now = rbNow
  BY <1>2 DEF Judges, Errands
<1>4. Continues("tick", rec)
  BY <1>0, <1>2, <1>3 DEF Continues, Repairing
<1> HIDE DEF rec
<1> QED
  BY <1>0, <1>1, <1>3, <1>4, PursuedKept DEF Repairing, bookVars

LEMMA TakeEpisodeKept ==
  ASSUME RepairConstants, RebuildInv, NEW t \in Threads, TakeEpisode(t)
  PROVE  RebuildInv'
<1>0. /\ RebuildTypeOK /\ rbThread[t].at = "take" /\ UNCHANGED <<rbNow, rbLock, worldVars>>
  BY DEF RebuildInv, TakeEpisode, At
<1>1. CASE Episodes = {} /\ ReleaseEnds(t) /\ UNCHANGED bookVars
  <2>1. /\ rbFails' \in [Bases -> Nat] /\ rbPre' \in [Bases -> SUBSET WarmSlots]
        /\ rbFrom' \in [Bases -> SUBSET Nat] /\ rbSpawnFails' \in Nat /\ Booked'
    BY <1>0, <1>1, BookedKept DEF RebuildTypeOK, worldVars, bookVars
  <2> QED
    BY <1>0, <1>1, <2>1, DismissedKept DEF Repairing, bookVars
<1>2. ASSUME NEW b \in Episodes,
             Put(t, [rbThread[t] EXCEPT !.at = "cooling", !.base = b, !.n = rbFails[b],
                       !.pre = rbPre[b], !.from = rbFrom[b], !.seen = rbClean, !.now = rbNow]),
             Void({b}), rbPre' = [rbPre EXCEPT ![b] = {}],
             UNCHANGED <<rbSlot, rbGen, rbClean, rbSpawnFails, rbLastAt, rbLastIdents>>
      PROVE  RebuildInv'
  <2> DEFINE r == rbThread[t]
             rec == [r EXCEPT !.at = "cooling", !.base = b, !.n = rbFails[b],
                       !.pre = rbPre[b], !.from = rbFrom[b], !.seen = rbClean, !.now = rbNow]
  <2>1. b \in Bases
    BY DEF Episodes
  <2>2. /\ r \in Judges /\ rbFails[b] \in Nat /\ rbPre[b] \in SUBSET WarmSlots
        /\ rbFrom[b] \in SUBSET Nat /\ rbClean \in [Bases -> Nat] /\ rbNow \in Nat /\ rbNow > 0
    BY <1>0, <2>1 DEF RebuildTypeOK
  <2>3. /\ rec \in Judges /\ rec.at = "cooling" /\ rec.slot = r.slot /\ rec.reason = r.reason
        /\ rec.now = rbNow /\ rec.base = b /\ rec.from = rbFrom[b]
    BY <2>1, <2>2 DEF Judges, Errands
  <2>4. Put(t, rec)
    BY <1>2
  <2> HIDE DEF rec
  <2>5. Continues(t, rec)
    BY <1>0, <2>2, <2>3 DEF Continues, Repairing
  <2>6. /\ rbFails' \in [Bases -> Nat] /\ rbFrom' \in [Bases -> SUBSET Nat]
        /\ \A c \in Bases : rbFrom'[c] \subseteq rbFrom[c]
    BY <1>0, <1>2, VoidKept
  <2>7. rbPre' \in [Bases -> SUBSET WarmSlots]
    BY <1>0, <1>2 DEF RebuildTypeOK
  <2>8. Booked'
    BY <1>0, <1>2, <2>6, BookedKept DEF worldVars
  <2>9. rec.base \in Unhealed => rec.from \subseteq Now(rec.base)
    BY <2>3 DEF RebuildInv, Booked
  <2> QED
    BY <1>0, <1>2, <2>1, <2>3, <2>4, <2>5, <2>6, <2>7, <2>8, <2>9, PursuedKept DEF Repairing
<1> QED
  BY <1>1, <1>2 DEF TakeEpisode

LEMMA CheckUsableKept ==
  ASSUME RepairConstants, RebuildInv, NEW t \in Threads, CheckUsable(t)
  PROVE  RebuildInv'
<1>0. /\ RebuildTypeOK /\ rbThread[t].at = "usable"
      /\ UNCHANGED <<rbNow, rbLock, worldVars, bookVars>>
  BY DEF RebuildInv, CheckUsable, At
<1>1. /\ rbFails' \in [Bases -> Nat] /\ rbPre' \in [Bases -> SUBSET WarmSlots]
      /\ rbFrom' \in [Bases -> SUBSET Nat] /\ rbSpawnFails' \in Nat /\ Booked'
  BY <1>0, BookedKept DEF RebuildTypeOK, worldVars, bookVars
<1>2. CASE \E s \in WarmSlots : rbSlot[s].st \in {"live", "releasing"}
  <2>1. ReleaseEnds(t)
    BY <1>2 DEF CheckUsable
  <2> QED
    BY <1>0, <1>1, <2>1, DismissedKept DEF Repairing, bookVars
<1>3. CASE ~\E s \in WarmSlots : rbSlot[s].st \in {"live", "releasing"}
  <2> DEFINE rec == [rbThread[t] EXCEPT !.at = "stale"]
  <2>1. Put(t, rec) /\ UNCHANGED rbSlot
    BY <1>3 DEF CheckUsable, Go
  <2>2. rbThread[t] \in Judges /\ "stale" \in Errands
    BY <1>0 DEF RebuildTypeOK, Errands
  <2>3. /\ rec \in Judges /\ rec.at = "stale" /\ rec.slot = rbThread[t].slot
        /\ rec.reason = rbThread[t].reason /\ rec.now = rbThread[t].now
    BY <2>2, GoRecord
  <2> HIDE DEF rec
  <2>4. rbThread[t].now > 0 /\ t \notin Releasers
    BY <1>0 DEF RebuildInv, Timed, Reasons
  <2>5. Continues(t, rec)
    BY <1>0, <1>3, <2>3, <2>4 DEF Continues, Repairing
  <2> QED
    BY <1>0, <1>1, <2>1, <2>3, <2>4, <2>5, PursuedKept DEF Repairing, bookVars
<1> QED
  BY <1>2, <1>3

LEMMA CheckStaleKept ==
  ASSUME RepairConstants, RebuildInv, NEW t \in Threads, CheckStale(t)
  PROVE  RebuildInv'
<1>0. /\ RebuildTypeOK /\ rbThread[t].at = "stale"
      /\ UNCHANGED <<rbNow, rbLock, worldVars, bookVars>>
  BY DEF RebuildInv, CheckStale, At
<1>1. /\ rbFails' \in [Bases -> Nat] /\ rbPre' \in [Bases -> SUBSET WarmSlots]
      /\ rbFrom' \in [Bases -> SUBSET Nat] /\ rbSpawnFails' \in Nat /\ Booked'
  BY <1>0, BookedKept DEF RebuildTypeOK, worldVars, bookVars
<1>2. CASE SucceededSince(t)
  <2>1. ReleaseEnds(t)
    BY <1>2 DEF CheckStale
  <2> QED
    BY <1>0, <1>1, <2>1, DismissedKept DEF Repairing, bookVars
<1>3. CASE ~SucceededSince(t)
  <2> DEFINE rec == [rbThread[t] EXCEPT !.at = "lock"]
  <2>1. Put(t, rec) /\ UNCHANGED rbSlot
    BY <1>3 DEF CheckStale, Go
  <2>2. rbThread[t] \in Judges /\ "lock" \in Errands
    BY <1>0 DEF RebuildTypeOK, Errands
  <2>3. /\ rec \in Judges /\ rec.at = "lock" /\ rec.slot = rbThread[t].slot
        /\ rec.reason = rbThread[t].reason /\ rec.now = rbThread[t].now
        /\ rec.base = rbThread[t].base /\ rec.from = rbThread[t].from
    BY <2>2, GoRecord
  <2> HIDE DEF rec
  <2>4. rbThread[t].now > 0
    BY <1>0 DEF RebuildInv, Timed, Holding
  <2>5. t = "tick" => \A s \in WarmSlots : rbSlot[s].st \notin {"live", "releasing"}
    BY <1>0 DEF RebuildInv, Deserted
  <2>6. Continues(t, rec)
    BY <1>0, <2>3, <2>4, <2>5 DEF Continues, Repairing
  <2>7. ASSUME t \in Releasers
        PROVE  /\ rec.base \in Bases
               /\ rec.base \in Unhealed => rec.from \subseteq Now(rec.base) \/ Passed(t)'
    <3>1. rbThread'[t] = rec
      BY <1>0, <2>1, <2>3, ThreadPut
    <3>2. Passed(t) => Passed(t)'
      BY <1>0, <2>3, <3>1 DEF Passed, bookVars
    <3> QED
      BY <1>0, <2>3, <2>7, <3>2 DEF RebuildInv, Handed, Holding
  <2> QED
    BY <1>0, <1>1, <2>1, <2>3, <2>6, <2>7, PursuedKept DEF Repairing, bookVars
<1> QED
  BY <1>2, <1>3

LEMMA CheckCoolingKept ==
  ASSUME RepairConstants, RebuildInv, NEW t \in Threads, CheckCooling(t)
  PROVE  RebuildInv'
<1> DEFINE r == rbThread[t]
<1>0. /\ RebuildTypeOK /\ r.at = "cooling" /\ r \in Judges
      /\ UNCHANGED <<rbNow, rbLock, worldVars, rbGen, rbClean, rbLastAt, rbLastIdents>>
      /\ UNCHANGED <<rbVer, rbGen, rbHealed>>
  BY DEF RebuildInv, RebuildTypeOK, CheckCooling, At, worldVars
<1>1. /\ r.reason # "spawn" => t \in Releasers /\ t # "tick"
      /\ r.reason = "spawn" => t \notin Releasers
  BY <1>0, ThreadNames DEF RebuildInv, Reasons
<1>2. t \in Releasers => r.base \in Bases /\ (r.base \in Unhealed => r.from \subseteq Now(r.base) \/ Passed(t))
  BY <1>0 DEF RebuildInv, Handed, Holding
<1>3. CASE UNCHANGED <<rbSlot, rbFails, rbPre, rbFrom, rbSpawnFails>>
           /\ Go(t, IF r.reason = "spawn" THEN "usable" ELSE "stale")
  <2> DEFINE pc == IF r.reason = "spawn" THEN "usable" ELSE "stale"
             rec == [r EXCEPT !.at = pc]
  <2>1. Put(t, rec)
    BY <1>3 DEF Go
  <2>2. pc \in Errands
    BY DEF Errands
  <2>3. /\ rec \in Judges /\ rec.at = pc /\ rec.slot = r.slot /\ rec.reason = r.reason
        /\ rec.now = r.now /\ rec.base = r.base /\ rec.from = r.from
    BY <1>0, <2>2, GoRecord
  <2> HIDE DEF rec
  <2>4. r.now > 0
    BY <1>0 DEF RebuildInv, Timed, Holding
  <2>5. pc \in {"usable", "stale"} /\ (t \in Releasers => pc = "stale") /\ (t = "tick" => pc = "usable")
    BY <1>1
  <2> HIDE DEF pc
  <2>6. Continues(t, rec)
    BY <1>0, <2>3, <2>4, <2>5 DEF Continues, Repairing
  <2>7. rec.at \notin Repairing /\ r.at \notin Repairing
    BY <1>0, <2>3, <2>5 DEF Repairing
  <2>8. ASSUME t \in Releasers
        PROVE  /\ rec.base \in Bases
               /\ rec.base \in Unhealed => rec.from \subseteq Now(rec.base) \/ Passed(t)'
    <3>1. rbThread'[t] = rec
      BY <1>0, <2>1, <2>3, ThreadPut
    <3>2. Passed(t) => Passed(t)'
      BY <1>0, <2>3, <3>1 DEF Passed
    <3> QED
      BY <1>2, <2>3, <2>8, <3>2
  <2>9. /\ rbFails' \in [Bases -> Nat] /\ rbPre' \in [Bases -> SUBSET WarmSlots]
        /\ rbFrom' \in [Bases -> SUBSET Nat] /\ Booked'
    BY <1>0, <1>3, BookedKept DEF RebuildTypeOK
  <2> QED
    BY <1>0, <1>3, <2>1, <2>3, <2>6, <2>7, <2>8, <2>9, PursuedKept
<1>4. CASE /\ ReleaseEnds(t) /\ r.reason = "spawn" /\ UNCHANGED <<rbFails, rbPre, rbFrom>>
           /\ rbSpawnFails' = IF r.scope = {} \/ rbLastIdents \cap r.scope # {} THEN 0 ELSE rbSpawnFails
  <2>1. /\ rbFails' \in [Bases -> Nat] /\ rbPre' \in [Bases -> SUBSET WarmSlots]
        /\ rbFrom' \in [Bases -> SUBSET Nat] /\ rbSpawnFails' \in Nat /\ Booked'
    BY <1>0, <1>4, BookedKept DEF RebuildTypeOK
  <2> QED
    BY <1>0, <1>4, <2>1, DismissedKept DEF Repairing
<1>5. CASE /\ ReleaseEnds(t) /\ r.base \in rbLastIdents /\ UNCHANGED rbSpawnFails
           /\ Void({r.base}) /\ rbPre' = [rbPre EXCEPT ![r.base] = {}]
  <2>1. /\ rbFails' \in [Bases -> Nat] /\ rbFrom' \in [Bases -> SUBSET Nat]
        /\ \A b \in Bases : rbFrom'[b] \subseteq rbFrom[b]
    BY <1>0, <1>5, VoidKept
  <2>2. rbPre' \in [Bases -> SUBSET WarmSlots] /\ rbSpawnFails' \in Nat
    BY <1>0, <1>5 DEF RebuildTypeOK
  <2>3. Booked'
    BY <1>0, <2>1, BookedKept
  <2> QED
    BY <1>0, <1>5, <2>1, <2>2, <2>3, DismissedKept DEF Repairing
<1>6. CASE /\ ReleaseEnds(t) /\ r.reason # "spawn" /\ r.base \notin rbLastIdents /\ UNCHANGED rbSpawnFails
           /\ RestoreEpisode(t)
  <2>1. r.base \in Bases /\ (r.base \in Unhealed => r.from \subseteq Now(r.base))
    BY <1>1, <1>2, <1>6 DEF Passed
  <2>2. /\ rbFails' \in [Bases -> Nat] /\ rbPre' \in [Bases -> SUBSET WarmSlots]
        /\ rbFrom' \in [Bases -> SUBSET Nat] /\ Booked'
    BY <1>0, <1>6, <2>1, RestoreKept
  <2>3. rbSpawnFails' \in Nat
    BY <1>0, <1>6 DEF RebuildTypeOK
  <2> QED
    BY <1>0, <1>6, <2>2, <2>3, DismissedKept DEF Repairing
<1> QED
  BY <1>3, <1>4, <1>5, <1>6 DEF CheckCooling

\* One slot that is stamped anew, or given up.
LEMMA StampedOne ==
  ASSUME RebuildInv, UNCHANGED <<rbVer, rbGen, rbHealed>>, NEW s \in WarmSlots,
         \A x \in WarmSlots : x # s => rbSlot'[x] = rbSlot[x],
         NEW new, rbSlot'[s] = new,
         new.st # "free" =>
           /\ new.base \in Bases
           /\ new.base \in Unhealed =>
                /\ new.gen <= rbGen[new.base]
                /\ new.st = "live" /\ new.gen = rbGen[new.base] => new.ver \in Now(new.base)
  PROVE  Stamped'
<1>1. ASSUME NEW x \in WarmSlots, rbSlot'[x].st # "free"
      PROVE  /\ rbSlot'[x].base \in Bases
             /\ rbSlot'[x].base \in Unhealed' =>
                  /\ rbSlot'[x].gen <= rbGen'[rbSlot'[x].base]
                  /\ rbSlot'[x].st = "live" /\ rbSlot'[x].gen = rbGen'[rbSlot'[x].base] =>
                       rbSlot'[x].ver \in {rbGen'[rbSlot'[x].base], rbVer'[rbSlot'[x].base]}
  <2>0. Unhealed' = Unhealed
    BY DEF Unhealed
  <2>1. CASE x = s
    BY <1>1, <2>0, <2>1 DEF Now
  <2>2. CASE x # s
    <3>1. rbSlot'[x] = rbSlot[x]
      BY <2>2
    <3> QED
      BY <1>1, <2>0, <3>1 DEF RebuildInv, Stamped, Now
  <2> QED
    BY <2>1, <2>2
<1> QED
  BY <1>1 DEF Stamped, Now

LEMMA SpawnBeginsKept ==
  ASSUME RepairConstants, RebuildInv, NEW s \in WarmSlots, NEW b \in Bases, SpawnBegins(s, b)
  PROVE  RebuildInv'
<1> DEFINE new == [Free EXCEPT !.st = "spawning", !.base = b, !.gen = rbGen[b]]
           rec == [Resting EXCEPT !.at = "spawn", !.slot = s]
<1>0. /\ RebuildTypeOK /\ "tick" \in Threads /\ "tick" \notin Releasers /\ rbThread["tick"].at = "idle"
      /\ rbSlot[s].st = "free"
      /\ UNCHANGED <<rbNow, rbLock, rbVer, rbBad, rbOwed, rbHealed, rbGuilty, rbGen, rbFails, rbPre,
                     rbFrom, rbClean, rbSpawnFails, rbLastAt, rbLastIdents>>
  BY ThreadNames DEF RebuildInv, SpawnBegins, At, worldVars, bookVars
<1>1. new \in Stamps /\ new.st = "spawning" /\ new.base = b /\ new.gen = rbGen[b]
  BY <1>0, RebuildRecords DEF RebuildTypeOK, Free, Stamps
<1>2. rec \in Judges /\ rec.at = "spawn" /\ rec.slot = s /\ rec.now = 0
  BY RebuildRecords DEF Judges, Errands, Resting
<1>3. rbSlot' = [rbSlot EXCEPT ![s] = new] /\ Put("tick", rec)
  BY DEF SpawnBegins
<1> HIDE DEF new, rec
<1>4. /\ rbSlot' \in [WarmSlots -> Stamps] /\ rbSlot'[s] = new
      /\ \A x \in WarmSlots : x # s => rbSlot'[x] = rbSlot[x]
  BY <1>0, <1>1, <1>3 DEF RebuildTypeOK
<1>5. /\ rbThread' \in [Threads -> Judges] /\ rbThread'["tick"] = rec
      /\ \A u \in Threads : u # "tick" => rbThread'[u] = rbThread[u]
  BY <1>0, <1>2, <1>3, ThreadPut
<1>6. RebuildTypeOK'
  BY <1>0, <1>4, <1>5 DEF RebuildTypeOK
<1>7. Stamped'
  <2>1. new.gen <= rbGen[new.base]
    BY <1>0, <1>1 DEF RebuildTypeOK
  <2> QED
    BY <1>0, <1>1, <1>4, <2>1, StampedOne
<1>8. Booked'
  BY <1>0, BookedKept
<1>9. Reasons' /\ Timed'
  <2>1. Reasons'
    BY <1>0, <1>2, <1>5, ThreadNames DEF RebuildInv, Reasons
  <2>2. Timed'
    BY <1>0, <1>2, <1>5 DEF RebuildInv, Timed, Holding, Repairing
  <2> QED
    BY <2>1, <2>2
<1>10. Working'
  <2>1. \A u \in Releasers : rbThread'[u] = rbThread[u] /\ (rbThread[u].at # "idle" => rbThread[u].slot # s)
    BY <1>0, <1>5, ThreadNames DEF RebuildInv, Working
  <2> QED
    BY <1>1, <1>2, <1>4, <1>5, <2>1 DEF RebuildInv, Working
<1>11. Deserted'
  BY <1>2, <1>5 DEF Deserted, Repairing
<1>12. rbThread["tick"].at \notin Repairing /\ rbThread'["tick"].at \notin Repairing
  BY <1>0, <1>2, <1>5 DEF Repairing
<1> QED
  BY <1>0, <1>5, <1>6, <1>7, <1>8, <1>9, <1>10, <1>11, <1>12, QuietKept

LEMMA SpawnReturnsKept ==
  ASSUME RepairConstants, RebuildInv, SpawnReturns
  PROVE  RebuildInv'
<1> DEFINE s == rbThread["tick"].slot
           b == rbSlot[s].base
           new == [rbSlot[s] EXCEPT !.st = "live", !.ver = rbVer[b], !.bad = rbBad[b]]
<1>0. /\ RebuildTypeOK /\ "tick" \in Threads /\ "tick" \notin Releasers /\ rbThread["tick"].at = "spawn"
      /\ UNCHANGED <<rbNow, rbLock, rbVer, rbBad, rbOwed, rbHealed, rbGuilty, rbGen, rbFails, rbPre,
                     rbFrom, rbClean, rbSpawnFails, rbLastAt, rbLastIdents>>
  BY ThreadNames DEF RebuildInv, SpawnReturns, At, worldVars, bookVars
<1>1. s \in WarmSlots /\ rbSlot[s].st = "spawning"
  BY <1>0 DEF RebuildInv, Working
<1>2. b \in Bases /\ rbSlot[s] \in Stamps /\ rbVer[b] \in Nat /\ rbBad[b] \in BOOLEAN
  BY <1>0, <1>1 DEF RebuildInv, Stamped, RebuildTypeOK
<1>3. new \in Stamps /\ new.st = "live" /\ new.base = b /\ new.gen = rbSlot[s].gen /\ new.ver = rbVer[b]
  BY <1>2 DEF Stamps
<1>4. rbSlot' = [rbSlot EXCEPT ![s] = new] /\ Put("tick", Resting)
  BY <1>0, <1>1 DEF SpawnReturns, RebuildTypeOK
<1> HIDE DEF new
<1>5. /\ rbSlot' \in [WarmSlots -> Stamps] /\ rbSlot'[s] = new
      /\ \A x \in WarmSlots : x # s => rbSlot'[x] = rbSlot[x]
  BY <1>0, <1>1, <1>3, <1>4 DEF RebuildTypeOK
<1>6. /\ rbThread' \in [Threads -> Judges] /\ rbThread'["tick"].at = "idle" /\ rbThread'["tick"].now = 0
      /\ \A u \in Threads : u # "tick" => rbThread'[u] = rbThread[u]
  BY <1>0, <1>4, ThreadPut, RebuildRecords
<1>7. RebuildTypeOK'
  BY <1>0, <1>5, <1>6 DEF RebuildTypeOK
<1>8. Stamped'
  <2>1. b \in Unhealed => new.gen <= rbGen[b]
    BY <1>1, <1>3 DEF RebuildInv, Stamped
  <2>2. new.ver \in Now(b)
    BY <1>3 DEF Now
  <2> HIDE DEF s, b
  <2> QED
    BY <1>0, <1>1, <1>2, <1>3, <1>5, <2>1, <2>2, StampedOne
<1>9. Booked'
  BY <1>0, BookedKept
<1>10. Reasons'
  BY <1>0, <1>6, ThreadNames DEF RebuildInv, Reasons
<1>11. Timed'
  BY <1>0, <1>6 DEF RebuildInv, Timed, Holding, Repairing
<1>12. Working'
  <2>1. \A u \in Releasers : rbThread'[u] = rbThread[u] /\ (rbThread[u].at # "idle" => rbThread[u].slot # s)
    BY <1>0, <1>1, <1>6, ThreadNames DEF RebuildInv, Working
  <2> QED
    BY <1>5, <1>6, <2>1 DEF RebuildInv, Working
<1>13. Deserted'
  BY <1>6 DEF Deserted, Repairing
<1>14. rbThread["tick"].at \notin Repairing /\ rbThread'["tick"].at \notin Repairing
  BY <1>0, <1>6 DEF Repairing
<1> QED
  BY <1>0, <1>6, <1>7, <1>8, <1>9, <1>10, <1>11, <1>12, <1>13, <1>14, QuietKept

LEMMA RestoreFailsKept ==
  ASSUME RepairConstants, RebuildInv, RestoreFails
  PROVE  RebuildInv'
<1> DEFINE s == rbThread["tick"].slot
           rec == [Resting EXCEPT !.at = "spawn streak", !.reason = "spawn", !.n = rbSpawnFails + 1]
<1>0. /\ RebuildTypeOK /\ "tick" \in Threads /\ "tick" \notin Releasers /\ rbThread["tick"].at = "spawn"
      /\ UNCHANGED <<rbNow, rbLock, rbVer, rbBad, rbOwed, rbHealed, rbGen, rbFails, rbPre,
                     rbFrom, rbClean, rbLastAt, rbLastIdents>>
      /\ rbSpawnFails' = rbSpawnFails + 1
  BY ThreadNames DEF RebuildInv, RestoreFails, At
<1>1. s \in WarmSlots /\ rbSlot[s].st = "spawning"
  BY <1>0 DEF RebuildInv, Working
<1>2. rbGuilty' \subseteq Bases
  BY <1>0, <1>1 DEF RebuildInv, Stamped, RebuildTypeOK, RestoreFails
<1>3. rec \in Judges /\ rec.at = "spawn streak" /\ rec.reason = "spawn" /\ rec.now = 0
  <2>1. Resting \in Judges /\ Resting.now = 0 /\ rbSpawnFails + 1 \in Nat
    BY <1>0, RebuildRecords DEF RebuildTypeOK
  <2> QED
    BY <2>1 DEF Judges, Errands
<1>4. rbSlot' = [rbSlot EXCEPT ![s] = Free] /\ Put("tick", rec)
  BY DEF RestoreFails
<1> HIDE DEF rec
<1>5. /\ rbSlot' \in [WarmSlots -> Stamps] /\ rbSlot'[s].st = "free"
      /\ \A x \in WarmSlots : x # s => rbSlot'[x] = rbSlot[x]
  BY <1>0, <1>1, <1>4, RebuildRecords DEF RebuildTypeOK
<1>6. /\ rbThread' \in [Threads -> Judges] /\ rbThread'["tick"] = rec
      /\ \A u \in Threads : u # "tick" => rbThread'[u] = rbThread[u]
  BY <1>0, <1>3, <1>4, ThreadPut
<1>7. RebuildTypeOK'
  BY <1>0, <1>2, <1>5, <1>6 DEF RebuildTypeOK
<1>8. Stamped'
  BY <1>0, <1>5, StampedKept
<1>9. Booked'
  BY <1>0, BookedKept
<1>10. Reasons'
  BY <1>0, <1>3, <1>6, ThreadNames DEF RebuildInv, Reasons
<1>11. Timed'
  <2>1. rbThread'["tick"].at \notin Holding \cup {"usable"} /\ rbThread'["tick"].now = 0
    BY <1>3, <1>6 DEF Holding, Repairing
  <2> QED
    BY <1>0, <1>6, <2>1 DEF RebuildInv, Timed
<1>12. Working'
  <2>1. \A u \in Releasers : rbThread'[u] = rbThread[u] /\ (rbThread[u].at # "idle" => rbThread[u].slot # s)
    BY <1>0, <1>1, <1>6, ThreadNames DEF RebuildInv, Working
  <2>2. rbThread'["tick"].at # "spawn"
    BY <1>3, <1>6
  <2> QED
    BY <1>5, <2>1, <2>2 DEF RebuildInv, Working
<1>13. Deserted'
  BY <1>3, <1>6 DEF Deserted, Repairing
<1>14. rbThread["tick"].at \notin Repairing /\ rbThread'["tick"].at \notin Repairing
  BY <1>0, <1>3, <1>6 DEF Repairing
<1> QED
  BY <1>0, <1>6, <1>7, <1>8, <1>9, <1>10, <1>11, <1>12, <1>13, <1>14, QuietKept

LEMMA ReleaseServedKept ==
  ASSUME RepairConstants, RebuildInv, NEW t \in Releasers, NEW s \in WarmSlots, ReleaseServed(t, s)
  PROVE  RebuildInv'
<1> DEFINE b == rbSlot[s].base
<1>0. /\ RebuildTypeOK /\ t \in Threads /\ rbThread[t].at = "idle" /\ rbSlot[s].st = "live"
      /\ UNCHANGED <<rbNow, rbLock, rbThread, rbVer, rbBad, rbOwed, rbHealed, rbGuilty, rbGen,
                     rbLastAt, rbLastIdents>>
  BY ThreadNames DEF RebuildInv, ReleaseServed, At, worldVars
<1>1. /\ rbSlot' \in [WarmSlots -> Stamps] /\ rbSlot'[s].st = "free"
      /\ \A x \in WarmSlots : x # s => rbSlot'[x] = rbSlot[x]
  BY <1>0, RebuildRecords DEF RebuildTypeOK, ReleaseServed
<1>2. b \in Bases
  BY <1>0 DEF RebuildInv, Stamped
<1>3. /\ rbFails' \in [Bases -> Nat] /\ rbPre' \in [Bases -> SUBSET WarmSlots]
      /\ rbClean' \in [Bases -> Nat] /\ rbSpawnFails' \in Nat
  BY <1>0, <1>2 DEF RebuildTypeOK, ReleaseServed
<1>4. rbFrom' \in [Bases -> SUBSET Nat] /\ \A c \in Bases : rbFrom'[c] \subseteq rbFrom[c]
  BY <1>0, <1>2 DEF RebuildTypeOK, ReleaseServed
<1>5. RebuildTypeOK'
  BY <1>0, <1>1, <1>3, <1>4 DEF RebuildTypeOK
<1>6. Stamped'
  BY <1>0, <1>1, StampedKept
<1>7. Booked'
  BY <1>0, <1>4, BookedKept
<1>8. Reasons' /\ Timed'
  BY <1>0 DEF RebuildInv, Reasons, Timed
<1>9. Working'
  <2>1. \A u \in Releasers : rbThread[u].at # "idle" => rbThread[u].slot # s
    BY <1>0 DEF RebuildInv, Working
  <2>2. rbThread["tick"].at = "spawn" => rbThread["tick"].slot # s
    BY <1>0 DEF RebuildInv, Working
  <2> QED
    BY <1>0, <1>1, <2>1, <2>2 DEF RebuildInv, Working
<1>10. Deserted'
  BY <1>0, <1>1 DEF RebuildInv, Deserted
<1>11. rbThread[t].at \notin Repairing /\ rbThread[t].at \notin Holding
  BY <1>0 DEF Repairing, Holding
<1> QED
  BY <1>0, <1>5, <1>6, <1>7, <1>8, <1>9, <1>10, <1>11, QuietKept

LEMMA ReleaseFaultedKept ==
  ASSUME RepairConstants, RebuildInv, NEW t \in Releasers, NEW s \in WarmSlots,
         NEW preGuest \in BOOLEAN, ReleaseFaulted(t, s, preGuest)
  PROVE  RebuildInv'
<1> DEFINE b == rbSlot[s].base
           rec == [Resting EXCEPT !.at = "take", !.slot = s]
           new == [rbSlot[s] EXCEPT !.st = "releasing"]
<1>0. /\ RebuildTypeOK /\ t \in Threads /\ t # "tick" /\ rbThread[t].at = "idle" /\ rbSlot[s].st = "live"
      /\ UNCHANGED <<rbNow, rbLock, rbVer, rbBad, rbOwed, rbHealed, rbGuilty, rbGen, rbClean,
                     rbSpawnFails, rbLastAt, rbLastIdents>>
      /\ CountCurrentFault(t, s, preGuest)
  BY ThreadNames DEF RebuildInv, ReleaseFaulted, At, worldVars
<1>1. /\ b \in Bases /\ rbSlot[s] \in Stamps /\ rbSlot[s].ver \in Nat
      /\ b \in Unhealed => rbSlot[s].gen <= rbGen[b]
      /\ b \in Unhealed /\ rbSlot[s].gen = rbGen[b] => rbSlot[s].ver \in Now(b)
  BY <1>0 DEF RebuildInv, Stamped, RebuildTypeOK, Stamps
<1>2. new \in Stamps /\ new.st = "releasing" /\ new.base = b /\ new.gen = rbSlot[s].gen
  BY <1>1 DEF Stamps
<1>3. rec \in Judges /\ rec.at = "take" /\ rec.reason = "job" /\ rec.now = 0 /\ rec.slot = s
  BY RebuildRecords DEF Judges, Errands, Resting
<1>4. rbSlot' = [rbSlot EXCEPT ![s] = new] /\ Put(t, rec)
  BY <1>0 DEF ReleaseFaulted, RebuildTypeOK
<1> HIDE DEF new, rec
<1>5. /\ rbSlot' \in [WarmSlots -> Stamps] /\ rbSlot'[s] = new
      /\ \A x \in WarmSlots : x # s => rbSlot'[x] = rbSlot[x]
  BY <1>0, <1>2, <1>4 DEF RebuildTypeOK
<1>6. /\ rbThread' \in [Threads -> Judges] /\ rbThread'[t] = rec
      /\ \A u \in Threads : u # t => rbThread'[u] = rbThread[u]
  BY <1>0, <1>3, <1>4, ThreadPut
<1>7. /\ rbFails' \in [Bases -> Nat] /\ rbPre' \in [Bases -> SUBSET WarmSlots]
      /\ rbFrom' \in [Bases -> SUBSET Nat]
      /\ \A c \in Bases : \/ rbFrom'[c] = rbFrom[c]
                          \/ /\ c = b /\ rbSlot[s].gen = rbGen[b]
                             /\ rbFrom'[c] = rbFrom[c] \cup {rbSlot[s].ver}
  <2>1. CASE ~Current(s)
    BY <1>0, <2>1 DEF CountCurrentFault, RebuildTypeOK
  <2>2. CASE Current(s)
    <3>1. /\ rbFails' = [rbFails EXCEPT ![b] = IF @ <= RebuildAfter THEN @ + 1 ELSE @]
          /\ rbPre' = IF preGuest THEN [rbPre EXCEPT ![b] = @ \cup {s}] ELSE rbPre
          /\ rbFrom' = [rbFrom EXCEPT ![b] = @ \cup {rbSlot[s].ver}]
      BY <1>0, <2>2 DEF CountCurrentFault, CountFault
    <3>2. rbFails[b] \in Nat
      BY <1>0, <1>1 DEF RebuildTypeOK
    <3>3. rbFails' \in [Bases -> Nat]
      BY <1>0, <1>1, <3>1, <3>2 DEF RebuildTypeOK
    <3>4. rbPre' \in [Bases -> SUBSET WarmSlots]
      BY <1>0, <1>1, <3>1 DEF RebuildTypeOK
    <3>5. rbSlot[s].gen = rbGen[b]
      BY <2>2 DEF Current
    <3>6. rbFrom' \in [Bases -> SUBSET Nat]
      BY <1>0, <1>1, <3>1 DEF RebuildTypeOK
    <3>7. \A c \in Bases : rbFrom'[c] = IF c = b THEN rbFrom[c] \cup {rbSlot[s].ver} ELSE rbFrom[c]
      BY <1>0, <3>1 DEF RebuildTypeOK
    <3> QED
      BY <3>3, <3>4, <3>5, <3>6, <3>7
  <2> QED
    BY <2>1, <2>2
<1>8. RebuildTypeOK'
  BY <1>0, <1>5, <1>6, <1>7 DEF RebuildTypeOK
<1>9. Stamped'
  BY <1>0, <1>1, <1>2, <1>5, StampedOne
<1>10. Booked'
  <2> SUFFICES ASSUME NEW c \in Bases, c \in Unhealed PROVE rbFrom'[c] \subseteq Now(c)
    BY <1>0 DEF Booked, Unhealed, Now
  <2>1. rbFrom[c] \subseteq Now(c)
    BY DEF RebuildInv, Booked
  <2> QED
    BY <1>1, <1>7, <2>1
<1>11. Reasons'
  <2>1. rbThread'["tick"] = rbThread["tick"]
    BY <1>0, <1>6, ThreadNames
  <2>2. ASSUME NEW u \in Releasers
        PROVE  /\ rbThread'[u].at # "idle" => rbThread'[u].reason = "job"
               /\ rbThread'[u].at \notin {"spawn", "spawn streak", "scope", "usable"}
               /\ rbThread'[u].at = "refused" => rbThread'[u].repaired = {}
               /\ rbThread'[u].at = "dropped" => rbThread'[u].repaired = {rbThread'[u].base}
    <3>1. CASE u = t
      BY <1>3, <1>6, <3>1
    <3>2. CASE u # t
      <4>1. rbThread'[u] = rbThread[u]
        BY <1>6, <3>2, ThreadNames
      <4> QED
        BY <2>2, <4>1 DEF RebuildInv, Reasons
    <3> QED
      BY <3>1, <3>2
  <2> QED
    BY <2>1, <2>2 DEF RebuildInv, Reasons
<1>12. Timed'
  BY <1>0, <1>3, <1>6 DEF RebuildInv, Timed, Holding, Repairing
<1>13. Working'
  <2>1. ASSUME NEW u \in Releasers, u # t, rbThread'[u].at # "idle"
        PROVE  /\ rbThread'[u] = rbThread[u] /\ rbThread[u].slot \in WarmSlots /\ rbThread[u].slot # s
               /\ rbSlot'[rbThread[u].slot] = rbSlot[rbThread[u].slot]
               /\ rbSlot[rbThread[u].slot].st = "releasing"
    <3>1. rbThread'[u] = rbThread[u]
      BY <1>6, <2>1, ThreadNames
    <3>2. rbThread[u].slot \in WarmSlots /\ rbSlot[rbThread[u].slot].st = "releasing"
      BY <2>1, <3>1 DEF RebuildInv, Working
    <3>3. rbThread[u].slot # s
      BY <1>0, <3>2
    <3> QED
      BY <1>5, <3>1, <3>2, <3>3
  <2>2. rbThread'[t].slot = s /\ rbSlot'[s].st = "releasing"
    BY <1>2, <1>3, <1>5, <1>6
  <2>3. \A u \in Releasers : rbThread'[u].at # "idle" =>
          rbThread'[u].slot \in WarmSlots /\ rbSlot'[rbThread'[u].slot].st = "releasing"
    BY <2>1, <2>2
  <2>4. ASSUME NEW u \in Releasers, NEW v \in Releasers, u # v, rbThread'[u].at # "idle", rbThread'[v].at # "idle"
        PROVE  rbThread'[u].slot # rbThread'[v].slot
    <3>1. CASE u # t /\ v # t
      <4>1. rbThread'[u] = rbThread[u] /\ rbThread'[v] = rbThread[v]
        BY <2>1, <2>4, <3>1
      <4> QED
        BY <2>4, <4>1 DEF RebuildInv, Working
    <3>2. CASE u = t \/ v = t
      BY <2>1, <2>2, <2>4, <3>2
    <3> QED
      BY <3>1, <3>2
  <2>5. ASSUME rbThread'["tick"].at = "spawn"
        PROVE  rbThread'["tick"].slot \in WarmSlots /\ rbSlot'[rbThread'["tick"].slot].st = "spawning"
    <3>1. rbThread'["tick"] = rbThread["tick"]
      BY <1>0, <1>6, ThreadNames
    <3>2. rbThread["tick"].slot \in WarmSlots /\ rbSlot[rbThread["tick"].slot].st = "spawning"
      BY <2>5, <3>1 DEF RebuildInv, Working
    <3>3. rbThread["tick"].slot # s
      BY <1>0, <3>2
    <3> QED
      BY <1>5, <3>1, <3>2, <3>3
  <2> QED
    BY <2>3, <2>4, <2>5 DEF Working
<1>14. Deserted'
  <2>1. rbThread'["tick"] = rbThread["tick"]
    BY <1>0, <1>6, ThreadNames
  <2>2. rbThread["tick"].at \notin {"stale", "lock"} \cup Repairing
    BY <1>0 DEF RebuildInv, Deserted
  <2> QED
    BY <2>1, <2>2 DEF Deserted
<1>15. rbThread[t].at \notin Repairing /\ rbThread'[t].at \notin Repairing /\ rbThread'[t].at \notin Holding
  BY <1>0, <1>3, <1>6 DEF Repairing, Holding
<1> QED
  BY <1>0, <1>6, <1>8, <1>9, <1>10, <1>11, <1>12, <1>13, <1>14, <1>15, QuietKept

LEMMA TakeRepairLockKept ==
  ASSUME RepairConstants, RebuildInv, NEW t \in Threads, TakeRepairLock(t)
  PROVE  RebuildInv'
<1> DEFINE r == rbThread[t]
<1>0. /\ RebuildTypeOK /\ r.at = "lock" /\ r \in Judges /\ rbLock = "nobody" /\ DecideUnderLock(t)
      /\ UNCHANGED <<rbNow, worldVars, rbGen, rbClean, rbSpawnFails, rbLastAt, rbLastIdents>>
      /\ UNCHANGED <<rbVer, rbBad, rbOwed, rbHealed, rbGuilty>>
  BY DEF RebuildInv, RebuildTypeOK, TakeRepairLock, At, worldVars
<1>1. /\ r.reason # "spawn" => t \in Releasers
      /\ t \in Releasers => r.base \in Bases /\ (r.base \in Unhealed => r.from \subseteq Now(r.base) \/ Passed(t))
  BY <1>0, ThreadNames DEF RebuildInv, Reasons, Handed, Holding
<1>2. CASE Cooling(t) \/ SucceededSince(t)
  <2>1. ReleaseEnds(t) /\ UNCHANGED rbLock
    BY <1>0, <1>2 DEF DecideUnderLock
  <2>2. CASE Cooling(t) /\ r.base \notin rbLastIdents
    <3>1. RestoreEpisode(t)
      BY <1>0, <2>2 DEF DecideUnderLock
    <3>2. r.reason # "spawn" => r.base \in Bases /\ (r.base \in Unhealed => r.from \subseteq Now(r.base))
      BY <1>1, <2>2 DEF Passed
    <3>3. /\ rbFails' \in [Bases -> Nat] /\ rbPre' \in [Bases -> SUBSET WarmSlots]
          /\ rbFrom' \in [Bases -> SUBSET Nat] /\ Booked'
      BY <1>0, <3>1, <3>2, RestoreKept
    <3>4. rbSpawnFails' \in Nat
      BY <1>0 DEF RebuildTypeOK
    <3> QED
      BY <1>0, <2>1, <3>3, <3>4, DismissedKept DEF Repairing
  <2>3. CASE ~(Cooling(t) /\ r.base \notin rbLastIdents)
    <3>1. UNCHANGED <<rbFails, rbPre, rbFrom>>
      BY <1>0, <2>3 DEF DecideUnderLock
    <3>2. /\ rbFails' \in [Bases -> Nat] /\ rbPre' \in [Bases -> SUBSET WarmSlots]
          /\ rbFrom' \in [Bases -> SUBSET Nat] /\ rbSpawnFails' \in Nat /\ Booked'
      BY <1>0, <3>1, BookedKept DEF RebuildTypeOK
    <3> QED
      BY <1>0, <2>1, <3>2, DismissedKept DEF Repairing
  <2> QED
    BY <2>2, <2>3
<1>3. CASE ~(Cooling(t) \/ SucceededSince(t))
  <2> DEFINE rec == [r EXCEPT !.at = "drop"]
  <2>1. /\ Put(t, rec) /\ rbLock' = t /\ UNCHANGED rbSlot /\ UNCHANGED <<rbFails, rbPre, rbFrom>>
    BY <1>0, <1>3 DEF DecideUnderLock, Go
  <2>2. "drop" \in Errands
    BY DEF Errands
  <2>3. /\ rec \in Judges /\ rec.at = "drop" /\ rec.slot = r.slot /\ rec.reason = r.reason
        /\ rec.now = r.now /\ rec.base = r.base /\ rec.from = r.from
    BY <1>0, <2>2, GoRecord
  <2> HIDE DEF rec
  <2>4. r.now > 0 /\ (t = "tick" => \A s \in WarmSlots : rbSlot[s].st \notin {"live", "releasing"})
    BY <1>0 DEF RebuildInv, Timed, Holding, Deserted
  <2>5. Continues(t, rec)
    BY <1>0, <2>3, <2>4 DEF Continues
  <2>6. /\ rbThread' \in [Threads -> Judges] /\ rbThread'[t] = rec
        /\ \A u \in Threads : u # t => rbThread'[u] = rbThread[u]
        /\ Reasons' /\ Timed' /\ Working' /\ Deserted'
    BY <1>0, <2>1, <2>3, <2>5, MoveKept
  <2>7. \A u \in Threads : rbThread[u].at \notin Repairing /\ (u # t => rbThread'[u].at \notin Repairing)
    BY <1>0, <2>6, LockFacts
  <2>8. RebuildTypeOK'
    BY <1>0, <2>1, <2>6 DEF RebuildTypeOK
  <2>9. LockHeld'
    <3>1. rbThread'[t].at \in Repairing
      BY <2>3, <2>6 DEF Repairing
    <3> QED
      BY <2>1, <2>7, <3>1 DEF LockHeld
  <2>10. \A u \in Threads, b \in Bases : ~Replacing(u, b) /\ ~Replacing(u, b)'
    BY <2>3, <2>6, <2>7 DEF Replacing, Repairing
  <2>11. Follows' /\ \A b \in Unhealed : rbVer[b] = rbGen[b]
    BY <1>0, <2>10 DEF RebuildInv, Follows, Unhealed
  <2>12. Stamped' /\ Booked'
    BY <1>0, <2>1, StampedKept, BookedKept
  <2>13. Cooled'
    BY <1>0, <1>3, <2>3, <2>6, <2>7 DEF Cooled, Cooling
  <2>14. ~Passed(t)
    <3>1. rbLastAt \in Nat /\ r.now \in Nat /\ MaxRepair \in Nat /\ Cooldown \in Nat /\ MaxRepair < Cooldown
      BY <1>0 DEF RebuildTypeOK, Judges, RepairConstants
    <3>2. rbLastAt > 0 => ~(r.now - rbLastAt < Cooldown)
      BY <1>3 DEF Cooling
    <3>3. rbLastAt > 0 => ~(r.now <= rbLastAt + MaxRepair)
      BY <3>1, <3>2
    <3> QED
      BY <3>3 DEF Passed
  <2>15. Handed'
    <3>1. ASSUME NEW u \in Releasers, rbThread'[u].at \in Holding
          PROVE  /\ rbThread'[u].base \in Bases
                 /\ rbThread'[u].base \in Unhealed' =>
                      /\ \/ rbThread'[u].from \subseteq {rbGen'[rbThread'[u].base], rbVer'[rbThread'[u].base]}
                         \/ Passed(u)'
                      /\ rbThread'[u].at \in {"drop", "refused"} =>
                           rbThread'[u].from \subseteq {rbVer'[rbThread'[u].base]}
      <4>0. Unhealed' = Unhealed
        BY <1>0 DEF Unhealed
      <4>1. CASE u = t
        <5>1. r.base \in Bases /\ (r.base \in Unhealed => r.from \subseteq Now(r.base))
          BY <1>1, <2>14, <3>1, <4>1
        <5> QED
          BY <1>0, <2>3, <2>6, <2>11, <4>0, <4>1, <5>1 DEF Now
      <4>2. CASE u # t
        <5>1. rbThread'[u] = rbThread[u] /\ rbThread[u].at \notin {"drop", "refused"}
          BY <2>6, <2>7, <4>2, ThreadNames DEF Repairing
        <5>2. Passed(u) => Passed(u)'
          BY <1>0, <5>1 DEF Passed
        <5>3. /\ rbThread[u].base \in Bases
              /\ rbThread[u].base \in Unhealed => rbThread[u].from \subseteq Now(rbThread[u].base) \/ Passed(u)
          BY <3>1, <5>1 DEF RebuildInv, Handed
        <5> QED
          BY <1>0, <4>0, <5>1, <5>2, <5>3 DEF Now
      <4> QED
        BY <4>1, <4>2
    <3> QED
      BY <3>1 DEF Handed, Now
  <2> QED
    BY <2>6, <2>8, <2>9, <2>11, <2>12, <2>13, <2>15 DEF RebuildInv
<1> QED
  BY <1>2, <1>3

\* The holder of the repair lock has the bases bs installed anew.
LEMMA ReplacedKept ==
  ASSUME RepairConstants, RebuildInv, NEW t \in Threads, rbThread[t].at = "drop",
         NEW rec \in Judges, Put(t, rec), Continues(t, rec),
         rec.at \in {"dropped", "refused"}, rec.base = rbThread[t].base, rec.from = rbThread[t].from,
         rec.now = rbThread[t].now,
         rbVer' \in [Bases -> Nat], rbBad' \in [Bases -> BOOLEAN], rbGuilty' \subseteq Bases,
         \A b \in Unhealed : rbVer'[b] = IF b \in rec.repaired THEN rbVer[b] + 1 ELSE rbVer[b],
         UNCHANGED <<rbNow, rbOwed, rbHealed, rbSlot, rbLock, bookVars>>
  PROVE  RebuildInv'
<1>0. /\ RebuildTypeOK /\ UNCHANGED <<rbGen, rbFails, rbPre, rbFrom, rbClean, rbSpawnFails, rbLastAt, rbLastIdents>>
      /\ Unhealed' = Unhealed /\ Unhealed \subseteq Bases
  BY DEF RebuildInv, bookVars, Unhealed
<1>1. /\ rbThread' \in [Threads -> Judges] /\ rbThread'[t] = rec
      /\ \A u \in Threads : u # t => rbThread'[u] = rbThread[u]
      /\ Reasons' /\ Timed' /\ Working' /\ Deserted'
  BY MoveKept
<1>2. RebuildTypeOK'
  BY <1>0, <1>1 DEF RebuildTypeOK
<1>3. /\ rbThread[t].at \in Repairing /\ rbThread'[t].at \in Repairing /\ rbLock = t
      /\ \A u \in Threads : u # t => rbThread[u].at \notin Repairing
  BY <1>1, LockFacts DEF Repairing
<1>4. LockHeld'
  BY <1>1, <1>3 DEF LockHeld
<1>5. Cooled'
  BY <1>0, <1>1, <1>3 DEF RebuildInv, Cooled, Cooling
<1>6. \A b \in Unhealed : rbVer[b] = rbGen[b] /\ rbGen[b] \in Nat
  <2>1. \A u \in Threads, b \in Bases : ~Replacing(u, b)
    BY <1>3 DEF Replacing, Repairing
  <2> QED
    BY <1>0, <2>1 DEF RebuildInv, Follows, RebuildTypeOK
<1>7. \A u \in Threads, b \in Bases : Replacing(u, b)' <=> u = t /\ b \in rec.repaired
  BY <1>1, <1>3 DEF Replacing, Repairing
<1>8. Follows'
  <2> SUFFICES ASSUME NEW b \in Unhealed
              PROVE  /\ (\A u \in Threads : ~Replacing(u, b)') => rbVer'[b] = rbGen'[b]
                     /\ (\E u \in Threads : Replacing(u, b)') => rbVer'[b] = rbGen'[b] + 1
    BY <1>0 DEF Follows
  <2> QED
    BY <1>0, <1>6, <1>7
<1>9. \A b \in Unhealed : Now(b) = {rbGen'[b]}
  BY <1>0, <1>6 DEF Now
<1>10. Stamped'
  <2> SUFFICES ASSUME NEW s \in WarmSlots, rbSlot[s].st # "free"
              PROVE  /\ rbSlot[s].base \in Bases
                     /\ rbSlot[s].base \in Unhealed =>
                          /\ rbSlot[s].gen <= rbGen[rbSlot[s].base]
                          /\ rbSlot[s].st = "live" /\ rbSlot[s].gen = rbGen[rbSlot[s].base] =>
                               rbSlot[s].ver \in {rbGen'[rbSlot[s].base], rbVer'[rbSlot[s].base]}
    BY <1>0 DEF Stamped, Now
  <2> QED
    BY <1>9 DEF RebuildInv, Stamped
<1>11. Booked'
  <2> SUFFICES ASSUME NEW b \in Unhealed PROVE rbFrom[b] \subseteq {rbGen'[b], rbVer'[b]}
    BY <1>0 DEF Booked, Now
  <2>1. rbFrom[b] \subseteq Now(b)
    BY DEF RebuildInv, Booked
  <2> QED
    BY <1>9, <2>1
<1>12. Handed'
  <2>1. ASSUME NEW u \in Releasers, rbThread'[u].at \in Holding
        PROVE  /\ rbThread'[u].base \in Bases
               /\ rbThread'[u].base \in Unhealed' =>
                    /\ \/ rbThread'[u].from \subseteq {rbGen'[rbThread'[u].base], rbVer'[rbThread'[u].base]}
                       \/ Passed(u)'
                    /\ rbThread'[u].at \in {"drop", "refused"} =>
                         rbThread'[u].from \subseteq {rbVer'[rbThread'[u].base]}
    <3>1. /\ rbThread'[u].base = rbThread[u].base /\ rbThread'[u].from = rbThread[u].from
          /\ rbThread'[u].now = rbThread[u].now /\ rbThread[u].at \in Holding
      BY <1>1, <2>1, ThreadNames DEF Holding, Repairing
    <3>2. Passed(u) => Passed(u)'
      BY <1>0, <3>1 DEF Passed
    <3>3. /\ rbThread[u].base \in Bases
          /\ rbThread[u].base \in Unhealed => rbThread[u].from \subseteq Now(rbThread[u].base) \/ Passed(u)
      BY <3>1 DEF RebuildInv, Handed
    <3>4. rbThread'[u].at \in {"drop", "refused"} /\ rbThread[u].base \in Unhealed =>
            rbThread[u].from \subseteq {rbVer'[rbThread[u].base]}
      <4>1. CASE u = t
        <5>1. rec.at = "refused" => rec.repaired = {}
          BY <4>1 DEF Continues
        <5>2. rbThread[u].base \in Unhealed => rbThread[u].from \subseteq {rbVer[rbThread[u].base]}
          BY <3>1, <4>1 DEF RebuildInv, Handed
        <5> QED
          BY <1>1, <4>1, <5>1, <5>2
      <4>2. CASE u # t
        BY <1>1, <1>3, <4>2, ThreadNames DEF Repairing
      <4> QED
        BY <4>1, <4>2
    <3> QED
      BY <1>0, <1>9, <3>1, <3>2, <3>3, <3>4
  <2> QED
    BY <2>1 DEF Handed, Now
<1> QED
  BY <1>1, <1>2, <1>4, <1>5, <1>8, <1>10, <1>11, <1>12 DEF RebuildInv

LEMMA InstalledFacts ==
  ASSUME RebuildTypeOK, NEW bs \in SUBSET Bases, Installed(bs)
  PROVE  /\ rbVer' \in [Bases -> Nat] /\ rbBad' \in [Bases -> BOOLEAN] /\ rbGuilty' \subseteq Bases
         /\ \A b \in Bases : rbVer'[b] = IF b \in bs THEN rbVer[b] + 1 ELSE rbVer[b]
BY DEF RebuildTypeOK, Installed

LEMMA DropBasesKept ==
  ASSUME RepairConstants, RebuildInv, NEW t \in Threads, DropBases(t)
  PROVE  RebuildInv'
<1> DEFINE r == rbThread[t]
<1>0. /\ RebuildTypeOK /\ r.at = "drop" /\ r \in Judges /\ Unhealed \subseteq Bases
      /\ UNCHANGED <<rbNow, rbOwed, rbHealed, rbPoisons, rbSlot, rbLock, bookVars>>
  BY DEF RebuildInv, RebuildTypeOK, DropBases, At, Unhealed
<1>1. /\ t \in Releasers => r.reason = "job" /\ r.base \in Bases
      /\ t \notin Releasers => t = "tick" /\ r.reason = "spawn"
      /\ r.now > 0
      /\ t = "tick" => \A s \in WarmSlots : rbSlot[s].st \notin {"live", "releasing"}
  BY <1>0, ThreadNames DEF RebuildInv, Reasons, Handed, Timed, Deserted, Holding, Repairing
<1>2. Targets(t) \in SUBSET Bases /\ (t \in Releasers => Targets(t) = {r.base} /\ ~Unnamed(t))
  <2>1. t \in Releasers => Targets(t) = {r.base} /\ ~Unnamed(t)
    BY <1>1 DEF Targets, Unnamed, About
  <2>2. t \notin Releasers => Targets(t) \in SUBSET Bases
    BY <1>0, <1>1 DEF Targets, About, RebuildTypeOK, Judges
  <2> QED
    BY <1>1, <2>1, <2>2
<1>3. ASSUME NEW pc \in {"dropped", "refused"}, NEW bs \in SUBSET Bases,
             Put(t, [r EXCEPT !.at = pc, !.repaired = bs]),
             t \in Releasers => (IF pc = "dropped" THEN bs = {r.base} ELSE bs = {}),
             rbVer' \in [Bases -> Nat], rbBad' \in [Bases -> BOOLEAN], rbGuilty' \subseteq Bases,
             \A b \in Unhealed : rbVer'[b] = IF b \in bs THEN rbVer[b] + 1 ELSE rbVer[b]
      PROVE  RebuildInv'
  <2> DEFINE rec == [r EXCEPT !.at = pc, !.repaired = bs]
  <2>1. /\ rec \in Judges /\ rec.at = pc /\ rec.slot = r.slot /\ rec.reason = r.reason
        /\ rec.base = r.base /\ rec.from = r.from /\ rec.now = r.now /\ rec.repaired = bs
    BY <1>0, <1>3 DEF Judges, Errands
  <2>2. Put(t, rec)
    BY <1>3
  <2> HIDE DEF rec
  <2>3. Continues(t, rec)
    BY <1>0, <1>1, <1>3, <2>1 DEF Continues
  <2> QED
    BY <1>0, <1>3, <2>1, <2>2, <2>3, ReplacedKept
<1>4. CASE /\ Installed(Targets(t)) /\ UNCHANGED rbDropFails
           /\ Put(t, [r EXCEPT !.at = "dropped", !.repaired = Targets(t)])
  BY <1>0, <1>2, <1>3, <1>4, InstalledFacts
<1>5. ASSUME NEW some \in SUBSET Targets(t), some # Targets(t), Installed(some),
             Put(t, [r EXCEPT !.at = "refused", !.repaired = some])
      PROVE  RebuildInv'
  <2>1. some \in SUBSET Bases /\ (t \in Releasers => some = {})
    BY <1>2, <1>5
  <2>2. /\ rbVer' \in [Bases -> Nat] /\ rbBad' \in [Bases -> BOOLEAN] /\ rbGuilty' \subseteq Bases
        /\ \A b \in Unhealed : rbVer'[b] = IF b \in some THEN rbVer[b] + 1 ELSE rbVer[b]
    BY <1>0, <1>5, <2>1, InstalledFacts
  <2> QED
    BY <1>3, <1>5, <2>1, <2>2
<1>6. ASSUME NEW done \in SUBSET rbHealed, Unnamed(t), UNCHANGED <<rbVer, rbBad, rbGuilty, rbDropFails>>,
             Put(t, [r EXCEPT !.at = "dropped", !.repaired = done])
      PROVE  RebuildInv'
  <2>1. done \in SUBSET Bases /\ t \notin Releasers /\ \A b \in Unhealed : b \notin done
    BY <1>0, <1>2, <1>6 DEF RebuildTypeOK, Unhealed
  <2>2. rbVer' \in [Bases -> Nat] /\ rbBad' \in [Bases -> BOOLEAN] /\ rbGuilty' \subseteq Bases
    BY <1>0, <1>6 DEF RebuildTypeOK
  <2> QED
    BY <1>3, <1>6, <2>1, <2>2
<1> QED
  BY <1>4, <1>5, <1>6 DEF DropBases

\* A repair is over: what it replaced is of the next generation.
LEMMA RepairOver ==
  ASSUME RepairConstants, RebuildInv, NEW t \in Threads, rbThread[t].at \in {"dropped", "refused"},
         ReleaseEnds(t), rbLock' = "nobody", UNCHANGED <<rbNow, worldVars, rbClean>>,
         rbGen' = [b \in Bases |-> IF b \in rbThread[t].repaired THEN rbGen[b] + 1 ELSE rbGen[b]],
         rbFails' \in [Bases -> Nat], rbPre' \in [Bases -> SUBSET WarmSlots],
         rbFrom' \in [Bases -> SUBSET Nat], rbSpawnFails' \in Nat,
         rbLastAt' \in Nat, rbLastIdents' \subseteq Bases,
         Booked',
         \A u \in Releasers : u # t /\ rbThread[u].at \in Holding =>
           /\ rbThread[u].base \in Bases
           /\ rbThread[u].base \in Unhealed =>
                \/ rbThread[u].from \subseteq {rbGen'[rbThread[u].base], rbVer'[rbThread[u].base]}
                \/ Passed(u)'
  PROVE  RebuildInv'
<1> DEFINE done == rbThread[t].repaired
<1>0. /\ RebuildTypeOK /\ UNCHANGED <<rbVer, rbBad, rbOwed, rbHealed, rbGuilty>>
      /\ Unhealed' = Unhealed /\ Unhealed \subseteq Bases /\ rbThread[t].at \notin {"idle", "spawn"}
  BY DEF RebuildInv, worldVars, Unhealed
<1>1. /\ rbThread' \in [Threads -> Judges] /\ rbSlot' \in [WarmSlots -> Stamps]
      /\ rbThread'[t].at = "idle" /\ rbThread'[t].repaired = {}
      /\ \A u \in Threads : u # t => rbThread'[u] = rbThread[u]
      /\ \A s \in WarmSlots : rbSlot'[s] = rbSlot[s] \/ rbSlot'[s].st = "free"
      /\ Reasons' /\ Timed' /\ Working' /\ Deserted'
  BY <1>0, EndsKept
<1>2. /\ rbGen' \in [Bases -> Nat] /\ \A b \in Bases : rbGen[b] \in Nat /\ rbGen'[b] \in Nat
      /\ \A b \in Bases : rbGen'[b] = IF b \in done THEN rbGen[b] + 1 ELSE rbGen[b]
  BY <1>0 DEF RebuildTypeOK
<1>3. RebuildTypeOK'
  BY <1>0, <1>1, <1>2 DEF RebuildTypeOK
<1>4. /\ \A u \in Threads : u # t => rbThread[u].at \notin Repairing
      /\ \A u \in Threads : rbThread'[u].at \notin Repairing /\ u # "nobody"
  <2>1. \A u \in Threads : u # t => rbThread[u].at \notin Repairing
    BY LockFacts DEF Repairing
  <2>2. rbThread'[t].at \notin Repairing
    BY <1>1 DEF Repairing
  <2> QED
    BY <1>1, <2>1, <2>2, ThreadNames
<1>5. LockHeld' /\ Cooled'
  BY <1>4 DEF LockHeld, Cooled
<1>6. \A u \in Threads, b \in Bases : (Replacing(u, b) <=> u = t /\ b \in done) /\ ~Replacing(u, b)'
  BY <1>4 DEF Replacing, Repairing
<1>7. Follows'
  <2> SUFFICES ASSUME NEW b \in Unhealed PROVE rbVer[b] = rbGen'[b]
    BY <1>0, <1>6 DEF Follows
  <2>1. b \in done => rbVer[b] = rbGen[b] + 1
    BY <1>0, <1>6 DEF RebuildInv, Follows
  <2>2. b \notin done => rbVer[b] = rbGen[b]
    BY <1>0, <1>6 DEF RebuildInv, Follows
  <2> QED
    BY <1>0, <1>2, <2>1, <2>2
<1>8. Stamped'
  <2>1. ASSUME NEW s \in WarmSlots, rbSlot'[s].st # "free"
        PROVE  /\ rbSlot'[s].base \in Bases
               /\ rbSlot'[s].base \in Unhealed' =>
                    /\ rbSlot'[s].gen <= rbGen'[rbSlot'[s].base]
                    /\ rbSlot'[s].st = "live" /\ rbSlot'[s].gen = rbGen'[rbSlot'[s].base] =>
                         rbSlot'[s].ver \in {rbGen'[rbSlot'[s].base], rbVer'[rbSlot'[s].base]}
    <3> DEFINE b == rbSlot[s].base
    <3>1. rbSlot'[s] = rbSlot[s] /\ rbSlot[s].gen \in Nat
      BY <1>0, <1>1, <2>1 DEF RebuildTypeOK, Stamps
    <3>2. /\ b \in Bases
          /\ b \in Unhealed => /\ rbSlot[s].gen <= rbGen[b]
                               /\ rbSlot[s].st = "live" /\ rbSlot[s].gen = rbGen[b] =>
                                    rbSlot[s].ver \in {rbGen[b], rbVer[b]}
      BY <2>1, <3>1 DEF RebuildInv, Stamped, Now
    <3>3. CASE b \in done
      <4>1. b \in Unhealed => rbSlot[s].gen < rbGen'[b]
        BY <1>2, <3>1, <3>2, <3>3
      <4> QED
        BY <1>0, <1>2, <3>1, <3>2, <4>1
    <3>4. CASE b \notin done
      BY <1>0, <1>2, <3>1, <3>2, <3>4
    <3> QED
      BY <3>3, <3>4
  <2> QED
    BY <2>1 DEF Stamped, Now
<1>9. Handed'
  <2>1. ASSUME NEW u \in Releasers, rbThread'[u].at \in Holding
        PROVE  /\ rbThread'[u].base \in Bases
               /\ rbThread'[u].base \in Unhealed' =>
                    /\ \/ rbThread'[u].from \subseteq {rbGen'[rbThread'[u].base], rbVer'[rbThread'[u].base]}
                       \/ Passed(u)'
                    /\ rbThread'[u].at \in {"drop", "refused"} =>
                         rbThread'[u].from \subseteq {rbVer'[rbThread'[u].base]}
    <3>1. u # t /\ rbThread'[u] = rbThread[u] /\ rbThread[u].at \notin {"drop", "refused"}
      BY <1>1, <1>4, <2>1, ThreadNames DEF Holding, Repairing
    <3> QED
      BY <1>0, <2>1, <3>1
  <2> QED
    BY <2>1 DEF Handed, Now
<1> QED
  BY <1>1, <1>3, <1>5, <1>7, <1>8, <1>9 DEF RebuildInv

\* While the tick repairs, no release is judged.
LEMMA TickAlone ==
  ASSUME RepairConstants, RebuildInv, rbThread["tick"].at \in Repairing
  PROVE  \A u \in Releasers : rbThread[u].at \notin Holding
<1>1. \A s \in WarmSlots : rbSlot[s].st # "releasing"
  BY DEF RebuildInv, Deserted
<1>2. \A u \in Releasers : rbThread[u].at = "idle"
  BY <1>1 DEF RebuildInv, Working
<1> QED
  BY <1>2 DEF Holding, Repairing

\* The evidence against what was replaced is void, the rest is as it was.
LEMMA BookedAnew ==
  ASSUME RebuildInv, UNCHANGED <<rbVer, rbHealed>>, NEW done, Void(done),
         rbGen' = [b \in Bases |-> IF b \in done THEN rbGen[b] + 1 ELSE rbGen[b]]
  PROVE  Booked'
<1> SUFFICES ASSUME NEW b \in Bases, b \in Unhealed PROVE rbFrom'[b] \subseteq {rbGen'[b], rbVer[b]}
  BY DEF Booked, Unhealed, Now
<1>1. rbFrom[b] \subseteq {rbGen[b], rbVer[b]}
  BY DEF RebuildInv, Booked, Now
<1>2. /\ b \in done => rbFrom'[b] = {}
      /\ b \notin done => rbFrom'[b] = rbFrom[b] /\ rbGen'[b] = rbGen[b]
  BY DEF Void
<1> QED
  BY <1>1, <1>2

LEMMA CommitKept ==
  ASSUME RepairConstants, RebuildInv, NEW t \in Threads, Commit(t)
  PROVE  RebuildInv'
<1> DEFINE r == rbThread[t]
           done == r.repaired
<1>0. /\ RebuildTypeOK /\ r.at = "dropped" /\ r.at \in Repairing /\ r \in Judges
      /\ ReleaseEnds(t) /\ rbLock' = "nobody" /\ UNCHANGED <<rbNow, worldVars, rbClean>>
      /\ UNCHANGED <<rbVer, rbHealed>> /\ Void(done) /\ Retire(done)
      /\ rbLastIdents' = done /\ rbLastAt' = r.now
  BY DEF RebuildInv, RebuildTypeOK, Commit, At, worldVars, Repairing
<1>1. /\ rbGen' = [b \in Bases |-> IF b \in done THEN rbGen[b] + 1 ELSE rbGen[b]]
      /\ rbPre' \in [Bases -> SUBSET WarmSlots]
  BY <1>0 DEF Retire, RebuildTypeOK
<1>2. /\ rbFails' \in [Bases -> Nat] /\ rbFrom' \in [Bases -> SUBSET Nat]
  BY <1>0, VoidKept
<1>3. rbSpawnFails' \in Nat /\ rbLastAt' \in Nat /\ rbLastIdents' \subseteq Bases
  BY <1>0 DEF Commit, RebuildTypeOK, Judges
<1>4. Booked'
  BY <1>0, <1>1, BookedAnew
<1>5. ASSUME NEW u \in Releasers, u # t, rbThread[u].at \in Holding
      PROVE  /\ rbThread[u].base \in Bases
             /\ rbThread[u].base \in Unhealed =>
                  \/ rbThread[u].from \subseteq {rbGen'[rbThread[u].base], rbVer'[rbThread[u].base]}
                  \/ Passed(u)'
  <2> DEFINE c == rbThread[u].base
  <2>0. /\ t # "tick" /\ t \in Releasers /\ u \in Threads /\ done = {r.base}
    <3>1. t # "tick"
      BY <1>0, <1>5, TickAlone
    <3> QED
      BY <1>0, <3>1, ThreadNames DEF RebuildInv, Reasons
  <2>1. c \in Bases /\ (c \in Unhealed => rbThread[u].from \subseteq {rbGen[c], rbVer[c]} \/ Passed(u))
    BY <1>5 DEF RebuildInv, Handed, Now
  <2>2. rbThread'[u] = rbThread[u]
    BY <1>0, <1>5, <2>0, RebuildRecords, ThreadPut DEF ReleaseEnds
  <2>3. /\ r.now > 0 /\ r.now <= rbNow /\ rbNow <= r.now + MaxRepair
        /\ rbThread[u].now > 0 /\ rbThread[u].now <= rbNow /\ rbNow <= rbThread[u].now + MaxRepair
    <3>1. r.now > 0 /\ rbThread[u].now > 0
      BY <1>0, <1>5, <2>0 DEF RebuildInv, Timed, Holding
    <3> QED
      BY <2>0, <3>1 DEF RebuildInv, Timed
  <2>4. /\ rbNow \in Nat /\ r.now \in Nat /\ rbThread[u].now \in Nat /\ rbLastAt \in Nat
        /\ MaxRepair \in Nat /\ Cooldown \in Nat
    BY <1>0, <2>0 DEF RebuildTypeOK, Judges, RepairConstants
  <2>5. CASE c = r.base
    <3>1. rbThread[u].now <= r.now + MaxRepair
      BY <2>3, <2>4
    <3> QED
      BY <1>0, <2>0, <2>1, <2>2, <2>3, <2>5, <3>1 DEF Passed
  <2>6. CASE c # r.base
    <3>1. rbGen'[c] = rbGen[c] /\ rbVer'[c] = rbVer[c]
      BY <1>0, <1>1, <2>0, <2>1, <2>6
    <3>2. r.base \in Bases /\ 2 * MaxRepair < Cooldown
      <4>1. r.base \in Bases
        BY <1>0, <2>0 DEF RebuildInv, Handed, Holding
      <4> QED
        BY <2>1, <2>6, <4>1 DEF RepairConstants
    <3>3. rbLastAt > 0 => ~(r.now - rbLastAt < Cooldown)
      BY <1>0 DEF RebuildInv, Cooled, Cooling
    <3>4. ASSUME rbLastAt > 0 PROVE ~(rbThread[u].now <= rbLastAt + MaxRepair)
      <4>1. rbLastAt + Cooldown <= r.now
        BY <2>4, <3>3, <3>4
      <4>2. r.now <= rbThread[u].now + MaxRepair
        BY <2>3, <2>4
      <4>3. 2 * MaxRepair = MaxRepair + MaxRepair
        BY <2>4
      <4> QED
        BY <2>4, <3>2, <4>1, <4>2, <4>3
    <3>5. ~Passed(u)
      BY <3>4 DEF Passed
    <3> QED
      BY <2>1, <3>1, <3>5
  <2> QED
    BY <2>5, <2>6
<1> QED
  BY <1>0, <1>1, <1>2, <1>3, <1>4, <1>5, RepairOver

LEMMA RepairFailedKept ==
  ASSUME RepairConstants, RebuildInv, NEW t \in Threads, RepairFailed(t)
  PROVE  RebuildInv'
<1> DEFINE r == rbThread[t]
           done == r.repaired
<1>0. /\ RebuildTypeOK /\ r.at = "refused" /\ r.at \in Repairing /\ r \in Judges
      /\ ReleaseEnds(t) /\ rbLock' = "nobody" /\ UNCHANGED <<rbNow, worldVars, rbClean>>
      /\ UNCHANGED <<rbVer, rbHealed>> /\ UNCHANGED <<rbSpawnFails, rbLastAt>>
      /\ rbGen' = [b \in Bases |-> IF b \in done THEN rbGen[b] + 1 ELSE rbGen[b]]
      /\ rbLastIdents' = rbLastIdents \cup done
  BY DEF RebuildInv, RebuildTypeOK, RepairFailed, At, worldVars, Repairing
<1>1. rbSpawnFails' \in Nat /\ rbLastAt' \in Nat /\ rbLastIdents' \subseteq Bases
  BY <1>0 DEF RebuildTypeOK, Judges
<1>2. CASE t = "tick"
  <2>1. /\ Void(done) /\ rbPre' = [b \in Bases |-> IF b \in done THEN {} ELSE rbPre[b]]
    BY <1>0, <1>2 DEF RepairFailed, RebuildInv, Reasons
  <2>2. /\ rbFails' \in [Bases -> Nat] /\ rbFrom' \in [Bases -> SUBSET Nat]
        /\ rbPre' \in [Bases -> SUBSET WarmSlots]
    BY <1>0, <2>1, VoidKept DEF RebuildTypeOK
  <2>3. Booked'
    BY <1>0, <2>1, BookedAnew
  <2>4. \A u \in Releasers : rbThread[u].at \notin Holding
    BY <1>0, <1>2, TickAlone
  <2> QED
    BY <1>0, <1>1, <2>2, <2>3, <2>4, RepairOver
<1>3. CASE t # "tick"
  <2>1. /\ t \in Releasers /\ r.reason = "job" /\ done = {} /\ RestoreEpisode(t) /\ r.base \in Bases
        /\ r.base \in Unhealed => r.from \subseteq {rbVer[r.base]}
    BY <1>0, <1>3, ThreadNames DEF RepairFailed, RebuildInv, Reasons, Handed, Holding
  <2>2. UNCHANGED rbGen /\ UNCHANGED rbLastIdents
    BY <1>0, <2>1 DEF RebuildTypeOK
  <2>3. r.base \in Unhealed => r.from \subseteq Now(r.base)
    BY <2>1 DEF Now
  <2>4. /\ rbFails' \in [Bases -> Nat] /\ rbPre' \in [Bases -> SUBSET WarmSlots]
        /\ rbFrom' \in [Bases -> SUBSET Nat] /\ Booked'
    BY <1>0, <2>1, <2>2, <2>3, RestoreKept
  <2>5. ASSUME NEW u \in Releasers, u # t, rbThread[u].at \in Holding
        PROVE  /\ rbThread[u].base \in Bases
               /\ rbThread[u].base \in Unhealed =>
                    \/ rbThread[u].from \subseteq {rbGen'[rbThread[u].base], rbVer'[rbThread[u].base]}
                    \/ Passed(u)'
    <3>1. rbThread'[u] = rbThread[u]
      BY <1>0, <2>5, RebuildRecords, ThreadPut, ThreadNames DEF ReleaseEnds
    <3>2. Passed(u) => Passed(u)'
      BY <1>0, <2>2, <3>1 DEF Passed
    <3> QED
      BY <1>0, <2>2, <2>5, <3>2 DEF RebuildInv, Handed, Now
  <2> QED
    BY <1>0, <1>1, <2>4, <2>5, RepairOver
<1> QED
  BY <1>2, <1>3

LEMMA RebuildStep ==
  ASSUME RepairConstants, RebuildInv, [RebuildNext]_rebuildVars
  PROVE  RebuildInv'
<1>1. ASSUME NEW t \in Threads, Judge(t) PROVE RebuildInv'
  BY <1>1, TakeEpisodeKept, CheckCoolingKept, CheckUsableKept, CheckStaleKept, TakeRepairLockKept,
     DropBasesKept, CommitKept, RepairFailedKept DEF Judge
<1>2. ASSUME NEW b \in Bases,
             BaseGoesBad(b) \/ RuntimeRepairs(b) \/ \E s \in WarmSlots : SpawnBegins(s, b)
      PROVE  RebuildInv'
  BY <1>2, WorldKept, SpawnBeginsKept
<1>3. ASSUME NEW t \in Releasers, NEW s \in WarmSlots,
             ReleaseServed(t, s) \/ \E preGuest \in BOOLEAN : ReleaseFaulted(t, s, preGuest)
      PROVE  RebuildInv'
  BY <1>3, ReleaseServedKept, ReleaseFaultedKept
<1>4. CASE ClockTicks \/ DrainRuntimeRepairs \/ SpawnReturns \/ RestoreFails \/ SpawnStreak \/ SpawnScope
  BY <1>4, ClockKept, RuntimeDrainKept, SpawnReturnsKept, RestoreFailsKept, SpawnStreakKept, SpawnScopeKept
<1>5. CASE UNCHANGED rebuildVars
  BY <1>5, RebuildStutters
<1> QED
  BY <1>1, <1>2, <1>3, <1>4, <1>5 DEF RebuildNext

\* Evidence condemns only what it is about: whatever is dropped on the word of a worker,
\* for any number of bases, slots and releases, was restored from the artifact that is
\* installed as the repair begins (or the runtime had replaced the base by itself).
THEOREM DropsAreEarned ==
  ASSUME RepairConstants
  PROVE  RebuildSpec => []DropIsEarned
<1>1. RebuildInv => DropIsEarned
  <2> SUFFICES ASSUME RebuildInv, NEW t \in Releasers, rbThread[t].at = "drop"
              PROVE  \/ rbThread[t].from \subseteq {rbVer[rbThread[t].base]}
                     \/ rbThread[t].base \in rbHealed
    BY DEF DropIsEarned, At
  <2> QED
    BY DEF RebuildInv, Handed, Holding, Repairing, Unhealed
<1> QED
  BY <1>1, RebuildStart, RebuildStep, PTL DEF RebuildSpec

===============================================================================
