------------------------------ MODULE TierProofs ------------------------------
(* Theorems about the runtimes that hand out what they have been given, and the *)
(* warm workers they hand it out for.                                           *)
(*                                                                              *)
(* StaticPool, for any fleet and any number of spawn threads: a box is leased   *)
(* once at a time and never lost, and the configuration fault speaks of the     *)
(* whole fleet.  Neither is inductive alone: what a spawn thread has read, and  *)
(* probed without the lock, has to be related to the books.                     *)
(*                                                                              *)
(* Cascade, for any tiers, capacities, spawn threads and slots, any failures,   *)
(* and any number of shutdowns: the room of every tier is exact, and a tier     *)
(* that waits for its verdict is never lost.                                    *)
(*                                                                              *)
(* WarmControl, for any slots, builds and invalidations, over files or vsock:   *)
(* only evidence convicts a base.  The capability has to be tied to the         *)
(* published artifact and every live slot to the artifact of its epoch.         *)
(*                                                                              *)
(* LibvirtVm, for any addresses, faults and crashes: guests stay contained, for *)
(* any number of slots where no rule fails to install and no overlay to be      *)
(* removed, and for one slot where they may.                                    *)
EXTENDS StaticPool, Cascade, WarmControl, LibvirtVm, FiniteSetTheorems, TLAPS

-------------------------------------------------------------------------------
\* The static fleet

Reasons == {"cooling", "unhealthy", "unknown", "noegress"}
Probing == {"next", "health", "egress", "take"}
Over == {"fault", "unhealthy", "wait"}
Thread == [pc : {"idle"} \cup Probing \cup Over, cand : SUBSET Boxes, cold : SUBSET Boxes,
           saw : SUBSET Reasons, box : SUBSET Boxes]

StatTypeOK ==
  /\ free \in SUBSET Boxes /\ burned \in SUBSET Boxes /\ cooling \in SUBSET Boxes
  /\ seen \in [Boxes -> {"unasked", "yes", "no"}]
  /\ lease \in [Boxes -> {"no", "new", "used", "twice"}]
  /\ thr \in [Spawners -> Thread]

\* A thread holds one box at a time, and only while it probes it.
Hands(t) ==
  /\ t.pc \notin Probing => t.cand = {} /\ t.box = {}
  /\ t.pc = "next" => t.box = {}
  /\ \A b, c \in t.box : b = c

\* The batch: no slot serves while a thread spawns, so what a thread read as free
\* cannot have been through a dirty run since, and what it probes does not cool.
Batch(t) ==
  /\ \A b \in t.cand \cup t.box : lease[b] # "used"
  /\ t.box \cap cooling = {}

\* What a miss without another reason says of the fleet: every box that is not
\* burned out has been asked, or is still to be asked by this thread.
Asks(t) ==
  /\ t.pc = "egress" \/ "noegress" \in t.saw => NeedsEgress
  /\ NeedsEgress /\ t.pc = "take" => \A b \in t.box : seen[b] # "unasked"
  /\ NeedsEgress /\ t.pc \in Probing /\ t.saw \subseteq {"noegress"} =>
       \A b \in Boxes \ (burned \cup t.cand \cup t.box) : seen[b] # "unasked"

LeasedAsked == \A b \in Boxes : NeedsEgress /\ lease[b] # "no" => seen[b] # "unasked"

ThreadsOK == \A x \in Spawners : Hands(thr[x]) /\ Batch(thr[x]) /\ Asks(thr[x])

StatInv == StatTypeOK /\ BoxesConserved /\ LeasedAsked /\ ThreadsOK

-------------------------------------------------------------------------------
\* At the start every box is free and nobody spawns.
LEMMA StatInitially == StatInit => StatInv
<1> SUFFICES ASSUME StatInit PROVE StatInv
  OBVIOUS
<1> USE DEF StatInit, NoSpawn
<1>1. StatTypeOK
  BY DEF StatTypeOK, Thread
<1>2. BoxesConserved /\ LeasedAsked
  BY DEF BoxesConserved, LeasedAsked
<1>3. ThreadsOK
  BY DEF ThreadsOK, Hands, Batch, Asks, Probing
<1>4. QED
  BY <1>1, <1>2, <1>3 DEF StatInv

\* What is known of a thread that is at work.
LEMMA InHand ==
  ASSUME StatInv, NEW x \in Spawners
  PROVE  thr[x] \in Thread /\ Hands(thr[x]) /\ Batch(thr[x]) /\ Asks(thr[x])
  BY DEF StatInv, StatTypeOK, ThreadsOK

\* A step of one thread, which may learn what a box answers.
LEMMA OneThread ==
  ASSUME StatInv, NEW x \in Spawners, NEW r \in Thread,
         thr' = [thr EXCEPT ![x] = r], UNCHANGED <<free, burned, cooling, lease>>,
         seen' \in [Boxes -> {"unasked", "yes", "no"}],
         \A b \in Boxes : seen'[b] = seen[b] \/ seen'[b] # "unasked",
         Hands(r),
         \A b \in r.cand \cup r.box : lease[b] # "used",
         r.box \cap cooling = {},
         r.pc = "egress" \/ "noegress" \in r.saw => NeedsEgress,
         NeedsEgress /\ r.pc = "take" => \A b \in r.box : seen'[b] # "unasked",
         NeedsEgress /\ r.pc \in Probing /\ r.saw \subseteq {"noegress"} =>
           \A b \in Boxes \ (burned \cup r.cand \cup r.box) : seen'[b] # "unasked"
  PROVE StatInv'
<1> USE DEF StatInv
<1>1. thr'[x] = r /\ \A y \in Spawners \ {x} : thr'[y] = thr[y]
  BY DEF StatTypeOK
<1>2. StatTypeOK'
  BY DEF StatTypeOK
<1>3. BoxesConserved' /\ LeasedAsked'
  BY DEF BoxesConserved, LeasedAsked, StatTypeOK
<1>4. ASSUME NEW y \in Spawners PROVE Hands(thr[y])' /\ Batch(thr[y])' /\ Asks(thr[y])'
  <2>1. CASE y = x
    BY <1>1, <2>1 DEF Hands, Batch, Asks
  <2>2. CASE y # x
    <3>1. Hands(thr[y]) /\ Batch(thr[y]) /\ Asks(thr[y]) /\ thr[y] \in Thread
      BY DEF ThreadsOK, StatTypeOK
    <3>2. thr'[y] = thr[y]
      BY <1>1, <2>2
    <3>3. Hands(thr[y])' /\ Batch(thr[y])'
      BY <3>1, <3>2 DEF Hands, Batch
    <3>4. Asks(thr[y])'
      BY <3>1, <3>2 DEF Asks, Thread
    <3>5. QED
      BY <3>3, <3>4
  <2>3. QED
    BY <2>1, <2>2
<1>5. ThreadsOK'
  BY <1>4 DEF ThreadsOK
<1>6. QED
  BY <1>2, <1>3, <1>5

\* The free boxes are read: all others have been leased once, hence asked.
LEMMA ReadsKept ==
  ASSUME StatInv, NEW x \in Spawners, SpawnReads(x)
  PROVE  StatInv'
<1> DEFINE r == [NoSpawn EXCEPT !.pc = "next", !.cand = free, !.cold = cooling]
<1>1. r \in Thread /\ r.pc = "next" /\ r.cand = free /\ r.box = {} /\ r.saw = {}
  BY DEF StatInv, StatTypeOK, Thread, NoSpawn, Probing
<1>2. thr' = [thr EXCEPT ![x] = r] /\ UNCHANGED <<free, burned, cooling, seen, lease>>
  BY DEF SpawnReads
<1> HIDE DEF r
<1>3. Hands(r) /\ \A b \in r.cand \cup r.box : lease[b] # "used"
  BY <1>1 DEF Hands, Probing, StatInv, StatTypeOK, BoxesConserved
<1>4. \A b \in Boxes \ (burned \cup r.cand \cup r.box) : NeedsEgress => seen'[b] # "unasked"
  BY <1>1, <1>2 DEF StatInv, BoxesConserved, LeasedAsked
<1> QED
  BY <1>1, <1>2, <1>3, <1>4, OneThread DEF StatInv, StatTypeOK

\* A candidate is passed over for its cooldown, or probed.
LEMMA NextKept ==
  ASSUME StatInv, NEW x \in Spawners, SpawnNext(x)
  PROVE  StatInv'
<1>0. thr[x] \in Thread /\ Hands(thr[x]) /\ Batch(thr[x]) /\ Asks(thr[x])
  BY InHand
<1>1. PICK b \in thr[x].cand :
        IF b \in thr[x].cold \cup cooling
          THEN thr' = [thr EXCEPT ![x].cand = @ \ {b}, ![x].saw = @ \cup {"cooling"}]
          ELSE thr' = [thr EXCEPT ![x].cand = @ \ {b}, ![x].pc = "health", ![x].box = {b}]
  BY DEF SpawnNext
<1>2. thr[x].pc = "next" /\ UNCHANGED <<free, burned, cooling, seen, lease>>
  BY DEF SpawnNext, TAt
<1>3. CASE b \in thr[x].cold \cup cooling
  <2> DEFINE r == [thr[x] EXCEPT !.cand = @ \ {b}, !.saw = @ \cup {"cooling"}]
  <2>1. thr' = [thr EXCEPT ![x] = r]
    BY <1>1, <1>3 DEF StatInv, StatTypeOK
  <2>2. r \in Thread /\ r.pc = "next" /\ r.cand = thr[x].cand \ {b} /\ r.box = thr[x].box
        /\ r.saw = thr[x].saw \cup {"cooling"}
    BY <1>0, <1>2 DEF Thread, Reasons
  <2> HIDE DEF r
  <2>3. Hands(r) /\ (\A c \in r.cand \cup r.box : lease[c] # "used") /\ r.box \cap cooling = {}
    BY <1>0, <1>2, <2>2 DEF Hands, Batch, Probing
  <2>4. "noegress" \in r.saw => NeedsEgress
    BY <1>0, <2>2 DEF Asks
  <2>5. ~(r.saw \subseteq {"noegress"})
    BY <2>2
  <2> QED
    BY <1>2, <2>1, <2>2, <2>3, <2>4, <2>5, OneThread DEF StatInv, StatTypeOK
<1>4. CASE b \notin thr[x].cold \cup cooling
  <2> DEFINE r == [thr[x] EXCEPT !.cand = @ \ {b}, !.pc = "health", !.box = {b}]
  <2>1. thr' = [thr EXCEPT ![x] = r]
    BY <1>1, <1>4 DEF StatInv, StatTypeOK
  <2>2. r \in Thread /\ r.pc = "health" /\ r.cand = thr[x].cand \ {b} /\ r.box = {b}
        /\ r.saw = thr[x].saw
    BY <1>0, <1>1 DEF Thread, Probing
  <2> HIDE DEF r
  <2>3. Hands(r) /\ (\A c \in r.cand \cup r.box : lease[c] # "used") /\ r.box \cap cooling = {}
    BY <1>0, <1>1, <1>4, <2>2 DEF Hands, Batch, Probing
  <2>4. "noegress" \in r.saw => NeedsEgress
    BY <1>0, <2>2 DEF Asks
  <2>5. NeedsEgress /\ r.saw \subseteq {"noegress"} =>
          \A c \in Boxes \ (burned \cup r.cand \cup r.box) : seen'[c] # "unasked"
    BY <1>0, <1>1, <1>2, <2>2 DEF Asks, Probing, Hands
  <2> QED
    BY <1>2, <2>1, <2>2, <2>3, <2>4, <2>5, OneThread DEF StatInv, StatTypeOK
<1> QED
  BY <1>3, <1>4

\* The probe is over without a lease, for a reason that is not the egress.
LEMMA SawKept ==
  ASSUME StatInv, NEW x \in Spawners, NEW why \in {"unhealthy", "unknown"}, Saw(x, why),
         thr[x].pc \in Probing, UNCHANGED <<free, burned, cooling, seen, lease>>
  PROVE  StatInv'
<1>0. thr[x] \in Thread /\ Hands(thr[x]) /\ Batch(thr[x]) /\ Asks(thr[x])
  BY InHand
<1> DEFINE r == [thr[x] EXCEPT !.pc = "next", !.box = {}, !.saw = @ \cup {why}]
<1>1. thr' = [thr EXCEPT ![x] = r]
  BY DEF Saw, StatInv, StatTypeOK
<1>2. r \in Thread /\ r.pc = "next" /\ r.cand = thr[x].cand /\ r.box = {}
      /\ r.saw = thr[x].saw \cup {why}
  BY <1>0 DEF Thread, Reasons, Probing
<1> HIDE DEF r
<1>3. Hands(r) /\ (\A c \in r.cand \cup r.box : lease[c] # "used") /\ r.box \cap cooling = {}
  BY <1>0, <1>2 DEF Hands, Batch, Probing
<1>4. ("noegress" \in r.saw => NeedsEgress) /\ ~(r.saw \subseteq {"noegress"})
  BY <1>0, <1>2 DEF Asks
<1> QED
  BY <1>1, <1>2, <1>3, <1>4, OneThread DEF StatInv, StatTypeOK

\* The health probe.
LEMMA HealthKept ==
  ASSUME StatInv, NEW x \in Spawners, ProbeHealth(x)
  PROVE  StatInv'
<1>0. thr[x] \in Thread /\ Hands(thr[x]) /\ Batch(thr[x]) /\ Asks(thr[x])
  BY InHand
<1>1. thr[x].pc = "health" /\ UNCHANGED <<free, burned, cooling, seen, lease>>
  BY DEF ProbeHealth, TAt
<1>2. CASE thr' = [thr EXCEPT ![x].pc = IF NeedsEgress THEN "egress" ELSE "take"]
  <2> DEFINE r == [thr[x] EXCEPT !.pc = IF NeedsEgress THEN "egress" ELSE "take"]
  <2>1. thr' = [thr EXCEPT ![x] = r]
    BY <1>2 DEF StatInv, StatTypeOK
  <2>2. r \in Thread /\ r.pc = (IF NeedsEgress THEN "egress" ELSE "take")
        /\ r.cand = thr[x].cand /\ r.box = thr[x].box /\ r.saw = thr[x].saw
    BY <1>0 DEF Thread, Probing
  <2> HIDE DEF r
  <2>3. Hands(r) /\ (\A c \in r.cand \cup r.box : lease[c] # "used") /\ r.box \cap cooling = {}
    BY <1>0, <2>2 DEF Hands, Batch, Probing
  <2>4. (r.pc = "egress" \/ "noegress" \in r.saw => NeedsEgress)
        /\ ~(NeedsEgress /\ r.pc = "take")
    BY <1>0, <2>2 DEF Asks
  <2>5. NeedsEgress /\ r.saw \subseteq {"noegress"} =>
          \A c \in Boxes \ (burned \cup r.cand \cup r.box) : seen'[c] # "unasked"
    BY <1>0, <1>1, <2>2 DEF Asks, Probing
  <2> QED
    BY <1>1, <2>1, <2>2, <2>3, <2>4, <2>5, OneThread DEF StatInv, StatTypeOK
<1>3. CASE Saw(x, "unhealthy") \/ Saw(x, "unknown")
  BY <1>1, <1>3, SawKept DEF Probing
<1> QED
  BY <1>2, <1>3 DEF ProbeHealth

\* The egress probe, whose answer is remembered.
LEMMA EgressKept ==
  ASSUME StatInv, NEW x \in Spawners, ProbeEgress(x)
  PROVE  StatInv'
<1>0. thr[x] \in Thread /\ Hands(thr[x]) /\ Batch(thr[x]) /\ Asks(thr[x])
  BY InHand
<1>1. thr[x].pc = "egress" /\ NeedsEgress /\ UNCHANGED <<free, burned, cooling, lease>>
  BY <1>0 DEF ProbeEgress, TAt, Asks
<1>2. PICK b \in thr[x].box :
       \/ /\ seen' = [seen EXCEPT ![b] = "yes"]
          /\ thr' = [thr EXCEPT ![x].pc = "take"]
       \/ seen' = [seen EXCEPT ![b] = "no"] /\ Saw(x, "noegress")
       \/ Saw(x, "unknown") /\ UNCHANGED seen
  BY DEF ProbeEgress
<1>3. b \in Boxes /\ \A c \in thr[x].box : c = b
  BY <1>0, <1>2 DEF Thread, Hands
<1>4. CASE seen' = [seen EXCEPT ![b] = "yes"] /\ thr' = [thr EXCEPT ![x].pc = "take"]
  <2> DEFINE r == [thr[x] EXCEPT !.pc = "take"]
  <2>1. thr' = [thr EXCEPT ![x] = r]
    BY <1>4 DEF StatInv, StatTypeOK
  <2>2. r \in Thread /\ r.pc = "take" /\ r.cand = thr[x].cand /\ r.box = thr[x].box
        /\ r.saw = thr[x].saw
    BY <1>0 DEF Thread, Probing
  <2>3. /\ seen' \in [Boxes -> {"unasked", "yes", "no"}] /\ seen'[b] # "unasked"
        /\ \A c \in Boxes : seen'[c] = seen[c] \/ seen'[c] # "unasked"
    BY <1>3, <1>4 DEF StatInv, StatTypeOK
  <2> HIDE DEF r
  <2>4. Hands(r) /\ (\A c \in r.cand \cup r.box : lease[c] # "used") /\ r.box \cap cooling = {}
    BY <1>0, <2>2 DEF Hands, Batch, Probing
  <2>5. \A c \in r.box : seen'[c] # "unasked"
    BY <1>3, <2>2, <2>3
  <2>6. r.saw \subseteq {"noegress"} =>
          \A c \in Boxes \ (burned \cup r.cand \cup r.box) : seen'[c] # "unasked"
    BY <1>0, <1>1, <2>2, <2>3 DEF Asks, Probing
  <2> QED
    BY <1>1, <2>1, <2>2, <2>3, <2>4, <2>5, <2>6, OneThread
<1>5. CASE seen' = [seen EXCEPT ![b] = "no"] /\ Saw(x, "noegress")
  <2> DEFINE r == [thr[x] EXCEPT !.pc = "next", !.box = {}, !.saw = @ \cup {"noegress"}]
  <2>1. thr' = [thr EXCEPT ![x] = r]
    BY <1>5 DEF Saw, StatInv, StatTypeOK
  <2>2. r \in Thread /\ r.pc = "next" /\ r.cand = thr[x].cand /\ r.box = {}
        /\ r.saw = thr[x].saw \cup {"noegress"}
    BY <1>0 DEF Thread, Probing, Reasons
  <2>3. /\ seen' \in [Boxes -> {"unasked", "yes", "no"}] /\ seen'[b] # "unasked"
        /\ \A c \in Boxes : seen'[c] = seen[c] \/ seen'[c] # "unasked"
    BY <1>3, <1>5 DEF StatInv, StatTypeOK
  <2> HIDE DEF r
  <2>4. Hands(r) /\ (\A c \in r.cand \cup r.box : lease[c] # "used") /\ r.box \cap cooling = {}
    BY <1>0, <2>2 DEF Hands, Batch, Probing
  <2>5. r.saw \subseteq {"noegress"} =>
          \A c \in Boxes \ (burned \cup r.cand \cup r.box) : seen'[c] # "unasked"
    <3> SUFFICES ASSUME r.saw \subseteq {"noegress"}, NEW c \in Boxes,
                        c \notin burned \cup r.cand
                 PROVE  seen'[c] # "unasked"
      OBVIOUS
    <3>1. CASE c = b
      BY <2>3, <3>1
    <3>2. CASE c # b
      BY <1>0, <1>1, <1>3, <2>2, <2>3, <3>2 DEF Asks, Probing
    <3> QED
      BY <3>1, <3>2
  <2> QED
    BY <1>1, <2>1, <2>2, <2>3, <2>4, <2>5, OneThread
<1>6. CASE Saw(x, "unknown") /\ UNCHANGED seen
  BY <1>1, <1>6, SawKept DEF Probing
<1> QED
  BY <1>2, <1>4, <1>5, <1>6

\* The lease, or its loss to another thread.
LEMMA TakeKept ==
  ASSUME StatInv, NEW x \in Spawners, Take(x)
  PROVE  StatInv'
<1>0. thr[x] \in Thread /\ Hands(thr[x]) /\ Batch(thr[x]) /\ Asks(thr[x])
  BY InHand
<1>1. thr[x].pc = "take" /\ UNCHANGED <<burned, cooling, seen>>
  BY DEF Take, TAt
<1>2. PICK b \in thr[x].box :
       IF b \in free
         THEN /\ free' = free \ {b}
              /\ lease' = [lease EXCEPT ![b] = IF @ = "no" THEN "new" ELSE "twice"]
              /\ thr' = [thr EXCEPT ![x] = NoSpawn]
         ELSE /\ thr' = [thr EXCEPT ![x].pc = "next", ![x].box = {}]
              /\ UNCHANGED <<free, lease>>
  BY DEF Take
<1>3. b \in Boxes /\ (\A c \in thr[x].box : c = b) /\ b \notin cooling
      /\ (NeedsEgress => seen[b] # "unasked")
  BY <1>0, <1>1, <1>2 DEF Thread, Hands, Batch, Asks
<1>4. CASE b \in free
  <2>1. lease[b] = "no" /\ b \notin burned
    BY <1>3, <1>4 DEF StatInv, BoxesConserved
  <2>2. /\ free' = free \ {b} /\ lease' = [lease EXCEPT ![b] = "new"]
        /\ thr' = [thr EXCEPT ![x] = NoSpawn]
    BY <1>2, <1>3, <1>4, <2>1
  <2>3. NoSpawn \in Thread /\ Hands(NoSpawn) /\ NoSpawn.cand = {} /\ NoSpawn.box = {}
        /\ NoSpawn.pc = "idle" /\ NoSpawn.saw = {}
    BY DEF NoSpawn, Thread, Hands, Probing
  <2>4. StatTypeOK'
    BY <1>1, <2>2, <2>3 DEF StatInv, StatTypeOK
  <2>5. BoxesConserved' /\ LeasedAsked'
    BY <1>1, <1>3, <2>1, <2>2 DEF StatInv, StatTypeOK, BoxesConserved, LeasedAsked
  <2>6. ASSUME NEW y \in Spawners PROVE Hands(thr[y])' /\ Batch(thr[y])' /\ Asks(thr[y])'
    <3>1. CASE y = x
      <4>1. thr'[y] = NoSpawn
        BY <2>2, <3>1 DEF StatInv, StatTypeOK
      <4> QED
        BY <2>3, <4>1 DEF Hands, Batch, Asks, Probing
    <3>2. CASE y # x
      <4>1. thr'[y] = thr[y] /\ thr[y] \in Thread
        BY <2>2, <3>2 DEF StatInv, StatTypeOK
      <4>2. Hands(thr[y]) /\ Batch(thr[y]) /\ Asks(thr[y])
        BY InHand
      <4>3. \A c \in Boxes : lease'[c] = "used" => lease[c] = "used"
        BY <2>2 DEF StatInv, StatTypeOK
      <4> QED
        BY <1>1, <4>1, <4>2, <4>3 DEF Hands, Batch, Asks, Thread
    <3> QED
      BY <3>1, <3>2
  <2> QED
    BY <2>4, <2>5, <2>6 DEF StatInv, ThreadsOK
<1>5. CASE b \notin free
  <2> DEFINE r == [thr[x] EXCEPT !.pc = "next", !.box = {}]
  <2>1. thr' = [thr EXCEPT ![x] = r] /\ UNCHANGED <<free, lease>>
    BY <1>2, <1>5 DEF StatInv, StatTypeOK
  <2>2. r \in Thread /\ r.pc = "next" /\ r.cand = thr[x].cand /\ r.box = {} /\ r.saw = thr[x].saw
    BY <1>0 DEF Thread, Probing
  <2> HIDE DEF r
  <2>3. Hands(r) /\ (\A c \in r.cand \cup r.box : lease[c] # "used") /\ r.box \cap cooling = {}
    BY <1>0, <2>2 DEF Hands, Batch, Probing
  <2>4. "noegress" \in r.saw => NeedsEgress
    BY <1>0, <2>2 DEF Asks
  <2>5. NeedsEgress /\ r.saw \subseteq {"noegress"} =>
          \A c \in Boxes \ (burned \cup r.cand \cup r.box) : seen'[c] # "unasked"
    BY <1>0, <1>1, <1>3, <2>2 DEF Asks, Probing
  <2> QED
    BY <1>1, <2>1, <2>2, <2>3, <2>4, <2>5, OneThread DEF StatInv, StatTypeOK
<1> QED
  BY <1>4, <1>5

\* spawn() raises, or its caller goes on.
LEMMA RaisesKept ==
  ASSUME StatInv, NEW x \in Spawners, SpawnRaises(x) \/ SpawnReturns(x)
  PROVE  StatInv'
<1>1. PICK p \in Over \cup {"idle"} : thr' = [thr EXCEPT ![x] = [NoSpawn EXCEPT !.pc = p]]
  <2>1. NoSpawn = [NoSpawn EXCEPT !.pc = "idle"]
    BY DEF NoSpawn
  <2>2. Verdict(x) \in Over
    BY DEF Verdict, Over
  <2> QED
    BY <2>1, <2>2 DEF SpawnRaises, SpawnReturns
<1> DEFINE r == [NoSpawn EXCEPT !.pc = p]
<1>2. r \in Thread /\ r.pc = p /\ r.cand = {} /\ r.box = {} /\ r.saw = {}
  BY DEF NoSpawn, Thread
<1> HIDE DEF r
<1>3. Hands(r) /\ r.pc \notin Probing
  BY <1>2 DEF Hands, Over, Probing
<1>4. UNCHANGED <<free, burned, cooling, seen, lease>>
  BY DEF SpawnRaises, SpawnReturns
<1>5. thr' = [thr EXCEPT ![x] = r]
  BY <1>1 DEF r
<1> QED
  BY <1>2, <1>3, <1>4, <1>5, OneThread DEF StatInv, StatTypeOK, Probing

\* A step of the pool or of the clock touches no thread.
LEMMA BoxKept ==
  ASSUME StatInv, NEW b \in Boxes,
         \/ SlotServes(b) \/ BurnOut(b) \/ CoolsDown(b)
         \/ \E dirty \in BOOLEAN : Reap(b, dirty)
  PROVE  StatInv'
<1>1. CASE SlotServes(b)
  BY <1>1 DEF SlotServes, StatInv, StatTypeOK, Thread, Probing, ThreadsOK, Hands, Batch, Asks,
              LeasedAsked, BoxesConserved, TAt
<1>2. CASE BurnOut(b)
  BY <1>2 DEF BurnOut, StatInv, StatTypeOK, Thread, Probing, ThreadsOK, Hands, Batch, Asks,
              LeasedAsked, BoxesConserved
<1>3. CASE CoolsDown(b)
  BY <1>3 DEF CoolsDown, StatInv, StatTypeOK, Thread, Probing, ThreadsOK, Hands, Batch, Asks,
              LeasedAsked, BoxesConserved
<1>4. ASSUME NEW dirty \in BOOLEAN, Reap(b, dirty) PROVE StatInv'
  BY <1>4 DEF Reap, StatInv, StatTypeOK, Thread, Probing, ThreadsOK, Hands, Batch, Asks,
              LeasedAsked, BoxesConserved
<1> QED
  BY <1>1, <1>2, <1>3, <1>4

\* Every step keeps the invariant.
LEMMA StatStepwise == StatInv /\ [StatNext]_statVars => StatInv'
<1> SUFFICES ASSUME StatInv, [StatNext]_statVars PROVE StatInv'
  OBVIOUS
<1>1. CASE UNCHANGED statVars
  BY <1>1 DEF statVars, StatInv, StatTypeOK, ThreadsOK, Hands, Batch, Asks, LeasedAsked,
              BoxesConserved
<1>2. CASE StatNext
  BY <1>2, ReadsKept, NextKept, HealthKept, EgressKept, TakeKept, RaisesKept, BoxKept
     DEF StatNext
<1> QED
  BY <1>1, <1>2

-------------------------------------------------------------------------------
\* A configured box is free, leased to one slot or burned out, and it is not leased
\* while it cools down after a dirty run, however spawns, reaps and convictions
\* interleave. (static_pool.py, spawn 439-514, reap 594-609, burn_out 576-592)
THEOREM BoxesStay == StatSpec => []BoxesConserved
<1>1. StatInv => BoxesConserved
  BY DEF StatInv
<1> QED
  BY <1>1, StatInitially, StatStepwise, PTL DEF StatSpec

\* spawn() raises the configuration fault only if every box that is not burned out
\* has answered that it has no egress; one it could not ask makes the miss
\* transient. (static_pool.py, spawn 515-536)
THEOREM NoEgressProved == StatSpec => [][NoEgressIsFleetWide]_statVars
<1>1. StatInv /\ [StatNext]_statVars => [NoEgressIsFleetWide]_statVars
  <2> SUFFICES ASSUME StatInv, StatNext, NEW x \in Spawners, ~TAt(x, "fault"), TAt(x, "fault")',
                      NEW b \in Boxes \ burned
               PROVE  seen[b] = "no"
    BY DEF NoEgressIsFleetWide
  <2>0. thr[x] \in Thread /\ Hands(thr[x]) /\ Asks(thr[x])
    BY InHand
  <2>1. SpawnRaises(x)
    <3>0. thr \in [Spawners -> Thread]
      BY DEF StatInv, StatTypeOK
    <3>1. thr'[x] # thr[x] /\ thr'[x].pc = "fault"
      BY DEF TAt
    <3>2. PICK y \in Spawners :
            \/ SpawnReads(y) \/ SpawnNext(y) \/ ProbeHealth(y) \/ ProbeEgress(y)
            \/ Take(y) \/ SpawnRaises(y) \/ SpawnReturns(y)
      BY <3>1 DEF StatNext, SlotServes, BurnOut, CoolsDown, Reap
    <3>3. y = x
      BY <3>0, <3>1, <3>2 DEF SpawnReads, SpawnNext, ProbeHealth, ProbeEgress, Take,
                              SpawnRaises, SpawnReturns, Saw
    <3>4. ~SpawnReads(x) /\ ~SpawnReturns(x)
      <4>1. ASSUME SpawnReads(x) PROVE thr'[x].pc = "next"
        <5>1. thr'[x] = [NoSpawn EXCEPT !.pc = "next", !.cand = free, !.cold = cooling]
          BY <3>0, <4>1 DEF SpawnReads
        <5> QED
          BY <5>1 DEF NoSpawn
      <4>2. ASSUME SpawnReturns(x) PROVE thr'[x].pc = "idle"
        BY <3>0, <4>2 DEF SpawnReturns, NoSpawn
      <4> QED
        BY <3>1, <4>1, <4>2
    <3>5. ~SpawnNext(x) /\ ~Take(x)
      <4>0. thr[x] \in Thread
        BY <3>0
      <4>1. ASSUME SpawnNext(x) PROVE thr'[x].pc \in {"next", "health"}
        <5>1. thr[x].pc = "next"
          BY <4>1 DEF SpawnNext, TAt
        <5> QED
          BY <3>0, <4>0, <4>1, <5>1 DEF SpawnNext, Thread
      <4>2. ASSUME Take(x) PROVE thr'[x].pc \in {"idle", "next"}
        <5>1. thr'[x] = NoSpawn \/ thr'[x].pc = "next"
          BY <3>0, <4>0, <4>2 DEF Take, Thread
        <5> QED
          BY <5>1 DEF NoSpawn
      <4> QED
        BY <3>1, <4>1, <4>2
    <3>6. ~ProbeHealth(x) /\ ~ProbeEgress(x)
      BY <3>0, <3>1 DEF ProbeHealth, ProbeEgress, Saw, Thread
    <3> QED
      BY <3>2, <3>3, <3>4, <3>5, <3>6
  <2>2. Verdict(x) = "fault" /\ thr[x].pc = "next" /\ thr[x].cand = {}
    BY <2>1 DEF SpawnRaises, TAt, NoSpawn, StatInv, StatTypeOK
  <2>3. thr[x].saw = {"noegress"} /\ seen[b] # "yes"
    BY <2>2 DEF Verdict
  <2>4. seen[b] # "unasked"
    BY <2>0, <2>2, <2>3 DEF Asks, Hands, Probing
  <2> QED
    BY <2>3, <2>4 DEF StatInv, StatTypeOK
<1> QED
  BY <1>1, StatInitially, StatStepwise, PTL DEF StatSpec

-------------------------------------------------------------------------------
\* The cascade

-------------------------------------------------------------------------------
\* What the proofs assume of the configuration.
Configured ==
  /\ NTiers \in Nat
  /\ Undecided \subseteq Tiers
  /\ Capacity \in [Tiers -> Nat]
  /\ IsFiniteSet(SpawnThreads) /\ IsFiniteSet(CSlots)

Owned(i) == {s \in CSlots : owner[s] = i}
Spawning(i) == {x \in SpawnThreads : sp[x].pc \in {"call", "own"} /\ T(x) = i}

\* The books of a tier.
Books(i) ==
  /\ counts[i] = Cardinality(Owned(i)) + Cardinality(Spawning(i))
  /\ counts[i] <= Capacity[i]

SpawnStates == [pc : {"idle", "try", "call", "repair", "own"}, i : Nat, slot : CSlots \cup {0},
                streak : Nat]

RoomTypeOK ==
  /\ tiers \in Seq(Tiers)
  /\ counts \in [Tiers -> Nat] /\ fails \in [Tiers -> Nat]
  /\ owner \in [CSlots -> Tiers \cup {NoTier}] /\ backend \in [CSlots -> Tiers \cup {NoTier}]
  /\ reaps \in [CSlots -> {"no", "call", "forget"}]
  /\ sp \in [SpawnThreads -> SpawnStates]

\* A thread that has taken room has a tier, and one that has a worker is the only
\* one that has it.
Placed ==
  /\ \A x \in SpawnThreads :
       /\ sp[x].pc \in {"call", "own", "repair"} => sp[x].i \in 1..Len(tiers)
       /\ sp[x].pc = "try" => sp[x].i # 0
       /\ sp[x].pc = "own" => /\ sp[x].slot \in CSlots
                              /\ owner[sp[x].slot] = NoTier
                              /\ backend[sp[x].slot] = T(x)
                              /\ reaps[sp[x].slot] = "no"
  /\ \A x, y \in SpawnThreads :
       sp[x].pc = "own" /\ sp[y].pc = "own" /\ sp[x].slot = sp[y].slot => x = y

\* A worker is in the books of its tier, or about to be.
Staffed ==
  \A s \in CSlots : backend[s] # NoTier =>
    backend[s] = owner[s] \/ \E x \in SpawnThreads : sp[x].pc = "own" /\ sp[x].slot = s

\* A reap is of a slot in the books, and leaves them after its worker is gone.
Reaped ==
  \A s \in CSlots : /\ reaps[s] # "no" => owner[s] # NoTier
                    /\ reaps[s] = "forget" => backend[s] = NoTier

BooksBalance == \A i \in Tiers : Books(i)

RoomInv == RoomTypeOK /\ Placed /\ Staffed /\ Reaped /\ BooksBalance

-------------------------------------------------------------------------------
\* The admission

Underway == {"owed", "sweeps", "owing", "next", "build", "admit", "sweep", "sweeping", "finish"}
\* The tier that is being probed.
Probed == IF adm.pc \in {"build", "admit"} THEN {adm.cur} ELSE {}

AdmitTypeOK ==
  /\ tiers \in Seq(Tiers)
  /\ deferred \subseteq Tiers /\ owed \subseteq Tiers
  /\ adm \in [pc : {"idle"} \cup Underway, todo : SUBSET Tiers, pending : SUBSET Tiers,
              still : SUBSET Tiers, cur : Tiers \cup {NoTier}]
  /\ verdict \in [swept : SUBSET Tiers, dropped : SUBSET Tiers]

\* No tier is there twice.
EachOnce == \A k, l \in DOMAIN tiers : tiers[k] = tiers[l] => k = l

\* What is still to be probed is not admitted, and what waits without a verdict is
\* in the hands of the thread that probes.
Waiting ==
  /\ adm.pc \in {"idle", "owed", "sweeps", "owing"} => deferred \cap Admitted = {}
  /\ (adm.pending \cup Probed) \cap Admitted = {}
  /\ adm.pc \in {"build", "admit"} => adm.cur \notin adm.pending
  /\ adm.pc \in {"owing", "build", "admit", "sweep", "sweeping"} => adm.cur \in Tiers
  /\ adm.pc # "idle" => deferred \ (verdict.dropped \cup Admitted) \subseteq
                          adm.pending \cup adm.still \cup Probed
  /\ adm.pc = "finish" => adm.pending = {}
  /\ adm.pc \notin {"sweeps", "owing"} => adm.todo = {}

\* Late tiers are swept, owed their sweep, or about to get it.
SweptOrOwed ==
  \A d \in Undecided :
    \/ d \in verdict.dropped
    \/ d \in Admitted /\ (d \in verdict.swept \cup owed \cup adm.todo
                          \/ (adm.pc \in {"sweep", "sweeping"} /\ adm.cur = d))
    \/ d \notin Admitted /\ d \in deferred

AdmitInv == AdmitTypeOK /\ EachOnce /\ Waiting /\ SweptOrOwed

CascInv == RoomInv /\ AdmitInv
-------------------------------------------------------------------------------
\* The start

LEMMA RoomStart ==
  ASSUME Configured, CascInit
  PROVE  RoomInv
<1> USE DEF CascInit
<1>0. IsFiniteSet(Tiers \ Undecided)
  <2>1. IsFiniteSet(Tiers)
    BY FS_Interval DEF Configured, Tiers
  <2> QED
    BY <2>1, FS_Difference
<1>1. Cardinality(Tiers \ Undecided) \in Nat
  BY <1>0, FS_CardinalityType
<1>2. RoomTypeOK
  <2>1. tiers \in Seq(Tiers)
    <3>1. PICK n \in Nat : n = Cardinality(Tiers \ Undecided)
      BY <1>1
    <3>2. tiers \in [1..n -> Tiers]
      BY <3>1
    <3> QED
      BY <3>1, <3>2
  <2> QED
    BY <2>1 DEF RoomTypeOK, SpawnStates, IdleSpawn
<1>3. Placed /\ Staffed /\ Reaped
  BY DEF Placed, Staffed, Reaped, IdleSpawn
<1>4. ASSUME NEW i \in Tiers
      PROVE  Books(i)
  <2>1. Owned(i) = {} /\ Spawning(i) = {}
    BY DEF Owned, Spawning, Tiers, NoTier, IdleSpawn
  <2>2. counts[i] = 0 /\ Capacity[i] \in Nat
    BY DEF Configured
  <2> QED
    BY <2>1, <2>2, FS_EmptySet DEF Books
<1> QED
  BY <1>2, <1>3, <1>4 DEF RoomInv, BooksBalance

-------------------------------------------------------------------------------
\* The books

LEMMA Counted ==
  ASSUME Configured, NEW i
  PROVE  /\ IsFiniteSet(Owned(i)) /\ IsFiniteSet(Spawning(i))
         /\ Cardinality(Owned(i)) \in Nat /\ Cardinality(Spawning(i)) \in Nat
<1>1. IsFiniteSet(Owned(i))
  BY FS_Subset, Owned(i) \in SUBSET CSlots DEF Configured, Owned
<1>2. IsFiniteSet(Spawning(i))
  BY FS_Subset, Spawning(i) \in SUBSET SpawnThreads DEF Configured, Spawning
<1> QED
  BY <1>1, <1>2, FS_CardinalityType

\* A step that changes the books of one tier.
OneTier(t) ==
  /\ \A i \in Tiers : i # t => Owned(i)' = Owned(i) /\ Spawning(i)' = Spawning(i)
  /\ \A i \in Tiers : i # t => counts'[i] = counts[i]

LEMMA BooksOfOthers ==
  ASSUME BooksBalance, NEW t \in Tiers, OneTier(t), Books(t)'
  PROVE  BooksBalance'
<1> SUFFICES ASSUME NEW i \in Tiers, i # t
             PROVE  Books(i)'
  BY DEF BooksBalance
<1>1. Books(i) /\ Owned(i)' = Owned(i) /\ Spawning(i)' = Spawning(i) /\ counts'[i] = counts[i]
  BY DEF BooksBalance, OneTier
<1> QED
  BY <1>1 DEF Books

LEMMA BooksUntouched ==
  ASSUME BooksBalance, UNCHANGED counts,
         \A i \in Tiers : Owned(i)' = Owned(i) /\ Spawning(i)' = Spawning(i)
  PROVE  BooksBalance'
<1> SUFFICES ASSUME NEW i \in Tiers
             PROVE  Books(i)'
  BY DEF BooksBalance
<1>1. Books(i) /\ Owned(i)' = Owned(i) /\ Spawning(i)' = Spawning(i)
  BY DEF BooksBalance
<1> QED
  BY <1>1 DEF Books

\* A thread takes room, gives it back, or turns it into a worker; a worker goes.
LEMMA BooksOfOne ==
  ASSUME Configured, RoomTypeOK, NEW t \in Tiers, Books(t), NEW x, NEW s,
         \/ /\ counts[t] < Capacity[t] /\ counts'[t] = counts[t] + 1
            /\ Owned(t)' = Owned(t)
            /\ x \notin Spawning(t) /\ Spawning(t)' = Spawning(t) \cup {x}
         \/ /\ counts'[t] = counts[t] - 1
            /\ Owned(t)' = Owned(t)
            /\ x \in Spawning(t) /\ Spawning(t)' = Spawning(t) \ {x}
         \/ /\ counts'[t] = counts[t]
            /\ s \notin Owned(t) /\ Owned(t)' = Owned(t) \cup {s}
            /\ x \in Spawning(t) /\ Spawning(t)' = Spawning(t) \ {x}
         \/ /\ counts'[t] = IF counts[t] > 0 THEN counts[t] - 1 ELSE 0
            /\ s \in Owned(t) /\ Owned(t)' = Owned(t) \ {s}
            /\ Spawning(t)' = Spawning(t)
  PROVE  Books(t)' /\ counts'[t] \in Nat
<1> DEFINE o == Cardinality(Owned(t))
           w == Cardinality(Spawning(t))
<1>1. /\ IsFiniteSet(Owned(t)) /\ IsFiniteSet(Spawning(t)) /\ o \in Nat /\ w \in Nat
      /\ counts[t] = o + w /\ counts[t] <= Capacity[t] /\ Capacity[t] \in Nat
  BY Counted DEF Configured, Books
<1>2. /\ x \notin Spawning(t) => Cardinality(Spawning(t) \cup {x}) = w + 1
      /\ x \in Spawning(t) => Cardinality(Spawning(t) \ {x}) = w - 1 /\ w > 0
  <2>1. x \in Spawning(t) => w # 0
    BY <1>1, FS_EmptySet
  <2>2. Cardinality(Spawning(t) \cup {x}) = IF x \in Spawning(t) THEN w ELSE w + 1
    BY <1>1, FS_AddElement
  <2>3. Cardinality(Spawning(t) \ {x}) = IF x \in Spawning(t) THEN w - 1 ELSE w
    BY <1>1, FS_RemoveElement
  <2> QED
    BY <1>1, <2>1, <2>2, <2>3
<1>3. /\ s \notin Owned(t) => Cardinality(Owned(t) \cup {s}) = o + 1
      /\ s \in Owned(t) => Cardinality(Owned(t) \ {s}) = o - 1 /\ o > 0
  <2>1. s \in Owned(t) => o # 0
    BY <1>1, FS_EmptySet
  <2>2. Cardinality(Owned(t) \cup {s}) = IF s \in Owned(t) THEN o ELSE o + 1
    BY <1>1, FS_AddElement
  <2>3. Cardinality(Owned(t) \ {s}) = IF s \in Owned(t) THEN o - 1 ELSE o
    BY <1>1, FS_RemoveElement
  <2> QED
    BY <1>1, <2>1, <2>2, <2>3
<1> HIDE DEF o, w
<1>4. /\ counts'[t] = Cardinality(Owned(t)') + Cardinality(Spawning(t)')
      /\ counts'[t] <= Capacity[t] /\ counts'[t] \in Nat
  <2>1. Cardinality(Owned(t)) = o /\ Cardinality(Spawning(t)) = w
    BY DEF o, w
  <2>2. CASE /\ counts[t] < Capacity[t] /\ counts'[t] = counts[t] + 1
             /\ Owned(t)' = Owned(t)
             /\ x \notin Spawning(t) /\ Spawning(t)' = Spawning(t) \cup {x}
    BY <1>1, <1>2, <2>1, <2>2
  <2>3. CASE /\ counts'[t] = counts[t] - 1
             /\ Owned(t)' = Owned(t)
             /\ x \in Spawning(t) /\ Spawning(t)' = Spawning(t) \ {x}
    BY <1>1, <1>2, <2>1, <2>3
  <2>4. CASE /\ counts'[t] = counts[t]
             /\ s \notin Owned(t) /\ Owned(t)' = Owned(t) \cup {s}
             /\ x \in Spawning(t) /\ Spawning(t)' = Spawning(t) \ {x}
    BY <1>1, <1>2, <1>3, <2>1, <2>4
  <2>5. CASE /\ counts'[t] = IF counts[t] > 0 THEN counts[t] - 1 ELSE 0
             /\ s \in Owned(t) /\ Owned(t)' = Owned(t) \ {s}
             /\ Spawning(t)' = Spawning(t)
    BY <1>1, <1>3, <2>1, <2>5
  <2> QED
    BY <2>2, <2>3, <2>4, <2>5
<1> QED
  BY <1>4 DEF Books
-------------------------------------------------------------------------------
\* What a thread does

\* The threads that count for a tier, after a step of one thread.
LEMMA OneThreadMoves ==
  ASSUME RoomTypeOK, NEW x \in SpawnThreads, NEW r, sp' = [sp EXCEPT ![x] = r], UNCHANGED tiers
  PROVE  /\ \A y \in SpawnThreads : sp'[y] = IF y = x THEN r ELSE sp[y]
         /\ \A i \in Tiers : Spawning(i)' = (Spawning(i) \ {x}) \cup
              {y \in {x} : r.pc \in {"call", "own"} /\ tiers[r.i] = i}
<1>1. \A y \in SpawnThreads : sp'[y] = IF y = x THEN r ELSE sp[y]
  BY DEF RoomTypeOK
<1>2. ASSUME NEW i \in Tiers
      PROVE  Spawning(i)' = (Spawning(i) \ {x}) \cup
               {y \in {x} : r.pc \in {"call", "own"} /\ tiers[r.i] = i}
  BY <1>1 DEF Spawning, T
<1> QED
  BY <1>1, <1>2

\* A thread that has no worker, before and after.
LEMMA StaysWithout ==
  ASSUME RoomInv, NEW x \in SpawnThreads, NEW r \in SpawnStates, sp' = [sp EXCEPT ![x] = r],
         UNCHANGED <<tiers, owner, backend, reaps>>, sp[x].pc # "own", r.pc # "own",
         r.pc \in {"call", "repair"} => r.i \in 1..Len(tiers),
         r.pc = "try" => r.i # 0,
         counts' \in [Tiers -> Nat], fails' \in [Tiers -> Nat], BooksBalance'
  PROVE  RoomInv'
<1>0. RoomTypeOK /\ Placed /\ Staffed /\ Reaped
  BY DEF RoomInv
<1>1. \A y \in SpawnThreads : sp'[y] = IF y = x THEN r ELSE sp[y]
  BY <1>0, OneThreadMoves
<1>2. RoomTypeOK'
  BY <1>0, <1>1 DEF RoomTypeOK
<1>3. Placed'
  BY <1>0, <1>1 DEF Placed, T
<1>4. Staffed'
  BY <1>0, <1>1 DEF Staffed
<1>5. Reaped'
  BY <1>0 DEF Reaped
<1> QED
  BY <1>2, <1>3, <1>4, <1>5 DEF RoomInv

\* The room of every tier is what it was.
LEMMA SameRoom ==
  ASSUME RoomInv, NEW x \in SpawnThreads, NEW r \in SpawnStates, sp' = [sp EXCEPT ![x] = r],
         UNCHANGED <<tiers, owner, counts>>,
         \/ sp[x].pc \notin {"call", "own"} /\ r.pc \notin {"call", "own"}
         \/ sp[x].pc = "call" /\ r.pc = "own" /\ r.i = sp[x].i
  PROVE  BooksBalance'
<1>1. \A i \in Tiers : Owned(i)' = Owned(i)
  BY DEF Owned
<1>2. \A i \in Tiers : Spawning(i)' = Spawning(i)
  BY OneThreadMoves DEF RoomInv, Spawning, T
<1> QED
  BY <1>1, <1>2, BooksUntouched DEF RoomInv

LEMMA BeginsKept ==
  ASSUME RoomInv, NEW x \in SpawnThreads, SpawnBegins(x)
  PROVE  RoomInv'
<1> DEFINE r == [IdleSpawn EXCEPT !.pc = "try", !.i = 1]
<1>1. r \in SpawnStates /\ r.pc = "try" /\ r.i # 0
  <2>1. r \in SpawnStates /\ r.pc = "try" /\ r.i = 1
    BY DEF SpawnStates, IdleSpawn
  <2> QED
    BY <2>1
<1>2. /\ sp' = [sp EXCEPT ![x] = r] /\ sp[x].pc = "idle"
      /\ UNCHANGED <<tiers, counts, fails, owner, backend, reaps>>
  BY DEF SpawnBegins, SAt
<1> HIDE DEF r
<1>3. counts' \in [Tiers -> Nat] /\ fails' \in [Tiers -> Nat]
  BY <1>2 DEF RoomInv, RoomTypeOK
<1>4. BooksBalance'
  BY <1>1, <1>2, SameRoom
<1>5. sp[x].pc # "own" /\ r.pc # "own" /\ r.pc \notin {"call", "repair"}
  BY <1>1, <1>2
<1> QED
  BY <1>1, <1>2, <1>3, <1>4, <1>5, StaysWithout

\* A thread that goes on to the next tier.
LEMMA NextState ==
  ASSUME RoomTypeOK, NEW x \in SpawnThreads, NextTier(x)
  PROVE  \E r \in SpawnStates : sp' = [sp EXCEPT ![x] = r] /\ r.pc = "try" /\ r.i # 0
<1>1. sp[x] \in SpawnStates
  BY DEF RoomTypeOK
<1> DEFINE r == [sp[x] EXCEPT !.pc = "try", !.i = @ + 1]
<1>2. r \in SpawnStates /\ r.pc = "try" /\ r.i # 0
  <2>1. sp[x].i \in Nat
    BY <1>1 DEF SpawnStates
  <2>2. sp[x].i + 1 \in Nat /\ sp[x].i + 1 # 0
    BY <2>1
  <2> QED
    BY <1>1, <2>2 DEF SpawnStates
<1>3. sp' = [sp EXCEPT ![x] = r]
  BY DEF NextTier
<1> QED
  BY <1>2, <1>3

LEMMA TryKept ==
  ASSUME Configured, RoomInv, NEW x \in SpawnThreads, TryTier(x)
  PROVE  RoomInv'
<1>0. RoomTypeOK /\ Placed /\ BooksBalance /\ sp[x] \in SpawnStates /\ sp[x].pc = "try"
  BY DEF RoomInv, RoomTypeOK, TryTier, SAt
<1>1. /\ UNCHANGED <<tiers, fails, owner, backend, reaps>>
      /\ fails' \in [Tiers -> Nat] /\ counts \in [Tiers -> Nat]
  BY <1>0 DEF TryTier, RoomTypeOK
<1>2. CASE sp' = [sp EXCEPT ![x] = IdleSpawn] /\ UNCHANGED counts
  <2>1. IdleSpawn \in SpawnStates /\ IdleSpawn.pc = "idle"
    BY DEF IdleSpawn, SpawnStates
  <2> QED
    BY <1>0, <1>1, <1>2, <2>1, SameRoom, StaysWithout
<1>3. CASE NextTier(x) /\ UNCHANGED counts
  <2>1. PICK r \in SpawnStates : sp' = [sp EXCEPT ![x] = r] /\ r.pc = "try" /\ r.i # 0
    BY <1>0, <1>3, NextState
  <2> QED
    BY <1>0, <1>1, <1>3, <2>1, SameRoom, StaysWithout
<1>4. CASE /\ sp[x].i <= Len(tiers) /\ counts[T(x)] < Capacity[T(x)]
           /\ counts' = [counts EXCEPT ![T(x)] = @ + 1]
           /\ sp' = [sp EXCEPT ![x].pc = "call"]
  <2>2. sp[x].i \in 1..Len(tiers)
    <3>1. sp[x].i \in Nat
      BY <1>0 DEF SpawnStates
    <3>2. sp[x].i # 0
      BY <1>0 DEF Placed
    <3>3. Len(tiers) \in Nat
      BY <1>0 DEF RoomTypeOK
    <3> QED
      BY <1>4, <3>1, <3>2, <3>3
  <2>3. PICK t \in Tiers : t = T(x)
    BY <1>0, <2>2 DEF T, RoomTypeOK
  <2> DEFINE r == [sp[x] EXCEPT !.pc = "call"]
  <2>1. r \in SpawnStates /\ r.pc = "call" /\ r.i = sp[x].i /\ sp' = [sp EXCEPT ![x] = r]
    BY <1>0, <1>4 DEF SpawnStates
  <2> HIDE DEF r
  <2>4. \A i \in Tiers : Owned(i)' = Owned(i)
    BY <1>1 DEF Owned
  <2>5. \A i \in Tiers : x \notin Spawning(i)
    BY <1>0 DEF Spawning
  <2>6. \A i \in Tiers : Spawning(i)' = Spawning(i) \cup {y \in {x} : i = t}
    <3>1. tiers[r.i] = t
      BY <2>1, <2>3 DEF T
    <3>2. \A i \in Tiers : Spawning(i)' = (Spawning(i) \ {x}) \cup
                             {y \in {x} : r.pc \in {"call", "own"} /\ tiers[r.i] = i}
      BY <1>0, <1>1, <2>1, OneThreadMoves
    <3> QED
      BY <2>1, <2>5, <3>1, <3>2
  <2>7. \A i \in Tiers : counts'[i] = IF i = t THEN counts[t] + 1 ELSE counts[i]
    BY <1>1, <1>4, <2>3
  <2>8. OneTier(t)
    <3>1. \A i \in Tiers : i # t => Spawning(i)' = Spawning(i)
      BY <2>6
    <3> QED
      BY <2>4, <2>7, <3>1 DEF OneTier
  <2>9. Books(t)' /\ counts'[t] \in Nat
    <3>1. counts[t] < Capacity[t] /\ Books(t)
      BY <1>0, <1>4, <2>3 DEF BooksBalance
    <3>2. Spawning(t)' = Spawning(t) \cup {x} /\ x \notin Spawning(t) /\ Owned(t)' = Owned(t)
      BY <2>4, <2>5, <2>6
    <3>3. counts'[t] = counts[t] + 1
      BY <2>7
    <3> QED
      BY <1>0, <3>1, <3>2, <3>3, BooksOfOne
  <2>10. BooksBalance'
    BY <1>0, <2>8, <2>9, BooksOfOthers
  <2>11. counts' \in [Tiers -> Nat]
    BY <1>1, <1>4, <2>3, <2>9
  <2> QED
    BY <1>0, <1>1, <2>1, <2>2, <2>10, <2>11, StaysWithout
<1> QED
  BY <1>0, <1>2, <1>3, <1>4 DEF TryTier, SpawnStates, RoomTypeOK
\* A thread whose spawn was refused, or failed, gives its room back.
LEMMA RoomGivenBack ==
  ASSUME Configured, RoomInv, NEW x \in SpawnThreads, NEW r \in SpawnStates,
         sp' = [sp EXCEPT ![x] = r], sp[x].pc = "call",
         r.pc \in {"try", "repair"}, r.i # 0, r.pc = "repair" => r.i = sp[x].i,
         counts' = [counts EXCEPT ![T(x)] = @ - 1],
         UNCHANGED <<tiers, owner, backend, reaps>>, fails' \in [Tiers -> Nat]
  PROVE  RoomInv'
<1>0. RoomTypeOK /\ Placed /\ BooksBalance /\ counts \in [Tiers -> Nat] /\ tiers \in Seq(Tiers)
  BY DEF RoomInv, RoomTypeOK
<1>1. sp[x].i \in 1..Len(tiers)
  BY <1>0 DEF Placed
<1>2. PICK t \in Tiers : t = T(x)
  BY <1>0, <1>1 DEF T
<1>3. \A i \in Tiers : Owned(i)' = Owned(i)
  BY DEF Owned
<1>4. x \in Spawning(t) /\ \A i \in Tiers : i # t => x \notin Spawning(i)
  BY <1>2 DEF Spawning
<1>5. \A i \in Tiers : Spawning(i)' = Spawning(i) \ {x}
  <2>1. \A i \in Tiers : Spawning(i)' = (Spawning(i) \ {x}) \cup
                             {y \in {x} : r.pc \in {"call", "own"} /\ tiers[r.i] = i}
    BY <1>0, OneThreadMoves
  <2> QED
    BY <2>1
<1>6. \A i \in Tiers : counts'[i] = IF i = t THEN counts[t] - 1 ELSE counts[i]
  BY <1>0, <1>2
<1>7. OneTier(t)
  <2>1. \A i \in Tiers : i # t => Spawning(i)' = Spawning(i)
    BY <1>4, <1>5
  <2> QED
    BY <1>3, <1>6, <2>1 DEF OneTier
<1>8. Books(t)' /\ counts'[t] \in Nat
  <2>1. Books(t)
    BY <1>0 DEF BooksBalance
  <2>2. Spawning(t)' = Spawning(t) \ {x} /\ Owned(t)' = Owned(t) /\ counts'[t] = counts[t] - 1
    BY <1>3, <1>5, <1>6
  <2> QED
    BY <1>0, <1>4, <2>1, <2>2, BooksOfOne
<1>9. BooksBalance'
  BY <1>0, <1>7, <1>8, BooksOfOthers
<1>10. counts' \in [Tiers -> Nat]
  BY <1>0, <1>2, <1>8
<1>11. r.pc \in {"call", "repair"} => r.i \in 1..Len(tiers)
  BY <1>1
<1> QED
  BY <1>9, <1>10, <1>11, StaysWithout

LEMMA RefusedKept ==
  ASSUME Configured, RoomInv, NEW x \in SpawnThreads, SpawnRefused(x) \/ SpawnFails(x)
  PROVE  RoomInv'
<1>0. RoomTypeOK /\ Placed /\ sp[x] \in SpawnStates /\ sp[x].pc = "call" /\ fails \in [Tiers -> Nat]
      /\ tiers \in Seq(Tiers)
  BY DEF RoomInv, RoomTypeOK, SpawnRefused, SpawnFails, SAt
<1>1. sp[x].i \in 1..Len(tiers) /\ sp[x].i # 0 /\ T(x) \in Tiers
  BY <1>0 DEF Placed, T
<1>2. counts' = [counts EXCEPT ![T(x)] = @ - 1] /\ UNCHANGED <<tiers, owner, backend, reaps>>
  BY DEF SpawnRefused, SpawnFails
<1>3. fails[T(x)] + 1 \in Nat
  BY <1>0, <1>1
<1>4. fails' \in [Tiers -> Nat]
  BY <1>0, <1>1, <1>3 DEF SpawnRefused, SpawnFails
<1>5. CASE NextTier(x)
  BY <1>0, <1>2, <1>4, <1>5, NextState, RoomGivenBack
<1>6. CASE sp' = [sp EXCEPT ![x].pc = "repair", ![x].streak = fails[T(x)] + 1]
  <2> DEFINE r == [sp[x] EXCEPT !.pc = "repair", !.streak = fails[T(x)] + 1]
  <2>1. r \in SpawnStates /\ r.pc = "repair" /\ r.i = sp[x].i
    BY <1>0, <1>3 DEF SpawnStates
  <2>2. sp' = [sp EXCEPT ![x] = r]
    BY <1>6
  <2> HIDE DEF r
  <2> QED
    BY <1>0, <1>1, <1>2, <1>4, <2>1, <2>2, RoomGivenBack
<1> QED
  BY <1>5, <1>6 DEF SpawnRefused, SpawnFails

LEMMA RepairKept ==
  ASSUME RoomInv, NEW x \in SpawnThreads, Repair(x)
  PROVE  RoomInv'
<1>0. RoomTypeOK /\ Placed /\ sp[x] \in SpawnStates /\ sp[x].pc = "repair" /\ fails \in [Tiers -> Nat]
      /\ tiers \in Seq(Tiers)
  BY DEF RoomInv, RoomTypeOK, Repair, SAt
<1>1. sp[x].i \in Nat /\ sp[x].streak \in Nat
  BY <1>0 DEF SpawnStates
<1> DEFINE r == [sp[x] EXCEPT !.pc = "try", !.i = @ + 1, !.streak = 0]
<1>2. r \in SpawnStates /\ r.pc = "try" /\ r.i # 0
  <2>1. sp[x].i + 1 \in Nat /\ sp[x].i + 1 # 0
    BY <1>1
  <2> QED
    BY <1>0, <2>1 DEF SpawnStates
<1>3. sp' = [sp EXCEPT ![x] = r]
  BY DEF Repair
<1> HIDE DEF r
<1>4. UNCHANGED <<tiers, counts, owner, backend, reaps>>
  BY DEF Repair
<1>5. fails' \in [Tiers -> Nat]
  <2>1. T(x) \in Tiers
    BY <1>0 DEF Placed, T
  <2> QED
    BY <1>0, <1>1, <2>1 DEF Repair
<1>6. BooksBalance'
  BY <1>0, <1>2, <1>3, <1>4, SameRoom
<1>7. counts' \in [Tiers -> Nat]
  BY <1>0, <1>4 DEF RoomTypeOK
<1>8. r.pc # "own" /\ r.pc \notin {"call", "repair"} /\ sp[x].pc # "own"
  BY <1>0, <1>2
<1> QED
  BY <1>2, <1>3, <1>4, <1>5, <1>6, <1>7, <1>8, StaysWithout

LEMMA SucceedsKept ==
  ASSUME RoomInv, NEW x \in SpawnThreads, SpawnSucceeds(x)
  PROVE  RoomInv'
<1>0. RoomTypeOK /\ Placed /\ Staffed /\ Reaped /\ sp[x] \in SpawnStates /\ sp[x].pc = "call"
      /\ tiers \in Seq(Tiers) /\ backend \in [CSlots -> Tiers \cup {NoTier}]
  BY DEF RoomInv, RoomTypeOK, SpawnSucceeds, SAt
<1>1. PICK s \in FreeSlots : /\ backend' = [backend EXCEPT ![s] = T(x)]
                            /\ sp' = [sp EXCEPT ![x].pc = "own", ![x].slot = s]
  BY DEF SpawnSucceeds
<1>2. /\ s \in CSlots /\ owner[s] = NoTier /\ backend[s] = NoTier /\ reaps[s] = "no"
      /\ \A y \in SpawnThreads : sp[y].slot # s
  BY DEF FreeSlots
<1>3. UNCHANGED <<tiers, counts, fails, owner, reaps>>
  BY DEF SpawnSucceeds
<1> DEFINE r == [sp[x] EXCEPT !.pc = "own", !.slot = s]
<1>4. r \in SpawnStates /\ r.pc = "own" /\ r.slot = s /\ r.i = sp[x].i /\ sp' = [sp EXCEPT ![x] = r]
  BY <1>0, <1>1, <1>2 DEF SpawnStates
<1> HIDE DEF r
<1>5. T(x) \in Tiers /\ sp[x].i \in 1..Len(tiers)
  BY <1>0 DEF Placed, T
<1>6. \A y \in SpawnThreads : sp'[y] = IF y = x THEN r ELSE sp[y]
  BY <1>0, <1>4 DEF RoomTypeOK
<1>7. \A z \in CSlots : backend'[z] = IF z = s THEN T(x) ELSE backend[z]
  BY <1>0, <1>1
<1>8. RoomTypeOK'
  BY <1>0, <1>1, <1>3, <1>4, <1>5, <1>6 DEF RoomTypeOK
<1>9. Placed'
  <2>1. ASSUME NEW y \in SpawnThreads
        PROVE  /\ sp'[y].pc \in {"call", "own", "repair"} => sp'[y].i \in 1..Len(tiers')
               /\ sp'[y].pc = "try" => sp'[y].i # 0
               /\ sp'[y].pc = "own" => /\ sp'[y].slot \in CSlots
                                       /\ owner'[sp'[y].slot] = NoTier
                                       /\ backend'[sp'[y].slot] = tiers'[sp'[y].i]
                                       /\ reaps'[sp'[y].slot] = "no"
    <3>1. CASE y = x
      BY <3>1, <1>2, <1>3, <1>4, <1>5, <1>6, <1>7 DEF T
    <3>2. CASE y # x
      BY <3>2, <1>0, <1>2, <1>3, <1>6, <1>7 DEF Placed, T
    <3> QED
      BY <3>1, <3>2
  <2>2. \A y, z \in SpawnThreads :
          sp'[y].pc = "own" /\ sp'[z].pc = "own" /\ sp'[y].slot = sp'[z].slot => y = z
    BY <1>0, <1>2, <1>4, <1>6 DEF Placed
  <2> QED
    BY <2>1, <2>2 DEF Placed, T
<1>10. Staffed'
  BY <1>0, <1>2, <1>3, <1>4, <1>6, <1>7 DEF Staffed
<1>11. Reaped'
  BY <1>0, <1>2, <1>3, <1>7 DEF Reaped
<1>12. BooksBalance'
  BY <1>0, <1>3, <1>4, SameRoom
<1> QED
  BY <1>8, <1>9, <1>10, <1>11, <1>12 DEF RoomInv

LEMMA OwnsKept ==
  ASSUME Configured, RoomInv, NEW x \in SpawnThreads, SpawnOwns(x)
  PROVE  RoomInv'
<1>0. RoomTypeOK /\ Placed /\ Staffed /\ Reaped /\ BooksBalance
      /\ sp[x] \in SpawnStates /\ sp[x].pc = "own" /\ counts \in [Tiers -> Nat]
      /\ tiers \in Seq(Tiers) /\ owner \in [CSlots -> Tiers \cup {NoTier}] /\ fails \in [Tiers -> Nat]
  BY DEF RoomInv, RoomTypeOK, SpawnOwns, SAt
<1>1. sp[x].i \in 1..Len(tiers)
  BY <1>0 DEF Placed
<1>2. PICK t \in Tiers : t = T(x)
  BY <1>0, <1>1 DEF T
<1>3. PICK s \in CSlots : s = sp[x].slot /\ owner[s] = NoTier /\ backend[s] = t /\ reaps[s] = "no"
  BY <1>0, <1>2 DEF Placed
<1>4. /\ owner' = [owner EXCEPT ![s] = t] /\ fails' = [fails EXCEPT ![t] = 0]
      /\ sp' = [sp EXCEPT ![x] = IdleSpawn] /\ UNCHANGED <<tiers, counts, backend, reaps>>
  BY <1>2, <1>3 DEF SpawnOwns
<1>5. IdleSpawn \in SpawnStates /\ IdleSpawn.pc = "idle"
  BY DEF IdleSpawn, SpawnStates
<1>6. \A y \in SpawnThreads : sp'[y] = IF y = x THEN IdleSpawn ELSE sp[y]
  BY <1>0, <1>4, OneThreadMoves
<1>7. \A z \in CSlots : owner'[z] = IF z = s THEN t ELSE owner[z]
  BY <1>0, <1>4
<1>8. RoomTypeOK'
  BY <1>0, <1>4, <1>5, <1>6 DEF RoomTypeOK
<1>9. \A y \in SpawnThreads : y # x /\ sp[y].pc = "own" => sp[y].slot # s
  BY <1>0, <1>3 DEF Placed
<1>10. Placed'
  BY <1>0, <1>4, <1>5, <1>6, <1>7, <1>9 DEF Placed, T
<1>11. Staffed'
  BY <1>0, <1>3, <1>4, <1>6, <1>7 DEF Staffed
<1>12. Reaped'
  BY <1>0, <1>2, <1>3, <1>4, <1>7 DEF Reaped, NoTier, Tiers
<1>13. t # NoTier
  BY DEF Tiers, NoTier
<1>14. \A i \in Tiers : Owned(i)' = IF i = t THEN Owned(t) \cup {s} ELSE Owned(i)
  <2>1. \A i \in Tiers : i # NoTier
    BY DEF Tiers, NoTier
  <2> QED
    BY <1>3, <1>7, <2>1 DEF Owned
<1>15. s \notin Owned(t) /\ x \in Spawning(t) /\ \A i \in Tiers : i # t => x \notin Spawning(i)
  BY <1>0, <1>2, <1>3, <1>13 DEF Owned, Spawning
<1>16. \A i \in Tiers : Spawning(i)' = Spawning(i) \ {x}
  BY <1>4, <1>5, <1>6 DEF Spawning, T
<1>17. OneTier(t)
  BY <1>4, <1>14, <1>15, <1>16 DEF OneTier
<1>18. Books(t)'
  <2>1. Books(t) /\ Owned(t)' = Owned(t) \cup {s} /\ Spawning(t)' = Spawning(t) \ {x}
        /\ counts'[t] = counts[t]
    BY <1>0, <1>4, <1>14, <1>16 DEF BooksBalance
  <2> QED
    BY <1>0, <1>15, <2>1, BooksOfOne
<1>19. BooksBalance'
  BY <1>0, <1>17, <1>18, BooksOfOthers
<1> QED
  BY <1>8, <1>10, <1>11, <1>12, <1>19 DEF RoomInv
-------------------------------------------------------------------------------
\* What a reap does

\* No thread is about to own a slot that is reaped.
LEMMA NoReapOfOwn ==
  ASSUME RoomInv, NEW s \in CSlots, owner[s] # NoTier
  PROVE  \A x \in SpawnThreads : sp[x].pc = "own" => sp[x].slot # s
  BY DEF RoomInv, Placed

LEMMA ReapKept ==
  ASSUME RoomInv, NEW s \in CSlots, ReapBegins(s) \/ ReapCalls(s)
  PROVE  RoomInv'
<1>0. RoomTypeOK /\ Placed /\ Staffed /\ Reaped /\ BooksBalance
      /\ backend \in [CSlots -> Tiers \cup {NoTier}] /\ reaps \in [CSlots -> {"no", "call", "forget"}]
  BY DEF RoomInv, RoomTypeOK
<1>1. owner[s] # NoTier /\ UNCHANGED <<tiers, counts, fails, owner, sp>>
  BY <1>0 DEF ReapBegins, ReapCalls, Reaped
<1>2. /\ \A z \in CSlots : z # s => backend'[z] = backend[z] /\ reaps'[z] = reaps[z]
      /\ backend'[s] = backend[s] \/ backend'[s] = NoTier
      /\ reaps'[s] = "forget" => backend'[s] = NoTier
      /\ backend' \in [CSlots -> Tiers \cup {NoTier}] /\ reaps' \in [CSlots -> {"no", "call", "forget"}]
  BY <1>0 DEF ReapBegins, ReapCalls, Reaped
<1>3. RoomTypeOK'
  BY <1>0, <1>1, <1>2 DEF RoomTypeOK
<1>4. Placed'
  BY <1>0, <1>1, <1>2, NoReapOfOwn DEF Placed, T
<1>5. Staffed'
  BY <1>0, <1>1, <1>2 DEF Staffed
<1>6. Reaped'
  BY <1>0, <1>1, <1>2 DEF Reaped
<1>7. BooksBalance'
  <2>1. \A i \in Tiers : Owned(i)' = Owned(i) /\ Spawning(i)' = Spawning(i)
    BY <1>1 DEF Owned, Spawning, T
  <2> QED
    BY <1>0, <1>1, <2>1, BooksUntouched
<1> QED
  BY <1>3, <1>4, <1>5, <1>6, <1>7 DEF RoomInv

LEMMA ForgetsKept ==
  ASSUME Configured, RoomInv, NEW s \in CSlots, ReapForgets(s)
  PROVE  RoomInv'
<1>0. RoomTypeOK /\ Placed /\ Staffed /\ Reaped /\ BooksBalance /\ counts \in [Tiers -> Nat]
      /\ owner \in [CSlots -> Tiers \cup {NoTier}] /\ reaps \in [CSlots -> {"no", "call", "forget"}]
  BY DEF RoomInv, RoomTypeOK
<1>1. owner[s] # NoTier /\ backend[s] = NoTier /\ UNCHANGED <<tiers, fails, backend, sp>>
  BY <1>0 DEF ReapForgets, Reaped
<1>2. PICK t \in Tiers : t = owner[s]
  BY <1>0, <1>1
<1>3. /\ counts' = [counts EXCEPT ![t] = IF counts[t] > 0 THEN counts[t] - 1 ELSE 0]
      /\ owner' = [owner EXCEPT ![s] = NoTier] /\ reaps' = [reaps EXCEPT ![s] = "no"]
  BY <1>2 DEF ReapForgets
<1>4. /\ \A z \in CSlots : /\ owner'[z] = IF z = s THEN NoTier ELSE owner[z]
                          /\ reaps'[z] = IF z = s THEN "no" ELSE reaps[z]
      /\ \A i \in Tiers : counts'[i] = IF i = t THEN (IF counts[t] > 0 THEN counts[t] - 1 ELSE 0)
                                       ELSE counts[i]
  BY <1>0, <1>3
<1>5. Placed'
  BY <1>0, <1>1, <1>4, NoReapOfOwn DEF Placed, T
<1>6. Staffed'
  BY <1>0, <1>1, <1>4 DEF Staffed
<1>7. Reaped'
  BY <1>0, <1>1, <1>4 DEF Reaped
<1>8. \A i \in Tiers : i # NoTier
  BY DEF Tiers, NoTier
<1>9. \A i \in Tiers : Owned(i)' = IF i = t THEN Owned(t) \ {s} ELSE Owned(i)
  BY <1>2, <1>4, <1>8 DEF Owned
<1>10. \A i \in Tiers : Spawning(i)' = Spawning(i)
  BY <1>1 DEF Spawning, T
<1>11. OneTier(t)
  BY <1>4, <1>9, <1>10 DEF OneTier
<1>12. Books(t)' /\ counts'[t] \in Nat
  <2>1. Books(t) /\ s \in Owned(t) /\ Owned(t)' = Owned(t) \ {s} /\ Spawning(t)' = Spawning(t)
    BY <1>0, <1>2, <1>9, <1>10 DEF BooksBalance, Owned
  <2>2. counts'[t] = IF counts[t] > 0 THEN counts[t] - 1 ELSE 0
    BY <1>4
  <2> QED
    BY <1>0, <2>1, <2>2, BooksOfOne
<1>13. BooksBalance'
  BY <1>0, <1>11, <1>12, BooksOfOthers
<1>14. RoomTypeOK'
  <2>1. counts' \in [Tiers -> Nat]
    BY <1>0, <1>3, <1>12
  <2>2. owner' \in [CSlots -> Tiers \cup {NoTier}] /\ reaps' \in [CSlots -> {"no", "call", "forget"}]
    BY <1>0, <1>3
  <2> QED
    BY <1>0, <1>1, <2>1, <2>2 DEF RoomTypeOK
<1> QED
  BY <1>5, <1>6, <1>7, <1>13, <1>14 DEF RoomInv

\* The steps that leave the room alone: blame, repair, and what may become of the
\* list of tiers, at whose end a tier is admitted.
Extends == tiers' = tiers \/ \E d \in Tiers : tiers' = Append(tiers, d)

LEMMA RoomLeftAlone ==
  ASSUME RoomInv, Extends, UNCHANGED <<counts, owner, backend, sp, reaps>>,
         fails' \in [Tiers -> Nat]
  PROVE  RoomInv'
<1>0. RoomTypeOK /\ Placed /\ BooksBalance /\ tiers \in Seq(Tiers)
  BY DEF RoomInv, RoomTypeOK
<1>1. /\ tiers' \in Seq(Tiers) /\ Len(tiers') >= Len(tiers) /\ Len(tiers') \in Nat /\ Len(tiers) \in Nat
      /\ \A k \in 1..Len(tiers) : tiers'[k] = tiers[k]
  <2>1. CASE tiers' = tiers
    BY <1>0, <2>1
  <2>2. ASSUME NEW d \in Tiers, tiers' = Append(tiers, d)
        PROVE  /\ tiers' \in Seq(Tiers) /\ Len(tiers') >= Len(tiers)
               /\ Len(tiers') \in Nat /\ Len(tiers) \in Nat
               /\ \A k \in 1..Len(tiers) : tiers'[k] = tiers[k]
    <3>1. tiers' \in Seq(Tiers) /\ Len(tiers') = Len(tiers) + 1 /\ Len(tiers) \in Nat
      BY <1>0, <2>2
    <3>2. \A k \in 1..Len(tiers) : tiers'[k] = tiers[k]
      BY <1>0, <2>2
    <3> QED
      BY <3>1, <3>2
  <2> QED
    BY <2>1, <2>2 DEF Extends
<1>2. \A x \in SpawnThreads : sp[x].pc \in {"call", "own", "repair"} => tiers'[sp'[x].i] = tiers[sp[x].i]
  BY <1>0, <1>1 DEF Placed
<1>3. RoomTypeOK'
  BY <1>0, <1>1 DEF RoomTypeOK
<1>4. Placed'
  <2>1. \A k \in 1..Len(tiers) : k \in 1..Len(tiers')
    BY <1>1
  <2> QED
    BY <1>0, <1>2, <2>1 DEF Placed, T
<1>5. BooksBalance'
  <2>1. \A i \in Tiers : Owned(i)' = Owned(i) /\ Spawning(i)' = Spawning(i)
    BY <1>2 DEF Owned, Spawning, T
  <2> QED
    BY <1>0, <2>1, BooksUntouched
<1>6. Staffed' /\ Reaped'
  BY DEF RoomInv, Staffed, Reaped
<1> QED
  BY <1>3, <1>4, <1>5, <1>6 DEF RoomInv

LEMMA BlameKept ==
  ASSUME RoomInv, (\E s \in CSlots : Blame(s)) \/ ClearJobGuilt \/ (\E b \in BOOLEAN : InvalidateBase(b))
  PROVE  RoomInv'
<1>1. UNCHANGED <<tiers, counts, owner, backend, sp, reaps>>
  BY DEF Blame, ClearJobGuilt, InvalidateBase
<1>2. fails \in [Tiers -> Nat]
  BY DEF RoomInv, RoomTypeOK
<1>3. fails' \in [Tiers -> Nat]
  <2>1. CASE \E s \in CSlots : Blame(s)
    <3>1. PICK s \in CSlots : Blame(s)
      BY <2>1
    <3>2. owner[s] \in Tiers
      BY <3>1 DEF RoomInv, RoomTypeOK, Blame
    <3>3. fails[owner[s]] + 1 \in Nat
      BY <1>2, <3>2
    <3> QED
      BY <1>2, <3>1, <3>3 DEF Blame
  <2>2. CASE ClearJobGuilt
    BY <1>2, <2>2 DEF ClearJobGuilt
  <2>3. CASE \E b \in BOOLEAN : InvalidateBase(b)
    BY <1>2, <2>3 DEF InvalidateBase
  <2> QED
    BY <2>1, <2>2, <2>3
<1> QED
  BY <1>1, <1>3, RoomLeftAlone DEF Extends
-------------------------------------------------------------------------------
\* What the admission does

LEMMA AdmitStart ==
  ASSUME Configured, CascInit
  PROVE  AdmitInv
<1> USE DEF CascInit
<1>0. tiers \in Seq(Tiers) /\ Undecided \subseteq Tiers
  BY RoomStart DEF RoomInv, RoomTypeOK, Configured
<1>1. Admitted \cap Undecided = {}
  BY DEF Admitted
<1>2. AdmitTypeOK
  BY <1>0 DEF AdmitTypeOK, NoAdm, Underway, NoTier
<1>3. EachOnce
  <2>1. DOMAIN tiers = 1..Len(tiers) /\ Len(tiers) \in Nat
    BY <1>0
  <2>2. \A k \in DOMAIN tiers : tiers[k] \in Tiers
    BY <1>0, <2>1
  <2>3. \A k \in DOMAIN tiers : k \in Int /\ tiers[k] \in Int
    <3>1. \A i \in Tiers : i \in Int
      BY DEF Tiers, Configured
    <3>2. \A k \in 1..Len(tiers) : k \in Int
      BY <2>1
    <3> QED
      BY <2>1, <2>2, <3>1, <3>2
  <2>4. \A k, l \in DOMAIN tiers : k < l => tiers[k] < tiers[l]
    OBVIOUS
  <2>5. ASSUME NEW k \in DOMAIN tiers, NEW l \in DOMAIN tiers, tiers[k] = tiers[l]
        PROVE  k = l
    <3>1. ~(k < l) /\ ~(l < k)
      <4>1. ~(tiers[k] < tiers[l]) /\ ~(tiers[l] < tiers[k])
        <5>1. tiers[k] \in Int /\ tiers[l] \in Int
          BY <2>3
        <5> QED
          BY <5>1, <2>5
      <4> QED
        BY <2>4, <4>1
    <3> QED
      BY <2>3, <3>1
  <2> QED
    BY <2>5 DEF EachOnce
<1>4. Waiting
  BY <1>1 DEF Waiting, NoAdm, Probed, Underway
<1>5. SweptOrOwed
  BY <1>1 DEF SweptOrOwed
<1> QED
  BY <1>2, <1>3, <1>4, <1>5 DEF AdmitInv

\* A tier that is admitted once stays admitted, and is there once.
LEMMA AdmittedMore ==
  ASSUME tiers \in Seq(Tiers), EachOnce, NEW d \in Tiers, d \notin Admitted, tiers' = Append(tiers, d)
  PROVE  EachOnce' /\ Admitted' = Admitted \cup {d}
<1>1. /\ tiers' \in Seq(Tiers) /\ Len(tiers) \in Nat /\ Len(tiers') = Len(tiers) + 1
      /\ DOMAIN tiers = 1..Len(tiers) /\ DOMAIN tiers' = 1..(Len(tiers) + 1)
      /\ \A k \in 1..Len(tiers) : tiers'[k] = tiers[k]
      /\ tiers'[Len(tiers) + 1] = d
  OBVIOUS
<1>2. \A k \in DOMAIN tiers' : k \in DOMAIN tiers \/ k = Len(tiers) + 1
  BY <1>1
<1>3. \A k \in DOMAIN tiers : tiers[k] # d /\ k \in DOMAIN tiers' /\ tiers'[k] = tiers[k]
  BY <1>1 DEF Admitted
<1>4. Len(tiers) + 1 \in DOMAIN tiers'
  BY <1>1
<1>5. EachOnce'
  BY <1>1, <1>2, <1>3 DEF EachOnce
<1>6. Admitted' = Admitted \cup {d}
  BY <1>1, <1>2, <1>3, <1>4 DEF Admitted
<1> QED
  BY <1>5, <1>6

LEMMA SameAdmitted ==
  ASSUME UNCHANGED tiers
  PROVE  Admitted' = Admitted /\ (EachOnce => EachOnce')
  BY DEF Admitted, EachOnce

\* The steps before a tier is probed: the list of sweeps that are owed.
LEMMA OwedKept ==
  ASSUME AdmitInv, AdmitBegins \/ TakeOwed \/ RunOwed \/ OwedSwept
  PROVE  AdmitInv'
<1>0. AdmitTypeOK /\ EachOnce /\ Waiting /\ SweptOrOwed
  BY DEF AdmitInv
<1>1. UNCHANGED <<tiers, deferred>>
  BY DEF AdmitBegins, TakeOwed, RunOwed, OwedSwept
<1>2. Admitted' = Admitted /\ EachOnce'
  BY <1>0, <1>1, SameAdmitted
<1>3. CASE AdmitBegins
  <2>1. adm' = [NoAdm EXCEPT !.pc = "owed", !.pending = deferred] /\ UNCHANGED <<owed, verdict>>
        /\ adm.pc = "idle"
    BY <1>3 DEF AdmitBegins, AAt
  <2>2. /\ adm'.pc = "owed" /\ adm'.pending = deferred /\ adm'.todo = {} /\ adm'.still = {}
        /\ adm'.cur = NoTier
    BY <2>1 DEF NoAdm
  <2>3. AdmitTypeOK'
    BY <1>0, <1>1, <2>1 DEF AdmitTypeOK, NoAdm, Underway
  <2>4. Waiting'
    BY <1>0, <1>1, <1>2, <2>1, <2>2 DEF Waiting, Probed
  <2>5. SweptOrOwed'
    BY <1>0, <1>1, <1>2, <2>1, <2>2 DEF SweptOrOwed, Waiting
  <2> QED
    BY <1>2, <2>3, <2>4, <2>5 DEF AdmitInv
<1>4. CASE TakeOwed \/ RunOwed \/ OwedSwept
  <2>0. adm \in [pc : {"idle"} \cup Underway, todo : SUBSET Tiers, pending : SUBSET Tiers,
                 still : SUBSET Tiers, cur : Tiers \cup {NoTier}]
        /\ (adm.pc = "owed" => adm.todo = {}) /\ (adm.pc = "owing" => adm.cur \in Tiers)
        /\ verdict \in [swept : SUBSET Tiers, dropped : SUBSET Tiers] /\ owed \subseteq Tiers
    BY <1>0 DEF AdmitTypeOK, Waiting
  <2>1. adm.pc \in {"owed", "sweeps", "owing"} /\ verdict' \in [swept : SUBSET Tiers, dropped : SUBSET Tiers]
        /\ verdict'.dropped = verdict.dropped /\ owed' \subseteq Tiers
    <3>1. CASE TakeOwed \/ RunOwed
      BY <2>0, <3>1 DEF TakeOwed, RunOwed, AAt
    <3>2. CASE OwedSwept
      BY <2>0, <3>2 DEF OwedSwept, SweepCur, AAt
    <3> QED
      BY <1>4, <3>1, <3>2
  <2>2. /\ \/ adm' = NoAdm
           \/ /\ adm' \in [pc : {"sweeps", "owing", "next"}, todo : SUBSET Tiers, pending : {adm.pending},
                           still : {adm.still}, cur : Tiers \cup {NoTier}]
              /\ adm'.pc = "next" => adm'.todo = {}
              /\ adm'.pc = "owing" => adm'.cur \in Tiers
        /\ verdict.swept \cup owed \cup adm.todo \subseteq verdict'.swept \cup owed' \cup adm'.todo
    <3>1. CASE TakeOwed
      BY <2>0, <3>1 DEF TakeOwed, AAt, NoAdm
    <3>2. CASE RunOwed
      <4>1. CASE adm.todo = {}
        BY <2>0, <3>2, <4>1 DEF RunOwed, AAt, NoAdm
      <4>2. CASE adm.todo # {} /\ closing
        BY <2>0, <3>2, <4>2 DEF RunOwed, AAt, NoAdm
      <4>3. CASE adm.todo # {} /\ ~closing
        <5>1. PICK d \in adm.todo : adm' = [adm EXCEPT !.pc = "owing", !.cur = d]
          BY <3>2, <4>3 DEF RunOwed
        <5>2. UNCHANGED <<owed, verdict>>
          BY <3>2, <4>3 DEF RunOwed
        <5>3. d \in Tiers
          BY <2>0
        <5> QED
          BY <2>0, <5>1, <5>2, <5>3
      <4> QED
        BY <4>1, <4>2, <4>3
    <3>3. CASE OwedSwept
      <4>1. /\ adm' = [adm EXCEPT !.pc = "sweeps", !.todo = @ \ {adm.cur}]
            /\ \/ verdict' = [verdict EXCEPT !.swept = @ \cup {adm.cur}] /\ UNCHANGED owed
               \/ owed' = owed \cup {adm.cur} /\ UNCHANGED verdict
        BY <3>3 DEF OwedSwept, SweepCur
      <4>2. adm' \in [pc : {"sweeps", "owing", "next"}, todo : SUBSET Tiers, pending : {adm.pending},
                      still : {adm.still}, cur : Tiers \cup {NoTier}]
            /\ adm'.pc = "sweeps" /\ adm'.todo = adm.todo \ {adm.cur}
        BY <2>0, <4>1
      <4>3. verdict.swept \cup owed \cup {adm.cur} \subseteq verdict'.swept \cup owed'
        BY <2>0, <4>1
      <4> QED
        BY <4>2, <4>3
    <3> QED
      BY <1>4, <3>1, <3>2, <3>3
  <2>3. \A d \in verdict.swept \cup owed \cup adm.todo : d \in verdict'.swept \cup owed' \cup adm'.todo
    BY <2>2
  <2>4. AdmitTypeOK'
    BY <1>0, <1>1, <2>1, <2>2 DEF AdmitTypeOK, NoAdm, Underway
  <2>5. Waiting'
    BY <1>0, <1>1, <1>2, <2>1, <2>2 DEF Waiting, Probed, NoAdm
  <2>6. SweptOrOwed'
    BY <1>0, <1>1, <1>2, <2>1, <2>3 DEF SweptOrOwed
  <2> QED
    BY <1>2, <2>4, <2>5, <2>6 DEF AdmitInv
<1> QED
  BY <1>3, <1>4
\* The steps that probe a tier without admitting one.
LEMMA ProbeKept ==
  ASSUME AdmitInv, ProbeNext \/ ProbeBuilds \/ ProbeSweeps \/ LateSwept
  PROVE  AdmitInv'
<1>0. AdmitTypeOK /\ EachOnce /\ Waiting /\ SweptOrOwed
      /\ adm \in [pc : {"idle"} \cup Underway, todo : SUBSET Tiers, pending : SUBSET Tiers,
                  still : SUBSET Tiers, cur : Tiers \cup {NoTier}]
      /\ verdict \in [swept : SUBSET Tiers, dropped : SUBSET Tiers]
  BY DEF AdmitInv, AdmitTypeOK
<1>1. UNCHANGED <<tiers, deferred>>
  BY DEF ProbeNext, ProbeBuilds, ProbeSweeps, LateSwept
<1>2. Admitted' = Admitted /\ EachOnce'
  BY <1>0, <1>1, SameAdmitted
<1>3. CASE ProbeNext
  <2>1. UNCHANGED <<owed, verdict>> /\ adm.pc = "next"
    BY <1>3 DEF ProbeNext, AAt
  <2>2. CASE adm.pending = {} \/ closing
    <3>1. /\ adm'.pc = "finish" /\ adm'.pending = {} /\ adm'.still = adm.still \cup adm.pending
          /\ adm'.todo = adm.todo /\ adm'.cur = adm.cur
      BY <1>0, <1>3, <2>2 DEF ProbeNext, AGo
    <3>2. AdmitTypeOK'
      <4>1. \/ adm' = [adm EXCEPT !.pc = "finish"]
            \/ adm' = [adm EXCEPT !.pc = "finish", !.still = @ \cup adm.pending, !.pending = {}]
        BY <1>3, <2>2 DEF ProbeNext, AGo
      <4> QED
        BY <1>0, <1>1, <2>1, <4>1 DEF AdmitTypeOK, Underway
    <3>3. Waiting'
      BY <1>0, <1>1, <1>2, <2>1, <3>1 DEF Waiting, Probed
    <3>4. SweptOrOwed'
      BY <1>0, <1>1, <1>2, <2>1, <3>1 DEF SweptOrOwed
    <3> QED
      BY <1>2, <3>2, <3>3, <3>4 DEF AdmitInv
  <2>3. CASE adm.pending # {} /\ ~closing
    <3>1. PICK d \in adm.pending :
            adm' = [adm EXCEPT !.pc = "build", !.cur = d, !.pending = @ \ {d}]
      BY <1>3, <2>3 DEF ProbeNext
    <3>2. /\ adm'.pc = "build" /\ adm'.pending = adm.pending \ {d} /\ adm'.still = adm.still
          /\ adm'.todo = adm.todo /\ adm'.cur = d /\ d \in Tiers
      BY <1>0, <3>1
    <3>3. AdmitTypeOK'
      BY <1>0, <1>1, <2>1, <3>1, <3>2 DEF AdmitTypeOK, Underway
    <3>4. Waiting'
      BY <1>0, <1>1, <1>2, <2>1, <3>1, <3>2 DEF Waiting, Probed
    <3>5. SweptOrOwed'
      BY <1>0, <1>1, <1>2, <2>1, <3>2 DEF SweptOrOwed
    <3> QED
      BY <1>2, <3>3, <3>4, <3>5 DEF AdmitInv
  <2> QED
    BY <2>2, <2>3
<1>4. CASE ProbeBuilds
  <2>1. UNCHANGED owed /\ adm.pc = "build" /\ adm.cur \in Tiers /\ adm.cur \notin Admitted
    BY <1>0, <1>4 DEF ProbeBuilds, AAt, Waiting, Probed
  <2>2. \/ adm' = [adm EXCEPT !.pc = "next", !.still = @ \cup {adm.cur}] /\ UNCHANGED verdict
        \/ /\ adm' = [adm EXCEPT !.pc = "next"]
           /\ verdict' = [verdict EXCEPT !.dropped = @ \cup {adm.cur}]
        \/ adm' = [adm EXCEPT !.pc = "admit"] /\ UNCHANGED verdict
    BY <1>4 DEF ProbeBuilds, AGo
  <2>3. /\ adm'.pending = adm.pending /\ adm'.todo = adm.todo /\ adm'.cur = adm.cur
        /\ \/ adm'.pc = "next" /\ adm'.still = adm.still \cup {adm.cur} /\ UNCHANGED verdict
           \/ adm'.pc = "next" /\ adm'.still = adm.still /\ verdict'.swept = verdict.swept
              /\ verdict'.dropped = verdict.dropped \cup {adm.cur}
           \/ adm'.pc = "admit" /\ adm'.still = adm.still /\ UNCHANGED verdict
    BY <1>0, <2>2
  <2>4. AdmitTypeOK'
    <3>1. verdict' \in [swept : SUBSET Tiers, dropped : SUBSET Tiers]
      BY <1>0, <2>1, <2>2
    <3>2. adm' \in [pc : {"idle"} \cup Underway, todo : SUBSET Tiers, pending : SUBSET Tiers,
                   still : SUBSET Tiers, cur : Tiers \cup {NoTier}]
      <4>1. CASE adm' = [adm EXCEPT !.pc = "next", !.still = @ \cup {adm.cur}]
        BY <1>0, <2>1, <4>1 DEF Underway
      <4>2. CASE adm' = [adm EXCEPT !.pc = "next"] \/ adm' = [adm EXCEPT !.pc = "admit"]
        BY <1>0, <4>2 DEF Underway
      <4> QED
        BY <2>2, <4>1, <4>2
    <3> QED
      BY <1>0, <1>1, <2>1, <3>1, <3>2 DEF AdmitTypeOK
  <2>5. Waiting'
    BY <1>0, <1>1, <1>2, <2>1, <2>3 DEF Waiting, Probed
  <2>6. SweptOrOwed'
    BY <1>0, <1>1, <1>2, <2>1, <2>3 DEF SweptOrOwed
  <2> QED
    BY <1>2, <2>4, <2>5, <2>6 DEF AdmitInv
<1>5. CASE ProbeSweeps /\ ~closing
  <2>1. /\ adm.pc = "sweep" /\ adm.cur \in Tiers /\ adm' = [adm EXCEPT !.pc = "sweeping"]
        /\ UNCHANGED <<owed, verdict>>
    BY <1>0, <1>5 DEF ProbeSweeps, AAt, AGo, Waiting
  <2>2. /\ adm'.pending = adm.pending /\ adm'.todo = adm.todo /\ adm'.cur = adm.cur
        /\ adm'.pc = "sweeping" /\ adm'.still = adm.still
    BY <1>0, <2>1
  <2>3. AdmitTypeOK'
    BY <1>0, <1>1, <2>1 DEF AdmitTypeOK, Underway
  <2>4. Waiting'
    BY <1>0, <1>1, <1>2, <2>1, <2>2 DEF Waiting, Probed
  <2>5. SweptOrOwed'
    BY <1>0, <1>1, <1>2, <2>1, <2>2 DEF SweptOrOwed
  <2> QED
    BY <1>2, <2>3, <2>4, <2>5 DEF AdmitInv
<1>6. CASE LateSwept \/ (ProbeSweeps /\ closing)
  <2>1. adm.pc \in {"sweep", "sweeping"} /\ adm.cur \in Tiers /\ adm' = [adm EXCEPT !.pc = "next"]
    BY <1>0, <1>6 DEF LateSwept, ProbeSweeps, AAt, AGo, Waiting
  <2>2. \/ verdict' = [verdict EXCEPT !.swept = @ \cup {adm.cur}] /\ UNCHANGED owed
        \/ owed' = owed \cup {adm.cur} /\ UNCHANGED verdict
    BY <1>6 DEF LateSwept, SweepCur, ProbeSweeps
  <2>3. /\ adm'.pending = adm.pending /\ adm'.todo = adm.todo /\ adm'.cur = adm.cur
        /\ adm'.pc = "next" /\ adm'.still = adm.still /\ verdict'.dropped = verdict.dropped
        /\ verdict.swept \cup owed \cup {adm.cur} \subseteq verdict'.swept \cup owed'
    BY <1>0, <2>1, <2>2
  <2>4. AdmitTypeOK'
    BY <1>0, <1>1, <2>1, <2>2 DEF AdmitTypeOK, Underway
  <2>5. Waiting'
    BY <1>0, <1>1, <1>2, <2>1, <2>3 DEF Waiting, Probed
  <2>6. SweptOrOwed'
    BY <1>0, <1>1, <1>2, <2>1, <2>3 DEF SweptOrOwed
  <2> QED
    BY <1>2, <2>4, <2>5, <2>6 DEF AdmitInv
<1> QED
  BY <1>3, <1>4, <1>5, <1>6

\* The step that admits a tier, or does not, and the end of the probes.
LEMMA AdmitsKept ==
  ASSUME AdmitInv, ProbeAdmits \/ ProbeEnds
  PROVE  AdmitInv' /\ Extends
<1>0. AdmitTypeOK /\ EachOnce /\ Waiting /\ SweptOrOwed /\ tiers \in Seq(Tiers)
      /\ adm \in [pc : {"idle"} \cup Underway, todo : SUBSET Tiers, pending : SUBSET Tiers,
                  still : SUBSET Tiers, cur : Tiers \cup {NoTier}]
      /\ verdict \in [swept : SUBSET Tiers, dropped : SUBSET Tiers]
  BY DEF AdmitInv, AdmitTypeOK
<1>1. CASE ProbeEnds
  <2>1. UNCHANGED <<tiers, owed, verdict>> /\ adm.pc = "finish" /\ adm' = NoAdm
        /\ deferred' = adm.still \ Admitted
    BY <1>1 DEF ProbeEnds, AAt
  <2>2. Admitted' = Admitted /\ EachOnce'
    BY <1>0, <2>1, SameAdmitted
  <2>3. AdmitTypeOK'
    BY <1>0, <2>1 DEF AdmitTypeOK, NoAdm, Underway
  <2>4. Waiting'
    BY <1>0, <2>1, <2>2 DEF Waiting, Probed, NoAdm
  <2>5. SweptOrOwed'
    <3>1. deferred \ (verdict.dropped \cup Admitted) \subseteq adm.still /\ adm.todo = {}
      BY <1>0, <2>1 DEF Waiting, Probed
    <3> QED
      BY <1>0, <2>1, <2>2, <3>1 DEF SweptOrOwed
  <2> QED
    BY <2>1, <2>2, <2>3, <2>4, <2>5 DEF AdmitInv, Extends
<1>2. CASE ProbeAdmits
  <2>1. UNCHANGED <<deferred, owed>> /\ adm.pc = "admit" /\ adm.cur \in Tiers
        /\ adm.cur \notin Admitted /\ adm.cur \notin adm.pending /\ adm.pending \cap Admitted = {}
        /\ adm.todo = {}
    BY <1>0, <1>2 DEF ProbeAdmits, AAt, Waiting, Probed
  <2>2. CASE /\ verdict' = [verdict EXCEPT !.dropped = @ \cup {adm.cur}]
             /\ adm' = [adm EXCEPT !.pc = "next"] /\ UNCHANGED tiers
    <3>1. /\ adm'.pending = adm.pending /\ adm'.todo = adm.todo /\ adm'.cur = adm.cur
          /\ adm'.pc = "next" /\ adm'.still = adm.still /\ verdict'.swept = verdict.swept
          /\ verdict'.dropped = verdict.dropped \cup {adm.cur}
      BY <1>0, <2>2
    <3>2. Admitted' = Admitted /\ EachOnce'
      BY <1>0, <2>2, SameAdmitted
    <3>3. AdmitTypeOK'
      BY <1>0, <2>1, <2>2 DEF AdmitTypeOK, Underway
    <3>4. Waiting'
      BY <1>0, <2>1, <3>1, <3>2 DEF Waiting, Probed
    <3>5. SweptOrOwed'
      BY <1>0, <2>1, <3>1, <3>2 DEF SweptOrOwed
    <3> QED
      BY <2>2, <3>2, <3>3, <3>4, <3>5 DEF AdmitInv, Extends
  <2>3. CASE /\ adm' = [adm EXCEPT !.pc = "finish", !.pending = {},
                                   !.still = @ \cup {adm.cur} \cup adm.pending]
             /\ UNCHANGED <<tiers, verdict>>
    <3>1. /\ adm'.pending = {} /\ adm'.todo = adm.todo /\ adm'.cur = adm.cur
          /\ adm'.pc = "finish" /\ adm'.still = adm.still \cup {adm.cur} \cup adm.pending
      BY <1>0, <2>3
    <3>2. Admitted' = Admitted /\ EachOnce'
      BY <1>0, <2>3, SameAdmitted
    <3>3. AdmitTypeOK'
      BY <1>0, <2>1, <2>3 DEF AdmitTypeOK, Underway
    <3>4. Waiting'
      BY <1>0, <2>1, <2>3, <3>1, <3>2 DEF Waiting, Probed
    <3>5. SweptOrOwed'
      BY <1>0, <2>1, <2>3, <3>1, <3>2 DEF SweptOrOwed
    <3> QED
      BY <2>3, <3>2, <3>3, <3>4, <3>5 DEF AdmitInv, Extends
  <2>4. CASE tiers' = Append(tiers, adm.cur) /\ adm' = [adm EXCEPT !.pc = "sweep"] /\ UNCHANGED verdict
    <3>1. /\ adm'.pending = adm.pending /\ adm'.todo = adm.todo /\ adm'.cur = adm.cur
          /\ adm'.pc = "sweep" /\ adm'.still = adm.still
      BY <1>0, <2>4
    <3>2. Admitted' = Admitted \cup {adm.cur} /\ EachOnce'
      <4>1. PICK d \in Tiers : d = adm.cur
        BY <2>1
      <4> QED
        BY <1>0, <2>1, <2>4, <4>1, AdmittedMore
    <3>3. AdmitTypeOK'
      <4>1. tiers' \in Seq(Tiers)
        BY <1>0, <2>1, <2>4
      <4> QED
        BY <1>0, <2>1, <2>4, <4>1 DEF AdmitTypeOK, Underway
    <3>4. Waiting'
      BY <1>0, <2>1, <2>4, <3>1, <3>2 DEF Waiting, Probed
    <3>5. SweptOrOwed'
      BY <1>0, <2>1, <2>4, <3>1, <3>2 DEF SweptOrOwed
    <3> QED
      BY <2>1, <2>4, <3>2, <3>3, <3>4, <3>5 DEF AdmitInv, Extends
  <2> QED
    BY <1>2, <2>2, <2>3, <2>4 DEF ProbeAdmits, AGo
<1> QED
  BY <1>1, <1>2
-------------------------------------------------------------------------------
\* The invariant is inductive

LEMMA CascStart ==
  ASSUME Configured, CascInit
  PROVE  CascInv
  BY RoomStart, AdmitStart DEF CascInv

\* The steps of one half leave the invariant of the other alone.
LEMMA UsesLeaveAdmission ==
  ASSUME AdmitInv, UNCHANGED <<tiers, admVars>>
  PROVE  AdmitInv'
  BY DEF AdmitInv, AdmitTypeOK, EachOnce, Waiting, Probed, SweptOrOwed, Admitted, admVars

LEMMA CascStep ==
  ASSUME Configured, CascInv, [CascNext]_cascVars
  PROVE  CascInv'
<1>0. RoomInv /\ AdmitInv
  BY DEF CascInv
<1>1. CASE \E x \in SpawnThreads : SpawnBegins(x) \/ SpawnStep(x)
  <2>1. RoomInv'
    BY <1>0, <1>1, BeginsKept, TryKept, SucceedsKept, RefusedKept, RepairKept, OwnsKept DEF SpawnStep
  <2>2. UNCHANGED <<tiers, admVars>>
    BY <1>1 DEF SpawnStep, SpawnBegins, TryTier, SpawnSucceeds, SpawnRefused, SpawnFails, Repair, SpawnOwns
  <2> QED
    BY <1>0, <2>1, <2>2, UsesLeaveAdmission DEF CascInv
<1>2. CASE \/ \E s \in CSlots : ReapBegins(s) \/ ReapCalls(s) \/ ReapForgets(s) \/ Blame(s)
           \/ ClearJobGuilt \/ \E b \in BOOLEAN : InvalidateBase(b)
  <2>1. RoomInv'
    BY <1>0, <1>2, ReapKept, ForgetsKept, BlameKept
  <2>2. UNCHANGED <<tiers, admVars>>
    BY <1>2 DEF ReapBegins, ReapCalls, ReapForgets, Blame, ClearJobGuilt, InvalidateBase
  <2> QED
    BY <1>0, <2>1, <2>2, UsesLeaveAdmission DEF CascInv
<1>3. CASE AdmitBegins \/ AdmitStep
  <2>1. AdmitInv'
    BY <1>0, <1>3, OwedKept, ProbeKept, AdmitsKept DEF AdmitStep
  <2>2. Extends /\ UNCHANGED useVars
    BY <1>0, <1>3, AdmitsKept DEF AdmitStep, AdmitBegins, TakeOwed, RunOwed, OwedSwept, ProbeNext, ProbeBuilds,
       ProbeSweeps, LateSwept, ProbeAdmits, ProbeEnds, Extends
  <2>3. fails' \in [Tiers -> Nat]
    BY <1>0, <2>2 DEF useVars, RoomInv, RoomTypeOK
  <2>4. RoomInv'
    BY <1>0, <2>2, <2>3, RoomLeftAlone DEF useVars
  <2> QED
    BY <2>1, <2>4 DEF CascInv
<1>4. CASE BeginClose \/ Reopen
  <2>1. UNCHANGED <<tiers, useVars, deferred, owed, adm, verdict>>
    BY <1>4 DEF BeginClose, Reopen
  <2>2. AdmitInv'
    BY <1>0, <2>1 DEF AdmitInv, AdmitTypeOK, EachOnce, Waiting, Probed, SweptOrOwed, Admitted
  <2>3. fails' \in [Tiers -> Nat]
    BY <1>0, <2>1 DEF useVars, RoomInv, RoomTypeOK
  <2>4. RoomInv'
    BY <1>0, <2>1, <2>3, RoomLeftAlone DEF useVars, Extends
  <2> QED
    BY <2>2, <2>4 DEF CascInv
<1>5. CASE UNCHANGED cascVars
  <2>1. fails' \in [Tiers -> Nat] /\ UNCHANGED <<tiers, counts, owner, backend, sp, reaps, admVars>>
    BY <1>0, <1>5 DEF cascVars, admVars, RoomInv, RoomTypeOK
  <2> QED
    BY <1>0, <2>1, RoomLeftAlone, UsesLeaveAdmission DEF Extends, CascInv
<1> QED
  BY <1>1, <1>2, <1>3, <1>4, <1>5 DEF CascNext

\* What the invariant says of the room: a worker is in the books of its tier or in
\* the hands of a thread that counts for the tier.
LEMMA RoomFollows ==
  ASSUME Configured, RoomInv
  PROVE  TierRoomExact
<1> SUFFICES ASSUME NEW i \in Tiers
             PROVE  /\ Cardinality({s \in CSlots : backend[s] = i}) <= Capacity[i]
                    /\ counts[i] = Cardinality({s \in CSlots : owner[s] = i}) +
                         Cardinality({x \in SpawnThreads : sp[x].pc \in {"call", "own"} /\ T(x) = i})
  BY DEF TierRoomExact
<1> DEFINE own == {sp[x].slot : x \in Spawning(i)}
           alive == {s \in CSlots : backend[s] = i}
<1>1. counts[i] = Cardinality(Owned(i)) + Cardinality(Spawning(i)) /\ counts[i] <= Capacity[i]
  BY DEF RoomInv, BooksBalance, Books
<1>2. IsFiniteSet(Owned(i)) /\ IsFiniteSet(Spawning(i)) /\ Cardinality(Owned(i)) \in Nat
      /\ Cardinality(Spawning(i)) \in Nat /\ Capacity[i] \in Nat
  BY Counted DEF Configured
<1>3. IsFiniteSet(own) /\ Cardinality(own) <= Cardinality(Spawning(i))
  <2> DEFINE f == [x \in Spawning(i) |-> sp[x].slot]
  <2>1. f \in Surjection(Spawning(i), own)
    BY DEF Surjection
  <2> HIDE DEF f, own
  <2> QED
    BY <1>2, <2>1, FS_Surjection
<1>4. IsFiniteSet(Owned(i) \cup own)
      /\ Cardinality(Owned(i) \cup own) <= Cardinality(Owned(i)) + Cardinality(own)
  <2>1. IsFiniteSet(Owned(i) \cap own)
    BY <1>2, FS_Intersection
  <2>2. Cardinality(Owned(i) \cap own) \in Nat /\ Cardinality(own) \in Nat
    BY <1>3, <2>1, FS_CardinalityType
  <2>3. /\ IsFiniteSet(Owned(i) \cup own)
        /\ Cardinality(Owned(i) \cup own) =
             Cardinality(Owned(i)) + Cardinality(own) - Cardinality(Owned(i) \cap own)
    BY <1>2, <1>3, FS_Union
  <2> QED
    BY <1>2, <2>2, <2>3
<1>5. alive \subseteq Owned(i) \cup own
  <2> SUFFICES ASSUME NEW s \in CSlots, backend[s] = i, owner[s] # i
               PROVE  s \in own
    BY DEF Owned
  <2>1. i # NoTier
    BY DEF Tiers, NoTier
  <2>2. PICK x \in SpawnThreads : sp[x].pc = "own" /\ sp[x].slot = s
    BY <2>1 DEF RoomInv, Staffed
  <2>3. x \in Spawning(i)
    BY <2>2 DEF RoomInv, Placed, Spawning
  <2> QED
    BY <2>2, <2>3
<1>6. Cardinality(alive) <= Cardinality(Owned(i) \cup own) /\ IsFiniteSet(alive)
  BY <1>4, <1>5, FS_Subset
<1>7. Cardinality(alive) \in Nat /\ Cardinality(own) \in Nat /\ Cardinality(Owned(i) \cup own) \in Nat
  BY <1>3, <1>4, <1>6, FS_CardinalityType
<1>8. Cardinality(alive) <= Capacity[i]
  <2>1. counts[i] \in Nat
    BY <1>1, <1>2
  <2> HIDE DEF alive, own
  <2> QED
    BY <1>1, <1>2, <1>3, <1>4, <1>6, <1>7, <2>1
<1> QED
  BY <1>1, <1>8 DEF Owned, Spawning

\* What it says of the admission: no tier twice, so as many as the list is long.
LEMMA AccountFollows ==
  ASSUME AdmitInv
  PROVE  TierAccountedFor
<1>1. tiers \in Seq(Tiers) /\ EachOnce /\ SweptOrOwed
  BY DEF AdmitInv, AdmitTypeOK
<1>2. DOMAIN tiers = 1..Len(tiers) /\ Len(tiers) \in Nat
  BY <1>1
<1>3. IsFiniteSet(1..Len(tiers)) /\ Cardinality(1..Len(tiers)) = Len(tiers)
  <2>1. PICK n \in Nat : n = Len(tiers)
    BY <1>2
  <2>2. IsFiniteSet(1..n) /\ Cardinality(1..n) = IF 1 > n THEN 0 ELSE n - 1 + 1
    BY FS_Interval
  <2>3. (IF 1 > n THEN 0 ELSE n - 1 + 1) = n
    OBVIOUS
  <2> QED
    BY <2>1, <2>2, <2>3
<1>4. ExistsBijection(1..Len(tiers), Admitted)
  <2>1. tiers \in [1..Len(tiers) -> Admitted]
    BY <1>1, <1>2 DEF Admitted
  <2>2. tiers \in Bijection(1..Len(tiers), Admitted)
    BY <1>1, <1>2, <2>1 DEF Bijection, Injection, Surjection, IsInjective, EachOnce, Admitted
  <2> QED
    BY <2>2 DEF ExistsBijection
<1>5. Cardinality(Admitted) = Len(tiers)
  BY <1>3, <1>4, FS_Bijection
<1> QED
  BY <1>1, <1>5 DEF TierAccountedFor, SweptOrOwed, AAt

-------------------------------------------------------------------------------
\* Theorems

THEOREM CascTyped ==
  ASSUME Configured
  PROVE  CascSpec => []CascInv
<1>1. CascInit => CascInv
  BY CascStart
<1>2. CascInv /\ [CascNext]_cascVars => CascInv'
  BY CascStep
<1> QED
  BY <1>1, <1>2, PTL DEF CascSpec

\* No tier has more workers than its capacity, and the room it accounts for is the
\* workers it owns and the spawns under way, whatever spawns, refusals, failures
\* and reaps of any number of threads overlap (spawn, reap).
THEOREM RoomStaysExact ==
  ASSUME Configured
  PROVE  CascSpec => []TierRoomExact
<1>1. CascInv => TierRoomExact
  BY RoomFollows DEF CascInv
<1> QED
  BY <1>1, CascTyped, PTL

\* A deferred tier is never lost, none is admitted twice, and a late one is swept
\* or owed its sweep, wherever a shutdown cuts into the admission (_admit_probe,
\* _run_owed_sweeps, begin_close, reopen).
THEOREM TiersStayAccounted ==
  ASSUME Configured
  PROVE  CascSpec => []TierAccountedFor
<1>1. CascInv => TierAccountedFor
  BY AccountFollows DEF CascInv
<1> QED
  BY <1>1, CascTyped, PTL

-------------------------------------------------------------------------------
\* The warm worker protocol

SlotRecords ==
  [guest : {"none", "wait", "took", "run", "ended", "gone", "refused"}, pin : Nat, image : Images,
   go : BOOLEAN, started : BOOLEAN, done : {"no", "ok", "idle_timeout", "closed"},
   output : {"none", "part", "whole"}, host : {"free", "sent", "look", "read", "told", "judged"},
   told : {"unknown", "no", "yes"}, late : BOOLEAN,
   charge : {"none", "host", "worker", "pre_guest", "clean", "job"}]
AckRecords == [epoch : {"none", "at"} \X Nat, capable : BOOLEAN, pending : SUBSET Nat]

WarmTypeOK ==
  /\ epoch \in Nat /\ attempts \in Nat /\ full \in BOOLEAN
  /\ base \in Images \cup {"none"}
  /\ build \in [phase : {"none", "booting", "ready"}, epoch : Nat, image : Images]
  /\ ack \in AckRecords
  /\ slot \in [WarmSlots -> SlotRecords]

\* The capability is that of the published artifact, and only of an image that speaks; a base
\* that is built is of this epoch or an invalidated one, and only its own READY is remembered.
Credited ==
  /\ base # "none" => ack.epoch = <<"at", epoch>> /\ (ack.capable => base = "speaks")
  /\ build.phase # "none" => base = "none"
  /\ build.phase = "booting" => ack.pending = {}
  /\ build.phase = "ready" => \A e \in ack.pending : e = build.epoch /\ build.image = "speaks"

\* A slot is of the published artifact or of one whose epoch has passed.
Pinned(r) ==
  r.host # "free" => /\ r.pin <= epoch
                     /\ r.pin = epoch => r.image = base
                     /\ CapableFor(r.pin) => r.image = "speaks"

\* Two slots of one epoch were restored from one artifact.
OneImage(r, q) == r.host # "free" /\ q.host # "free" /\ r.pin = q.pin => r.image = q.image

Busy == {"wait", "took", "run"}

\* What a slot's guest left behind and the host heard is evidence.
Evident(r) ==
  /\ r.host = "free" => r.charge = "none" /\ r.guest = "none"
  /\ r.started \/ r.told = "no" => r.image = "speaks"
  /\ ~r.go => r.guest \in {"none", "wait", "gone"}
  /\ r.guest # "ended" => r.output = "none"
  /\ r.done # "no" => r.guest \notin Busy
  /\ r.done = "closed" => r.guest # "ended"
  /\ r.host = "told" => r.done # "no"
  /\ Seam = "file" /\ r.guest = "refused" => full /\ r.done = "no"

\* A slot is charged on that evidence.
Charged(r) ==
  /\ r.charge = "pre_guest" => r.image = "speaks" /\ (Seam = "file" => r.guest # "refused")
  /\ r.charge # "none" => r.host = "judged"
  /\ r.charge \in {"worker", "pre_guest"} /\ ~r.late => r.guest \notin Busy /\ r.output # "whole"

WarmInv ==
  /\ WarmTypeOK /\ Credited
  /\ \A s \in WarmSlots : Pinned(slot[s]) /\ Evident(slot[s]) /\ Charged(slot[s])
  /\ \A s, t \in WarmSlots : OneImage(slot[s], slot[t])

LEMMA FreeIsOne == Free \in SlotRecords /\ Evident(Free) /\ Charged(Free) /\ Free.host = "free"
  BY DEF Free, SlotRecords, Evident, Charged, Images, Busy

LEMMA WarmInitially == WarmInit => WarmInv
<1> SUFFICES ASSUME WarmInit PROVE WarmInv
  OBVIOUS
<1>1. \A s \in WarmSlots : slot[s] = Free
  BY DEF WarmInit
<1>2. ack \in AckRecords
  BY DEF WarmInit, AckRecords
<1>3. build \in [phase : {"none", "booting", "ready"}, epoch : Nat, image : Images] /\ build.phase = "none"
  BY DEF WarmInit, NoBuild, Images
<1>4. WarmTypeOK
  BY <1>2, <1>3, FreeIsOne DEF WarmInit, WarmTypeOK
<1>5. Credited
  BY <1>3 DEF WarmInit, Credited
<1> QED
  BY <1>1, <1>4, <1>5, FreeIsOne DEF WarmInv, Pinned, OneImage

\* What an ack of a live slot teaches is true of its artifact.
LEMMA LearnKeeps ==
  ASSUME WarmInv, NEW s \in WarmSlots, slot[s].started, slot[s].host # "free",
         ack' = Learn(slot[s].pin), UNCHANGED <<epoch, base, build>>
  PROVE  /\ ack' \in AckRecords /\ Credited'
         /\ \A t \in WarmSlots : slot[t].host # "free" /\ ack'.capable /\ ack'.epoch = <<"at", slot[t].pin>>
                                => slot[t].image = "speaks"
<1>1. /\ WarmTypeOK /\ Credited
      /\ \A t \in WarmSlots : Pinned(slot[t]) /\ Evident(slot[t]) /\ OneImage(slot[s], slot[t])
  BY DEF WarmInv
<1>2. slot[s].image = "speaks"
  BY <1>1 DEF Evident
<1>3. CASE ack.epoch = <<"at", slot[s].pin>>
  <2>1. ack' = [ack EXCEPT !.capable = TRUE]
    BY <1>3 DEF Learn
  <2>2. ack' \in AckRecords /\ ack'.epoch = ack.epoch /\ ack'.pending = ack.pending
    BY <1>1, <2>1 DEF WarmTypeOK, AckRecords
  <2>3. base # "none" => base = "speaks"
    BY <1>1, <1>2, <1>3 DEF Credited, Pinned
  <2>4. Credited'
    BY <1>1, <2>2, <2>3 DEF Credited
  <2>5. ASSUME NEW t \in WarmSlots, slot[t].host # "free", ack'.epoch = <<"at", slot[t].pin>>
        PROVE  slot[t].image = "speaks"
    BY <1>1, <1>2, <1>3, <2>2, <2>5 DEF OneImage
  <2> QED
    BY <2>2, <2>4, <2>5
<1>4. CASE ack.epoch # <<"at", slot[s].pin>>
  <2>1. ack' = ack
    BY <1>4 DEF Learn
  <2> QED
    BY <1>1, <2>1 DEF WarmTypeOK, Credited, Pinned, CapableFor
<1> QED
  BY <1>3, <1>4

\* A step of one slot: what its new state must satisfy.
LEMMA OnePlaced ==
  ASSUME WarmInv, NEW s \in WarmSlots, NEW c \in SlotRecords, Is(s, c), Quiet,
         \/ ack' = ack
         \/ slot[s].started /\ slot[s].host # "free" /\ ack' = Learn(slot[s].pin),
         c.host # "free" => c.pin <= epoch /\ (c.pin = epoch => c.image = base),
         c.host # "free" /\ ack'.capable /\ ack'.epoch = <<"at", c.pin>> => c.image = "speaks",
         \A t \in WarmSlots : t # s => OneImage(c, slot[t]) /\ OneImage(slot[t], c),
         Evident(c), Charged(c)
  PROVE  WarmInv'
<1>1. /\ WarmTypeOK /\ Credited
      /\ \A t \in WarmSlots : Pinned(slot[t]) /\ Evident(slot[t]) /\ Charged(slot[t])
      /\ \A t, u \in WarmSlots : OneImage(slot[t], slot[u])
  BY DEF WarmInv
<1>2. UNCHANGED <<epoch, base, build, attempts, full>>
  BY DEF Quiet
<1>3. /\ ack' \in AckRecords /\ Credited'
      /\ \A t \in WarmSlots : slot[t].host # "free" /\ ack'.capable /\ ack'.epoch = <<"at", slot[t].pin>>
                             => slot[t].image = "speaks"
  <2>1. CASE ack' = ack
    BY <1>1, <1>2, <2>1 DEF WarmTypeOK, Credited, Pinned, CapableFor
  <2>2. CASE slot[s].started /\ slot[s].host # "free" /\ ack' = Learn(slot[s].pin)
    BY <1>2, <2>2, LearnKeeps
  <2> QED
    BY <2>1, <2>2
<1>4. slot' = [slot EXCEPT ![s] = c]
  BY DEF Is
<1>5. slot'[s] = c /\ \A t \in WarmSlots : t # s => slot'[t] = slot[t]
  BY <1>1, <1>4 DEF WarmTypeOK
<1>6. WarmTypeOK'
  BY <1>1, <1>2, <1>3, <1>4 DEF WarmTypeOK
<1>7. ASSUME NEW t \in WarmSlots
      PROVE  Pinned(slot[t])' /\ Evident(slot[t])' /\ Charged(slot[t])'
  <2>1. CASE t = s
    <3>1. Pinned(slot[t])'
      BY <1>2, <1>5, <2>1 DEF Pinned, CapableFor
    <3>2. Evident(slot[t])'
      BY <1>2, <1>5, <2>1 DEF Evident
    <3>3. Charged(slot[t])'
      BY <1>5, <2>1 DEF Charged
    <3> QED
      BY <3>1, <3>2, <3>3
  <2>2. CASE t # s
    <3>1. Pinned(slot[t])'
      BY <1>1, <1>2, <1>3, <1>5, <2>2 DEF Pinned, CapableFor
    <3>2. Evident(slot[t])'
      BY <1>1, <1>2, <1>5, <2>2 DEF Evident
    <3>3. Charged(slot[t])'
      BY <1>1, <1>5, <2>2 DEF Charged
    <3> QED
      BY <3>1, <3>2, <3>3
  <2> QED
    BY <2>1, <2>2
<1>8. ASSUME NEW t \in WarmSlots, NEW u \in WarmSlots
      PROVE  OneImage(slot[t], slot[u])'
  <2>1. CASE t = s /\ u = s
    BY <2>1 DEF OneImage
  <2>2. CASE t = s /\ u # s
    BY <1>5, <2>2 DEF OneImage
  <2>3. CASE t # s /\ u = s
    BY <1>5, <2>3 DEF OneImage
  <2>4. CASE t # s /\ u # s
    BY <1>1, <1>5, <2>4 DEF OneImage
  <2> QED
    BY <2>1, <2>2, <2>3, <2>4
<1> QED
  BY <1>3, <1>6, <1>7, <1>8 DEF WarmInv

\* A slot in use keeps its epoch and its image.
LEMMA OneUsed ==
  ASSUME WarmInv, NEW s \in WarmSlots, NEW c \in SlotRecords, Is(s, c), Quiet,
         \/ ack' = ack
         \/ slot[s].started /\ ack' = Learn(slot[s].pin),
         slot[s].host # "free", c.pin = slot[s].pin, c.image = slot[s].image,
         Evident(c), Charged(c)
  PROVE  WarmInv'
<1>1. /\ Pinned(slot[s])
      /\ \A t \in WarmSlots : OneImage(slot[s], slot[t]) /\ OneImage(slot[t], slot[s])
  BY DEF WarmInv
<1>2. c.pin <= epoch /\ (c.pin = epoch => c.image = base)
  BY <1>1 DEF Pinned
<1>3. ack'.capable /\ ack'.epoch = <<"at", c.pin>> => c.image = "speaks"
  <2>1. CASE ack' = ack
    BY <1>1, <2>1 DEF Pinned, CapableFor
  <2>2. CASE slot[s].started /\ ack' = Learn(slot[s].pin)
    BY <2>2 DEF WarmInv, Evident
  <2> QED
    BY <2>1, <2>2
<1>4. \A t \in WarmSlots : OneImage(c, slot[t]) /\ OneImage(slot[t], c)
  BY <1>1 DEF OneImage
<1> QED
  BY <1>2, <1>3, <1>4, OnePlaced

\* Nothing has been said, done or left behind.
Plain(c) == c.started = FALSE /\ c.done = "no" /\ c.output = "none" /\ c.told = "unknown"

LEMMA SpawnKept ==
  ASSUME WarmInv, NEW s \in WarmSlots, Spawn(s)
  PROVE  WarmInv'
<1>1. WarmTypeOK /\ Credited /\ \A t \in WarmSlots : Pinned(slot[t])
  BY DEF WarmInv
<1>2. epoch \in Nat /\ base \in Images /\ Quiet /\ ack' = ack
  BY <1>1 DEF Spawn, WarmTypeOK
<1> DEFINE c1 == [Free EXCEPT !.guest = "wait"]
           c2 == [c1 EXCEPT !.pin = epoch]
           c3 == [c2 EXCEPT !.image = base]
           c == [c3 EXCEPT !.host = "sent"]
<1>3. Is(s, c)
  BY DEF Spawn
<1>4. c1 \in SlotRecords /\ c1.guest = "wait" /\ c1.charge = "none" /\ Plain(c1)
  BY FreeIsOne DEF Free, SlotRecords, Plain
<1> HIDE DEF c1
<1>5. c2 \in SlotRecords /\ c2.guest = "wait" /\ c2.charge = "none" /\ c2.pin = epoch /\ Plain(c2)
  BY <1>2, <1>4 DEF SlotRecords, Plain
<1> HIDE DEF c2
<1>6. /\ c3 \in SlotRecords /\ c3.guest = "wait" /\ c3.charge = "none" /\ c3.pin = epoch /\ c3.image = base
      /\ Plain(c3)
  BY <1>2, <1>5 DEF SlotRecords, Plain
<1> HIDE DEF c3
<1>12. /\ c \in SlotRecords /\ c.guest = "wait" /\ c.charge = "none" /\ c.pin = epoch /\ c.image = base
       /\ c.host = "sent" /\ Plain(c)
  BY <1>6 DEF SlotRecords, Plain
<1> HIDE DEF c
<1>7. Evident(c) /\ Charged(c)
  BY <1>12 DEF Evident, Charged, Busy, Plain
<1>8. c.host = "sent" /\ c.pin = epoch /\ c.image = base
  BY <1>12
<1>9. ack'.capable /\ ack'.epoch = <<"at", c.pin>> => c.image = "speaks"
  BY <1>1, <1>2, <1>8 DEF Credited, Images
<1>10. \A t \in WarmSlots : OneImage(c, slot[t]) /\ OneImage(slot[t], c)
  BY <1>1, <1>8 DEF OneImage, Pinned
<1>11. c.pin <= epoch
  BY <1>2, <1>8
<1> QED
  BY <1>2, <1>3, <1>7, <1>8, <1>9, <1>10, <1>11, <1>12, OnePlaced

LEMMA InUse ==
  ASSUME WarmInv, NEW s \in WarmSlots
  PROVE  slot[s] \in SlotRecords /\ Evident(slot[s]) /\ Charged(slot[s]) /\ full \in BOOLEAN
BY DEF WarmInv, WarmTypeOK

Rest(c, r) == /\ c.pin = r.pin /\ c.image = r.image /\ c.go = r.go /\ c.host = r.host
              /\ c.told = r.told /\ c.late = r.late /\ c.charge = r.charge

\* The guest of a slot in use goes on.
LEMMA GuestMoved ==
  ASSUME WarmInv, NEW s \in WarmSlots, slot[s].host # "free", slot[s].guest \in Busy,
         NEW c \in SlotRecords, Rest(c, slot[s]), Is(s, c), Quiet, ack' = ack,
         c.started => c.image = "speaks",
         ~c.go => c.guest \in {"wait", "gone"},
         c.guest # "ended" => c.output = "none",
         c.done # "no" => c.guest \notin Busy,
         c.done = "closed" => c.guest # "ended",
         Seam = "file" /\ c.guest = "refused" => full /\ c.done = "no" /\ c.host # "judged"
  PROVE  WarmInv'
<1>1. Evident(slot[s]) /\ Charged(slot[s])
  BY InUse
<1>2. Evident(c)
  BY <1>1 DEF Rest, Evident
<1>3. Charged(c)
  BY <1>1 DEF Rest, Evident, Charged
<1> QED
  BY <1>2, <1>3, OneUsed DEF Rest

LEMMA GuestKept ==
  ASSUME WarmInv, NEW s \in WarmSlots, slot[s].host # "free",
         \/ GuestIdles(s) \/ GuestTakes(s) \/ GuestStarts(s) \/ GuestDies(s)
         \/ \E o \in {"part", "whole"} : GuestEnds(s, o)
  PROVE  WarmInv'
<1> DEFINE r == slot[s]
<1>1. r \in SlotRecords /\ Evident(r) /\ Charged(r) /\ full \in BOOLEAN
  BY InUse
<1>2. Quiet /\ ack' = ack /\ r.guest \in Busy
  BY DEF GuestIdles, GuestTakes, GuestStarts, GuestDies, GuestEnds, Busy
<1>3. r.output = "none" /\ r.done = "no" /\ (r.started => r.image = "speaks") /\ (~r.go => r.guest = "wait")
  BY <1>1, <1>2 DEF Evident, Busy
<1> DEFINE idle == Leaves(r, "idle_timeout")
<1>4. idle \in {"no", "idle_timeout", "closed"} /\ (Seam = "file" /\ full => idle = "no")
  BY <1>3 DEF Leaves
<1>5. CASE GuestIdles(s)
  <2> DEFINE b == [r EXCEPT !.guest = "gone"]
             c == [b EXCEPT !.done = idle]
  <2>1. Is(s, c)
    BY <1>5 DEF GuestIdles
  <2> HIDE DEF idle
  <2>2. b \in SlotRecords /\ b.guest = "gone" /\ Rest(b, r) /\ b.started = r.started /\ b.output = r.output
    BY <1>1 DEF SlotRecords, Rest
  <2> HIDE DEF b
  <2>3. c \in SlotRecords /\ c.guest = "gone" /\ c.done = idle /\ Rest(c, b) /\ c.started = b.started /\ c.output = b.output
    BY <1>4, <2>2 DEF SlotRecords, Rest
  <2> HIDE DEF c, r
  <2>4. Rest(c, r) /\ c.started = r.started /\ c.output = r.output /\ c.image = r.image
    BY <2>2, <2>3 DEF Rest
  <2> QED
    BY <1>2, <1>3, <2>1, <2>3, <2>4, GuestMoved DEF r, Busy
<1>6. CASE GuestTakes(s)
  <2> DEFINE c == [r EXCEPT !.guest = "took"]
  <2>1. Is(s, c) /\ r.go
    BY <1>6 DEF GuestTakes
  <2>2. /\ c \in SlotRecords /\ c.guest = "took" /\ Rest(c, r) /\ c.started = r.started /\ c.output = r.output
        /\ c.done = r.done /\ c.image = r.image /\ c.go = r.go
    BY <1>1 DEF SlotRecords, Rest
  <2> HIDE DEF c, r
  <2> QED
    BY <1>2, <1>3, <2>1, <2>2, GuestMoved DEF r
<1>7. CASE GuestStarts(s)
  <2>1. r.guest = "took" /\ r.go
    BY <1>3, <1>7 DEF GuestStarts
  <2>2. CASE r.image = "silent"
    <3> DEFINE c == [r EXCEPT !.guest = "run"]
    <3>1. Is(s, c)
      BY <1>7, <2>2 DEF GuestStarts
    <3>2. /\ c \in SlotRecords /\ c.guest = "run" /\ Rest(c, r) /\ c.started = r.started /\ c.output = r.output
          /\ c.done = r.done /\ c.image = r.image /\ c.go = r.go
      BY <1>1 DEF SlotRecords, Rest
    <3> HIDE DEF c, r
    <3> QED
      BY <1>2, <1>3, <2>1, <3>1, <3>2, GuestMoved DEF r
  <2>3. CASE r.image # "silent" /\ CannotSay(s)
    <3> DEFINE g == IF r.host = "judged" THEN "gone" ELSE "refused"
               b == [r EXCEPT !.guest = g]
               c == [b EXCEPT !.done = idle]
    <3>1. Is(s, c)
      BY <1>7, <2>3 DEF GuestStarts
    <3>2. g \in {"gone", "refused"} /\ (g = "refused" => r.host # "judged")
      OBVIOUS
    <3>3. Seam = "file" => full
      BY <2>3 DEF CannotSay
    <3> HIDE DEF idle, g
    <3>4. b \in SlotRecords /\ b.guest = g /\ Rest(b, r) /\ b.started = r.started /\ b.output = r.output
      BY <1>1, <3>2 DEF SlotRecords, Rest
    <3> HIDE DEF b
    <3>5. c \in SlotRecords /\ c.guest = g /\ c.done = idle /\ Rest(c, b) /\ c.started = b.started /\ c.output = b.output
      BY <1>4, <3>4 DEF SlotRecords, Rest
    <3> HIDE DEF c, r
    <3>6. /\ Rest(c, r) /\ c.started = r.started /\ c.output = r.output /\ c.image = r.image
          /\ c.go = r.go /\ c.host = r.host
      BY <3>4, <3>5 DEF Rest
    <3> QED
      BY <1>2, <1>3, <1>4, <2>1, <3>1, <3>2, <3>3, <3>5, <3>6, GuestMoved DEF r, Busy
  <2>4. CASE r.image # "silent" /\ ~CannotSay(s)
    <3> DEFINE b == [r EXCEPT !.guest = "run"]
               c == [b EXCEPT !.started = TRUE]
    <3>1. Is(s, c)
      BY <1>7, <2>4 DEF GuestStarts
    <3>2. b \in SlotRecords /\ b.guest = "run" /\ Rest(b, r) /\ b.done = r.done /\ b.output = r.output
      BY <1>1 DEF SlotRecords, Rest
    <3> HIDE DEF b
    <3>3. c \in SlotRecords /\ c.guest = "run" /\ Rest(c, b) /\ c.done = b.done /\ c.output = b.output
      BY <3>2 DEF SlotRecords, Rest
    <3>4. r.image = "speaks"
      BY <1>1, <2>4 DEF SlotRecords, Images
    <3> HIDE DEF c, r
    <3>5. /\ Rest(c, r) /\ c.done = r.done /\ c.output = r.output /\ c.image = r.image
          /\ c.go = r.go
      BY <3>2, <3>3 DEF Rest
    <3> QED
      BY <1>2, <1>3, <2>1, <3>1, <3>3, <3>4, <3>5, GuestMoved DEF r
  <2> QED
    BY <2>2, <2>3, <2>4
<1>8. CASE GuestDies(s)
  <2> DEFINE d == IF Seam = "vsock" THEN "closed" ELSE r.done
             b == [r EXCEPT !.guest = "gone"]
             c == [b EXCEPT !.done = d]
  <2>1. Is(s, c)
    BY <1>8 DEF GuestDies
  <2>2. d \in {"closed", "no"}
    BY <1>3
  <2> HIDE DEF d
  <2>3. b \in SlotRecords /\ b.guest = "gone" /\ Rest(b, r) /\ b.started = r.started /\ b.output = r.output
    BY <1>1 DEF SlotRecords, Rest
  <2> HIDE DEF b
  <2>4. c \in SlotRecords /\ c.guest = "gone" /\ c.done = d /\ Rest(c, b) /\ c.started = b.started /\ c.output = b.output
    BY <2>2, <2>3 DEF SlotRecords, Rest
  <2> HIDE DEF c, r
  <2>5. Rest(c, r) /\ c.started = r.started /\ c.output = r.output /\ c.image = r.image
    BY <2>3, <2>4 DEF Rest
  <2> QED
    BY <1>2, <1>3, <2>1, <2>4, <2>5, GuestMoved DEF r, Busy
<1>9. CASE \E o \in {"part", "whole"} : GuestEnds(s, o)
  <2>1. PICK o \in {"part", "whole"} : GuestEnds(s, o)
    BY <1>9
  <2> DEFINE a == [r EXCEPT !.output = o]
             d == Leaves(a, "ok")
             b == [a EXCEPT !.guest = "ended"]
             c == [b EXCEPT !.done = d]
  <2>2. Is(s, c) /\ r.guest = "run"
    BY <2>1 DEF GuestEnds
  <2>3. a \in SlotRecords /\ Rest(a, r) /\ a.started = r.started /\ a.done = r.done /\ a.output = o
    BY <1>1 DEF SlotRecords, Rest
  <2>4. d \in {"ok", "no"}
    BY <1>3, <2>3 DEF Leaves
  <2> HIDE DEF a, d
  <2>5. b \in SlotRecords /\ b.guest = "ended" /\ Rest(b, a) /\ b.started = a.started /\ b.output = a.output
    BY <2>3 DEF SlotRecords, Rest
  <2> HIDE DEF b
  <2>6. c \in SlotRecords /\ c.guest = "ended" /\ c.done = d /\ Rest(c, b) /\ c.started = b.started /\ c.output = b.output
    BY <2>4, <2>5 DEF SlotRecords, Rest
  <2> HIDE DEF c, r
  <2>7. Rest(c, r) /\ c.started = r.started /\ c.image = r.image /\ c.go = r.go
    BY <2>3, <2>5, <2>6 DEF Rest
  <2>8. r.go
    BY <1>3, <2>2
  <2> QED
    BY <1>2, <1>3, <2>2, <2>4, <2>6, <2>7, <2>8, GuestMoved DEF r, Busy
<1> QED
  BY <1>5, <1>6, <1>7, <1>8, <1>9

Kept(c, r) == /\ c.pin = r.pin /\ c.image = r.image /\ c.guest = r.guest /\ c.started = r.started
              /\ c.done = r.done /\ c.output = r.output

\* The host goes on with a slot it has not judged.
LEMMA HostMoved ==
  ASSUME WarmInv, NEW s \in WarmSlots, slot[s].host # "free",
         NEW c \in SlotRecords, Kept(c, slot[s]), Is(s, c), Quiet,
         \/ ack' = ack
         \/ slot[s].started /\ ack' = Learn(slot[s].pin),
         c.host \notin {"free", "judged"}, c.charge = "none", c.go \/ c.go = slot[s].go,
         c.told = "no" => c.image = "speaks",
         c.host = "told" => c.done # "no"
  PROVE  WarmInv'
<1>1. Evident(slot[s]) /\ Charged(slot[s])
  BY InUse
<1>2. Evident(c)
  BY <1>1 DEF Kept, Evident
<1>3. Charged(c)
  BY <1>1 DEF Charged
<1> QED
  BY <1>2, <1>3, OneUsed DEF Kept

LEMMA JudgedIsOne ==
  ASSUME NEW b \in SlotRecords, NEW x \in {"host", "worker", "clean", "job"}
  PROVE  LET c == Judged(b, x)
         IN  /\ c \in SlotRecords /\ Kept(c, b) /\ c.go = b.go /\ c.told = b.told /\ c.late = b.late
             /\ c.host = "judged" /\ c.charge = IF x = "worker" THEN Stage(b) ELSE x
<1> DEFINE y == IF x = "worker" THEN Stage(b) ELSE x
           a == [b EXCEPT !.host = "judged"]
           c == [a EXCEPT !.charge = y]
<1>1. y \in {"host", "worker", "pre_guest", "clean", "job"}
  BY DEF Stage
<1>2. c = Judged(b, x)
  BY DEF Judged
<1> HIDE DEF y
<1>3. a \in SlotRecords /\ Kept(a, b) /\ a.go = b.go /\ a.told = b.told /\ a.late = b.late /\ a.host = "judged"
  BY DEF SlotRecords, Kept
<1> HIDE DEF a
<1>4. /\ c \in SlotRecords /\ Kept(c, a) /\ c.go = a.go /\ c.told = a.told /\ c.late = a.late
      /\ c.host = a.host /\ c.charge = y
  BY <1>1, <1>3 DEF SlotRecords, Kept
<1> HIDE DEF c
<1>5. Kept(c, b)
  BY <1>3, <1>4 DEF Kept
<1> QED
  BY <1>2, <1>3, <1>4, <1>5 DEF y

\* The host judges a slot.
LEMMA HostJudges ==
  ASSUME WarmInv, NEW s \in WarmSlots, slot[s].host # "free",
         NEW b \in SlotRecords, Kept(b, slot[s]), b.go = slot[s].go,
         NEW x \in {"host", "worker", "clean", "job"}, Is(s, Judged(b, x)), Quiet, ack' = ack,
         b.told = "no" => b.image = "speaks",
         x = "worker" => b.late \/ (b.guest \notin Busy /\ b.output # "whole"),
         x = "worker" /\ b.told = "no" /\ Seam = "file" => b.guest # "refused"
  PROVE  WarmInv'
<1> DEFINE c == Judged(b, x)
<1>1. Evident(slot[s]) /\ Charged(slot[s])
  BY InUse
<1>2. /\ c \in SlotRecords /\ Kept(c, b) /\ c.go = b.go /\ c.told = b.told /\ c.late = b.late
      /\ c.host = "judged" /\ c.charge = IF x = "worker" THEN Stage(b) ELSE x
  BY JudgedIsOne
<1>3. Is(s, c)
  OBVIOUS
<1> HIDE DEF c
<1>4. Kept(c, slot[s])
  BY <1>2 DEF Kept
<1>5. Evident(c)
  BY <1>1, <1>2, <1>4 DEF Kept, Evident
<1>6. Charged(c)
  BY <1>2 DEF Charged, Kept, Stage
<1> QED
  BY <1>2, <1>3, <1>4, <1>5, <1>6, OneUsed DEF Kept

LEMMA SignalGoKept ==
  ASSUME WarmInv, NEW s \in WarmSlots, SignalGo(s)
  PROVE  WarmInv'
<1> DEFINE r == slot[s]
<1>1. r \in SlotRecords /\ Evident(r) /\ Charged(r)
  BY InUse
<1>2. r.host = "sent" /\ ~r.go /\ Quiet /\ ack' = ack
  BY DEF SignalGo
<1>3. r.guest \in {"none", "wait", "gone"} /\ r.output = "none" /\ (r.told = "no" => r.image = "speaks")
  BY <1>1, <1>2 DEF Evident
<1>4. Kept(r, r)
  BY DEF Kept
<1>5. CASE Seam = "file" /\ full
  <2>1. Is(s, Judged(r, "host"))
    BY <1>5 DEF SignalGo
  <2> HIDE DEF r
  <2> QED
    BY <1>1, <1>2, <1>3, <1>4, <2>1, HostJudges DEF r
<1>6. CASE ~(Seam = "file" /\ full) /\ Seam = "vsock" /\ r.guest # "wait"
  <2>1. Is(s, Judged(r, "worker"))
    BY <1>6 DEF SignalGo
  <2> HIDE DEF r
  <2> QED
    BY <1>1, <1>2, <1>3, <1>4, <1>6, <2>1, HostJudges DEF r, Busy
<1>7. CASE ~(Seam = "file" /\ full) /\ ~(Seam = "vsock" /\ r.guest # "wait")
  <2> DEFINE c == [r EXCEPT !.go = TRUE]
  <2>1. Is(s, c)
    BY <1>7 DEF SignalGo
  <2>2. c \in SlotRecords /\ Kept(c, r) /\ c.go /\ c.host = r.host /\ c.told = r.told /\ c.charge = r.charge
    BY <1>1 DEF SlotRecords, Kept
  <2>3. c.charge = "none" /\ c.image = r.image
    BY <1>1, <1>2, <2>2 DEF Charged, Kept
  <2> HIDE DEF c, r
  <2> QED
    BY <1>2, <1>3, <2>1, <2>2, <2>3, HostMoved DEF r
<1> QED
  BY <1>5, <1>6, <1>7

LEMMA WaitForDoneKept ==
  ASSUME WarmInv, NEW s \in WarmSlots, WaitForDone(s)
  PROVE  WarmInv'
<1> DEFINE r == slot[s]
           told == IF CapableFor(r.pin) THEN "no" ELSE r.told
           b == [r EXCEPT !.host = "look"]
           c == [b EXCEPT !.told = told]
<1>1. r \in SlotRecords /\ Evident(r) /\ Charged(r) /\ Pinned(r)
  BY InUse DEF WarmInv
<1>2. r.host = "sent" /\ Quiet /\ ack' = ack /\ Is(s, c)
  BY DEF WaitForDone
<1>3. told \in {"unknown", "no", "yes"}
  BY <1>1 DEF SlotRecords
<1>4. told = "no" => r.image = "speaks"
  BY <1>1, <1>2 DEF Pinned, Evident
<1> HIDE DEF told
<1>5. b \in SlotRecords /\ Kept(b, r) /\ b.go = r.go /\ b.host = "look" /\ b.charge = r.charge
  BY <1>1 DEF SlotRecords, Kept
<1> HIDE DEF b
<1>6. c \in SlotRecords /\ Kept(c, b) /\ c.go = b.go /\ c.host = b.host /\ c.told = told /\ c.charge = b.charge
  BY <1>3, <1>5 DEF SlotRecords, Kept
<1> HIDE DEF c
<1>7. Kept(c, r) /\ c.image = r.image
  BY <1>5, <1>6 DEF Kept
<1>8. c.charge = "none"
  BY <1>1, <1>2, <1>5, <1>6 DEF Charged
<1> QED
  BY <1>2, <1>4, <1>5, <1>6, <1>7, <1>8, HostMoved

LEMMA LookForStartKept ==
  ASSUME WarmInv, NEW s \in WarmSlots, LookForStart(s)
  PROVE  WarmInv'
<1> DEFINE r == slot[s]
           told == IF r.started THEN "yes" ELSE r.told
           b == [r EXCEPT !.host = "read"]
           c == [b EXCEPT !.told = told]
<1>1. r \in SlotRecords /\ Evident(r) /\ Charged(r)
  BY InUse
<1>2. r.host = "look" /\ Quiet /\ Is(s, c)
  BY DEF LookForStart
<1>3. ack' = ack \/ (r.started /\ ack' = Learn(r.pin))
  BY DEF LookForStart
<1>4. told \in {"unknown", "no", "yes"} /\ (told = "no" => r.image = "speaks")
  BY <1>1 DEF SlotRecords, Evident
<1> HIDE DEF told
<1>5. b \in SlotRecords /\ Kept(b, r) /\ b.go = r.go /\ b.host = "read" /\ b.charge = r.charge
  BY <1>1 DEF SlotRecords, Kept
<1> HIDE DEF b
<1>6. c \in SlotRecords /\ Kept(c, b) /\ c.go = b.go /\ c.host = b.host /\ c.told = told /\ c.charge = b.charge
  BY <1>4, <1>5 DEF SlotRecords, Kept
<1> HIDE DEF c
<1>7. Kept(c, r) /\ c.image = r.image
  BY <1>5, <1>6 DEF Kept
<1>8. c.charge = "none"
  BY <1>1, <1>2, <1>5, <1>6 DEF Charged
<1> QED
  BY <1>2, <1>3, <1>4, <1>5, <1>6, <1>7, <1>8, HostMoved

\* The poll goes on: the host has heard the end, or looks again.
LEMMA Heard ==
  ASSUME WarmInv, NEW s \in WarmSlots, slot[s].host \in {"look", "read"}, NEW h \in {"look", "told"},
         Is(s, [slot[s] EXCEPT !.host = h]), h = "told" => slot[s].done # "no", Quiet, ack' = ack
  PROVE  WarmInv'
<1> DEFINE r == slot[s]
           c == [r EXCEPT !.host = h]
<1>1. r \in SlotRecords /\ Evident(r) /\ Charged(r)
  BY InUse
<1>2. c \in SlotRecords /\ Kept(c, r) /\ c.go = r.go /\ c.host = h /\ c.told = r.told /\ c.charge = r.charge
  BY <1>1 DEF SlotRecords, Kept
<1>3. Is(s, c)
  OBVIOUS
<1> HIDE DEF c
<1>4. c.charge = "none" /\ (c.told = "no" => c.image = "speaks") /\ (h = "told" => c.done # "no")
  BY <1>1, <1>2 DEF Charged, Evident, Kept
<1> QED
  BY <1>2, <1>3, <1>4, HostMoved

\* The deadline passes: the slot is late.
LEMMA LateIsOne ==
  ASSUME NEW r \in SlotRecords
  PROVE  LET b == [r EXCEPT !.late = TRUE]
         IN  b \in SlotRecords /\ Kept(b, r) /\ b.go = r.go /\ b.told = r.told /\ b.late
  BY DEF SlotRecords, Kept

LEMMA ReadDoneKept ==
  ASSUME WarmInv, NEW s \in WarmSlots, ReadDone(s)
  PROVE  WarmInv'
<1> DEFINE r == slot[s]
<1>1. r \in SlotRecords /\ Evident(r) /\ Charged(r)
  BY InUse
<1>2. Seam = "file" /\ r.host = "read" /\ Quiet /\ ack' = ack
  BY DEF ReadDone
<1>3. CASE r.done # "no" /\ Is(s, [r EXCEPT !.host = "told"])
  BY <1>2, <1>3, Heard
<1>4. CASE r.done = "no" /\ Is(s, [r EXCEPT !.host = "look"])
  BY <1>2, <1>4, Heard
<1>5. CASE r.done = "no" /\ Is(s, AtDeadline([r EXCEPT !.late = TRUE]))
  <2> DEFINE b == [r EXCEPT !.late = TRUE]
  <2>1. b \in SlotRecords /\ Kept(b, r) /\ b.go = r.go /\ b.told = r.told /\ b.late
    BY <1>1, LateIsOne
  <2>2. Is(s, AtDeadline(b))
    BY <1>5
  <2> HIDE DEF b
  <2>3. b.told = "no" => b.image = "speaks"
    BY <1>1, <2>1 DEF Evident, Kept
  <2>4. CASE b.told = "no" /\ full
    <3> DEFINE a == [b EXCEPT !.told = "unknown"]
    <3>1. Is(s, Judged(a, "host"))
      BY <2>2, <2>4 DEF AtDeadline
    <3>2. a \in SlotRecords /\ Kept(a, b) /\ a.go = b.go /\ a.told = "unknown"
      BY <2>1 DEF SlotRecords, Kept
    <3> HIDE DEF a
    <3>3. Kept(a, r)
      BY <2>1, <3>2 DEF Kept
    <3> QED
      BY <1>2, <2>1, <3>1, <3>2, <3>3, HostJudges
  <2>5. CASE ~(b.told = "no" /\ full)
    <3>1. Is(s, Judged(b, "worker"))
      BY <2>2, <2>5 DEF AtDeadline
    <3>2. b.told = "no" => b.guest # "refused"
      BY <1>1, <1>2, <2>1, <2>5 DEF Evident, Kept
    <3> QED
      BY <1>2, <2>1, <2>3, <3>1, <3>2, HostJudges
  <2> QED
    BY <2>4, <2>5
<1> QED
  BY <1>3, <1>4, <1>5 DEF ReadDone

LEMMA HearFrameKept ==
  ASSUME WarmInv, NEW s \in WarmSlots, HearFrame(s)
  PROVE  WarmInv'
<1> DEFINE r == slot[s]
<1>1. r \in SlotRecords /\ Evident(r) /\ Charged(r)
  BY InUse
<1>2. r.host = "look" /\ Quiet /\ FrameArrived(r)
  BY DEF HearFrame
<1>3. CASE FrameIsStart(r)
  <2> DEFINE c == [r EXCEPT !.told = "yes"]
  <2>1. Is(s, c) /\ ack' = Learn(r.pin) /\ r.started
    BY <1>3 DEF HearFrame, FrameIsStart
  <2>2. c \in SlotRecords /\ Kept(c, r) /\ c.go = r.go /\ c.host = r.host /\ c.told = "yes" /\ c.charge = r.charge
    BY <1>1 DEF SlotRecords, Kept
  <2> HIDE DEF c
  <2>3. c.charge = "none"
    BY <1>1, <1>2, <2>2 DEF Charged
  <2> QED
    BY <1>2, <2>1, <2>2, <2>3, HostMoved
<1>4. CASE ~FrameIsStart(r)
  <2>1. Is(s, [r EXCEPT !.host = "told"]) /\ ack' = ack /\ r.done # "no"
    BY <1>2, <1>4 DEF HearFrame, FrameArrived, FrameIsStart
  <2> QED
    BY <1>2, <2>1, Heard
<1> QED
  BY <1>3, <1>4

LEMMA HearNothingKept ==
  ASSUME WarmInv, NEW s \in WarmSlots, HearNothing(s)
  PROVE  WarmInv'
<1> DEFINE r == slot[s]
<1>1. r \in SlotRecords /\ Evident(r) /\ Charged(r)
  BY InUse
<1>2. Seam # "file" /\ r.host = "look" /\ Quiet /\ ack' = ack
  BY DEF HearNothing
<1>3. r.told = "no" => r.image = "speaks"
  BY <1>1 DEF Evident
<1>4. CASE r.done = "closed" /\ Is(s, Judged(r, "worker"))
  <2>1. r.guest \notin Busy /\ r.output # "whole"
    BY <1>1, <1>4 DEF Evident
  <2>2. Kept(r, r)
    BY DEF Kept
  <2> HIDE DEF r
  <2> QED
    BY <1>1, <1>2, <1>3, <1>4, <2>1, <2>2, HostJudges DEF r
<1>5. CASE Is(s, Judged([r EXCEPT !.late = TRUE], "worker"))
  <2> DEFINE b == [r EXCEPT !.late = TRUE]
  <2>1. b \in SlotRecords /\ Kept(b, r) /\ b.go = r.go /\ b.told = r.told /\ b.late
    BY <1>1, LateIsOne
  <2>2. Is(s, Judged(b, "worker"))
    BY <1>5
  <2> HIDE DEF b
  <2>3. b.told = "no" => b.image = "speaks"
    BY <1>3, <2>1 DEF Kept
  <2> QED
    BY <1>2, <2>1, <2>2, <2>3, HostJudges
<1> QED
  BY <1>4, <1>5 DEF HearNothing

LEMMA JudgeOutputKept ==
  ASSUME WarmInv, NEW s \in WarmSlots, JudgeOutput(s)
  PROVE  WarmInv'
<1> DEFINE r == slot[s]
<1>1. r \in SlotRecords /\ Evident(r) /\ Charged(r)
  BY InUse
<1>2. r.host = "told" /\ Quiet /\ ack' = ack
  BY DEF JudgeOutput
<1>3. /\ r.told = "no" => r.image = "speaks"
      /\ r.guest \notin Busy /\ (Seam = "file" => r.guest # "refused")
  BY <1>1, <1>2 DEF Evident
<1>4. Kept(r, r)
  BY DEF Kept
<1>5. PICK x \in {"worker", "clean", "job"} : Is(s, Judged(r, x)) /\ (x = "worker" => r.output # "whole")
  BY DEF JudgeOutput
<1> HIDE DEF r
<1> QED
  BY <1>1, <1>2, <1>3, <1>4, <1>5, HostJudges DEF r

LEMMA ReleaseKept ==
  ASSUME WarmInv, NEW s \in WarmSlots, ReleaseSlot(s)
  PROVE  WarmInv'
<1>1. Is(s, Free) /\ Quiet /\ ack' = ack
  BY DEF ReleaseSlot
<1>2. \A t \in WarmSlots : OneImage(Free, slot[t]) /\ OneImage(slot[t], Free)
  BY FreeIsOne DEF OneImage
<1> QED
  BY <1>1, <1>2, FreeIsOne, OnePlaced

-------------------------------------------------------------------------------
\* The manager's builds

\* The slots stand while their artifact comes and goes.
LEMMA SlotsStand ==
  ASSUME WarmInv, slot' = slot, full => full', WarmTypeOK', Credited',
         \A s \in WarmSlots : Pinned(slot[s])'
  PROVE  WarmInv'
<1>1. /\ \A s \in WarmSlots : Evident(slot[s]) /\ Charged(slot[s])
      /\ \A s, t \in WarmSlots : OneImage(slot[s], slot[t])
  BY DEF WarmInv
<1>2. ASSUME NEW s \in WarmSlots
      PROVE  Evident(slot[s])' /\ Charged(slot[s])'
  BY <1>1 DEF Evident, Charged
<1>3. ASSUME NEW s \in WarmSlots, NEW t \in WarmSlots
      PROVE  OneImage(slot[s], slot[t])'
  BY <1>1 DEF OneImage
<1> QED
  BY <1>2, <1>3 DEF WarmInv

LEMMA Stood ==
  ASSUME WarmInv
  PROVE  /\ WarmTypeOK /\ Credited
         /\ \A s \in WarmSlots : Pinned(slot[s]) /\ slot[s].pin \in Nat
BY DEF WarmInv, WarmTypeOK, SlotRecords

LEMMA BeginBuildKept ==
  ASSUME WarmInv, NEW i \in Images, BeginBuild(i)
  PROVE  WarmInv'
<1>1. /\ WarmTypeOK /\ Credited
      /\ \A s \in WarmSlots : Pinned(slot[s]) /\ slot[s].pin \in Nat
  BY Stood
<1>2. /\ build' = [phase |-> "booting", epoch |-> epoch, image |-> i] /\ base = "none"
      /\ UNCHANGED <<epoch, base, full, slot>> /\ attempts' = attempts + 1
  BY DEF BeginBuild
<1>3. ack' = [ack EXCEPT !.pending = {}]
  BY DEF BeginBuild, ForgetPending
<1>4. ack' \in AckRecords /\ ack'.epoch = ack.epoch /\ ack'.capable = ack.capable /\ ack'.pending = {}
  BY <1>1, <1>3 DEF WarmTypeOK, AckRecords
<1>5. build'.phase = "booting" /\ build' \in [phase : {"none", "booting", "ready"}, epoch : Nat, image : Images]
  BY <1>1, <1>2 DEF WarmTypeOK
<1>6. WarmTypeOK'
  BY <1>1, <1>2, <1>4, <1>5 DEF WarmTypeOK
<1>7. Credited'
  BY <1>2, <1>4, <1>5 DEF Credited
<1>8. \A s \in WarmSlots : Pinned(slot[s])'
  BY <1>1, <1>2, <1>4 DEF Pinned, CapableFor
<1> QED
  BY <1>2, <1>6, <1>7, <1>8, SlotsStand

LEMMA BaseReadyKept ==
  ASSUME WarmInv, BaseReady
  PROVE  WarmInv'
<1>1. /\ WarmTypeOK /\ Credited
      /\ \A s \in WarmSlots : Pinned(slot[s]) /\ slot[s].pin \in Nat
  BY Stood
<1>2. build.phase = "booting" /\ UNCHANGED <<epoch, base, attempts, full, slot>>
  BY DEF BaseReady
<1>3. /\ build' = [build EXCEPT !.phase = "ready"]
      /\ ack' = IF build.image = "speaks" THEN [ack EXCEPT !.pending = @ \cup {build.epoch}] ELSE ack
  BY DEF BaseReady
<1>4. /\ build'.phase = "ready" /\ build'.epoch = build.epoch /\ build'.image = build.image
      /\ build' \in [phase : {"none", "booting", "ready"}, epoch : Nat, image : Images] /\ build.epoch \in Nat
  BY <1>1, <1>3 DEF WarmTypeOK
<1>5. /\ ack' \in AckRecords /\ ack'.epoch = ack.epoch /\ ack'.capable = ack.capable
      /\ \A e \in ack'.pending : e \in ack.pending \/ (e = build.epoch /\ build.image = "speaks")
  BY <1>1, <1>3, <1>4 DEF WarmTypeOK, AckRecords
<1>6. WarmTypeOK'
  BY <1>1, <1>2, <1>4, <1>5 DEF WarmTypeOK
<1>7. Credited'
  BY <1>1, <1>2, <1>4, <1>5 DEF Credited
<1>8. \A s \in WarmSlots : Pinned(slot[s])'
  BY <1>1, <1>2, <1>5 DEF Pinned, CapableFor
<1> QED
  BY <1>2, <1>6, <1>7, <1>8, SlotsStand

LEMMA BuildEnds ==
  ASSUME WarmInv, build' = NoBuild, UNCHANGED <<epoch, base, attempts, ack, full, slot>>
  PROVE  WarmInv'
<1>1. /\ WarmTypeOK /\ Credited
      /\ \A s \in WarmSlots : Pinned(slot[s]) /\ slot[s].pin \in Nat
  BY Stood
<1>2. build'.phase = "none" /\ build' \in [phase : {"none", "booting", "ready"}, epoch : Nat, image : Images]
  BY DEF NoBuild, Images
<1>3. WarmTypeOK'
  BY <1>1, <1>2 DEF WarmTypeOK
<1>4. Credited'
  BY <1>1, <1>2 DEF Credited
<1>5. \A s \in WarmSlots : Pinned(slot[s])'
  BY <1>1 DEF Pinned, CapableFor
<1> QED
  BY <1>3, <1>4, <1>5, SlotsStand

LEMMA PublishBaseKept ==
  ASSUME WarmInv, PublishBase
  PROVE  WarmInv'
<1>1. /\ WarmTypeOK /\ Credited
      /\ \A s \in WarmSlots : Pinned(slot[s]) /\ slot[s].pin \in Nat
  BY Stood
<1>2. build.phase = "ready" /\ build' = NoBuild /\ UNCHANGED <<epoch, attempts, full, slot>> /\ base = "none"
  BY <1>1 DEF PublishBase, Credited
<1>3. CASE build.epoch = epoch
  <2> DEFINE cap == epoch \in ack.pending
  <2>1. base' = build.image /\ ack' = [epoch |-> <<"at", epoch>>, capable |-> cap, pending |-> {}]
    BY <1>3 DEF PublishBase, PublishAck
  <2>2. cap => build.image = "speaks"
    BY <1>1, <1>2 DEF Credited
  <2>3. cap \in BOOLEAN
    OBVIOUS
  <2> HIDE DEF cap
  <2>4. ack' \in AckRecords /\ ack'.epoch = <<"at", epoch>> /\ ack'.capable = cap
    BY <1>1, <2>1, <2>3 DEF WarmTypeOK, AckRecords
  <2>5. build'.phase = "none" /\ build' \in [phase : {"none", "booting", "ready"}, epoch : Nat, image : Images]
    BY <1>2 DEF NoBuild, Images
  <2>6. base' \in Images
    BY <1>1, <2>1 DEF WarmTypeOK
  <2>7. WarmTypeOK'
    BY <1>1, <1>2, <2>4, <2>5, <2>6 DEF WarmTypeOK
  <2>8. Credited'
    BY <1>2, <2>1, <2>2, <2>4, <2>5 DEF Credited
  <2>9. ASSUME NEW s \in WarmSlots
        PROVE  Pinned(slot[s])'
    <3>1. slot[s].host # "free" => slot[s].pin <= epoch /\ slot[s].pin # epoch
      <4>1. slot[s].image \in Images /\ "none" \notin Images
        BY <1>1 DEF WarmTypeOK, SlotRecords, Images
      <4> QED
        BY <1>1, <1>2, <4>1 DEF Pinned
    <3>2. ack'.epoch = <<"at", slot[s].pin>> => slot[s].pin = epoch
      BY <2>4
    <3> QED
      BY <1>2, <3>1, <3>2 DEF Pinned, CapableFor
  <2> QED
    BY <1>2, <2>7, <2>8, <2>9, SlotsStand
<1>4. CASE build.epoch # epoch
  BY <1>2, <1>4, BuildEnds DEF PublishBase
<1> QED
  BY <1>3, <1>4

LEMMA InvalidateKept ==
  ASSUME WarmInv, Invalidate
  PROVE  WarmInv'
<1>1. /\ WarmTypeOK /\ Credited
      /\ \A s \in WarmSlots : Pinned(slot[s]) /\ slot[s].pin \in Nat
  BY Stood
<1>2. epoch' = epoch + 1 /\ base' = "none" /\ UNCHANGED <<build, attempts, ack, full, slot>> /\ epoch \in Nat
  BY <1>1 DEF Invalidate, WarmTypeOK
<1>3. WarmTypeOK'
  BY <1>1, <1>2 DEF WarmTypeOK
<1>4. Credited'
  BY <1>1, <1>2 DEF Credited
<1>5. \A s \in WarmSlots : Pinned(slot[s])'
  BY <1>1, <1>2 DEF Pinned, CapableFor
<1> QED
  BY <1>2, <1>3, <1>4, <1>5, SlotsStand

LEMMA DiskFillsKept ==
  ASSUME WarmInv, DiskFills
  PROVE  WarmInv'
<1>1. /\ WarmTypeOK /\ Credited
      /\ \A s \in WarmSlots : Pinned(slot[s]) /\ slot[s].pin \in Nat
  BY Stood
<1>2. full' = TRUE /\ UNCHANGED <<epoch, base, build, attempts, ack, slot>>
  BY DEF DiskFills
<1> QED
  BY <1>1, <1>2, SlotsStand DEF WarmTypeOK, Credited, Pinned, CapableFor

LEMMA WarmStep == WarmInv /\ [WarmNext]_warmVars => WarmInv'
<1> SUFFICES ASSUME WarmInv, [WarmNext]_warmVars PROVE WarmInv'
  OBVIOUS
<1>1. CASE \E i \in Images : BeginBuild(i)
  BY <1>1, BeginBuildKept
<1>2. CASE BaseReady
  BY <1>2, BaseReadyKept
<1>3. CASE BuildFails
  BY <1>3, BuildEnds DEF BuildFails
<1>4. CASE PublishBase
  BY <1>4, PublishBaseKept
<1>5. CASE Invalidate
  BY <1>5, InvalidateKept
<1>6. CASE DiskFills
  BY <1>6, DiskFillsKept
<1>7. ASSUME NEW s \in WarmSlots,
             \/ Spawn(s) \/ GuestIdles(s) \/ GuestTakes(s) \/ GuestStarts(s)
             \/ \E o \in {"part", "whole"} : GuestEnds(s, o)
             \/ GuestDies(s) \/ SignalGo(s) \/ WaitForDone(s) \/ LookForStart(s) \/ ReadDone(s)
             \/ HearFrame(s) \/ HearNothing(s) \/ JudgeOutput(s) \/ ReleaseSlot(s)
      PROVE  WarmInv'
  <2>1. CASE \/ GuestIdles(s) \/ GuestTakes(s) \/ GuestStarts(s) \/ GuestDies(s)
             \/ \E o \in {"part", "whole"} : GuestEnds(s, o)
    <3>1. slot[s].guest \in Busy
      BY <2>1 DEF GuestIdles, GuestTakes, GuestStarts, GuestDies, GuestEnds, Busy
    <3>2. slot[s].host # "free"
      BY <3>1, InUse DEF Evident, Busy
    <3> QED
      BY <2>1, <3>2, GuestKept
  <2>2. CASE Spawn(s)
    BY <2>2, SpawnKept
  <2>3. CASE SignalGo(s)
    BY <2>3, SignalGoKept
  <2>4. CASE WaitForDone(s)
    BY <2>4, WaitForDoneKept
  <2>5. CASE LookForStart(s)
    BY <2>5, LookForStartKept
  <2>6. CASE ReadDone(s)
    BY <2>6, ReadDoneKept
  <2>7. CASE HearFrame(s)
    BY <2>7, HearFrameKept
  <2>8. CASE HearNothing(s)
    BY <2>8, HearNothingKept
  <2>9. CASE JudgeOutput(s)
    BY <2>9, JudgeOutputKept
  <2>10. CASE ReleaseSlot(s)
    BY <2>10, ReleaseKept
  <2> QED
    BY <1>7, <2>1, <2>2, <2>3, <2>4, <2>5, <2>6, <2>7, <2>8, <2>9, <2>10
<1>8. CASE UNCHANGED warmVars
  BY <1>8, Stood, SlotsStand DEF warmVars, WarmTypeOK, Credited, Pinned, CapableFor
<1> QED
  BY <1>1, <1>2, <1>3, <1>4, <1>5, <1>6, <1>7, <1>8 DEF WarmNext

\* A slot is charged as one whose guest never started only on the word of an image that would
\* have said so, and a worker only for an output that was not whole or a deadline that passed
\* (warm.AckCapability, dispatch._dispatch_warm, warm_fault_stage).
THEOREM EvidenceConvicts == WarmSpec => []ConvictsOnEvidence
<1>1. WarmInit => WarmInv
  BY WarmInitially
<1>2. WarmInv /\ [WarmNext]_warmVars => WarmInv'
  BY WarmStep
<1>3. WarmInv => ConvictsOnEvidence
  BY DEF WarmInv, ConvictsOnEvidence, Charged, Busy
<1> QED
  BY <1>1, <1>2, <1>3, PTL DEF WarmSpec

-------------------------------------------------------------------------------
\* Libvirt virtual machines

GuestRecords ==
  [pc : {"free", "new", "disk", "reserved", "warming", "stripped", "routed", "hooked", "idle", "busy",
         "reap", "unhook", "unreserve", "rm", "husk", "lost"},
   ip : VmIps \cup {0}, reserved : BOOLEAN, running : BOOLEAN, used : BOOLEAN, overlay : BOOLEAN,
   by : {"pool", "spawn", "ready"}]

LibvirtTypeOK ==
  /\ ipFree \subseteq VmIps /\ reservations \subseteq VmIps
  /\ rules \in [VmIps -> SUBSET Parts]
  /\ slots \in [VmSlotIds -> GuestRecords]
  /\ orphans \subseteq [ip : VmIps, used : BOOLEAN]

Single == \A s, t \in VmSlotIds : s = t

\* A slot whose reap raised after it gave its address back still has that address: where two
\* slots share the pool, no rule may fail to install and no overlay to be removed.
LibvirtConstants == Single \/ {"apply", "overlay"} \cap VmFaults = {}

\* A slot among the rules R and the reservations V.
Fenced(r, R, V) ==
  /\ r.pc # "free" => r.ip \in VmIps
  /\ r.running => r.pc \notin {"free", "new", "disk", "reserved", "unhook", "unreserve", "rm"}
  /\ r.used => r.pc = "busy" \/ (r.pc \in {"reap", "husk"} /\ r.by = "pool")
  /\ r.pc = "routed" => "route" \in R[r.ip]
  /\ r.pc \in {"hooked", "idle", "busy"} \/ r.used => R[r.ip] = Parts
  /\ r.pc = "reserved" \/ r.running => r.ip \in V
  /\ r.by = "ready" => Single

Owns(r) == r.pc \notin {"free", "rm"}

\* An address in use is not in the pool F.
Withheld(r, F) ==
  r.pc \in {"new", "disk", "reserved"} \/ r.running \/ (~Single /\ Owns(r)) => r.ip \notin F

\* The guests a crash left behind keep their addresses, their rules and their reservations.
OrphansKeep ==
  /\ \A o \in orphans : /\ o.ip \in reservations /\ o.ip \notin ipFree
                        /\ o.used => rules[o.ip] = Parts
                        /\ \A p \in orphans : o # p => o.ip # p.ip
  /\ \A s \in VmSlotIds, o \in orphans : slots[s].pc # "free" => slots[s].ip # o.ip

LibvirtInv ==
  /\ LibvirtTypeOK /\ OrphansKeep
  /\ \A s \in VmSlotIds : Fenced(slots[s], rules, reservations) /\ Withheld(slots[s], ipFree)
  /\ \A s, t \in VmSlotIds : s # t /\ Owns(slots[s]) /\ Owns(slots[t]) => slots[s].ip # slots[t].ip

LEMMA NoSlotIsOne ==
  /\ NoSlot \in GuestRecords /\ NoSlot.pc = "free" /\ ~Owns(NoSlot)
  /\ \A R, V, F : Fenced(NoSlot, R, V) /\ Withheld(NoSlot, F)
<1>1. /\ NoSlot \in GuestRecords /\ NoSlot.pc = "free" /\ ~NoSlot.running /\ ~NoSlot.used /\ NoSlot.by = "pool"
  BY DEF NoSlot, GuestRecords
<1> QED
  BY <1>1 DEF Owns, Fenced, Withheld

LEMMA LibvirtInitially == LibvirtInit => LibvirtInv
<1> SUFFICES ASSUME LibvirtInit PROVE LibvirtInv
  OBVIOUS
<1>1. \A s \in VmSlotIds : slots[s] = NoSlot
  BY DEF LibvirtInit
<1>2. LibvirtTypeOK
  BY NoSlotIsOne DEF LibvirtInit, LibvirtTypeOK
<1>3. OrphansKeep
  BY DEF LibvirtInit, OrphansKeep
<1> QED
  BY <1>1, <1>2, <1>3, NoSlotIsOne DEF LibvirtInv

\* A step of one slot that has an address touches nothing of another one's.
LEMMA OneMoves ==
  ASSUME LibvirtInv, NEW s \in VmSlotIds, NEW c \in GuestRecords, Slot(s, c), slots[s].pc # "free",
         c.ip = slots[s].ip \/ c.pc = "free", orphans' = orphans,
         rules' \in [VmIps -> SUBSET Parts],
         \A j \in VmIps : j # slots[s].ip => rules'[j] = rules[j],
         reservations' \subseteq VmIps,
         \A j \in reservations : j # slots[s].ip => j \in reservations',
         ipFree' \subseteq ipFree \cup {slots[s].ip},
         \/ Owns(slots[s])
         \/ UNCHANGED <<ipFree, reservations, rules>> /\ (Owns(c) => Single),
         Fenced(c, rules', reservations'), Withheld(c, ipFree')
  PROVE  LibvirtInv'
<1> DEFINE i == slots[s].ip
<1>1. /\ LibvirtTypeOK /\ OrphansKeep
      /\ \A t \in VmSlotIds : Fenced(slots[t], rules, reservations) /\ Withheld(slots[t], ipFree)
      /\ \A t, u \in VmSlotIds : t # u /\ Owns(slots[t]) /\ Owns(slots[u]) => slots[t].ip # slots[u].ip
  BY DEF LibvirtInv
<1>2. i \in VmIps
  BY <1>1 DEF Fenced
<1>3. slots' = [slots EXCEPT ![s] = c]
  BY DEF Slot
<1>4. slots'[s] = c /\ \A t \in VmSlotIds : t # s => slots'[t] = slots[t]
  BY <1>1, <1>3 DEF LibvirtTypeOK
<1>5. LibvirtTypeOK'
  BY <1>1, <1>2, <1>3 DEF LibvirtTypeOK
<1>6. OrphansKeep'
  <2>1. \A o \in orphans : o.ip \in VmIps /\ o.ip # i
    BY <1>1 DEF LibvirtTypeOK, OrphansKeep
  <2>2. ASSUME NEW o \in orphans
        PROVE  /\ o.ip \in reservations' /\ o.ip \notin ipFree'
               /\ o.used => rules'[o.ip] = Parts
               /\ \A p \in orphans : o # p => o.ip # p.ip
    BY <1>1, <2>1 DEF OrphansKeep
  <2>3. ASSUME NEW t \in VmSlotIds, NEW o \in orphans, slots'[t].pc # "free"
        PROVE  slots'[t].ip # o.ip
    <3>1. CASE t = s
      BY <1>4, <2>1, <2>3, <3>1
    <3>2. CASE t # s
      BY <1>1, <1>4, <2>3, <3>2 DEF OrphansKeep
    <3> QED
      BY <3>1, <3>2
  <2> QED
    BY <2>2, <2>3 DEF OrphansKeep
<1>7. ASSUME NEW t \in VmSlotIds, t # s
      PROVE  Fenced(slots[t], rules', reservations') /\ Withheld(slots[t], ipFree')
  <2>1. Fenced(slots[t], rules, reservations) /\ Withheld(slots[t], ipFree)
    BY <1>1
  <2>2. CASE Owns(slots[s]) /\ Owns(slots[t])
    <3>1. slots[t].ip # i
      BY <1>1, <1>7, <2>2
    <3>2. slots[t].pc # "free" => slots[t].ip \in VmIps /\ rules'[slots[t].ip] = rules[slots[t].ip]
      BY <2>1, <3>1 DEF Fenced
    <3>3. Fenced(slots[t], rules', reservations')
      BY <2>1, <2>2, <3>1, <3>2 DEF Fenced, Owns
    <3>4. Withheld(slots[t], ipFree')
      BY <2>1, <3>1 DEF Withheld
    <3> QED
      BY <3>3, <3>4
  <2>3. CASE ~Owns(slots[t])
    BY <2>1, <2>3 DEF Fenced, Withheld, Owns
  <2>4. CASE ~Owns(slots[s])
    BY <2>1, <2>4
  <2> QED
    BY <2>2, <2>3, <2>4
<1>8. ASSUME NEW t \in VmSlotIds, NEW u \in VmSlotIds, t # u, Owns(slots'[t]), Owns(slots'[u])
      PROVE  slots'[t].ip # slots'[u].ip
  <2>1. ASSUME NEW v \in VmSlotIds, v # s, Owns(c), Owns(slots[v])
        PROVE  c.ip # slots[v].ip
    <3>1. Owns(slots[s])
      BY <2>1 DEF Single
    <3>2. c.ip = slots[s].ip
      BY <2>1 DEF Owns
    <3> QED
      BY <1>1, <2>1, <3>1, <3>2
  <2> QED
    BY <1>1, <1>4, <1>8, <2>1
<1>9. ASSUME NEW t \in VmSlotIds
      PROVE  Fenced(slots'[t], rules', reservations') /\ Withheld(slots'[t], ipFree')
  BY <1>4, <1>7
<1>10. \A t \in VmSlotIds : Fenced(slots[t], rules, reservations)' /\ Withheld(slots[t], ipFree)'
  BY <1>9 DEF Fenced, Withheld
<1>11. \A t, u \in VmSlotIds : t # u /\ Owns(slots[t])' /\ Owns(slots[u])' => slots'[t].ip # slots'[u].ip
  BY <1>8 DEF Owns
<1> QED
  BY <1>5, <1>6, <1>10, <1>11 DEF LibvirtInv

\* The host's tables stand.
LEMMA OneStands ==
  ASSUME LibvirtInv, NEW s \in VmSlotIds, NEW c \in GuestRecords, Slot(s, c), slots[s].pc # "free",
         c.ip = slots[s].ip \/ c.pc = "free", UNCHANGED Host, Owns(c) => Owns(slots[s]) \/ Single,
         Fenced(c, rules, reservations), Withheld(c, ipFree)
  PROVE  LibvirtInv'
<1>1. rules' = rules /\ reservations' = reservations /\ ipFree' = ipFree /\ orphans' = orphans
  BY DEF Host
<1>2. rules \in [VmIps -> SUBSET Parts] /\ reservations \subseteq VmIps
  BY DEF LibvirtInv, LibvirtTypeOK
<1>3. Owns(slots[s]) \/ (UNCHANGED <<ipFree, reservations, rules>> /\ (Owns(c) => Single))
  BY <1>1
<1>4. Fenced(c, rules', reservations') /\ Withheld(c, ipFree')
  BY <1>1
<1> QED
  BY <1>1, <1>2, <1>3, <1>4, OneMoves

LEMMA OneIs ==
  ASSUME LibvirtInv, NEW s \in VmSlotIds
  PROVE  /\ slots[s] \in GuestRecords /\ Fenced(slots[s], rules, reservations) /\ Withheld(slots[s], ipFree)
         /\ slots[s].pc # "free" => slots[s].ip \in VmIps
         /\ rules \in [VmIps -> SUBSET Parts] /\ reservations \subseteq VmIps /\ ipFree \subseteq VmIps
  BY DEF LibvirtInv, LibvirtTypeOK, Fenced

Pcs == {"free", "new", "disk", "reserved", "warming", "stripped", "routed", "hooked", "idle", "busy",
        "reap", "unhook", "unreserve", "rm", "husk", "lost"}
Like(c, r) == c.ip = r.ip /\ c.running = r.running /\ c.used = r.used /\ c.by = r.by

LEMMA PcIsOne ==
  ASSUME NEW r \in GuestRecords, NEW pc \in Pcs
  PROVE  LET c == [r EXCEPT !.pc = pc] IN c \in GuestRecords /\ c.pc = pc /\ Like(c, r)
BY DEF GuestRecords, Pcs, Like

\* The slot moves on and nothing else changes.
LEMMA OneSteps ==
  ASSUME LibvirtInv, NEW s \in VmSlotIds, NEW pc \in Pcs \ {"free"}, slots[s].pc # "free", UNCHANGED Host,
         Slot(s, [slots[s] EXCEPT !.pc = pc]), pc # "rm" => Owns(slots[s]) \/ Single,
         slots[s].running => pc \notin {"new", "disk", "reserved", "unhook", "unreserve", "rm"},
         slots[s].used => pc = "busy" \/ (pc \in {"reap", "husk"} /\ slots[s].by = "pool"),
         pc = "routed" => "route" \in rules[slots[s].ip],
         pc \in {"hooked", "idle", "busy"} => rules[slots[s].ip] = Parts,
         pc = "reserved" => slots[s].ip \in reservations,
         pc \in {"new", "disk", "reserved"} \/ (~Single /\ pc # "rm") => slots[s].ip \notin ipFree
  PROVE  LibvirtInv'
<1> DEFINE r == slots[s]
           c == [r EXCEPT !.pc = pc]
<1>1. r \in GuestRecords /\ Fenced(r, rules, reservations) /\ Withheld(r, ipFree)
  BY OneIs
<1>2. c \in GuestRecords /\ c.pc = pc /\ Like(c, r)
  BY <1>1, PcIsOne
<1>3. Slot(s, c)
  OBVIOUS
<1> HIDE DEF c
<1>4. Fenced(c, rules, reservations)
  BY <1>1, <1>2 DEF Fenced, Like
<1>5. Withheld(c, ipFree)
  BY <1>1, <1>2 DEF Withheld, Owns, Like
<1>6. c.ip = r.ip /\ (Owns(c) => Owns(r) \/ Single)
  BY <1>2 DEF Like, Owns
<1> QED
  BY <1>2, <1>3, <1>4, <1>5, <1>6, OneStands

-------------------------------------------------------------------------------
\* spawn()

LEMMA AllocIpKept ==
  ASSUME LibvirtInv, NEW s \in VmSlotIds, AllocIp(s)
  PROVE  LibvirtInv'
<1>1. PICK i \in ipFree : ipFree' = ipFree \ {i} /\ Slot(s, [NoSlot EXCEPT !.pc = "new", !.ip = i])
  BY DEF AllocIp
<1>2. UNCHANGED <<reservations, rules, orphans>> /\ slots[s].pc = "free"
  BY DEF AllocIp, At
<1>3. /\ LibvirtTypeOK /\ OrphansKeep
      /\ \A t \in VmSlotIds : Fenced(slots[t], rules, reservations) /\ Withheld(slots[t], ipFree)
      /\ \A t, u \in VmSlotIds : t # u /\ Owns(slots[t]) /\ Owns(slots[u]) => slots[t].ip # slots[u].ip
  BY DEF LibvirtInv
<1>4. i \in VmIps
  BY <1>1, <1>3 DEF LibvirtTypeOK
<1> DEFINE b == [NoSlot EXCEPT !.pc = "new"]
           c == [b EXCEPT !.ip = i]
<1>5. Slot(s, c)
  BY <1>1
<1>6. b \in GuestRecords /\ b.pc = "new" /\ ~b.running /\ ~b.used /\ b.by = "pool"
  BY NoSlotIsOne DEF NoSlot, GuestRecords
<1> HIDE DEF b
<1>7. c \in GuestRecords /\ c.pc = "new" /\ ~c.running /\ ~c.used /\ c.by = "pool" /\ c.ip = i
  BY <1>4, <1>6 DEF GuestRecords
<1> HIDE DEF c
<1>8. slots' = [slots EXCEPT ![s] = c]
  BY <1>5 DEF Slot
<1>9. slots'[s] = c /\ \A t \in VmSlotIds : t # s => slots'[t] = slots[t]
  BY <1>3, <1>8 DEF LibvirtTypeOK
<1>10. LibvirtTypeOK'
  BY <1>1, <1>2, <1>3, <1>7, <1>8 DEF LibvirtTypeOK
<1>11. OrphansKeep'
  <2>1. \A o \in orphans : o.ip # i
    BY <1>3 DEF OrphansKeep
  <2> QED
    BY <1>1, <1>2, <1>3, <1>7, <1>9, <2>1 DEF OrphansKeep
<1>12. Fenced(c, rules, reservations) /\ Withheld(c, ipFree')
  BY <1>1, <1>4, <1>7 DEF Fenced, Withheld
<1>13. ASSUME NEW t \in VmSlotIds
       PROVE  Fenced(slots[t], rules, reservations)' /\ Withheld(slots[t], ipFree)'
  <2>1. CASE t = s
    BY <1>2, <1>9, <1>12, <2>1 DEF Fenced, Withheld
  <2>2. CASE t # s
    <3>1. Fenced(slots[t], rules, reservations) /\ Withheld(slots[t], ipFree) /\ slots'[t] = slots[t]
      BY <1>3, <1>9, <2>2
    <3>2. Withheld(slots[t], ipFree)'
      BY <1>1, <3>1 DEF Withheld, Owns
    <3> QED
      BY <1>2, <3>1, <3>2 DEF Fenced
  <2> QED
    BY <2>1, <2>2
<1>14. ASSUME NEW t \in VmSlotIds, t # s, Owns(slots[t])
       PROVE  slots[t].ip # i
  <2>1. ~Single
    BY <1>14 DEF Single
  <2> QED
    BY <1>3, <1>14, <2>1 DEF Withheld
<1>15. ASSUME NEW t \in VmSlotIds, NEW u \in VmSlotIds, t # u, Owns(slots'[t]), Owns(slots'[u])
       PROVE  slots'[t].ip # slots'[u].ip
  <2>1. CASE t = s
    BY <1>7, <1>9, <1>14, <1>15, <2>1
  <2>2. CASE u = s
    BY <1>7, <1>9, <1>14, <1>15, <2>2
  <2>3. CASE t # s /\ u # s
    BY <1>3, <1>9, <1>15, <2>3
  <2> QED
    BY <2>1, <2>2, <2>3
<1>16. \A t, u \in VmSlotIds : t # u /\ Owns(slots[t])' /\ Owns(slots[u])' => slots'[t].ip # slots'[u].ip
  BY <1>15 DEF Owns
<1> QED
  BY <1>10, <1>11, <1>13, <1>16 DEF LibvirtInv

\* What a slot that is being spawned has.
LEMMA SpawnedPart ==
  ASSUME LibvirtInv, NEW s \in VmSlotIds, slots[s].pc \in {"new", "disk", "reserved"}
  PROVE  ~slots[s].running /\ ~slots[s].used /\ slots[s].ip \notin ipFree /\ Owns(slots[s])
<1>1. slots[s] \in GuestRecords /\ Fenced(slots[s], rules, reservations) /\ Withheld(slots[s], ipFree)
  BY OneIs
<1>2. slots[s].running \in BOOLEAN /\ slots[s].used \in BOOLEAN
  BY <1>1 DEF GuestRecords
<1> QED
  BY <1>1, <1>2 DEF Fenced, Withheld, Owns

LEMMA FailSpawnKept ==
  ASSUME LibvirtInv, NEW s \in VmSlotIds, slots[s].pc \in {"new", "disk", "reserved"}, FailSpawn(s), UNCHANGED Host
  PROVE  LibvirtInv'
<1> DEFINE r == slots[s]
           b == [r EXCEPT !.pc = "reap"]
           c == [b EXCEPT !.by = "spawn"]
<1>1. r \in GuestRecords /\ Fenced(r, rules, reservations)
  BY OneIs
<1>2. ~r.running /\ ~r.used /\ r.ip \notin ipFree /\ Owns(r)
  BY SpawnedPart
<1>3. Slot(s, c)
  BY DEF FailSpawn
<1>4. b \in GuestRecords /\ b.pc = "reap" /\ Like(b, r)
  BY <1>1, PcIsOne DEF Pcs
<1> HIDE DEF b
<1>5. c \in GuestRecords /\ c.pc = "reap" /\ c.ip = b.ip /\ c.running = b.running /\ c.used = b.used /\ c.by = "spawn"
  BY <1>4 DEF GuestRecords
<1> HIDE DEF c
<1>6. Fenced(c, rules, reservations) /\ Withheld(c, ipFree) /\ c.ip = r.ip
  BY <1>1, <1>2, <1>4, <1>5 DEF Fenced, Withheld, Like
<1> QED
  BY <1>2, <1>3, <1>5, <1>6, OneStands

LEMMA CreateOverlayKept ==
  ASSUME LibvirtInv, NEW s \in VmSlotIds, CreateOverlay(s)
  PROVE  LibvirtInv'
<1> DEFINE r == slots[s]
<1>1. r \in GuestRecords /\ Fenced(r, rules, reservations) /\ r.pc = "new" /\ UNCHANGED Host
  BY OneIs DEF CreateOverlay, At
<1>2. ~r.running /\ ~r.used /\ r.ip \notin ipFree /\ Owns(r)
  BY <1>1, SpawnedPart
<1>3. CASE Slot(s, [r EXCEPT !.pc = "disk", !.overlay = TRUE])
  <2> DEFINE b == [r EXCEPT !.pc = "disk"]
             c == [b EXCEPT !.overlay = TRUE]
  <2>1. Slot(s, c)
    BY <1>3
  <2>2. b \in GuestRecords /\ b.pc = "disk" /\ Like(b, r)
    BY <1>1, PcIsOne DEF Pcs
  <2> HIDE DEF b
  <2>3. c \in GuestRecords /\ c.pc = "disk" /\ c.ip = b.ip /\ c.running = b.running /\ c.used = b.used /\ c.by = b.by
    BY <2>2 DEF GuestRecords
  <2> HIDE DEF c
  <2>4. Fenced(c, rules, reservations) /\ Withheld(c, ipFree) /\ c.ip = r.ip
    BY <1>1, <1>2, <2>2, <2>3 DEF Fenced, Withheld, Like
  <2> QED
    BY <1>1, <1>2, <2>1, <2>3, <2>4, OneStands
<1>4. CASE FailSpawn(s)
  BY <1>1, <1>4, FailSpawnKept
<1> QED
  BY <1>3, <1>4 DEF CreateOverlay

LEMMA ReserveKept ==
  ASSUME LibvirtInv, NEW s \in VmSlotIds, Reserve(s)
  PROVE  LibvirtInv'
<1> DEFINE r == slots[s]
<1>1. /\ r \in GuestRecords /\ Fenced(r, rules, reservations) /\ r.pc = "disk" /\ UNCHANGED <<ipFree, rules, orphans>>
      /\ r.ip \in VmIps /\ rules \in [VmIps -> SUBSET Parts] /\ reservations \subseteq VmIps
  BY OneIs DEF Reserve, At
<1>2. ~r.running /\ ~r.used /\ r.ip \notin ipFree /\ Owns(r)
  BY <1>1, SpawnedPart
<1>3. CASE reservations' = reservations \cup {r.ip} /\ Slot(s, [r EXCEPT !.pc = "reserved", !.reserved = TRUE])
  <2> DEFINE b == [r EXCEPT !.pc = "reserved"]
             c == [b EXCEPT !.reserved = TRUE]
  <2>1. Slot(s, c)
    BY <1>3
  <2>2. b \in GuestRecords /\ b.pc = "reserved" /\ Like(b, r)
    BY <1>1, PcIsOne DEF Pcs
  <2> HIDE DEF b
  <2>3. c \in GuestRecords /\ c.pc = "reserved" /\ c.ip = b.ip /\ c.running = b.running /\ c.used = b.used /\ c.by = b.by
    BY <2>2 DEF GuestRecords
  <2> HIDE DEF c
  <2>4. Fenced(c, rules', reservations') /\ Withheld(c, ipFree') /\ c.ip = r.ip
    BY <1>1, <1>2, <1>3, <2>2, <2>3 DEF Fenced, Withheld, Like
  <2>5. /\ rules' \in [VmIps -> SUBSET Parts] /\ (\A j \in VmIps : j # r.ip => rules'[j] = rules[j])
        /\ reservations' \subseteq VmIps /\ (\A j \in reservations : j # r.ip => j \in reservations')
        /\ ipFree' \subseteq ipFree \cup {r.ip} /\ orphans' = orphans
    BY <1>1, <1>3
  <2>6. r.pc # "free"
    BY <1>1
  <2> HIDE DEF r
  <2> QED
    BY <1>2, <2>1, <2>3, <2>4, <2>5, <2>6, OneMoves DEF r
<1>4. CASE FailSpawn(s) /\ UNCHANGED reservations
  <2>1. UNCHANGED Host
    BY <1>1, <1>4 DEF Host
  <2> QED
    BY <1>1, <1>4, <2>1, FailSpawnKept
<1> QED
  BY <1>3, <1>4 DEF Reserve

LEMMA StartDomainKept ==
  ASSUME LibvirtInv, NEW s \in VmSlotIds, StartDomain(s)
  PROVE  LibvirtInv'
<1> DEFINE r == slots[s]
<1>1. r \in GuestRecords /\ Fenced(r, rules, reservations) /\ r.pc = "reserved" /\ UNCHANGED Host
  BY OneIs DEF StartDomain, At
<1>2. ~r.running /\ ~r.used /\ r.ip \notin ipFree /\ Owns(r)
  BY <1>1, SpawnedPart
<1>3. CASE Slot(s, [r EXCEPT !.pc = "warming", !.running = TRUE])
  <2> DEFINE b == [r EXCEPT !.pc = "warming"]
             c == [b EXCEPT !.running = TRUE]
  <2>1. Slot(s, c)
    BY <1>3
  <2>2. b \in GuestRecords /\ b.pc = "warming" /\ Like(b, r)
    BY <1>1, PcIsOne DEF Pcs
  <2> HIDE DEF b
  <2>3. c \in GuestRecords /\ c.pc = "warming" /\ c.ip = b.ip /\ c.running /\ c.used = b.used /\ c.by = b.by
    BY <2>2 DEF GuestRecords
  <2> HIDE DEF c
  <2>4. Fenced(c, rules, reservations) /\ Withheld(c, ipFree) /\ c.ip = r.ip
    BY <1>1, <1>2, <2>2, <2>3 DEF Fenced, Withheld, Like
  <2> QED
    BY <1>1, <1>2, <2>1, <2>3, <2>4, OneStands
<1>4. CASE FailSpawn(s)
  BY <1>1, <1>4, FailSpawnKept
<1> QED
  BY <1>3, <1>4 DEF StartDomain

-------------------------------------------------------------------------------
\* is_ready(), jobs and recycle()

\* What a slot that has its address withheld keeps while it goes on.
LEMMA Going ==
  ASSUME LibvirtInv, NEW s \in VmSlotIds, slots[s].pc \in {"warming", "stripped", "routed", "hooked", "idle", "busy"}
  PROVE  /\ slots[s] \in GuestRecords /\ Fenced(slots[s], rules, reservations) /\ Withheld(slots[s], ipFree)
         /\ Owns(slots[s]) /\ (slots[s].used => slots[s].pc = "busy") /\ slots[s].ip \in VmIps
         /\ (~Single => slots[s].ip \notin ipFree)
<1>1. slots[s] \in GuestRecords /\ Fenced(slots[s], rules, reservations) /\ Withheld(slots[s], ipFree)
  BY OneIs
<1> QED
  BY <1>1 DEF Fenced, Withheld, Owns

\* The slot moves on and only the rules of its own address change.
LEMMA OneRuled ==
  ASSUME LibvirtInv, NEW s \in VmSlotIds, NEW c \in GuestRecords, Slot(s, c), Owns(slots[s]),
         c.ip = slots[s].ip, NEW R \in SUBSET Parts, Rules(s, R),
         UNCHANGED <<ipFree, reservations, orphans>>,
         Withheld(c, ipFree), c.running = slots[s].running, c.by = "ready" => Single,
         c.pc \notin {"free", "new", "disk", "reserved"},
         c.running => c.pc \notin {"unhook", "unreserve", "rm"},
         ~c.used, c.pc = "routed" => "route" \in R, c.pc \in {"hooked", "idle", "busy"} => R = Parts
  PROVE  LibvirtInv'
<1> DEFINE i == slots[s].ip
<1>1. /\ slots[s].pc # "free" /\ i \in VmIps /\ rules \in [VmIps -> SUBSET Parts]
      /\ reservations \subseteq VmIps /\ Fenced(slots[s], rules, reservations)
  BY OneIs DEF Owns
<1>2. rules' = [rules EXCEPT ![i] = R]
  BY DEF Rules
<1>3. rules' \in [VmIps -> SUBSET Parts] /\ rules'[i] = R /\ \A j \in VmIps : j # i => rules'[j] = rules[j]
  BY <1>1, <1>2
<1>4. Fenced(c, rules', reservations')
  BY <1>1, <1>3 DEF Fenced
<1>5. Withheld(c, ipFree') /\ ipFree' \subseteq ipFree \cup {i} /\ reservations' = reservations
  OBVIOUS
<1> HIDE DEF i
<1> QED
  BY <1>1, <1>3, <1>4, <1>5, OneMoves DEF i

LEMMA StripRulesKept ==
  ASSUME LibvirtInv, NEW s \in VmSlotIds, StripRules(s)
  PROVE  LibvirtInv'
<1> DEFINE r == slots[s]
           c == [r EXCEPT !.pc = "stripped"]
<1>1. r.pc = "warming" /\ Rules(s, {}) /\ Slot(s, c) /\ UNCHANGED <<ipFree, reservations, orphans>>
  BY DEF StripRules, At
<1>2. /\ r \in GuestRecords /\ Fenced(r, rules, reservations) /\ Withheld(r, ipFree)
      /\ Owns(r) /\ ~r.used
  BY <1>1, Going
<1>3. c \in GuestRecords /\ c.pc = "stripped" /\ Like(c, r)
  BY <1>2, PcIsOne DEF Pcs
<1> HIDE DEF c
<1>4. Withheld(c, ipFree) /\ ~c.used /\ c.ip = r.ip /\ c.running = r.running /\ (c.by = "ready" => Single)
  BY <1>1, <1>2, <1>3 DEF Withheld, Fenced, Like, Owns
<1> QED
  BY <1>1, <1>2, <1>3, <1>4, OneRuled

LEMMA ApplyFailsKept ==
  ASSUME LibvirtConstants, LibvirtInv, NEW s \in VmSlotIds, ApplyFails(s)
  PROVE  LibvirtInv'
<1> DEFINE r == slots[s]
           b == [r EXCEPT !.pc = "reap"]
           c == [b EXCEPT !.by = "ready"]
<1>1. r.pc \in {"stripped", "routed"} /\ Rules(s, {}) /\ Slot(s, c) /\ UNCHANGED <<ipFree, reservations, orphans>>
  BY DEF ApplyFails
<1>2. Single
  BY DEF ApplyFails, May, LibvirtConstants
<1>3. /\ r \in GuestRecords /\ Fenced(r, rules, reservations) /\ Withheld(r, ipFree)
      /\ Owns(r) /\ ~r.used
  BY <1>1, Going
<1>4. b \in GuestRecords /\ b.pc = "reap" /\ Like(b, r)
  BY <1>3, PcIsOne DEF Pcs
<1> HIDE DEF b
<1>5. c \in GuestRecords /\ c.pc = "reap" /\ c.ip = b.ip /\ c.running = b.running /\ c.used = b.used
  BY <1>4 DEF GuestRecords
<1> HIDE DEF c
<1>6. Withheld(c, ipFree) /\ ~c.used /\ c.ip = r.ip /\ c.running = r.running
  BY <1>1, <1>2, <1>3, <1>4, <1>5 DEF Withheld, Like
<1> QED
  BY <1>1, <1>2, <1>3, <1>5, <1>6, OneRuled

LEMMA InstallRoutingKept ==
  ASSUME LibvirtInv, NEW s \in VmSlotIds, InstallRouting(s)
  PROVE  LibvirtInv'
<1> DEFINE r == slots[s]
           c == [r EXCEPT !.pc = "routed"]
<1>1. r.pc = "stripped" /\ Rules(s, {"route"}) /\ Slot(s, c) /\ UNCHANGED <<ipFree, reservations, orphans>>
  BY DEF InstallRouting, At
<1>2. /\ r \in GuestRecords /\ Fenced(r, rules, reservations) /\ Withheld(r, ipFree)
      /\ Owns(r) /\ ~r.used
  BY <1>1, Going
<1>3. c \in GuestRecords /\ c.pc = "routed" /\ Like(c, r)
  BY <1>2, PcIsOne DEF Pcs
<1> HIDE DEF c
<1>4. Withheld(c, ipFree) /\ ~c.used /\ c.ip = r.ip /\ c.running = r.running /\ (c.by = "ready" => Single)
  BY <1>1, <1>2, <1>3 DEF Withheld, Fenced, Like, Owns
<1>5. {"route"} \in SUBSET Parts
  BY DEF Parts
<1> QED
  BY <1>1, <1>2, <1>3, <1>4, <1>5, OneRuled

LEMMA HookChainsKept ==
  ASSUME LibvirtInv, NEW s \in VmSlotIds, HookChains(s)
  PROVE  LibvirtInv'
<1> DEFINE r == slots[s]
           c == [r EXCEPT !.pc = "hooked"]
           R == rules[r.ip] \cup {"hook"}
<1>1. r.pc = "routed" /\ Rules(s, R) /\ Slot(s, c) /\ UNCHANGED <<ipFree, reservations, orphans>>
  BY DEF HookChains, At
<1>2. /\ r \in GuestRecords /\ Fenced(r, rules, reservations) /\ Withheld(r, ipFree)
      /\ Owns(r) /\ ~r.used /\ r.ip \in VmIps
  BY <1>1, Going
<1>3. c \in GuestRecords /\ c.pc = "hooked" /\ Like(c, r)
  BY <1>2, PcIsOne DEF Pcs
<1> HIDE DEF c
<1>4. Withheld(c, ipFree) /\ ~c.used /\ c.ip = r.ip /\ c.running = r.running /\ (c.by = "ready" => Single)
  BY <1>1, <1>2, <1>3 DEF Withheld, Fenced, Like, Owns
<1>5. rules[r.ip] \subseteq Parts /\ "route" \in rules[r.ip]
  BY <1>1, <1>2, OneIs DEF Fenced
<1>6. R = Parts
  BY <1>5 DEF Parts
<1> HIDE DEF R
<1> QED
  BY <1>1, <1>2, <1>3, <1>4, <1>6, OneRuled

LEMMA FinalizeKept ==
  ASSUME LibvirtInv, NEW s \in VmSlotIds, Finalize(s)
  PROVE  LibvirtInv'
<1>1. slots[s].pc = "hooked" /\ UNCHANGED Host
  BY DEF Finalize, At
<1>2. /\ Fenced(slots[s], rules, reservations) /\ Owns(slots[s]) /\ ~slots[s].used
      /\ (~Single => slots[s].ip \notin ipFree)
  BY <1>1, Going
<1>3. PICK pc \in {"idle", "warming"} : Slot(s, [slots[s] EXCEPT !.pc = pc])
  BY DEF Finalize
<1>4. pc \in Pcs \ {"free"} /\ rules[slots[s].ip] = Parts
  BY <1>1, <1>2 DEF Pcs, Fenced
<1> QED
  BY <1>1, <1>2, <1>3, <1>4, OneSteps

LEMMA WarmingTimeoutKept ==
  ASSUME LibvirtInv, NEW s \in VmSlotIds, WarmingTimeout(s)
  PROVE  LibvirtInv'
<1> DEFINE r == slots[s]
           b == [r EXCEPT !.pc = "reap"]
           c == [b EXCEPT !.by = "pool"]
<1>1. r.pc = "warming" /\ UNCHANGED Host /\ Slot(s, c)
  BY DEF WarmingTimeout, At
<1>2. r \in GuestRecords /\ Fenced(r, rules, reservations) /\ Withheld(r, ipFree) /\ Owns(r) /\ ~r.used
  BY <1>1, Going
<1>3. b \in GuestRecords /\ b.pc = "reap" /\ Like(b, r)
  BY <1>2, PcIsOne DEF Pcs
<1> HIDE DEF b
<1>4. c \in GuestRecords /\ c.pc = "reap" /\ c.ip = b.ip /\ c.running = b.running /\ c.used = b.used /\ c.by = "pool"
  BY <1>3 DEF GuestRecords
<1> HIDE DEF c
<1>5. Fenced(c, rules, reservations) /\ Withheld(c, ipFree) /\ c.ip = r.ip
  BY <1>1, <1>2, <1>3, <1>4 DEF Fenced, Withheld, Owns, Like
<1> QED
  BY <1>1, <1>2, <1>4, <1>5, OneStands

LEMMA ClaimVmKept ==
  ASSUME LibvirtInv, NEW s \in VmSlotIds, ClaimVm(s)
  PROVE  LibvirtInv'
<1> DEFINE r == slots[s]
           b == [r EXCEPT !.pc = "busy"]
           c == [b EXCEPT !.used = TRUE]
<1>1. r.pc = "idle" /\ UNCHANGED Host /\ Slot(s, c)
  BY DEF ClaimVm, At
<1>2. r \in GuestRecords /\ Fenced(r, rules, reservations) /\ Withheld(r, ipFree) /\ Owns(r)
  BY <1>1, Going
<1>3. b \in GuestRecords /\ b.pc = "busy" /\ Like(b, r)
  BY <1>2, PcIsOne DEF Pcs
<1> HIDE DEF b
<1>4. c \in GuestRecords /\ c.pc = "busy" /\ c.ip = b.ip /\ c.running = b.running /\ c.by = b.by
  BY <1>3 DEF GuestRecords
<1> HIDE DEF c
<1>5. Fenced(c, rules, reservations) /\ Withheld(c, ipFree) /\ c.ip = r.ip
  BY <1>1, <1>2, <1>3, <1>4 DEF Fenced, Withheld, Owns, Like
<1> QED
  BY <1>1, <1>2, <1>4, <1>5, OneStands

LEMMA RecycleKept ==
  ASSUME LibvirtInv, NEW s \in VmSlotIds, Recycle(s)
  PROVE  LibvirtInv'
<1> DEFINE r == slots[s]
<1>1. r.pc = "busy" /\ UNCHANGED Host
  BY DEF Recycle, At
<1>2. r \in GuestRecords /\ Fenced(r, rules, reservations) /\ Withheld(r, ipFree) /\ Owns(r)
  BY <1>1, Going
<1>3. CASE Slot(s, [r EXCEPT !.pc = "idle", !.used = FALSE])
  <2> DEFINE b == [r EXCEPT !.pc = "idle"]
             c == [b EXCEPT !.used = FALSE]
  <2>1. Slot(s, c)
    BY <1>3
  <2>2. b \in GuestRecords /\ b.pc = "idle" /\ Like(b, r)
    BY <1>2, PcIsOne DEF Pcs
  <2> HIDE DEF b
  <2>3. c \in GuestRecords /\ c.pc = "idle" /\ c.ip = b.ip /\ c.running = b.running /\ c.by = b.by /\ ~c.used
    BY <2>2 DEF GuestRecords
  <2> HIDE DEF c
  <2>4. Fenced(c, rules, reservations) /\ Withheld(c, ipFree) /\ c.ip = r.ip
    BY <1>1, <1>2, <2>2, <2>3 DEF Fenced, Withheld, Owns, Like
  <2> QED
    BY <1>1, <1>2, <2>1, <2>3, <2>4, OneStands
<1>4. CASE Slot(s, [r EXCEPT !.pc = "reap", !.by = "pool"])
  <2> DEFINE b == [r EXCEPT !.pc = "reap"]
             c == [b EXCEPT !.by = "pool"]
  <2>1. Slot(s, c)
    BY <1>4
  <2>2. b \in GuestRecords /\ b.pc = "reap" /\ Like(b, r)
    BY <1>2, PcIsOne DEF Pcs
  <2> HIDE DEF b
  <2>3. c \in GuestRecords /\ c.pc = "reap" /\ c.ip = b.ip /\ c.running = b.running /\ c.by = "pool"
    BY <2>2 DEF GuestRecords
  <2> HIDE DEF c
  <2>4. Fenced(c, rules, reservations) /\ Withheld(c, ipFree) /\ c.ip = r.ip
    BY <1>1, <1>2, <2>2, <2>3 DEF Fenced, Withheld, Owns, Like
  <2> QED
    BY <1>1, <1>2, <2>1, <2>3, <2>4, OneStands
<1> QED
  BY <1>3, <1>4 DEF Recycle

-------------------------------------------------------------------------------
\* reap()

\* A reap that raises leaves the slot where its caller keeps it.
LEMMA ReapRaisesIs ==
  ASSUME NEW r
  PROVE  \E pc \in {"husk", "warming", "lost"} :
           /\ ReapRaises(r) = [r EXCEPT !.pc = pc]
           /\ r.by = "pool" => pc = "husk"
BY DEF ReapRaises

LEMMA ReapDestroysKept ==
  ASSUME LibvirtInv, NEW s \in VmSlotIds, ReapDestroys(s)
  PROVE  LibvirtInv'
<1> DEFINE r == slots[s]
<1>1. r.pc = "reap" /\ UNCHANGED Host
  BY DEF ReapDestroys, At
<1>2. r \in GuestRecords /\ Fenced(r, rules, reservations) /\ Withheld(r, ipFree) /\ Owns(r)
  BY <1>1, OneIs DEF Owns
<1>3. CASE Slot(s, Destroyed(r))
  <2> DEFINE a == [r EXCEPT !.pc = "unhook"]
             b == [a EXCEPT !.running = FALSE]
             c == [b EXCEPT !.used = FALSE]
  <2>1. Slot(s, c)
    BY <1>3 DEF Destroyed
  <2>2. a \in GuestRecords /\ a.pc = "unhook" /\ Like(a, r)
    BY <1>2, PcIsOne DEF Pcs
  <2> HIDE DEF a
  <2>3. b \in GuestRecords /\ b.pc = "unhook" /\ b.ip = a.ip /\ b.by = a.by /\ ~b.running
    BY <2>2 DEF GuestRecords
  <2> HIDE DEF b
  <2>4. c \in GuestRecords /\ c.pc = "unhook" /\ c.ip = b.ip /\ c.by = b.by /\ ~c.running /\ ~c.used
    BY <2>3 DEF GuestRecords
  <2> HIDE DEF c
  <2>5. Fenced(c, rules, reservations) /\ Withheld(c, ipFree) /\ c.ip = r.ip
    BY <1>1, <1>2, <2>2, <2>3, <2>4 DEF Fenced, Withheld, Owns, Like
  <2> QED
    BY <1>1, <1>2, <2>1, <2>4, <2>5, OneStands
<1>4. CASE Slot(s, DestroyRefused(s))
  <2>1. PICK pc \in {"husk", "warming", "lost"} :
           ReapRaises(r) = [r EXCEPT !.pc = pc] /\ (r.by = "pool" => pc = "husk")
    BY ReapRaisesIs
  <2>2. Slot(s, [slots[s] EXCEPT !.pc = pc])
    BY <1>4, <2>1 DEF DestroyRefused
  <2>3. r.used => pc = "husk" /\ r.by = "pool"
    BY <1>1, <1>2, <2>1 DEF Fenced
  <2>4. pc \in Pcs \ {"free"} /\ (~Single => r.ip \notin ipFree)
    BY <1>2 DEF Pcs, Withheld
  <2> QED
    BY <1>1, <1>2, <2>2, <2>3, <2>4, OneSteps
<1> QED
  BY <1>3, <1>4 DEF ReapDestroys

\* A destroyed guest is none.
LEMMA Reaping ==
  ASSUME LibvirtInv, NEW s \in VmSlotIds, slots[s].pc \in {"unhook", "unreserve", "rm"}
  PROVE  /\ slots[s] \in GuestRecords /\ Fenced(slots[s], rules, reservations) /\ Withheld(slots[s], ipFree)
         /\ ~slots[s].running /\ ~slots[s].used /\ slots[s].ip \in VmIps
<1>1. slots[s] \in GuestRecords /\ Fenced(slots[s], rules, reservations) /\ Withheld(slots[s], ipFree)
  BY OneIs
<1> QED
  BY <1>1 DEF Fenced

LEMMA ReapUnhooksKept ==
  ASSUME LibvirtInv, NEW s \in VmSlotIds, ReapUnhooks(s)
  PROVE  LibvirtInv'
<1> DEFINE r == slots[s]
           c == [r EXCEPT !.pc = "unreserve"]
<1>1. r.pc = "unhook" /\ Rules(s, {}) /\ Slot(s, c) /\ UNCHANGED <<ipFree, reservations, orphans>>
  BY DEF ReapUnhooks, At
<1>2. /\ r \in GuestRecords /\ Fenced(r, rules, reservations) /\ Withheld(r, ipFree)
      /\ ~r.running /\ ~r.used /\ Owns(r)
  BY <1>1, Reaping DEF Owns
<1>3. c \in GuestRecords /\ c.pc = "unreserve" /\ Like(c, r)
  BY <1>2, PcIsOne DEF Pcs
<1> HIDE DEF c
<1>4. /\ Withheld(c, ipFree) /\ ~c.used /\ ~c.running /\ c.ip = r.ip /\ c.running = r.running
      /\ (c.by = "ready" => Single)
  BY <1>1, <1>2, <1>3 DEF Withheld, Fenced, Like, Owns
<1> QED
  BY <1>1, <1>2, <1>3, <1>4, OneRuled

LEMMA ReapUnreservesKept ==
  ASSUME LibvirtInv, NEW s \in VmSlotIds, ReapUnreserves(s)
  PROVE  LibvirtInv'
<1> DEFINE r == slots[s]
           c == [r EXCEPT !.pc = "rm"]
<1>1. r.pc = "unreserve" /\ Slot(s, c) /\ UNCHANGED <<rules, orphans>> /\ Unreserves(s)
  BY DEF ReapUnreserves, At
<1>2. /\ r \in GuestRecords /\ Fenced(r, rules, reservations) /\ Withheld(r, ipFree)
      /\ ~r.running /\ ~r.used /\ Owns(r) /\ r.pc # "free"
  BY <1>1, Reaping DEF Owns
<1>3. c \in GuestRecords /\ c.pc = "rm" /\ Like(c, r)
  BY <1>2, PcIsOne DEF Pcs
<1> HIDE DEF c
<1>4. /\ rules \in [VmIps -> SUBSET Parts] /\ reservations \subseteq VmIps
  BY OneIs
<1>5. /\ \A j \in reservations : j # r.ip => j \in reservations'
      /\ reservations' \subseteq reservations /\ ipFree' \subseteq ipFree \cup {r.ip}
  BY <1>1 DEF Unreserves
<1>6. Fenced(c, rules', reservations') /\ Withheld(c, ipFree') /\ c.ip = r.ip
  BY <1>1, <1>2, <1>3 DEF Fenced, Withheld, Owns, Like
<1>7. rules' \in [VmIps -> SUBSET Parts] /\ \A j \in VmIps : j # r.ip => rules'[j] = rules[j]
  BY <1>1, <1>4
<1> HIDE DEF r
<1> QED
  BY <1>1, <1>2, <1>3, <1>4, <1>5, <1>6, <1>7, OneMoves DEF r

LEMMA ReapRemovesOverlayKept ==
  ASSUME LibvirtConstants, LibvirtInv, NEW s \in VmSlotIds, ReapRemovesOverlay(s)
  PROVE  LibvirtInv'
<1> DEFINE r == slots[s]
<1>1. r.pc = "rm" /\ UNCHANGED Host
  BY DEF ReapRemovesOverlay, At
<1>2. /\ r \in GuestRecords /\ Fenced(r, rules, reservations) /\ Withheld(r, ipFree)
      /\ ~r.running /\ ~r.used /\ r.pc # "free"
  BY <1>1, Reaping
<1>3. CASE r.by = "ready" /\ Slot(s, [r EXCEPT !.pc = "warming", !.overlay = FALSE])
  <2> DEFINE b == [r EXCEPT !.pc = "warming"]
             c == [b EXCEPT !.overlay = FALSE]
  <2>1. Slot(s, c) /\ Single
    BY <1>2, <1>3 DEF Fenced
  <2>2. b \in GuestRecords /\ b.pc = "warming" /\ Like(b, r)
    BY <1>2, PcIsOne DEF Pcs
  <2> HIDE DEF b
  <2>3. c \in GuestRecords /\ c.pc = "warming" /\ c.ip = b.ip /\ c.running = b.running /\ c.used = b.used /\ c.by = b.by
    BY <2>2 DEF GuestRecords
  <2> HIDE DEF c
  <2>4. Fenced(c, rules, reservations) /\ Withheld(c, ipFree) /\ c.ip = r.ip
    BY <1>1, <1>2, <2>1, <2>2, <2>3 DEF Fenced, Withheld, Owns, Like
  <2> QED
    BY <1>1, <1>2, <2>1, <2>3, <2>4, OneStands
<1>4. CASE Slot(s, NoSlot)
  BY <1>1, <1>2, <1>4, NoSlotIsOne, OneStands
<1>5. CASE May("overlay") /\ Slot(s, ReapRaises(r))
  <2>1. Single
    BY <1>5 DEF May, LibvirtConstants
  <2>2. PICK pc \in {"husk", "warming", "lost"} : ReapRaises(r) = [r EXCEPT !.pc = pc]
    BY ReapRaisesIs
  <2>3. Slot(s, [slots[s] EXCEPT !.pc = pc]) /\ pc \in Pcs \ {"free"}
    BY <1>5, <2>2 DEF Pcs
  <2> QED
    BY <1>1, <1>2, <2>1, <2>3, OneSteps
<1> QED
  BY <1>3, <1>4, <1>5 DEF ReapRemovesOverlay

LEMMA RetryHuskKept ==
  ASSUME LibvirtInv, NEW s \in VmSlotIds, RetryHusk(s)
  PROVE  LibvirtInv'
<1>1. slots[s].pc = "husk" /\ UNCHANGED Host /\ Slot(s, [slots[s] EXCEPT !.pc = "reap"])
  BY DEF RetryHusk, At
<1>2. Fenced(slots[s], rules, reservations) /\ Withheld(slots[s], ipFree) /\ Owns(slots[s])
  BY <1>1, OneIs DEF Owns
<1>3. slots[s].used => slots[s].by = "pool"
  BY <1>1, <1>2 DEF Fenced
<1>4. "reap" \in Pcs \ {"free"} /\ (~Single => slots[s].ip \notin ipFree)
  BY <1>2 DEF Pcs, Withheld
<1> QED
  BY <1>1, <1>2, <1>3, <1>4, OneSteps

-------------------------------------------------------------------------------
\* _reconcile_reservations()

LEMMA RestartKept ==
  ASSUME LibvirtInv, Restart
  PROVE  LibvirtInv'
<1>1. /\ LibvirtTypeOK /\ OrphansKeep
      /\ \A t \in VmSlotIds : Fenced(slots[t], rules, reservations) /\ Withheld(slots[t], ipFree)
      /\ \A t, u \in VmSlotIds : t # u /\ Owns(slots[t]) /\ Owns(slots[u]) => slots[t].ip # slots[u].ip
  BY DEF LibvirtInv
<1>2. /\ orphans' = LeftBehind /\ rules' = rules
      /\ reservations' = reservations \cap {o.ip : o \in LeftBehind}
      /\ ipFree' = VmIps \ (reservations \cap {o.ip : o \in LeftBehind})
      /\ slots' = [s \in VmSlotIds |-> NoSlot]
  BY DEF Restart, ReconciledFree
<1>3. ASSUME NEW o \in LeftBehind
      PROVE  \/ o \in orphans
             \/ \E s \in VmSlotIds : /\ slots[s].running
                                     /\ o.ip = slots[s].ip /\ o.used = slots[s].used
                                     /\ o = [ip |-> slots[s].ip, used |-> slots[s].used]
  BY DEF LeftBehind
<1>4. ASSUME NEW s \in VmSlotIds, slots[s].running
      PROVE  /\ slots[s].pc # "free" /\ Owns(slots[s]) /\ slots[s].ip \in VmIps /\ slots[s].ip \in reservations
             /\ slots[s].used \in BOOLEAN /\ (slots[s].used => rules[slots[s].ip] = Parts)
  <2>1. slots[s] \in GuestRecords /\ Fenced(slots[s], rules, reservations)
    BY OneIs
  <2> QED
    BY <1>4, <2>1 DEF Fenced, Owns, GuestRecords
<1>5. ASSUME NEW o \in LeftBehind
      PROVE  /\ o \in [ip : VmIps, used : BOOLEAN] /\ o.ip \in reservations
             /\ (o.used => rules[o.ip] = Parts)
  <2>1. CASE o \in orphans
    BY <1>1, <2>1 DEF LibvirtTypeOK, OrphansKeep
  <2>2. CASE o \notin orphans
    BY <1>3, <1>4, <2>2
  <2> QED
    BY <2>1, <2>2
<1>6. ASSUME NEW o \in LeftBehind, NEW p \in LeftBehind, o # p
      PROVE  o.ip # p.ip
  <2>1. CASE o \in orphans /\ p \in orphans
    BY <1>1, <1>6, <2>1 DEF OrphansKeep
  <2>2. CASE o \in orphans /\ p \notin orphans
    BY <1>1, <1>3, <1>4, <2>2 DEF OrphansKeep
  <2>3. CASE o \notin orphans /\ p \in orphans
    BY <1>1, <1>3, <1>4, <2>3 DEF OrphansKeep
  <2>4. CASE o \notin orphans /\ p \notin orphans
    <3>1. PICK s \in VmSlotIds : slots[s].running /\ o = [ip |-> slots[s].ip, used |-> slots[s].used] /\ o.ip = slots[s].ip
      BY <1>3, <2>4
    <3>2. PICK t \in VmSlotIds : slots[t].running /\ p = [ip |-> slots[t].ip, used |-> slots[t].used] /\ p.ip = slots[t].ip
      BY <1>3, <2>4
    <3>3. s # t
      BY <1>6, <3>1, <3>2
    <3> QED
      BY <1>1, <1>4, <3>1, <3>2, <3>3
  <2> QED
    BY <2>1, <2>2, <2>3, <2>4
<1>7. \A s \in VmSlotIds : slots'[s] = NoSlot
  BY <1>2
<1>8. LibvirtTypeOK'
  BY <1>1, <1>2, <1>5, NoSlotIsOne DEF LibvirtTypeOK
<1>9. \A o \in LeftBehind : o.ip \in reservations' /\ o.ip \notin ipFree'
  BY <1>2, <1>5
<1>10. OrphansKeep'
  BY <1>2, <1>5, <1>6, <1>7, <1>9, NoSlotIsOne DEF OrphansKeep
<1>11. \A s \in VmSlotIds : Fenced(slots[s], rules, reservations)' /\ Withheld(slots[s], ipFree)'
  <2>1. \A s \in VmSlotIds : Fenced(slots'[s], rules', reservations') /\ Withheld(slots'[s], ipFree')
    BY <1>7, NoSlotIsOne
  <2> QED
    BY <2>1 DEF Fenced, Withheld
<1>12. \A s \in VmSlotIds : ~Owns(slots[s])'
  BY <1>7, NoSlotIsOne DEF Owns
<1> QED
  BY <1>8, <1>10, <1>11, <1>12 DEF LibvirtInv

LEMMA LibvirtStep ==
  ASSUME LibvirtConstants
  PROVE  LibvirtInv /\ [LibvirtNext]_libvirtVars => LibvirtInv'
<1> SUFFICES ASSUME LibvirtInv, [LibvirtNext]_libvirtVars PROVE LibvirtInv'
  OBVIOUS
<1>1. CASE Restart
  BY <1>1, RestartKept
<1>2. ASSUME NEW s \in VmSlotIds,
             \/ AllocIp(s) \/ CreateOverlay(s) \/ Reserve(s) \/ StartDomain(s)
             \/ StripRules(s) \/ ApplyFails(s) \/ InstallRouting(s) \/ HookChains(s) \/ Finalize(s)
             \/ WarmingTimeout(s) \/ ClaimVm(s) \/ Recycle(s)
             \/ ReapDestroys(s) \/ ReapUnhooks(s) \/ ReapUnreserves(s) \/ ReapRemovesOverlay(s)
             \/ RetryHusk(s)
      PROVE  LibvirtInv'
  <2>1. CASE AllocIp(s) \/ CreateOverlay(s) \/ Reserve(s) \/ StartDomain(s)
    BY <2>1, AllocIpKept, CreateOverlayKept, ReserveKept, StartDomainKept
  <2>2. CASE StripRules(s) \/ ApplyFails(s) \/ InstallRouting(s) \/ HookChains(s) \/ Finalize(s)
    BY <2>2, StripRulesKept, ApplyFailsKept, InstallRoutingKept, HookChainsKept, FinalizeKept
  <2>3. CASE WarmingTimeout(s) \/ ClaimVm(s) \/ Recycle(s) \/ RetryHusk(s)
    BY <2>3, WarmingTimeoutKept, ClaimVmKept, RecycleKept, RetryHuskKept
  <2>4. CASE ReapDestroys(s) \/ ReapUnhooks(s) \/ ReapUnreserves(s) \/ ReapRemovesOverlay(s)
    BY <2>4, ReapDestroysKept, ReapUnhooksKept, ReapUnreservesKept, ReapRemovesOverlayKept
  <2> QED
    BY <1>2, <2>1, <2>2, <2>3, <2>4
<1>3. CASE UNCHANGED libvirtVars
  BY <1>3 DEF libvirtVars, LibvirtInv, LibvirtTypeOK, OrphansKeep, Fenced, Withheld, Owns
<1> QED
  BY <1>1, <1>2, <1>3 DEF LibvirtNext

LEMMA ContainedByInv == LibvirtInv => GuestsContained
<1> SUFFICES ASSUME LibvirtInv PROVE GuestsContained
  OBVIOUS
<1>1. /\ LibvirtTypeOK /\ OrphansKeep
      /\ \A t \in VmSlotIds : Fenced(slots[t], rules, reservations) /\ Withheld(slots[t], ipFree)
      /\ \A t, u \in VmSlotIds : t # u /\ Owns(slots[t]) /\ Owns(slots[u]) => slots[t].ip # slots[u].ip
  BY DEF LibvirtInv
<1> DEFINE Tracked(g, s) == /\ slots[s].running /\ g = [id |-> s, ip |-> slots[s].ip, used |-> slots[s].used]
                            /\ g.ip = slots[s].ip /\ g.used = slots[s].used
           Left(g, o) == /\ g = [id |-> "orphan", ip |-> o.ip, used |-> o.used]
                         /\ g.ip = o.ip /\ g.used = o.used
<1>2. \A g \in Guests : (\E s \in VmSlotIds : Tracked(g, s)) \/ (\E o \in orphans : Left(g, o))
  BY DEF Guests
<1> HIDE DEF Tracked, Left
<1>3. ASSUME NEW s \in VmSlotIds, slots[s].running
      PROVE  /\ slots[s].pc # "free" /\ Owns(slots[s]) /\ slots[s].ip \notin ipFree
             /\ (slots[s].used => rules[slots[s].ip] = Parts)
  BY <1>1, <1>3 DEF Fenced, Withheld, Owns
<1>4. ASSUME NEW g \in Guests
      PROVE  g.ip \notin ipFree /\ (g.used => rules[g.ip] = Parts)
  <2>1. CASE \E s \in VmSlotIds : Tracked(g, s)
    BY <1>3, <2>1 DEF Tracked
  <2>2. CASE \E o \in orphans : Left(g, o)
    BY <1>1, <2>2 DEF Left, OrphansKeep
  <2> QED
    BY <1>2, <2>1, <2>2
<1>5. ASSUME NEW g \in Guests, NEW k \in Guests, g # k
      PROVE  g.ip # k.ip
  <2>1. ASSUME NEW s \in VmSlotIds, NEW t \in VmSlotIds, Tracked(g, s), Tracked(k, t)
        PROVE  g.ip # k.ip
    <3>1. s # t
      BY <1>5, <2>1 DEF Tracked
    <3> QED
      BY <1>1, <1>3, <2>1, <3>1 DEF Tracked
  <2>2. ASSUME NEW o \in orphans, NEW p \in orphans, Left(g, o), Left(k, p)
        PROVE  g.ip # k.ip
    <3>1. o # p
      BY <1>5, <2>2 DEF Left
    <3> QED
      BY <1>1, <2>2, <3>1 DEF Left, OrphansKeep
  <2>3. ASSUME NEW s \in VmSlotIds, NEW o \in orphans
        PROVE  /\ Tracked(g, s) /\ Left(k, o) => g.ip # k.ip
               /\ Tracked(k, s) /\ Left(g, o) => g.ip # k.ip
    BY <1>1, <1>3 DEF Tracked, Left, OrphansKeep
  <2> QED
    BY <1>2, <2>1, <2>2, <2>3
<1> QED
  BY <1>4, <1>5 DEF GuestsContained, GuestsFirewalled

\* A guest that has run a sample is behind its rules, and no running guest shares its address or
\* has it handed out again, through failing virsh calls, husks and a crash of the manager
\* (libvirt_vm.LibvirtVmRuntime spawn, is_ready, recycle, reap, _reconcile_reservations).
THEOREM GuestsStayContained ==
  ASSUME LibvirtConstants
  PROVE  LibvirtSpec => []GuestsContained
<1>1. LibvirtInit => LibvirtInv
  BY LibvirtInitially
<1>2. LibvirtInv /\ [LibvirtNext]_libvirtVars => LibvirtInv'
  BY LibvirtStep
<1>3. LibvirtInv => GuestsContained
  BY ContainedByInv
<1> QED
  BY <1>1, <1>2, <1>3, PTL DEF LibvirtSpec
=============================================================================
