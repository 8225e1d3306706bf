---------------------------- MODULE NodeClaimProofs ----------------------------
(* Theorems about NodeClaim, for any fleet, any jobs and any number of crashes,  *)
(* lost answers and restarts; then about Hibernate, another worker that an API   *)
(* may act upon without answering, and about Generations, where leases decide    *)
(* what a living owner may lose.                                                 *)
EXTENDS NodeClaim, Hibernate, Generations, SequenceTheorems, WellFoundedInduction, TLAPS

-------------------------------------------------------------------------------
\* A set of numbers that is not empty has a least one: what stands for induction.
LEMMA LeastOne ==
  ASSUME NEW T \in SUBSET Nat, T # {}
  PROVE  \E x \in T : \A y \in T : x <= y
<1>1. IsWellFoundedOn(OpToRel(<, Nat), Nat)
  BY NatLessThanWellFounded
<1>2. PICK x \in T : \A y \in T : ~(<<y, x>> \in OpToRel(<, Nat))
  BY <1>1, WFMin, Zenon
<1>3. \A y \in T : ~(y < x)
  BY <1>2 DEF OpToRel
<1> QED
  BY <1>3

\* What holds of 0 and passes from each number to the next holds of all.
LEMMA ByLeast ==
  ASSUME NEW G \in SUBSET Nat, 0 \in G, \A k \in Nat : k \in G => k + 1 \in G
  PROVE  G = Nat
<1> SUFFICES ASSUME Nat \ G # {} PROVE FALSE
  OBVIOUS
<1>1. PICK m \in Nat \ G : \A y \in Nat \ G : m <= y
  BY LeastOne
<1>2. m # 0 /\ m - 1 \in Nat
  BY <1>1
<1>3. m - 1 \in G
  BY <1>1, <1>2
<1> QED
  BY <1>1, <1>2, <1>3

\* A step repeated n times: the sequence of its results exists.
LEMMA Repeated ==
  ASSUME NEW X, NEW a \in X, NEW F \in [X -> X]
  PROVE  \E f \in [Nat -> X] : f[0] = a /\ \A k \in Nat : f[k + 1] = F[f[k]]
<1> DEFINE Run(n, f) == f \in [0..n -> X] /\ f[0] = a /\ \A k \in 0..n : k < n => f[k + 1] = F[f[k]]
           G == {n \in Nat : \E f : Run(n, f)}
<1>1. 0 \in G
  <2>1. Run(0, [k \in 0..0 |-> a])
    OBVIOUS
  <2> QED
    BY <2>1, Zenon
<1>2. ASSUME NEW n \in Nat, n \in G
      PROVE  n + 1 \in G
  <2>1. PICK f : Run(n, f)
    BY <1>2
  <2> DEFINE g == [k \in 0..(n + 1) |-> IF k = n + 1 THEN F[f[n]] ELSE f[k]]
  <2>2. f[n] \in X
    BY <2>1
  <2>3. g \in [0..(n + 1) -> X]
    BY <2>1, <2>2
  <2>4. g[0] = a
    BY <2>1
  <2>5. ASSUME NEW k \in 0..(n + 1), k < n + 1
        PROVE  g[k + 1] = F[g[k]]
    <3>1. CASE k = n
      BY <3>1
    <3>2. CASE k # n
      <4>1. k \in 0..n /\ k < n /\ k + 1 # n + 1 /\ k + 1 \in 0..(n + 1)
        BY <3>2, <2>5
      <4> QED
        BY <4>1, <2>1
    <3> QED
      BY <3>1, <3>2
  <2>6. Run(n + 1, g)
    BY <2>3, <2>4, <2>5
  <2>7. \E f_ : Run(n + 1, f_)
    BY <2>6, Zenon
  <2> QED
    BY <2>7
<1>3. \A n \in Nat : \E f : Run(n, f)
  <2>1. G = Nat
    BY <1>1, <1>2, ByLeast
  <2> QED
    BY <2>1
<1>4. ASSUME NEW n \in Nat, NEW m \in Nat, n <= m, NEW f, NEW g, Run(n, f), Run(m, g)
      PROVE  \A k \in 0..n : f[k] = g[k]
  <2> DEFINE H == {k \in Nat : k <= n => f[k] = g[k]}
  <2>1. 0 \in H
    BY <1>4
  <2>2. ASSUME NEW k \in Nat, k \in H
        PROVE  k + 1 \in H
    <3>1. CASE k + 1 <= n
      <4>1. k \in 0..n /\ k < n /\ k \in 0..m /\ k < m /\ f[k] = g[k]
        BY <3>1, <2>2, <1>4
      <4>2. f[k + 1] = F[f[k]] /\ g[k + 1] = F[g[k]]
        BY <4>1, <1>4
      <4> QED
        BY <4>1, <4>2
    <3> QED
      BY <3>1
  <2>3. H = Nat
    BY <2>1, <2>2, ByLeast
  <2> QED
    BY <2>3
<1> DEFINE R(n) == CHOOSE f : Run(n, f)
           h == [n \in Nat |-> R(n)[n]]
<1>5. \A n \in Nat : Run(n, R(n))
  BY <1>3, Zenon
<1> HIDE DEF R
<1>6. h \in [Nat -> X]
  BY <1>5
<1>7. h[0] = a
  BY <1>5
<1>8. ASSUME NEW k \in Nat
      PROVE  h[k + 1] = F[h[k]]
  <2>1. Run(k, R(k)) /\ Run(k + 1, R(k + 1))
    BY <1>5
  <2>2. k \in 0..k /\ k <= k + 1 /\ k + 1 \in Nat
    OBVIOUS
  <2> HIDE DEF Run
  <2>3. \A i \in 0..k : R(k)[i] = R(k + 1)[i]
    BY <2>1, <2>2, <1>4
  <2>4. R(k)[k] = R(k + 1)[k]
    BY <2>2, <2>3
  <2> USE DEF Run
  <2>5. R(k + 1)[k + 1] = F[R(k + 1)[k]]
    BY <2>1
  <2> QED
    BY <2>4, <2>5
<1> QED
  BY <1>6, <1>7, <1>8

-------------------------------------------------------------------------------
\* The table of claims a node tracks

Entries == NodeJobs \X Claims

\* A sequence without its i-th element.
LEMMA Removed ==
  ASSUME NEW X, NEW s \in Seq(X), NEW i \in 1..Len(s)
  PROVE  /\ RemoveAt(s, i) \in Seq(X)
         /\ Len(RemoveAt(s, i)) = Len(s) - 1
         /\ \A k \in 1..(Len(s) - 1) : RemoveAt(s, i)[k] = IF k < i THEN s[k] ELSE s[k + 1]
<1> DEFINE a == SubSeq(s, 1, i - 1)
           b == SubSeq(s, i + 1, Len(s))
<1>1. a \in Seq(X) /\ Len(a) = i - 1 /\ \A k \in 1..(i - 1) : a[k] = s[k]
  BY SubSeqProperties
<1>2. b \in Seq(X) /\ Len(b) = Len(s) - i /\ \A k \in 1..(Len(s) - i) : b[k] = s[i + k]
  BY SubSeqProperties
<1> HIDE DEF a, b
<1>3. a \o b \in Seq(X) /\ Len(a \o b) = Len(s) - 1
  <2>1. Len(a \o b) = Len(a) + Len(b) /\ a \o b \in Seq(X)
    BY <1>1, <1>2, ConcatProperties
  <2>2. Len(s) \in Nat
    OBVIOUS
  <2> QED
    BY <2>1, <2>2, <1>1, <1>2
<1>4. ASSUME NEW k \in 1..(Len(s) - 1)
      PROVE  (a \o b)[k] = IF k < i THEN s[k] ELSE s[k + 1]
  <2>1. CASE k < i
    BY <2>1, <1>1, <1>2, ConcatProperties
  <2>2. CASE ~(k < i)
    <3>1. k - (i - 1) \in 1..(Len(s) - i) /\ i + (k - (i - 1)) = k + 1
      BY <2>2
    <3>2. (a \o b)[k] = b[k - (i - 1)]
      BY <2>2, <1>1, <1>2, ConcatProperties
    <3> QED
      BY <3>1, <3>2, <1>2, <2>2
  <2> QED
    BY <2>1, <2>2
<1>5. RemoveAt(s, i) = a \o b
  BY DEF RemoveAt, a, b
<1> QED
  BY <1>3, <1>4, <1>5

\* One job, one entry.
OneEntry(tr) == \A a, b \in DOMAIN tr : tr[a][1] = tr[b][1] => a = b

\* What may become of a table: entries go.
Shrunk(tr) == {s \in Seq(Entries) : OneEntry(s) /\ Range(s) \subseteq Range(tr)}

LEMMA RemovedShrinks ==
  ASSUME NEW tr, NEW s \in Shrunk(tr), NEW i \in 1..Len(s)
  PROVE  /\ RemoveAt(s, i) \in Shrunk(tr)
         /\ \A p \in Range(RemoveAt(s, i)) : p \in Range(s) /\ p[1] # s[i][1]
<1> DEFINE r == RemoveAt(s, i)
<1>1. s \in Seq(Entries) /\ OneEntry(s) /\ Range(s) \subseteq Range(tr)
  BY DEF Shrunk
<1>2. /\ r \in Seq(Entries)
      /\ Len(r) = Len(s) - 1
      /\ \A k \in 1..(Len(s) - 1) : r[k] = IF k < i THEN s[k] ELSE s[k + 1]
  BY <1>1, Removed
<1> HIDE DEF r
<1>3. DOMAIN r = 1..(Len(s) - 1) /\ DOMAIN s = 1..Len(s)
  BY <1>1, <1>2
<1>4. ASSUME NEW k \in DOMAIN r
      PROVE  \E l \in DOMAIN s : r[k] = s[l] /\ l # i /\ l = IF k < i THEN k ELSE k + 1
  BY <1>2, <1>3
<1>5. ASSUME NEW p \in Range(r)
      PROVE  p \in Range(s) /\ p[1] # s[i][1]
  <2>1. PICK k \in DOMAIN r : p = r[k]
    BY DEF Range
  <2>2. PICK l \in DOMAIN s : r[k] = s[l] /\ l # i
    BY <1>4
  <2> QED
    BY <2>1, <2>2, <1>1, <1>3 DEF Range, OneEntry
<1>6. OneEntry(r)
  <2> SUFFICES ASSUME NEW a \in DOMAIN r, NEW b \in DOMAIN r, r[a][1] = r[b][1]
               PROVE  a = b
    BY DEF OneEntry
  <2>1. PICK l \in DOMAIN s : r[a] = s[l] /\ l = IF a < i THEN a ELSE a + 1
    BY <1>4
  <2>2. PICK m \in DOMAIN s : r[b] = s[m] /\ m = IF b < i THEN b ELSE b + 1
    BY <1>4
  <2>3. l = m
    BY <2>1, <2>2, <1>1 DEF OneEntry
  <2> QED
    BY <2>1, <2>2, <2>3, <1>3
<1>7. r \in Shrunk(tr)
  BY <1>1, <1>2, <1>5, <1>6 DEF Shrunk
<1> QED
  BY <1>5, <1>7 DEF r

\* The entry of a job goes, and no other.
LEMMA WithoutShrinks ==
  ASSUME NEW tr \in Seq(Entries), OneEntry(tr), NEW j
  PROVE  /\ Without(tr, j) \in Shrunk(tr)
         /\ \A p \in Range(Without(tr, j)) : p[1] # j
<1> DEFINE at == {i \in DOMAIN tr : tr[i][1] = j}
<1>0. tr \in Shrunk(tr) /\ DOMAIN tr = 1..Len(tr)
  BY DEF Shrunk
<1>1. CASE at = {}
  <2>1. Without(tr, j) = tr
    BY <1>1 DEF Without
  <2> QED
    BY <2>1, <1>0, <1>1 DEF Range
<1>2. CASE at # {}
  <2> DEFINE i == CHOOSE k \in at : TRUE
  <2>1. i \in at
    BY <1>2
  <2>2. Without(tr, j) = RemoveAt(tr, i)
    BY <1>2 DEF Without
  <2> HIDE DEF i
  <2>3. i \in 1..Len(tr) /\ tr[i][1] = j
    BY <2>1, <1>0
  <2> QED
    BY <2>2, <2>3, <1>0, RemovedShrinks
<1> QED
  BY <1>1, <1>2

\* One round of the eviction.
LEMMA EvictOneShrinks ==
  ASSUME NEW tr, NEW s \in Shrunk(tr), NEW done
  PROVE  EvictOne(s, done) \in Shrunk(tr)
<1> DEFINE old == {i \in DOMAIN s : s[i][1] \in done}
           i == IF old = {} THEN 1 ELSE CHOOSE k \in old : \A l \in old : k <= l
<1>0. s \in Seq(Entries) /\ DOMAIN s = 1..Len(s) /\ Len(s) \in Nat
  BY DEF Shrunk
<1>1. EvictOne(s, done) = RemoveAt(s, i)
  BY DEF EvictOne
<1>2. CASE Len(s) = 0
  <2>1. s = <<>> /\ old = {}
    BY <1>0, <1>2
  <2>2. RemoveAt(s, 1) = SubSeq(s, 1, 0) \o SubSeq(s, 2, 0)
    BY <1>2 DEF RemoveAt
  <2>3. RemoveAt(s, 1) = s
    BY <2>1, <2>2
  <2> QED
    BY <1>1, <2>1, <2>3
<1>3. CASE Len(s) # 0
  <2>1. i \in 1..Len(s)
    <3>1. CASE old = {}
      BY <3>1, <1>0, <1>3
    <3>2. CASE old # {}
      <4>0. old \in SUBSET Nat
        BY <1>0
      <4>1. \E k \in old : \A l \in old : k <= l
        <5> HIDE DEF old
        <5> QED
          BY <3>2, <4>0, LeastOne
      <4>2. i \in old
        BY <4>1, <3>2
      <4> QED
        BY <4>2, <1>0
    <3> QED
      BY <3>1, <3>2
  <2> HIDE DEF i
  <2> QED
    BY <2>1, <1>1, RemovedShrinks
<1> QED
  BY <1>2, <1>3

\* The rounds of an eviction, one after the other.
Rounds(f, tr, done) ==
  f \in [Nat -> Shrunk(tr)] /\ f[0] = tr /\ \A k \in Nat : f[k + 1] = EvictOne(f[k], done)

LEMMA EvictRounds ==
  ASSUME NEW tr, tr \in Shrunk(tr), NEW done
  PROVE  \E f : Rounds(f, tr, done)
<1>1. PICK X : X = Shrunk(tr)
  OBVIOUS
<1>2. PICK F : F = [r \in X |-> EvictOne(r, done)]
  OBVIOUS
<1>3. F \in [X -> X]
  BY <1>1, <1>2, EvictOneShrinks
<1>4. \E f \in [Nat -> X] : f[0] = tr /\ \A k \in Nat : f[k + 1] = F[f[k]]
  BY <1>1, <1>3, Repeated
<1> QED
  BY <1>1, <1>2, <1>4 DEF Rounds

\* The whole eviction: entries go, and none comes.
LEMMA EvictShrinks ==
  ASSUME MaxTracked \in Nat, NEW tr \in Seq(Entries), OneEntry(tr), NEW done
  PROVE  Evict(tr, done) \in Shrunk(tr)
<1>0. tr \in Shrunk(tr) /\ Len(tr) \in Nat
  BY DEF Shrunk
<1>1. PICK f : Rounds(f, tr, done)
  BY <1>0, EvictRounds, Zenon
<1>2. f \in [Nat -> Shrunk(tr)] /\ f[0] = tr /\ \A k \in Nat : f[k + 1] = EvictOne(f[k], done)
  BY <1>1 DEF Rounds
<1> DEFINE G(g) == [k \in Nat |-> IF k = 0 THEN tr ELSE EvictOne(g[k - 1], done)]
           after == CHOOSE g : g = G(g)
<1>3. f = G(f)
  <2>1. ASSUME NEW k \in Nat
        PROVE  f[k] = IF k = 0 THEN tr ELSE EvictOne(f[k - 1], done)
    <3>1. CASE k = 0
      BY <3>1, <1>2
    <3>2. CASE k # 0
      <4>1. k - 1 \in Nat /\ (k - 1) + 1 = k
        BY <3>2
      <4>2. f[k] = EvictOne(f[k - 1], done)
        BY <4>1, <1>2
      <4> QED
        BY <4>2, <3>2
    <3> QED
      BY <3>1, <3>2
  <2> QED
    BY <2>1, <1>2
<1>4. after = G(after)
  <2> HIDE DEF G
  <2> QED
    BY <1>3, Zenon
<1> HIDE DEF after
<1>5. \A k \in Nat : after[k] \in Shrunk(tr)
  <2> DEFINE H == {k \in Nat : after[k] \in Shrunk(tr)}
  <2>1. 0 \in H
    <3>1. after[0] = tr
      BY <1>4
    <3> QED
      BY <3>1, <1>0
  <2>2. ASSUME NEW k \in Nat, k \in H
        PROVE  k + 1 \in H
    <3>1. after[k + 1] = EvictOne(after[k], done)
      BY <1>4
    <3> QED
      BY <3>1, <2>2, EvictOneShrinks
  <2>3. H = Nat
    <3>1. H \in SUBSET Nat
      OBVIOUS
    <3> HIDE DEF H
    <3> QED
      BY <3>1, <2>1, <2>2, ByLeast
  <2> QED
    BY <2>3
<1>6. Evict(tr, done) = IF Len(tr) <= MaxTracked THEN tr ELSE after[Len(tr) - MaxTracked]
  BY DEF Evict, after
<1>7. ~(Len(tr) <= MaxTracked) => Len(tr) - MaxTracked \in Nat
  BY <1>0
<1> QED
  BY <1>0, <1>5, <1>6, <1>7

-------------------------------------------------------------------------------
\* The inductive invariant

NodeRow == [status : {"queued", "running", "done", "failed"}, claim : Claims \cup {None},
            stamped : BOOLEAN, deferred : BOOLEAN]
Requests == [pc : {"idle", "probe", "stamp", "vet", "release"}, job : NodeJobs \cup {None},
             claim : Claims \cup {None}, skipped : SUBSET Entries, probes : Nat, skips : Nat]
\* A request has a row in hand or none.
Served == {r \in Requests : /\ r.job = None <=> r.claim = None
                            /\ r.pc \in {"stamp", "vet"} => r.job # None}
\* A sweep that saw something saw a row.
Listings == {l \in [job : NodeJobs \cup {None}, claim : Claims \cup {None}] :
               l # Nothing => l.job \in NodeJobs}
Settlements == [node : Nodes, job : NodeJobs, claim : Claims, to : {"done", "failed", "queued"},
                answer : {"none", "ok", "no"}]

\* What the ingress remembers of refusals only says which row is claimed next: it
\* is left out.
NodeTypeOK ==
  /\ nrow \in [NodeJobs -> NodeRow]
  /\ nspool \in SUBSET NodeJobs
  /\ creq \in [Nodes -> Served]
  /\ seen \in Listings
  /\ session \in SUBSET Nodes
  /\ tracked \in [Nodes -> Seq(Entries)]
  /\ settled \in [Nodes -> SUBSET NodeJobs]
  /\ work \in [Nodes -> SUBSET Entries]
  /\ wire \in SUBSET Settlements

OneEntries == \A n \in Nodes : OneEntry(tracked[n])

\* The row runs under a claim, with the node prefix or without.
Runs(j, c) == nrow[j].status = "running" /\ nrow[j].claim = c

\* A job that is marked settled is no longer run under the claim that is tracked.
SettledIsOver ==
  \A n \in Nodes : \A p \in Range(tracked[n]) : p[1] \in settled[n] => ~Runs(p[1], p[2])

\* A settlement that was accepted is what the row says, as long as nobody read it.
AnswersAreTrue ==
  \A m \in wire : m.answer = "ok" =>
    /\ ~Runs(m.job, m.claim)
    /\ m.to # "queued" => nrow[m.job].status = m.to /\ nrow[m.job].claim = m.claim

InputKept == \A j \in NodeJobs : j \notin nspool => nrow[j].status = "failed"

\* No two nodes have one claim, on the way to them or at work.
ClaimsApart ==
  /\ \A n, m \in Nodes : creq[n].claim # None /\ n # m => creq[n].claim # creq[m].claim
  /\ \A n, m \in Nodes : \A p \in work[m] : p[2] # creq[n].claim
  /\ \A n, m \in Nodes : \A p \in work[n], q \in work[m] : p[2] = q[2] => n = m /\ p = q

NodeInv == NodeTypeOK /\ OneEntries /\ SettledIsOver /\ AnswersAreTrue
           /\ InputKept /\ ClaimsApart

\* At the start every job is queued and nobody has a claim.
LEMMA NodeStart == NodeInit => NodeInv
<1> SUFFICES ASSUME NodeInit PROVE NodeInv
  OBVIOUS
<1> USE DEF NodeInit, Submitted, Idle, Nothing, None
<1>1. NodeTypeOK
  BY DEF NodeTypeOK, NodeRow, Served, Requests, Listings, Settlements, Entries
<1>2. AnswersAreTrue /\ InputKept /\ ClaimsApart
  BY DEF AnswersAreTrue, InputKept, ClaimsApart
<1>3. OneEntries /\ SettledIsOver
  BY DEF OneEntries, OneEntry, SettledIsOver, Range
<1> QED
  BY <1>1, <1>2, <1>3 DEF NodeInv

-------------------------------------------------------------------------------
\* Types

\* A step that changes one request.
LEMMA OneRequestType ==
  ASSUME NodeTypeOK, NEW n \in Nodes, NEW r \in Served, creq' = [creq EXCEPT ![n] = r]
  PROVE  creq' \in [Nodes -> Served]
  BY DEF NodeTypeOK

\* A step that changes some variables keeps the types of the others.
LEMMA TypesTogether ==
  ASSUME NodeTypeOK,
         nrow' \in [NodeJobs -> NodeRow] \/ UNCHANGED nrow,
         nspool' \in SUBSET NodeJobs \/ UNCHANGED nspool,
         creq' \in [Nodes -> Served] \/ UNCHANGED creq,
         seen' \in Listings \/ UNCHANGED seen,
         session' \in SUBSET Nodes \/ UNCHANGED session,
         tracked' \in [Nodes -> Seq(Entries)] \/ UNCHANGED tracked,
         settled' \in [Nodes -> SUBSET NodeJobs] \/ UNCHANGED settled,
         work' \in [Nodes -> SUBSET Entries] \/ UNCHANGED work,
         wire' \in SUBSET Settlements \/ UNCHANGED wire
  PROVE  NodeTypeOK'
  BY DEF NodeTypeOK

LEMMA SessionTypes ==
  ASSUME NodeTypeOK, Regrant \/ \E n \in Nodes : Handshake(n) \/ SessionExpires(n)
  PROVE  NodeTypeOK'
<1>1. session' \in SUBSET Nodes
  BY DEF NodeTypeOK, Handshake, SessionExpires, Regrant, clientVars
<1>2. UNCHANGED <<nrow, nspool, creq, seen, tracked, settled, work, wire>>
  BY DEF Handshake, SessionExpires, Regrant, ingressVars, clientVars
<1> QED
  BY <1>1, <1>2, TypesTogether

\* A request in the ingress, at every place it may go to with the row it has.
LEMMA MovedRequest ==
  ASSUME NEW r \in Served, r.job # None, NEW pc \in {"probe", "vet", "release"}
  PROVE  /\ <<r.job, r.claim>> \in Entries
         /\ [r EXCEPT !.pc = pc] \in Served
         /\ [r EXCEPT !.pc = pc, !.probes = @ + 1] \in Served
         /\ [r EXCEPT !.pc = pc, !.skips = @ + 1, !.skipped = @ \cup {<<r.job, r.claim>>}] \in Served
         /\ [r EXCEPT !.pc = pc, !.probes = @ + 1, !.skipped = @ \cup {<<r.job, r.claim>>}] \in Served
<1>1. r \in Requests /\ (r.job = None <=> r.claim = None)
  BY DEF Served
<1>2. <<r.job, r.claim>> \in Entries
  BY <1>1 DEF Requests, Entries
<1>3. r.probes + 1 \in Nat /\ r.skips + 1 \in Nat /\ r.skipped \cup {<<r.job, r.claim>>} \in SUBSET Entries
  BY <1>1, <1>2 DEF Requests
<1> QED
  BY <1>1, <1>2, <1>3 DEF Served, Requests

\* What becomes of the request that is judged.
LEMMA Vetted ==
  ASSUME NodeTypeOK, NEW n \in Nodes, Vet(n)
  PROVE  /\ creq[n] \in Served /\ creq[n].job # None
         /\ \E r \in Served :
              creq' = [creq EXCEPT ![n] = r] /\ r.job = creq[n].job /\ r.claim = creq[n].claim
         /\ UNCHANGED <<nrow, nspool, seen, session, tracked, settled, work, wire>>
<1>1. creq[n] \in Served /\ creq[n].pc = "vet"
  BY DEF NodeTypeOK, Vet
<1>2. creq[n].job # None
  BY <1>1 DEF Served
<1> DEFINE e == <<creq[n].job, creq[n].claim>>
           a == [creq[n] EXCEPT !.pc = "probe", !.probes = @ + 1]
           b == [creq[n] EXCEPT !.pc = "probe", !.skips = @ + 1, !.skipped = @ \cup {e}]
           c == [creq[n] EXCEPT !.pc = "release"]
           d == [creq[n] EXCEPT !.pc = "probe", !.probes = @ + 1, !.skipped = @ \cup {e}]
<1>3. \E r \in {a, b, c, d} : creq' = [creq EXCEPT ![n] = r]
  BY DEF Vet
<1>4. a \in Served /\ b \in Served /\ c \in Served /\ d \in Served
  BY <1>1, <1>2, MovedRequest
<1>5. \A r \in {a, b, c, d} : r.job = creq[n].job /\ r.claim = creq[n].claim
  BY <1>1 DEF Served, Requests
<1> HIDE DEF a, b, c, d
<1>6. UNCHANGED <<nrow, nspool, seen, session, tracked, settled, work, wire>>
  BY DEF Vet, clientVars
<1> QED
  BY <1>1, <1>2, <1>3, <1>4, <1>5, <1>6

LEMMA NobodyServed == Idle \in Served /\ Idle.job = None /\ Idle.claim = None /\ Nothing \in Listings
  BY DEF Idle, Served, Requests, Listings, Nothing, None

LEMMA RequestTypes ==
  ASSUME NodeTypeOK, NEW n \in Nodes, ClaimRequest(n) \/ Vet(n) \/ IngressCrash(n)
  PROVE  NodeTypeOK'
<1>1. CASE ClaimRequest(n)
  <2>1. creq[n] \in Served /\ creq' = [creq EXCEPT ![n] = [creq[n] EXCEPT !.pc = "probe"]]
    BY <1>1 DEF NodeTypeOK, ClaimRequest
  <2>2. [creq[n] EXCEPT !.pc = "probe"] \in Served
    BY <2>1 DEF Served, Requests
  <2>3. UNCHANGED <<nrow, nspool, seen, session, tracked, settled, work, wire>>
    BY <1>1 DEF ClaimRequest, clientVars
  <2> QED
    BY <2>1, <2>2, <2>3, OneRequestType, TypesTogether
<1>2. CASE Vet(n)
  BY <1>2, Vetted, OneRequestType, TypesTogether
<1>3. CASE IngressCrash(n)
  <2>1. creq' = [creq EXCEPT ![n] = Idle] /\ seen' = Nothing
        /\ UNCHANGED <<nrow, nspool, session, tracked, settled, work, wire>>
    BY <1>3 DEF IngressCrash, clientVars
  <2> QED
    BY <2>1, NobodyServed, OneRequestType, TypesTogether
<1> QED
  BY <1>1, <1>2, <1>3

\* What claim_next takes, and under which claim.
LEMMA Taken ==
  ASSUME NodeTypeOK, NEW n \in Nodes, Probe(n)
  PROVE  \/ \E j \in NodeJobs, c \in Claims \ Circulating :
              /\ nrow[j].status = "queued"
              /\ nrow' = [nrow EXCEPT ![j] = [@ EXCEPT !.status = "running", !.claim = c, !.stamped = FALSE]]
              /\ creq' = [creq EXCEPT ![n] = [@ EXCEPT !.pc = "stamp", !.job = j, !.claim = c]]
         \/ /\ UNCHANGED nrow
            /\ creq' = [creq EXCEPT ![n] = [@ EXCEPT !.pc = "release", !.job = None, !.claim = None]]
<1> DEFINE excluded == UnrunnableNow \cup RememberedFor(n)
           eligible == {j \in NodeJobs \ excluded : nrow[j].status = "queued" /\ ~nrow[j].deferred}
           jj == CHOOSE i \in eligible : \A k \in eligible : i <= k
<1>1. CASE eligible # {} /\ Claims \ Circulating # {}
           /\ nrow' = [nrow EXCEPT ![jj] = [@ EXCEPT !.status = "running", !.claim = FreshClaim, !.stamped = FALSE]]
           /\ creq' = [creq EXCEPT ![n] = [@ EXCEPT !.pc = "stamp", !.job = jj, !.claim = FreshClaim]]
  <2>1. eligible \in SUBSET Nat
    BY DEF NodeJobs
  <2>2. \E i \in eligible : \A k \in eligible : i <= k
    <3> HIDE DEF eligible
    <3> QED
      BY <1>1, <2>1, LeastOne
  <2>3. jj \in eligible
    BY <2>2
  <2>4. FreshClaim \in Claims \ Circulating
    BY <1>1 DEF FreshClaim
  <2>5. jj \in NodeJobs /\ nrow[jj].status = "queued"
    BY <2>3
  <2> HIDE DEF jj
  <2> QED
    BY <1>1, <2>4, <2>5
<1>2. CASE /\ UNCHANGED nrow
           /\ creq' = [creq EXCEPT ![n] = [@ EXCEPT !.pc = "release", !.job = None, !.claim = None]]
  BY <1>2
<1> QED
  BY <1>1, <1>2 DEF Probe

-------------------------------------------------------------------------------
\* What a step may do to the rows

RowsMove ==
  \A j \in NodeJobs :
    /\ nrow[j].status \in {"done", "failed"} => nrow'[j] = nrow[j]
    /\ \A c \in Claims : nrow'[j].status = "running" /\ nrow'[j].claim = c =>
         Runs(j, c) \/ c \notin Circulating

LEMMA NoRowMoves ==
  ASSUME UNCHANGED nrow
  PROVE  RowsMove
  BY DEF RowsMove, Runs

LEMMA OneRowMoves ==
  ASSUME NodeTypeOK, NEW j \in NodeJobs, NEW r \in NodeRow, nrow' = [nrow EXCEPT ![j] = r],
         nrow[j].status \in {"queued", "running"},
         r.status = "running" => Runs(j, r.claim) \/ r.claim \notin Circulating
  PROVE  RowsMove /\ nrow' \in [NodeJobs -> NodeRow]
<1>1. nrow \in [NodeJobs -> NodeRow]
  BY DEF NodeTypeOK
<1>2. \A i \in NodeJobs : nrow'[i] = IF i = j THEN r ELSE nrow[i]
  BY <1>1
<1>3. nrow' \in [NodeJobs -> NodeRow]
  BY <1>1
<1>4. ASSUME NEW i \in NodeJobs
      PROVE  /\ nrow[i].status \in {"done", "failed"} => nrow'[i] = nrow[i]
             /\ \A c \in Claims : nrow'[i].status = "running" /\ nrow'[i].claim = c =>
                  Runs(i, c) \/ c \notin Circulating
  <2>1. CASE i = j
    BY <2>1, <1>2
  <2>2. CASE i # j
    BY <2>2, <1>2 DEF Runs
  <2> QED
    BY <2>1, <2>2
<1> QED
  BY <1>3, <1>4 DEF RowsMove

\* The row a request or a sweep lets go of: it is run no more.
LEMMA LetGoMoves ==
  ASSUME NodeTypeOK, NEW j \in NodeJobs, NEW c, Holds(j, c, TRUE), NEW r,
         \/ \E d \in BOOLEAN : r = Requeued(nrow[j], d)
         \/ \E to \in {"done", "failed"} : r = [nrow[j] EXCEPT !.status = to],
         nrow' = [nrow EXCEPT ![j] = r]
  PROVE  RowsMove /\ nrow' \in [NodeJobs -> NodeRow] /\ r.status # "running" /\ nrow'[j] = r
<1>1. nrow[j] \in NodeRow /\ nrow[j].status = "running"
  BY DEF NodeTypeOK, Holds
<1>2. r \in NodeRow /\ r.status # "running"
  BY <1>1 DEF Requeued, NodeRow, None
<1>3. nrow'[j] = r
  BY DEF NodeTypeOK
<1> QED
  BY <1>1, <1>2, <1>3, OneRowMoves

\* The steps of a claim request

\* claim_next: a queued row gets a claim that is new.
LEMMA ProbeMoves ==
  ASSUME NodeTypeOK, NEW n \in Nodes, Probe(n)
  PROVE  /\ NodeTypeOK' /\ RowsMove
         /\ UNCHANGED <<nspool, tracked, settled, work, wire>>
         /\ \E r \in Served : /\ creq' = [creq EXCEPT ![n] = r]
                              /\ r.claim = None \/ r.claim \notin Circulating
<1>0. creq[n] \in Served /\ creq[n] \in Requests /\ nrow \in [NodeJobs -> NodeRow]
  BY DEF NodeTypeOK, Served
<1>1. UNCHANGED <<nspool, seen, session, tracked, settled, work, wire>>
  BY DEF Probe, clientVars
<1>2. CASE \E j \in NodeJobs, c \in Claims \ Circulating :
              /\ nrow[j].status = "queued"
              /\ nrow' = [nrow EXCEPT ![j] = [@ EXCEPT !.status = "running", !.claim = c, !.stamped = FALSE]]
              /\ creq' = [creq EXCEPT ![n] = [@ EXCEPT !.pc = "stamp", !.job = j, !.claim = c]]
  <2>1. PICK j \in NodeJobs, c \in Claims \ Circulating :
              /\ nrow[j].status = "queued"
              /\ nrow' = [nrow EXCEPT ![j] = [@ EXCEPT !.status = "running", !.claim = c, !.stamped = FALSE]]
              /\ creq' = [creq EXCEPT ![n] = [@ EXCEPT !.pc = "stamp", !.job = j, !.claim = c]]
    BY <1>2
  <2> DEFINE r == [nrow[j] EXCEPT !.status = "running", !.claim = c, !.stamped = FALSE]
             q == [creq[n] EXCEPT !.pc = "stamp", !.job = j, !.claim = c]
  <2>2. nrow' = [nrow EXCEPT ![j] = r] /\ creq' = [creq EXCEPT ![n] = q]
    BY <2>1
  <2>3. r \in NodeRow /\ r.claim = c
    BY <1>0 DEF NodeRow
  <2>9. j # None /\ c # None
    BY DEF NodeJobs, Claims, None
  <2>4. q \in Served /\ q.claim = c
    BY <1>0, <2>9 DEF Served, Requests
  <2> HIDE DEF r, q
  <2>5. RowsMove /\ nrow' \in [NodeJobs -> NodeRow]
    BY <2>1, <2>2, <2>3, OneRowMoves
  <2>6. NodeTypeOK'
    BY <1>1, <2>2, <2>4, <2>5, OneRequestType, TypesTogether
  <2> QED
    BY <1>1, <2>2, <2>4, <2>5, <2>6
<1>3. CASE /\ UNCHANGED nrow
           /\ creq' = [creq EXCEPT ![n] = [@ EXCEPT !.pc = "release", !.job = None, !.claim = None]]
  <2> DEFINE q == [creq[n] EXCEPT !.pc = "release", !.job = None, !.claim = None]
  <2>1. q \in Served /\ q.claim = None /\ creq' = [creq EXCEPT ![n] = q]
    BY <1>0, <1>3 DEF Served, Requests
  <2> HIDE DEF q
  <2>2. NodeTypeOK'
    BY <1>1, <1>3, <2>1, OneRequestType, TypesTogether
  <2> QED
    BY <1>1, <1>3, <2>1, <2>2, NoRowMoves
<1> QED
  BY <1>2, <1>3, Taken

\* The prefix: the row stays with its claim.
LEMMA StampMoves ==
  ASSUME NodeTypeOK, NEW n \in Nodes, Stamp(n)
  PROVE  /\ NodeTypeOK' /\ RowsMove
         /\ UNCHANGED <<nspool, tracked, settled, work, wire>>
         /\ \E r \in Served : creq' = [creq EXCEPT ![n] = r] /\ r.claim = creq[n].claim
<1>0. creq[n] \in Served /\ creq[n] \in Requests /\ nrow \in [NodeJobs -> NodeRow] /\ creq[n].pc = "stamp"
  BY DEF NodeTypeOK, Served, Stamp
<1>1. UNCHANGED <<nspool, seen, session, tracked, settled, work, wire>>
  BY DEF Stamp, clientVars
<1>2. creq[n].job \in NodeJobs
  BY <1>0 DEF Served, Requests
<1> DEFINE j == creq[n].job
           r == [nrow[j] EXCEPT !.stamped = TRUE]
           a == [creq[n] EXCEPT !.pc = "vet"]
           b == [creq[n] EXCEPT !.pc = "probe", !.probes = @ + 1]
<1>3. a \in Served /\ b \in Served /\ a.claim = creq[n].claim /\ b.claim = creq[n].claim
  <2>1. creq[n].job # None
    BY <1>0 DEF Served
  <2>2. a \in Served /\ b \in Served
    BY <1>0, <2>1, MovedRequest
  <2> QED
    BY <2>2, <1>0 DEF Requests
<1>4. r \in NodeRow /\ r.claim = nrow[j].claim /\ r.status = nrow[j].status
  <2>1. nrow[j] \in NodeRow
    BY <1>0, <1>2
  <2> QED
    BY <2>1 DEF NodeRow
<1>7. /\ nrow' = IF Holds(j, creq[n].claim, FALSE) THEN [nrow EXCEPT ![j].stamped = TRUE] ELSE nrow
      /\ creq' = [creq EXCEPT ![n] = IF Holds(j, creq[n].claim, FALSE) THEN a ELSE b]
  BY DEF Stamp
<1>5. CASE Holds(j, creq[n].claim, FALSE)
  <2>1. nrow' = [nrow EXCEPT ![j] = r] /\ creq' = [creq EXCEPT ![n] = a]
    BY <1>5, <1>7
  <2> HIDE DEF r, a
  <2>2. RowsMove /\ nrow' \in [NodeJobs -> NodeRow]
    BY <1>2, <1>4, <1>5, <2>1, OneRowMoves DEF Holds, Runs
  <2> QED
    BY <1>1, <1>3, <2>1, <2>2, OneRequestType, TypesTogether
<1>6. CASE ~Holds(j, creq[n].claim, FALSE)
  <2>1. UNCHANGED nrow /\ creq' = [creq EXCEPT ![n] = b]
    BY <1>6, <1>7
  <2> HIDE DEF b
  <2> QED
    BY <1>1, <1>3, <2>1, NoRowMoves, OneRequestType, TypesTogether
<1> QED
  BY <1>5, <1>6

\* One of the refused jobs is put back.
LEMMA ReleaseMoves ==
  ASSUME NodeTypeOK, NEW n \in Nodes, Release(n)
  PROVE  /\ NodeTypeOK' /\ RowsMove
         /\ UNCHANGED <<nspool, tracked, settled, work, wire>>
         /\ \E r \in Served : creq' = [creq EXCEPT ![n] = r] /\ r.claim = creq[n].claim
<1>0. creq[n] \in Served /\ creq[n] \in Requests /\ nrow \in [NodeJobs -> NodeRow]
  BY DEF NodeTypeOK, Served
<1>1. UNCHANGED <<nspool, seen, session, tracked, settled, work, wire>>
  BY DEF Release, clientVars
<1>2. PICK p \in creq[n].skipped :
        /\ \/ \E defer \in BOOLEAN :
                nrow' = IF Holds(p[1], p[2], TRUE)
                        THEN [nrow EXCEPT ![p[1]] = Requeued(@, defer)] ELSE nrow
           \/ UNCHANGED nrow
        /\ creq' = [creq EXCEPT ![n].skipped = @ \ {p}]
  BY DEF Release
<1>3. p[1] \in NodeJobs
  BY <1>0, <1>2 DEF Requests, Entries
<1> DEFINE r == [creq[n] EXCEPT !.skipped = @ \ {p}]
<1>4. r \in Served /\ r.claim = creq[n].claim /\ creq' = [creq EXCEPT ![n] = r]
  BY <1>0, <1>2 DEF Served, Requests
<1> HIDE DEF r
<1>5. RowsMove /\ (nrow' \in [NodeJobs -> NodeRow] \/ UNCHANGED nrow)
  <2>1. CASE UNCHANGED nrow
    BY <2>1, NoRowMoves
  <2>2. CASE Holds(p[1], p[2], TRUE) /\ \E d \in BOOLEAN : nrow' = [nrow EXCEPT ![p[1]] = Requeued(nrow[p[1]], d)]
    BY <2>2, <1>3, LetGoMoves
  <2> QED
    BY <2>1, <2>2, <1>2
<1> QED
  BY <1>1, <1>4, <1>5, OneRequestType, TypesTogether

-------------------------------------------------------------------------------
\* What a step may do to the tables of a node

TablesMove ==
  \A n \in Nodes :
    /\ OneEntry(tracked'[n])
    /\ \A p \in Range(tracked'[n]) : p[1] \in settled'[n] =>
         /\ p \in Range(tracked[n])
         /\ \/ p[1] \in settled[n]
            \/ \E m \in wire : m.answer = "ok" /\ m.job = p[1] /\ m.claim = p[2]

LEMMA NoTableMoves ==
  ASSUME OneEntries, UNCHANGED <<tracked, settled>>
  PROVE  TablesMove
  BY DEF TablesMove, OneEntries

\* A step that changes the tables of one node.
LEMMA OneTableMoves ==
  ASSUME NodeTypeOK, OneEntries, NEW n \in Nodes, NEW tr, NEW done,
         tracked' = [tracked EXCEPT ![n] = tr], settled' = [settled EXCEPT ![n] = done],
         tr \in Seq(Entries), done \in SUBSET NodeJobs, OneEntry(tr),
         \A p \in Range(tr) : p[1] \in done =>
           /\ p \in Range(tracked[n])
           /\ \/ p[1] \in settled[n]
              \/ \E m \in wire : m.answer = "ok" /\ m.job = p[1] /\ m.claim = p[2]
  PROVE  /\ TablesMove
         /\ tracked' \in [Nodes -> Seq(Entries)] /\ settled' \in [Nodes -> SUBSET NodeJobs]
<1>1. tracked \in [Nodes -> Seq(Entries)] /\ settled \in [Nodes -> SUBSET NodeJobs]
  BY DEF NodeTypeOK
<1>2. \A k \in Nodes : /\ tracked'[k] = IF k = n THEN tr ELSE tracked[k]
                      /\ settled'[k] = IF k = n THEN done ELSE settled[k]
  BY <1>1
<1>3. ASSUME NEW k \in Nodes
      PROVE  /\ OneEntry(tracked'[k])
             /\ \A p \in Range(tracked'[k]) : p[1] \in settled'[k] =>
                  /\ p \in Range(tracked[k])
                  /\ \/ p[1] \in settled[k]
                     \/ \E m \in wire : m.answer = "ok" /\ m.job = p[1] /\ m.claim = p[2]
  <2>1. CASE k = n
    BY <2>1, <1>2
  <2>2. CASE k # n
    BY <2>2, <1>2 DEF OneEntries
  <2> QED
    BY <2>1, <2>2
<1> QED
  BY <1>1, <1>3 DEF TablesMove

\* A table with one entry more, of a job it has none of.
LEMMA OneMore ==
  ASSUME NEW tr \in Seq(Entries), OneEntry(tr), NEW e \in Entries, \A p \in Range(tr) : p[1] # e[1]
  PROVE  /\ Append(tr, e) \in Seq(Entries) /\ OneEntry(Append(tr, e))
         /\ \A p \in Range(Append(tr, e)) : p \in Range(tr) \/ p = e
<1> DEFINE s == Append(tr, e)
<1>1. /\ s \in Seq(Entries) /\ Len(s) = Len(tr) + 1 /\ s[Len(tr) + 1] = e
      /\ \A k \in 1..Len(tr) : s[k] = tr[k]
  BY AppendProperties
<1>2. DOMAIN s = 1..(Len(tr) + 1) /\ DOMAIN tr = 1..Len(tr) /\ Len(tr) \in Nat
  BY <1>1
<1> HIDE DEF s
<1>3. \A k \in DOMAIN s : (k \in DOMAIN tr /\ s[k] = tr[k]) \/ (k = Len(tr) + 1 /\ s[k] = e)
  BY <1>1, <1>2
<1>4. \A k \in DOMAIN tr : tr[k] \in Range(tr)
  BY DEF Range
<1>5. OneEntry(s)
  BY <1>2, <1>3, <1>4 DEF OneEntry
<1>6. \A p \in Range(s) : p \in Range(tr) \/ p = e
  BY <1>3, <1>4 DEF Range
<1> QED
  BY <1>1, <1>5, <1>6 DEF s

\* The node records the claim it was given.
LEMMA RecordMoves ==
  ASSUME NodeTypeOK, OneEntries, NEW n \in Nodes, NEW j \in NodeJobs, NEW c \in Claims,
         RecordClaim(n, j, c)
  PROVE  /\ TablesMove
         /\ tracked' \in [Nodes -> Seq(Entries)] /\ settled' \in [Nodes -> SUBSET NodeJobs]
<1>1. tracked[n] \in Seq(Entries) /\ OneEntry(tracked[n]) /\ settled[n] \in SUBSET NodeJobs
  BY DEF NodeTypeOK, OneEntries
<1> DEFINE s == Without(tracked[n], j)
           tr == Append(s, <<j, c>>)
           done == settled[n] \ {j}
<1>2. s \in Seq(Entries) /\ OneEntry(s) /\ Range(s) \subseteq Range(tracked[n])
      /\ \A p \in Range(s) : p[1] # j
  BY <1>1, WithoutShrinks DEF Shrunk
<1>3. tracked' = [tracked EXCEPT ![n] = tr] /\ settled' = [settled EXCEPT ![n] = done]
  BY DEF RecordClaim
<1> HIDE DEF s
<1>4. <<j, c>> \in Entries
  BY DEF Entries
<1>5. tr \in Seq(Entries) /\ OneEntry(tr) /\ \A p \in Range(tr) : p \in Range(s) \/ p = <<j, c>>
  BY <1>2, <1>4, OneMore
<1> HIDE DEF tr
<1>6. \A p \in Range(tr) : p[1] \in done => p \in Range(tracked[n]) /\ p[1] \in settled[n]
  BY <1>2, <1>5
<1>7. done \in SUBSET NodeJobs
  BY <1>1
<1> HIDE DEF done
<1> QED
  BY <1>3, <1>5, <1>6, <1>7, OneTableMoves

\* The answer is read: the mark, and what the eviction makes of the table.
LEMMA MarkMoves ==
  ASSUME MaxTracked \in Nat, NodeTypeOK, OneEntries, NEW m \in wire, Answered(m)
  PROVE  /\ TablesMove
         /\ tracked' \in [Nodes -> Seq(Entries)] /\ settled' \in [Nodes -> SUBSET NodeJobs]
<1> DEFINE n == m.node
           marked == MarkSettled(n, m)
           kept == Evict(tracked[n], marked)
           done == marked \cap {p[1] : p \in Range(kept)}
<1>0. n \in Nodes /\ m.job \in NodeJobs /\ m.claim \in Claims
  BY DEF NodeTypeOK, Settlements
<1>1. tracked[n] \in Seq(Entries) /\ OneEntry(tracked[n]) /\ settled[n] \in SUBSET NodeJobs
  BY <1>0 DEF NodeTypeOK, OneEntries
<1>2. CASE UNCHANGED <<tracked, settled>>
  BY <1>2, NoTableMoves DEF NodeTypeOK
<1>3. CASE m.answer = "ok" /\ tracked' = [tracked EXCEPT ![n] = kept] /\ settled' = [settled EXCEPT ![n] = done]
  <2>1. marked \in SUBSET NodeJobs
    BY <1>0, <1>1 DEF MarkSettled
  <2>2. kept \in Shrunk(tracked[n])
    BY <1>1, EvictShrinks
  <2>3. kept \in Seq(Entries) /\ OneEntry(kept) /\ Range(kept) \subseteq Range(tracked[n])
    BY <2>2 DEF Shrunk
  <2>4. marked = settled[n] \/ (marked = settled[n] \cup {m.job} /\ <<m.job, m.claim>> \in Range(tracked[n]))
    BY DEF MarkSettled
  <2>5. \A p \in Range(tracked[n]) : p[1] = m.job /\ <<m.job, m.claim>> \in Range(tracked[n]) => p[2] = m.claim
    BY <1>1 DEF Range, OneEntry
  <2> HIDE DEF marked, kept
  <2>6. ASSUME NEW p \in Range(kept), p[1] \in done
        PROVE  /\ p \in Range(tracked[n])
               /\ \/ p[1] \in settled[n]
                  \/ \E q \in wire : q.answer = "ok" /\ q.job = p[1] /\ q.claim = p[2]
    BY <2>3, <2>4, <2>5, <2>6, <1>3
  <2>7. done \in SUBSET NodeJobs
    BY <2>1
  <2> HIDE DEF done, n
  <2> QED
    BY <1>0, <1>3, <2>3, <2>6, <2>7, OneTableMoves
<1> QED
  BY <1>2, <1>3 DEF Answered

-------------------------------------------------------------------------------
\* What a step may do to the wire, to the inputs, and to who has a claim

WireMoves ==
  \A m \in wire' : m \in wire \/ m.answer # "ok" \/
    /\ nrow'[m.job].status # "running"
    /\ m.to # "queued" => nrow'[m.job].status = m.to /\ nrow'[m.job].claim = m.claim

InputMoves == \A j \in NodeJobs : j \notin nspool' => j \notin nspool \/ nrow'[j].status = "failed"

\* A request gets a claim that is new or gives it up; work is begun under the claim
\* that the request gives up.
ClaimsMove ==
  /\ \A k \in Nodes : creq'[k].claim \in {creq[k].claim, None} \/ creq'[k].claim \notin Circulating
  /\ \A k, l \in Nodes : k = l \/ creq'[k].claim = creq[k].claim \/ creq'[l].claim = creq[l].claim
  /\ \A k \in Nodes : \A p \in work'[k] : p \in work[k] \/
       /\ p = <<creq[k].job, creq[k].claim>>
       /\ creq[k].claim # None /\ creq'[k].claim = None

Moves == NodeTypeOK' /\ RowsMove /\ TablesMove /\ WireMoves /\ InputMoves /\ ClaimsMove

LEMMA QuietWire ==
  ASSUME wire' \subseteq wire
  PROVE  WireMoves
  BY DEF WireMoves

LEMMA QuietInput ==
  ASSUME UNCHANGED nspool
  PROVE  InputMoves
  BY DEF InputMoves

LEMMA QuietClaims ==
  ASSUME UNCHANGED creq, \A k \in Nodes : work'[k] \subseteq work[k]
  PROVE  ClaimsMove
  BY DEF ClaimsMove

\* A step that serves one request.
LEMMA OneClaimMoves ==
  ASSUME NodeTypeOK, NEW n \in Nodes, NEW r \in Served, creq' = [creq EXCEPT ![n] = r],
         r.claim = creq[n].claim \/ r.claim = None \/ r.claim \notin Circulating,
         UNCHANGED work
  PROVE  ClaimsMove
<1>1. \A k \in Nodes : creq'[k] = IF k = n THEN r ELSE creq[k]
  BY DEF NodeTypeOK
<1> QED
  BY <1>1 DEF ClaimsMove

\* The steps that change a session or the grants.
LEMMA SessionMoves ==
  ASSUME NodeInv, Regrant \/ \E n \in Nodes : Handshake(n) \/ SessionExpires(n)
  PROVE  Moves
<1>0. NodeTypeOK /\ OneEntries
  BY DEF NodeInv
<1>1. UNCHANGED <<nrow, nspool, creq, tracked, settled, work, wire>>
  BY DEF Handshake, SessionExpires, Regrant, ingressVars, clientVars
<1> QED
  BY <1>0, <1>1, SessionTypes, NoRowMoves, NoTableMoves, QuietWire, QuietInput, QuietClaims DEF Moves

\* The steps that serve a request.
LEMMA ServeMoves ==
  ASSUME NodeInv, NEW n \in Nodes,
         \/ ClaimRequest(n) \/ Probe(n) \/ Stamp(n) \/ Vet(n) \/ Release(n) \/ IngressCrash(n)
  PROVE  Moves
<1>0. NodeTypeOK /\ OneEntries
  BY DEF NodeInv
<1>1. CASE ClaimRequest(n) \/ Vet(n) \/ IngressCrash(n)
  <2>1. UNCHANGED <<nrow, nspool, tracked, settled, work, wire>>
    BY <1>1 DEF ClaimRequest, Vet, IngressCrash, clientVars
  <2>2. \E r \in Served : creq' = [creq EXCEPT ![n] = r] /\ (r.claim = creq[n].claim \/ r.claim = None)
    <3>1. CASE ClaimRequest(n)
      <4>1. creq[n] \in Served /\ creq' = [creq EXCEPT ![n] = [creq[n] EXCEPT !.pc = "probe"]]
        BY <1>0, <3>1 DEF NodeTypeOK, ClaimRequest
      <4>2. [creq[n] EXCEPT !.pc = "probe"] \in Served
            /\ [creq[n] EXCEPT !.pc = "probe"].claim = creq[n].claim
        BY <4>1 DEF Served, Requests
      <4> QED
        BY <4>1, <4>2
    <3>2. CASE Vet(n)
      BY <1>0, <3>2, Vetted
    <3>3. CASE IngressCrash(n)
      BY <3>3, NobodyServed DEF IngressCrash
    <3> QED
      BY <1>1, <3>1, <3>2, <3>3
  <2>3. ClaimsMove
    BY <1>0, <2>1, <2>2, OneClaimMoves
  <2> QED
    BY <1>0, <1>1, <2>1, <2>3, RequestTypes, NoRowMoves, NoTableMoves, QuietWire, QuietInput DEF Moves
<1>2. CASE Probe(n)
  BY <1>0, <1>2, ProbeMoves, NoTableMoves, QuietWire, QuietInput, OneClaimMoves DEF Moves
<1>3. CASE Stamp(n)
  BY <1>0, <1>3, StampMoves, NoTableMoves, QuietWire, QuietInput, OneClaimMoves DEF Moves
<1>4. CASE Release(n)
  BY <1>0, <1>4, ReleaseMoves, NoTableMoves, QuietWire, QuietInput, OneClaimMoves DEF Moves
<1> QED
  BY <1>1, <1>2, <1>3, <1>4

\* The answer to a claim request reaches the node, or is lost.
LEMMA AnswerMoves ==
  ASSUME NodeInv, NEW n \in Nodes, AnswerClaim(n)
  PROVE  Moves
<1>0. NodeTypeOK /\ OneEntries /\ creq[n] \in Served /\ work \in [Nodes -> SUBSET Entries]
  BY DEF NodeInv, NodeTypeOK
<1> DEFINE j == creq[n].job
           c == creq[n].claim
<1>1. creq' = [creq EXCEPT ![n] = Idle] /\ UNCHANGED <<nrow, nspool, seen, session, wire>>
  BY DEF AnswerClaim
<1>2. creq' \in [Nodes -> Served] /\ \A k \in Nodes : creq'[k] = IF k = n THEN Idle ELSE creq[k]
  BY <1>0, <1>1, NobodyServed DEF NodeTypeOK
<1>3. CASE UNCHANGED <<tracked, settled, work>>
  <2>1. ClaimsMove
    BY <1>0, <1>1, <1>3, NobodyServed, OneClaimMoves
  <2>2. NodeTypeOK'
    BY <1>0, <1>1, <1>2, <1>3, TypesTogether
  <2> QED
    BY <1>0, <1>1, <1>3, <2>1, <2>2, NoRowMoves, NoTableMoves, QuietWire, QuietInput DEF Moves
<1>4. CASE j # None /\ RecordClaim(n, j, c) /\ work' = [work EXCEPT ![n] = @ \cup {<<j, c>>}]
  <2>1. j \in NodeJobs /\ c \in Claims /\ c # None
    BY <1>0, <1>4 DEF Served, Requests
  <2>2. /\ TablesMove
        /\ tracked' \in [Nodes -> Seq(Entries)] /\ settled' \in [Nodes -> SUBSET NodeJobs]
    BY <1>0, <1>4, <2>1, RecordMoves
  <2>3. <<j, c>> \in Entries
    BY <2>1 DEF Entries
  <2>4. work' \in [Nodes -> SUBSET Entries]
        /\ \A k \in Nodes : work'[k] = IF k = n THEN work[n] \cup {<<j, c>>} ELSE work[k]
    BY <1>0, <1>4, <2>3
  <2>5. ClaimsMove
    BY <1>2, <2>1, <2>4, NobodyServed DEF ClaimsMove
  <2>6. NodeTypeOK'
    BY <1>0, <1>1, <1>2, <2>2, <2>4, TypesTogether
  <2> QED
    BY <1>0, <1>1, <2>2, <2>5, <2>6, NoRowMoves, QuietWire, QuietInput DEF Moves
<1> QED
  BY <1>3, <1>4 DEF AnswerClaim

\* The node reports; the report reaches the ingress; the answer comes, or does not.
LEMMA SettleMoves ==
  ASSUME NodeInv, NEW n \in Nodes, NEW p \in work[n], NEW to \in {"done", "failed", "queued"},
         Settle(n, p, to)
  PROVE  Moves
<1>0. NodeTypeOK /\ OneEntries /\ work \in [Nodes -> SUBSET Entries] /\ wire \in SUBSET Settlements
  BY DEF NodeInv, NodeTypeOK
<1>1. UNCHANGED <<nrow, nspool, creq, seen, session, tracked, settled>>
  BY DEF Settle, ingressVars
<1>2. work' \in [Nodes -> SUBSET Entries] /\ \A k \in Nodes : work'[k] \subseteq work[k]
  BY <1>0 DEF Settle
<1> DEFINE m == [node |-> n, job |-> p[1], claim |-> p[2], to |-> to, answer |-> "none"]
<1>3. m \in Settlements /\ m.answer # "ok"
  BY <1>0 DEF Settlements, Entries
<1>4. wire' = wire \/ wire' = wire \cup {m}
  BY DEF Settle
<1> HIDE DEF m
<1>5. wire' \in SUBSET Settlements /\ WireMoves
  BY <1>0, <1>3, <1>4 DEF WireMoves
<1>6. NodeTypeOK'
  BY <1>0, <1>1, <1>2, <1>5, TypesTogether
<1> QED
  BY <1>0, <1>1, <1>2, <1>5, <1>6, NoRowMoves, NoTableMoves, QuietInput, QuietClaims DEF Moves

LEMMA UpdateMoves ==
  ASSUME NodeInv, NEW m \in wire, UpdateJob(m)
  PROVE  Moves
<1>0. NodeTypeOK /\ OneEntries /\ m \in Settlements /\ wire \in SUBSET Settlements
      /\ nrow \in [NodeJobs -> NodeRow]
  BY DEF NodeInv, NodeTypeOK
<1>1. UNCHANGED <<nspool, creq, seen, session, tracked, settled, work>>
  BY DEF UpdateJob, ingressVars
<1> DEFINE a == [m EXCEPT !.answer = IF Owned(m) THEN "ok" ELSE "no"]
<1>2. /\ a \in Settlements /\ a.job = m.job /\ a.claim = m.claim /\ a.to = m.to
      /\ a.answer = "ok" => Owned(m)
  BY <1>0 DEF Settlements
<1>3. wire' = (wire \ {m}) \cup {a}
  BY DEF UpdateJob
<1> HIDE DEF a
<1>4. wire' \in SUBSET Settlements
  BY <1>0, <1>2, <1>3
<1>5. m.job \in NodeJobs /\ m.to \in {"done", "failed", "queued"}
  BY <1>0 DEF Settlements
<1>6. CASE ~Owned(m)
  <2>1. UNCHANGED nrow
    BY <1>6 DEF UpdateJob
  <2>2. WireMoves
    BY <1>2, <1>3, <1>6 DEF WireMoves
  <2>3. NodeTypeOK'
    BY <1>0, <1>1, <1>4, <2>1, TypesTogether
  <2> QED
    BY <1>0, <1>1, <2>1, <2>2, <2>3, NoRowMoves, NoTableMoves, QuietInput, QuietClaims DEF Moves
<1>7. CASE Owned(m)
  <2> DEFINE r == IF m.to = "queued" THEN Requeued(nrow[m.job], TRUE)
                  ELSE [nrow[m.job] EXCEPT !.status = m.to]
  <2>1. nrow' = [nrow EXCEPT ![m.job] = r]
    BY <1>7 DEF UpdateJob
  <2>2. Holds(m.job, m.claim, TRUE)
    BY <1>7 DEF Owned
  <2>3. \/ \E d \in BOOLEAN : r = Requeued(nrow[m.job], d)
        \/ \E to \in {"done", "failed"} : r = [nrow[m.job] EXCEPT !.status = to]
    BY <1>5
  <2>4. m.to # "queued" => r.status = m.to /\ r.claim = m.claim
    BY <1>0, <1>5, <2>2 DEF NodeRow, Holds
  <2> HIDE DEF r
  <2>5. RowsMove /\ nrow' \in [NodeJobs -> NodeRow] /\ r.status # "running" /\ nrow'[m.job] = r
    BY <1>0, <1>5, <2>1, <2>2, <2>3, LetGoMoves
  <2>6. WireMoves
    BY <1>2, <1>3, <2>4, <2>5 DEF WireMoves
  <2>7. NodeTypeOK'
    BY <1>0, <1>1, <1>4, <2>5, TypesTogether
  <2> QED
    BY <1>0, <1>1, <2>5, <2>6, <2>7, NoTableMoves, QuietInput, QuietClaims DEF Moves
<1> QED
  BY <1>6, <1>7

LEMMA ReadMoves ==
  ASSUME MaxTracked \in Nat, NodeInv, NEW m \in wire, Answered(m) \/ AnswerLost(m)
  PROVE  Moves
<1>0. NodeTypeOK /\ OneEntries /\ wire \in SUBSET Settlements /\ work \in [Nodes -> SUBSET Entries]
  BY DEF NodeInv, NodeTypeOK
<1>1. UNCHANGED <<nrow, nspool, creq, seen, session>> /\ wire' = wire \ {m}
  BY DEF Answered, AnswerLost, ingressVars
<1>2. work' \in [Nodes -> SUBSET Entries] /\ \A k \in Nodes : work'[k] \subseteq work[k]
  BY <1>0 DEF Answered, AnswerLost
<1>3. /\ TablesMove
      /\ tracked' \in [Nodes -> Seq(Entries)] /\ settled' \in [Nodes -> SUBSET NodeJobs]
  <2>1. CASE Answered(m)
    BY <1>0, <2>1, MarkMoves
  <2>2. CASE AnswerLost(m)
    BY <1>0, <2>2, NoTableMoves DEF AnswerLost, NodeTypeOK
  <2> QED
    BY <2>1, <2>2
<1>4. wire' \in SUBSET Settlements /\ wire' \subseteq wire
  BY <1>0, <1>1
<1>5. NodeTypeOK'
  BY <1>0, <1>1, <1>2, <1>3, <1>4, TypesTogether
<1> QED
  BY <1>1, <1>2, <1>3, <1>4, <1>5, NoRowMoves, QuietWire, QuietInput, QuietClaims DEF Moves

LEMMA RestartMoves ==
  ASSUME NodeInv, NEW n \in Nodes, NodeRestart(n)
  PROVE  Moves
<1>0. NodeTypeOK /\ OneEntries /\ wire \in SUBSET Settlements /\ work \in [Nodes -> SUBSET Entries]
      /\ session \in SUBSET Nodes
  BY DEF NodeInv, NodeTypeOK
<1>1. UNCHANGED <<nrow, nspool, creq, seen>> /\ wire' \subseteq wire /\ session' \subseteq session
  BY DEF NodeRestart, ingressVars
<1>2. work' \in [Nodes -> SUBSET Entries] /\ \A k \in Nodes : work'[k] \subseteq work[k]
  BY <1>0 DEF NodeRestart
<1>3. tracked' = [tracked EXCEPT ![n] = <<>>] /\ settled' = [settled EXCEPT ![n] = {}]
  BY DEF NodeRestart
<1>4. <<>> \in Seq(Entries) /\ OneEntry(<<>>) /\ Range(<<>>) = {}
  BY DEF OneEntry, Range
<1>5. /\ TablesMove
      /\ tracked' \in [Nodes -> Seq(Entries)] /\ settled' \in [Nodes -> SUBSET NodeJobs]
  BY <1>0, <1>3, <1>4, OneTableMoves
<1>6. NodeTypeOK'
  BY <1>0, <1>1, <1>2, <1>5, TypesTogether
<1> QED
  BY <1>1, <1>2, <1>5, <1>6, NoRowMoves, QuietWire, QuietInput, QuietClaims DEF Moves

\* The sweeps: what they list, and what they write; and the end of a deferral.
LEMMA SweepMoves ==
  ASSUME NodeInv, Sweep \/ \E j \in NodeJobs : ListQueued(j) \/ ListRunning(j) \/ DeferralPasses(j)
  PROVE  Moves
<1>0. NodeTypeOK /\ OneEntries /\ nrow \in [NodeJobs -> NodeRow] /\ nspool \in SUBSET NodeJobs
      /\ seen \in Listings
  BY DEF NodeInv, NodeTypeOK
<1>1. UNCHANGED <<creq, session, tracked, settled, work, wire>>
  BY DEF Sweep, FailStaleQueued, Reclaim, ListQueued, ListRunning, DeferralPasses, ingressVars, clientVars
<1>2. TablesMove /\ WireMoves /\ ClaimsMove
  BY <1>0, <1>1, NoTableMoves, QuietWire, QuietClaims
<1>3. ASSUME NEW j \in NodeJobs, ListQueued(j) \/ ListRunning(j)
      PROVE  Moves
  <2>1. UNCHANGED <<nrow, nspool>>
    BY <1>3 DEF ListQueued, ListRunning
  <2>2. nrow[j] \in NodeRow
    BY <1>0
  <2>3. seen' \in Listings
    BY <1>3, <2>2 DEF ListQueued, ListRunning, Listings, NodeRow, None
  <2>4. NodeTypeOK'
    BY <1>0, <1>1, <2>1, <2>3, TypesTogether
  <2> QED
    BY <1>2, <2>1, <2>4, NoRowMoves, QuietInput DEF Moves
<1>4. ASSUME NEW j \in NodeJobs, DeferralPasses(j)
      PROVE  Moves
  <2> DEFINE r == [nrow[j] EXCEPT !.deferred = FALSE]
  <2>1. nrow' = [nrow EXCEPT ![j] = r] /\ nrow[j].status = "queued" /\ UNCHANGED <<nspool, seen>>
    BY <1>4 DEF DeferralPasses
  <2>2. r \in NodeRow /\ r.status = "queued"
    BY <1>0, <2>1 DEF NodeRow
  <2> HIDE DEF r
  <2>3. RowsMove /\ nrow' \in [NodeJobs -> NodeRow]
    BY <1>0, <2>1, <2>2, OneRowMoves
  <2>4. NodeTypeOK'
    BY <1>0, <1>1, <2>1, <2>3, TypesTogether
  <2> QED
    BY <1>2, <2>1, <2>3, <2>4, QuietInput DEF Moves
<1>5. CASE FailStaleQueued
  <2>1. seen' = Nothing /\ seen' \in Listings /\ seen.job \in NodeJobs
    BY <1>0, <1>5, NobodyServed DEF FailStaleQueued, Listings
  <2>2. CASE nrow[seen.job].status = "queued"
    <3> DEFINE r == [nrow[seen.job] EXCEPT !.status = "failed"]
    <3>1. nrow' = [nrow EXCEPT ![seen.job] = r] /\ nspool' = nspool \ {seen.job}
      BY <1>5, <2>2 DEF FailStaleQueued
    <3>2. nrow[seen.job] \in NodeRow
      BY <1>0, <2>1
    <3>3. r \in NodeRow /\ r.status = "failed"
      BY <3>2 DEF NodeRow
    <3> HIDE DEF r
    <3>4. RowsMove /\ nrow' \in [NodeJobs -> NodeRow] /\ nrow'[seen.job] = r
      BY <1>0, <2>1, <2>2, <3>1, <3>3, OneRowMoves
    <3>5. InputMoves
      BY <3>1, <3>3, <3>4 DEF InputMoves
    <3>6. NodeTypeOK'
      BY <1>0, <1>1, <2>1, <3>1, <3>4, TypesTogether
    <3> QED
      BY <1>2, <3>4, <3>5, <3>6 DEF Moves
  <2>3. CASE nrow[seen.job].status # "queued"
    <3>1. UNCHANGED <<nrow, nspool>>
      BY <1>5, <2>3 DEF FailStaleQueued
    <3>2. NodeTypeOK'
      BY <1>0, <1>1, <2>1, <3>1, TypesTogether
    <3> QED
      BY <1>2, <3>1, <3>2, NoRowMoves, QuietInput DEF Moves
  <2> QED
    BY <2>2, <2>3
<1>6. CASE Reclaim
  <2>1. seen' = Nothing /\ seen' \in Listings /\ UNCHANGED nspool
    BY <1>6, NobodyServed DEF Reclaim
  <2>2. seen.job \in NodeJobs
    <3>1. seen # Nothing
      BY <1>6 DEF Reclaim, Nothing
    <3> QED
      BY <1>0, <3>1 DEF Listings
  <2>3. CASE Holds(seen.job, seen.claim, TRUE)
    <3>1. nrow' = [nrow EXCEPT ![seen.job] = [nrow[seen.job] EXCEPT !.status = "failed"]]
      BY <1>6, <2>3 DEF Reclaim
    <3>2. RowsMove /\ nrow' \in [NodeJobs -> NodeRow]
      BY <1>0, <2>2, <2>3, <3>1, LetGoMoves
    <3>3. NodeTypeOK'
      BY <1>0, <1>1, <2>1, <3>2, TypesTogether
    <3> QED
      BY <1>2, <2>1, <3>2, <3>3, QuietInput DEF Moves
  <2>4. CASE ~Holds(seen.job, seen.claim, TRUE)
    <3>1. UNCHANGED nrow
      BY <1>6, <2>4 DEF Reclaim
    <3>2. NodeTypeOK'
      BY <1>0, <1>1, <2>1, <3>1, TypesTogether
    <3> QED
      BY <1>2, <2>1, <3>1, <3>2, NoRowMoves, QuietInput DEF Moves
  <2> QED
    BY <2>3, <2>4
<1> QED
  BY <1>3, <1>4, <1>5, <1>6 DEF Sweep

\* Every step.
LEMMA EveryStepMoves ==
  ASSUME MaxTracked \in Nat, NodeInv, NodeNext
  PROVE  Moves
<1>1. CASE \E n \in Nodes :
             \/ Handshake(n) \/ SessionExpires(n) \/ ClaimRequest(n) \/ ServeClaim(n)
             \/ IngressCrash(n) \/ NodeRestart(n)
             \/ \E p \in work[n], to \in {"done", "failed", "queued"} : Settle(n, p, to)
  BY <1>1, SessionMoves, ServeMoves, AnswerMoves, RestartMoves, SettleMoves DEF ServeClaim
<1>2. CASE \E m \in wire : UpdateJob(m) \/ Answered(m) \/ AnswerLost(m)
  BY <1>2, UpdateMoves, ReadMoves
<1>3. CASE Regrant
  BY <1>3, SessionMoves
<1>4. CASE Sweep \/ \E j \in NodeJobs : ListQueued(j) \/ ListRunning(j) \/ DeferralPasses(j)
  BY <1>4, SweepMoves
<1> QED
  BY <1>1, <1>2, <1>3, <1>4 DEF NodeNext

\* The invariant holds after every such step.
LEMMA RowsStay ==
  ASSUME NodeTypeOK, NEW j \in NodeJobs, NEW c \in Claims, RowsMove, ~Runs(j, c), c \in Circulating
  PROVE  ~(nrow'[j].status = "running" /\ nrow'[j].claim = c)
  BY DEF RowsMove

LEMMA WhoCirculates ==
  /\ \A n \in Nodes : creq[n].claim \in Circulating
  /\ \A n \in Nodes : \A p \in work[n] : p[2] \in Circulating
  /\ \A n \in Nodes : \A p \in Range(tracked[n]) : p[2] \in Circulating
  /\ \A m \in wire : m.claim \in Circulating
  BY DEF Circulating

LEMMA ReceiptsHold ==
  ASSUME NodeInv, Moves
  PROVE  OneEntries' /\ SettledIsOver'
<1>0. NodeTypeOK /\ NodeTypeOK' /\ RowsMove /\ TablesMove /\ SettledIsOver /\ AnswersAreTrue
  BY DEF NodeInv, Moves
<1>1. OneEntries'
  BY <1>0 DEF TablesMove, OneEntries, OneEntry
<1>2. ASSUME NEW n \in Nodes, NEW p \in Range(tracked'[n]), p[1] \in settled'[n]
      PROVE  ~(nrow'[p[1]].status = "running" /\ nrow'[p[1]].claim = p[2])
  <2>1. p \in Range(tracked[n])
        /\ (p[1] \in settled[n] \/ \E m \in wire : m.answer = "ok" /\ m.job = p[1] /\ m.claim = p[2])
    BY <1>0, <1>2 DEF TablesMove
  <2>2. ~Runs(p[1], p[2])
    BY <1>0, <2>1 DEF SettledIsOver, AnswersAreTrue
  <2>3. p \in Entries
    <3>1. tracked[n] \in Seq(Entries)
      BY <1>0 DEF NodeTypeOK
    <3> QED
      BY <2>1, <3>1 DEF Range
  <2>4. p[1] \in NodeJobs /\ p[2] \in Claims
    BY <2>3 DEF Entries
  <2> QED
    BY <1>0, <2>1, <2>2, <2>4, RowsStay, WhoCirculates
<1> QED
  BY <1>1, <1>2 DEF SettledIsOver, Runs

LEMMA AnswersHold ==
  ASSUME NodeInv, Moves
  PROVE  AnswersAreTrue'
<1>0. NodeTypeOK /\ RowsMove /\ WireMoves /\ AnswersAreTrue
  BY DEF NodeInv, Moves
<1>1. ASSUME NEW m \in wire', m.answer = "ok"
      PROVE  /\ ~(nrow'[m.job].status = "running" /\ nrow'[m.job].claim = m.claim)
             /\ m.to # "queued" => nrow'[m.job].status = m.to /\ nrow'[m.job].claim = m.claim
  <2>1. CASE m \in wire
    <3>1. m.job \in NodeJobs /\ m.claim \in Claims /\ m.to \in {"done", "failed", "queued"}
      BY <1>0, <2>1 DEF NodeTypeOK, Settlements
    <3>2. ~Runs(m.job, m.claim)
          /\ (m.to # "queued" => nrow[m.job].status = m.to /\ nrow[m.job].claim = m.claim)
      BY <1>0, <1>1, <2>1 DEF AnswersAreTrue
    <3>3. ~(nrow'[m.job].status = "running" /\ nrow'[m.job].claim = m.claim)
      BY <1>0, <2>1, <3>1, <3>2, RowsStay, WhoCirculates
    <3>4. m.to # "queued" => nrow'[m.job] = nrow[m.job]
      BY <1>0, <3>1, <3>2 DEF RowsMove
    <3> QED
      BY <3>2, <3>3, <3>4
  <2>2. CASE m \notin wire
    BY <1>0, <1>1, <2>2 DEF WireMoves
  <2> QED
    BY <2>1, <2>2
<1> QED
  BY <1>1 DEF AnswersAreTrue, Runs

LEMMA ClaimsStayApart ==
  ASSUME NodeInv, Moves
  PROVE  ClaimsApart'
<1>0. /\ ClaimsMove /\ ClaimsApart
      /\ \A k \in Nodes : \A p \in work[k] : p[2] # None
      /\ \A k \in Nodes : creq[k].claim \in Circulating
      /\ \A k \in Nodes : \A p \in work[k] : p[2] \in Circulating
  <2>1. ASSUME NEW k \in Nodes, NEW p \in work[k]
        PROVE  p[2] # None
    <3>1. p \in NodeJobs \X Claims
      BY DEF NodeInv, NodeTypeOK, Entries
    <3> QED
      BY <3>1 DEF Claims, None
  <2>2. ClaimsMove /\ ClaimsApart
    BY DEF NodeInv, Moves
  <2> QED
    BY <2>1, <2>2, WhoCirculates
<1>1. ASSUME NEW n \in Nodes, NEW m \in Nodes, creq'[n].claim # None, n # m
      PROVE  creq'[n].claim # creq'[m].claim
  BY <1>0, <1>1 DEF ClaimsMove, ClaimsApart
<1>2. ASSUME NEW n \in Nodes, NEW m \in Nodes, NEW p \in work'[m]
      PROVE  p[2] # creq'[n].claim
  <2>1. CASE p \in work[m]
    BY <1>0, <2>1 DEF ClaimsMove, ClaimsApart
  <2>2. CASE p = <<creq[m].job, creq[m].claim>> /\ creq[m].claim # None /\ creq'[m].claim = None
    BY <1>0, <2>2 DEF ClaimsMove, ClaimsApart
  <2> QED
    BY <1>0, <2>1, <2>2 DEF ClaimsMove
<1>3. ASSUME NEW n \in Nodes, NEW m \in Nodes, NEW p \in work'[n], NEW q \in work'[m], p[2] = q[2]
      PROVE  n = m /\ p = q
  <2> DEFINE Begun(k, e) == e = <<creq[k].job, creq[k].claim>> /\ creq[k].claim # None
  <2>1. (p \in work[n] \/ Begun(n, p)) /\ (q \in work[m] \/ Begun(m, q))
    BY <1>0 DEF ClaimsMove
  <2> QED
    BY <1>0, <1>3, <2>1 DEF ClaimsApart
<1> QED
  BY <1>1, <1>2, <1>3 DEF ClaimsApart

LEMMA NodeInvNext ==
  ASSUME MaxTracked \in Nat, NodeInv, [NodeNext]_nodeVars
  PROVE  NodeInv'
<1>1. CASE NodeNext
  <2>1. Moves
    BY <1>1, EveryStepMoves
  <2>2. InputKept'
    BY <2>1 DEF NodeInv, Moves, InputMoves, RowsMove, InputKept
  <2> QED
    BY <2>1, <2>2, ReceiptsHold, AnswersHold, ClaimsStayApart DEF NodeInv, Moves
<1>2. CASE UNCHANGED nodeVars
  BY <1>2 DEF nodeVars, NodeInv, NodeTypeOK, OneEntries, SettledIsOver, AnswersAreTrue, InputKept,
              ClaimsApart, Runs
<1> QED
  BY <1>1, <1>2

-------------------------------------------------------------------------------
\* Theorems.  MaxTracked is a count of table entries; nothing else is assumed.

\* Whatever is lost, restarted or answered twice, the invariant holds throughout.
THEOREM NodeTyped ==
  ASSUME MaxTracked \in Nat
  PROVE  NodeSpec => []NodeInv
<1>1. NodeInit => NodeInv
  BY NodeStart
<1>2. NodeInv /\ [NodeNext]_nodeVars => NodeInv'
  BY NodeInvNext
<1> QED
  BY <1>1, <1>2, PTL DEF NodeSpec

\* A receipt that the node's store counts as settled, and evicts first, is never
\* the receipt of work that still runs: the late answer to an earlier claim of
\* the job does not mark the later one (_mark_settled, _record_claim).
THEOREM SettledReceiptsAreOver ==
  ASSUME MaxTracked \in Nat
  PROVE  NodeSpec => []SettledIsSettled
<1>1. NodeInv => SettledIsSettled
  BY DEF NodeInv, SettledIsOver, SettledIsSettled, Runs, Holds
<1> QED
  BY <1>1, NodeTyped, PTL

\* Once a job is finished no report, sweep or late answer changes its row, and its
\* input is gone only when it failed (update_job, fail_stale_queued,
\* reclaim_stale_claims).
THEOREM OutcomesStand ==
  ASSUME MaxTracked \in Nat
  PROVE  NodeSpec => [][OutcomeStands]_nodeVars
<1>1. NodeInv /\ [NodeNext]_nodeVars => [OutcomeStands]_nodeVars
  <2> SUFFICES ASSUME NodeInv, NodeNext PROVE OutcomeStands
    BY Zenon
  <2>1. Moves
    BY EveryStepMoves
  <2>2. RowsMove /\ InputMoves /\ InputKept
    BY <2>1 DEF NodeInv, Moves
  <2>3. ASSUME NEW j \in NodeJobs
        PROVE  /\ nrow[j].status \in {"done", "failed"} => nrow'[j] = nrow[j]
               /\ j \notin nspool' => nrow'[j].status = "failed"
    BY <2>2 DEF InputKept, InputMoves, RowsMove
  <2> QED
    BY <2>3 DEF OutcomeStands
<1> QED
  BY <1>1, NodeTyped, PTL DEF NodeSpec

\* As long as nobody has read it, an accepted settlement says what the row says:
\* an "ok" on the wire is never about a claim that runs (update_job, _owned_job).
THEOREM AnswersStayTrue ==
  ASSUME MaxTracked \in Nat
  PROVE  NodeSpec => []AnswersAreTrue
<1>1. NodeInv => AnswersAreTrue
  BY DEF NodeInv
<1> QED
  BY <1>1, NodeTyped, PTL

\* No claim is at work on two nodes or on two jobs, nor still on its way to one
\* node while another works under it (claim, _record_claim).
THEOREM OneNodePerClaim ==
  ASSUME MaxTracked \in Nat
  PROVE  NodeSpec => []ClaimsApart
<1>1. NodeInv => ClaimsApart
  BY DEF NodeInv
<1> QED
  BY <1>1, NodeTyped, PTL
-------------------------------------------------------------------------------
\* The hibernating worker (Hibernate).  A slot is looked at by the upkeep, by a claim and by a
\* reap; the API of the instance may act without answering and answer from before it acted.

VmStates == {"running", "stopping", "stopped", "terminated"}

Vms == [st : VmStates, agent : BOOLEAN, ours : BOOLEAN, at : Int]
Descs == [st : VmStates \cup {"none"}, at : Int]
Parks == [phase : {"warming", "hibernating", "parked", "resuming"}, hib : Int, since : Int,
          unknown : Int, credit : Nat, attempted : BOOLEAN, refused : BOOLEAN]
Ups == [pc : {"idle", "step", "probe", "judge", "park", "sent", "answered", "settle"},
        st : VmStates \cup {"none"}, t : Nat,
        out : {"none", "yes", "no", "skip", "ok", "refused", "noverdict", "notexecuted"}]

HibTypes ==
  /\ vm \in Vms
  /\ desc \in Descs
  /\ park \in Parks /\ asked \in Int
  /\ gone \in BOOLEAN
  /\ slot \in {"warming", "ready", "leased", "dead"}
  /\ up \in Ups
  /\ cl \in {"idle", "start", "wait"}
  /\ rp \in {"idle", "terminate", "forget", "done"}
  /\ hnow \in Nat /\ charged \in Nat

\* Who is where: upkeep and a claim exclude each other, and a reaped slot stays dead.
HibOrder ==
  /\ up.pc # "idle" => cl = "idle" /\ slot # "leased" /\ up.t <= hnow
  /\ cl # "idle" => slot \in {"ready", "dead"} /\ park.phase # "hibernating"
  /\ rp # "idle" \/ gone => slot = "dead"

\* The instance: only a stop of ours hibernates it, and it is sent when the agent was up.
VmInv ==
  /\ vm.ours => vm.st \in {"stopping", "stopped"}
  /\ vm.agent => vm.st \in {"running", "stopping"}
  /\ vm.st = "stopping" => vm.ours /\ 0 <= vm.at /\ vm.at <= hnow
  /\ up.pc = "park" \/ (up.pc = "judge" /\ up.out = "yes") =>
       (vm.st = "running" => vm.agent)

\* What was read as stopped is, until a claim starts it; a claim drops what was read.
DescInv ==
  /\ cl # "idle" => desc = NoDesc
  /\ desc.st = "stopped" \/ (up.pc = "step" /\ up.st = "stopped") =>
       vm.st \in {"stopped", "terminated"}

\* The tables say when a park was accepted exactly while it is under way.
ParkInv ==
  /\ park.hib <= hnow
  /\ park.phase = "hibernating" <=> park.hib # Never
  /\ up.pc \in {"probe", "judge", "park", "sent", "answered"} => park.phase = "warming"

\* While the instance saves its memory with its agent still up, something keeps a claim away:
\* the step that stopped it, an accepted park, a silence that no answer has ended, or the
\* description, which no longer says "running".  No other stop is sent before that (_hib_attempt),
\* and no "running" read before that undoes an accepted one: an answer that says "refused", or a
\* thaw, comes too late to open the slot.
FallsAsleep == vm.st = "stopping" /\ vm.agent /\ slot # "dead"
Told == hnow - vm.at >= Lag

SleepInv ==
  FallsAsleep =>
    /\ cl = "idle" /\ slot # "leased"
    /\ up.pc # "answered" => vm.at <= asked
    /\ up.pc = "sent" => Told
    /\ park.hib # Never => vm.at <= park.hib
    /\ up.pc = "step" => vm.at <= up.t
    /\ \/ up.pc = "answered" /\ up.out \in {"ok", "noverdict"}
       \/ up.pc = "settle" /\ up.out = "noverdict"
       \/ park.phase = "hibernating" \/ park.unknown # Never \/ Told
    /\ ~(up.pc = "judge" /\ up.out = "no")
    /\ up.pc \in {"answered", "settle"} /\ up.out = "refused" => Told
    /\ up.pc = "settle" /\ up.out = "ok" => park.phase = "hibernating"

LeaseInv == HibTypes /\ HibOrder /\ VmInv /\ DescInv /\ ParkInv /\ SleepInv /\ LeasedNotStopped

\* Without a stop that may have been executed nothing of the slot looks parked.
ColdInv ==
  /\ verdicts \cap {"ok", "noverdict"} = {} =>
       /\ park.phase = "warming" /\ park.hib = Never /\ ~park.attempted
       /\ park.since # Never => park.refused
       /\ slot \in {"warming", "dead"} /\ cl = "idle"
  /\ up.pc \in {"answered", "settle"} /\ up.out \in {"ok", "noverdict"} => up.out \in verdicts

\* The moment up to which silence is credited, and the bound on what is charged.
Heard == IF up.pc = "idle" THEN hnow ELSE up.t

ClockInv ==
  /\ park.since <= hnow /\ park.unknown <= hnow /\ Never <= park.since /\ Never <= park.unknown
  /\ up.pc # "idle" => hnow - up.t <= CallTime
  /\ park.since # Never =>
       charged + CallTime >=
         hnow - park.since - park.credit
           - (IF park.unknown = Never THEN 0
              ELSE Later(0, Heard - Later(park.unknown, park.since)))

\* The operators on the park clock, field by field.
LEMMA FreezesIs ==
  ASSUME NEW p \in Parks, NEW t \in Nat, NEW q, q = Freeze(p, t, FALSE) \/ q = Freeze(p, t, TRUE)
  PROVE  /\ q \in Parks
         /\ q.phase = p.phase /\ q.hib = p.hib /\ q.since = p.since /\ q.credit = p.credit
         /\ q.unknown = (IF p.unknown = Never THEN t ELSE p.unknown)
         /\ q.refused = p.refused
         /\ q = Freeze(p, t, FALSE) => q.attempted = p.attempted
<1> DEFINE x == IF p.unknown = Never THEN t ELSE p.unknown
<1>1. x \in Int
  BY DEF Parks
<1>2. ASSUME NEW y \in BOOLEAN, NEW r, r = [p EXCEPT !.unknown = x, !.attempted = y]
      PROVE  /\ r \in Parks
             /\ r.phase = p.phase /\ r.hib = p.hib /\ r.since = p.since /\ r.credit = p.credit
             /\ r.unknown = x /\ r.refused = p.refused /\ r.attempted = y
  <2> HIDE DEF x
  <2> QED
    BY <1>1, <1>2, Zenon DEF Parks
<1>3. CASE q = Freeze(p, t, FALSE)
  <2>1. q = [p EXCEPT !.unknown = x, !.attempted = p.attempted]
    <3>1. (p.attempted \/ FALSE) = p.attempted
      BY DEF Parks
    <3> QED
      BY <1>3, <3>1 DEF Freeze
  <2>2. p.attempted \in BOOLEAN
    BY DEF Parks
  <2>3. /\ q \in Parks
        /\ q.phase = p.phase /\ q.hib = p.hib /\ q.since = p.since /\ q.credit = p.credit
        /\ q.unknown = x /\ q.refused = p.refused /\ q.attempted = p.attempted
    <3> HIDE DEF x
    <3> QED
      BY <1>2, <2>1, <2>2, Zenon
  <2> QED
    BY <2>3
<1>4. CASE q = Freeze(p, t, TRUE) /\ q # Freeze(p, t, FALSE)
  <2>1. q = [p EXCEPT !.unknown = x, !.attempted = TRUE]
    BY <1>4 DEF Freeze
  <2> QED
    BY <1>2, <1>4, <2>1
<1> QED
  BY <1>3, <1>4

LEMMA StartClockIs ==
  ASSUME NEW p \in Parks, NEW t \in Int
  PROVE  LET q == StartClock(p, t)
         IN  /\ q \in Parks
             /\ q.phase = p.phase /\ q.hib = p.hib /\ q.credit = p.credit
             /\ q.since = (IF p.since = Never THEN t ELSE p.since)
             /\ q.unknown = p.unknown /\ q.attempted = p.attempted /\ q.refused = p.refused
<1>1. (IF p.since = Never THEN t ELSE p.since) \in Int
  BY DEF Parks
<1>2. StartClock(p, t) \in Parks
  BY <1>1 DEF StartClock, Parks
<1> QED
  BY <1>2 DEF StartClock, Parks

LEMMA ThawIs ==
  ASSUME NEW p \in Parks, NEW t \in Nat
  PROVE  /\ Thaw(p, t) \in Parks
         /\ Thaw(p, t).phase = p.phase /\ Thaw(p, t).hib = p.hib
         /\ Thaw(p, t).since = (IF p.unknown # Never /\ p.attempted /\ p.since = Never
                                THEN p.unknown ELSE p.since)
         /\ Thaw(p, t).unknown = Never
         /\ Thaw(p, t).attempted = p.attempted /\ Thaw(p, t).refused = p.refused
         /\ Thaw(p, t).credit =
              (IF p.unknown # Never /\ Thaw(p, t).since # Never
               THEN p.credit + Later(0, t - Later(p.unknown, Thaw(p, t).since)) ELSE p.credit)
<1> DEFINE since == IF p.attempted /\ p.since = Never THEN p.unknown ELSE p.since
           q == [p EXCEPT !.unknown = Never, !.since = since]
           lost == Later(0, t - Later(p.unknown, since))
           r == [q EXCEPT !.credit = @ + lost]
<1>1. Thaw(p, t) = CASE p.unknown = Never -> p
                     [] p.unknown # Never /\ since = Never -> q
                     [] OTHER -> r
  BY DEF Thaw
<1>2. since \in Int /\ lost \in Nat
  BY DEF Parks, Later
<1>n. Never \in Int
  BY DEF Never
<1>3. q \in Parks /\ q.phase = p.phase /\ q.hib = p.hib /\ q.since = since /\ q.unknown = Never
      /\ q.credit = p.credit /\ q.attempted = p.attempted /\ q.refused = p.refused
  <2> HIDE DEF since
  <2> QED
    BY <1>2, <1>n, Zenon DEF Parks
<1>4. r \in Parks /\ r.phase = p.phase /\ r.hib = p.hib /\ r.since = since /\ r.unknown = Never
      /\ r.credit = p.credit + lost /\ r.attempted = p.attempted /\ r.refused = p.refused
  <2> HIDE DEF lost, since, q
  <2>1. q.credit + lost \in Nat
    BY <1>2, <1>3 DEF Parks
  <2> QED
    BY <1>3, <2>1 DEF Parks
<1>5. CASE p.unknown = Never
  BY <1>1, <1>5
<1>6. CASE p.unknown # Never /\ since = Never
  BY <1>1, <1>3, <1>6
<1>7. CASE p.unknown # Never /\ since # Never
  <2>1. Thaw(p, t) = r
    BY <1>1, <1>7
  <2> QED
    BY <2>1, <1>4, <1>7
<1> QED
  BY <1>5, <1>6, <1>7

\* What the upkeep steps do, with the operators on the park clock left closed.
Beside == UNCHANGED <<gone, cl, rp, hnow>>
Silenced == park' = park \/ (~gone /\ park.since # Never /\ park' = Freeze(park, hnow, FALSE))
ClockKept ==
  charged' \in Nat /\ (park.since # Never /\ park'.since # Never => charged' = charged)
Concludes(ready) ==
  /\ up' = Resting
  /\ slot' = slot \/ slot' = "dead" \/ (ready /\ slot = "warming" /\ slot' = "ready")

\* The constant records.
LEMMA Moments ==
  /\ Resting \in Ups /\ Resting.pc = "idle" /\ Resting.st = "none" /\ Resting.out = "none"
  /\ Resting.t = 0 /\ Never \in Int /\ Never < 0
  /\ NoPark \in Parks /\ NoPark.phase = "warming" /\ NoPark.hib = Never /\ NoPark.since = Never
  /\ NoPark.unknown = Never /\ ~NoPark.attempted
  /\ NoDesc \in Descs /\ NoDesc.st = "none" /\ NoDesc.at = Never
<1>1. Resting \in Ups /\ Resting.pc = "idle" /\ Resting.st = "none" /\ Resting.out = "none"
  BY DEF Resting, Ups
<1>2. Resting.t = 0 /\ Never \in Int /\ Never < 0
  BY DEF Resting, Never
<1>3. /\ NoPark \in Parks /\ NoPark.phase = "warming" /\ NoPark.hib = Never
      /\ NoPark.since = Never /\ NoPark.unknown = Never /\ ~NoPark.attempted
  BY DEF NoPark, Parks, Never
<1>4. NoDesc \in Descs /\ NoDesc.st = "none" /\ NoDesc.at = Never
  BY DEF NoDesc, Descs, Never
<1> QED
  BY <1>1, <1>2, <1>3, <1>4

LEMMA StartsWith ==
  ASSUME NEW st \in VmStates \cup {"none"}, NEW t \in Nat
  PROVE  LET u == [Resting EXCEPT !.pc = "step", !.st = st, !.t = t]
         IN  u \in Ups /\ u.pc = "step" /\ u.st = st /\ u.t = t
<1>1. Resting \in Ups
  BY Moments
<1> QED
  BY <1>1, Zenon DEF Ups

\* The upkeep steps one by one.
LEMMA LookIs ==
  ASSUME HibTypes, Look
  PROVE  /\ Beside /\ UNCHANGED <<vm, slot, verdicts>>
         /\ asked' = asked /\ up.pc = "idle" /\ cl = "idle" /\ slot \in {"warming", "ready"}
         /\ \/ up' = up /\ desc' = desc /\ Silenced
            \/ /\ up' \in Ups /\ up'.pc = "step" /\ up'.t = hnow /\ park' = park
               /\ \/ up'.st = desc.st /\ desc' = desc
                  \/ /\ up'.st \in Described
                     /\ desc' = desc \/ (~gone /\ desc' = [st |-> up'.st, at |-> hnow])
<1> USE DEF HibTypes
<1>1. Described \subseteq VmStates
  BY DEF Described, Vms, VmStates
<1>h. hnow \in Nat
  OBVIOUS
<1>a. ASSUME NEW st \in VmStates \cup {"none"},
             up' = [Resting EXCEPT !.pc = "step", !.st = st, !.t = hnow]
      PROVE  up' \in Ups /\ up'.pc = "step" /\ up'.t = hnow /\ up'.st = st
  BY <1>a, <1>h, StartsWith
<1>2. desc.st \in VmStates \cup {"none"}
  BY DEF Descs
<1>3. CASE up' = [Resting EXCEPT !.pc = "step", !.st = desc.st, !.t = hnow]
           /\ UNCHANGED <<desc, park, charged>>
  <2>1. up' \in Ups /\ up'.pc = "step" /\ up'.t = hnow /\ up'.st = desc.st
    BY <1>a, <1>2, <1>3, Zenon
  <2> QED
    BY <1>3, <2>1 DEF Look, Upkeeping, Beside
<1>4. ASSUME NEW st \in Described, up' = [Resting EXCEPT !.pc = "step", !.st = st, !.t = hnow],
             desc' = IF slot = "warming" /\ ~gone THEN [st |-> st, at |-> hnow] ELSE desc,
             UNCHANGED <<park, charged>>
      PROVE  /\ up' \in Ups /\ up'.pc = "step" /\ up'.t = hnow /\ park' = park
             /\ up'.st \in Described
             /\ desc' = desc \/ (~gone /\ desc' = [st |-> up'.st, at |-> hnow])
  <2>m. st \in VmStates \cup {"none"}
    BY <1>1
  <2>1. up' \in Ups /\ up'.pc = "step" /\ up'.t = hnow /\ up'.st = st
    BY <1>a, <1>4, <2>m, Zenon
  <2> QED
    BY <1>4, <2>1
<1>5. CASE SetPark(IF park.since # Never /\ ~gone THEN Freeze(park, hnow, FALSE) ELSE park)
           /\ UNCHANGED <<up, desc>>
  BY <1>5 DEF Look, Upkeeping, Beside, SetPark, Silenced
<1> QED
  BY <1>3, <1>4, <1>5 DEF Look, Upkeeping, Beside

LEMMA StepIs ==
  ASSUME HibTypes, Step
  PROVE  /\ Beside /\ UNCHANGED <<vm, verdicts>> /\ up.pc = "step" /\ (~gone => asked' = asked)
         /\ \/ /\ up' = [up EXCEPT !.pc = "probe"] /\ UNCHANGED <<slot, park, desc>>
               /\ ~gone /\ park.phase = "warming" /\ up.st = "running"
            \/ gone /\ Concludes(FALSE) /\ park' = NoPark /\ desc' = NoDesc /\ asked' = Never
            \/ /\ ~gone /\ Concludes(FALSE) /\ UNCHANGED <<park, desc>>
            \/ /\ ~gone /\ Concludes(TRUE) /\ desc' = desc /\ up.st = "stopped" /\ Attempted(park)
               /\ park' = [NoPark EXCEPT !.phase = "parked"]
            \/ /\ ~gone /\ Concludes(FALSE) /\ desc' = desc /\ up.st = "stopping"
               /\ park.phase = "hibernating" \/ park.attempted \/ park.hib # Never
               /\ park' = Thaw(StartClock([park EXCEPT !.phase = "hibernating",
                                             !.hib = IF @ = Never THEN up.t ELSE @],
                            IF park.attempted /\ park.unknown # Never
                            THEN park.unknown ELSE up.t), up.t)
            \/ /\ ~gone /\ Concludes(FALSE) /\ desc' = desc /\ up.st = "running"
               /\ park.phase \in {"hibernating", "parked", "resuming"}
               /\ ~(park.phase = "hibernating" /\ park.hib # Never /\ up.t - park.hib < CacheTime)
               /\ park' = StartClock([park EXCEPT !.phase = "warming", !.hib = Never], up.t)
<1> USE DEF HibTypes
<1>r. /\ Report(FALSE, TRUE) => Concludes(FALSE)
      /\ Report(FALSE, FALSE) => Concludes(FALSE)
      /\ Report(TRUE, TRUE) => Concludes(TRUE)
      /\ \A e \in BOOLEAN : Report(FALSE, e) => Concludes(FALSE)
  BY DEF Report, Concludes
<1>e. ParkExpired(park, up.t) \in BOOLEAN
  BY DEF ParkExpired
<1>1. Beside /\ UNCHANGED <<vm, verdicts>> /\ up.pc = "step" /\ (~gone => asked' = asked)
  BY DEF Step, Beside
<1>2. CASE gone /\ Forget /\ Report(FALSE, TRUE)
  BY <1>1, <1>2, <1>r DEF Forget, SetPark
<1>3. CASE ~gone /\ up.st \in Dead /\ Report(FALSE, FALSE) /\ UNCHANGED <<desc, park, charged>>
  BY <1>1, <1>3, <1>r
<1>4. CASE /\ ~gone /\ up.st = "stopped" /\ Attempted(park)
           /\ SetPark([NoPark EXCEPT !.phase = "parked"])
           /\ Report(TRUE, TRUE) /\ UNCHANGED desc
  BY <1>1, <1>4, <1>r DEF SetPark
<1>5. CASE /\ ~gone /\ up.st = "stopped" /\ ~Attempted(park)
           /\ Report(FALSE, TRUE) /\ UNCHANGED <<desc, park, charged>>
  BY <1>1, <1>5, <1>r
<1> QED
  BY <1>1, <1>2, <1>3, <1>4, <1>5, <1>r, <1>e DEF Step, SetPark

LEMMA AskIs ==
  ASSUME HibTypes, AskAgent
  PROVE  /\ Beside /\ UNCHANGED <<vm, slot, desc, asked, verdicts>> /\ up.pc = "probe"
         /\ \/ /\ up' \in Ups /\ up'.pc = "judge" /\ up'.t = up.t /\ park' = park
               /\ (up'.out = "yes" /\ vm.agent) \/ (up'.out = "no" /\ ~vm.agent) \/ up'.out = "none"
            \/ up' = Resting /\ Silenced
<1> USE DEF HibTypes
<1>1. ASSUME NEW o \in {"yes", "no", "none"}, up' = [up EXCEPT !.pc = "judge", !.out = o]
      PROVE  up' \in Ups /\ up'.pc = "judge" /\ up'.t = up.t /\ up'.out = o
  BY <1>1, Zenon DEF Ups
<1>2. \/ up' = [up EXCEPT !.pc = "judge", !.out = "yes"] /\ vm.agent /\ park' = park
      \/ up' = [up EXCEPT !.pc = "judge", !.out = "no"] /\ ~vm.agent /\ park' = park
      \/ up' = [up EXCEPT !.pc = "judge", !.out = "none"] /\ park' = park
      \/ up' = Resting /\ Silenced
  BY DEF AskAgent, SetPark, Silenced
<1>3. Beside /\ UNCHANGED <<vm, slot, desc, asked, verdicts>> /\ up.pc = "probe"
  BY DEF AskAgent, Beside
<1> QED
  BY <1>1, <1>2, <1>3

LEMMA JudgeIs ==
  ASSUME HibTypes, Judge
  PROVE  /\ Beside /\ UNCHANGED <<vm, verdicts>> /\ up.pc = "judge" /\ (~gone => asked' = asked)
         /\ \/ gone /\ Concludes(FALSE) /\ park' = NoPark /\ desc' = NoDesc /\ asked' = Never
            \/ /\ ~gone /\ Concludes(FALSE) /\ desc' = desc
               /\ \/ up.out = "none" /\ park' = Freeze(park, up.t, FALSE)
                  \/ up.out = "no" /\ park' = Thaw(park, up.t)
            \/ /\ ~gone /\ up.out = "yes" /\ up' = [up EXCEPT !.pc = "park"]
               /\ UNCHANGED <<desc, park, slot>>
<1>r. Report(FALSE, TRUE) => Concludes(FALSE)
  BY DEF Report, Concludes
<1> QED
  BY <1>r DEF Judge, Beside, Forget, SetPark

LEMMA TryIs ==
  ASSUME HibTypes, TryPark
  PROVE  /\ Beside /\ UNCHANGED <<vm, slot, desc, park, charged, verdicts>> /\ up.pc = "park"
         /\ up' \in Ups /\ up'.t = up.t
         /\ \/ up'.pc = "settle" /\ up'.out = "skip" /\ asked' = asked
            \/ /\ ~gone /\ ~Throttled /\ up'.pc = "sent" /\ up'.out = "none" /\ asked' = hnow
<1> USE DEF HibTypes
<1>1. ASSUME NEW p \in {"sent", "settle"}, NEW o \in {"skip", "none"},
             up' = [up EXCEPT !.pc = p, !.out = o]
      PROVE  up' \in Ups /\ up'.pc = p /\ up'.t = up.t /\ up'.out = o
  BY <1>1, Zenon DEF Ups
<1>2. \/ up' = [up EXCEPT !.pc = "settle", !.out = "skip"] /\ asked' = asked
      \/ /\ ~gone /\ ~Throttled /\ up' = [up EXCEPT !.pc = "sent", !.out = "none"]
         /\ asked' = hnow
  BY DEF TryPark
<1>3. up.pc = "park" /\ Beside /\ UNCHANGED <<vm, slot, desc, park, charged, verdicts>>
  BY DEF TryPark, Beside
<1> QED
  BY <1>1, <1>2, <1>3

LEMMA AnsweredIs ==
  ASSUME HibTypes, StopAnswered
  PROVE  /\ Beside /\ UNCHANGED <<slot, desc, park, asked, charged>> /\ up.pc = "sent"
         /\ up' \in Ups /\ up'.pc = "answered" /\ up'.t = up.t
         /\ up'.out \in {"ok", "refused", "noverdict", "notexecuted"}
         /\ verdicts' = verdicts \cup {up'.out}
         /\ \/ vm' = vm
            \/ vm.st = "running" /\ vm' = Stopped /\ up'.out \in {"ok", "noverdict"}
<1> USE DEF HibTypes
<1>1. ASSUME NEW o \in {"ok", "refused", "noverdict", "notexecuted"}, Answers(o)
      PROVE  /\ up' \in Ups /\ up'.pc = "answered" /\ up'.t = up.t /\ up'.out = o
             /\ verdicts' = verdicts \cup {o}
  <2>1. up' = [up EXCEPT !.pc = "answered", !.out = o] /\ verdicts' = verdicts \cup {o}
    BY <1>1 DEF Answers
  <2> QED
    BY <2>1, Zenon DEF Ups
<1>2. \/ /\ Answers("ok") \/ Answers("noverdict")
         /\ vm' = vm \/ (vm.st = "running" /\ vm' = Stopped)
      \/ /\ Answers("refused") \/ Answers("notexecuted")
         /\ vm' = vm
  BY DEF StopAnswered
<1>3. up.pc = "sent" /\ Beside /\ UNCHANGED <<slot, desc, park, asked, charged>>
  BY DEF StopAnswered, Beside
<1> QED
  BY <1>1, <1>2, <1>3

LEMMA ReturnsIs ==
  ASSUME HibTypes, ParkReturns
  PROVE  /\ Beside /\ UNCHANGED <<vm, slot, verdicts>> /\ up.pc = "answered"
         /\ up' \in Ups /\ up'.pc = "settle" /\ up'.t = up.t
         /\ up'.out = up.out \/ (gone /\ up'.out = "skip")
         /\ asked' = (IF gone THEN asked ELSE hnow)
         /\ \/ (gone \/ up.out # "ok") /\ UNCHANGED <<desc, park>>
            \/ /\ ~gone /\ up.out = "ok" /\ desc' = NoDesc /\ park' \in Parks
               /\ park' = [park EXCEPT !.phase = "hibernating", !.hib = hnow]
<1> USE DEF HibTypes
<1>1. [park EXCEPT !.phase = "hibernating", !.hib = hnow] \in Parks
  <2>1. hnow \in Int
    OBVIOUS
  <2> QED
    BY <2>1, Zenon DEF Parks
<1> DEFINE o == IF gone /\ up.out \in {"ok", "refused"} THEN "skip" ELSE up.out
<1>2. up' \in Ups /\ up'.pc = "settle" /\ up'.t = up.t /\ up'.out = o
  <2>1. o \in {"none", "yes", "no", "skip", "ok", "refused", "noverdict", "notexecuted"}
    BY DEF Ups
  <2>2. up' = [up EXCEPT !.pc = "settle", !.out = o]
    BY DEF ParkReturns
  <2> HIDE DEF o
  <2> QED
    BY <2>1, <2>2, Zenon DEF Ups
<1>3. /\ Beside /\ UNCHANGED <<vm, slot, verdicts>> /\ up.pc = "answered"
      /\ asked' = (IF gone THEN asked ELSE hnow)
      /\ \/ (gone \/ up.out # "ok") /\ UNCHANGED <<desc, park>>
         \/ /\ ~gone /\ up.out = "ok" /\ desc' = NoDesc
            /\ park' = [park EXCEPT !.phase = "hibernating", !.hib = hnow]
  BY DEF ParkReturns, AskedAfter, Beside, SetPark, Accepted
<1> QED
  BY <1>1, <1>2, <1>3

LEMMA SettleIs ==
  ASSUME HibTypes, SettlePark
  PROVE  /\ Beside /\ UNCHANGED <<vm, verdicts>> /\ up.pc = "settle" /\ Concludes(FALSE)
         /\ ~gone => asked' = asked
         /\ \/ gone /\ park' = NoPark /\ desc' = NoDesc /\ asked' = Never
            \/ /\ ~gone /\ desc' = desc
               /\ \/ up.out = "skip" /\ park' = park
                  \/ up.out = "notexecuted" /\ park' = Freeze(park, hnow, FALSE)
                  \/ /\ up.out = "noverdict"
                     /\ park' = Freeze([park EXCEPT !.refused = FALSE], hnow, TRUE)
                  \/ /\ up.out \in {"ok", "refused"}
                     /\ park' = [StartClock(Thaw(park, hnow), hnow)
                                   EXCEPT !.refused = (up.out = "refused")]
<1>r. Report(FALSE, TRUE) => Concludes(FALSE)
  BY DEF Report, Concludes
<1> QED
  BY <1>r DEF SettlePark, Beside, Forget, SetPark

\* Only the clock and the tick move the history of the charges otherwise.
LEMMA ClockKeeps ==
  ASSUME HibTypes, HibNext, ~Tick
  PROVE  ClockKept /\ hnow' = hnow
<1> USE DEF HibTypes
<1>1. ASSUME NEW p, SetPark(p) PROVE ClockKept
  BY <1>1 DEF SetPark, ClockKept
<1>2. ASSUME UNCHANGED charged PROVE ClockKept
  BY <1>2 DEF ClockKept
<1>3. (\E p : SetPark(p)) \/ UNCHANGED charged
  <2>1. CASE Look
    BY <2>1 DEF Look
  <2>2. CASE Step
    BY <2>2 DEF Step, Forget
  <2>3. CASE AskAgent \/ Judge
    BY <2>3 DEF AskAgent, Judge, Forget
  <2>4. CASE TryPark \/ StopAnswered \/ ParkReturns \/ SettlePark
    BY <2>4 DEF TryPark, StopAnswered, ParkReturns, SettlePark, Forget
  <2>5. CASE ResumeStart \/ ReapForgets
    BY <2>5 DEF ResumeStart, ReapForgets, Forget
  <2>6. CASE AgentComesUp \/ GuestFreezes \/ StopCompletes \/ StopsByItself \/ WarmingTerminal
             \/ ClaimProbe \/ ResumeWait \/ ReapBegins \/ ReapTerminates
    BY <2>6 DEF AgentComesUp, GuestFreezes, StopCompletes, StopsByItself, WarmingTerminal,
       ClaimProbe, ResumeWait,
       ReapBegins, ReapTerminates
  <2> QED
    BY <2>1, <2>2, <2>3, <2>4, <2>5, <2>6 DEF HibNext
<1>4. hnow' = hnow
  BY DEF HibNext, AgentComesUp, GuestFreezes, StopCompletes, StopsByItself, WarmingTerminal,
     ClaimProbe, ResumeWait,
     ReapBegins, ReapTerminates, Look, Step, AskAgent, Judge, TryPark, StopAnswered, ParkReturns,
     SettlePark, ResumeStart, ReapForgets
<1> QED
  BY <1>1, <1>2, <1>3, <1>4

\* The tables keep their types.
LEMMA ParkTyped ==
  ASSUME HibTypes, HibNext
  PROVE  park' \in Parks
<1> USE DEF HibTypes
<1>0. park \in Parks /\ NoPark \in Parks /\ hnow \in Nat /\ up.t \in Nat /\ Never \in Int
  <2>1. up.t \in Nat
    BY DEF Ups
  <2>2. Never \in Int
    BY DEF Never
  <2> QED
    BY <2>1, <2>2, Moments
<1>s. ASSUME Silenced PROVE park' \in Parks
  BY <1>0, <1>s, FreezesIs DEF Silenced
<1>1. CASE Look
  BY <1>0, <1>1, <1>s, LookIs
<1>2. CASE Step
  <2> DEFINE q == [park EXCEPT !.phase = "hibernating", !.hib = IF @ = Never THEN up.t ELSE @]
             d == IF park.attempted /\ park.unknown # Never THEN park.unknown ELSE up.t
  <2>1. q \in Parks
    <3> DEFINE h == IF park.hib = Never THEN up.t ELSE park.hib
    <3>1. h \in Int
      BY <1>0 DEF Parks
    <3>2. q = [park EXCEPT !.phase = "hibernating", !.hib = h]
      OBVIOUS
    <3> HIDE DEF h
    <3> QED
      BY <1>0, <3>1, <3>2, Zenon DEF Parks
  <2>2. [park EXCEPT !.phase = "warming", !.hib = Never] \in Parks
    BY <1>0, Zenon DEF Parks
  <2>3. [NoPark EXCEPT !.phase = "parked"] \in Parks
    BY <1>0 DEF Parks
  <2>d. d \in Int
    BY <1>0 DEF Parks
  <2>4. Thaw(StartClock(q, d), up.t) \in Parks
    <3> HIDE DEF q, d
    <3> QED
      BY <1>0, <2>1, <2>d, StartClockIs, ThawIs
  <2>5. StartClock([park EXCEPT !.phase = "warming", !.hib = Never], up.t) \in Parks
    <3> DEFINE r == [park EXCEPT !.phase = "warming", !.hib = Never]
    <3>1. r \in Parks /\ up.t \in Int
      BY <1>0, <2>2
    <3> HIDE DEF r, q, d
    <3>2. StartClock(r, up.t) \in Parks
      BY <3>1, StartClockIs
    <3> QED
      BY <3>2 DEF r
  <2> QED
    BY <1>0, <1>2, <2>3, <2>4, <2>5, StepIs
<1>3. CASE AskAgent
  BY <1>0, <1>3, <1>s, AskIs
<1>4. CASE Judge
  BY <1>0, <1>4, JudgeIs, FreezesIs, ThawIs
<1>5. CASE ParkReturns
  BY <1>0, <1>5, ReturnsIs
<1>6. CASE SettlePark
  <2>1. \A p \in Parks, b \in BOOLEAN : [p EXCEPT !.refused = b] \in Parks
    BY DEF Parks
  <2>2. Freeze([park EXCEPT !.refused = FALSE], hnow, TRUE) \in Parks
    BY <1>0, <2>1, FreezesIs
  <2>3. StartClock(Thaw(park, hnow), hnow) \in Parks
    BY <1>0, ThawIs, StartClockIs
  <2> QED
    BY <1>0, <1>6, <2>1, <2>2, <2>3, SettleIs, FreezesIs
<1>7. CASE ResumeStart
  BY <1>0, <1>7 DEF ResumeStart, SetPark, Parks
<1>8. CASE ReapForgets
  BY <1>0, <1>8 DEF ReapForgets, Forget, SetPark
<1>9. CASE TryPark \/ StopAnswered
  BY <1>0, <1>9, TryIs, AnsweredIs
<1>10. CASE AgentComesUp \/ GuestFreezes \/ StopCompletes \/ StopsByItself \/ WarmingTerminal
            \/ ClaimProbe \/ ResumeWait \/ ReapBegins \/ ReapTerminates \/ Tick
  BY <1>0, <1>10 DEF AgentComesUp, GuestFreezes, StopCompletes, StopsByItself, WarmingTerminal,
     ClaimProbe,
     ResumeWait, ReapBegins, ReapTerminates, Tick
<1> QED
  BY <1>1, <1>2, <1>3, <1>4, <1>5, <1>6, <1>7, <1>8, <1>9, <1>10 DEF HibNext

LEMMA VmTyped ==
  ASSUME HibTypes, HibNext
  PROVE  vm' \in Vms
<1> USE DEF HibTypes
<1>0. vm \in Vms /\ hnow \in Int /\ Never \in Int
  BY DEF Never
<1>1. CASE AgentComesUp \/ GuestFreezes
  BY <1>0, <1>1 DEF AgentComesUp, GuestFreezes, Vms
<1>2. CASE StopCompletes \/ StopsByItself
  <2>1. "stopped" \in VmStates /\ FALSE \in BOOLEAN
    BY DEF VmStates
  <2> QED
    BY <1>0, <1>2, <2>1, Zenon DEF StopCompletes, StopsByItself, Vms
<1>3. CASE StopAnswered
  <2>1. "stopping" \in VmStates /\ TRUE \in BOOLEAN
    BY DEF VmStates
  <2>2. Stopped \in Vms
    BY <1>0, <2>1, Zenon DEF Stopped, Vms
  <2> QED
    BY <1>0, <1>3, <2>2, AnsweredIs
<1>4. CASE ResumeStart \/ ResumeWait \/ ReapTerminates
  <2>1. \A st \in VmStates : [st |-> st, agent |-> FALSE, ours |-> FALSE, at |-> Never] \in Vms
    BY <1>0 DEF Vms
  <2>2. "running" \in VmStates /\ "terminated" \in VmStates
    BY DEF VmStates
  <2> QED
    BY <1>0, <1>4, <2>1, <2>2 DEF ResumeStart, ResumeWait, ReapTerminates
<1>5. CASE Look \/ Step \/ AskAgent \/ Judge \/ TryPark \/ ParkReturns \/ SettlePark
  BY <1>0, <1>5, LookIs, StepIs, AskIs, JudgeIs, TryIs, ReturnsIs, SettleIs
<1>6. CASE WarmingTerminal \/ ClaimProbe \/ ReapBegins \/ ReapForgets \/ Tick
  BY <1>0, <1>6 DEF WarmingTerminal, ClaimProbe, ReapBegins, ReapForgets, Tick
<1> QED
  BY <1>1, <1>2, <1>3, <1>4, <1>5, <1>6 DEF HibNext

LEMMA UpTyped ==
  ASSUME HibTypes, HibNext
  PROVE  up' \in Ups
<1> USE DEF HibTypes
<1>0. up \in Ups /\ Resting \in Ups
  BY Moments
<1>p. \A p \in {"probe", "park"} : [up EXCEPT !.pc = p] \in Ups
  BY DEF Ups
<1>1. CASE Look \/ AskAgent \/ TryPark \/ StopAnswered \/ ParkReturns \/ SettlePark
  BY <1>0, <1>1, LookIs, AskIs, TryIs, AnsweredIs, ReturnsIs, SettleIs DEF Concludes
<1>2. CASE Step \/ Judge
  BY <1>0, <1>p, <1>2, StepIs, JudgeIs DEF Concludes
<1>3. CASE AgentComesUp \/ GuestFreezes \/ StopCompletes \/ StopsByItself \/ WarmingTerminal
           \/ ClaimProbe \/ ResumeStart \/ ResumeWait \/ ReapBegins \/ ReapTerminates
           \/ ReapForgets \/ Tick
  BY <1>0, <1>3 DEF AgentComesUp, GuestFreezes, StopCompletes, StopsByItself, WarmingTerminal,
     ClaimProbe,
     ResumeStart, ResumeWait, ReapBegins, ReapTerminates, ReapForgets, Tick
<1> QED
  BY <1>1, <1>2, <1>3 DEF HibNext

LEMMA HibTyped ==
  ASSUME HibTypes, HibNext
  PROVE  HibTypes'
<1>1. desc' \in Descs
  <2>0. desc \in Descs /\ NoDesc \in Descs
    BY Moments DEF HibTypes
  <2>1. CASE Look
    <3>1. Described \subseteq VmStates /\ hnow \in Int
      BY DEF Described, Vms, VmStates, HibTypes
    <3> QED
      BY <2>0, <2>1, <3>1, LookIs DEF Descs
  <2>2. CASE Step \/ AskAgent \/ Judge \/ TryPark \/ StopAnswered \/ ParkReturns \/ SettlePark
    BY <2>0, <2>2, StepIs, AskIs, JudgeIs, TryIs, AnsweredIs, ReturnsIs, SettleIs
  <2>3. CASE AgentComesUp \/ GuestFreezes \/ StopCompletes \/ StopsByItself \/ WarmingTerminal
             \/ ClaimProbe \/ ResumeStart \/ ResumeWait \/ ReapBegins \/ ReapTerminates
             \/ ReapForgets \/ Tick
    BY <2>0, <2>3 DEF AgentComesUp, GuestFreezes, StopCompletes, StopsByItself, WarmingTerminal,
       ClaimProbe,
       ResumeStart, ResumeWait, ReapBegins, ReapTerminates, ReapForgets, Forget, Tick
  <2> QED
    BY <2>1, <2>2, <2>3 DEF HibNext
<1>2. gone' \in BOOLEAN /\ slot' \in {"warming", "ready", "leased", "dead"}
      /\ cl' \in {"idle", "start", "wait"} /\ rp' \in {"idle", "terminate", "forget", "done"}
  <2> USE DEF HibTypes
  <2>1. CASE \/ Look \/ Step \/ AskAgent \/ Judge \/ TryPark \/ StopAnswered \/ ParkReturns
             \/ SettlePark
    BY <2>1, LookIs, StepIs, AskIs, JudgeIs, TryIs, AnsweredIs, ReturnsIs, SettleIs
       DEF Concludes, Beside
  <2>2. CASE AgentComesUp \/ GuestFreezes \/ StopCompletes \/ StopsByItself \/ WarmingTerminal
             \/ ClaimProbe \/ ResumeStart \/ ResumeWait \/ ReapBegins \/ ReapTerminates
             \/ ReapForgets \/ Tick
    BY <2>2 DEF AgentComesUp, GuestFreezes, StopCompletes, StopsByItself, WarmingTerminal,
       ClaimProbe,
       ResumeStart, ResumeWait, ReapBegins, ReapTerminates, ReapForgets, Tick
  <2> QED
    BY <2>1, <2>2 DEF HibNext
<1>4. asked' \in Int
  <2>0. asked \in Int /\ hnow \in Int /\ Never \in Int
    BY DEF HibTypes, Never
  <2>1. CASE Look \/ Step \/ AskAgent \/ Judge \/ TryPark
    BY <2>0, <2>1, LookIs, StepIs, AskIs, JudgeIs, TryIs
  <2>2. CASE StopAnswered \/ ParkReturns \/ SettlePark
    BY <2>0, <2>2, AnsweredIs, ReturnsIs, SettleIs
  <2>3. CASE AgentComesUp \/ GuestFreezes \/ StopCompletes \/ StopsByItself \/ WarmingTerminal
             \/ ClaimProbe \/ ResumeStart \/ ResumeWait \/ ReapBegins \/ ReapTerminates
             \/ ReapForgets \/ Tick
    BY <2>0, <2>3 DEF AgentComesUp, GuestFreezes, StopCompletes, StopsByItself, WarmingTerminal,
       ClaimProbe,
       ResumeStart, ResumeWait, ReapBegins, ReapTerminates, ReapForgets, Forget, Tick
  <2> QED
    BY <2>1, <2>2, <2>3 DEF HibNext
<1>3. hnow' \in Nat /\ charged' \in Nat
  <2>1. CASE Tick
    BY <2>1 DEF Tick, HibTypes
  <2> QED
    BY <2>1, ClockKeeps DEF ClockKept, HibTypes
<1> QED
  BY <1>1, <1>2, <1>3, <1>4, ParkTyped, VmTyped, UpTyped DEF HibTypes

\* A silence is noted, and nothing else.
LEMMA SilenceIs ==
  ASSUME HibTypes, NEW t \in Nat, park' = Freeze(park, t, FALSE)
  PROVE  /\ park'.phase = park.phase /\ park'.hib = park.hib /\ park'.since = park.since
         /\ park'.credit = park.credit /\ park'.attempted = park.attempted
         /\ park'.refused = park.refused
         /\ park'.unknown = (IF park.unknown = Never THEN t ELSE park.unknown)
<1>1. park \in Parks
  BY DEF HibTypes
<1>2. park'.attempted = park.attempted
  BY <1>1, FreezesIs, Zenon
<1>3. /\ park'.phase = park.phase /\ park'.hib = park.hib /\ park'.since = park.since
      /\ park'.credit = park.credit /\ park'.refused = park.refused
      /\ park'.unknown = (IF park.unknown = Never THEN t ELSE park.unknown)
  BY <1>1, FreezesIs
<1> QED
  BY <1>2, <1>3

\* What the three outcomes of a step do to the slot's tables, field by field.
LEMMA StoppingIs ==
  ASSUME HibTypes,
         park' = Thaw(StartClock([park EXCEPT !.phase = "hibernating",
                                    !.hib = IF @ = Never THEN up.t ELSE @],
                                 IF park.attempted /\ park.unknown # Never
                                 THEN park.unknown ELSE up.t), up.t)
  PROVE  /\ park'.phase = "hibernating" /\ park'.unknown = Never
         /\ park'.hib = (IF park.hib = Never THEN up.t ELSE park.hib)
         /\ park'.attempted = park.attempted /\ park'.refused = park.refused
         /\ park'.since = (IF park.since # Never THEN park.since
                           ELSE IF park.attempted /\ park.unknown # Never THEN park.unknown
                           ELSE up.t)
         /\ park'.credit = (IF park.unknown # Never
                            THEN park.credit + Later(0, up.t - Later(park.unknown, park'.since))
                            ELSE park.credit)
<1> DEFINE h == IF park.hib = Never THEN up.t ELSE park.hib
           q == [park EXCEPT !.phase = "hibernating", !.hib = h]
           d == IF park.attempted /\ park.unknown # Never THEN park.unknown ELSE up.t
<1>0. park \in Parks /\ up.t \in Nat
  BY DEF HibTypes, Ups
<1>1. h \in Int /\ d \in Int /\ d # Never /\ Never \in Int
  BY <1>0 DEF Parks, Never
<1>2. /\ q \in Parks /\ q.phase = "hibernating" /\ q.hib = h /\ q.since = park.since
      /\ q.unknown = park.unknown /\ q.credit = park.credit /\ q.attempted = park.attempted
      /\ q.refused = park.refused
  <2> HIDE DEF h
  <2> QED
    BY <1>0, <1>1, Zenon DEF Parks
<1>3. park' = Thaw(StartClock(q, d), up.t)
  OBVIOUS
<1> DEFINE s == StartClock(q, d)
<1>4. /\ s \in Parks /\ s.phase = "hibernating" /\ s.hib = h
      /\ s.since = (IF park.since = Never THEN d ELSE park.since)
      /\ s.unknown = park.unknown /\ s.credit = park.credit /\ s.attempted = park.attempted
      /\ s.refused = park.refused
  <2> HIDE DEF h, q, d
  <2> QED
    BY <1>1, <1>2, StartClockIs
<1>5. s.since # Never
  BY <1>1, <1>4
<1>6. park' = Thaw(s, up.t)
  BY <1>3
<1> HIDE DEF s
<1>7. /\ park'.phase = "hibernating" /\ park'.unknown = Never /\ park'.hib = h
      /\ park'.attempted = park.attempted /\ park'.refused = park.refused
      /\ park'.since = (IF park.since = Never THEN d ELSE park.since)
      /\ park'.credit = (IF park.unknown # Never
                         THEN park.credit + Later(0, up.t - Later(park.unknown, park'.since))
                         ELSE park.credit)
  <2> HIDE DEF h, d
  <2> QED
    BY <1>0, <1>4, <1>5, <1>6, ThawIs
<1> QED
  BY <1>7

LEMMA RunningIs ==
  ASSUME HibTypes,
         park' = StartClock([park EXCEPT !.phase = "warming", !.hib = Never], up.t)
  PROVE  /\ park'.phase = "warming" /\ park'.hib = Never /\ park'.unknown = park.unknown
         /\ park'.since = (IF park.since = Never THEN up.t ELSE park.since)
         /\ park'.credit = park.credit /\ park'.attempted = park.attempted
         /\ park'.refused = park.refused
<1> DEFINE q == [park EXCEPT !.phase = "warming", !.hib = Never]
<1>0. park \in Parks /\ up.t \in Int
  BY DEF HibTypes, Ups
<1>1. Never \in Int
  BY DEF Never
<1>2. /\ q \in Parks /\ q.phase = "warming" /\ q.hib = Never /\ q.since = park.since
      /\ q.unknown = park.unknown /\ q.credit = park.credit /\ q.attempted = park.attempted
      /\ q.refused = park.refused
  BY <1>0, <1>1, Zenon DEF Parks
<1> HIDE DEF q
<1>3. park' = StartClock(q, up.t)
  BY DEF q
<1> QED
  BY <1>0, <1>2, <1>3, StartClockIs

LEMMA AdoptedIs ==
  ASSUME park' = [NoPark EXCEPT !.phase = "parked"]
  PROVE  /\ park'.phase = "parked" /\ park'.hib = Never /\ park'.since = Never
         /\ park'.unknown = Never
BY DEF NoPark

LEMMA SettledIs ==
  ASSUME HibTypes, SettlePark, ~gone
  PROVE  /\ park' \in Parks /\ park'.phase = park.phase /\ park'.hib = park.hib
         /\ \/ up.out = "skip" /\ park' = park
            \/ /\ up.out \in {"notexecuted", "noverdict"}
               /\ park'.unknown = (IF park.unknown = Never THEN hnow ELSE park.unknown)
               /\ park'.since = park.since /\ park'.credit = park.credit
               /\ up.out = "notexecuted" =>
                    park'.attempted = park.attempted /\ park'.refused = park.refused
            \/ /\ up.out \in {"ok", "refused"}
               /\ park'.unknown = Never /\ park'.attempted = park.attempted
               /\ park'.refused = (up.out = "refused")
               /\ LET since == IF park.unknown # Never /\ park.attempted /\ park.since = Never
                               THEN park.unknown ELSE park.since
                  IN  /\ park'.since = (IF since = Never THEN hnow ELSE since)
                      /\ park'.credit =
                           (IF park.unknown # Never /\ since # Never
                            THEN park.credit + Later(0, hnow - Later(park.unknown, since))
                            ELSE park.credit)
<1>0. park \in Parks /\ hnow \in Nat
  BY DEF HibTypes
<1>t. park' \in Parks
  BY ParkTyped DEF HibNext
<1>1. CASE up.out = "skip"
  BY <1>1, <1>t, SettleIs
<1>2. CASE up.out = "notexecuted"
  <2>1. park' = Freeze(park, hnow, FALSE)
    BY <1>2, SettleIs
  <2>2. /\ park'.phase = park.phase /\ park'.hib = park.hib /\ park'.since = park.since
        /\ park'.credit = park.credit /\ park'.attempted = park.attempted
        /\ park'.refused = park.refused
        /\ park'.unknown = (IF park.unknown = Never THEN hnow ELSE park.unknown)
    BY <1>0, <2>1, SilenceIs, Zenon
  <2> QED
    BY <1>2, <1>t, <2>2
<1>3. CASE up.out = "noverdict"
  <2> DEFINE q == [park EXCEPT !.refused = FALSE]
  <2>1. /\ q \in Parks /\ q.phase = park.phase /\ q.hib = park.hib /\ q.since = park.since
        /\ q.unknown = park.unknown /\ q.credit = park.credit
    BY <1>0 DEF Parks
  <2>2. park' = Freeze(q, hnow, TRUE)
    BY <1>3, SettleIs
  <2> HIDE DEF q
  <2>3. /\ park'.phase = q.phase /\ park'.hib = q.hib /\ park'.since = q.since
        /\ park'.credit = q.credit
        /\ park'.unknown = (IF q.unknown = Never THEN hnow ELSE q.unknown)
    BY <1>0, <2>1, <2>2, FreezesIs
  <2> QED
    BY <1>3, <1>t, <2>1, <2>3
<1>4. CASE up.out \in {"ok", "refused"}
  <2> DEFINE q == Thaw(park, hnow)
             s == StartClock(q, hnow)
  <2>1. park' = [s EXCEPT !.refused = (up.out = "refused")]
    BY <1>4, SettleIs
  <2>2. /\ q \in Parks /\ q.phase = park.phase /\ q.hib = park.hib /\ q.unknown = Never
        /\ q.attempted = park.attempted
        /\ q.since = (IF park.unknown # Never /\ park.attempted /\ park.since = Never
                      THEN park.unknown ELSE park.since)
        /\ q.credit = (IF park.unknown # Never /\ q.since # Never
                       THEN park.credit + Later(0, hnow - Later(park.unknown, q.since))
                       ELSE park.credit)
    BY <1>0, ThawIs
  <2> HIDE DEF q
  <2>3. /\ s \in Parks /\ s.phase = q.phase /\ s.hib = q.hib /\ s.unknown = q.unknown
        /\ s.attempted = q.attempted /\ s.credit = q.credit
        /\ s.since = (IF q.since = Never THEN hnow ELSE q.since)
    BY <1>0, <2>2, StartClockIs
  <2> HIDE DEF s
  <2>4. /\ park'.phase = s.phase /\ park'.hib = s.hib /\ park'.unknown = s.unknown
        /\ park'.attempted = s.attempted /\ park'.credit = s.credit /\ park'.since = s.since
        /\ park'.refused = (up.out = "refused")
    BY <2>1, <2>3 DEF Parks
  <2> QED
    BY <1>4, <1>t, <2>2, <2>3, <2>4
<1> QED
  BY <1>1, <1>2, <1>3, <1>4, SettleIs

\* Who is where.
LEMMA OrderKept ==
  ASSUME HibTypes, HibOrder, HibNext
  PROVE  HibOrder'
<1> USE DEF HibOrder
<1>h. hnow \in Nat
  BY DEF HibTypes
<1>1. CASE Look
  BY <1>h, <1>1, LookIs DEF Beside
<1>2. CASE Step
  <2>1. (up' = Resting \/ up' = [up EXCEPT !.pc = "probe"]) /\ up'.t <= hnow
    BY <1>2, StepIs DEF Concludes, HibTypes, Ups, Resting
  <2> QED
    BY <1>2, <2>1, StepIs, Moments DEF Beside, Concludes
<1>3. CASE AskAgent
  BY <1>3, AskIs, Moments DEF Beside
<1>4. CASE Judge
  <2>1. up' = Resting \/ (up' = [up EXCEPT !.pc = "park"] /\ up'.t = up.t)
    BY <1>4, JudgeIs DEF Concludes, HibTypes, Ups
  <2>2. up.pc = "judge" /\ cl' = cl /\ rp' = rp /\ gone' = gone /\ hnow' = hnow
        /\ slot' \in {slot, "dead"}
    BY <1>4, JudgeIs DEF Beside, Concludes
  <2> QED
    BY <2>1, <2>2, Moments
<1>5. CASE TryPark \/ StopAnswered
  BY <1>5, TryIs, AnsweredIs DEF Beside
<1>6. CASE ParkReturns
  BY <1>6, ReturnsIs DEF Beside
<1>7. CASE SettlePark
  BY <1>7, SettleIs, Moments DEF Beside, Concludes
<1>8. CASE ResumeStart
  BY <1>8 DEF ResumeStart, SetPark, HibTypes, Parks
<1>9. CASE ClaimProbe \/ WarmingTerminal \/ ResumeWait \/ ReapBegins \/ ReapTerminates \/ ReapForgets
  BY <1>9 DEF ClaimProbe, WarmingTerminal, ResumeWait, ReapBegins, ReapTerminates, ReapForgets,
     Forget, SetPark, NoPark, ParkSettled, Upkeeping
<1>10. CASE Tick
  BY <1>h, <1>10 DEF Tick, HibTypes, Ups
<1>11. CASE AgentComesUp \/ GuestFreezes \/ StopCompletes \/ StopsByItself
  BY <1>11 DEF AgentComesUp, GuestFreezes, StopCompletes, StopsByItself
<1> QED
  BY <1>1, <1>2, <1>3, <1>4, <1>5, <1>6, <1>7, <1>8, <1>9, <1>10, <1>11 DEF HibNext

\* The instance, the cached description and the tables.
LEMMA VmKept ==
  ASSUME HibTypes, HibOrder, VmInv, HibNext
  PROVE  VmInv'
<1> USE DEF VmInv
<1>0. vm \in Vms /\ hnow \in Nat
  BY DEF HibTypes
<1>1. CASE Look
  BY <1>1, LookIs DEF Beside
<1>2. CASE Step
  BY <1>2, StepIs, Moments DEF Beside, Concludes, HibTypes, Ups
<1>3. CASE AskAgent
  BY <1>3, AskIs, Moments DEF Beside
<1>4. CASE Judge
  BY <1>4, JudgeIs, Moments DEF Beside, Concludes, HibTypes, Ups
<1>5. CASE StopAnswered
  <2>1. vm.st = "running" => /\ Stopped.st = "stopping" /\ Stopped.ours /\ Stopped.agent = vm.agent
                             /\ Stopped.at = hnow
    BY <1>0 DEF Stopped, Vms
  <2> QED
    BY <1>0, <1>5, <2>1, AnsweredIs DEF Beside
<1>6. CASE TryPark \/ ParkReturns
  BY <1>6, TryIs, ReturnsIs DEF Beside
<1>7. CASE SettlePark
  BY <1>7, SettleIs, Moments DEF Beside, Concludes
<1>8. CASE ResumeStart \/ ResumeWait \/ ReapTerminates
  BY <1>0, <1>8 DEF ResumeStart, ResumeWait, ReapTerminates, HibOrder
<1>9. CASE ClaimProbe \/ WarmingTerminal \/ ReapBegins \/ ReapForgets
  BY <1>9 DEF ClaimProbe, WarmingTerminal, ReapBegins, ReapForgets
<1>10. CASE Tick
  BY <1>0, <1>10 DEF Tick, Vms
<1>11. CASE AgentComesUp \/ GuestFreezes \/ StopCompletes \/ StopsByItself
  BY <1>0, <1>11 DEF AgentComesUp, GuestFreezes, StopCompletes, StopsByItself, Vms
<1> QED
  BY <1>1, <1>2, <1>3, <1>4, <1>5, <1>6, <1>7, <1>8, <1>9, <1>10, <1>11 DEF HibNext

LEMMA DescKept ==
  ASSUME HibTypes, HibOrder, VmInv, DescInv, HibNext
  PROVE  DescInv'
<1> USE DEF DescInv
<1>0. vm \in Vms /\ hnow \in Nat /\ NoDesc.st = "none"
  BY Moments DEF HibTypes, Descs
<1>1. CASE Look
  <2>1. \A st \in Described : st = "stopped" => vm.st = "stopped"
    BY DEF Described
  <2> QED
    BY <1>0, <1>1, <2>1, LookIs DEF Beside
<1>2. CASE Step
  BY <1>0, <1>2, StepIs, Moments DEF Beside, Concludes, HibTypes, Ups, HibOrder
<1>3. CASE AskAgent
  BY <1>3, AskIs, Moments DEF Beside, HibOrder
<1>4. CASE Judge
  BY <1>0, <1>4, JudgeIs, Moments DEF Beside, Concludes, HibTypes, Ups, HibOrder
<1>5. CASE StopAnswered
  <2>1. vm.st = "running" => Stopped.st = "stopping"
    BY <1>0 DEF Stopped, Vms
  <2> QED
    BY <1>0, <1>5, <2>1, AnsweredIs DEF Beside, HibOrder
<1>6. CASE TryPark \/ ParkReturns
  BY <1>0, <1>6, TryIs, ReturnsIs DEF Beside, HibOrder
<1>7. CASE SettlePark
  BY <1>0, <1>7, SettleIs, Moments DEF Beside, Concludes, HibOrder
<1>8. CASE ResumeStart \/ ResumeWait \/ ReapTerminates
  BY <1>0, <1>8 DEF ResumeStart, ResumeWait, ReapTerminates, HibOrder
<1>9. CASE ClaimProbe \/ WarmingTerminal \/ ReapBegins \/ ReapForgets
  BY <1>0, <1>9 DEF ClaimProbe, WarmingTerminal, ReapBegins, ReapForgets, Forget
<1>10. CASE Tick
  BY <1>0, <1>10 DEF Tick
<1>11. CASE AgentComesUp \/ GuestFreezes \/ StopCompletes \/ StopsByItself
  BY <1>0, <1>11 DEF AgentComesUp, GuestFreezes, StopCompletes, StopsByItself, Vms
<1> QED
  BY <1>1, <1>2, <1>3, <1>4, <1>5, <1>6, <1>7, <1>8, <1>9, <1>10, <1>11 DEF HibNext

LEMMA ParkKept ==
  ASSUME HibTypes, HibOrder, ParkInv, HibNext
  PROVE  ParkInv'
<1> USE DEF ParkInv
<1>0. park \in Parks /\ hnow \in Nat /\ up.t \in Nat /\ park.hib \in Int /\ Never \in Int /\ Never < 0
  BY DEF HibTypes, Ups, Parks, Never
<1>s. Silenced => park'.phase = park.phase /\ park'.hib = park.hib
  BY <1>0, FreezesIs DEF Silenced
<1>n. NoPark.phase = "warming" /\ NoPark.hib = Never /\ Resting.pc = "idle"
  BY Moments
<1>1. CASE Look
  BY <1>0, <1>s, <1>1, LookIs DEF Beside
<1>2. CASE Step
  <2>1. hnow' = hnow /\ up.t <= hnow
    BY <1>2, StepIs DEF Beside, HibOrder
  <2>2. CASE up' = [up EXCEPT !.pc = "probe"] /\ park' = park /\ park.phase = "warming"
    BY <1>0, <2>1, <2>2
  <2>3. CASE up' = Resting /\ park' = NoPark
    BY <1>0, <1>n, <2>1, <2>3
  <2>4. CASE up' = Resting /\ park' = park
    BY <1>0, <1>n, <2>1, <2>4
  <2>5. CASE up' = Resting /\ park' = [NoPark EXCEPT !.phase = "parked"]
    BY <1>0, <1>n, <2>1, <2>5, AdoptedIs
  <2>6. CASE up' = Resting /\ park'.phase = "hibernating"
             /\ park'.hib = (IF park.hib = Never THEN up.t ELSE park.hib)
    BY <1>0, <1>n, <2>1, <2>6
  <2>7. CASE up' = Resting /\ park'.phase = "warming" /\ park'.hib = Never
    BY <1>0, <1>n, <2>1, <2>7
  <2> QED
    BY <1>2, <2>2, <2>3, <2>4, <2>5, <2>6, <2>7, StepIs, StoppingIs, RunningIs DEF Concludes
<1>3. CASE AskAgent
  BY <1>0, <1>s, <1>n, <1>3, AskIs DEF Beside
<1>4. CASE Judge
  <2>1. park' = NoPark \/ (park'.phase = park.phase /\ park'.hib = park.hib)
    <3>1. CASE park' = Freeze(park, up.t, FALSE)
      BY <1>0, <3>1, FreezesIs
    <3>2. CASE park' = Thaw(park, up.t)
      BY <1>0, <3>2, ThawIs
    <3> QED
      BY <1>4, <3>1, <3>2, JudgeIs
  <2>2. up' = Resting \/ park' = park
    BY <1>4, JudgeIs DEF Concludes
  <2> QED
    BY <1>0, <1>n, <1>4, <2>1, <2>2, JudgeIs DEF Beside
<1>5. CASE TryPark \/ StopAnswered
  BY <1>5, TryIs, AnsweredIs DEF Beside
<1>6. CASE ParkReturns
  <2>1. park' = park \/ (park'.phase = "hibernating" /\ park'.hib = hnow)
    BY <1>0, <1>6, ReturnsIs DEF Parks
  <2>2. up'.pc = "settle" /\ hnow' = hnow
    BY <1>6, ReturnsIs DEF Beside
  <2> QED
    BY <1>0, <2>1, <2>2
<1>7. CASE SettlePark
  <2>1. park' = NoPark \/ (park'.phase = park.phase /\ park'.hib = park.hib)
    BY <1>7, SettleIs, SettledIs
  <2>2. up' = Resting /\ hnow' = hnow
    BY <1>7, SettleIs DEF Beside, Concludes
  <2> QED
    BY <1>0, <1>n, <2>1, <2>2
<1>8. CASE ResumeStart
  BY <1>0, <1>8 DEF ResumeStart, HibOrder, SetPark, Parks
<1>9. CASE ClaimProbe \/ WarmingTerminal \/ ReapBegins \/ ReapForgets \/ ResumeWait \/ ReapTerminates
  BY <1>0, <1>n, <1>9 DEF ClaimProbe, WarmingTerminal, ReapBegins, ReapForgets, Forget, ResumeWait,
     ReapTerminates, SetPark
<1>10. CASE Tick
  BY <1>0, <1>10 DEF Tick
<1>11. CASE AgentComesUp \/ GuestFreezes \/ StopCompletes \/ StopsByItself
  BY <1>11 DEF AgentComesUp, GuestFreezes, StopCompletes, StopsByItself
<1> QED
  BY <1>1, <1>2, <1>3, <1>4, <1>5, <1>6, <1>7, <1>8, <1>9, <1>10, <1>11 DEF HibNext

\* An instance that is falling asleep is neither leased nor about to be.
LEMMA SleepKept ==
  ASSUME Lag \in Nat, CacheTime \in Nat, Lag <= CacheTime,
         HibTypes, HibOrder, VmInv, DescInv, ParkInv, SleepInv, HibNext
  PROVE  SleepInv'
<1> USE DEF SleepInv, FallsAsleep, Told
<1>0. /\ vm \in Vms /\ park \in Parks /\ hnow \in Nat /\ up.t \in Nat /\ park.hib \in Int
      /\ desc.at \in Int /\ park.unknown \in Int /\ vm.at \in Int /\ up \in Ups
      /\ asked \in Int
  BY DEF HibTypes, Ups, Parks, Descs, Vms
<1>m. /\ Never \in Int /\ Never < 0 /\ Resting.pc = "idle" /\ Resting.st = "none"
      /\ NoDesc.st = "none"
  BY Moments
<1>s. ASSUME Silenced
      PROVE  /\ park'.phase = park.phase /\ park'.hib = park.hib
             /\ park.unknown # Never => park'.unknown # Never
  BY <1>0, <1>m, <1>s, FreezesIs DEF Silenced
<1>1. CASE Look
  <2>1. UNCHANGED <<vm, slot, cl, hnow, asked>> /\ up.pc = "idle"
    BY <1>1, LookIs DEF Beside
  <2>2. CASE up' = up /\ desc' = desc /\ Silenced
    BY <1>0, <1>m, <1>s, <2>1, <2>2
  <2>3. CASE up'.pc = "step" /\ up'.t = hnow /\ park' = park
    BY <1>0, <1>m, <2>1, <2>3 DEF VmInv
  <2> QED
    BY <1>1, <2>2, <2>3, LookIs
<1>2. CASE Step
  <2>1. UNCHANGED <<vm, cl, hnow>> /\ up.pc = "step" /\ up.t <= hnow /\ (~gone => asked' = asked)
    BY <1>2, StepIs DEF Beside, HibOrder
  <2>2. CASE ~gone /\ up' = [up EXCEPT !.pc = "probe"] /\ UNCHANGED <<slot, park, desc>>
    BY <1>0, <2>1, <2>2 DEF Ups
  <2>3. CASE gone
    BY <2>1, <2>3, <1>2, StepIs DEF HibOrder, Concludes
  <2>r. ASSUME ~gone, up' = Resting, slot' \in {slot, "dead"},
               FallsAsleep => /\ park'.phase = "hibernating" \/ park'.unknown # Never \/ Told
                              /\ park'.hib # Never => vm.at <= park'.hib
        PROVE  SleepInv'
    BY <1>0, <1>m, <2>1, <2>r DEF HibOrder
  <2>4. CASE ~gone /\ Concludes(FALSE) /\ UNCHANGED <<park, desc>>
    BY <2>1, <2>r, <2>4 DEF Concludes
  <2>5. CASE ~gone /\ Concludes(TRUE) /\ up.st = "stopped"
    BY <2>1, <2>5 DEF Concludes, DescInv
  <2>6. CASE /\ ~gone /\ Concludes(FALSE) /\ desc' = desc /\ up.st = "stopping"
             /\ park'.phase = "hibernating"
             /\ park'.hib = (IF park.hib = Never THEN up.t ELSE park.hib)
    BY <1>0, <2>1, <2>r, <2>6 DEF Concludes
  <2>7. CASE /\ ~gone /\ Concludes(FALSE) /\ desc' = desc /\ up.st = "running"
             /\ ~(park.phase = "hibernating" /\ park.hib # Never /\ up.t - park.hib < CacheTime)
             /\ park'.hib = Never /\ park'.unknown = park.unknown
    <3>1. FallsAsleep /\ park.phase = "hibernating" => Told
      BY <1>0, <1>m, <2>1, <2>7 DEF ParkInv
    <3> QED
      BY <1>0, <2>1, <2>r, <2>7, <3>1 DEF Concludes
  <2> QED
    BY <1>2, <2>2, <2>3, <2>4, <2>5, <2>6, <2>7, StepIs, StoppingIs, RunningIs
<1>3. CASE AskAgent
  <2>1. UNCHANGED <<vm, slot, desc, cl, hnow, asked>> /\ up.pc = "probe"
    BY <1>3, AskIs DEF Beside
  <2>2. CASE up'.pc = "judge" /\ park' = park /\ (up'.out = "no" => ~vm.agent)
    BY <1>0, <2>1, <2>2
  <2>3. CASE up' = Resting /\ Silenced
    BY <1>0, <1>m, <1>s, <2>1, <2>3
  <2> QED
    BY <1>3, <2>2, <2>3, AskIs
<1>4. CASE Judge
  <2>1. UNCHANGED <<vm, cl, hnow>> /\ up.pc = "judge" /\ (~gone => asked' = asked)
    BY <1>4, JudgeIs DEF Beside
  <2>2. CASE gone
    BY <2>1, <2>2, <1>4, JudgeIs DEF HibOrder, Concludes
  <2>3. CASE ~gone /\ Concludes(FALSE) /\ desc' = desc /\ up.out = "none"
             /\ park' = Freeze(park, up.t, FALSE)
    <3>1. /\ park'.phase = park.phase /\ park'.hib = park.hib
          /\ park.unknown # Never => park'.unknown # Never
      BY <1>0, <2>3, FreezesIs
    <3> QED
      BY <1>0, <1>m, <2>1, <2>3, <3>1 DEF Concludes
  <2>4. CASE Concludes(FALSE) /\ up.out = "no"
    BY <2>1, <2>4 DEF Concludes
  <2>5. CASE ~gone /\ up' = [up EXCEPT !.pc = "park"] /\ UNCHANGED <<desc, park, slot>>
    BY <1>0, <2>1, <2>5 DEF Ups
  <2> QED
    BY <1>4, <2>2, <2>3, <2>4, <2>5, JudgeIs
<1>5. CASE TryPark
  <2>1. up.pc = "park" /\ Beside /\ UNCHANGED <<vm, slot, desc, park>>
    BY <1>5, TryIs
  <2>2. CASE up'.pc = "settle" /\ up'.out = "skip" /\ asked' = asked
    BY <1>0, <2>1, <2>2 DEF Beside
  \* The last stop is so old that the descriptions say what it did.
  <2>3. CASE ~Throttled /\ up'.pc = "sent" /\ asked' = hnow
    <3>1. FallsAsleep => 0 <= vm.at /\ vm.at <= asked /\ vm.at <= hnow
      BY <2>1 DEF VmInv
    <3>2. FallsAsleep => Told
      BY <1>0, <1>m, <2>3, <3>1 DEF Throttled
    <3> QED
      BY <1>0, <2>1, <2>3, <3>1, <3>2 DEF Beside
  <2> QED
    BY <1>5, <2>2, <2>3, TryIs
<1>6. CASE StopAnswered
  <2>1. up.pc = "sent" /\ Beside /\ UNCHANGED <<slot, desc, park, asked>> /\ up'.pc = "answered"
    BY <1>6, AnsweredIs
  <2>2. CASE vm' = vm
    BY <1>0, <2>1, <2>2 DEF Beside
  <2>3. CASE vm.st = "running" /\ vm' = Stopped /\ up'.out \in {"ok", "noverdict"}
    <3>1. park.phase = "warming" /\ park.hib = Never
      BY <2>1 DEF ParkInv
    <3> QED
      BY <1>0, <2>1, <2>3, <3>1 DEF Beside, HibOrder
  <2> QED
    BY <1>6, <2>2, <2>3, AnsweredIs
<1>13. CASE ParkReturns
  <2>1. /\ UNCHANGED <<vm, slot>> /\ Beside /\ up.pc = "answered" /\ up'.pc = "settle"
        /\ ~gone => asked' = hnow /\ up'.out = up.out
    BY <1>13, ReturnsIs
  <2>2. CASE gone
    BY <2>1, <2>2 DEF HibOrder
  <2>3. CASE ~gone /\ up.out # "ok" /\ park' = park
    BY <1>0, <2>1, <2>3 DEF Beside, VmInv
  <2>4. CASE ~gone /\ up.out = "ok" /\ park'.phase = "hibernating" /\ park'.hib = hnow
    BY <1>0, <1>m, <2>1, <2>4 DEF Beside, VmInv
  <2> QED
    BY <1>0, <1>13, <2>2, <2>3, <2>4, ReturnsIs DEF Parks
<1>7. CASE SettlePark
  <2>1. UNCHANGED vm /\ Beside /\ up.pc = "settle" /\ up' = Resting /\ slot' \in {slot, "dead"}
    BY <1>7, SettleIs DEF Concludes
  <2>2. CASE gone
    BY <2>1, <2>2 DEF HibOrder
  <2>3. CASE ~gone
    <3>1. asked' = asked
      BY <1>7, <2>3, SettleIs
    <3>2. /\ park'.hib = park.hib /\ park'.phase = park.phase
          /\ \/ up.out = "skip" /\ park' = park
             \/ up.out \in {"ok", "refused"}
             \/ park'.unknown = (IF park.unknown = Never THEN hnow ELSE park.unknown)
      BY <1>7, <2>3, SettledIs
    <3> QED
      BY <1>0, <1>m, <2>1, <3>1, <3>2 DEF Beside
  <2> QED
    BY <2>2, <2>3
<1>8. CASE ClaimProbe
  <2>1. FallsAsleep => Told
    BY <1>8 DEF ClaimProbe, ParkSettled
  <2>2. FallsAsleep => Described = {"stopping"}
    BY <1>0, <2>1 DEF Described
  <2> QED
    BY <1>8, <2>2 DEF ClaimProbe
<1>9. CASE ResumeStart \/ ResumeWait
  BY <1>0, <1>9 DEF ResumeStart, ResumeWait, HibOrder
<1>10. CASE ReapBegins \/ ReapTerminates \/ ReapForgets \/ WarmingTerminal
  BY <1>10 DEF ReapBegins, ReapTerminates, ReapForgets, WarmingTerminal, HibOrder
<1>11. CASE Tick
  BY <1>0, <1>11 DEF Tick
<1>12. CASE AgentComesUp \/ GuestFreezes \/ StopCompletes \/ StopsByItself
  BY <1>0, <1>12 DEF AgentComesUp, GuestFreezes, StopCompletes, StopsByItself, Vms
<1> QED
  BY <1>1, <1>2, <1>3, <1>4, <1>5, <1>6, <1>7, <1>8, <1>9, <1>10, <1>11, <1>12, <1>13
  DEF HibNext

\* A job runs on a slot only once the slot's park is settled and the instance up: a stop that
\* was sent, or may have been, is over before the claim that finds the slot.
LEMMA LeasedKept ==
  ASSUME HibTypes, HibOrder, VmInv, SleepInv, LeasedNotStopped, HibNext
  PROVE  LeasedNotStopped'
<1> USE DEF LeasedNotStopped
<1>0. vm \in Vms
  BY DEF HibTypes
<1>1. CASE \/ Look \/ Step \/ AskAgent \/ Judge \/ TryPark \/ StopAnswered \/ ParkReturns
           \/ SettlePark
  <2>1. slot # "leased" /\ slot' # "leased"
    BY <1>1, LookIs, StepIs, AskIs, JudgeIs, TryIs, AnsweredIs, ReturnsIs, SettleIs
       DEF HibOrder, Concludes
  <2> QED
    BY <2>1
<1>2. CASE ResumeWait
  BY <1>0, <1>2 DEF ResumeWait, VmInv, SleepInv, FallsAsleep
<1>3. CASE ResumeStart
  BY <1>0, <1>3 DEF ResumeStart, HibOrder
<1>4. CASE AgentComesUp \/ GuestFreezes \/ StopCompletes \/ StopsByItself
  BY <1>0, <1>4 DEF AgentComesUp, GuestFreezes, StopCompletes, StopsByItself, Vms
<1>5. CASE Tick \/ WarmingTerminal \/ ClaimProbe \/ ReapBegins \/ ReapTerminates \/ ReapForgets
  BY <1>5 DEF Tick, WarmingTerminal, ClaimProbe, ReapBegins, ReapTerminates, ReapForgets
<1> QED
  BY <1>1, <1>2, <1>3, <1>4, <1>5 DEF HibNext

\* The initial states, and the invariant behind the claim.
LEMMA HibStart ==
  HibInit => HibTypes /\ HibOrder /\ VmInv /\ DescInv /\ ParkInv /\ SleepInv /\ LeasedNotStopped
<1> SUFFICES ASSUME HibInit PROVE HibTypes /\ HibOrder /\ VmInv /\ DescInv /\ ParkInv /\ SleepInv
                                  /\ LeasedNotStopped
  OBVIOUS
<1>1. HibTypes
  BY Moments DEF HibInit, HibTypes, Vms, VmStates
<1>2. HibOrder /\ VmInv
  BY Moments DEF HibInit, HibOrder, VmInv
<1>3. DescInv /\ ParkInv
  BY Moments DEF HibInit, DescInv, ParkInv
<1> QED
  BY <1>1, <1>2, <1>3 DEF HibInit, SleepInv, FallsAsleep, LeasedNotStopped

LEMMA LeaseStep ==
  ASSUME Lag \in Nat, CacheTime \in Nat, Lag <= CacheTime, LeaseInv, [HibNext]_hibVars
  PROVE  LeaseInv'
<1> USE DEF LeaseInv
<1>1. CASE HibNext
  BY <1>1, HibTyped, OrderKept, VmKept, DescKept, ParkKept, SleepKept, LeasedKept
<1>2. CASE UNCHANGED hibVars
  BY <1>2 DEF hibVars, HibTypes, HibOrder, VmInv, DescInv, ParkInv, SleepInv, FallsAsleep,
     Told, LeasedNotStopped
<1> QED
  BY <1>1, <1>2

\* A job never runs on an instance that is about to hibernate under it, whatever the stop request
\* of _try_park did without being answered, whatever a retry of it is answered, and wherever a claim
\* (is_alive_for_claim, resume) or a reap comes in: for any timeouts and any number of ticks, as
\* long as no description is stale for longer than _liveness_cache_s.
THEOREM LeasedStayUp ==
  ASSUME Lag \in Nat, CacheTime \in Nat, Lag <= CacheTime
  PROVE  HibSpec => []LeasedNotStopped
<1>1. HibInit => LeaseInv
  BY HibStart DEF LeaseInv
<1>2. LeaseInv => LeasedNotStopped
  BY DEF LeaseInv
<1>3. LeaseInv /\ [HibNext]_hibVars => LeaseInv'
  BY LeaseStep
<1> QED
  BY <1>1, <1>2, <1>3, PTL DEF HibSpec

\* Until some stop was accepted or had no answer, nothing of the slot says that it was parked.
LEMMA ColdKept ==
  ASSUME HibTypes, ColdInv, HibNext
  PROVE  ColdInv'
<1> USE DEF ColdInv
<1>0. park \in Parks /\ hnow \in Nat /\ up.t \in Nat /\ up \in Ups
  BY DEF HibTypes, Ups
<1>m. /\ Resting.pc = "idle" /\ NoPark.phase = "warming" /\ NoPark.hib = Never
      /\ NoPark.since = Never /\ ~NoPark.attempted
  BY Moments
<1>s. ASSUME Silenced
      PROVE  /\ park'.phase = park.phase /\ park'.hib = park.hib /\ park'.since = park.since
             /\ park'.attempted = park.attempted /\ park'.refused = park.refused
  <2>1. CASE park' = park
    BY <2>1
  <2>2. CASE park' = Freeze(park, hnow, FALSE)
    BY <1>0, <2>2, SilenceIs, Zenon
  <2> QED
    BY <1>s, <2>1, <2>2 DEF Silenced
<1> DEFINE Cold == verdicts \cap {"ok", "noverdict"} = {}
           Untouched == /\ park'.phase = "warming" /\ park'.hib = Never /\ ~park'.attempted
                        /\ park'.since # Never => park'.refused
<1>r. ASSUME verdicts' = verdicts, cl' = cl, up'.pc \notin {"answered", "settle"},
             Cold => Untouched /\ slot' \in {slot, "dead"}
      PROVE  ColdInv'
  BY <1>r
<1>1. CASE Look
  <2>1. park' = park \/ Silenced
    BY <1>1, LookIs
  <2>2. up' = up \/ up'.pc = "step"
    BY <1>1, LookIs
  <2> QED
    BY <1>1, <1>s, <1>r, <2>1, <2>2, LookIs DEF Beside
<1>2. CASE Step
  <2>1. verdicts' = verdicts /\ cl' = cl /\ up.pc = "step"
    BY <1>2, StepIs DEF Beside
  <2>2. CASE up' = [up EXCEPT !.pc = "probe"] /\ UNCHANGED <<slot, park, desc>>
    BY <1>0, <1>r, <2>1, <2>2 DEF Ups
  <2>3. CASE Concludes(FALSE) /\ park' = NoPark
    BY <1>m, <1>r, <2>1, <2>3 DEF Concludes
  <2>4. CASE Concludes(FALSE) /\ park' = park
    BY <1>m, <1>r, <2>1, <2>4 DEF Concludes
  <2>5. CASE /\ Concludes(TRUE) /\ Attempted(park)
             /\ park' = [NoPark EXCEPT !.phase = "parked"]
    <3>1. ~Cold
      BY <2>5 DEF Attempted
    <3> QED
      BY <1>m, <1>r, <2>1, <2>5, <3>1 DEF Concludes
  <2>6. CASE Concludes(FALSE) /\ (park.phase = "hibernating" \/ park.attempted \/ park.hib # Never)
    BY <1>m, <1>r, <2>1, <2>6 DEF Concludes
  <2>7. CASE Concludes(FALSE) /\ park.phase \in {"hibernating", "parked", "resuming"}
    BY <1>m, <1>r, <2>1, <2>7 DEF Concludes
  <2> QED
    BY <1>2, <2>2, <2>3, <2>4, <2>5, <2>6, <2>7, StepIs
<1>3. CASE AskAgent
  <2>1. up'.pc \in {"judge", "idle"} /\ (park' = park \/ Silenced)
    BY <1>m, <1>3, AskIs
  <2> QED
    BY <1>3, <1>s, <1>r, <2>1, AskIs DEF Beside
<1>4. CASE Judge
  <2>1. verdicts' = verdicts /\ cl' = cl /\ slot' \in {slot, "dead"}
        /\ (up' = Resting \/ up' = [up EXCEPT !.pc = "park"])
    BY <1>4, JudgeIs DEF Beside, Concludes
  <2>2. up'.pc \in {"idle", "park"}
    BY <1>0, <1>m, <2>1 DEF Ups
  <2>3. CASE park' = NoPark \/ park' = park
    BY <1>m, <1>r, <2>1, <2>2, <2>3
  <2>4. CASE park' = Freeze(park, up.t, FALSE)
    <3>1. /\ park'.phase = park.phase /\ park'.hib = park.hib /\ park'.since = park.since
          /\ park'.attempted = park.attempted /\ park'.refused = park.refused
      BY <1>0, <2>4, SilenceIs, Zenon
    <3> QED
      BY <1>r, <2>1, <2>2, <3>1
  <2>5. CASE park' = Thaw(park, up.t)
    <3>1. /\ park'.phase = park.phase /\ park'.hib = park.hib
          /\ park'.attempted = park.attempted /\ park'.refused = park.refused
          /\ ~park.attempted => park'.since = park.since
      BY <1>0, <2>5, ThawIs
    <3> QED
      BY <1>r, <2>1, <2>2, <3>1
  <2> QED
    BY <1>4, <2>3, <2>4, <2>5, JudgeIs
<1>5. CASE TryPark
  BY <1>5, TryIs DEF Beside
<1>6. CASE StopAnswered
  <2>1. /\ UNCHANGED <<park, slot, cl>> /\ up'.pc = "answered"
        /\ verdicts' = verdicts \cup {up'.out}
    BY <1>6, AnsweredIs DEF Beside
  <2> QED
    BY <2>1
<1>12. CASE ParkReturns
  <2>1. /\ UNCHANGED <<verdicts, slot, cl>> /\ up.pc = "answered" /\ up'.pc = "settle"
        /\ up'.out \in {up.out, "skip"} /\ (up.out # "ok" => park' = park)
    BY <1>12, ReturnsIs DEF Beside
  <2> QED
    BY <2>1
<1>7. CASE SettlePark
  <2>1. verdicts' = verdicts /\ cl' = cl /\ slot' \in {slot, "dead"} /\ up.pc = "settle"
        /\ up'.pc = "idle"
    BY <1>m, <1>7, SettleIs DEF Beside, Concludes
  <2>2. CASE gone
    BY <1>m, <1>r, <1>7, <2>1, <2>2, SettleIs
  <2>3. CASE ~gone
    <3>1. CASE up.out \in {"ok", "noverdict"}
      BY <1>r, <2>1, <3>1
    <3>2. CASE up.out \notin {"ok", "noverdict"}
      <4>1. /\ park'.phase = park.phase /\ park'.hib = park.hib
            /\ park'.attempted = park.attempted
            /\ park'.refused \/ (park'.refused = park.refused /\ park'.since = park.since)
        BY <1>7, <2>3, <3>2, SettledIs
      <4> QED
        BY <1>r, <2>1, <4>1
    <3> QED
      BY <3>1, <3>2
  <2> QED
    BY <2>2, <2>3
<1>8. CASE ClaimProbe \/ ResumeStart \/ ResumeWait
  BY <1>8 DEF ClaimProbe, ResumeStart, ResumeWait
<1>9. CASE ReapBegins \/ ReapTerminates \/ WarmingTerminal
  BY <1>9 DEF ReapBegins, ReapTerminates, WarmingTerminal
<1>10. CASE ReapForgets
  BY <1>m, <1>10 DEF ReapForgets, Forget, SetPark
<1>11. CASE AgentComesUp \/ GuestFreezes \/ StopCompletes \/ StopsByItself \/ Tick
  BY <1>11 DEF AgentComesUp, GuestFreezes, StopCompletes, StopsByItself, Tick
<1> QED
  BY <1>1, <1>2, <1>3, <1>4, <1>5, <1>6, <1>7, <1>8, <1>9, <1>10, <1>11, <1>12
  DEF HibNext

\* An instance that stopped by itself is never adopted as a hibernated one (_park_step_locked):
\* a slot is "parked" only if some stop request was accepted or had no answer.
THEOREM ColdStopsNotAdopted == HibSpec => []ColdStopNotAdopted
<1> DEFINE Inv == HibTypes /\ ColdInv
<1>1. HibInit => Inv
  BY HibStart, Moments DEF HibInit, ColdInv
<1>2. Inv /\ [HibNext]_hibVars => Inv'
  <2> SUFFICES ASSUME Inv, [HibNext]_hibVars PROVE Inv'
    OBVIOUS
  <2>1. CASE HibNext
    BY <2>1, HibTyped, ColdKept
  <2>2. CASE UNCHANGED hibVars
    BY <2>2 DEF hibVars, HibTypes, ColdInv
  <2> QED
    BY <2>1, <2>2
<1>3. Inv => ColdStopNotAdopted
  BY DEF ColdInv, ColdStopNotAdopted
<1> HIDE DEF Inv
<1> QED
  BY <1>1, <1>2, <1>3, PTL DEF HibSpec

\* What a reap has forgotten no step in flight brings back.
LEMMA ForgottenKept ==
  ASSUME HibTypes, HibOrder, ReapedIsForgotten, HibNext
  PROVE  ReapedIsForgotten'
<1> USE DEF ReapedIsForgotten
<1>1. CASE Look
  BY <1>1, LookIs DEF Beside, Silenced
<1>2. CASE Step
  BY <1>2, StepIs DEF Beside
<1>3. CASE AskAgent
  BY <1>3, AskIs DEF Beside, Silenced
<1>4. CASE Judge
  BY <1>4, JudgeIs DEF Beside
<1>5. CASE TryPark
  BY <1>5, TryIs DEF Beside
<1>6. CASE StopAnswered \/ ParkReturns
  BY <1>6, AnsweredIs, ReturnsIs DEF Beside
<1>7. CASE SettlePark
  BY <1>7, SettleIs DEF Beside
<1>8. CASE ClaimProbe \/ ResumeStart \/ ResumeWait
  BY <1>8 DEF ClaimProbe, ResumeStart, ResumeWait
<1>9. CASE ReapBegins \/ ReapTerminates \/ ReapForgets \/ WarmingTerminal
  BY <1>9 DEF ReapBegins, ReapTerminates, ReapForgets, WarmingTerminal, Forget, SetPark
<1>10. CASE AgentComesUp \/ GuestFreezes \/ StopCompletes \/ StopsByItself \/ Tick
  BY <1>10 DEF AgentComesUp, GuestFreezes, StopCompletes, StopsByItself, Tick
<1> QED
  BY <1>1, <1>2, <1>3, <1>4, <1>5, <1>6, <1>7, <1>8, <1>9, <1>10 DEF HibNext

\* The late writes of an upkeep step that a reap overtook restore neither the park tables nor the
\* cached description of the slot.
THEOREM ReapedStayForgotten == HibSpec => []ReapedIsForgotten
<1> DEFINE Inv == HibTypes /\ HibOrder /\ ReapedIsForgotten
<1>1. HibInit => Inv
  BY HibStart DEF HibInit, ReapedIsForgotten
<1>2. Inv /\ [HibNext]_hibVars => Inv'
  <2> SUFFICES ASSUME Inv, [HibNext]_hibVars PROVE Inv'
    OBVIOUS
  <2>1. CASE HibNext
    BY <2>1, HibTyped, OrderKept, ForgottenKept
  <2>2. CASE UNCHANGED hibVars
    BY <2>2 DEF hibVars, HibTypes, HibOrder, ReapedIsForgotten
  <2> QED
    BY <2>1, <2>2
<1>3. Inv => ReapedIsForgotten
  OBVIOUS
<1> HIDE DEF Inv
<1> QED
  BY <1>1, <1>2, <1>3, PTL DEF HibSpec

\* The park clock: while an upkeep step is under way the silence counts up to its beginning,
\* since the history charges the step itself.
LEMMA ClockInvKept ==
  ASSUME CallTime \in Nat, HibTypes, HibOrder, ClockInv, HibNext
  PROVE  ClockInv'
<1> USE DEF Never, Later
<1>0. /\ park \in Parks /\ hnow \in Nat /\ charged \in Nat /\ up.t \in Nat /\ up \in Ups
      /\ park.since \in Int /\ park.unknown \in Int /\ park.credit \in Nat
  BY DEF HibTypes, Ups, Parks
<1>t. HibTypes'
  BY HibTyped
<1>i. Resting.pc = "idle" /\ NoPark.since = Never /\ NoPark.unknown = Never
  BY Moments
<1>p. /\ charged' \in Nat /\ park'.since \in Int /\ park'.unknown \in Int /\ park'.credit \in Nat
      /\ hnow' \in Nat /\ up'.t \in Nat
  BY <1>t DEF HibTypes, Parks, Ups
<1>h. /\ Heard \in Int /\ Heard <= hnow /\ hnow - Heard <= CallTime
      /\ up.pc # "idle" => Heard = up.t
  BY <1>0 DEF Heard, HibOrder, ClockInv
<1>g. /\ park.since <= hnow /\ park.unknown <= hnow /\ Never <= park.since /\ Never <= park.unknown
      /\ park.since # Never =>
           charged + CallTime >=
             hnow - park.since - park.credit
               - (IF park.unknown = Never THEN 0
                  ELSE Later(0, Heard - Later(park.unknown, park.since)))
  BY DEF ClockInv
<1>k. ASSUME ClockKept, hnow' = hnow, up'.pc # "idle" => up'.t <= hnow /\ hnow - up'.t <= CallTime,
             park'.since <= hnow, park'.unknown <= hnow, Never <= park'.since,
             Never <= park'.unknown,
             park'.since # Never =>
               \/ /\ charged' = charged
                  /\ charged + CallTime >=
                       hnow - park'.since - park'.credit
                         - (IF park'.unknown = Never THEN 0
                            ELSE Later(0, Heard' - Later(park'.unknown, park'.since)))
               \/ CallTime >= hnow - park'.since - park'.credit
      PROVE  ClockInv'
  BY <1>k, <1>p DEF ClockInv, Heard
\* The tables are left as they are, and the silence counts no less.
<1>a. ASSUME ClockKept, hnow' = hnow, park'.since = park.since, park'.unknown = park.unknown,
             park'.credit = park.credit, Heard <= Heard', Heard' \in Int,
             up'.pc # "idle" => up'.t <= hnow /\ hnow - up'.t <= CallTime
      PROVE  ClockInv'
  BY <1>0, <1>g, <1>h, <1>k, <1>a DEF ClockKept
\* The clock is off.
<1>n. ASSUME hnow' = hnow, park'.since = Never, park'.unknown = Never,
             up'.pc = "idle" \/ up' = up
      PROVE  ClockInv'
  BY <1>0, <1>n DEF ClockInv
\* A silence is noted.
<1>f. ASSUME NEW t \in Nat, Heard <= t, t <= hnow, ClockKept, hnow' = hnow, up'.pc = "idle",
             park'.since = park.since, park'.credit = park.credit,
             park'.unknown = (IF park.unknown = Never THEN t ELSE park.unknown)
      PROVE  ClockInv'
  <2>1. Heard' = hnow
    BY <1>f DEF Heard
  <2> QED
    BY <1>0, <1>g, <1>h, <1>k, <1>f, <2>1 DEF ClockKept
\* A silence ends.
<1>e. ASSUME NEW t \in Nat, Heard <= t, t <= hnow, ClockKept, hnow' = hnow, up'.pc = "idle",
             park'.unknown = Never, park.since # Never, park'.since = park.since,
             park'.credit = (IF park.unknown # Never
                             THEN park.credit + Later(0, t - Later(park.unknown, park.since))
                             ELSE park.credit)
      PROVE  ClockInv'
  <2>1. charged' = charged
    BY <1>e DEF ClockKept
  <2> QED
    BY <1>0, <1>g, <1>h, <1>k, <1>e, <2>1
\* The clock starts.
<1>c. ASSUME NEW t \in Nat, Heard <= t, t <= hnow, ClockKept, hnow' = hnow, up'.pc = "idle",
             park'.unknown \in {Never, park.unknown},
             \/ park'.since = t
             \/ /\ park.unknown # Never /\ park'.since = park.unknown
                /\ park'.credit = park.credit + Later(0, t - Later(park.unknown, park.unknown))
      PROVE  ClockInv'
  BY <1>0, <1>g, <1>h, <1>k, <1>c, <1>p
<1>r. up'.pc = "idle" => Heard' = hnow'
  BY DEF Heard
<1>b. up'.pc # "idle" /\ up'.t = up.t /\ up.pc # "idle" => Heard' = Heard
  BY DEF Heard
<1>s. ASSUME Silenced, up'.pc = "idle", ClockKept, hnow' = hnow
      PROVE  ClockInv'
  <2>1. CASE park' = park
    BY <1>a, <1>h, <1>r, <1>0, <1>s, <2>1
  <2>2. CASE park' = Freeze(park, hnow, FALSE)
    <3>1. /\ park'.since = park.since /\ park'.credit = park.credit
          /\ park'.unknown = (IF park.unknown = Never THEN hnow ELSE park.unknown)
      BY <1>0, <2>2, SilenceIs
    <3> QED
      BY <1>f, <1>h, <1>0, <1>s, <3>1
  <2> QED
    BY <1>s, <2>1, <2>2 DEF Silenced
<1>1. CASE Tick
  <2>1. /\ hnow' = hnow + 1 /\ UNCHANGED <<park, up>>
        /\ up.pc # "idle" => hnow - up.t < CallTime
        /\ charged' = IF park.since # Never /\ (park.unknown = Never \/ up.pc # "idle")
                      THEN charged + 1 ELSE charged
    BY <1>1 DEF Tick
  <2>2. Heard' = IF up.pc = "idle" THEN Heard + 1 ELSE Heard
    BY <1>0, <2>1 DEF Heard
  <2>3. up.pc = "idle" => Heard = hnow
    BY DEF Heard
  <2>4. /\ park'.since <= hnow' /\ park'.unknown <= hnow'
        /\ Never <= park'.since /\ Never <= park'.unknown
        /\ up'.pc # "idle" => hnow' - up'.t <= CallTime
    BY <1>0, <1>g, <2>1
  <2>5. ASSUME park.since # Never
        PROVE  charged' + CallTime >=
                 hnow + 1 - park.since - park.credit
                   - (IF park.unknown = Never THEN 0
                      ELSE Later(0, Heard' - Later(park.unknown, park.since)))
    BY <1>0, <1>g, <1>h, <2>1, <2>2, <2>3, <2>5
  <2>6. park'.since # Never =>
          charged' + CallTime >=
            hnow' - park'.since - park'.credit
              - (IF park'.unknown = Never THEN 0
                 ELSE Later(0, Heard' - Later(park'.unknown, park'.since)))
    <3>1. park' = park /\ hnow' = hnow + 1
      BY <2>1
    <3> QED
      BY <1>0, <1>h, <1>p, <2>2, <2>5, <3>1
  <2> HIDE DEF Later
  <2> QED
    BY <2>4, <2>6 DEF ClockInv
<1>m. ~Tick => ClockKept /\ hnow' = hnow
  BY ClockKeeps
<1>2. CASE Look /\ ~Tick
  <2>1. CASE up' = up /\ Silenced
    BY <1>2, <1>m, <1>s, <2>1, LookIs
  <2>2. CASE up'.pc = "step" /\ up'.t = hnow /\ park' = park
    <3>1. Heard' = hnow
      BY <2>2 DEF Heard
    <3> QED
      BY <1>0, <1>2, <1>a, <1>h, <1>m, <2>2, <3>1
  <2> QED
    BY <1>2, <2>1, <2>2, LookIs
<1>3. CASE Step /\ ~Tick
  <2>0. up.pc = "step" /\ Heard = up.t /\ up.t <= hnow /\ ClockKept /\ hnow' = hnow
    BY <1>3, <1>h, <1>m, StepIs
  <2>1. CASE up' = [up EXCEPT !.pc = "probe"] /\ park' = park
    <3>1. up'.pc = "probe" /\ up'.t = up.t
      BY <1>0, <2>1 DEF Ups
    <3> QED
      BY <1>0, <1>a, <1>b, <1>h, <2>0, <2>1, <3>1
  <2>2. CASE Concludes(FALSE) /\ park' = NoPark
    BY <1>i, <1>n, <2>0, <2>2 DEF Concludes
  <2>3. CASE Concludes(FALSE) /\ park' = park
    BY <1>0, <1>a, <1>h, <1>i, <1>r, <2>0, <2>3 DEF Concludes
  <2>4. CASE Concludes(TRUE) /\ park' = [NoPark EXCEPT !.phase = "parked"]
    BY <1>i, <1>n, <2>0, <2>4, AdoptedIs DEF Concludes
  <2>5. CASE /\ Concludes(FALSE)
             /\ park' = Thaw(StartClock([park EXCEPT !.phase = "hibernating",
                                           !.hib = IF @ = Never THEN up.t ELSE @],
                                        IF park.attempted /\ park.unknown # Never
                                        THEN park.unknown ELSE up.t), up.t)
    <3>1. /\ up'.pc = "idle" /\ park'.unknown = Never
          /\ park'.since = (IF park.since # Never THEN park.since
                            ELSE IF park.attempted /\ park.unknown # Never THEN park.unknown
                            ELSE up.t)
          /\ park'.credit = (IF park.unknown # Never
                             THEN park.credit + Later(0, up.t - Later(park.unknown, park'.since))
                             ELSE park.credit)
      BY <1>i, <2>5, StoppingIs DEF Concludes
    <3>2. CASE park.since # Never
      BY <1>0, <1>e, <2>0, <3>1, <3>2
    <3>3. CASE park.since = Never
      BY <1>0, <1>c, <2>0, <3>1, <3>3
    <3> QED
      BY <3>2, <3>3
  <2>6. CASE /\ Concludes(FALSE)
             /\ park' = StartClock([park EXCEPT !.phase = "warming", !.hib = Never], up.t)
    <3>1. /\ up'.pc = "idle" /\ park'.unknown = park.unknown /\ park'.credit = park.credit
          /\ park'.since = (IF park.since = Never THEN up.t ELSE park.since)
      BY <1>i, <2>6, RunningIs DEF Concludes
    <3>2. CASE park.since # Never
      BY <1>0, <1>a, <1>h, <1>r, <2>0, <3>1, <3>2
    <3>3. CASE park.since = Never
      BY <1>0, <1>c, <2>0, <3>1, <3>3
    <3> QED
      BY <3>2, <3>3
  <2> QED
    BY <1>3, <2>1, <2>2, <2>3, <2>4, <2>5, <2>6, StepIs
<1>4. CASE AskAgent /\ ~Tick
  <2>1. CASE up'.pc = "judge" /\ up'.t = up.t /\ park' = park
    <3>1. up.pc = "probe"
      BY <1>4, AskIs
    <3> QED
      BY <1>0, <1>4, <1>a, <1>b, <1>h, <1>m, <2>1, <3>1 DEF HibOrder
  <2>2. CASE up' = Resting /\ Silenced
    BY <1>4, <1>i, <1>m, <1>s, <2>2
  <2> QED
    BY <1>4, <2>1, <2>2, AskIs
<1>5. CASE Judge /\ ~Tick
  <2>0. up.pc = "judge" /\ Heard = up.t /\ up.t <= hnow /\ ClockKept /\ hnow' = hnow
    BY <1>5, <1>h, <1>m, JudgeIs
  <2>1. CASE up' = [up EXCEPT !.pc = "park"] /\ park' = park
    <3>1. up'.pc = "park" /\ up'.t = up.t
      BY <1>0, <2>1 DEF Ups
    <3> QED
      BY <1>0, <1>a, <1>b, <1>h, <2>0, <2>1, <3>1
  <2>2. CASE Concludes(FALSE) /\ park' = NoPark
    BY <1>i, <1>n, <2>0, <2>2 DEF Concludes
  <2>3. CASE Concludes(FALSE) /\ park' = Freeze(park, up.t, FALSE)
    <3>1. /\ park'.since = park.since /\ park'.credit = park.credit
          /\ park'.unknown = (IF park.unknown = Never THEN up.t ELSE park.unknown)
      BY <1>0, <2>3, SilenceIs
    <3>2. up'.pc = "idle"
      BY <1>i, <2>3 DEF Concludes
    <3> QED
      BY <1>0, <1>f, <2>0, <3>1, <3>2
  <2>4. CASE Concludes(FALSE) /\ park' = Thaw(park, up.t)
    <3>1. /\ up'.pc = "idle" /\ park'.unknown = Never
          /\ park'.since = (IF park.unknown # Never /\ park.attempted /\ park.since = Never
                            THEN park.unknown ELSE park.since)
          /\ park'.credit = (IF park.unknown # Never /\ park'.since # Never
                             THEN park.credit + Later(0, up.t - Later(park.unknown, park'.since))
                             ELSE park.credit)
      BY <1>0, <1>i, <2>4, ThawIs DEF Concludes
    <3>2. CASE park.since # Never
      BY <1>0, <1>e, <2>0, <3>1, <3>2
    <3>3. CASE park.since = Never /\ park'.since = Never
      BY <1>n, <2>0, <3>1, <3>3
    <3>4. CASE park.since = Never /\ park'.since # Never
      BY <1>0, <1>c, <2>0, <3>1, <3>4
    <3> QED
      BY <3>2, <3>3, <3>4
  <2> QED
    BY <1>5, <2>1, <2>2, <2>3, <2>4, JudgeIs
<1>6. CASE (TryPark \/ StopAnswered) /\ ~Tick
  <2>1. up.pc # "idle" /\ up'.pc # "idle" /\ up'.t = up.t /\ park' = park
    BY <1>6, TryIs, AnsweredIs
  <2> QED
    BY <1>0, <1>6, <1>a, <1>b, <1>h, <1>m, <2>1
<1>7. CASE ParkReturns /\ ~Tick
  <2>1. up.pc = "answered" /\ up'.pc = "settle" /\ up'.t = up.t
    BY <1>7, ReturnsIs
  <2>2. /\ park'.since = park.since /\ park'.unknown = park.unknown
        /\ park'.credit = park.credit
    BY <1>0, <1>7, ReturnsIs DEF Parks
  <2> QED
    BY <1>0, <1>7, <1>a, <1>b, <1>h, <1>m, <2>1, <2>2
<1>8. CASE SettlePark /\ ~Tick
  <2>0. up.pc = "settle" /\ Heard <= hnow /\ ClockKept /\ hnow' = hnow /\ up'.pc = "idle"
    BY <1>8, <1>h, <1>i, <1>m, SettleIs DEF Concludes
  <2>1. CASE gone
    BY <1>8, <1>i, <1>n, <2>0, <2>1, SettleIs
  <2>2. CASE ~gone /\ park' = park
    BY <1>0, <1>a, <1>h, <1>r, <2>0, <2>2
  <2>3. CASE /\ park'.unknown = (IF park.unknown = Never THEN hnow ELSE park.unknown)
             /\ park'.since = park.since /\ park'.credit = park.credit
    BY <1>0, <1>f, <2>0, <2>3
  <2>4. CASE /\ ~gone /\ park'.unknown = Never
             /\ LET since == IF park.unknown # Never /\ park.attempted /\ park.since = Never
                             THEN park.unknown ELSE park.since
                IN  /\ park'.since = (IF since = Never THEN hnow ELSE since)
                    /\ park'.credit =
                         (IF park.unknown # Never /\ since # Never
                          THEN park.credit + Later(0, hnow - Later(park.unknown, since))
                          ELSE park.credit)
    <3>1. CASE park.since # Never
      BY <1>0, <1>e, <2>0, <2>4, <3>1
    <3>2. CASE park.since = Never
      BY <1>0, <1>c, <2>0, <2>4, <3>2
    <3> QED
      BY <3>1, <3>2
  <2> QED
    BY <1>8, <2>1, <2>2, <2>3, <2>4, SettledIs
<1>9. CASE ResumeStart /\ ~Tick
  <2>1. up' = up /\ (park' = park \/ park' = [park EXCEPT !.phase = "resuming"])
    BY <1>9 DEF ResumeStart, SetPark
  <2>2. /\ park'.since = park.since /\ park'.unknown = park.unknown
        /\ park'.credit = park.credit
    BY <1>0, <2>1 DEF Parks
  <2>3. Heard' = Heard
    BY <1>9, <1>m, <2>1 DEF Heard
  <2> QED
    BY <1>0, <1>9, <1>a, <1>h, <1>m, <2>1, <2>2, <2>3
<1>10. CASE ReapForgets /\ ~Tick
  BY <1>10, <1>i, <1>m, <1>n DEF ReapForgets, Forget, SetPark
<1>11. CASE /\ \/ AgentComesUp \/ GuestFreezes \/ StopCompletes \/ StopsByItself \/ WarmingTerminal
               \/ ClaimProbe \/ ResumeWait \/ ReapBegins \/ ReapTerminates
            /\ ~Tick
  <2>1. up' = up /\ park' = park
    BY <1>11 DEF AgentComesUp, GuestFreezes, StopCompletes, StopsByItself, WarmingTerminal,
       ClaimProbe,
       ResumeWait, ReapBegins, ReapTerminates
  <2>2. Heard' = Heard
    BY <1>11, <1>m, <2>1 DEF Heard
  <2> QED
    BY <1>0, <1>11, <1>a, <1>h, <1>m, <2>1, <2>2
<1> QED
  BY <1>1, <1>2, <1>3, <1>4, <1>5, <1>6, <1>7, <1>8, <1>9, <1>10, <1>11 DEF HibNext

\* _park_expired gives a slot up only after more than hibernate_timeout_s in which AWS answered,
\* up to the length of one call, or after twice that time, and after twice that time always:
\* an outage of any length and any pattern of silences neither kills a slot nor keeps it for ever.
THEOREM ClocksStayHonest ==
  ASSUME CallTime \in Nat, Timeout \in Nat
  PROVE  HibSpec => []ParkClockHonest
<1> DEFINE Inv == HibTypes /\ HibOrder /\ ClockInv
<1>1. HibInit => Inv
  <2> SUFFICES ASSUME HibInit PROVE ClockInv
    BY HibStart
  <2> QED
    BY Moments DEF HibInit, ClockInv
<1>2. Inv /\ [HibNext]_hibVars => Inv'
  <2> SUFFICES ASSUME Inv, [HibNext]_hibVars PROVE Inv'
    OBVIOUS
  <2>1. CASE HibNext
    BY <2>1, HibTyped, OrderKept, ClockInvKept
  <2>2. CASE UNCHANGED hibVars
    BY <2>2 DEF hibVars, HibTypes, HibOrder, ClockInv, Heard
  <2> QED
    BY <2>1, <2>2
<1>3. Inv => ParkClockHonest
  <2> SUFFICES ASSUME Inv, park.since # Never PROVE ParkClockHonest
    BY DEF ParkClockHonest
  <2>0. /\ hnow \in Nat /\ charged \in Nat /\ up.t \in Nat
        /\ park.since \in Int /\ park.unknown \in Int /\ park.credit \in Nat
    BY DEF HibTypes, Ups, Parks
  <2>1. /\ Heard \in Int /\ Heard <= hnow
    BY <2>0 DEF Heard, HibOrder
  <2> DEFINE silent == IF park.unknown = Never THEN 0 ELSE Later(0, hnow - park.unknown)
             spent == hnow - park.since - park.credit - silent
  <2>2. silent \in Nat
    BY <2>0 DEF Later
  <2>3. charged + CallTime >= spent
    BY <2>0, <2>1 DEF ClockInv, Later
  <2>4. ParkExpired(park, hnow) <=>
          hnow - park.since - Sooner(park.credit + silent, Timeout) > Timeout
    BY DEF ParkExpired, Accounted
  <2> HIDE DEF silent
  <2> QED
    BY <2>0, <2>2, <2>3, <2>4 DEF ParkClockHonest, Sooner
<1> HIDE DEF Inv
<1> QED
  BY <1>1, <1>2, <1>3, PTL DEF HibSpec

-------------------------------------------------------------------------------
(* Last, about Generations: what a sweep may remove.                            *)
GnTyped ==
  /\ gnUp \in [Procs -> {"new", "up", "dead"}]
  /\ gnLease \in [Procs -> {"none", "free", "held", "probed"}]
  /\ gnAt = [p \in Procs |-> gnAt[p]] /\ gnList = [p \in Procs |-> gnList[p]]
  /\ gnFiles \subseteq Gens

\* A process that believes it holds its lease lives, and no sweep can take the
\* lock: its file is locked, or was pruned and is no proof of anything.
HoldersLive == \A p \in gnHolds : p \in Procs /\ gnUp[p] = "up" /\ gnLease[p] \in {"held", "none"}

OwnerDead(x) == gnUp[Owner(x)] = "dead"
\* A generation is written under its process's lease, and kept no longer than it.
WrittenHeld == \A x \in gnFiles : OwnerDead(x) \/ Owner(x) \in gnHolds
KeptHeld == \A x \in gnKept : Owner(x) \in gnHolds

\* What a sweep listed had a dead owner or one that held its lease already; what
\* it is about to remove is no slot's, and a generation of the dead only.
SweptAreDead == \A p \in Procs :
  /\ \A x \in gnList[p] : x \in Bases \cup Gens /\ (x \in Gens => OwnerDead(x) \/ Owner(x) \in gnHolds)
  /\ gnAt[p][1] \in {"probe", "remove"} => gnAt[p][3] \in Bases \cup Gens /\ (gnAt[p][3] \in Gens => OwnerDead(gnAt[p][3]))

\* The generation a build is going to write is neither parked nor in use.
Fresh(p, b) == b \in Mine(p, Bases) /\ GenOf(b) \notin gnParked \cup gnKept
BuildsFresh == \A p \in Procs :
  /\ gnAt[p][1] \in {"booting", "lease", "lock", "write"} => Fresh(p, gnAt[p][2])
  /\ gnAt[p][1] = "retry" => gnAt[p][2] = "boot" \/ Fresh(p, gnAt[p][3])
  /\ gnAt[p][1] = "kill" => gnAt[p][2] \in Bases
  /\ gnAt[p][1] = "write" => p \in gnHolds

\* What is parked is removed unasked: it is in use by nobody.
ParkedIdle == gnParked \cap gnKept = {} /\ gnParked \cap SlotDirs \cap gnVm = {}
GnInv == GnTyped /\ HoldersLive /\ WrittenHeld /\ KeptHeld /\ SweptAreDead /\ BuildsFresh /\ ParkedIdle /\ InUseIsKept

LEMMA GnShapes ==
  /\ \A x \in Bases : /\ Owner(x) \in Procs /\ x \notin Gens /\ x \notin SlotDirs
                      /\ GenOf(x) \in Gens /\ Owner(GenOf(x)) = Owner(x)
  /\ \A x \in Gens : Owner(x) \in Procs /\ x \notin SlotDirs
  /\ \A p \in Procs : SlotOf(p) \in SlotDirs
BY DEF Bases, Gens, SlotDirs, Owner, GenOf, SlotOf

LEMMA GnInitInv == GenInit => GnInv
BY DEF GenInit, GnInv, GnTyped, HoldersLive, WrittenHeld, KeptHeld, SweptAreDead, BuildsFresh, ParkedIdle, InUseIsKept

LEMMA GnStartProc ==
  ASSUME GnInv, NEW p \in Procs, StartProc(p)
  PROVE  GnInv'
<1> USE GnShapes DEF GnInv
<1>1. GnTyped'
  BY DEF StartProc, diskVars, sweepVars, At, Goes, GenFault, Mine, GnTyped
<1>2. HoldersLive'
  BY DEF StartProc, HoldersLive
<1>3. WrittenHeld'
  BY DEF StartProc, diskVars, WrittenHeld, OwnerDead
<1>4. KeptHeld'
  BY DEF StartProc, KeptHeld
<1>5. SweptAreDead'
  BY DEF StartProc, sweepVars, SweptAreDead, OwnerDead
<1>6. BuildsFresh'
  BY DEF StartProc, diskVars, BuildsFresh, Fresh
<1>7. ParkedIdle'
  BY DEF StartProc, diskVars, ParkedIdle
<1>8. InUseIsKept'
  BY DEF StartProc, diskVars, InUseIsKept
<1> QED
  BY <1>1, <1>2, <1>3, <1>4, <1>5, <1>6, <1>7, <1>8

LEMMA GnProcDies ==
  ASSUME GnInv, NEW p \in Procs, ProcDies(p)
  PROVE  GnInv'
<1> USE GnShapes DEF GnInv
<1>1. GnTyped'
  BY DEF ProcDies, GnTyped
<1>2. HoldersLive'
  BY DEF ProcDies, HoldersLive
<1>3. WrittenHeld'
  BY DEF ProcDies, GnTyped, WrittenHeld, OwnerDead
<1>4. KeptHeld'
  BY DEF ProcDies, KeptHeld
<1>5. SweptAreDead'
  BY DEF ProcDies, GnTyped, SweptAreDead, OwnerDead
<1>6. BuildsFresh'
  BY DEF ProcDies, GnTyped, BuildsFresh, Fresh
<1>7. ParkedIdle'
  BY DEF ProcDies, ParkedIdle
<1>8. InUseIsKept'
  BY DEF ProcDies, InUseIsKept
<1> QED
  BY <1>1, <1>2, <1>3, <1>4, <1>5, <1>6, <1>7, <1>8

LEMMA GnBuildBegins ==
  ASSUME GnInv, NEW p \in Procs, BuildBegins(p)
  PROVE  GnInv'
<1> USE GnShapes DEF GnInv
<1>1. GnTyped'
  BY DEF BuildBegins, diskVars, Goes, GnTyped
<1>2. HoldersLive'
  BY DEF BuildBegins, HoldersLive
<1>3. WrittenHeld'
  BY DEF BuildBegins, diskVars, WrittenHeld, OwnerDead
<1>4. KeptHeld'
  BY DEF BuildBegins, KeptHeld
<1>5. SweptAreDead'
  BY DEF BuildBegins, Goes, GnTyped, SweptAreDead, WrittenHeld, OwnerDead, Listed
<1>6. BuildsFresh'
  BY DEF BuildBegins, diskVars, Goes, BuildsFresh, Fresh
<1>7. ParkedIdle'
  BY DEF BuildBegins, diskVars, ParkedIdle
<1>8. InUseIsKept'
  BY DEF BuildBegins, diskVars, InUseIsKept
<1> QED
  BY <1>1, <1>2, <1>3, <1>4, <1>5, <1>6, <1>7, <1>8

LEMMA GnProbeLease ==
  ASSUME GnInv, NEW p \in Procs, NEW x \in gnList[p], ProbeLease(p, x)
  PROVE  GnInv'
<1> USE GnShapes DEF GnInv
<1>1. GnTyped'
  BY DEF ProbeLease, diskVars, Goes, GnTyped
<1>2. HoldersLive'
  BY DEF ProbeLease, GnTyped, HoldersLive
<1>3. WrittenHeld'
  BY DEF ProbeLease, diskVars, WrittenHeld, OwnerDead
<1>4. KeptHeld'
  BY DEF ProbeLease, KeptHeld
<1>5. SweptAreDead'
  BY DEF ProbeLease, Goes, GnTyped, SweptAreDead, HoldersLive, OwnerDead, LeaseAlive
<1>6. BuildsFresh'
  BY DEF ProbeLease, diskVars, Goes, GnTyped, BuildsFresh, Fresh
<1>7. ParkedIdle'
  BY DEF ProbeLease, diskVars, ParkedIdle
<1>8. InUseIsKept'
  BY DEF ProbeLease, diskVars, InUseIsKept
<1> QED
  BY <1>1, <1>2, <1>3, <1>4, <1>5, <1>6, <1>7, <1>8

LEMMA GnProbeCloses ==
  ASSUME GnInv, NEW p \in Procs, ProbeCloses(p)
  PROVE  GnInv'
<1> USE GnShapes DEF GnInv
<1>1. GnTyped'
  BY DEF ProbeCloses, diskVars, sweepVars, Goes, GnTyped
<1>2. HoldersLive'
  BY DEF ProbeCloses, HoldersLive
<1>3. WrittenHeld'
  BY DEF ProbeCloses, diskVars, WrittenHeld, OwnerDead
<1>4. KeptHeld'
  BY DEF ProbeCloses, KeptHeld
<1>5. SweptAreDead'
  BY DEF ProbeCloses, sweepVars, At, Goes, SweptAreDead, OwnerDead
<1>6. BuildsFresh'
  BY DEF ProbeCloses, diskVars, Goes, BuildsFresh, Fresh
<1>7. ParkedIdle'
  BY DEF ProbeCloses, diskVars, ParkedIdle
<1>8. InUseIsKept'
  BY DEF ProbeCloses, diskVars, InUseIsKept
<1> QED
  BY <1>1, <1>2, <1>3, <1>4, <1>5, <1>6, <1>7, <1>8

LEMMA GnSweepRemoves ==
  ASSUME GnInv, NEW p \in Procs, SweepRemoves(p)
  PROVE  GnInv'
<1> USE GnShapes DEF GnInv
<1>1. GnTyped'
  BY DEF SweepRemoves, Goes, GnTyped
<1>2. HoldersLive'
  BY DEF SweepRemoves, HoldersLive
<1>3. WrittenHeld'
  BY DEF SweepRemoves, WrittenHeld, OwnerDead
<1>4. KeptHeld'
  BY DEF SweepRemoves, KeptHeld
<1>5. SweptAreDead'
  BY DEF SweepRemoves, Goes, SweptAreDead, OwnerDead
<1>6. BuildsFresh'
  BY DEF SweepRemoves, Goes, BuildsFresh, Fresh
<1>7. ParkedIdle'
  BY DEF SweepRemoves, ParkedIdle
<1>8. InUseIsKept'
  BY DEF SweepRemoves, At, GnTyped, InUseIsKept, SweptAreDead, KeptHeld, HoldersLive, OwnerDead
<1> QED
  BY <1>1, <1>2, <1>3, <1>4, <1>5, <1>6, <1>7, <1>8

LEMMA GnSweepEnds ==
  ASSUME GnInv, NEW p \in Procs, SweepEnds(p)
  PROVE  GnInv'
<1> USE GnShapes DEF GnInv
<1>1. GnTyped'
  BY DEF SweepEnds, diskVars, Goes, GnTyped
<1>2. HoldersLive'
  BY DEF SweepEnds, HoldersLive
<1>3. WrittenHeld'
  BY DEF SweepEnds, diskVars, WrittenHeld, OwnerDead
<1>4. KeptHeld'
  BY DEF SweepEnds, KeptHeld
<1>5. SweptAreDead'
  BY DEF SweepEnds, Goes, SweptAreDead, OwnerDead
<1>6. BuildsFresh'
  BY DEF SweepEnds, diskVars, Goes, BuildsFresh, Fresh
<1>7. ParkedIdle'
  BY DEF SweepEnds, diskVars, ParkedIdle
<1>8. InUseIsKept'
  BY DEF SweepEnds, diskVars, InUseIsKept
<1> QED
  BY <1>1, <1>2, <1>3, <1>4, <1>5, <1>6, <1>7, <1>8

LEMMA GnRetryParked ==
  ASSUME GnInv, NEW p \in Procs, RetryParked(p)
  PROVE  GnInv'
<1> USE GnShapes DEF GnInv
<1>1. GnTyped'
  BY DEF RetryParked, sweepVars, Goes, GnTyped
<1>2. HoldersLive'
  BY DEF RetryParked, HoldersLive
<1>3. WrittenHeld'
  BY DEF RetryParked, WrittenHeld, OwnerDead
<1>4. KeptHeld'
  BY DEF RetryParked, KeptHeld
<1>5. SweptAreDead'
  BY DEF RetryParked, sweepVars, Goes, SweptAreDead, OwnerDead
<1>6. BuildsFresh'
  BY DEF RetryParked, At, Goes, BuildsFresh, Fresh
<1>7. ParkedIdle'
  BY DEF RetryParked, ParkedIdle
<1>8. InUseIsKept'
  BY DEF RetryParked, Mine, InUseIsKept, ParkedIdle
<1> QED
  BY <1>1, <1>2, <1>3, <1>4, <1>5, <1>6, <1>7, <1>8

LEMMA GnBootBase ==
  ASSUME GnInv, NEW p \in Procs, BootBase(p)
  PROVE  GnInv'
<1> USE GnShapes DEF GnInv
<1>1. GnTyped'
  BY DEF BootBase, sweepVars, Goes, GnTyped
<1>2. HoldersLive'
  BY DEF BootBase, HoldersLive
<1>3. WrittenHeld'
  BY DEF BootBase, WrittenHeld, OwnerDead
<1>4. KeptHeld'
  BY DEF BootBase, KeptHeld
<1>5. SweptAreDead'
  BY DEF BootBase, sweepVars, Goes, GnTyped, SweptAreDead, OwnerDead
<1>6. BuildsFresh'
  BY DEF BootBase, Goes, GnTyped, BuildsFresh, InUseIsKept, Fresh, FreeBases
<1>7. ParkedIdle'
  BY DEF BootBase, Goes, Mine, ParkedIdle, FreeBases
<1>8. InUseIsKept'
  BY DEF BootBase, InUseIsKept
<1> QED
  BY <1>1, <1>2, <1>3, <1>4, <1>5, <1>6, <1>7, <1>8

LEMMA GnBootReady ==
  ASSUME GnInv, NEW p \in Procs, BootReady(p)
  PROVE  GnInv'
<1> USE GnShapes DEF GnInv
<1>1. GnTyped'
  BY DEF BootReady, diskVars, sweepVars, Goes, GnTyped
<1>2. HoldersLive'
  BY DEF BootReady, HoldersLive
<1>3. WrittenHeld'
  BY DEF BootReady, diskVars, WrittenHeld, OwnerDead
<1>4. KeptHeld'
  BY DEF BootReady, KeptHeld
<1>5. SweptAreDead'
  BY DEF BootReady, sweepVars, Goes, SweptAreDead, OwnerDead
<1>6. BuildsFresh'
  BY DEF BootReady, diskVars, At, Goes, BuildsFresh, Fresh
<1>7. ParkedIdle'
  BY DEF BootReady, diskVars, ParkedIdle
<1>8. InUseIsKept'
  BY DEF BootReady, diskVars, InUseIsKept
<1> QED
  BY <1>1, <1>2, <1>3, <1>4, <1>5, <1>6, <1>7, <1>8

LEMMA GnBootFails ==
  ASSUME GnInv, NEW p \in Procs, BootFails(p)
  PROVE  GnInv'
<1> USE GnShapes DEF GnInv
<1>1. GnTyped'
  BY DEF BootFails, sweepVars, Goes, GnTyped
<1>2. HoldersLive'
  BY DEF BootFails, HoldersLive
<1>3. WrittenHeld'
  BY DEF BootFails, WrittenHeld, OwnerDead
<1>4. KeptHeld'
  BY DEF BootFails, KeptHeld
<1>5. SweptAreDead'
  BY DEF BootFails, sweepVars, Goes, SweptAreDead, OwnerDead
<1>6. BuildsFresh'
  BY DEF BootFails, At, Goes, Mine, BuildsFresh, Fresh
<1>7. ParkedIdle'
  BY DEF BootFails, At, Mine, GnTyped, ParkedIdle, BuildsFresh, Fresh, InUseIsKept
<1>8. InUseIsKept'
  BY DEF BootFails, InUseIsKept
<1> QED
  BY <1>1, <1>2, <1>3, <1>4, <1>5, <1>6, <1>7, <1>8

LEMMA GnBootFailsAlive ==
  ASSUME GnInv, NEW p \in Procs, BootFailsAlive(p)
  PROVE  GnInv'
<1> USE GnShapes DEF GnInv
<1>1. GnTyped'
  BY DEF BootFailsAlive, sweepVars, Goes, GnTyped
<1>2. HoldersLive'
  BY DEF BootFailsAlive, HoldersLive
<1>3. WrittenHeld'
  BY DEF BootFailsAlive, WrittenHeld, OwnerDead
<1>4. KeptHeld'
  BY DEF BootFailsAlive, KeptHeld
<1>5. SweptAreDead'
  BY DEF BootFailsAlive, sweepVars, Goes, SweptAreDead, OwnerDead
<1>6. BuildsFresh'
  BY DEF BootFailsAlive, At, Goes, Mine, BuildsFresh, Fresh
<1>7. ParkedIdle'
  BY DEF BootFailsAlive, At, Mine, GnTyped, ParkedIdle, BuildsFresh, Fresh, InUseIsKept
<1>8. InUseIsKept'
  BY DEF BootFailsAlive, InUseIsKept
<1> QED
  BY <1>1, <1>2, <1>3, <1>4, <1>5, <1>6, <1>7, <1>8

LEMMA GnLeaseOpens ==
  ASSUME GnInv, NEW p \in Procs, LeaseOpens(p)
  PROVE  GnInv'
<1> USE GnShapes DEF GnInv
<1>1. GnTyped'
  BY DEF LeaseOpens, diskVars, sweepVars, Goes, GnTyped
<1>2. HoldersLive'
  BY DEF LeaseOpens, At, GnTyped, HoldersLive
<1>3. WrittenHeld'
  BY DEF LeaseOpens, diskVars, WrittenHeld, OwnerDead
<1>4. KeptHeld'
  BY DEF LeaseOpens, KeptHeld
<1>5. SweptAreDead'
  BY DEF LeaseOpens, sweepVars, Goes, GnTyped, SweptAreDead, OwnerDead
<1>6. BuildsFresh'
  BY DEF LeaseOpens, diskVars, At, Goes, GnTyped, BuildsFresh, Fresh
<1>7. ParkedIdle'
  BY DEF LeaseOpens, diskVars, ParkedIdle
<1>8. InUseIsKept'
  BY DEF LeaseOpens, diskVars, InUseIsKept
<1> QED
  BY <1>1, <1>2, <1>3, <1>4, <1>5, <1>6, <1>7, <1>8

LEMMA GnLeaseLocks ==
  ASSUME GnInv, NEW p \in Procs, LeaseLocks(p)
  PROVE  GnInv'
<1> USE GnShapes DEF GnInv
<1>1. GnTyped'
  BY DEF LeaseLocks, diskVars, sweepVars, Goes, GnTyped
<1>2. HoldersLive'
  BY DEF LeaseLocks, At, GnTyped, HoldersLive
<1>3. WrittenHeld'
  BY DEF LeaseLocks, diskVars, WrittenHeld, OwnerDead
<1>4. KeptHeld'
  BY DEF LeaseLocks, KeptHeld
<1>5. SweptAreDead'
  BY DEF LeaseLocks, sweepVars, Goes, GnTyped, SweptAreDead, OwnerDead
<1>6. BuildsFresh'
  BY DEF LeaseLocks, diskVars, At, Goes, Mine, GnTyped, BuildsFresh, Fresh
<1>7. ParkedIdle'
  BY DEF LeaseLocks, diskVars, ParkedIdle
<1>8. InUseIsKept'
  BY DEF LeaseLocks, diskVars, InUseIsKept
<1> QED
  BY <1>1, <1>2, <1>3, <1>4, <1>5, <1>6, <1>7, <1>8

LEMMA GnWriteGeneration ==
  ASSUME GnInv, NEW p \in Procs, WriteGeneration(p)
  PROVE  GnInv'
<1> USE GnShapes DEF GnInv
<1>1. GnTyped'
  BY DEF WriteGeneration, sweepVars, At, Goes, Mine, GnTyped, BuildsFresh, Fresh
<1>2. HoldersLive'
  BY DEF WriteGeneration, HoldersLive
<1>3. WrittenHeld'
  BY DEF WriteGeneration, At, Mine, WrittenHeld, BuildsFresh, OwnerDead, Fresh
<1>4. KeptHeld'
  BY DEF WriteGeneration, At, Mine, KeptHeld, BuildsFresh, Fresh
<1>5. SweptAreDead'
  BY DEF WriteGeneration, sweepVars, Goes, SweptAreDead, OwnerDead
<1>6. BuildsFresh'
  BY DEF WriteGeneration, At, Goes, Mine, GnTyped, BuildsFresh, Fresh
<1>7. ParkedIdle'
  BY DEF WriteGeneration, At, Mine, ParkedIdle, BuildsFresh, Fresh
<1>8. InUseIsKept'
  BY DEF WriteGeneration, InUseIsKept
<1> QED
  BY <1>1, <1>2, <1>3, <1>4, <1>5, <1>6, <1>7, <1>8

LEMMA GnKillBase ==
  ASSUME GnInv, NEW p \in Procs, KillBase(p)
  PROVE  GnInv'
<1> USE GnShapes DEF GnInv
<1>1. GnTyped'
  BY DEF KillBase, sweepVars, Goes, GnTyped
<1>2. HoldersLive'
  BY DEF KillBase, HoldersLive
<1>3. WrittenHeld'
  BY DEF KillBase, WrittenHeld, OwnerDead
<1>4. KeptHeld'
  BY DEF KillBase, KeptHeld
<1>5. SweptAreDead'
  BY DEF KillBase, sweepVars, Goes, SweptAreDead, OwnerDead
<1>6. BuildsFresh'
  BY DEF KillBase, At, Goes, Mine, BuildsFresh, Fresh
<1>7. ParkedIdle'
  BY DEF KillBase, At, GnTyped, ParkedIdle, BuildsFresh, InUseIsKept
<1>8. InUseIsKept'
  BY DEF KillBase, InUseIsKept
<1> QED
  BY <1>1, <1>2, <1>3, <1>4, <1>5, <1>6, <1>7, <1>8

LEMMA GnRestoreIn ==
  ASSUME GnInv, NEW p \in Procs, RestoreIn(p)
  PROVE  GnInv'
<1> USE GnShapes DEF GnInv
<1>1. GnTyped'
  BY DEF RestoreIn, sweepVars, GnTyped
<1>2. HoldersLive'
  BY DEF RestoreIn, HoldersLive
<1>3. WrittenHeld'
  BY DEF RestoreIn, WrittenHeld, OwnerDead
<1>4. KeptHeld'
  BY DEF RestoreIn, KeptHeld
<1>5. SweptAreDead'
  BY DEF RestoreIn, sweepVars, SweptAreDead, OwnerDead
<1>6. BuildsFresh'
  BY DEF RestoreIn, BuildsFresh, Fresh
<1>7. ParkedIdle'
  BY DEF RestoreIn, ParkedIdle, SlotFree
<1>8. InUseIsKept'
  BY DEF RestoreIn, InUseIsKept
<1> QED
  BY <1>1, <1>2, <1>3, <1>4, <1>5, <1>6, <1>7, <1>8

LEMMA GnRestoreReturns ==
  ASSUME GnInv, NEW p \in Procs, RestoreReturns(p)
  PROVE  GnInv'
<1> USE GnShapes DEF GnInv
<1>1. GnTyped'
  BY DEF RestoreReturns, diskVars, sweepVars, GnTyped
<1>2. HoldersLive'
  BY DEF RestoreReturns, HoldersLive
<1>3. WrittenHeld'
  BY DEF RestoreReturns, diskVars, WrittenHeld, OwnerDead
<1>4. KeptHeld'
  BY DEF RestoreReturns, KeptHeld
<1>5. SweptAreDead'
  BY DEF RestoreReturns, sweepVars, SweptAreDead, OwnerDead
<1>6. BuildsFresh'
  BY DEF RestoreReturns, diskVars, BuildsFresh, Fresh
<1>7. ParkedIdle'
  BY DEF RestoreReturns, diskVars, ParkedIdle
<1>8. InUseIsKept'
  BY DEF RestoreReturns, diskVars, InUseIsKept
<1> QED
  BY <1>1, <1>2, <1>3, <1>4, <1>5, <1>6, <1>7, <1>8

LEMMA GnRestoreRaises ==
  ASSUME GnInv, NEW p \in Procs, RestoreRaises(p)
  PROVE  GnInv'
<1> USE GnShapes DEF GnInv
<1>1. GnTyped'
  BY DEF RestoreRaises, sweepVars, GnTyped
<1>2. HoldersLive'
  BY DEF RestoreRaises, HoldersLive
<1>3. WrittenHeld'
  BY DEF RestoreRaises, WrittenHeld, OwnerDead
<1>4. KeptHeld'
  BY DEF RestoreRaises, KeptHeld
<1>5. SweptAreDead'
  BY DEF RestoreRaises, sweepVars, SweptAreDead, OwnerDead
<1>6. BuildsFresh'
  BY DEF RestoreRaises, BuildsFresh, Fresh
<1>7. ParkedIdle'
  BY DEF RestoreRaises, ParkedIdle
<1>8. InUseIsKept'
  BY DEF RestoreRaises, InUseIsKept
<1> QED
  BY <1>1, <1>2, <1>3, <1>4, <1>5, <1>6, <1>7, <1>8

LEMMA GnReapSlot ==
  ASSUME GnInv, NEW p \in Procs, ReapSlot(p)
  PROVE  GnInv'
<1> USE GnShapes DEF GnInv
<1>1. GnTyped'
  BY DEF ReapSlot, sweepVars, GnTyped
<1>2. HoldersLive'
  BY DEF ReapSlot, HoldersLive
<1>3. WrittenHeld'
  BY DEF ReapSlot, WrittenHeld, OwnerDead
<1>4. KeptHeld'
  BY DEF ReapSlot, KeptHeld
<1>5. SweptAreDead'
  BY DEF ReapSlot, sweepVars, SweptAreDead, OwnerDead
<1>6. BuildsFresh'
  BY DEF ReapSlot, BuildsFresh, Fresh
<1>7. ParkedIdle'
  BY DEF ReapSlot, ParkedIdle
<1>8. InUseIsKept'
  BY DEF ReapSlot, InUseIsKept
<1> QED
  BY <1>1, <1>2, <1>3, <1>4, <1>5, <1>6, <1>7, <1>8

LEMMA GnOrphanExits ==
  ASSUME GnInv, NEW p \in Procs, OrphanExits(p)
  PROVE  GnInv'
<1> USE GnShapes DEF GnInv
<1>1. GnTyped'
  BY DEF OrphanExits, diskVars, sweepVars, GnTyped
<1>2. HoldersLive'
  BY DEF OrphanExits, HoldersLive
<1>3. WrittenHeld'
  BY DEF OrphanExits, diskVars, WrittenHeld, OwnerDead
<1>4. KeptHeld'
  BY DEF OrphanExits, KeptHeld
<1>5. SweptAreDead'
  BY DEF OrphanExits, sweepVars, SweptAreDead, OwnerDead
<1>6. BuildsFresh'
  BY DEF OrphanExits, diskVars, BuildsFresh, Fresh
<1>7. ParkedIdle'
  BY DEF OrphanExits, diskVars, ParkedIdle
<1>8. InUseIsKept'
  BY DEF OrphanExits, diskVars, InUseIsKept
<1> QED
  BY <1>1, <1>2, <1>3, <1>4, <1>5, <1>6, <1>7, <1>8

LEMMA GnRestoreReclaimed ==
  ASSUME GnInv, NEW p \in Procs, RestoreReclaimed(p)
  PROVE  GnInv'
<1> USE GnShapes DEF GnInv
<1>1. GnTyped'
  BY DEF RestoreReclaimed, sweepVars, GnTyped
<1>2. HoldersLive'
  BY DEF RestoreReclaimed, HoldersLive
<1>3. WrittenHeld'
  BY DEF RestoreReclaimed, WrittenHeld, OwnerDead
<1>4. KeptHeld'
  BY DEF RestoreReclaimed, KeptHeld
<1>5. SweptAreDead'
  BY DEF RestoreReclaimed, sweepVars, SweptAreDead, OwnerDead
<1>6. BuildsFresh'
  BY DEF RestoreReclaimed, Mine, BuildsFresh, Fresh
<1>7. ParkedIdle'
  BY DEF RestoreReclaimed, GnTyped, ParkedIdle, Reclaimable, InUseIsKept
<1>8. InUseIsKept'
  BY DEF RestoreReclaimed, InUseIsKept, Reclaimable
<1> QED
  BY <1>1, <1>2, <1>3, <1>4, <1>5, <1>6, <1>7, <1>8

LEMMA GnDiscardGen ==
  ASSUME GnInv, NEW p \in Procs, DiscardGen(p)
  PROVE  GnInv'
<1> USE GnShapes DEF GnInv
<1>1. GnTyped'
  BY DEF DiscardGen, sweepVars, GnTyped
<1>2. HoldersLive'
  BY DEF DiscardGen, HoldersLive
<1>3. WrittenHeld'
  BY DEF DiscardGen, WrittenHeld, OwnerDead
<1>4. KeptHeld'
  BY DEF DiscardGen, KeptHeld
<1>5. SweptAreDead'
  BY DEF DiscardGen, sweepVars, SweptAreDead, OwnerDead
<1>6. BuildsFresh'
  BY DEF DiscardGen, BuildsFresh, Fresh
<1>7. ParkedIdle'
  BY DEF DiscardGen, ParkedIdle
<1>8. InUseIsKept'
  BY DEF DiscardGen, InUseIsKept
<1> QED
  BY <1>1, <1>2, <1>3, <1>4, <1>5, <1>6, <1>7, <1>8

LEMMA GnBuildInv ==
  ASSUME GnInv, NEW p \in Procs, Build(p)
  PROVE  GnInv'
BY GnBuildBegins, GnProbeLease, GnProbeCloses, GnSweepRemoves, GnSweepEnds, GnRetryParked, GnBootBase,
   GnBootReady, GnBootFails, GnBootFailsAlive, GnLeaseOpens, GnLeaseLocks, GnWriteGeneration, GnKillBase DEF Build

LEMMA GnNextInv == GnInv /\ [GenNext]_genVars => GnInv'
<1> SUFFICES ASSUME GnInv, [GenNext]_genVars PROVE GnInv'
  OBVIOUS
<1>1. CASE GenNext
  <2>1. PICK p \in Procs :
          \/ StartProc(p) \/ ProcDies(p) \/ Build(p)
          \/ RestoreIn(p) \/ RestoreReturns(p) \/ RestoreRaises(p) \/ ReapSlot(p) \/ OrphanExits(p)
          \/ RestoreReclaimed(p) \/ DiscardGen(p)
    BY <1>1 DEF GenNext
  <2> QED
    BY <2>1, GnBuildInv, GnStartProc, GnProcDies, GnRestoreIn, GnRestoreReturns,
       GnRestoreRaises, GnReapSlot, GnOrphanExits, GnRestoreReclaimed, GnDiscardGen
<1>2. CASE UNCHANGED genVars
  BY <1>2 DEF GnInv, genVars, diskVars, sweepVars, GnTyped, HoldersLive, WrittenHeld, OwnerDead, KeptHeld, SweptAreDead,
              BuildsFresh, Fresh, Mine, ParkedIdle, InUseIsKept
<1> QED
  BY <1>1, <1>2

\* No sweep and no retry takes a generation from the process that still uses it,
\* nor the directory from under a slot's machine that may still run, whatever dies
\* or fails and in whatever moment a lease is probed (owner_alive,
\* _retry_stranded_partials, restore_in).
THEOREM InUseStays == GenSpec => []InUseIsKept
<1>1. GnInv => InUseIsKept
  BY DEF GnInv
<1> QED
  BY GnInitInv, GnNextInv, <1>1, PTL DEF GenSpec
================================================================================
