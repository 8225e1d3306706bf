------------------------------ MODULE StoreProofs ------------------------------
(* Theorems about what stands around the result store.                          *)
(*                                                                              *)
(* Receipts, for any trees, any number of uploads that die, and any re-marking  *)
(* passes: what the attestation route serves was written by a host.             *)
(*                                                                              *)
(* StoreBoot, for any processes, stores and shared keys, any number of canaries *)
(* and of resets: a process is let in, or refused, for what is true of it.      *)
(*                                                                              *)
(* ResultStore, for any number of deletions, any history of versions, any size  *)
(* of a page and any number of failures and re-uploads: what is read is the     *)
(* last version of its key, what is deleted is gone, and a masked receipt is    *)
(* never served.                                                                *)
EXTENDS Receipts, StoreBoot, ResultStore, FiniteSetTheorems, TLAPS

-------------------------------------------------------------------------------
\* Receipts

\* Trees are numbered from 1 up: no tree has the number of the empty prefix, nor
\* that of the envelope an older release stored.
Numbered == \A t \in Trees : t # 0 /\ t # OldEnvelope

Envelopes == Trees \cup {OldEnvelope}
Objects == [by : {"none", "tomb", "host", "worker", "cleared", "withheld"}, of : Envelopes \cup {0}]
Stages == {"made", "sealed", "held", "up", "shipped"}
Plans == {<< >>, <<"env">>,
          <<"receipt", "marker", "env">>, <<"marker", "env">>,
          <<"marker", "receipt", "env">>, <<"receipt", "env">>}
Look(pcs) == [at : pcs, m : Objects, e : Envelopes \cup {0}, r : Objects, sees : Envelopes \cup {0}]

ReceiptTypeOK ==
  /\ stored \in [env : Envelopes \cup {0}, receipt : Objects, marker : Objects]
  /\ tree \in [Trees -> [receipt : Objects, marker : Objects,
                         declares : {"nothing", "receipt", "marker"}]]
  /\ stage \in [Trees -> Stages]
  /\ todo \in [Trees -> Plans]
  /\ rowDone \in BOOLEAN
  /\ reader \in Look({"idle", "env", "receipt", "again", "served", "verified", "refused", "retry"})
  /\ remark \in Look({"idle", "env", "mark"})

Up(t) == stage[t] = "up"
Worker(o) == o.by = "worker"

\* What is in a tree: a host's receipt is over the tree's own envelope; a tree that
\* is to be shipped has a marker of the host, and a worker's receipt, or none, only
\* under one that withholds it.
TreesOwn ==
  \A t \in Trees :
    /\ tree[t].receipt.by = "host" => tree[t].receipt.of = t
    /\ Cleared(tree[t].marker) => tree[t].marker.of = t
    /\ stage[t] \in {"sealed", "up"} =>
         \/ AsIs(t)
         \/ Cleared(tree[t].marker) /\ tree[t].receipt.by \in {"host", "tomb"}

\* What an upload has still to store, by what it has stored.
StillToStore ==
  \A t \in Trees :
    /\ Up(t) /\ AsIs(t) =>
         todo[t] \in {<<"marker", "receipt", "env">>, <<"receipt", "env">>, <<"env">>}
    /\ Up(t) /\ ~AsIs(t) =>
         todo[t] \in {<<"receipt", "marker", "env">>, <<"marker", "env">>, <<"env">>}

\* An as-is upload overlaps no other and no re-marking pass.
Alone ==
  \A t \in Trees : Up(t) /\ AsIs(t) =>
    remark.at = "idle" /\ \A u \in Trees : Up(u) => u = t

\* No marker in the store vouches for a worker's receipt, nor will one that somebody
\* is about to store.
Vouched ==
  /\ Worker(stored.receipt) => ~Cleared(stored.marker)
  /\ remark.at = "mark" => ~Worker(stored.receipt)
  /\ \A t \in Trees :
       /\ Up(t) /\ ~AsIs(t) /\ todo[t][1] # "receipt" => ~Worker(stored.receipt)
       /\ Up(t) /\ AsIs(t) /\ todo[t][1] # "marker" => ~Cleared(stored.marker)

\* The envelope e is stored for good: its tree is shipped, or of an older release.
Final(e) == e = OldEnvelope \/ (e \in Trees /\ stage[e] = "shipped")

\* Nobody will vouch for the envelope e again.
Unvouched(e) ==
  /\ Final(e)
  /\ stored.receipt # By("host", e)
  /\ ~(Cleared(stored.marker) /\ stored.marker.of = e)
  /\ ~(remark.at = "mark" /\ remark.e = e)

\* What the reader has seen.
ReaderSees ==
  /\ reader.at \in {"env", "receipt", "again", "served", "verified"} => Cleared(reader.m) /\ reader.m.of # 0
  /\ reader.at \in {"receipt", "again", "served", "verified"} => reader.m.of = reader.e /\ Final(reader.e)
  /\ reader.at \in {"again", "served", "verified"} => reader.r.by \in {"host", "worker"}
  /\ reader.at = "again" /\ Worker(reader.r) => Unvouched(reader.e)

StoredFinal ==
  /\ stored.env # 0 => Final(stored.env)
  /\ Cleared(stored.marker) => stored.marker.of # 0

RemarkFinal == remark.at = "mark" => remark.e # 0

ReceiptInv ==
  /\ ReceiptTypeOK /\ TreesOwn /\ StillToStore /\ Alone /\ Vouched /\ ReaderSees
  /\ StoredFinal /\ RemarkFinal /\ ServedIsHosts

-------------------------------------------------------------------------------
\* What the helpers return.
LEMMA ObjectsMade ==
  /\ Absent \in Objects
  /\ \A e \in Envelopes \cup {0} :
       \A a \in {"none", "tomb", "host", "worker", "cleared", "withheld"} : By(a, e) \in Objects
  /\ Idle0 \in Look({"idle"}) /\ Refused \in Look({"refused"}) /\ Retryable \in Look({"retry"})
BY DEF Absent, Objects, Envelopes, By, Idle0, Look, Refused, Retryable

LEMMA ReceiptInitially ==
  ASSUME Numbered
  PROVE  ReceiptInit => ReceiptInv
<1> SUFFICES ASSUME ReceiptInit PROVE ReceiptInv
  OBVIOUS
<1> USE DEF ReceiptInit
<1>1. /\ stored.env \in {0, OldEnvelope}
      /\ stored.receipt \in {Absent, By("host", OldEnvelope), By("worker", OldEnvelope)}
      /\ stored.marker \in {Absent, By("worker", OldEnvelope)}
      /\ stored \in [env : Envelopes \cup {0}, receipt : Objects, marker : Objects]
  <2>1. stored \in Verbatim
    OBVIOUS
  <2>2. CASE stored \in {[env |-> 0, receipt |-> Absent, marker |-> Absent]}
    BY <2>2, ObjectsMade
  <2>3. CASE stored \in [env : {OldEnvelope},
                         receipt : {By("host", OldEnvelope), By("worker", OldEnvelope)},
                         marker : {Absent, By("worker", OldEnvelope)}]
    BY <2>3, ObjectsMade DEF Envelopes
  <2> QED
    BY <2>1, <2>2, <2>3 DEF Verbatim
<1>2. ASSUME NEW t \in Trees
      PROVE  /\ tree[t].receipt \in {Absent, By("worker", t)}
             /\ tree[t].marker \in {Absent, By("worker", t)}
             /\ tree[t] \in [receipt : Objects, marker : Objects,
                             declares : {"nothing", "receipt", "marker"}]
  <2>1. tree[t] \in WorkerLeft(t)
    OBVIOUS
  <2>2. Absent \in Objects /\ By("worker", t) \in Objects
    BY ObjectsMade DEF Envelopes
  <2> QED
    BY <2>1, <2>2 DEF WorkerLeft
<1>3. ReceiptTypeOK
  <2>1. tree \in [Trees -> [receipt : Objects, marker : Objects,
                            declares : {"nothing", "receipt", "marker"}]]
    BY <1>2
  <2>2. stage \in [Trees -> Stages] /\ todo \in [Trees -> Plans] /\ rowDone \in BOOLEAN
    BY DEF Stages, Plans
  <2>3. reader \in Look({"idle", "env", "receipt", "again", "served", "verified", "refused", "retry"})
        /\ remark \in Look({"idle", "env", "mark"})
    BY ObjectsMade DEF Look
  <2> QED
    BY <1>1, <2>1, <2>2, <2>3 DEF ReceiptTypeOK
<1>4. TreesOwn
  BY <1>2 DEF TreesOwn, Cleared, AsIs, Absent, By
<1>5. StillToStore /\ Alone /\ Vouched /\ ReaderSees /\ RemarkFinal /\ ServedIsHosts
  BY <1>1 DEF StillToStore, Alone, Vouched, ReaderSees, RemarkFinal, ServedIsHosts, Up, Idle0, Worker,
              Cleared, Absent, By
<1>6. StoredFinal
  BY <1>1 DEF StoredFinal, Final, Cleared, Absent, By
<1> QED
  BY <1>3, <1>4, <1>5, <1>6 DEF ReceiptInv

\* A tree that is made ready, or is given up, keeps to what TreesOwn says of it.
Readied(t) ==
  /\ stage[t] \in {"made", "held"}
  /\ \E s \in {"sealed", "held"}, r \in Objects, m \in Objects :
       /\ stage' = [stage EXCEPT ![t] = s]
       /\ tree' = [tree EXCEPT ![t].receipt = r, ![t].marker = m]
       /\ r.by = "host" => r.of = t
       /\ Cleared(m) => m.of = t
       /\ s = "sealed" => m.by = "withheld" \/ (Cleared(m) /\ r.by \in {"host", "tomb"})
  /\ UNCHANGED <<stored, todo, rowDone, reader, remark>>

LEMMA SealReadies ==
  ASSUME ReceiptInv, NEW t \in Trees, stage[t] \in {"made", "held"},
         NEW r \in {By("host", t), By("tomb", 0)}, SealReceipt(t, r),
         stage' = [stage EXCEPT ![t] = "sealed"],
         UNCHANGED <<stored, todo, rowDone, reader, remark>>
  PROVE  Readied(t)
<1>1. r \in Objects /\ By("cleared", t) \in Objects
  BY ObjectsMade DEF Envelopes
<1>2. /\ r.by = "host" => r.of = t
      /\ r.by \in {"host", "tomb"}
      /\ Cleared(By("cleared", t)) /\ By("cleared", t).of = t
  BY DEF By, Cleared
<1>3. tree' = [tree EXCEPT ![t].receipt = r, ![t].marker = By("cleared", t)]
  BY DEF SealReceipt
<1> QED
  BY <1>1, <1>2, <1>3 DEF Readied

LEMMA WithholdReadies ==
  ASSUME ReceiptInv, NEW t \in Trees, stage[t] \in {"made", "held"}, WithheldMarker(t),
         stage' = [stage EXCEPT ![t] = "sealed"],
         UNCHANGED <<stored, todo, rowDone, reader, remark>>
  PROVE  Readied(t)
<1> DEFINE r == tree[t].receipt
<1>1. tree[t] \in [receipt : Objects, marker : Objects, declares : {"nothing", "receipt", "marker"}]
  BY DEF ReceiptInv, ReceiptTypeOK
<1>2. By("withheld", t) \in Objects /\ By("withheld", t).by = "withheld" /\ ~Cleared(By("withheld", t))
  BY ObjectsMade DEF Envelopes, By, Cleared
<1>3. r \in Objects /\ (r.by = "host" => r.of = t)
  BY <1>1 DEF ReceiptInv, TreesOwn
<1>4. tree' = [tree EXCEPT ![t].receipt = r, ![t].marker = By("withheld", t)]
  <2>1. tree' = [tree EXCEPT ![t].marker = By("withheld", t)] /\ tree \in [Trees -> [receipt : Objects, marker : Objects, declares : {"nothing", "receipt", "marker"}]]
    BY DEF WithheldMarker, ReceiptInv, ReceiptTypeOK
  <2>2. [tree[t] EXCEPT !.marker = By("withheld", t)] = [tree[t] EXCEPT !.receipt = r, !.marker = By("withheld", t)]
    BY <1>1
  <2> QED
    BY <2>1, <2>2
<1> QED
  BY <1>2, <1>3, <1>4 DEF Readied

LEMMA FailedReadies ==
  ASSUME ReceiptInv, NEW t \in Trees, SealFreshFails(t)
  PROVE  Readied(t)
<1>1. PICK r \in {By("host", t), tree[t].receipt} :
         tree' = [tree EXCEPT ![t].receipt = r, ![t].marker = IF r.by = "host" THEN Absent ELSE @]
  BY DEF SealFreshFails
<1> DEFINE m == IF r.by = "host" THEN Absent ELSE tree[t].marker
<1>2. /\ tree \in [Trees -> [receipt : Objects, marker : Objects, declares : {"nothing", "receipt", "marker"}]]
      /\ tree[t] \in [receipt : Objects, marker : Objects, declares : {"nothing", "receipt", "marker"}]
  BY DEF ReceiptInv, ReceiptTypeOK
<1>3. r \in Objects /\ m \in Objects /\ (r.by = "host" => r.of = t) /\ (Cleared(m) => m.of = t)
  <2>1. By("host", t) \in Objects /\ By("host", t).of = t /\ Absent \in Objects /\ ~Cleared(Absent)
    BY ObjectsMade DEF Envelopes, By, Cleared, Absent
  <2>2. tree[t].receipt.by = "host" => tree[t].receipt.of = t
    BY DEF ReceiptInv, TreesOwn
  <2>3. Cleared(tree[t].marker) => tree[t].marker.of = t
    BY DEF ReceiptInv, TreesOwn
  <2>4. tree[t].receipt \in Objects /\ tree[t].marker \in Objects
    BY <1>2
  <2>5. r \in Objects /\ (r.by = "host" => r.of = t)
    BY <2>1, <2>2, <2>4
  <2>6. CASE r.by = "host"
    BY <2>1, <2>5, <2>6
  <2>7. CASE r.by # "host"
    BY <2>3, <2>4, <2>5, <2>7
  <2> QED
    BY <2>6, <2>7
<1>4. tree' = [tree EXCEPT ![t].receipt = r, ![t].marker = m]
  BY <1>1, <1>2
<1>5. stage[t] = "made" /\ stage' = [stage EXCEPT ![t] = "held"]
      /\ UNCHANGED <<stored, todo, rowDone, reader, remark>>
  BY DEF SealFreshFails
<1> HIDE DEF m
<1> QED
  BY <1>3, <1>4, <1>5 DEF Readied

LEMMA SealingReadies ==
  ASSUME ReceiptInv, NEW t \in Trees,
         SealFresh(t) \/ SealFreshFails(t) \/ SanitiseHeld(t) \/ MigrateLegacy(t)
  PROVE  Readied(t)
<1>1. CASE SealFresh(t)
  BY <1>1, SealReadies DEF SealFresh
<1>2. CASE SealFreshFails(t)
  BY <1>2, FailedReadies
<1>3. CASE SanitiseHeld(t)
  <2>1. /\ stage[t] = "held" /\ stage' = [stage EXCEPT ![t] = "sealed"]
        /\ UNCHANGED <<stored, todo, rowDone, reader, remark>>
    BY <1>3 DEF SanitiseHeld
  <2>2. CASE WithheldMarker(t)
    BY <2>1, <2>2, WithholdReadies
  <2>3. CASE ReceiptIsOurs(t) /\ SealReceipt(t, tree[t].receipt)
    <3>1. SealReceipt(t, By("host", t))
      BY <2>3 DEF ReceiptIsOurs
    <3> QED
      BY <2>1, <3>1, SealReadies
  <2>4. CASE SealReceipt(t, By("tomb", 0))
    BY <2>1, <2>4, SealReadies
  <2> QED
    BY <1>3, <2>2, <2>3, <2>4 DEF SanitiseHeld, Sanitise
<1>4. CASE MigrateLegacy(t)
  <2>1. /\ stage[t] = "made" /\ stage' = [stage EXCEPT ![t] = "sealed"]
        /\ UNCHANGED <<stored, todo, rowDone, reader, remark>>
    BY <1>4 DEF MigrateLegacy
  <2>2. CASE WithheldMarker(t)
    BY <2>1, <2>2, WithholdReadies
  <2>3. CASE SealReceipt(t, By("tomb", 0))
    BY <2>1, <2>3, SealReadies
  <2> QED
    BY <1>4, <2>2, <2>3 DEF MigrateLegacy, Migrate
<1> QED
  BY <1>1, <1>2, <1>3, <1>4

LEMMA ReadiedKept ==
  ASSUME ReceiptInv, NEW t \in Trees, Readied(t)
  PROVE  ReceiptInv'
<1>1. PICK s \in {"sealed", "held"}, r \in Objects, m \in Objects :
       /\ stage' = [stage EXCEPT ![t] = s]
       /\ tree' = [tree EXCEPT ![t].receipt = r, ![t].marker = m]
       /\ r.by = "host" => r.of = t
       /\ Cleared(m) => m.of = t
       /\ s = "sealed" => m.by = "withheld" \/ (Cleared(m) /\ r.by \in {"host", "tomb"})
  BY DEF Readied
<1>2. UNCHANGED <<stored, todo, rowDone, reader, remark>> /\ stage[t] \in {"made", "held"}
  BY DEF Readied
<1>3. ReceiptTypeOK
  BY DEF ReceiptInv
<1>4. /\ tree[t] \in [receipt : Objects, marker : Objects, declares : {"nothing", "receipt", "marker"}]
      /\ tree'[t] = [tree[t] EXCEPT !.receipt = r, !.marker = m]
      /\ tree'[t].receipt = r /\ tree'[t].marker = m
      /\ tree'[t] \in [receipt : Objects, marker : Objects, declares : {"nothing", "receipt", "marker"}]
      /\ \A u \in Trees \ {t} : tree'[u] = tree[u]
  <2>1. tree \in [Trees -> [receipt : Objects, marker : Objects, declares : {"nothing", "receipt", "marker"}]]
    BY <1>3 DEF ReceiptTypeOK
  <2>2. tree[t] \in [receipt : Objects, marker : Objects, declares : {"nothing", "receipt", "marker"}]
    BY <2>1
  <2>3. tree'[t] = [tree[t] EXCEPT !.receipt = r, !.marker = m] /\ \A u \in Trees \ {t} : tree'[u] = tree[u]
    BY <1>1, <2>1
  <2>4. /\ [tree[t] EXCEPT !.receipt = r, !.marker = m] \in
              [receipt : Objects, marker : Objects, declares : {"nothing", "receipt", "marker"}]
        /\ [tree[t] EXCEPT !.receipt = r, !.marker = m].receipt = r
        /\ [tree[t] EXCEPT !.receipt = r, !.marker = m].marker = m
    BY <2>2
  <2> QED
    BY <2>2, <2>3, <2>4
<1>5. stage'[t] = s /\ (\A u \in Trees \ {t} : stage'[u] = stage[u]) /\ stage' \in [Trees -> Stages]
  BY <1>1, <1>3 DEF ReceiptTypeOK, Stages
<1>6. ReceiptTypeOK'
  <2>1. tree' \in [Trees -> [receipt : Objects, marker : Objects, declares : {"nothing", "receipt", "marker"}]]
    BY <1>1, <1>3, <1>4 DEF ReceiptTypeOK
  <2> QED
    BY <1>2, <1>3, <1>5, <2>1 DEF ReceiptTypeOK
<1>7. TreesOwn'
  <2> SUFFICES ASSUME NEW u \in Trees
               PROVE  /\ tree'[u].receipt.by = "host" => tree'[u].receipt.of = u
                      /\ Cleared(tree'[u].marker) => tree'[u].marker.of = u
                      /\ stage'[u] \in {"sealed", "up"} =>
                           \/ AsIs(u)'
                           \/ Cleared(tree'[u].marker) /\ tree'[u].receipt.by \in {"host", "tomb"}
    BY DEF TreesOwn
  <2>1. CASE u = t
    BY <2>1, <1>1, <1>4, <1>5 DEF AsIs
  <2>2. CASE u # t
    BY <2>2, <1>4, <1>5 DEF ReceiptInv, TreesOwn, AsIs
  <2> QED
    BY <2>1, <2>2
<1>8. /\ \A u \in Trees : Up(u)' <=> Up(u)
      /\ \A u \in Trees : Up(u) => u # t /\ AsIs(u)' = AsIs(u)
      /\ \A e \in Envelopes \cup {0} : Final(e) => Final(e)'
  BY <1>2, <1>4, <1>5 DEF Up, AsIs, Final
<1>9. StillToStore' /\ Alone' /\ Vouched'
  BY <1>2, <1>8 DEF ReceiptInv, StillToStore, Alone, Vouched
<1>10. reader.e \in Envelopes \cup {0} /\ stored.env \in Envelopes \cup {0}
  BY <1>3 DEF ReceiptTypeOK, Look
<1>11. ReaderSees'
  BY <1>2, <1>8, <1>10 DEF ReceiptInv, ReaderSees, Unvouched
<1>12. StoredFinal' /\ RemarkFinal' /\ ServedIsHosts'
  BY <1>2, <1>8, <1>10 DEF ReceiptInv, StoredFinal, RemarkFinal, ServedIsHosts
<1> QED
  BY <1>6, <1>7, <1>9, <1>11, <1>12 DEF ReceiptInv

LEMMA StartUploadKept ==
  ASSUME ReceiptInv, NEW t \in Trees, StartUpload(t)
  PROVE  ReceiptInv'
<1>1. /\ stage[t] = "sealed" /\ (AsIs(t) => remark.at = "idle")
      /\ \A u \in Trees \ {t} : stage[u] = "up" => ~AsIs(u) /\ ~AsIs(t)
      /\ UNCHANGED <<stored, tree, rowDone, reader, remark, deaths>>
  BY DEF StartUpload
<1>2. ReceiptTypeOK
  BY DEF ReceiptInv
<1>3. stage'[t] = "up" /\ (\A u \in Trees \ {t} : stage'[u] = stage[u]) /\ stage' \in [Trees -> Stages]
  BY <1>2 DEF StartUpload, ReceiptTypeOK, Stages
<1>4. UploadTiers(t) \in Plans
  BY DEF UploadTiers, Plans
<1>5. todo'[t] = UploadTiers(t) /\ (\A u \in Trees \ {t} : todo'[u] = todo[u]) /\ todo' \in [Trees -> Plans]
  BY <1>2, <1>4 DEF StartUpload, ReceiptTypeOK
<1>6. ReceiptTypeOK'
  BY <1>1, <1>2, <1>3, <1>5 DEF ReceiptTypeOK
<1>7. /\ \A u \in Trees : AsIs(u)' = AsIs(u)
      /\ \A u \in Trees : Up(u)' <=> Up(u) \/ u = t
      /\ ~Up(t)
      /\ \A e \in Envelopes \cup {0} : Final(e) => Final(e)'
  BY <1>1, <1>3 DEF Up, AsIs, Final
<1>8. AsIs(t) \/ Cleared(tree[t].marker)
  BY <1>1 DEF ReceiptInv, TreesOwn
<1>9. /\ AsIs(t) => todo'[t] = <<"marker", "receipt", "env">>
      /\ ~AsIs(t) => todo'[t] = <<"receipt", "marker", "env">>
  BY <1>5, <1>8 DEF UploadTiers, AsIs, Cleared
<1>10. TreesOwn'
  BY <1>1, <1>3 DEF ReceiptInv, TreesOwn, AsIs
<1>11. StillToStore'
  BY <1>5, <1>7, <1>9 DEF ReceiptInv, StillToStore
<1>12. Alone'
  BY <1>1, <1>7 DEF ReceiptInv, Alone, Up
<1>13. Vouched'
  BY <1>1, <1>5, <1>7, <1>9 DEF ReceiptInv, Vouched
<1>14. reader.e \in Envelopes \cup {0} /\ stored.env \in Envelopes \cup {0}
  BY <1>2 DEF ReceiptTypeOK, Look
<1>15. ReaderSees'
  BY <1>1, <1>7, <1>14 DEF ReceiptInv, ReaderSees, Unvouched
<1>16. StoredFinal' /\ RemarkFinal' /\ ServedIsHosts'
  BY <1>1, <1>7, <1>14 DEF ReceiptInv, StoredFinal, RemarkFinal, ServedIsHosts
<1> QED
  BY <1>6, <1>10, <1>11, <1>12, <1>13, <1>15, <1>16 DEF ReceiptInv

LEMMA UploadDiesKept ==
  ASSUME ReceiptInv, NEW t \in Trees, UploadDies(t)
  PROVE  ReceiptInv'
<1>1. /\ stage[t] = "up"
      /\ UNCHANGED <<stored, tree, rowDone, reader, remark>>
  BY DEF UploadDies
<1>2. ReceiptTypeOK
  BY DEF ReceiptInv
<1>3. stage'[t] = "held" /\ (\A u \in Trees \ {t} : stage'[u] = stage[u]) /\ stage' \in [Trees -> Stages]
  BY <1>2 DEF UploadDies, ReceiptTypeOK, Stages
<1>4. (\A u \in Trees \ {t} : todo'[u] = todo[u]) /\ todo' \in [Trees -> Plans]
  BY <1>2 DEF UploadDies, ReceiptTypeOK, Plans
<1>5. ReceiptTypeOK'
  BY <1>1, <1>2, <1>3, <1>4 DEF ReceiptTypeOK
<1>6. /\ \A u \in Trees : AsIs(u)' = AsIs(u)
      /\ \A u \in Trees : Up(u)' => Up(u) /\ u # t
      /\ \A e \in Envelopes \cup {0} : Final(e) => Final(e)'
  BY <1>1, <1>3 DEF Up, AsIs, Final
<1>7. TreesOwn'
  BY <1>1, <1>3 DEF ReceiptInv, TreesOwn, AsIs
<1>8. StillToStore' /\ Alone' /\ Vouched'
  BY <1>1, <1>4, <1>6 DEF ReceiptInv, StillToStore, Alone, Vouched
<1>9. reader.e \in Envelopes \cup {0} /\ stored.env \in Envelopes \cup {0}
  BY <1>2 DEF ReceiptTypeOK, Look
<1>10. ReaderSees'
  BY <1>1, <1>6, <1>9 DEF ReceiptInv, ReaderSees, Unvouched
<1>11. StoredFinal' /\ RemarkFinal' /\ ServedIsHosts'
  BY <1>1, <1>6, <1>9 DEF ReceiptInv, StoredFinal, RemarkFinal, ServedIsHosts
<1> QED
  BY <1>5, <1>7, <1>8, <1>10, <1>11 DEF ReceiptInv

\* What an upload stores next, by what it has still to store.
LEMMA NextObject ==
  ASSUME ReceiptInv, NEW t \in Trees, PutOne(t)
  PROVE  \/ /\ AsIs(t) /\ todo'[t] = <<"receipt", "env">> /\ stage'[t] = "up"
            /\ stored' = [stored EXCEPT !.marker = tree[t].marker]
         \/ /\ AsIs(t) /\ todo[t] = <<"receipt", "env">> /\ todo'[t] = <<"env">> /\ stage'[t] = "up"
            /\ \E r \in {stored.receipt, tree[t].receipt} : stored' = [stored EXCEPT !.receipt = r]
         \/ /\ ~AsIs(t) /\ todo'[t] = <<"marker", "env">> /\ stage'[t] = "up"
            /\ stored' = [stored EXCEPT !.receipt = tree[t].receipt]
         \/ /\ ~AsIs(t) /\ todo[t] = <<"marker", "env">> /\ todo'[t] = <<"env">> /\ stage'[t] = "up"
            /\ stored' = [stored EXCEPT !.marker = tree[t].marker]
         \/ /\ todo'[t] = << >> /\ stage'[t] = "shipped"
            /\ stored' = [stored EXCEPT !.env = t]
<1>1. /\ stage[t] = "up"
      /\ stored' = Holds(t, Head(todo[t]))
      /\ todo'[t] = Tail(todo[t])
      /\ stage'[t] = IF Len(todo[t]) = 1 THEN "shipped" ELSE "up"
  BY DEF PutOne, ReceiptInv, ReceiptTypeOK
<1>2. Holds(t, "env") = [stored EXCEPT !.env = t]
  BY DEF Holds
<1>3. Holds(t, "marker") = [stored EXCEPT !.marker = tree[t].marker]
  BY DEF Holds
<1>4. \E r \in {stored.receipt, tree[t].receipt} : Holds(t, "receipt") = [stored EXCEPT !.receipt = r]
  <2>1. stored = [stored EXCEPT !.receipt = stored.receipt]
    BY DEF ReceiptInv, ReceiptTypeOK
  <2>2. CASE tree[t].receipt = Absent
    BY <2>1, <2>2 DEF Holds
  <2>3. CASE tree[t].receipt # Absent
    BY <2>3 DEF Holds
  <2> QED
    BY <2>2, <2>3
<1>5. ~AsIs(t) => Holds(t, "receipt") = [stored EXCEPT !.receipt = tree[t].receipt]
  <2>1. ~AsIs(t) => tree[t].receipt # Absent
    BY <1>1 DEF ReceiptInv, TreesOwn, Absent
  <2> QED
    BY <2>1 DEF Holds
<1>6. \/ AsIs(t) /\ todo[t] = <<"marker", "receipt", "env">>
      \/ AsIs(t) /\ todo[t] = <<"receipt", "env">>
      \/ ~AsIs(t) /\ todo[t] = <<"receipt", "marker", "env">>
      \/ ~AsIs(t) /\ todo[t] = <<"marker", "env">>
      \/ todo[t] = <<"env">>
  BY <1>1 DEF ReceiptInv, StillToStore, Up
<1>7. CASE AsIs(t) /\ todo[t] = <<"marker", "receipt", "env">>
  <2>1. Head(todo[t]) = "marker" /\ Tail(todo[t]) = <<"receipt", "env">> /\ Len(todo[t]) # 1
    BY <1>7
  <2> QED
    BY <1>1, <1>3, <1>7, <2>1
<1>8. CASE AsIs(t) /\ todo[t] = <<"receipt", "env">>
  <2>1. Head(todo[t]) = "receipt" /\ Tail(todo[t]) = <<"env">> /\ Len(todo[t]) # 1
    BY <1>8
  <2> QED
    BY <1>1, <1>4, <1>8, <2>1
<1>9. CASE ~AsIs(t) /\ todo[t] = <<"receipt", "marker", "env">>
  <2>1. Head(todo[t]) = "receipt" /\ Tail(todo[t]) = <<"marker", "env">> /\ Len(todo[t]) # 1
    BY <1>9
  <2> QED
    BY <1>1, <1>5, <1>9, <2>1
<1>10. CASE ~AsIs(t) /\ todo[t] = <<"marker", "env">>
  <2>1. Head(todo[t]) = "marker" /\ Tail(todo[t]) = <<"env">> /\ Len(todo[t]) # 1
    BY <1>10
  <2> QED
    BY <1>1, <1>3, <1>10, <2>1
<1>11. CASE todo[t] = <<"env">>
  <2>1. Head(todo[t]) = "env" /\ Tail(todo[t]) = << >> /\ Len(todo[t]) = 1
    BY <1>11
  <2> QED
    BY <1>1, <1>2, <2>1
<1> QED
  BY <1>6, <1>7, <1>8, <1>9, <1>10, <1>11

LEMMA PutOneKept ==
  ASSUME Numbered, ReceiptInv, NEW t \in Trees, PutOne(t)
  PROVE  ReceiptInv'
<1>1. /\ Up(t)
      /\ UNCHANGED <<tree, reader, remark>>
      /\ rowDone' \in BOOLEAN
  BY DEF PutOne, ReceiptInv, ReceiptTypeOK, Up
<1>2. /\ stored \in [env : Envelopes \cup {0}, receipt : Objects, marker : Objects]
      /\ tree[t].receipt \in Objects /\ tree[t].marker \in Objects
      /\ stage \in [Trees -> Stages] /\ todo \in [Trees -> Plans]
      /\ reader.e \in Envelopes \cup {0}
  BY DEF ReceiptInv, ReceiptTypeOK, Look
<1>3. \A u \in Trees \ {t} : stage'[u] = stage[u] /\ todo'[u] = todo[u]
  BY <1>2 DEF PutOne
<1>4. /\ stage' \in [Trees -> Stages] /\ stage'[t] \in {"up", "shipped"}
      /\ \A u \in Trees : AsIs(u)' = AsIs(u)
      /\ \A u \in Trees : Up(u)' => Up(u)
      /\ \A u \in Trees : Up(u)' <=> stage'[u] = "up"
      /\ \A e \in Envelopes \cup {0} : Final(e) => Final(e)' /\ e # t
  BY <1>1, <1>2, <1>3 DEF PutOne, Stages, Up, AsIs, Final, Numbered
<1>5. TreesOwn'
  BY <1>1, <1>3, <1>4 DEF ReceiptInv, TreesOwn, AsIs, Up
<1>6. Alone'
  BY <1>1, <1>4 DEF ReceiptInv, Alone
<1>7. RemarkFinal' /\ ServedIsHosts'
  BY <1>1 DEF ReceiptInv, RemarkFinal, ServedIsHosts
<1>8. /\ tree[t].receipt.by = "host" => tree[t].receipt.of = t
      /\ Cleared(tree[t].marker) => tree[t].marker.of = t
      /\ AsIs(t) => ~Cleared(tree[t].marker)
      /\ ~AsIs(t) => Cleared(tree[t].marker) /\ ~Worker(tree[t].receipt)
      /\ AsIs(t) => remark.at = "idle" /\ \A u \in Trees : Up(u) => u = t
      /\ ~AsIs(t) => \A u \in Trees : Up(u) => ~AsIs(u)
  BY <1>1 DEF ReceiptInv, TreesOwn, Alone, Up, AsIs, Cleared, Worker
\* It is enough to say what is stored, and what is vouched for.
<1>9. ASSUME todo'[t] \in Plans,
             stored' \in [env : Envelopes \cup {0}, receipt : Objects, marker : Objects],
             StillToStore', Vouched', StoredFinal',
             stored'.receipt \in {stored.receipt, tree[t].receipt},
             stored'.marker \in {stored.marker, tree[t].marker}
      PROVE  ReceiptInv'
  <2>1. todo' \in [Trees -> Plans]
    BY <1>2, <1>3, <1>9 DEF PutOne
  <2>2. ReceiptTypeOK'
    BY <1>1, <1>4, <1>9, <2>1 DEF ReceiptInv, ReceiptTypeOK
  <2>3. ASSUME Unvouched(reader.e)
        PROVE  Unvouched(reader.e)'
    <3>1. Final(reader.e) /\ Final(reader.e)' /\ reader.e # t
      BY <1>1, <1>2, <1>4, <2>3 DEF Unvouched
    <3>2. tree[t].receipt # By("host", reader.e)
      BY <1>8, <3>1 DEF By
    <3>3. ~(Cleared(tree[t].marker) /\ tree[t].marker.of = reader.e)
      BY <1>8, <3>1
    <3> QED
      BY <1>1, <1>9, <2>3, <3>1, <3>2, <3>3 DEF Unvouched
  <2>4. ReaderSees'
    BY <1>1, <1>2, <1>4, <2>3 DEF ReceiptInv, ReaderSees
  <2> QED
    BY <1>5, <1>6, <1>7, <1>9, <2>2, <2>4 DEF ReceiptInv
<1>10. /\ <<"receipt", "env">> \in Plans /\ <<"env">> \in Plans /\ <<"marker", "env">> \in Plans /\ << >> \in Plans
  BY DEF Plans
<1>11. \A u \in Trees \ {t} : Up(u)' =>
         /\ AsIs(u) => todo'[u] \in {<<"marker", "receipt", "env">>, <<"receipt", "env">>, <<"env">>}
         /\ ~AsIs(u) => todo'[u] \in {<<"receipt", "marker", "env">>, <<"marker", "env">>, <<"env">>}
  BY <1>3, <1>4 DEF ReceiptInv, StillToStore
<1>12. Vouched /\ StoredFinal
  BY DEF ReceiptInv
<1>13. CASE /\ AsIs(t) /\ todo'[t] = <<"receipt", "env">> /\ stage'[t] = "up"
            /\ stored' = [stored EXCEPT !.marker = tree[t].marker]
  <2>1. /\ stored'.env = stored.env /\ stored'.receipt = stored.receipt /\ stored'.marker = tree[t].marker
        /\ stored' \in [env : Envelopes \cup {0}, receipt : Objects, marker : Objects]
    BY <1>2, <1>13
  <2>2. StillToStore'
    BY <1>4, <1>11, <1>13 DEF StillToStore
  <2>3. Vouched'
    BY <1>1, <1>3, <1>4, <1>8, <1>12, <1>13, <2>1 DEF Vouched
  <2>4. StoredFinal'
    BY <1>2, <1>4, <1>8, <1>12, <1>13, <2>1 DEF StoredFinal
  <2> QED
    BY <1>9, <1>10, <1>13, <2>1, <2>2, <2>3, <2>4
<1>14. CASE /\ AsIs(t) /\ todo[t] = <<"receipt", "env">> /\ todo'[t] = <<"env">> /\ stage'[t] = "up"
            /\ \E r \in {stored.receipt, tree[t].receipt} : stored' = [stored EXCEPT !.receipt = r]
  <2>1. /\ stored'.env = stored.env /\ stored'.marker = stored.marker
        /\ stored'.receipt \in {stored.receipt, tree[t].receipt}
        /\ stored' \in [env : Envelopes \cup {0}, receipt : Objects, marker : Objects]
    BY <1>2, <1>14
  <2>2. StillToStore'
    BY <1>4, <1>11, <1>14 DEF StillToStore
  <2>3. ~Cleared(stored.marker)
    BY <1>1, <1>12, <1>14 DEF Vouched
  <2>4. Vouched'
    BY <1>1, <1>3, <1>4, <1>8, <1>12, <1>14, <2>1, <2>3 DEF Vouched
  <2>5. StoredFinal'
    BY <1>2, <1>4, <1>12, <2>1 DEF StoredFinal
  <2> QED
    BY <1>9, <1>10, <1>14, <2>1, <2>2, <2>4, <2>5
<1>15. CASE /\ ~AsIs(t) /\ todo'[t] = <<"marker", "env">> /\ stage'[t] = "up"
            /\ stored' = [stored EXCEPT !.receipt = tree[t].receipt]
  <2>1. /\ stored'.env = stored.env /\ stored'.marker = stored.marker /\ stored'.receipt = tree[t].receipt
        /\ stored' \in [env : Envelopes \cup {0}, receipt : Objects, marker : Objects]
    BY <1>2, <1>15
  <2>2. StillToStore'
    BY <1>4, <1>11, <1>15 DEF StillToStore
  <2>3. ~Worker(stored'.receipt)
    BY <1>8, <1>15, <2>1
  <2>4. \A u \in Trees : Up(u)' => ~AsIs(u)'
    BY <1>4, <1>8, <1>15
  <2>5. Vouched'
    BY <2>3, <2>4 DEF Vouched
  <2>6. StoredFinal'
    BY <1>2, <1>4, <1>12, <2>1 DEF StoredFinal
  <2> QED
    BY <1>9, <1>10, <1>15, <2>1, <2>2, <2>5, <2>6
<1>16. CASE /\ ~AsIs(t) /\ todo[t] = <<"marker", "env">> /\ todo'[t] = <<"env">> /\ stage'[t] = "up"
            /\ stored' = [stored EXCEPT !.marker = tree[t].marker]
  <2>1. /\ stored'.env = stored.env /\ stored'.receipt = stored.receipt /\ stored'.marker = tree[t].marker
        /\ stored' \in [env : Envelopes \cup {0}, receipt : Objects, marker : Objects]
    BY <1>2, <1>16
  <2>2. StillToStore'
    BY <1>4, <1>11, <1>16 DEF StillToStore
  <2>3. ~Worker(stored.receipt)
    BY <1>1, <1>12, <1>16 DEF Vouched
  <2>4. Vouched'
    BY <1>1, <1>3, <1>4, <1>8, <1>12, <1>16, <2>1, <2>3 DEF Vouched
  <2>5. StoredFinal'
    BY <1>2, <1>4, <1>8, <1>12, <1>16, <2>1 DEF StoredFinal, Numbered
  <2> QED
    BY <1>9, <1>10, <1>16, <2>1, <2>2, <2>4, <2>5
<1>17. CASE /\ todo'[t] = << >> /\ stage'[t] = "shipped" /\ stored' = [stored EXCEPT !.env = t]
  <2>1. /\ stored'.env = t /\ stored'.receipt = stored.receipt /\ stored'.marker = stored.marker
        /\ stored' \in [env : Envelopes \cup {0}, receipt : Objects, marker : Objects]
    BY <1>2, <1>17 DEF Envelopes
  <2>2. ~Up(t)'
    BY <1>4, <1>17
  <2>3. StillToStore'
    BY <1>4, <1>11, <2>2 DEF StillToStore
  <2>4. Vouched'
    BY <1>1, <1>3, <1>4, <1>12, <2>1, <2>2 DEF Vouched
  <2>5. StoredFinal'
    BY <1>12, <1>17, <2>1 DEF StoredFinal, Final
  <2> QED
    BY <1>9, <1>10, <1>17, <2>1, <2>3, <2>4, <2>5
<1> QED
  BY <1>13, <1>14, <1>15, <1>16, <1>17, NextObject

LEMMA RemarkKept ==
  ASSUME ReceiptInv, RemarkReads \/ RemarkVerifies \/ RemarkStores
  PROVE  ReceiptInv'
<1>1. UNCHANGED <<tree, stage, todo, rowDone, reader, deaths>>
  BY DEF RemarkReads, RemarkVerifies, RemarkStores
<1>2. /\ ReceiptTypeOK
      /\ stored \in [env : Envelopes \cup {0}, receipt : Objects, marker : Objects]
      /\ remark \in Look({"idle", "env", "mark"})
  BY DEF ReceiptInv, ReceiptTypeOK
<1>3. /\ \A u \in Trees : (AsIs(u)' = AsIs(u)) /\ (Up(u)' = Up(u))
      /\ \A e : Final(e)' = Final(e)
  BY <1>1 DEF AsIs, Up, Final
<1>4. TreesOwn' /\ StillToStore' /\ ServedIsHosts'
  BY <1>1, <1>3 DEF ReceiptInv, TreesOwn, StillToStore, ServedIsHosts
<1>5. CASE RemarkReads
  <2>1. /\ UNCHANGED stored /\ remark.at = "idle"
        /\ \A t \in Trees : Up(t) => ~AsIs(t)
        /\ remark' = [remark EXCEPT !.at = "env", !.m = stored.marker, !.e = stored.env]
    BY <1>5 DEF RemarkReads, Up
  <2>2. remark'.at = "env" /\ remark' \in Look({"idle", "env", "mark"})
    BY <1>2, <2>1 DEF Look
  <2>3. ReceiptTypeOK'
    BY <1>1, <1>2, <2>1, <2>2 DEF ReceiptTypeOK
  <2>4. Alone' /\ RemarkFinal'
    BY <1>3, <2>1, <2>2 DEF Alone, RemarkFinal
  <2>5. Vouched' /\ StoredFinal'
    BY <1>1, <1>3, <2>1, <2>2 DEF ReceiptInv, Vouched, StoredFinal
  <2>6. ReaderSees'
    BY <1>1, <1>3, <2>1, <2>2 DEF ReceiptInv, ReaderSees, Unvouched
  <2> QED
    BY <1>4, <2>3, <2>4, <2>5, <2>6 DEF ReceiptInv
<1>6. CASE RemarkVerifies
  <2>1. /\ UNCHANGED stored /\ remark.at = "env"
        /\ remark' = IF Verifies(stored.receipt, remark.e)
                     THEN [remark EXCEPT !.at = "mark", !.r = stored.receipt] ELSE Idle0
    BY <1>6 DEF RemarkVerifies
  <2>2. Idle0 \in Look({"idle", "env", "mark"}) /\ Idle0.at = "idle"
    BY ObjectsMade DEF Look
  <2>3. /\ remark' \in Look({"idle", "env", "mark"})
        /\ remark'.at = "mark" => remark'.e = remark.e /\ Verifies(stored.receipt, remark.e)
    BY <1>2, <2>1, <2>2 DEF Look
  <2>4. ReceiptTypeOK'
    BY <1>1, <1>2, <2>1, <2>3 DEF ReceiptTypeOK
  <2>5. \A t \in Trees : ~(Up(t) /\ AsIs(t))
    BY <2>1 DEF ReceiptInv, Alone
  <2>6. Alone' /\ RemarkFinal'
    BY <1>3, <2>3, <2>5 DEF Alone, RemarkFinal, Verifies
  <2>7. remark'.at = "mark" => stored.receipt = By("host", remark'.e) /\ ~Worker(stored.receipt)
    BY <2>3 DEF Verifies, By, Worker
  <2>8. Vouched' /\ StoredFinal'
    BY <1>1, <1>3, <2>1, <2>7 DEF ReceiptInv, Vouched, StoredFinal
  <2>9. ReaderSees'
    BY <1>1, <1>3, <2>1, <2>7 DEF ReceiptInv, ReaderSees, Unvouched
  <2> QED
    BY <1>4, <2>4, <2>6, <2>8, <2>9 DEF ReceiptInv
<1>7. CASE RemarkStores
  <2>1. /\ remark.at = "mark" /\ remark' = Idle0
        /\ stored' = [stored EXCEPT !.marker = By("cleared", remark.e)]
    BY <1>7 DEF RemarkStores
  <2>2. By("cleared", remark.e) \in Objects /\ remark.e # 0
    BY <1>2, <2>1, ObjectsMade DEF Look, ReceiptInv, RemarkFinal
  <2>3. /\ stored' \in [env : Envelopes \cup {0}, receipt : Objects, marker : Objects]
        /\ stored'.env = stored.env /\ stored'.receipt = stored.receipt
        /\ stored'.marker = By("cleared", remark.e)
    BY <1>2, <2>1, <2>2
  <2>4. stored'.marker.of = remark.e
    BY <2>3 DEF By
  <2>5. Idle0 \in Look({"idle", "env", "mark"}) /\ Idle0.at = "idle"
    BY ObjectsMade DEF Look
  <2>6. ReceiptTypeOK'
    BY <1>1, <1>2, <2>1, <2>3, <2>5 DEF ReceiptTypeOK
  <2>7. \A t \in Trees : ~(Up(t) /\ AsIs(t))
    BY <2>1 DEF ReceiptInv, Alone
  <2>8. Alone' /\ RemarkFinal'
    BY <1>3, <2>1, <2>5, <2>7 DEF Alone, RemarkFinal
  <2>9. ~Worker(stored.receipt)
    BY <2>1 DEF ReceiptInv, Vouched
  <2>10. Vouched'
    BY <1>3, <2>1, <2>3, <2>5, <2>7, <2>9 DEF Vouched
  <2>11. StoredFinal'
    BY <1>3, <2>2, <2>3, <2>4 DEF ReceiptInv, StoredFinal
  <2>12. ReaderSees'
    BY <1>1, <1>3, <2>1, <2>3, <2>4, <2>5 DEF ReceiptInv, ReaderSees, Unvouched
  <2> QED
    BY <1>4, <2>6, <2>8, <2>10, <2>11, <2>12 DEF ReceiptInv
<1> QED
  BY <1>5, <1>6, <1>7

\* The reader changes nothing but what it has read.
LEMMA ReaderKept ==
  ASSUME ReceiptInv,
         \/ RouteReadsMarker \/ RouteReadsEnvelope \/ RouteReadsReceipt \/ RouteServes
         \/ ClientVerifies \/ ClientLosesAnswer \/ ClientRetries
  PROVE  ReceiptInv'
<1>1. UNCHANGED <<stored, tree, stage, todo, rowDone, remark, deaths>>
  BY DEF RouteReadsMarker, RouteReadsEnvelope, RouteReadsReceipt, RouteServes, ClientVerifies,
         ClientLosesAnswer, ClientRetries
<1> DEFINE States == {"idle", "env", "receipt", "again", "served", "verified", "refused", "retry"}
<1>2. /\ ReceiptTypeOK /\ ReaderSees /\ StoredFinal /\ ServedIsHosts /\ Vouched
      /\ stored \in [env : Envelopes \cup {0}, receipt : Objects, marker : Objects]
      /\ reader \in Look(States)
  BY DEF ReceiptInv, ReceiptTypeOK
<1>3. /\ \A u \in Trees : (AsIs(u)' = AsIs(u)) /\ (Up(u)' = Up(u))
      /\ \A e : (Final(e)' = Final(e)) /\ (Unvouched(e)' = Unvouched(e))
  BY <1>1 DEF AsIs, Up, Final, Unvouched
<1>4. TreesOwn' /\ StillToStore' /\ Alone' /\ Vouched' /\ StoredFinal' /\ RemarkFinal'
  BY <1>1, <1>3 DEF ReceiptInv, TreesOwn, StillToStore, Alone, Vouched, StoredFinal, RemarkFinal
<1>5. /\ Idle0 \in Look(States) /\ Refused \in Look(States) /\ Retryable \in Look(States)
      /\ Idle0.at = "idle" /\ Refused.at = "refused" /\ Retryable.at = "retry"
  BY ObjectsMade DEF Look
\* It is enough to say what the reader holds.
<1>6. ASSUME reader' \in Look(States), ReaderSees', ServedIsHosts'
      PROVE  ReceiptInv'
  <2>1. ReceiptTypeOK'
    BY <1>1, <1>2, <1>6 DEF ReceiptTypeOK
  <2> QED
    BY <1>4, <1>6, <2>1 DEF ReceiptInv
<1>7. CASE reader' \in {Idle0, Refused, Retryable}
  BY <1>5, <1>6, <1>7 DEF ReaderSees, ServedIsHosts
<1> HIDE DEF States
<1>8. CASE RouteReadsMarker
  <2>1. CASE Cleared(stored.marker)
    <3>1. reader' = [reader EXCEPT !.at = "env", !.m = stored.marker]
      BY <1>8, <2>1 DEF RouteReadsMarker
    <3>2. reader' \in Look(States) /\ reader'.at = "env" /\ reader'.m = stored.marker
      BY <1>2, <3>1 DEF Look, States
    <3>3. ReaderSees' /\ ServedIsHosts'
      BY <1>2, <2>1, <3>2 DEF ReaderSees, ServedIsHosts, Cleared, StoredFinal
    <3> QED
      BY <1>6, <3>2, <3>3
  <2>2. CASE ~Cleared(stored.marker)
    BY <1>7, <1>8, <2>2 DEF RouteReadsMarker
  <2> QED
    BY <2>1, <2>2
<1>9. CASE RouteReadsEnvelope
  <2>1. reader.at = "env"
    BY <1>9 DEF RouteReadsEnvelope
  <2>2. CASE stored.env = reader.m.of /\ ~Declares(stored.env)
    <3>1. reader' = [reader EXCEPT !.at = "receipt", !.e = stored.env]
      BY <1>9, <2>2 DEF RouteReadsEnvelope
    <3>2. reader' \in Look(States) /\ reader'.at = "receipt" /\ reader'.m = reader.m
          /\ reader'.e = stored.env
      BY <1>2, <3>1 DEF Look, States
    <3>3. Cleared(reader.m) /\ reader.m.of = stored.env
      BY <1>2, <2>1, <2>2 DEF ReaderSees
    <3>4. stored.env # 0
      BY <1>2, <2>1, <3>3 DEF ReaderSees
    <3>5. Final(stored.env)
      BY <1>2, <3>4 DEF StoredFinal
    <3>6. ReaderSees' /\ ServedIsHosts'
      BY <1>3, <3>2, <3>3, <3>4, <3>5 DEF ReaderSees, ServedIsHosts, Cleared
    <3> QED
      BY <1>6, <3>2, <3>6
  <2>3. CASE ~(stored.env = reader.m.of /\ ~Declares(stored.env))
    <3>1. reader' = Refused
      BY <1>9, <2>3 DEF RouteReadsEnvelope
    <3> QED
      BY <1>7, <3>1
  <2> QED
    BY <2>2, <2>3
<1>10. CASE RouteReadsReceipt
  <2>1. reader.at = "receipt"
    BY <1>10 DEF RouteReadsReceipt
  <2>2. CASE stored.receipt.by \in {"host", "worker"}
    <3>1. reader' = [reader EXCEPT !.at = "again", !.r = stored.receipt]
      BY <1>10, <2>2 DEF RouteReadsReceipt
    <3>2. reader' \in Look(States) /\ reader'.at = "again" /\ reader'.m = reader.m
          /\ reader'.e = reader.e /\ reader'.r = stored.receipt
      BY <1>2, <3>1 DEF Look, States
    <3>3. Cleared(reader.m) /\ reader.m.of = reader.e /\ reader.m.of # 0 /\ Final(reader.e)
      BY <1>2, <2>1 DEF ReaderSees
    <3>4. Worker(stored.receipt) => Unvouched(reader.e)
      BY <1>2, <3>3 DEF Vouched, Unvouched, Worker, By
    <3>5. ReaderSees' /\ ServedIsHosts'
      BY <1>3, <2>2, <3>2, <3>3, <3>4 DEF ReaderSees, ServedIsHosts, Cleared, Worker
    <3> QED
      BY <1>6, <3>2, <3>5
  <2>3. CASE stored.receipt.by \notin {"host", "worker"}
    <3>1. reader' = Refused
      BY <1>10, <2>3 DEF RouteReadsReceipt
    <3> QED
      BY <1>7, <3>1
  <2> QED
    BY <2>2, <2>3
<1>11. CASE RouteServes
  <2>1. reader.at = "again"
    BY <1>11 DEF RouteServes
  <2>2. CASE AgainAgrees(stored.marker)
    <3>1. reader' = [reader EXCEPT !.at = "served"]
      BY <1>11, <2>2 DEF RouteServes
    <3>2. reader' \in Look(States) /\ reader'.at = "served" /\ reader'.m = reader.m
          /\ reader'.e = reader.e /\ reader'.r = reader.r
      BY <1>2, <3>1 DEF Look, States
    <3>3. Cleared(reader.m) /\ reader.m.of = reader.e /\ reader.m.of # 0 /\ stored.marker = reader.m
      BY <1>2, <2>1, <2>2 DEF ReaderSees, AgainAgrees
    <3>4. ~Worker(reader.r)
      BY <1>2, <2>1, <3>3 DEF ReaderSees, Unvouched
    <3>5. reader.r.by = "host"
      BY <1>2, <2>1, <3>4 DEF ReaderSees, Worker
    <3>6. Final(reader.e)
      BY <1>2, <2>1 DEF ReaderSees
    <3>7. ReaderSees' /\ ServedIsHosts'
      BY <1>3, <3>2, <3>3, <3>5, <3>6 DEF ReaderSees, ServedIsHosts, Cleared
    <3> QED
      BY <1>6, <3>2, <3>7
  <2>3. CASE ~AgainAgrees(stored.marker)
    <3>1. reader' = Retryable
      BY <1>11, <2>3 DEF RouteServes
    <3> QED
      BY <1>7, <3>1
  <2> QED
    BY <2>2, <2>3
<1>12. CASE ClientVerifies
  <2>1. reader.at = "served"
    BY <1>12 DEF ClientVerifies
  <2>2. CASE SignatureVerifies(reader.r) /\ MetadataMatches(reader.r, stored.env)
    <3>1. reader' = [reader EXCEPT !.at = "verified", !.sees = stored.env]
      BY <1>12, <2>2 DEF ClientVerifies
    <3>2. reader' \in Look(States) /\ reader'.at = "verified" /\ reader'.m = reader.m
          /\ reader'.e = reader.e /\ reader'.r = reader.r /\ reader'.sees = stored.env
      BY <1>2, <3>1 DEF Look, States
    <3>3. ReaderSees'
      BY <1>2, <1>3, <2>1, <3>2 DEF ReaderSees, Cleared
    <3>4. ServedIsHosts'
      BY <1>2, <2>1, <2>2, <3>2 DEF ServedIsHosts, MetadataMatches
    <3> QED
      BY <1>6, <3>2, <3>3, <3>4
  <2>3. CASE ~(SignatureVerifies(reader.r) /\ MetadataMatches(reader.r, stored.env))
    <3>1. reader' = Refused
      BY <1>12, <2>3 DEF ClientVerifies
    <3> QED
      BY <1>7, <3>1
  <2> QED
    BY <2>2, <2>3
<1>13. CASE ClientLosesAnswer \/ ClientRetries
  BY <1>7, <1>13 DEF ClientLosesAnswer, ClientRetries
<1> QED
  BY <1>8, <1>9, <1>10, <1>11, <1>12, <1>13

LEMMA ReceiptStutters ==
  ASSUME ReceiptInv, UNCHANGED receiptVars
  PROVE  ReceiptInv'
BY DEF receiptVars, ReceiptInv, ReceiptTypeOK, TreesOwn, StillToStore, Alone, Vouched, ReaderSees, StoredFinal,
       RemarkFinal, ServedIsHosts, Unvouched, Final, Up, AsIs

LEMMA ReceiptStep ==
  ASSUME Numbered, ReceiptInv, [ReceiptNext]_receiptVars
  PROVE  ReceiptInv'
<1>1. ASSUME NEW t \in Trees,
             SealFresh(t) \/ SealFreshFails(t) \/ SanitiseHeld(t) \/ MigrateLegacy(t)
      PROVE  ReceiptInv'
  BY <1>1, SealingReadies, ReadiedKept
<1>2. ASSUME NEW t \in Trees, StartUpload(t) \/ PutOne(t) \/ UploadDies(t)
      PROVE  ReceiptInv'
  BY <1>2, StartUploadKept, PutOneKept, UploadDiesKept
<1> QED
  BY <1>1, <1>2, RemarkKept, ReaderKept, ReceiptStutters DEF ReceiptNext

\* What the attestation route serves was written by a host, never by a worker, however
\* uploads, re-uploads and re-marking passes land between its four reads; and a pair the
\* client verified is one receipt over exactly those metadata bytes (get_attestation,
\* _upload_tiers, remark_stored_receipts, fetch_and_verify).
THEOREM ServedStaysHosts ==
  ASSUME Numbered
  PROVE  ReceiptSpec => []ServedIsHosts
<1>1. ReceiptInit => ReceiptInv
  BY ReceiptInitially
<1>2. ReceiptInv /\ [ReceiptNext]_receiptVars => ReceiptInv'
  BY ReceiptStep
<1>3. ReceiptInv => ServedIsHosts
  BY DEF ReceiptInv
<1> QED
  BY <1>1, <1>2, <1>3, PTL DEF ReceiptSpec

-------------------------------------------------------------------------------
\* The boot gate

\* A number of canaries; and no store is called what the empty registry row holds.
BootConstants == MaxProbes \in Nat /\ \A p \in Procs : Fingerprint(p) # None

Phases == {"down", "probing", "checking", "serving", "unreadable", "disagreeing"}
Seals == {NoSeal} \cup (Procs \X (0..MaxProbes) \X BOOLEAN)
Probes == [at : {"idle", "put", "has", "open", "missed", "matched"}, key : CanaryKeys \cup {NoSeal},
           seal : Seals, racey : BOOLEAN]

BootTypeOK ==
  /\ objects \in [Stores -> [CanaryKeys -> Seals]]
  /\ phase \in [Procs -> Phases]
  /\ probe \in [Procs -> Probes]
  /\ probes \in [Procs -> 0..MaxProbes]

\* The store a process reads is the one it writes.
Reads(p) == ReadsFrom[p] = WritesTo[p]

\* A seal lies in the store its process writes to.
SealsPlaced ==
  \A s \in Stores, k \in CanaryKeys : objects[s][k] # NoSeal => WritesTo[objects[s][k][1]] = s

\* A probe under way has a key: the shared one, which may race, or one of its own.
Keyed(p) ==
  probe[p].at # "idle" =>
    /\ probes[p] >= 1
    /\ phase[p] \in {"probing", "serving"} /\ p \in Dispatchers
    /\ probe[p].key = IF probe[p].racey THEN <<KeyOf[p], 0>> ELSE UniqueKey(p, probes[p])

\* What a probe has written, and what its look at the store says of the process.
Judged(p) ==
  /\ probe[p].at \in {"has", "open"} => probe[p].seal # NoSeal /\ probe[p].seal[1] = p
  /\ probe[p].at = "matched" => Reads(p)
  /\ probe[p].at = "missed" /\ ~probe[p].racey => ~Reads(p)

\* A key of its own still holds what the probe wrote there.
KeptApart(p) ==
  probe[p].at \in {"has", "open"} /\ ~probe[p].racey =>
    objects[WritesTo[p]][probe[p].key] = probe[p].seal

\* A dispatcher that has come to the agreement has read back what it wrote.
ReadItself(p) == p \in Dispatchers /\ phase[p] \in {"checking", "serving", "disagreeing"} => Reads(p)

\* The registry names the store of a process; of all that serve.
Registered ==
  /\ registry # None => \E q \in Procs : registry = Fingerprint(q)
  /\ \A p \in Procs : phase[p] = "serving" => registry = Fingerprint(p)

BootInv ==
  /\ BootTypeOK /\ SealsPlaced /\ Registered
  /\ \A p \in Procs : Keyed(p) /\ Judged(p) /\ KeptApart(p) /\ ReadItself(p)
  /\ BootGateExact

LEMMA SealIsNone == \A a, b, c : <<a, b, c>> # NoSeal /\ <<a, b, c>>[1] = a
BY DEF NoSeal

LEMMA BootInitially ==
  ASSUME BootConstants
  PROVE  BootInit => BootInv
<1> SUFFICES ASSUME BootInit PROVE BootInv
  OBVIOUS
<1>1. NoProbe \in Probes /\ NoProbe.at = "idle"
  BY DEF NoProbe, Probes, Seals, NoSeal
<1>2. BootTypeOK
  BY <1>1 DEF BootInit, BootTypeOK, Phases, Seals, BootConstants
<1>3. SealsPlaced /\ Registered
  BY DEF BootInit, SealsPlaced, Registered
<1>4. \A p \in Procs : probe[p].at = "idle" /\ phase[p] = "down"
  BY <1>1 DEF BootInit
<1>5. \A p \in Procs : Keyed(p) /\ Judged(p) /\ KeptApart(p) /\ ReadItself(p)
  BY <1>4 DEF Keyed, Judged, KeptApart, ReadItself
<1>6. BootGateExact
  BY <1>4 DEF BootGateExact, Procs
<1> QED
  BY <1>2, <1>3, <1>5, <1>6 DEF BootInv

\* The gate is exact when every phase a process may be in was earned.
LEMMA GateFollows ==
  ASSUME BootConstants, Registered, \A p \in Procs : ReadItself(p),
         \A p \in Procs : phase[p] = "unreadable" => ~Reads(p),
         \A p \in Procs : phase[p] = "disagreeing" => \E q \in Procs : Fingerprint(q) # Fingerprint(p)
  PROVE  BootGateExact
BY DEF Registered, ReadItself, Reads, BootGateExact, Procs

\* A step of one process, which leaves the others where they are.
OthersStand(p) ==
  \A q \in Procs \ {p} : phase'[q] = phase[q] /\ probe'[q] = probe[q] /\ probes'[q] = probes[q]

\* Which keys may be one: the shared ones of two processes, or a process's own key.
LEMMA OwnKeys ==
  ASSUME NEW p \in Procs, NEW q \in Procs, NEW n \in Nat, NEW m \in Nat, n >= 1, p # q
  PROVE  /\ UniqueKey(p, n) # UniqueKey(q, m)
         /\ UniqueKey(p, n) # <<KeyOf[q], 0>>
BY DEF UniqueKey

\* What another process does to the store leaves a probe's own key alone.
LEMMA ElsewhereKept ==
  ASSUME BootConstants, BootInv, NEW p \in Procs, NEW q \in Procs \ {p},
         probe[p].at # "idle", NEW seal \in Seals,
         \/ UNCHANGED objects
         \/ objects' = [objects EXCEPT ![WritesTo[p]][probe[p].key] = seal],
         probe'[q] = probe[q], probes'[q] = probes[q], phase'[q] = phase[q]
  PROVE  Keyed(q)' /\ Judged(q)' /\ KeptApart(q)' /\ ReadItself(q)'
<1>1. Keyed(p) /\ Keyed(q) /\ Judged(q) /\ KeptApart(q) /\ ReadItself(q) /\ BootTypeOK
  BY DEF BootInv
<1>2. Keyed(q)' /\ Judged(q)' /\ ReadItself(q)'
  BY <1>1 DEF Keyed, Judged, ReadItself, Reads
<1>3. ASSUME probe[q].at \in {"has", "open"}, ~probe[q].racey
      PROVE  objects'[WritesTo[q]][probe[q].key] = probe[q].seal
  <2>1. probe[q].key = UniqueKey(q, probes[q]) /\ probes[q] >= 1
    BY <1>1, <1>3 DEF Keyed
  <2>2. probe[p].key \in {<<KeyOf[p], 0>>, UniqueKey(p, probes[p])}
    BY <1>1 DEF Keyed
  <2>3. probes[q] \in Nat /\ probes[p] \in Nat
    BY <1>1 DEF BootTypeOK, BootConstants
  <2>4. probe[p].key # probe[q].key
    BY <2>1, <2>2, <2>3, OwnKeys
  <2>5. objects[WritesTo[q]][probe[q].key] = probe[q].seal
    BY <1>1, <1>3 DEF KeptApart
  <2>6. WritesTo[q] \in Stores /\ objects[WritesTo[q]] \in [CanaryKeys -> Seals] /\ objects \in [Stores -> [CanaryKeys -> Seals]]
    BY <1>1 DEF BootTypeOK, Stores
  <2>7. CASE objects' = [objects EXCEPT ![WritesTo[p]][probe[p].key] = seal]
    BY <2>4, <2>5, <2>6, <2>7
  <2> QED
    BY <2>5, <2>7
<1> QED
  BY <1>2, <1>3 DEF KeptApart

\* A step of one process is safe if it leaves the process itself in order.
LEMMA OneProcess ==
  ASSUME BootConstants, BootInv, NEW p \in Procs, OthersStand(p),
         BootTypeOK', SealsPlaced', Registered',
         \/ UNCHANGED objects
         \/ /\ probe[p].at # "idle"
            /\ \E seal \in Seals : objects' = [objects EXCEPT ![WritesTo[p]][probe[p].key] = seal],
         Keyed(p)', Judged(p)', KeptApart(p)', ReadItself(p)',
         phase'[p] = "unreadable" => phase[p] = "unreadable" \/ ~Reads(p),
         phase'[p] = "disagreeing" =>
           phase[p] = "disagreeing" \/ \E q \in Procs : Fingerprint(q) # Fingerprint(p)
  PROVE  BootInv'
<1>1. ASSUME NEW q \in Procs
      PROVE  Keyed(q)' /\ Judged(q)' /\ KeptApart(q)' /\ ReadItself(q)'
  <2>1. CASE q = p
    BY <2>1
  <2>2. CASE q # p /\ UNCHANGED objects
    <3>1. probe'[q] = probe[q] /\ probes'[q] = probes[q] /\ phase'[q] = phase[q]
      BY <2>2 DEF OthersStand
    <3>2. Keyed(q) /\ Judged(q) /\ KeptApart(q) /\ ReadItself(q)
      BY DEF BootInv
    <3> QED
      BY <2>2, <3>1, <3>2 DEF Keyed, Judged, KeptApart, ReadItself, Reads
  <2>3. CASE q # p /\ ~UNCHANGED objects
    <3>1. probe'[q] = probe[q] /\ probes'[q] = probes[q] /\ phase'[q] = phase[q]
      BY <2>3 DEF OthersStand
    <3>2. PICK seal \in Seals : objects' = [objects EXCEPT ![WritesTo[p]][probe[p].key] = seal]
      BY <2>3
    <3> QED
      BY <2>3, <3>1, <3>2, ElsewhereKept
  <2> QED
    BY <2>1, <2>2, <2>3
<1>2. /\ \A q \in Procs : phase[q] = "unreadable" => ~Reads(q)
      /\ \A q \in Procs : phase[q] = "disagreeing" => \E r \in Procs : Fingerprint(r) # Fingerprint(q)
  BY DEF BootInv, BootGateExact, Reads
<1>3. \A q \in Procs : phase'[q] = "unreadable" => ~Reads(q)
  BY <1>2 DEF OthersStand
<1>4. \A q \in Procs : phase'[q] = "disagreeing" => \E r \in Procs : Fingerprint(r) # Fingerprint(q)
  <2>1. \A q \in Procs \ {p} : phase'[q] = "disagreeing" => \E r \in Procs : Fingerprint(r) # Fingerprint(q)
    BY <1>2 DEF OthersStand
  <2>2. phase'[p] = "disagreeing" => \E r \in Procs : Fingerprint(r) # Fingerprint(p)
    BY <1>2
  <2> QED
    BY <2>1, <2>2
<1>5. BootGateExact'
  BY <1>1, <1>3, <1>4 DEF Registered, ReadItself, Reads, BootGateExact, Procs, Fingerprint
<1> QED
  BY <1>1, <1>5 DEF BootInv

\* The store keeps its type, and its seals their place, when a process writes its own
\* seal there or clears a key.
LEMMA WritesPlaced ==
  ASSUME BootConstants, BootInv, NEW p \in Procs, probe[p].at # "idle", NEW seal \in Seals,
         seal # NoSeal => seal[1] = p,
         objects' = [objects EXCEPT ![WritesTo[p]][probe[p].key] = seal]
  PROVE  objects' \in [Stores -> [CanaryKeys -> Seals]] /\ SealsPlaced'
<1>1. BootTypeOK /\ SealsPlaced
  BY DEF BootInv
<1>2. objects \in [Stores -> [CanaryKeys -> Seals]] /\ WritesTo[p] \in Stores
  BY <1>1 DEF BootTypeOK, Stores
<1>3. \A s \in Stores, k \in CanaryKeys :
        objects'[s][k] = IF s = WritesTo[p] /\ k = probe[p].key THEN seal ELSE objects[s][k]
  BY <1>2
<1> QED
  BY <1>1, <1>2, <1>3 DEF SealsPlaced

LEMMA BeginKept ==
  ASSUME BootConstants, BootInv, NEW p \in Procs, Boot(p) \/ PeriodicCanary(p)
  PROVE  BootInv'
<1>1. BootTypeOK /\ probes[p] \in 0..MaxProbes /\ probes[p] < MaxProbes /\ MaxProbes \in Nat
  BY DEF BootInv, BootTypeOK, Boot, PeriodicCanary, BootConstants
<1>2. /\ UNCHANGED <<objects, registry>>
      /\ probes' = [probes EXCEPT ![p] = @ + 1]
  BY DEF Boot, PeriodicCanary
<1>3. probes' \in [Procs -> 0..MaxProbes] /\ probes'[p] >= 1
  BY <1>1, <1>2 DEF BootTypeOK
<1>4. SealsPlaced' /\ (registry # None => \E q \in Procs : registry = Fingerprint(q))
  BY <1>2 DEF BootInv, SealsPlaced, Registered
<1> DEFINE begun == [at |-> "put", key |-> <<KeyOf[p], 0>>, seal |-> NoSeal, racey |-> TRUE]
<1>5. begun \in Probes /\ begun.at = "put" /\ begun.racey = TRUE /\ begun.key = <<KeyOf[p], 0>>
  BY DEF Probes, Seals, CanaryKeys
<1> HIDE DEF begun
<1>6. CASE Boot(p) /\ p \in Dispatchers
  <2>1. /\ phase[p] = "down"
        /\ phase' = [phase EXCEPT ![p] = "probing"]
        /\ probe' = [probe EXCEPT ![p] = begun]
    BY <1>6 DEF Boot, Begin, begun
  <2>2. phase'[p] = "probing" /\ probe'[p] = begun
    BY <1>1, <2>1 DEF BootTypeOK
  <2>3. BootTypeOK' /\ OthersStand(p)
    BY <1>1, <1>2, <1>3, <1>5, <2>1 DEF BootTypeOK, OthersStand, Phases
  <2>4. Registered'
    BY <1>1, <1>2, <2>1 DEF BootInv, Registered, BootTypeOK
  <2>5. Keyed(p)' /\ Judged(p)' /\ KeptApart(p)' /\ ReadItself(p)'
    BY <1>3, <1>5, <1>6, <2>2 DEF Keyed, Judged, KeptApart, ReadItself
  <2> QED
    BY <1>2, <1>4, <2>2, <2>3, <2>4, <2>5, OneProcess
<1>7. CASE Boot(p) /\ p \notin Dispatchers
  <2>1. /\ phase[p] = "down" /\ UNCHANGED probe
        /\ phase' = [phase EXCEPT ![p] = "checking"]
    BY <1>7 DEF Boot
  <2>2. phase'[p] = "checking"
    BY <1>1, <2>1 DEF BootTypeOK
  <2>3. BootTypeOK' /\ OthersStand(p)
    BY <1>1, <1>2, <1>3, <2>1 DEF BootTypeOK, OthersStand, Phases
  <2>4. Registered'
    BY <1>1, <1>2, <2>1 DEF BootInv, Registered, BootTypeOK
  <2>5. probe[p].at = "idle"
    BY <1>7 DEF BootInv, Keyed
  <2>6. Keyed(p)' /\ Judged(p)' /\ KeptApart(p)' /\ ReadItself(p)'
    BY <1>7, <2>1, <2>5 DEF Keyed, Judged, KeptApart, ReadItself
  <2> QED
    BY <1>2, <1>4, <2>2, <2>3, <2>4, <2>6, OneProcess
<1>8. CASE PeriodicCanary(p)
  <2>1. /\ phase[p] = "serving" /\ UNCHANGED phase /\ p \in Dispatchers
        /\ probe' = [probe EXCEPT ![p] = begun]
    BY <1>8 DEF PeriodicCanary, Begin, begun
  <2>2. probe'[p] = begun
    BY <1>1, <2>1 DEF BootTypeOK
  <2>3. BootTypeOK' /\ OthersStand(p)
    BY <1>1, <1>2, <1>3, <1>5, <2>1 DEF BootTypeOK, OthersStand
  <2>4. Registered'
    BY <1>2, <2>1 DEF BootInv, Registered
  <2>5. ReadItself(p)'
    BY <2>1 DEF BootInv, ReadItself, Reads
  <2>6. Keyed(p)' /\ Judged(p)' /\ KeptApart(p)'
    BY <1>3, <1>5, <2>1, <2>2 DEF Keyed, Judged, KeptApart
  <2> QED
    BY <1>2, <1>4, <2>1, <2>3, <2>4, <2>5, <2>6, OneProcess
<1> QED
  BY <1>6, <1>7, <1>8

LEMMA PutSealKept ==
  ASSUME BootConstants, BootInv, NEW p \in Procs, PutSeal(p)
  PROVE  BootInv'
<1> DEFINE seal == <<p, probes[p], probe[p].racey>>
<1>1. /\ probe[p].at = "put"
      /\ objects' = [objects EXCEPT ![WritesTo[p]][probe[p].key] = seal]
      /\ probe' = [probe EXCEPT ![p].seal = seal, ![p].at = "has"]
      /\ UNCHANGED <<registry, phase, probes, resets>>
  BY DEF PutSeal
<1>2. BootTypeOK /\ probe[p] \in Probes /\ probes[p] \in 0..MaxProbes /\ Keyed(p) /\ ReadItself(p)
  BY DEF BootInv, BootTypeOK
<1>3. seal \in Seals /\ seal # NoSeal /\ seal[1] = p
  BY <1>2, SealIsNone DEF Seals, Probes
<1> HIDE DEF seal
<1>4. objects' \in [Stores -> [CanaryKeys -> Seals]] /\ SealsPlaced'
  BY <1>1, <1>3, WritesPlaced
<1>5. probe'[p] = [probe[p] EXCEPT !.seal = seal, !.at = "has"] /\ \A q \in Procs \ {p} : probe'[q] = probe[q]
  BY <1>1, <1>2 DEF BootTypeOK
<1>6. /\ probe'[p].at = "has" /\ probe'[p].seal = seal /\ probe'[p].key = probe[p].key
      /\ probe'[p].racey = probe[p].racey /\ probe'[p] \in Probes
  BY <1>2, <1>3, <1>5 DEF Probes
<1>7. BootTypeOK'
  BY <1>1, <1>2, <1>4, <1>6 DEF BootTypeOK
<1>8. OthersStand(p) /\ Registered'
  BY <1>1, <1>5 DEF OthersStand, BootInv, Registered
<1>9. Keyed(p)' /\ Judged(p)' /\ ReadItself(p)'
  BY <1>1, <1>2, <1>3, <1>6 DEF Keyed, Judged, ReadItself, Reads
<1>10. KeptApart(p)'
  <2>1. WritesTo[p] \in Stores /\ probe[p].key \in CanaryKeys
    BY <1>1, <1>2 DEF Stores, CanaryKeys, Keyed, BootTypeOK
  <2>2. objects'[WritesTo[p]][probe[p].key] = seal
    BY <1>1, <1>2, <2>1 DEF BootTypeOK
  <2> QED
    BY <1>6, <2>2 DEF KeptApart
<1> QED
  BY <1>1, <1>3, <1>4, <1>7, <1>8, <1>9, <1>10, OneProcess

LEMMA LookKept ==
  ASSUME BootConstants, BootInv, NEW p \in Procs, HasOutput(p) \/ ReadBack(p)
  PROVE  BootInv'
<1>1. BootTypeOK /\ probe[p] \in Probes /\ Keyed(p) /\ Judged(p) /\ KeptApart(p) /\ ReadItself(p) /\ SealsPlaced
  BY DEF BootInv, BootTypeOK
<1>2. /\ UNCHANGED <<objects, registry, phase, probes, resets>>
      /\ probe[p].at \in {"has", "open"}
  BY DEF HasOutput, ReadBack
<1> DEFINE a == IF probe[p].at = "has" THEN IF SeenBy(p) = NoSeal THEN "missed" ELSE "open"
                ELSE IF SeenBy(p) = probe[p].seal THEN "matched" ELSE "missed"
<1>3. probe' = [probe EXCEPT ![p].at = a] /\ a \in {"missed", "open", "matched"}
  BY DEF HasOutput, ReadBack
<1>4. /\ probe'[p].at = a /\ probe'[p].seal = probe[p].seal /\ probe'[p].key = probe[p].key
      /\ probe'[p].racey = probe[p].racey /\ probe'[p] \in Probes
      /\ \A q \in Procs \ {p} : probe'[q] = probe[q]
  <2> HIDE DEF a
  <2> QED
    BY <1>1, <1>3 DEF BootTypeOK, Probes
<1>5. BootTypeOK' /\ OthersStand(p) /\ Registered' /\ SealsPlaced' /\ ReadItself(p)' /\ Keyed(p)'
  BY <1>1, <1>2, <1>3, <1>4 DEF BootTypeOK, OthersStand, BootInv, Registered, SealsPlaced, ReadItself, Reads, Keyed
<1>6. KeptApart(p)'
  BY <1>1, <1>2, <1>4 DEF KeptApart
<1>7. probe[p].seal # NoSeal /\ probe[p].seal[1] = p
  BY <1>1, <1>2 DEF Judged
<1>8. SeenBy(p) = probe[p].seal => Reads(p)
  <2>1. probe[p].key \in CanaryKeys
    <3>1. probes[p] \in 0..MaxProbes /\ probes[p] >= 1
      BY <1>1, <1>2 DEF Keyed, BootTypeOK
    <3>2. probes[p] \in 1..MaxProbes
      BY <3>1 DEF BootConstants
    <3> QED
      BY <1>1, <1>2, <3>2 DEF Keyed, CanaryKeys
  <2>2. ReadsFrom[p] \in Stores
    BY DEF Stores
  <2> QED
    BY <1>1, <1>7, <2>1, <2>2 DEF SeenBy, SealsPlaced, Reads
<1>9. ~probe[p].racey /\ Reads(p) => SeenBy(p) = probe[p].seal
  BY <1>1, <1>2 DEF SeenBy, KeptApart, Reads
<1>10. Judged(p)'
  <2>1. probe'[p].at = "matched" => Reads(p)
    BY <1>4, <1>8
  <2>2. probe'[p].at = "missed" /\ ~probe[p].racey => ~Reads(p)
    BY <1>4, <1>7, <1>9
  <2> QED
    BY <1>4, <1>7, <2>1, <2>2 DEF Judged, Reads
<1> QED
  BY <1>2, <1>5, <1>6, <1>10, OneProcess

\* A round trip ends: the key is cleared, or the store refuses.
LEMMA CleanedPlaced ==
  ASSUME BootConstants, BootInv, NEW p \in Procs, probe[p].at # "idle", objects' = Cleaned(p)
  PROVE  /\ objects' \in [Stores -> [CanaryKeys -> Seals]] /\ SealsPlaced'
         /\ \/ UNCHANGED objects
            \/ \E seal \in Seals : objects' = [objects EXCEPT ![WritesTo[p]][probe[p].key] = seal]
<1>1. CASE p \in NoDelete
  BY <1>1 DEF Cleaned, BootInv, BootTypeOK, SealsPlaced
<1>2. CASE p \notin NoDelete
  <2>1. objects' = [objects EXCEPT ![WritesTo[p]][probe[p].key] = NoSeal] /\ NoSeal \in Seals
    BY <1>2 DEF Cleaned, Seals
  <2> QED
    BY <2>1, WritesPlaced
<1> QED
  BY <1>1, <1>2

LEMMA MissKept ==
  ASSUME BootConstants, BootInv, NEW p \in Procs, MissCleansUp(p)
  PROVE  BootInv'
<1>1. BootTypeOK /\ Keyed(p) /\ Judged(p) /\ ReadItself(p) /\ Registered
  BY DEF BootInv
<1>2. probe[p].at = "missed" /\ objects' = Cleaned(p) /\ UNCHANGED <<registry, probes, resets>>
  BY DEF MissCleansUp
<1>3. /\ objects' \in [Stores -> [CanaryKeys -> Seals]] /\ SealsPlaced'
      /\ \/ UNCHANGED objects
         \/ \E seal \in Seals : objects' = [objects EXCEPT ![WritesTo[p]][probe[p].key] = seal]
  BY <1>2, CleanedPlaced
<1>4. probes[p] >= 1 /\ probes[p] \in 1..MaxProbes /\ p \in Dispatchers /\ phase[p] \in {"probing", "serving"}
  BY <1>1, <1>2 DEF Keyed, BootTypeOK, BootConstants
<1> DEFINE again == [at |-> "put", key |-> UniqueKey(p, probes[p]), seal |-> NoSeal, racey |-> FALSE]
<1>5. /\ again \in Probes /\ again.at = "put" /\ again.racey = FALSE
      /\ again.key = UniqueKey(p, probes[p])
  BY <1>4 DEF Probes, Seals, CanaryKeys
<1> HIDE DEF again
<1>6. CASE probe[p].racey
  <2>1. probe' = [probe EXCEPT ![p] = again] /\ UNCHANGED phase
    BY <1>6 DEF MissCleansUp, Begin, RetryKey, again
  <2>2. probe'[p] = again
    BY <1>1, <2>1 DEF BootTypeOK
  <2>3. BootTypeOK' /\ OthersStand(p) /\ Registered'
    BY <1>1, <1>2, <1>3, <1>5, <2>1 DEF BootTypeOK, OthersStand, Registered
  <2>4. Keyed(p)' /\ Judged(p)' /\ KeptApart(p)' /\ ReadItself(p)'
    BY <1>1, <1>2, <1>4, <1>5, <2>1, <2>2 DEF Keyed, Judged, KeptApart, ReadItself, Reads
  <2> QED
    BY <1>2, <1>3, <2>1, <2>3, <2>4, OneProcess
<1>7. CASE ~probe[p].racey
  <2>1. /\ probe' = [probe EXCEPT ![p] = NoProbe]
        /\ phase' = [phase EXCEPT ![p] = IF @ = "probing" THEN "unreadable" ELSE @]
    BY <1>7 DEF MissCleansUp
  <2>2. NoProbe \in Probes /\ NoProbe.at = "idle"
    BY DEF NoProbe, Probes, Seals, NoSeal
  <2>3. /\ probe'[p] = NoProbe /\ phase'[p] \in {"unreadable", "serving"}
        /\ phase'[p] = "serving" => phase[p] = "serving"
    BY <1>1, <1>4, <2>1 DEF BootTypeOK
  <2>4. BootTypeOK' /\ OthersStand(p)
    BY <1>1, <1>2, <1>3, <2>1, <2>2, <2>3 DEF BootTypeOK, OthersStand, Phases
  <2>5. Registered'
    BY <1>1, <1>2, <2>3, <2>4 DEF Registered, OthersStand
  <2>6. ReadItself(p)'
    BY <1>1, <2>3 DEF ReadItself, Reads
  <2>7. Keyed(p)' /\ Judged(p)' /\ KeptApart(p)'
    BY <2>2, <2>3 DEF Keyed, Judged, KeptApart
  <2>8. ~Reads(p)
    BY <1>1, <1>2, <1>7 DEF Judged
  <2> QED
    BY <1>2, <1>3, <2>3, <2>4, <2>5, <2>6, <2>7, <2>8, OneProcess
<1> QED
  BY <1>6, <1>7

LEMMA MatchKept ==
  ASSUME BootConstants, BootInv, NEW p \in Procs, MatchCleansUp(p)
  PROVE  BootInv'
<1>1. BootTypeOK /\ Keyed(p) /\ Judged(p) /\ ReadItself(p) /\ Registered
  BY DEF BootInv
<1>2. /\ probe[p].at = "matched" /\ objects' = Cleaned(p) /\ UNCHANGED <<registry, probes, resets>>
      /\ probe' = [probe EXCEPT ![p] = NoProbe]
      /\ phase' = [phase EXCEPT ![p] = IF @ = "probing" THEN "checking" ELSE @]
  BY DEF MatchCleansUp
<1>3. /\ objects' \in [Stores -> [CanaryKeys -> Seals]] /\ SealsPlaced'
      /\ \/ UNCHANGED objects
         \/ \E seal \in Seals : objects' = [objects EXCEPT ![WritesTo[p]][probe[p].key] = seal]
  BY <1>2, CleanedPlaced
<1>4. Reads(p) /\ phase[p] \in {"probing", "serving"}
  BY <1>1, <1>2 DEF Keyed, Judged
<1>5. NoProbe \in Probes /\ NoProbe.at = "idle"
  BY DEF NoProbe, Probes, Seals, NoSeal
<1>6. /\ probe'[p] = NoProbe /\ phase'[p] \in {"checking", "serving"}
      /\ phase'[p] = "serving" => phase[p] = "serving"
  BY <1>1, <1>2, <1>4 DEF BootTypeOK
<1>7. BootTypeOK' /\ OthersStand(p)
  BY <1>1, <1>2, <1>3, <1>5, <1>6 DEF BootTypeOK, OthersStand, Phases
<1>8. Registered'
  BY <1>1, <1>2, <1>6, <1>7 DEF Registered, OthersStand
<1>9. Keyed(p)' /\ Judged(p)' /\ KeptApart(p)' /\ ReadItself(p)'
  BY <1>4, <1>5, <1>6 DEF Keyed, Judged, KeptApart, ReadItself, Reads
<1> QED
  BY <1>2, <1>3, <1>6, <1>7, <1>8, <1>9, OneProcess

LEMMA AgreementKept ==
  ASSUME BootConstants, BootInv, NEW p \in Procs, CheckAgreement(p)
  PROVE  BootInv'
<1>1. BootTypeOK /\ Keyed(p) /\ ReadItself(p) /\ Registered /\ SealsPlaced
  BY DEF BootInv
<1>2. /\ phase[p] = "checking" /\ UNCHANGED <<objects, probe, probes, resets>>
      /\ registry' = IF registry = None THEN Fingerprint(p) ELSE registry
      /\ phase' = [phase EXCEPT ![p] = IF registry' = Fingerprint(p) THEN "serving" ELSE "disagreeing"]
  BY DEF CheckAgreement, ClaimTarget
<1>3. phase'[p] = IF registry' = Fingerprint(p) THEN "serving" ELSE "disagreeing"
  BY <1>1, <1>2 DEF BootTypeOK
<1>4. BootTypeOK' /\ OthersStand(p) /\ SealsPlaced'
  <2>1. phase' \in [Procs -> Phases] /\ \A q \in Procs \ {p} : phase'[q] = phase[q]
    BY <1>1, <1>2 DEF BootTypeOK, Phases
  <2> QED
    BY <1>1, <1>2, <2>1 DEF BootTypeOK, OthersStand, SealsPlaced
<1>5. probe[p].at = "idle"
  BY <1>1, <1>2 DEF Keyed
<1>6. Keyed(p)' /\ Judged(p)' /\ KeptApart(p)'
  BY <1>2, <1>5 DEF Keyed, Judged, KeptApart
<1>7. ReadItself(p)'
  BY <1>1, <1>2 DEF ReadItself, Reads
<1>8. \E q \in Procs : registry' = Fingerprint(q)
  BY <1>1, <1>2 DEF Registered
<1>9. Registered'
  <2>1. \A q \in Procs : phase[q] = "serving" => registry # None
    BY <1>1 DEF Registered, BootConstants
  <2>2. \A q \in Procs : phase'[q] = "serving" => registry' = Fingerprint(q)
    BY <1>1, <1>2, <1>3, <1>4, <2>1 DEF Registered, OthersStand
  <2> QED
    BY <1>8, <2>2 DEF Registered
<1>10. phase'[p] = "disagreeing" => \E q \in Procs : Fingerprint(q) # Fingerprint(p)
  BY <1>3, <1>8
<1>11. phase'[p] # "unreadable"
  BY <1>3
<1> QED
  BY <1>2, <1>4, <1>6, <1>7, <1>9, <1>10, <1>11, OneProcess

LEMMA StopKept ==
  ASSUME BootConstants, BootInv, NEW p \in Procs, Stop(p)
  PROVE  BootInv'
<1>1. BootTypeOK /\ Registered /\ SealsPlaced
  BY DEF BootInv
<1>2. /\ UNCHANGED <<objects, registry, probes, resets>>
      /\ phase' = [phase EXCEPT ![p] = "down"]
      /\ probe' = [probe EXCEPT ![p] = NoProbe]
  BY DEF Stop
<1>3. NoProbe \in Probes /\ NoProbe.at = "idle"
  BY DEF NoProbe, Probes, Seals, NoSeal
<1>4. phase'[p] = "down" /\ probe'[p] = NoProbe
  BY <1>1, <1>2 DEF BootTypeOK
<1>5. BootTypeOK' /\ OthersStand(p) /\ SealsPlaced'
  BY <1>1, <1>2, <1>3 DEF BootTypeOK, OthersStand, SealsPlaced, Phases
<1>6. Registered'
  BY <1>1, <1>2, <1>4, <1>5 DEF Registered, OthersStand
<1>7. Keyed(p)' /\ Judged(p)' /\ KeptApart(p)' /\ ReadItself(p)'
  BY <1>3, <1>4 DEF Keyed, Judged, KeptApart, ReadItself
<1> QED
  BY <1>2, <1>4, <1>5, <1>6, <1>7, OneProcess

LEMMA ResetKept ==
  ASSUME BootInv, ResetTarget
  PROVE  BootInv'
<1>1. /\ UNCHANGED <<objects, phase, probe, probes>> /\ registry' = None
      /\ \A p \in Procs : phase[p] # "serving"
  BY DEF ResetTarget
<1>2. Registered'
  BY <1>1 DEF Registered
<1> QED
  BY <1>1, <1>2 DEF BootInv, BootTypeOK, SealsPlaced, Keyed, Judged, KeptApart, ReadItself, Reads, BootGateExact

LEMMA BootStep ==
  ASSUME BootConstants, BootInv, [BootNext]_bootVars
  PROVE  BootInv'
<1>1. ASSUME UNCHANGED bootVars
      PROVE  BootInv'
  BY <1>1 DEF bootVars, BootInv, BootTypeOK, SealsPlaced, Registered, Keyed, Judged, KeptApart, ReadItself,
              Reads, BootGateExact
<1>2. ASSUME NEW p \in Procs, HasOutput(p) \/ ReadBack(p) \/ PutSeal(p) \/ Boot(p) \/ PeriodicCanary(p)
      PROVE  BootInv'
  BY <1>2, LookKept, PutSealKept, BeginKept
<1>3. ASSUME NEW p \in Procs, MissCleansUp(p) \/ MatchCleansUp(p) \/ CheckAgreement(p) \/ Stop(p)
      PROVE  BootInv'
  BY <1>3, MissKept, MatchKept, AgreementKept, StopKept
<1> QED
  BY <1>1, <1>2, <1>3, ResetKept DEF BootNext

\* The gate is exact.  A dispatcher that serves reads what it writes, and all that serve share
\* one store; a process is refused only for a store it cannot read back or one that is not the
\* registered one, never because another process's canary collided with its own
\* (blob_roundtrip, check_blob_target_agreement, run_forever).
THEOREM BootStaysExact ==
  ASSUME BootConstants
  PROVE  BootSpec => []BootGateExact
<1>1. BootInit => BootInv
  BY BootInitially
<1>2. BootInv /\ [BootNext]_bootVars => BootInv'
  BY BootStep
<1>3. BootInv => BootGateExact
  BY DEF BootInv
<1> QED
  BY <1>1, <1>2, <1>3, PTL DEF BootSpec

-------------------------------------------------------------------------------
\* Deleting and reading results

\* A job has some versions of each key, one at most where the bucket keeps none; a
\* page has room.
ResultConstants ==
  /\ History \in [Keys -> Nat] /\ (~Versioned => \A k \in Keys : History[k] <= 1)
  /\ DeleteBatch \in Nat \ {0} /\ Versioned \in BOOLEAN

\* A principal that may find out nothing about a bucket that keeps versions.
Blind == Versioned /\ "status" \in Denied /\ "versions" \in Denied

Versions == [v : Nat \ {0}, marker : BOOLEAN]
Wanted == [key : Keys, id : Nat, latest : BOOLEAN]
Deletion == [pc : {"idle", "list", "batch", "gone", "done", "failed"}, step : 0..3,
             noncurrent : BOOLEAN, targets : SUBSET Wanted, failed : BOOLEAN, since : [Keys -> Nat]]

ResultTypeOK ==
  /\ objs \in [Keys -> SUBSET Versions] /\ \A k \in Keys : IsFiniteSet(objs[k])
  /\ newest \in [Keys -> Nat]
  /\ row \in {"done", "expired", "deleted"} /\ versioning \in {"none", "yes", "no"}
  /\ del \in [Deleters -> Deletion]

\* What the process remembers of the bucket is true of it.
Known ==
  /\ versioning = "yes" => Versioned /\ "status" \notin Denied
  /\ versioning = "no" => ~Versioned

\* The newest version of a key is the last one to go, and is there as long as any is.
Stacked ==
  \A k \in Keys :
    /\ \A o \in objs[k] : o.v <= newest[k]
    /\ objs[k] # {} => \E o \in objs[k] : o.v = newest[k]
    /\ \A o \in objs[k], p \in objs[k] : o.v = p.v => o = p
    /\ ~Versioned => \A o \in objs[k] : o.v = newest[k]
    /\ ~Blind => \A o \in objs[k] : ~o.marker

\* What a batch is about to remove, however old its listing is: a version that is not the
\* newest one, or the only version there was.
Targeted(d) ==
  \A e \in del[d].targets :
    /\ e.key \in PrefixOf(del[d].step) \ KeptAt(del[d].step)
    /\ e.id <= newest[e.key] /\ (e.id = 0 => Blind \/ ~Versioned)
    /\ Blind => e = Keyless(e.key)
    /\ e.id # 0 /\ ~e.latest => e.id < newest[e.key]
    /\ e.id # 0 /\ e.latest => \A o \in objs[e.key] : e.id <= o.v

\* A deletion holds targets only while it is removing them; once past its first
\* step, the receipt is gone.
Masks(d) ==
  /\ del[d].pc # "batch" => del[d].targets = {}
  /\ del[d].pc \notin {"idle", "failed"} => del[d].step \in 1..3
  /\ del[d].pc \in {"gone", "done"} => del[d].step = 3
  /\ del[d].pc \notin {"idle", "failed"} /\ del[d].step >= 2 => Current(Receipt) = {}

\* Once a deletion has found nothing, what is there was stored since it began.
Gone(d) ==
  /\ \A k \in Keys : del[d].since[k] <= newest[k]
  /\ ~Blind /\ del[d].pc \in {"gone", "done"} =>
       \A k \in Keys : \A o \in objs[k] : o.v > del[d].since[k]

ResultInv ==
  /\ ResultTypeOK /\ Known /\ Stacked
  /\ \A d \in Deleters : Targeted(d) /\ Masks(d) /\ Gone(d)
  /\ ReceiptStaysMasked /\ ServedIsCurrent

\* The version that is read of a key that has these: the newest, or none.
Top(S) == {o.v : o \in {p \in S : (\A q \in S : q.v <= p.v) /\ ~p.marker}}

LEMMA CurrentIsTop == \A k \in Keys : Current(k) = Top(objs[k]) /\ Current(k)' = Top(objs'[k])
BY DEF Current, Latest, Top

LEMMA TopIsNewest ==
  ASSUME NEW S \in SUBSET Versions, NEW n \in Nat, \A o \in S : o.v <= n,
         S # {} => \E o \in S : o.v = n
  PROVE  /\ Top(S) \subseteq {n}
         /\ S # {} /\ (\A o \in S : ~o.marker) => Top(S) = {n}
         /\ S = {} => Top(S) = {}
         /\ (\A o \in S : o.v = n => o.marker) => Top(S) = {}
<1>1. \A o \in S : o.v \in Nat
  BY DEF Versions
<1>2. \A o \in S : (\A q \in S : q.v <= o.v) => o.v = n
  BY <1>1
<1>3. \A o \in S : o.v = n => \A q \in S : q.v <= o.v
  OBVIOUS
<1> QED
  BY <1>2, <1>3 DEF Top

\* What a read of a key returns.
LEMMA ReadsNewest ==
  ASSUME ResultTypeOK, Stacked, NEW k \in Keys
  PROVE  /\ Current(k) \subseteq {newest[k]}
         /\ ~Blind /\ objs[k] # {} => Current(k) = {newest[k]}
         /\ objs[k] = {} => Current(k) = {}
<1>1. /\ objs[k] \in SUBSET Versions /\ newest[k] \in Nat
      /\ \A o \in objs[k] : o.v <= newest[k]
      /\ objs[k] # {} => \E o \in objs[k] : o.v = newest[k]
      /\ ~Blind => \A o \in objs[k] : ~o.marker
  BY DEF ResultTypeOK, Stacked
<1> QED
  BY <1>1, CurrentIsTop, TopIsNewest

LEMMA ListingFinite ==
  ASSUME ResultTypeOK, NEW keys \in SUBSET Keys
  PROVE  IsFiniteSet(Listing(keys))
<1> DEFINE every == ((objs[1] \cup objs[2]) \cup objs[3]) \cup objs[4]
           pairs == Keys \X every
           h == [x \in pairs |-> Entry(x[1], x[2])]
           made == {h[x] : x \in pairs}
<1>1. IsFiniteSet(objs[1]) /\ IsFiniteSet(objs[2]) /\ IsFiniteSet(objs[3]) /\ IsFiniteSet(objs[4])
  BY DEF ResultTypeOK, Keys
<1>2. IsFiniteSet(objs[1] \cup objs[2])
  BY <1>1, FS_Union
<1>3. IsFiniteSet((objs[1] \cup objs[2]) \cup objs[3])
  BY <1>1, <1>2, FS_Union
<1>4. IsFiniteSet(every)
  BY <1>1, <1>3, FS_Union
<1>5. IsFiniteSet(Keys)
  <2>1. 1 \in Int /\ 4 \in Int
    OBVIOUS
  <2>2. IsFiniteSet(1..4)
    BY <2>1, FS_Interval, Zenon
  <2> QED
    BY <2>2 DEF Keys
<1>6. IsFiniteSet(pairs)
  BY <1>4, <1>5, FS_Product
<1>7. h \in Surjection(pairs, made)
  BY DEF Surjection
<1>8. IsFiniteSet(made)
  BY <1>6, <1>7, FS_Surjection
<1>9. Listing(keys) \subseteq made
  <2> SUFFICES ASSUME NEW e \in Listing(keys) PROVE e \in made
    OBVIOUS
  <2>1. PICK k \in keys : e \in {Entry(k, o) : o \in objs[k]}
    BY DEF Listing
  <2>2. PICK o \in objs[k] : e = Entry(k, o)
    BY <2>1
  <2>3. o \in every /\ k \in Keys
    BY DEF Keys
  <2>4. <<k, o>> \in pairs /\ h[<<k, o>>] = e
    BY <2>2, <2>3
  <2> QED
    BY <2>4
<1> QED
  BY <1>8, <1>9, FS_Subset

\* An entry is a version of its key.
LEMMA ListedIs ==
  ASSUME ResultTypeOK, NEW keys \in SUBSET Keys, NEW e \in Listing(keys)
  PROVE  /\ e \in Wanted /\ e.key \in keys /\ e.id # 0
         /\ \E o \in objs[e.key] : e = Entry(e.key, o)
<1>1. PICK k \in keys : e \in {Entry(k, o) : o \in objs[k]}
  BY DEF Listing
<1>2. PICK o \in objs[k] : e = Entry(k, o)
  BY <1>1
<1>3. o \in Versions
  BY DEF ResultTypeOK
<1>4. Latest(k, o) \in BOOLEAN
  BY DEF Latest
<1> QED
  BY <1>2, <1>3, <1>4 DEF Entry, Wanted, Versions

\* If the last key of a page is a later one, all versions of this key are on the page.
LEMMA WholeKey ==
  ASSUME ResultTypeOK, ResultConstants, NEW keys \in SUBSET Keys, NEW e \in Page(keys), ~HeldBack(keys, e),
         NEW g \in Listing(keys), g.key = e.key
  PROVE  g \in Page(keys)
<1>1. CASE ~Truncated(keys)
  BY <1>1 DEF Truncated
<1>2. CASE Truncated(keys)
  <2>1. PICK f \in Page(keys) : ~(f.key <= e.key)
    BY <1>2 DEF HeldBack
  <2>2. f \in Listing(keys) /\ e \in Listing(keys)
    BY DEF Page
  <2>3. e.key \in Nat /\ f.key \in Nat /\ g.key \in Nat
    BY <2>2, ListedIs DEF Wanted, Keys
  <2> DEFINE before(x) == {y \in Listing(keys) : Before(y, x)}
  <2>4. before(g) \subseteq before(f)
    <3> SUFFICES ASSUME NEW y \in Listing(keys), Before(y, g) PROVE Before(y, f)
      OBVIOUS
    <3>1. y.key \in Nat
      BY ListedIs DEF Wanted, Keys
    <3> QED
      BY <2>1, <2>3, <3>1 DEF Before
  <2>5. IsFiniteSet(before(f))
    <3>1. before(f) \subseteq Listing(keys)
      OBVIOUS
    <3> QED
      BY <3>1, ListingFinite, FS_Subset
  <2>6. /\ IsFiniteSet(before(g)) /\ Cardinality(before(g)) <= Cardinality(before(f))
    BY <2>4, <2>5, FS_Subset
  <2>7. Cardinality(before(g)) \in Nat /\ Cardinality(before(f)) \in Nat
    BY <2>5, <2>6, FS_CardinalityType
  <2>8. Cardinality(before(f)) < DeleteBatch /\ DeleteBatch \in Nat
    BY DEF Page, ResultConstants
  <2>9. Cardinality(before(g)) < DeleteBatch
    BY <2>6, <2>7, <2>8
  <2> QED
    BY <2>9 DEF Page
<1> QED
  BY <1>1, <1>2

\* An empty page of current keys: no key has any.
LEMMA NothingCurrent ==
  ASSUME ResultConstants, NEW keys \in SUBSET Keys, CurrentPage(keys) = {}
  PROVE  \A k \in keys : Current(k) = {}
<1> DEFINE found == {k \in keys : Current(k) # {}}
<1> SUFFICES ASSUME found # {} PROVE FALSE
  OBVIOUS
<1>1. PICK k \in found : \A j \in found : k <= j
  <2>1. found \subseteq 1..4
    BY DEF Keys
  <2>2. \A x \in found : x = 1 \/ x = 2 \/ x = 3 \/ x = 4
    BY <2>1
  <2> HIDE DEF found
  <2>3. CASE 1 \in found
    BY <2>1, <2>3
  <2>4. CASE 1 \notin found /\ 2 \in found
    BY <2>1, <2>2, <2>4
  <2>5. CASE 1 \notin found /\ 2 \notin found /\ 3 \in found
    BY <2>1, <2>2, <2>5
  <2>6. CASE 1 \notin found /\ 2 \notin found /\ 3 \notin found
    <3>1. \A x \in found : x = 4
      BY <2>2, <2>6
    <3>2. 4 \in found
      BY <3>1
    <3> QED
      BY <3>1, <3>2
  <2> QED
    BY <2>3, <2>4, <2>5, <2>6
<1>2. {j \in found : j < k} = {}
  <2>1. found \subseteq 1..4
    BY DEF Keys
  <2> QED
    BY <1>1, <2>1
<1>3. Cardinality({j \in found : j < k}) = 0
  BY <1>2, FS_EmptySet
<1>4. k \in CurrentPage(keys)
  BY <1>3 DEF CurrentPage, ResultConstants
<1> QED
  BY <1>4

Mine(page, step) ==
  LET Spare(es) == {e \in es : e.key \notin KeptAt(step)}
  IN  [page EXCEPT !.noncurrent = Spare(@), !.current = Spare(@)]

\* A page of versions: what it gives to remove, and what it says when that is nothing.
LEMMA VersionPageTells ==
  ASSUME ResultTypeOK, ResultConstants, Stacked, ~Blind, NEW step \in 1..3
  PROVE  LET mine == Mine(VersionPage(PrefixOf(step)), step)
         IN  /\ mine.noncurrent \cup mine.current \subseteq Wanted
             /\ \A e \in Targets(mine) :
                   /\ e \in Wanted /\ e.key \in PrefixOf(step) \ KeptAt(step) /\ e.id # 0
                   /\ e.id <= newest[e.key]
                   /\ ~e.latest => e.id < newest[e.key]
                   /\ e.latest => \A o \in objs[e.key] : e.id <= o.v
             /\ Targets(mine) = {} /\ ~mine.full /\ step # 2 =>
                   \A k \in PrefixOf(step) : objs[k] = {}
<1> DEFINE keys == PrefixOf(step)
           kept == KeptAt(step)
           mine == Mine(VersionPage(keys), step)
<1>1. keys \in SUBSET Keys /\ (step # 2 => kept = {})
  BY DEF PrefixOf, KeptAt, Keys, Receipt
<1>2. /\ mine.noncurrent = {e \in Noncurrent(keys) : e.key \notin kept}
      /\ mine.current = {e \in CurrentOnes(keys) : e.key \notin kept}
      /\ mine.full = (Truncated(keys) \/ Cardinality(Page(keys)) >= DeleteBatch)
  BY DEF Mine, VersionPage
<1> HIDE DEF mine
<1>3. ASSUME NEW e \in Page(keys)
      PROVE  /\ e \in Listing(keys) /\ e \in Wanted /\ e.key \in keys /\ e.id # 0
             /\ e.id <= newest[e.key]
             /\ \E o \in objs[e.key] : e = Entry(e.key, o)
  <2>1. e \in Listing(keys)
    BY DEF Page
  <2>2. /\ e \in Listing(keys) /\ e \in Wanted /\ e.key \in keys /\ e.id # 0
        /\ \E o \in objs[e.key] : e = Entry(e.key, o)
    BY <1>1, <2>1, ListedIs
  <2> QED
    BY <1>1, <2>2 DEF Entry, Stacked
<1>4. Noncurrent(keys) \subseteq Page(keys) /\ CurrentOnes(keys) \subseteq Page(keys)
  BY DEF Noncurrent, CurrentOnes
<1>5. mine.noncurrent \cup mine.current \subseteq Wanted
  BY <1>2, <1>3, <1>4
<1>6. ASSUME NEW e \in mine.noncurrent
      PROVE  e.key \in keys \ kept /\ e.id # 0 /\ ~e.latest /\ e.id < newest[e.key]
  <2>1. e \in Page(keys) /\ ~e.latest /\ e.key \notin kept
    BY <1>2, <1>6 DEF Noncurrent
  <2>2. PICK o \in objs[e.key] : e = Entry(e.key, o)
    BY <1>3, <2>1
  <2>3. e.id = o.v /\ ~Latest(e.key, o) /\ e.key \in Keys
    BY <1>1, <1>3, <2>1, <2>2 DEF Entry
  <2>4. o.v <= newest[e.key] /\ o.v # newest[e.key]
    BY <2>3 DEF Stacked, Latest
  <2>5. o.v \in Nat /\ newest[e.key] \in Nat
    BY <2>3 DEF ResultTypeOK, Versions
  <2> QED
    BY <1>3, <2>1, <2>3, <2>4, <2>5
<1>7. ASSUME mine.noncurrent = {}, NEW e \in mine.current
      PROVE  e.key \in keys \ kept /\ e.id # 0 /\ e.latest /\ \A o \in objs[e.key] : e.id <= o.v
  <2>1. e \in Page(keys) /\ e.latest /\ ~HeldBack(keys, e) /\ e.key \notin kept /\ e.key \in keys
    BY <1>2, <1>3, <1>7 DEF CurrentOnes
  <2>2. PICK o \in objs[e.key] : e = Entry(e.key, o)
    BY <1>3, <2>1
  <2>3. e.id = o.v /\ Latest(e.key, o) /\ e.key \in Keys
    BY <1>1, <2>1, <2>2 DEF Entry
  <2>4. ASSUME NEW q \in objs[e.key]
        PROVE  e.id <= q.v
    <3> DEFINE g == Entry(e.key, q)
    <3>1. g \in Listing(keys) /\ g.key = e.key /\ g.id = q.v /\ g.latest = Latest(e.key, q)
      BY <2>1 DEF Listing, Entry
    <3> HIDE DEF g
    <3>2. g \in Page(keys)
      BY <1>1, <2>1, <3>1, WholeKey
    <3>3. g.latest
      BY <1>2, <1>7, <2>1, <3>1, <3>2 DEF Noncurrent
    <3>4. Latest(e.key, q)
      BY <3>1, <3>3
    <3> QED
      BY <2>3, <3>4 DEF Latest
  <2> QED
    BY <1>3, <2>1, <2>4
<1>8. ASSUME NEW e \in Targets(mine)
      PROVE  /\ e \in Wanted /\ e.key \in keys \ kept /\ e.id # 0
             /\ e.id <= newest[e.key]
             /\ ~e.latest => e.id < newest[e.key]
             /\ e.latest => \A o \in objs[e.key] : e.id <= o.v
  <2>1. e \in Page(keys)
    BY <1>2, <1>4, <1>8 DEF Targets
  <2>2. CASE mine.noncurrent # {}
    BY <1>3, <1>6, <1>8, <2>1, <2>2 DEF Targets
  <2>3. CASE mine.noncurrent = {}
    BY <1>3, <1>7, <1>8, <2>1, <2>3 DEF Targets
  <2> QED
    BY <2>2, <2>3
<1>9. ASSUME Targets(mine) = {}, ~mine.full, step # 2, NEW k \in keys, NEW o \in objs[k]
      PROVE  FALSE
  <2>1. ~Truncated(keys) /\ kept = {}
    BY <1>1, <1>2, <1>9
  <2>2. Entry(k, o) \in Page(keys)
    BY <2>1 DEF Truncated, Listing
  <2>3. mine.noncurrent = {} /\ mine.current = {}
    BY <1>9 DEF Targets
  <2>4. Entry(k, o).latest
    BY <1>2, <2>1, <2>2, <2>3 DEF Noncurrent
  <2>5. Entry(k, o) \in CurrentOnes(keys)
    BY <2>1, <2>2, <2>4 DEF CurrentOnes, HeldBack
  <2> QED
    BY <1>2, <2>1, <2>3, <2>5
<1> QED
  BY <1>5, <1>8, <1>9 DEF mine

\* A page without versions.
LEMMA KeylessPageTells ==
  ASSUME ResultTypeOK, ResultConstants, Stacked, NEW step \in 1..3
  PROVE  LET mine == Mine(KeylessPage(PrefixOf(step)), step)
         IN  /\ \A e \in Targets(mine) :
                   e \in Wanted /\ e.key \in PrefixOf(step) \ KeptAt(step) /\ e = Keyless(e.key)
             /\ Targets(mine) = {} /\ step # 2 => \A k \in PrefixOf(step) : Current(k) = {}
<1> DEFINE keys == PrefixOf(step)
           kept == KeptAt(step)
           mine == Mine(KeylessPage(keys), step)
<1>1. keys \in SUBSET Keys /\ (step # 2 => kept = {})
  BY DEF PrefixOf, KeptAt, Keys, Receipt
<1>2. /\ mine.noncurrent = {}
      /\ mine.current = {e \in {Keyless(k) : k \in CurrentPage(keys)} : e.key \notin kept}
  BY DEF Mine, KeylessPage
<1> HIDE DEF mine
<1>3. CurrentPage(keys) \subseteq keys
  BY DEF CurrentPage
<1>4. \A k \in Keys : Keyless(k) \in Wanted /\ Keyless(k).key = k
  BY DEF Keyless, Wanted
<1>5. ASSUME NEW e \in Targets(mine)
      PROVE  e \in Wanted /\ e.key \in keys \ kept /\ e = Keyless(e.key)
  <2>1. e \in {Keyless(k) : k \in CurrentPage(keys)} /\ e.key \notin kept
    BY <1>2, <1>5 DEF Targets
  <2>2. PICK k \in CurrentPage(keys) : e = Keyless(k)
    BY <2>1
  <2> QED
    BY <1>1, <1>3, <1>4, <2>1, <2>2
<1>6. ASSUME Targets(mine) = {}, step # 2
      PROVE  \A k \in keys : Current(k) = {}
  <2>1. CurrentPage(keys) = {}
    <3>1. \A k \in CurrentPage(keys) : Keyless(k) \in mine.current
      BY <1>1, <1>2, <1>6
    <3> QED
      BY <1>2, <1>6, <3>1 DEF Targets
  <2> QED
    BY <1>1, <2>1, NothingCurrent
<1> QED
  BY <1>5, <1>6 DEF mine

\* What any page tells.
LEMMA PageTells ==
  ASSUME ResultTypeOK, ResultConstants, Stacked, NEW step \in 1..3, NEW known, NEW page \in Pages(PrefixOf(step), known),
         known = "no" => ~Versioned, known = "yes" => Versioned /\ "status" \notin Denied,
         known = "none" => "status" \in Denied
  PROVE  LET mine == Mine(page, step)
         IN  /\ \A e \in Targets(mine) :
                   /\ e \in Wanted /\ e.key \in PrefixOf(step) \ KeptAt(step)
                   /\ e.id <= newest[e.key] /\ (e.id = 0 => Blind \/ ~Versioned)
                   /\ Blind => e = Keyless(e.key)
                   /\ e.id # 0 /\ ~e.latest => e.id < newest[e.key]
                   /\ e.id # 0 /\ e.latest => \A o \in objs[e.key] : e.id <= o.v
             /\ Targets(mine) = {} /\ ~mine.full /\ step # 2 =>
                   \A k \in PrefixOf(step) : Current(k) = {} /\ (~Blind => objs[k] = {})
<1>1. PrefixOf(step) \in SUBSET Keys
  BY DEF PrefixOf, Keys, Receipt
<1>2. CASE known = "no" \/ ("versions" \in Denied /\ known = "none")
  <2>1. page = KeylessPage(PrefixOf(step))
    BY <1>2 DEF Pages
  <2>2. ~Versioned \/ Blind
    BY <1>2 DEF Blind, ResultConstants
  <2>3. \A k \in Keys : Current(k) = {} => Blind \/ objs[k] = {}
    BY ReadsNewest
  <2>4. \A k \in Keys : Keyless(k).id = 0 /\ 0 <= newest[k]
    BY DEF Keyless, ResultTypeOK
  <2> QED
    BY <1>1, <2>1, <2>2, <2>3, <2>4, KeylessPageTells
<1>3. CASE ~(known = "no" \/ ("versions" \in Denied /\ known = "none"))
  <2>1. page = VersionPage(PrefixOf(step)) /\ "versions" \notin Denied
    BY <1>3 DEF Pages
  <2>2. ~Blind
    BY <2>1 DEF Blind
  <2>3. \A k \in Keys : objs[k] = {} => Current(k) = {}
    BY ReadsNewest
  <2> QED
    BY <1>1, <2>1, <2>2, <2>3, VersionPageTells
<1> QED
  BY <1>2, <1>3

LEMMA IdleIsOne == Idle \in Deletion /\ Idle.pc = "idle" /\ Idle.targets = {} /\ Idle.since = [k \in Keys |-> 0]
BY DEF Idle, Deletion

LEMMA ResultInitially ==
  ASSUME ResultConstants
  PROVE  ResultInit => ResultInv
<1> SUFFICES ASSUME ResultInit PROVE ResultInv
  OBVIOUS
<1>1. /\ newest = History /\ newest \in [Keys -> Nat]
      /\ objs = [k \in Keys |-> {Bytes(v) : v \in 1..History[k]}]
      /\ del = [d \in Deleters |-> Idle] /\ row = "done" /\ versioning = "none" /\ read = NoRead
  BY DEF ResultInit, ResultConstants
<1>2. ASSUME NEW k \in Keys
      PROVE  /\ objs[k] \subseteq Versions /\ IsFiniteSet(objs[k])
             /\ \A o \in objs[k] : o.v \in 1..History[k] /\ o = Bytes(o.v) /\ ~o.marker
             /\ \A v \in 1..History[k] : Bytes(v) \in objs[k]
  <2>1. History[k] \in Nat /\ objs[k] = {Bytes(v) : v \in 1..History[k]}
    BY <1>1 DEF ResultConstants
  <2>2. \A o \in objs[k] : o.v \in 1..History[k] /\ o = Bytes(o.v) /\ ~o.marker
    BY <2>1 DEF Bytes
  <2>3. objs[k] \subseteq Versions
    <3>1. \A v \in 1..History[k] : Bytes(v) \in Versions
      BY <2>1 DEF Bytes, Versions
    <3> QED
      BY <2>1, <3>1
  <2>4. IsFiniteSet(objs[k])
    <3> DEFINE h == [v \in 1..History[k] |-> Bytes(v)]
    <3>1. h \in Surjection(1..History[k], objs[k])
      <4>1. objs[k] = {h[v] : v \in 1..History[k]}
        BY <2>1
      <4> QED
        BY <4>1 DEF Surjection
    <3>2. IsFiniteSet(1..History[k])
      <4>1. 1 \in Int /\ History[k] \in Int
        BY <2>1
      <4> QED
        BY <4>1, FS_Interval, Zenon
    <3> QED
      BY <3>1, <3>2, FS_Surjection
  <2> QED
    BY <2>1, <2>2, <2>3, <2>4
<1>3. Idle \in Deletion /\ Idle.pc = "idle" /\ Idle.targets = {} /\ Idle.since = [k \in Keys |-> 0]
  BY IdleIsOne
<1>4. ResultTypeOK
  BY <1>1, <1>2, <1>3 DEF ResultTypeOK
<1>5. Known
  BY <1>1 DEF Known
<1>6. Stacked
  <2> SUFFICES ASSUME NEW k \in Keys
               PROVE  /\ \A o \in objs[k] : o.v <= newest[k]
                      /\ objs[k] # {} => \E o \in objs[k] : o.v = newest[k]
                      /\ \A o \in objs[k], p \in objs[k] : o.v = p.v => o = p
                      /\ ~Versioned => \A o \in objs[k] : o.v = newest[k]
                      /\ \A o \in objs[k] : ~o.marker
    BY DEF Stacked
  <2>1. newest[k] = History[k] /\ History[k] \in Nat
    BY <1>1
  <2>2. Bytes(History[k]).v = History[k]
    BY DEF Bytes
  <2>3. objs[k] # {} => \E o \in objs[k] : o.v = newest[k]
    BY <1>2, <2>1, <2>2
  <2>4. ~Versioned => History[k] <= 1
    BY DEF ResultConstants
  <2> QED
    BY <1>2, <2>1, <2>3, <2>4
<1>7. \A d \in Deleters : Targeted(d) /\ Masks(d) /\ Gone(d)
  BY <1>1, <1>3 DEF Targeted, Masks, Gone
<1>8. ReceiptStaysMasked
  <2>1. History[Withheld] > 0 => Bytes(History[Withheld]) \in objs[Withheld]
    BY <1>1, <1>2 DEF Withheld, Keys
  <2>2. /\ Bytes(History[Withheld]).v = History[Withheld] /\ ~Bytes(History[Withheld]).marker
    BY DEF Bytes
  <2>3. \A o \in objs[Withheld] : o.v <= History[Withheld]
    BY <1>1, <1>2 DEF Withheld, Keys
  <2>4. History[Withheld] > 0 => Latest(Withheld, Bytes(History[Withheld]))
    BY <2>2, <2>3 DEF Latest
  <2> QED
    BY <2>1, <2>2, <2>4 DEF ReceiptStaysMasked, Current
<1>9. ServedIsCurrent
  BY <1>1 DEF ServedIsCurrent, NoRead
<1> QED
  BY <1>4, <1>5, <1>6, <1>7, <1>8, <1>9 DEF ResultInv

\* A step of one deleter that leaves the store alone.
LEMMA OneDeleter ==
  ASSUME ResultInv, NEW d \in Deleters, UNCHANGED <<objs, newest, read>>,
         row' \in {"done", "expired", "deleted"}, versioning' \in {"none", "yes", "no"}, Known',
         NEW c \in Deletion, del' = [del EXCEPT ![d] = c],
         Targeted(d)', Masks(d)', Gone(d)'
  PROVE  ResultInv'
<1>1. ResultTypeOK /\ Stacked /\ ReceiptStaysMasked /\ ServedIsCurrent
  BY DEF ResultInv
<1>2. ResultTypeOK'
  BY <1>1 DEF ResultTypeOK
<1>3. Stacked' /\ ReceiptStaysMasked' /\ ServedIsCurrent' /\ Current(Receipt)' = Current(Receipt)
  BY <1>1 DEF Stacked, ReceiptStaysMasked, ServedIsCurrent, Current, Latest
<1>4. ASSUME NEW e \in Deleters
      PROVE  Targeted(e)' /\ Masks(e)' /\ Gone(e)'
  <2>1. CASE e = d
    BY <2>1
  <2>2. CASE e # d
    <3>1. del'[e] = del[e]
      BY <2>2
    <3>2. Targeted(e) /\ Masks(e) /\ Gone(e)
      BY DEF ResultInv
    <3>3. Targeted(e)'
      BY <3>1, <3>2 DEF Targeted
    <3>4. Masks(e)'
      BY <1>3, <3>1, <3>2 DEF Masks
    <3>5. Gone(e)'
      BY <3>1, <3>2 DEF Gone
    <3> QED
      BY <3>3, <3>4, <3>5
  <2> QED
    BY <2>1, <2>2
<1> QED
  BY <1>2, <1>3, <1>4 DEF ResultInv

\* A deletion that has failed, or not begun, knows nothing.
LEMMA RaiseKept ==
  ASSUME ResultInv, NEW d \in Deleters, UNCHANGED <<objs, newest, read, row>>,
         versioning' \in {"none", "yes", "no"}, Known', Raise(d)
  PROVE  ResultInv'
<1> DEFINE c == [Idle EXCEPT !.pc = "failed"]
<1>1. /\ c \in Deletion /\ c.pc = "failed" /\ c.targets = {} /\ c.since = [k \in Keys |-> 0]
  BY IdleIsOne DEF Deletion
<1>2. del' = [del EXCEPT ![d] = c]
  BY DEF Raise
<1> HIDE DEF c
<1>3. ResultTypeOK
  BY DEF ResultInv
<1>4. del'[d] = c
  BY <1>2, <1>3 DEF ResultTypeOK
<1>5. \A k \in Keys : 0 <= newest[k]
  BY <1>3 DEF ResultTypeOK
<1>6. Targeted(d)' /\ Masks(d)' /\ Gone(d)'
  BY <1>1, <1>4, <1>5 DEF Targeted, Masks, Gone
<1> QED
  BY <1>1, <1>2, <1>3, <1>6, OneDeleter DEF ResultTypeOK

LEMMA DeleteBeginsKept ==
  ASSUME ResultInv, NEW d \in Deleters, DeleteBegins(d)
  PROVE  ResultInv'
<1> DEFINE c == [Idle EXCEPT !.pc = "list", !.step = 1, !.since = newest]
<1>1. ResultTypeOK /\ Known
  BY DEF ResultInv
<1>2. /\ c \in Deletion /\ c.pc = "list" /\ c.step = 1 /\ c.targets = {} /\ c.since = newest
  <2>1. newest \in [Keys -> Nat]
    BY <1>1 DEF ResultTypeOK
  <2> DEFINE c1 == [Idle EXCEPT !.pc = "list"]
             c2 == [c1 EXCEPT !.step = 1]
  <2>2. c1 \in Deletion /\ c1.pc = "list" /\ c1.targets = {}
    BY IdleIsOne DEF Deletion
  <2> HIDE DEF c1
  <2>3. c2 \in Deletion /\ c2.pc = "list" /\ c2.targets = {} /\ c2.step = 1
    BY <2>2 DEF Deletion
  <2> HIDE DEF c2
  <2>4. c = [c2 EXCEPT !.since = newest]
    BY DEF c1, c2
  <2> HIDE DEF c
  <2> QED
    BY <2>1, <2>3, <2>4 DEF Deletion
<1>3. del' = [del EXCEPT ![d] = c] /\ UNCHANGED <<objs, newest, row, versioning, read>>
  BY DEF DeleteBegins
<1> HIDE DEF c
<1>4. del'[d] = c
  BY <1>1, <1>3 DEF ResultTypeOK
<1>5. \A k \in Keys : newest[k] <= newest[k]
  BY <1>1 DEF ResultTypeOK
<1>6. Targeted(d)' /\ Masks(d)' /\ Gone(d)'
  BY <1>2, <1>3, <1>4, <1>5 DEF Targeted, Masks, Gone
<1>7. Known' /\ row' \in {"done", "expired", "deleted"} /\ versioning' \in {"none", "yes", "no"}
  BY <1>1, <1>3 DEF Known, ResultTypeOK
<1> QED
  BY <1>2, <1>3, <1>6, <1>7, OneDeleter

LEMMA DeleteEndsKept ==
  ASSUME ResultInv, NEW d \in Deleters, DeleteEnds(d)
  PROVE  ResultInv'
<1> DEFINE c == [del[d] EXCEPT !.pc = "done"]
<1>1. ResultTypeOK /\ Known /\ Targeted(d) /\ Masks(d) /\ Gone(d) /\ del[d] \in Deletion
  BY DEF ResultInv, ResultTypeOK
<1>2. /\ c \in Deletion /\ c.pc = "done" /\ c.step = del[d].step /\ c.targets = del[d].targets
      /\ c.since = del[d].since
  BY <1>1 DEF Deletion
<1>3. /\ del[d].pc = "gone" /\ del' = [del EXCEPT ![d] = c] /\ UNCHANGED <<objs, newest, versioning, read>>
      /\ row' \in {"done", "expired", "deleted"}
  BY <1>1 DEF DeleteEnds, ResultTypeOK
<1> HIDE DEF c
<1>4. del'[d] = c
  BY <1>1, <1>3 DEF ResultTypeOK
<1>5. Current(Receipt)' = Current(Receipt)
  BY <1>3 DEF Current, Latest
<1>6. Targeted(d)'
  BY <1>1, <1>2, <1>3, <1>4 DEF Targeted
<1>7. Masks(d)'
  BY <1>1, <1>2, <1>3, <1>4, <1>5 DEF Masks
<1>8. Gone(d)'
  BY <1>1, <1>2, <1>3, <1>4 DEF Gone
<1>9. Known' /\ versioning' \in {"none", "yes", "no"}
  BY <1>1, <1>3 DEF Known, ResultTypeOK
<1> QED
  BY <1>2, <1>3, <1>6, <1>7, <1>8, <1>9, OneDeleter

LEMMA ListPageKept ==
  ASSUME ResultConstants, ResultInv, NEW d \in Deleters, ListPage(d)
  PROVE  ResultInv'
<1>1. ResultTypeOK /\ Known /\ Stacked /\ Targeted(d) /\ Masks(d) /\ Gone(d) /\ del[d] \in Deletion
  BY DEF ResultInv, ResultTypeOK
<1>2. /\ del[d].pc = "list" /\ UNCHANGED <<objs, newest, row, read>>
      /\ versioning' = IF versioning = "none" THEN StatusRead ELSE versioning
  BY DEF ListPage
<1>3. /\ versioning' \in {"none", "yes", "no"} /\ Known'
      /\ versioning' = "no" => ~Versioned
      /\ versioning' = "yes" => Versioned /\ "status" \notin Denied
      /\ versioning' = "none" => "status" \in Denied
  BY <1>1, <1>2 DEF StatusRead, Known, ResultTypeOK
<1>4. del[d].step \in 1..3
  BY <1>1, <1>2 DEF Masks
<1>5. PICK page \in Pages(PrefixOf(del[d].step), versioning') :
         LET mine == Mine(page, del[d].step)
         IN  IF Targets(mine) # {}
             THEN del' = [del EXCEPT ![d].pc = "batch", ![d].targets = Targets(mine),
                                     ![d].noncurrent = mine.noncurrent # {}]
             ELSE IF mine.full \/ del[d].failed THEN Raise(d)
             ELSE IF del[d].step < 3 THEN del' = [del EXCEPT ![d].step = @ + 1]
             ELSE del' = [del EXCEPT ![d].pc = "gone"]
  BY DEF ListPage, Mine
<1> DEFINE mine == Mine(page, del[d].step)
           step == del[d].step
<1>6. /\ \A e \in Targets(mine) :
            /\ e \in Wanted /\ e.key \in PrefixOf(step) \ KeptAt(step)
            /\ e.id <= newest[e.key] /\ (e.id = 0 => Blind \/ ~Versioned)
            /\ Blind => e = Keyless(e.key)
            /\ e.id # 0 /\ ~e.latest => e.id < newest[e.key]
            /\ e.id # 0 /\ e.latest => \A o \in objs[e.key] : e.id <= o.v
      /\ Targets(mine) = {} /\ ~mine.full /\ step # 2 =>
            \A k \in PrefixOf(step) : Current(k) = {} /\ (~Blind => objs[k] = {})
  <2> HIDE DEF mine
  <2>1. mine = Mine(page, del[d].step)
    BY DEF mine
  <2> QED
    BY <1>1, <1>3, <1>4, <2>1, PageTells
<1> HIDE DEF mine
<1>7. Current(Receipt)' = Current(Receipt)
  BY <1>2 DEF Current, Latest
<1>8. row' \in {"done", "expired", "deleted"}
  BY <1>1, <1>2 DEF ResultTypeOK
<1>9. CASE Targets(mine) # {}
  <2> DEFINE nc == mine.noncurrent # {}
             c == [del[d] EXCEPT !.pc = "batch", !.targets = Targets(mine), !.noncurrent = nc]
  <2>1. nc \in BOOLEAN
    OBVIOUS
  <2>2. del' = [del EXCEPT ![d] = c]
    BY <1>5, <1>9 DEF mine
  <2>3. Targets(mine) \in SUBSET Wanted
    BY <1>6
  <2> HIDE DEF nc
  <2>4. /\ c \in Deletion /\ c.pc = "batch" /\ c.targets = Targets(mine) /\ c.step = step /\ c.since = del[d].since
    BY <1>1, <2>1, <2>3 DEF Deletion
  <2> HIDE DEF c
  <2>5. del'[d] = c
    BY <1>1, <2>2 DEF ResultTypeOK
  <2>6. Targeted(d)'
    BY <1>2, <1>6, <2>4, <2>5 DEF Targeted
  <2>7. Masks(d)'
    BY <1>1, <1>2, <1>7, <2>4, <2>5 DEF Masks
  <2>8. Gone(d)'
    BY <1>1, <1>2, <2>4, <2>5 DEF Gone
  <2> QED
    BY <1>2, <1>3, <1>8, <2>2, <2>4, <2>6, <2>7, <2>8, OneDeleter
<1>10. CASE Targets(mine) = {} /\ (mine.full \/ del[d].failed)
  <2>1. Raise(d)
    BY <1>5, <1>10 DEF mine
  <2> QED
    BY <1>2, <1>3, <2>1, RaiseKept
<1>11. CASE Targets(mine) = {} /\ ~(mine.full \/ del[d].failed) /\ step < 3
  <2> DEFINE c == [del[d] EXCEPT !.step = step + 1]
  <2>1. del' = [del EXCEPT ![d] = c]
    BY <1>5, <1>11 DEF mine
  <2>2. /\ c \in Deletion /\ c.pc = "list" /\ c.targets = del[d].targets /\ c.step = step + 1 /\ c.since = del[d].since
    BY <1>1, <1>2, <1>4, <1>11 DEF Deletion
  <2> HIDE DEF c
  <2>3. del'[d] = c
    BY <1>1, <2>1 DEF ResultTypeOK
  <2>4. del[d].targets = {}
    BY <1>1, <1>2 DEF Masks
  <2>5. Targeted(d)'
    BY <2>2, <2>3, <2>4 DEF Targeted
  <2>6. Current(Receipt) = {}
    <3>1. CASE step = 1
      BY <1>6, <1>11, <3>1 DEF PrefixOf
    <3>2. CASE step = 2
      BY <1>1, <1>2, <3>2 DEF Masks
    <3> QED
      BY <1>4, <1>11, <3>1, <3>2
  <2>7. Masks(d)'
    BY <1>4, <1>7, <1>11, <2>2, <2>3, <2>4, <2>6 DEF Masks
  <2>8. Gone(d)'
    BY <1>1, <1>2, <2>2, <2>3 DEF Gone
  <2> QED
    BY <1>2, <1>3, <1>8, <2>1, <2>2, <2>5, <2>7, <2>8, OneDeleter
<1>12. CASE Targets(mine) = {} /\ ~(mine.full \/ del[d].failed) /\ ~(step < 3)
  <2> DEFINE c == [del[d] EXCEPT !.pc = "gone"]
  <2>1. del' = [del EXCEPT ![d] = c] /\ step = 3
    BY <1>4, <1>5, <1>12 DEF mine
  <2>2. /\ c \in Deletion /\ c.pc = "gone" /\ c.targets = del[d].targets /\ c.step = step /\ c.since = del[d].since
    BY <1>1 DEF Deletion
  <2> HIDE DEF c
  <2>3. del'[d] = c
    BY <1>1, <2>1 DEF ResultTypeOK
  <2>4. Targeted(d)'
    BY <1>1, <1>2, <2>2, <2>3 DEF Targeted
  <2>5. Masks(d)'
    BY <1>1, <1>2, <1>7, <2>1, <2>2, <2>3 DEF Masks
  <2>6. ~Blind => \A k \in Keys : objs[k] = {}
    BY <1>6, <1>12, <2>1 DEF PrefixOf
  <2>7. Gone(d)'
    BY <1>1, <1>2, <2>2, <2>3, <2>6 DEF Gone
  <2> QED
    BY <1>2, <1>3, <1>8, <2>1, <2>2, <2>4, <2>5, <2>7, OneDeleter
<1> QED
  BY <1>9, <1>10, <1>11, <1>12

LEMMA ListFailsKept ==
  ASSUME ResultInv, NEW d \in Deleters, ListFails(d)
  PROVE  ResultInv'
<1>1. ResultTypeOK /\ Known
  BY DEF ResultInv
<1>2. UNCHANGED <<objs, newest, row, versioning, read>> /\ Raise(d)
  BY DEF ListFails
<1>3. Known' /\ versioning' \in {"none", "yes", "no"}
  BY <1>1, <1>2 DEF Known, ResultTypeOK
<1> QED
  BY <1>2, <1>3, RaiseKept

\* What a batch does to a key.
LEMMA BatchEffects ==
  ASSUME ResultConstants, ResultInv, NEW d \in Deleters, NEW es \in SUBSET del[d].targets, NEW k \in Keys,
         objs'[k] = Removed(k, es),
         newest'[k] = IF Versioned /\ Keyless(k) \in es THEN newest[k] + 1 ELSE newest[k]
  PROVE  \/ /\ newest'[k] = newest[k] /\ objs'[k] \subseteq objs[k]
            /\ objs'[k] # {} => \E o \in objs'[k] : o.v = newest[k]
            /\ k \notin PrefixOf(del[d].step) \ KeptAt(del[d].step) => objs'[k] = objs[k]
            /\ Blind => objs'[k] = objs[k]
         \/ /\ Blind /\ k \in PrefixOf(del[d].step) \ KeptAt(del[d].step)
            /\ newest'[k] = newest[k] + 1 /\ objs'[k] = objs[k] \cup {Marker(newest[k] + 1)}
<1>1. ResultTypeOK /\ Stacked /\ Targeted(d)
  BY DEF ResultInv
<1>2. /\ objs[k] \subseteq Versions /\ newest[k] \in Nat
      /\ \A o \in objs[k] : o.v <= newest[k] /\ o.v \in Nat \ {0}
      /\ objs[k] # {} => \E o \in objs[k] : o.v = newest[k]
      /\ \A o \in objs[k], p \in objs[k] : o.v = p.v => o = p
  BY <1>1 DEF ResultTypeOK, Stacked, Versions
<1>3. Keyless(k).key = k /\ Keyless(k).id = 0
  BY DEF Keyless
<1>4. \A e \in es : /\ e.key \in PrefixOf(del[d].step) \ KeptAt(del[d].step)
                    /\ e.id = 0 => Blind \/ ~Versioned
                    /\ Blind => e = Keyless(e.key)
                    /\ e.id # 0 /\ ~e.latest => e.id < newest[e.key]
                    /\ e.id # 0 /\ e.latest => \A o \in objs[e.key] : e.id <= o.v
  BY <1>1 DEF Targeted
<1>5. CASE Keyless(k) \in es
  <2>0. PICK e \in es : e.key = k /\ e.id = 0
    BY <1>3, <1>5
  <2>1. Blind \/ ~Versioned
    BY <1>4, <2>0
  <2>2. k \in PrefixOf(del[d].step) \ KeptAt(del[d].step)
    BY <1>4, <2>0
  <2>3. CASE Versioned
    BY <1>5, <2>1, <2>2, <2>3 DEF Removed
  <2>4. CASE ~Versioned
    BY <1>5, <2>1, <2>2, <2>4 DEF Removed, Blind
  <2> QED
    BY <2>3, <2>4
<1>6. CASE Keyless(k) \notin es
  <2>1. newest'[k] = newest[k] /\ objs'[k] = {o \in objs[k] : \A e \in es : e.key # k \/ e.id # o.v}
    BY <1>6 DEF Removed
  <2>2. k \notin PrefixOf(del[d].step) \ KeptAt(del[d].step) => objs'[k] = objs[k]
    BY <1>4, <2>1
  <2>3. Blind => objs'[k] = objs[k]
    BY <1>4, <1>6, <2>1
  <2>4. ASSUME objs'[k] # {}
        PROVE  \E o \in objs'[k] : o.v = newest[k]
    <3>1. PICK o \in objs[k] : o.v = newest[k]
      BY <1>2, <2>1, <2>4
    <3>2. ASSUME NEW e \in es, e.key = k, e.id = o.v
          PROVE  FALSE
      <4>1. e.id # 0 /\ ~(e.id < newest[e.key])
        BY <1>2, <3>1, <3>2
      <4>2. \A q \in objs[k] : o.v <= q.v
        BY <1>4, <3>2, <4>1
      <4>3. \A q \in objs[k] : q.v = o.v
        BY <1>2, <3>1, <4>2
      <4>4. objs'[k] = {}
        BY <2>1, <3>2, <4>3
      <4> QED
        BY <2>4, <4>4
    <3>3. o \in objs'[k]
      BY <2>1, <3>1, <3>2
    <3> QED
      BY <3>1, <3>3
  <2> QED
    BY <2>1, <2>2, <2>3, <2>4
<1> QED
  BY <1>5, <1>6

LEMMA DeleteBatchDoneKept ==
  ASSUME ResultConstants, ResultInv, NEW d \in Deleters, DeleteBatchDone(d)
  PROVE  ResultInv'
<1>1. ResultTypeOK /\ Known /\ Stacked /\ ReceiptStaysMasked /\ ServedIsCurrent
  BY DEF ResultInv
<1>2. \A e \in Deleters : Targeted(e) /\ Masks(e) /\ Gone(e) /\ del[e] \in Deletion
  BY DEF ResultInv, ResultTypeOK
<1>3. PICK bad \in SUBSET del[d].targets :
         /\ objs' = [k \in Keys |-> Removed(k, del[d].targets \ bad)]
         /\ newest' = [k \in Keys |-> IF Versioned /\ Keyless(k) \in del[d].targets \ bad
                                      THEN newest[k] + 1 ELSE newest[k]]
         /\ IF bad = del[d].targets \/ ((del[d].failed \/ bad # {}) /\ del[d].noncurrent) THEN Raise(d)
            ELSE del' = [del EXCEPT ![d].pc = "list", ![d].failed = @ \/ bad # {}, ![d].targets = {}]
  BY DEF DeleteBatchDone
<1>4. del[d].pc = "batch" /\ UNCHANGED <<row, versioning, read>>
  BY DEF DeleteBatchDone
<1> DEFINE step == del[d].step
           reach == PrefixOf(step) \ KeptAt(step)
<1>5. ASSUME NEW k \in Keys
      PROVE  \/ /\ newest'[k] = newest[k] /\ objs'[k] \subseteq objs[k]
                /\ objs'[k] # {} => \E o \in objs'[k] : o.v = newest[k]
                /\ k \notin reach => objs'[k] = objs[k]
                /\ Blind => objs'[k] = objs[k]
             \/ /\ Blind /\ k \in reach
                /\ newest'[k] = newest[k] + 1 /\ objs'[k] = objs[k] \cup {Marker(newest[k] + 1)}
  <2> DEFINE es == del[d].targets \ bad
  <2>1. /\ objs'[k] = Removed(k, es)
        /\ newest'[k] = IF Versioned /\ Keyless(k) \in es THEN newest[k] + 1 ELSE newest[k]
    BY <1>3
  <2>2. es \in SUBSET del[d].targets
    OBVIOUS
  <2> HIDE DEF es
  <2> QED
    BY <2>1, <2>2, BatchEffects
<1> HIDE DEF reach
<1>6. \A k \in Keys : /\ objs[k] \subseteq Versions /\ IsFiniteSet(objs[k]) /\ newest[k] \in Nat
                      /\ Marker(newest[k] + 1) \in Versions /\ Marker(newest[k] + 1).v = newest[k] + 1
                      /\ Marker(newest[k] + 1).marker
                      /\ \A o \in objs[k] : o.v <= newest[k] /\ o.v \in Nat \ {0}
  BY <1>1 DEF ResultTypeOK, Stacked, Marker, Versions
<1>7. ASSUME NEW k \in Keys
      PROVE  objs'[k] \in SUBSET Versions /\ IsFiniteSet(objs'[k]) /\ newest'[k] \in Nat /\ newest[k] <= newest'[k]
  <2>1. CASE objs'[k] \subseteq objs[k] /\ newest'[k] = newest[k]
    BY <1>6, <2>1, FS_Subset
  <2>2. CASE newest'[k] = newest[k] + 1 /\ objs'[k] = objs[k] \cup {Marker(newest[k] + 1)}
    BY <1>6, <2>2, FS_AddElement
  <2> QED
    BY <1>5, <2>1, <2>2
<1>8. objs' \in [Keys -> SUBSET Versions] /\ newest' \in [Keys -> Nat]
  <2>1. objs' = [k \in Keys |-> objs'[k]] /\ newest' = [k \in Keys |-> newest'[k]]
    BY <1>3
  <2> QED
    BY <1>7, <2>1
<1>9. Stacked'
  <2> SUFFICES ASSUME NEW k \in Keys
               PROVE  /\ \A o \in objs'[k] : o.v <= newest'[k]
                      /\ objs'[k] # {} => \E o \in objs'[k] : o.v = newest'[k]
                      /\ \A o \in objs'[k], p \in objs'[k] : o.v = p.v => o = p
                      /\ ~Versioned => \A o \in objs'[k] : o.v = newest'[k]
                      /\ ~Blind => \A o \in objs'[k] : ~o.marker
    BY DEF Stacked
  <2>1. /\ \A o \in objs[k], p \in objs[k] : o.v = p.v => o = p
        /\ ~Versioned => \A o \in objs[k] : o.v = newest[k]
        /\ ~Blind => \A o \in objs[k] : ~o.marker
    BY <1>1 DEF Stacked
  <2>2. CASE /\ newest'[k] = newest[k] /\ objs'[k] \subseteq objs[k]
             /\ objs'[k] # {} => \E o \in objs'[k] : o.v = newest[k]
    BY <1>6, <2>1, <2>2
  <2>3. CASE Blind /\ newest'[k] = newest[k] + 1 /\ objs'[k] = objs[k] \cup {Marker(newest[k] + 1)}
    BY <1>6, <2>1, <2>3 DEF Blind
  <2> QED
    BY <1>5, <2>2, <2>3
<1>10. ASSUME NEW k \in Keys
       PROVE  /\ Current(k)' \subseteq Current(k)
              /\ k \notin reach => Current(k)' = Current(k)
  <2>1. Current(k) = Top(objs[k]) /\ Current(k)' = Top(objs'[k])
    BY CurrentIsTop
  <2>2. CASE objs'[k] = objs[k]
    BY <2>1, <2>2
  <2>3. CASE ~Blind /\ objs'[k] \subseteq objs[k] /\ newest'[k] = newest[k] /\ k \in reach
    <3>1. CASE objs'[k] = {}
      BY <2>1, <2>3, <3>1 DEF Top
    <3>2. CASE objs'[k] # {}
      <4>1. Current(k) = {newest[k]}
        BY <1>1, <2>3, <3>2, ReadsNewest
      <4>2. /\ \A o \in objs'[k] : o.v <= newest'[k]
            /\ objs'[k] # {} => \E o \in objs'[k] : o.v = newest'[k]
        BY <1>9 DEF Stacked
      <4>3. Top(objs'[k]) \subseteq {newest'[k]}
        BY <1>7, <4>2, TopIsNewest
      <4> QED
        BY <2>1, <2>3, <4>1, <4>3
    <3> QED
      BY <3>1, <3>2
  <2>4. CASE k \in reach /\ newest'[k] = newest[k] + 1 /\ objs'[k] = objs[k] \cup {Marker(newest[k] + 1)}
    <3>1. \A o \in objs'[k] : o.v <= newest[k] + 1
      BY <1>6, <2>4
    <3>2. \E o \in objs'[k] : o.v = newest[k] + 1
      BY <1>6, <2>4
    <3>3. \A o \in objs'[k] : o.v = newest[k] + 1 => o.marker
      BY <1>6, <2>4
    <3>4. newest[k] + 1 \in Nat
      BY <1>6
    <3>5. Top(objs'[k]) = {}
      BY <1>7, <3>1, <3>2, <3>3, <3>4, TopIsNewest
    <3> QED
      BY <2>1, <2>4, <3>5
  <2> QED
    BY <1>5, <2>2, <2>3, <2>4
<1>11. Receipt \in Keys /\ Withheld \in Keys
  BY DEF Receipt, Withheld, Keys
<1>12. ReceiptStaysMasked'
  <2> SUFFICES ASSUME History[Withheld] > 0, Current(Receipt)' # {} PROVE Current(Withheld)' # {}
    BY DEF ReceiptStaysMasked
  <2>1. Current(Receipt) # {}
    BY <1>10, <1>11
  <2>2. Current(Withheld) # {}
    BY <1>1, <2>1 DEF ReceiptStaysMasked
  <2>3. step = 1
    BY <1>2, <1>4, <2>1 DEF Masks
  <2>4. Withheld \notin reach
    BY <2>3 DEF reach, PrefixOf, Receipt, Withheld
  <2> QED
    BY <1>10, <1>11, <2>2, <2>4
<1>13. PICK c \in Deletion : /\ del' = [del EXCEPT ![d] = c]
                             /\ c.targets = {}
                             /\ \/ c.pc = "failed" /\ c.since = [k \in Keys |-> 0]
                                \/ c.pc = "list" /\ c.step = step /\ c.since = del[d].since
  <2>1. CASE Raise(d)
    <3> DEFINE c == [Idle EXCEPT !.pc = "failed"]
    <3>1. c \in Deletion /\ c.pc = "failed" /\ c.targets = {} /\ c.since = [k \in Keys |-> 0]
      BY IdleIsOne DEF Deletion
    <3>2. del' = [del EXCEPT ![d] = c]
      BY <2>1 DEF Raise
    <3> QED
      BY <3>1, <3>2
  <2>2. CASE ~Raise(d)
    <3> DEFINE f == del[d].failed \/ bad # {}
               c == [del[d] EXCEPT !.pc = "list", !.failed = f, !.targets = {}]
    <3>1. f \in BOOLEAN
      OBVIOUS
    <3>2. del' = [del EXCEPT ![d] = c]
      BY <1>3, <2>2
    <3> HIDE DEF f
    <3>3. {} \in SUBSET Wanted
      OBVIOUS
    <3>4. c \in Deletion /\ c.pc = "list" /\ c.targets = {} /\ c.step = step /\ c.since = del[d].since
      BY <1>2, <3>1, <3>3 DEF Deletion
    <3> QED
      BY <3>2, <3>4
  <2> QED
    BY <2>1, <2>2
<1>14. del'[d] = c /\ (\A e \in Deleters : e # d => del'[e] = del[e])
  BY <1>1, <1>13 DEF ResultTypeOK
<1>15. ASSUME NEW e \in Deleters
       PROVE  Targeted(e)' /\ Masks(e)' /\ Gone(e)'
  <2>1. Current(Receipt)' \subseteq Current(Receipt)
    BY <1>10, <1>11
  <2>2. CASE e = d
    <3>1. Targeted(d)'
      BY <1>13, <1>14 DEF Targeted
    <3>2. Masks(d)'
      BY <1>2, <1>4, <1>13, <1>14, <2>1 DEF Masks
    <3>3. Gone(d)'
      <4>1. \A k \in Keys : newest[k] <= newest'[k] /\ newest[k] \in Nat /\ newest'[k] \in Nat
        BY <1>6, <1>7
      <4>2. \A k \in Keys : del[d].since[k] <= newest[k] /\ del[d].since[k] \in Nat
        BY <1>2 DEF Gone, Deletion
      <4>3. \A k \in Keys : c.since[k] <= newest'[k]
        BY <1>13, <4>1, <4>2
      <4> QED
        BY <1>13, <1>14, <4>3 DEF Gone
    <3> QED
      BY <2>2, <3>1, <3>2, <3>3
  <2>3. CASE e # d
    <3>1. del'[e] = del[e]
      BY <1>14, <2>3
    <3>2. Targeted(e)'
      <4> SUFFICES ASSUME NEW x \in del[e].targets
                   PROVE  /\ x.key \in PrefixOf(del[e].step) \ KeptAt(del[e].step)
                          /\ x.id <= newest'[x.key] /\ (x.id = 0 => Blind \/ ~Versioned)
                          /\ Blind => x = Keyless(x.key)
                          /\ x.id # 0 /\ ~x.latest => x.id < newest'[x.key]
                          /\ x.id # 0 /\ x.latest => \A o \in objs'[x.key] : x.id <= o.v
        BY <3>1 DEF Targeted
      <4>1. /\ x.key \in PrefixOf(del[e].step) \ KeptAt(del[e].step)
            /\ x.id <= newest[x.key] /\ (x.id = 0 => Blind \/ ~Versioned)
            /\ Blind => x = Keyless(x.key)
            /\ x.id # 0 /\ ~x.latest => x.id < newest[x.key]
            /\ x.id # 0 /\ x.latest => \A o \in objs[x.key] : x.id <= o.v
        BY <1>2 DEF Targeted
      <4>2. x \in Wanted
        BY <1>2 DEF Deletion
      <4>3. x.key \in Keys /\ x.id \in Nat
        BY <4>2 DEF Wanted
      <4>4. newest[x.key] \in Nat /\ newest'[x.key] \in Nat /\ newest[x.key] <= newest'[x.key]
        BY <1>6, <1>7, <4>3
      <4>5. x.id <= newest'[x.key] /\ (x.id # 0 /\ ~x.latest => x.id < newest'[x.key])
        BY <4>1, <4>3, <4>4
      <4>6. x.id # 0 /\ x.latest => \A o \in objs'[x.key] : x.id <= o.v
        BY <1>5, <1>6, <4>1, <4>3, <4>4
      <4> QED
        BY <4>1, <4>5, <4>6
    <3>3. Masks(e)'
      BY <1>2, <2>1, <3>1 DEF Masks
    <3>4. Gone(e)'
      <4>1. Gone(e) /\ del[e].since \in [Keys -> Nat]
        BY <1>2 DEF Deletion
      <4>2. \A k \in Keys : del[e].since[k] <= newest'[k]
        BY <1>6, <1>7, <4>1 DEF Gone
      <4>3. ~Blind => \A k \in Keys : objs'[k] \subseteq objs[k]
        BY <1>5
      <4> QED
        BY <3>1, <4>1, <4>2, <4>3 DEF Gone
    <3> QED
      BY <3>2, <3>3, <3>4
  <2> QED
    BY <2>2, <2>3
<1>16. ResultTypeOK'
  <2>1. del' \in [Deleters -> Deletion]
    BY <1>1, <1>13 DEF ResultTypeOK
  <2> QED
    BY <1>1, <1>4, <1>7, <1>8, <2>1 DEF ResultTypeOK
<1>17. Known' /\ ServedIsCurrent'
  BY <1>1, <1>4 DEF Known, ServedIsCurrent
<1> QED
  BY <1>9, <1>12, <1>15, <1>16, <1>17 DEF ResultInv

\* A re-upload while the job is done: of neither the receipt nor its marker.
LEMMA PutKept ==
  ASSUME ResultConstants, ResultInv, NEW k \in {Metadata, Artifact}, Put(k)
  PROVE  ResultInv'
<1>1. ResultTypeOK /\ Known /\ Stacked /\ ReceiptStaysMasked /\ ServedIsCurrent
  BY DEF ResultInv
<1>2. \A e \in Deleters : Targeted(e) /\ Masks(e) /\ Gone(e) /\ del[e] \in Deletion
  BY DEF ResultInv, ResultTypeOK
<1>3. k \in Keys /\ k # Receipt /\ k # Withheld /\ Receipt \in Keys /\ Withheld \in Keys
  BY DEF Metadata, Artifact, Receipt, Withheld, Keys
<1> DEFINE new == Bytes(newest[k] + 1)
<1>4. /\ newest' = [newest EXCEPT ![k] = newest[k] + 1]
      /\ objs' = [objs EXCEPT ![k] = Written(k, newest[k] + 1)]
      /\ UNCHANGED <<row, versioning, del, read>>
  BY DEF Put
<1>5. \A j \in Keys : /\ objs[j] \subseteq Versions /\ IsFiniteSet(objs[j]) /\ newest[j] \in Nat
                      /\ \A o \in objs[j] : o.v <= newest[j] /\ o.v \in Nat \ {0}
  BY <1>1 DEF ResultTypeOK, Stacked, Versions
<1>6. /\ newest'[k] = newest[k] + 1
      /\ objs'[k] = IF Versioned THEN objs[k] \cup {new} ELSE {new}
      /\ \A j \in Keys : j # k => newest'[j] = newest[j] /\ objs'[j] = objs[j]
  BY <1>1, <1>3, <1>4 DEF ResultTypeOK, Written
<1>7. new \in Versions /\ new.v = newest[k] + 1 /\ ~new.marker
  BY <1>3, <1>5 DEF Bytes, Versions
<1> HIDE DEF new
<1>8. ASSUME NEW j \in Keys
      PROVE  objs'[j] \in SUBSET Versions /\ IsFiniteSet(objs'[j]) /\ newest'[j] \in Nat /\ newest[j] <= newest'[j]
  <2>1. CASE j = k
    <3>1. IsFiniteSet({new}) /\ IsFiniteSet(objs[k] \cup {new})
      BY <1>3, <1>5, FS_Singleton, FS_AddElement
    <3> QED
      BY <1>3, <1>5, <1>6, <1>7, <2>1, <3>1
  <2>2. CASE j # k
    BY <1>5, <1>6, <2>2
  <2> QED
    BY <2>1, <2>2
<1>9. objs' \in [Keys -> SUBSET Versions] /\ newest' \in [Keys -> Nat]
  <2>1. objs' = [j \in Keys |-> objs'[j]] /\ newest' = [j \in Keys |-> newest'[j]]
    BY <1>1, <1>4 DEF ResultTypeOK
  <2> QED
    BY <1>8, <2>1
<1>10. ResultTypeOK'
  BY <1>1, <1>4, <1>8, <1>9 DEF ResultTypeOK
<1>11. Stacked'
  <2> SUFFICES ASSUME NEW j \in Keys
               PROVE  /\ \A o \in objs'[j] : o.v <= newest'[j]
                      /\ objs'[j] # {} => \E o \in objs'[j] : o.v = newest'[j]
                      /\ \A o \in objs'[j], p \in objs'[j] : o.v = p.v => o = p
                      /\ ~Versioned => \A o \in objs'[j] : o.v = newest'[j]
                      /\ ~Blind => \A o \in objs'[j] : ~o.marker
    BY DEF Stacked
  <2>1. /\ \A o \in objs[j] : o.v <= newest[j]
        /\ objs[j] # {} => \E o \in objs[j] : o.v = newest[j]
        /\ \A o \in objs[j], p \in objs[j] : o.v = p.v => o = p
        /\ ~Versioned => \A o \in objs[j] : o.v = newest[j]
        /\ ~Blind => \A o \in objs[j] : ~o.marker
    BY <1>1 DEF Stacked
  <2>2. CASE j # k
    BY <1>6, <2>1, <2>2
  <2>3. CASE j = k
    <3>1. \A o \in objs'[j] : o = new \/ (Versioned /\ o \in objs[j])
      BY <1>6, <2>3
    <3>2. \A o \in objs[j] : o.v \in Nat /\ o.v < new.v
      BY <1>3, <1>5, <1>7, <2>3
    <3>3. new \in objs'[j] /\ new.v = newest'[j] /\ new.v \in Nat
      BY <1>3, <1>5, <1>6, <1>7, <2>3
    <3>4. \A o \in objs'[j] : o.v <= newest'[j]
      BY <3>1, <3>2, <3>3
    <3>5. \A o \in objs'[j], p \in objs'[j] : o.v = p.v => o = p
      BY <2>1, <3>1, <3>2, <3>3
    <3> QED
      BY <1>7, <2>1, <3>1, <3>3, <3>4, <3>5
  <2> QED
    BY <2>2, <2>3
<1>12. Current(Receipt)' = Current(Receipt) /\ Current(Withheld)' = Current(Withheld)
  BY <1>3, <1>6, CurrentIsTop
<1>13. ReceiptStaysMasked' /\ Known' /\ ServedIsCurrent'
  BY <1>1, <1>4, <1>12 DEF ReceiptStaysMasked, Known, ServedIsCurrent
<1>14. ASSUME NEW e \in Deleters
       PROVE  Targeted(e)' /\ Masks(e)' /\ Gone(e)'
  <2>1. del'[e] = del[e]
    BY <1>4
  <2>2. Targeted(e)'
    <3> SUFFICES ASSUME NEW x \in del[e].targets
                 PROVE  /\ x.key \in PrefixOf(del[e].step) \ KeptAt(del[e].step)
                        /\ x.id <= newest'[x.key] /\ (x.id = 0 => Blind \/ ~Versioned)
                        /\ Blind => x = Keyless(x.key)
                        /\ x.id # 0 /\ ~x.latest => x.id < newest'[x.key]
                        /\ x.id # 0 /\ x.latest => \A o \in objs'[x.key] : x.id <= o.v
      BY <2>1 DEF Targeted
    <3>1. /\ x.key \in PrefixOf(del[e].step) \ KeptAt(del[e].step)
          /\ x.id <= newest[x.key] /\ (x.id = 0 => Blind \/ ~Versioned)
          /\ Blind => x = Keyless(x.key)
          /\ x.id # 0 /\ ~x.latest => x.id < newest[x.key]
          /\ x.id # 0 /\ x.latest => \A o \in objs[x.key] : x.id <= o.v
      BY <1>2 DEF Targeted
    <3>2. x \in Wanted
      BY <1>2 DEF Deletion
    <3>3. x.key \in Keys /\ x.id \in Nat
      BY <3>2 DEF Wanted
    <3>4. newest[x.key] \in Nat /\ newest'[x.key] \in Nat /\ newest[x.key] <= newest'[x.key]
      BY <1>5, <1>8, <3>3
    <3>5. x.id <= newest'[x.key] /\ (x.id # 0 /\ ~x.latest => x.id < newest'[x.key])
      BY <3>1, <3>3, <3>4
    <3>6. \A o \in objs'[x.key] : o \in objs[x.key] \/ (x.key = k /\ o = new)
      BY <1>6, <3>3
    <3>7. x.id # 0 /\ x.latest => \A o \in objs'[x.key] : x.id <= o.v
      BY <1>7, <3>1, <3>3, <3>4, <3>6
    <3> QED
      BY <3>1, <3>5, <3>7
  <2>3. Masks(e)'
    BY <1>2, <1>12, <2>1 DEF Masks
  <2>4. Gone(e)'
    <3>1. Gone(e) /\ del[e].since \in [Keys -> Nat]
      BY <1>2 DEF Deletion
    <3>2. \A j \in Keys : del[e].since[j] <= newest'[j]
      BY <1>5, <1>8, <3>1 DEF Gone
    <3>3. \A j \in Keys : \A o \in objs'[j] : o \in objs[j] \/ (j = k /\ o = new)
      BY <1>6
    <3>4. new.v > del[e].since[k]
      BY <1>3, <1>5, <1>7, <3>1 DEF Gone
    <3> QED
      BY <2>1, <3>1, <3>2, <3>3, <3>4 DEF Gone
  <2> QED
    BY <2>2, <2>3, <2>4
<1> QED
  BY <1>10, <1>11, <1>13, <1>14 DEF ResultInv

\* The parts of the invariant that no read touches.
LEMMA RestStands ==
  ASSUME ResultInv, UNCHANGED <<objs, newest, row, versioning, del>>
  PROVE  /\ ResultTypeOK' /\ Known' /\ Stacked' /\ ReceiptStaysMasked'
         /\ \A d \in Deleters : Targeted(d)' /\ Masks(d)' /\ Gone(d)'
<1>1. ResultTypeOK' /\ Known' /\ Stacked'
  BY DEF ResultInv, ResultTypeOK, Known, Stacked
<1>2. \A k \in Keys : Current(k)' = Current(k)
  BY CurrentIsTop
<1>3. Receipt \in Keys /\ Withheld \in Keys
  BY DEF Receipt, Withheld, Keys
<1>4. ReceiptStaysMasked'
  BY <1>2, <1>3 DEF ResultInv, ReceiptStaysMasked
<1>5. ASSUME NEW d \in Deleters
      PROVE  Targeted(d)' /\ Masks(d)' /\ Gone(d)'
  <2>1. Targeted(d) /\ Masks(d) /\ Gone(d)
    BY DEF ResultInv
  <2>2. Targeted(d)'
    BY <2>1 DEF Targeted
  <2>3. Masks(d)'
    BY <1>2, <1>3, <2>1 DEF Masks
  <2>4. Gone(d)'
    BY <2>1 DEF Gone
  <2> QED
    BY <2>2, <2>3, <2>4
<1> QED
  BY <1>1, <1>4, <1>5

\* A read changes nothing but itself, and what it takes is the last version of its key.
LEMMA ReadKept ==
  ASSUME ResultInv, ReadRow \/ ReadMetadata \/ ReadArtifacts \/ NextRequest
  PROVE  ResultInv'
<1>1. ResultTypeOK /\ Stacked /\ ServedIsCurrent
  BY DEF ResultInv
<1>2. UNCHANGED <<objs, newest, row, versioning, del>>
  BY DEF ReadRow, ReadMetadata, ReadArtifacts, NextRequest
<1>3. \A k \in Keys : \A v \in Current(k) : v = newest[k]
  BY <1>1, ReadsNewest
<1>4. NoRead.got = {} /\ Metadata \in Keys /\ Artifact \in Keys
  BY DEF NoRead, Metadata, Artifact, Keys
<1>5. ServedIsCurrent'
  <2>1. CASE ReadRow \/ NextRequest
    BY <1>4, <2>1 DEF ReadRow, NextRequest, ServedIsCurrent, NoRead
  <2>2. CASE ReadMetadata
    <3>1. \/ read'.got = {}
          \/ read'.got = {<<Metadata, v, newest[Metadata]>> : v \in Current(Metadata)}
      BY <2>2 DEF ReadMetadata, NoRead
    <3> QED
      BY <1>3, <1>4, <3>1 DEF ServedIsCurrent
  <2>3. CASE ReadArtifacts
    <3>1. read'.got = read.got \cup {<<Artifact, v, newest[Artifact]>> : v \in Current(Artifact)}
      BY <2>3 DEF ReadArtifacts
    <3> QED
      BY <1>1, <1>3, <1>4, <3>1 DEF ServedIsCurrent
  <2> QED
    BY <2>1, <2>2, <2>3
<1> QED
  BY <1>2, <1>5, RestStands DEF ResultInv

LEMMA ResultStep ==
  ASSUME ResultConstants, ResultInv, [ResultNext]_resultVars
  PROVE  ResultInv'
<1>1. CASE \E k \in {Metadata, Artifact} : Put(k)
  BY <1>1, PutKept
<1>2. CASE \E d \in Deleters : DeleteBegins(d) \/ ListPage(d) \/ ListFails(d) \/ DeleteBatchDone(d) \/ DeleteEnds(d)
  BY <1>2, DeleteBeginsKept, ListPageKept, ListFailsKept, DeleteBatchDoneKept, DeleteEndsKept
<1>3. CASE ReadRow \/ ReadMetadata \/ ReadArtifacts \/ NextRequest
  BY <1>3, ReadKept
<1>4. CASE UNCHANGED resultVars
  <2>1. UNCHANGED <<objs, newest, row, versioning, del, read>>
    BY <1>4 DEF resultVars
  <2>2. ServedIsCurrent'
    BY <2>1 DEF ResultInv, ServedIsCurrent
  <2> QED
    BY <2>1, <2>2, RestStands DEF ResultInv
<1> QED
  BY <1>1, <1>2, <1>3, <1>4 DEF ResultNext

\* Overwritten bytes never come back, whatever pages and batches fail half-way, for any
\* number of deletions, any history of versions and any size of a page
\* (_next_delete_page, _delete_prefix, open_output).
THEOREM OverwrittenBytesStayGone ==
  ASSUME ResultConstants
  PROVE  ResultSpec => []NothingResurfaces
<1>1. ResultInit => ResultInv
  BY ResultInitially
<1>2. ResultInv /\ [ResultNext]_resultVars => ResultInv'
  BY ResultStep
<1>3. ResultInv => NothingResurfaces
  BY ReadsNewest DEF ResultInv, NothingResurfaces
<1> QED
  BY <1>1, <1>2, <1>3, PTL DEF ResultSpec

\* A receipt that is masked is never served unmasked while deletions run (delete_job's order).
THEOREM MaskOutlastsReceipt ==
  ASSUME ResultConstants
  PROVE  ResultSpec => []ReceiptStaysMasked
<1>1. ResultInit => ResultInv
  BY ResultInitially
<1>2. ResultInv /\ [ResultNext]_resultVars => ResultInv'
  BY ResultStep
<1>3. ResultInv => ReceiptStaysMasked
  BY DEF ResultInv
<1> QED
  BY <1>1, <1>2, <1>3, PTL DEF ResultSpec

\* A deletion ends, and its row goes, only over a store that holds nothing from before it began,
\* unless the principal may find out nothing of a bucket that keeps versions
\* (delete_job raises on every partial failure).
THEOREM DeletedMeansGone ==
  ASSUME ResultConstants, ~Blind
  PROVE  ResultSpec => []GoneMeansGone
<1>1. ResultInit => ResultInv
  BY ResultInitially
<1>2. ResultInv /\ [ResultNext]_resultVars => ResultInv'
  BY ResultStep
<1>3. ResultInv => GoneMeansGone
  BY DEF ResultInv, Gone, GoneMeansGone
<1> QED
  BY <1>1, <1>2, <1>3, PTL DEF ResultSpec

\* What an archive holds was the last version of its key when it was read
\* (get_result, _zip_validated_artifacts).
THEOREM ArchivesStayCurrent ==
  ASSUME ResultConstants
  PROVE  ResultSpec => []ServedIsCurrent
<1>1. ResultInit => ResultInv
  BY ResultInitially
<1>2. ResultInv /\ [ResultNext]_resultVars => ResultInv'
  BY ResultStep
<1>3. ResultInv => ServedIsCurrent
  BY DEF ResultInv
<1> QED
  BY <1>1, <1>2, <1>3, PTL DEF ResultSpec
=============================================================================
