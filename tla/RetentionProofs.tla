---------------------------- MODULE RetentionProofs ----------------------------
(* Theorems about the dispatcher beside what becomes of a job after its terminal *)
(* write: the upload retry, the reclaim of scratch trees, the expiry and DELETE. *)
(* A step of the dispatcher is one of Dispatch, so its effects are known; those  *)
(* of the sweeps and of DELETE touch only rows that are over.                    *)
EXTENDS Retention, DispatchProofs

\* A step of a retention sweep, of DELETE or of the clock of expires_at.
SweepStep ==
  \/ \E j \in Jobs : ExpiryPasses(j) \/ DeleteStep(j)
  \/ \E n \in Nodes : RetentionStep(n)
  \/ \E n \in Nodes, j \in Jobs : RetentionBegin(n, j)

\* A step of the dispatcher leaves the sweeps alone, unless it is a crash.
DispatcherStep ==
  /\ [Next]_vars
  /\ del' = del
  /\ rt' \in [Nodes -> RetentionStates]
  /\ \A n \in Nodes : rt'[n] = rt[n] \/ rt'[n] = IdleRetention

RtInv ==
  /\ rt \in [Nodes -> RetentionStates]
  /\ del \in [Jobs -> DeletePcs]
  /\ \A n \in Nodes : rt[n].pc # "idle" => RJ(n) \in Jobs

-------------------------------------------------------------------------------
LEMMA IdleTyped == IdleRetention \in RetentionStates /\ IdleRetention.pc = "idle"
  BY JobStoreAssumption DEF RetentionStates, IdleRetention, RetentionPcs, ClaimIds, NoClaim,
     Statuses

LEMMA RetentionSteps ==
  ASSUME RtInv, [RetentionNext]_allVars
  PROVE  DispatcherStep \/ SweepStep
<1>1. CASE DispatchStep /\ UNCHANGED retVars
  <2>1. Next
    BY <1>1 DEF DispatchStep, Next, MaintBegin
  <2> QED
    BY <1>1, <2>1 DEF DispatcherStep, RtInv, retVars
<1>2. ASSUME NEW n \in Nodes, CrashAll(n) PROVE DispatcherStep
  <2>1. Next
    BY <1>2 DEF CrashAll, Next
  <2>2. /\ rt' \in [Nodes -> RetentionStates]
        /\ \A m \in Nodes : rt'[m] = rt[m] \/ rt'[m] = IdleRetention
    BY <1>2, IdleTyped DEF CrashAll, RIdle, RtInv
  <2> QED
    BY <1>2, <2>1, <2>2 DEF CrashAll, DispatcherStep
<1>3. CASE UNCHANGED allVars
  BY <1>3 DEF allVars, DispatcherStep, RtInv, vars
<1> QED
  BY <1>1, <1>2, <1>3 DEF RetentionNext, SweepStep

\* How the retention work of node n goes on.
Proceeds(n) ==
  /\ rt'[n].job = RJ(n) /\ rt[n].pc # "idle"
  /\ LET p == rt[n].pc  q == rt'[n].pc  r == row[RJ(n)]  s == row'[RJ(n)] IN
     \/ /\ rt'[n].claim = rt[n].claim
        /\ \/ p = "rtmark" /\ q = "rtprobe"
              /\ disk[n][RJ(n)].marker = rt[n].claim /\ rt[n].claim # NoClaim
           \/ p = "rtprobe" /\ q \in {"rtbody", "rtfix"}
           \/ p = "rtbody" /\ q = "rtseal"
           \/ p = "rtseal" /\ q = "rtfix"
           \/ p = "rtfix" /\ q = "rtclear" /\ r.status = "failed" /\ s.status = "done"
           \/ p = "rtfix" /\ q = "rtafter"
           \/ p = "rtafter" /\ q = "rtundo" /\ r.status = "expired"
           \/ p = "rtundo" /\ q = "rtclear"
     \/ p = "rtread" /\ q = "rtmark" /\ r.status = "failed" /\ rt'[n].claim = r.claim
     \/ /\ p = "scread" /\ q = "scjudge"
        /\ r.status \in Terminal \cup {"absent"} /\ rt'[n].status = r.status
     \/ /\ p = "scjudge" /\ q = "scpurge" /\ rt'[n].status = rt[n].status
        /\ rt[n].status = "failed" => disk[n][RJ(n)].marker = NoClaim
     \/ p = "exread" /\ q = "exreserve" /\ rt'[n].status = rt[n].status
     \/ p = "exreserve" /\ q = "extree" /\ r.status = rt[n].status /\ s.status = "expired"
     \/ p = "extree" /\ q = "exblob"
     \/ p = "exblob" /\ q = "exfinal"

Begins(n) ==
  /\ rt[n].pc = "idle" /\ rt'[n].job \in Jobs
  /\ LET j == rt'[n].job IN
     \/ rt'[n].pc = "rtread"
     \/ rt'[n].pc = "scread" /\ disk[n][j] # NoTree
     \/ rt'[n].pc = "exread" /\ row[j].status \in Terminal /\ rt'[n].status = row[j].status

RtEffect ==
  /\ rt' \in [Nodes -> RetentionStates]
  /\ \A n \in Nodes :
       rt'[n] = rt[n] \/ rt'[n] = IdleRetention \/ Begins(n) \/ Proceeds(n)

\* What a sweep or DELETE does to the rows.
RowEffect ==
  \/ UNCHANGED storeVars
  \/ \E j \in Jobs, r \in Rows :
       /\ row' = [row EXCEPT ![j] = r] /\ UNCHANGED <<issued, submitted>>
       /\ \/ \E e \in Expiries : r = [row[j] EXCEPT !.expiry = e]
          \/ /\ row[j].status = "failed" /\ r.status = "done" /\ r.claim = row[j].claim
             /\ \E n \in Nodes : rt[n].pc = "rtfix" /\ RJ(n) = j
          \/ /\ r.status = "expired" /\ r.claim = row[j].claim
             /\ \E n \in Nodes :
                  rt[n].pc = "exreserve" /\ RJ(n) = j /\ rt[n].status = row[j].status
          \/ del[j] = "row" /\ r = NoRow

\* What they do to the trees and to the requests.
DiskEffect ==
  \A n \in Nodes, j \in Jobs :
    \/ disk'[n][j] = disk[n][j]
    \/ /\ rt[n].pc = "rtclear" /\ RJ(n) = j
       /\ disk'[n][j] = [disk[n][j] EXCEPT !.marker = NoClaim]
    \/ rt[n].pc \in {"scpurge", "extree"} /\ RJ(n) = j /\ disk'[n][j] = NoTree
    \/ del[j] = "tree" /\ disk'[n][j] = NoTree

DelEffect ==
  /\ del' \in [Jobs -> DeletePcs]
  /\ \A j \in Jobs :
       \/ del'[j] = del[j]
       \/ del[j] \in {"tree", "blob", "row"} /\ del'[j] # "no"
       \/ row[j].status \in Terminal /\ del'[j] = "tree"

LEMMA RtEffects ==
  ASSUME TypeInv, RtInv, SweepStep
  PROVE  RtEffect
<1>t. /\ rt \in [Nodes -> RetentionStates] /\ IdleRetention \in RetentionStates
      /\ \A j \in Jobs : row[j].claim \in ClaimIds /\ row[j].status \in Statuses
  BY JobStoreAssumption DEF RtInv, RetentionStates, IdleRetention, RetentionPcs, ClaimIds,
     NoClaim, Statuses, TypeInv, RowInv, Rows
<1>g. ASSUME NEW n \in Nodes, NEW x \in RetentionStates, rt' = [rt EXCEPT ![n] = x],
             x = IdleRetention \/ Begins(n) \/ Proceeds(n)
      PROVE  RtEffect
  <2>1. rt' \in [Nodes -> RetentionStates] /\ rt'[n] = x
        /\ \A m \in Nodes : m # n => rt'[m] = rt[m]
    BY <1>t, <1>g
  <2> QED
    BY <1>g, <2>1 DEF RtEffect
<1>i. ASSUME NEW n \in Nodes, RIdle(n) PROVE RtEffect
  BY <1>g, <1>i, <1>t DEF RIdle
<1>p. ASSUME NEW n \in Nodes, NEW q \in RetentionPcs, RGo(n, q)
      PROVE  LET x == [rt[n] EXCEPT !.pc = q] IN
             /\ x \in RetentionStates /\ rt' = [rt EXCEPT ![n] = x]
             /\ rt'[n].pc = q /\ rt'[n].job = RJ(n) /\ rt'[n].claim = rt[n].claim
             /\ rt'[n].status = rt[n].status
  BY <1>t, <1>p DEF RGo, RetentionStates, RJ
<1>q. ASSUME NEW n \in Nodes, NEW q \in RetentionPcs, RGo(n, q), Proceeds(n) PROVE RtEffect
  BY <1>g, <1>p, <1>q
<1>1. ASSUME NEW n \in Nodes, RetentionStep(n) PROVE RtEffect
  <2>u. "rtmark" \in RetentionPcs /\ "scjudge" \in RetentionPcs
    BY DEF RetentionPcs
  <2>j. rt[n].pc # "idle" => RJ(n) \in Jobs /\ row[RJ(n)] \in Rows
    BY DEF RtInv, TypeInv, RowInv
  <2>1. CASE RetryRead(n)
    <3>1. CASE RIdle(n)
      BY <1>i, <3>1
    <3>2. CASE /\ row[RJ(n)].status = "failed"
               /\ rt' = [rt EXCEPT ![n].pc = "rtmark", ![n].claim = row[RJ(n)].claim]
      <4> DEFINE x == [rt[n] EXCEPT !.pc = "rtmark", !.claim = row[RJ(n)].claim]
      <4>1. RJ(n) \in Jobs /\ rt[n].pc = "rtread"
        BY <2>1, <2>j DEF RetryRead, RAt
      <4>2. x \in RetentionStates /\ rt' = [rt EXCEPT ![n] = x]
        BY <1>t, <2>u, <3>2, <4>1 DEF RetentionStates
      <4>3. rt'[n] = x
        BY <1>t, <4>2
      <4>4. Proceeds(n)
        BY <1>t, <3>2, <4>1, <4>3 DEF Proceeds, RetentionStates, RJ
      <4> QED
        BY <1>g, <4>2, <4>4
    <3> QED
      BY <2>1, <3>1, <3>2 DEF RetryRead
  <2>2. CASE RetryMarker(n) \/ RetryProbe(n)
    BY <1>i, <1>p, <1>q, <2>2 DEF RetryMarker, RetryProbe, Proceeds, RAt, RetentionPcs
  <2>3. CASE RetryBody(n) \/ RetrySeal(n)
    BY <1>p, <1>q, <2>3 DEF RetryBody, RetrySeal, Proceeds, RAt, RetentionPcs
  <2>4. CASE RetryPutFails(n) \/ RetryClear(n) \/ ScratchPurge(n) \/ ExpireBlobFails(n)
             \/ ExpireFinal(n) \/ ExpireRaises(n)
    BY <1>i, <2>4 DEF RetryPutFails, RetryClear, ScratchPurge, ExpireBlobFails, ExpireFinal,
       ExpireRaises
  <2>5. CASE RetryFix(n)
    <3>1. rt[n].pc = "rtfix" /\ RJ(n) \in Jobs /\ row[RJ(n)] \in Rows
      BY <2>5, <2>j DEF RetryFix, RAt
    <3>2. CASE row[RJ(n)].status = "failed"
      <4>1. RGo(n, "rtclear") /\ row' = [row EXCEPT ![RJ(n)] = Done(row[RJ(n)])]
        BY <2>5, <3>2 DEF RetryFix, UpdateIfStatusOnly
      <4>2. Done(row[RJ(n)]).status = "done"
        BY <3>1, DoneClaim
      <4>3. row'[RJ(n)].status = "done"
        BY <3>1, <4>1, <4>2 DEF TypeInv, RowInv
      <4>4. "rtclear" \in RetentionPcs
        BY DEF RetentionPcs
      <4>5. Proceeds(n)
        BY <1>p, <3>1, <3>2, <4>1, <4>3, <4>4 DEF Proceeds
      <4> QED
        BY <1>q, <4>1, <4>4, <4>5
    <3>3. CASE row[RJ(n)].status # "failed"
      BY <1>p, <1>q, <2>5, <3>1, <3>3 DEF RetryFix, Proceeds, RetentionPcs
    <3> QED
      BY <3>2, <3>3
  <2>6. CASE RetryFixRaises(n) \/ RetryAfter(n) \/ RetryUndo(n)
    BY <1>i, <1>p, <1>q, <2>6
       DEF RetryFixRaises, RetryAfter, RetryUndo, Proceeds, RAt, RetentionPcs
  <2>7. CASE ScratchRead(n)
    <3>1. CASE RIdle(n)
      BY <1>i, <3>1
    <3>2. CASE /\ row[RJ(n)].status \in Terminal \cup {"absent"}
               /\ rt' = [rt EXCEPT ![n].pc = "scjudge", ![n].status = row[RJ(n)].status]
      <4> DEFINE x == [rt[n] EXCEPT !.pc = "scjudge", !.status = row[RJ(n)].status]
      <4>1. RJ(n) \in Jobs /\ rt[n].pc = "scread"
        BY <2>7, <2>j DEF ScratchRead, RAt
      <4>2. x \in RetentionStates /\ rt' = [rt EXCEPT ![n] = x]
        BY <1>t, <2>u, <3>2, <4>1 DEF RetentionStates
      <4>3. rt'[n] = x
        BY <1>t, <4>2
      <4>4. Proceeds(n)
        BY <1>t, <3>2, <4>1, <4>3 DEF Proceeds, RetentionStates, RJ
      <4> QED
        BY <1>g, <4>2, <4>4
    <3> QED
      BY <2>7, <3>1, <3>2 DEF ScratchRead
  <2>8. CASE ScratchJudge(n)
    BY <1>i, <1>p, <1>q, <2>8 DEF ScratchJudge, LastCopy, Proceeds, RAt, RetentionPcs
  <2>9. CASE ExpireRead(n) \/ ExpireTree(n) \/ ExpireBlob(n)
    BY <1>i, <1>p, <1>q, <2>9
       DEF ExpireRead, ExpireTree, ExpireBlob, Proceeds, RAt, RetentionPcs
  <2>10. CASE ExpireReserve(n)
    <3>1. rt[n].pc = "exreserve" /\ RJ(n) \in Jobs /\ row[RJ(n)] \in Rows
      BY <2>10, <2>j DEF ExpireReserve, RAt
    <3>2. CASE row[RJ(n)].status = rt[n].status
      <4>1. RGo(n, "extree") /\ row' = [row EXCEPT ![RJ(n)] = [row[RJ(n)] EXCEPT !.status = "expired"]]
        BY <2>10, <3>2 DEF ExpireReserve, UpdateIfStatusOnly
      <4>2. row'[RJ(n)].status = "expired"
        BY <3>1, <4>1 DEF TypeInv, RowInv, Rows
      <4>3. "extree" \in RetentionPcs
        BY DEF RetentionPcs
      <4>4. Proceeds(n)
        BY <1>p, <3>1, <3>2, <4>1, <4>2, <4>3 DEF Proceeds
      <4> QED
        BY <1>q, <4>1, <4>3, <4>4
    <3>3. CASE row[RJ(n)].status # rt[n].status
      BY <1>i, <2>10, <3>3 DEF ExpireReserve
    <3> QED
      BY <3>2, <3>3
  <2> QED
    BY <1>1, <2>1, <2>2, <2>3, <2>4, <2>5, <2>6, <2>7, <2>8, <2>9, <2>10 DEF RetentionStep
<1>2. ASSUME NEW n \in Nodes, NEW j \in Jobs, RetentionBegin(n, j) PROVE RtEffect
  <2> DEFINE x(p) == [IdleRetention EXCEPT !.pc = p, !.job = j]
             y == [IdleRetention EXCEPT !.pc = "exread", !.job = j, !.status = row[j].status]
  <2>1. /\ j \in 0..NJobs
        /\ x("rtread").pc = "rtread" /\ x("rtread").job = j
        /\ x("scread").pc = "scread" /\ x("scread").job = j
    BY JobStoreAssumption DEF Jobs, IdleRetention
  <2>2. /\ x("rtread") \in RetentionStates /\ x("scread") \in RetentionStates
        /\ y \in RetentionStates
        /\ y.pc = "exread" /\ y.job = j /\ y.status = row[j].status
    BY <1>t, <2>1 DEF RetentionStates, IdleRetention, RetentionPcs
  <2>3. \/ rt' = [rt EXCEPT ![n] = x("rtread")]
        \/ rt' = [rt EXCEPT ![n] = x("scread")] /\ disk[n][j] # NoTree
        \/ rt' = [rt EXCEPT ![n] = y] /\ row[j].status \in Terminal
    BY <1>2 DEF RetentionBegin, RetryBegin, ScratchBegin, ExpireList, RBegin, Due
  <2>4. rt[n].pc = "idle"
    BY <1>2 DEF RetentionBegin, RetryBegin, ScratchBegin, ExpireList, RBegin, RAt
  <2> HIDE DEF x, y
  <2>5. CASE rt' = [rt EXCEPT ![n] = x("rtread")]
    <3>1. rt'[n] = x("rtread")
      BY <1>t, <2>5
    <3>2. Begins(n)
      BY <2>1, <2>4, <3>1 DEF Begins
    <3> QED
      BY <1>g, <2>2, <2>5, <3>2
  <2>6. CASE rt' = [rt EXCEPT ![n] = x("scread")] /\ disk[n][j] # NoTree
    <3>1. rt'[n] = x("scread")
      BY <1>t, <2>6
    <3>2. Begins(n)
      BY <2>1, <2>4, <2>6, <3>1 DEF Begins
    <3> QED
      BY <1>g, <2>2, <2>6, <3>2
  <2>7. CASE rt' = [rt EXCEPT ![n] = y] /\ row[j].status \in Terminal
    <3>1. rt'[n] = y
      BY <1>t, <2>7
    <3> QED
      BY <1>g, <2>2, <2>4, <2>7, <3>1 DEF Begins
  <2> QED
    BY <2>3, <2>5, <2>6, <2>7
<1>3. ASSUME NEW j \in Jobs, ExpiryPasses(j) \/ DeleteStep(j) PROVE RtEffect
  <2>1. rt' = rt
    BY <1>3 DEF ExpiryPasses, DeleteStep, DeleteRead, DeleteTree, DeleteBlob, DeleteFails,
       DeleteRow, deleteRest, retVars
  <2> QED
    BY <1>t, <2>1 DEF RtEffect
<1> QED
  BY <1>1, <1>2, <1>3 DEF SweepStep

LEMMA RowEffects ==
  ASSUME TypeInv, RtInv, SweepStep
  PROVE  RowEffect
<1>j. /\ \A n \in Nodes : rt[n].pc # "idle" => RJ(n) \in Jobs
      /\ \A j \in Jobs : row[j] \in Rows
  BY DEF RtInv, TypeInv, RowInv
<1>1. CASE UNCHANGED storeVars
  BY <1>1 DEF RowEffect
<1>2. ASSUME NEW j \in Jobs, NEW e \in Expiries, row' = [row EXCEPT ![j] = [row[j] EXCEPT !.expiry = e]],
             UNCHANGED <<issued, submitted>>
      PROVE  RowEffect
  <2> DEFINE r == [row[j] EXCEPT !.expiry = e]
  <2>1. r \in Rows
    BY <1>j DEF Rows
  <2>2. row' = [row EXCEPT ![j] = r]
    BY <1>2
  <2>3. \E f \in Expiries : r = [row[j] EXCEPT !.expiry = f]
    OBVIOUS
  <2> HIDE DEF r
  <2> QED
    BY <1>2, <2>1, <2>2, <2>3 DEF RowEffect
<1>3. ASSUME NEW n \in Nodes, RetryFix(n) PROVE RowEffect
  <2>1. rt[n].pc = "rtfix" /\ RJ(n) \in Jobs /\ row[RJ(n)] \in Rows
    BY <1>3, <1>j DEF RetryFix, RAt
  <2>2. CASE row[RJ(n)].status = "failed"
    <3> DEFINE r == Done(row[RJ(n)])
    <3>1. r \in Rows /\ r.status = "done" /\ r.claim = row[RJ(n)].claim
      BY <2>1, DoneClaim
    <3>2. row' = [row EXCEPT ![RJ(n)] = r] /\ UNCHANGED <<issued, submitted>>
      BY <1>3, <2>2 DEF RetryFix, UpdateIfStatusOnly
    <3> HIDE DEF r
    <3> QED
      BY <2>1, <2>2, <3>1, <3>2 DEF RowEffect
  <2>3. CASE row[RJ(n)].status # "failed"
    BY <1>1, <1>3, <2>3 DEF RetryFix, UpdateIfStatusOnly, storeVars
  <2> QED
    BY <2>2, <2>3
<1>4. ASSUME NEW n \in Nodes, ExpireReserve(n) PROVE RowEffect
  <2>1. rt[n].pc = "exreserve" /\ RJ(n) \in Jobs /\ row[RJ(n)] \in Rows
    BY <1>4, <1>j DEF ExpireReserve, RAt
  <2>2. CASE row[RJ(n)].status = rt[n].status
    <3> DEFINE r == [row[RJ(n)] EXCEPT !.status = "expired"]
    <3>1. r \in Rows /\ r.status = "expired" /\ r.claim = row[RJ(n)].claim
      BY <2>1 DEF Rows, Statuses
    <3>2. row' = [row EXCEPT ![RJ(n)] = r] /\ UNCHANGED <<issued, submitted>>
      BY <1>4, <2>2 DEF ExpireReserve, UpdateIfStatusOnly
    <3> HIDE DEF r
    <3> QED
      BY <2>1, <2>2, <3>1, <3>2 DEF RowEffect
  <2>3. CASE row[RJ(n)].status # rt[n].status
    BY <1>1, <1>4, <2>3 DEF ExpireReserve, UpdateIfStatusOnly, storeVars
  <2> QED
    BY <2>2, <2>3
<1>5. ASSUME NEW n \in Nodes, ExpireFinal(n) PROVE RowEffect
  <2>1. rt[n].pc = "exfinal" /\ RJ(n) \in Jobs /\ "never" \in Expiries
    BY <1>5, <1>j DEF ExpireFinal, RAt, Expiries
  <2>2. \/ row' = [row EXCEPT ![RJ(n)] = [row[RJ(n)] EXCEPT !.expiry = "never"]]
        \/ row' = row
    BY <1>5 DEF ExpireFinal, UpdateIfStatusOnly
  <2>3. UNCHANGED <<issued, submitted>>
    BY <1>5 DEF ExpireFinal, UpdateIfStatusOnly
  <2> QED
    BY <1>1, <1>2, <2>1, <2>2, <2>3 DEF storeVars
<1>6. ASSUME NEW j \in Jobs, DeleteRow(j) PROVE RowEffect
  <2>1. NoRow \in Rows
    BY JobStoreAssumption DEF NoRow, Rows, Statuses, ClaimIds, NoClaim, Ages, Fresh, PastStale,
       Runtimes, Expiries
  <2>2. del[j] = "row" /\ row' = [row EXCEPT ![j] = NoRow] /\ UNCHANGED <<issued, submitted>>
    BY <1>6 DEF DeleteRow, Delete
  <2> QED
    BY <2>1, <2>2 DEF RowEffect
<1>7. ASSUME NEW n \in Nodes, RetentionStep(n), ~RetryFix(n), ~ExpireReserve(n), ~ExpireFinal(n)
      PROVE  UNCHANGED storeVars
  BY <1>7 DEF RetentionStep, RetryRead, RetryMarker, RetryProbe, RetryBody, RetrySeal, RetryPutFails,
     RetryFixRaises, RetryAfter, RetryUndo, RetryClear, ScratchRead, ScratchJudge, ScratchPurge,
     ExpireRead, ExpireTree, ExpireBlob, ExpireBlobFails, ExpireRaises
<1>8. ASSUME NEW n \in Nodes, NEW j \in Jobs, RetentionBegin(n, j) PROVE UNCHANGED storeVars
  BY <1>8 DEF RetentionBegin, RetryBegin, ScratchBegin, ExpireList
<1>9. ASSUME NEW j \in Jobs, DeleteStep(j), ~DeleteRow(j) PROVE UNCHANGED storeVars
  BY <1>9 DEF DeleteStep, DeleteRead, DeleteTree, DeleteBlob, DeleteFails
<1>10. ASSUME NEW j \in Jobs, ExpiryPasses(j) PROVE RowEffect
  <2>1. row' = [row EXCEPT ![j] = [row[j] EXCEPT !.expiry = "due"]] /\ "due" \in Expiries
        /\ UNCHANGED <<issued, submitted>>
    BY <1>10 DEF ExpiryPasses, Expiries
  <2> QED
    BY <1>2, <2>1
<1> QED
  BY <1>1, <1>3, <1>4, <1>5, <1>6, <1>7, <1>8, <1>9, <1>10 DEF SweepStep

\* What the sweeps and DELETE leave alone.
LEMMA SweepsLeave ==
  ASSUME SweepStep
  PROVE  UNCHANGED <<th, mt, box, permits, orphans, upfail, crashes>>
<1>1. ASSUME NEW n \in Nodes, RetentionStep(n)
      PROVE  UNCHANGED <<th, mt, box, permits, orphans, upfail, crashes, del>>
  BY <1>1 DEF RetentionStep, RetryRead, RetryMarker, RetryProbe, RetryBody, RetrySeal, RetryPutFails, RetryFix,
     RetryFixRaises, RetryAfter, RetryUndo, RetryClear, ScratchRead, ScratchJudge, ScratchPurge,
     ExpireRead, ExpireReserve, ExpireTree, ExpireBlob, ExpireBlobFails, ExpireFinal,
     ExpireRaises, workVars
<1>2. ASSUME NEW n \in Nodes, NEW j \in Jobs, RetentionBegin(n, j)
      PROVE  UNCHANGED <<th, mt, box, permits, orphans, upfail, crashes, del>>
  BY <1>2 DEF RetentionBegin, RetryBegin, ScratchBegin, ExpireList, workVars
<1>3. ASSUME NEW j \in Jobs, ExpiryPasses(j) \/ DeleteStep(j)
      PROVE  UNCHANGED <<th, mt, box, permits, orphans, upfail, crashes>>
  BY <1>3 DEF ExpiryPasses, DeleteStep, DeleteRead, DeleteTree, DeleteBlob, DeleteFails,
     DeleteRow, deleteRest, localVars
<1> QED
  BY <1>1, <1>2, <1>3 DEF SweepStep

\* They keep the types of the trees and of the stored results.
LEMMA DiskEffects ==
  ASSUME TypeInv, RtInv, SweepStep
  PROVE  DiskEffect /\ DiskInv'
<1>j. /\ \A n \in Nodes : rt[n].pc # "idle" => RJ(n) \in Jobs
      /\ disk \in [Nodes -> [Jobs -> Trees]] /\ Home \in Nodes
      /\ NoTree \in Trees /\ NoTree.marker = NoClaim
  BY JobStoreAssumption, DispatchAssumption DEF RtInv, TypeInv, DiskInv, NoTree, Trees, ClaimIds, NoClaim
<1>1. CASE disk' = disk
  BY <1>1, <1>j DEF DiskEffect, DiskInv
<1>2. ASSUME NEW n \in Nodes, NEW j \in Jobs, NEW d \in Trees, SetTree(n, j, d)
      PROVE  /\ DiskInv' /\ disk'[n][j] = d
             /\ \A m \in Nodes, i \in Jobs : m # n \/ i # j => disk'[m][i] = disk[m][i]
  BY <1>2, <1>j DEF SetTree, DiskInv
<1>3. ASSUME NEW n \in Nodes, RetryClear(n) PROVE DiskEffect /\ DiskInv'
  <2> DEFINE d == [disk[n][RJ(n)] EXCEPT !.marker = NoClaim]
  <2>1. rt[n].pc = "rtclear" /\ RJ(n) \in Jobs
    BY <1>3, <1>j DEF RetryClear, RAt
  <2>2. disk[n][RJ(n)] \in Trees /\ NoClaim \in ClaimIds
    BY <1>j, <2>1, JobStoreAssumption DEF ClaimIds, NoClaim
  <2>3. SetTree(n, RJ(n), d)
    BY <1>3 DEF RetryClear
  <2>4. d \in Trees /\ SetTree(n, RJ(n), d)
    BY <2>2, <2>3 DEF Trees
  <2>5. /\ DiskInv' /\ disk'[n][RJ(n)] = d
        /\ \A m \in Nodes, i \in Jobs : m # n \/ i # RJ(n) => disk'[m][i] = disk[m][i]
    BY <1>2, <2>1, <2>4
  <2> HIDE DEF d
  <2> QED
    BY <2>1, <2>5 DEF DiskEffect, d
<1>4. ASSUME NEW n \in Nodes, ScratchPurge(n) \/ ExpireTree(n) PROVE DiskEffect /\ DiskInv'
  <2>1. rt[n].pc \in {"scpurge", "extree"} /\ RJ(n) \in Jobs
    BY <1>4, <1>j DEF ScratchPurge, ExpireTree, RAt
  <2>2. disk' = disk \/ SetTree(n, RJ(n), NoTree)
    BY <1>4 DEF ScratchPurge, ExpireTree, SetTree
  <2>3. CASE SetTree(n, RJ(n), NoTree)
    <3>1. /\ DiskInv' /\ disk'[n][RJ(n)] = NoTree
          /\ \A m \in Nodes, i \in Jobs : m # n \/ i # RJ(n) => disk'[m][i] = disk[m][i]
      BY <1>2, <1>j, <2>1, <2>3
    <3> QED
      BY <2>1, <3>1 DEF DiskEffect
  <2> QED
    BY <1>1, <2>2, <2>3
<1>5. ASSUME NEW j \in Jobs, DeleteTree(j) PROVE DiskEffect /\ DiskInv'
  <2>1. del[j] = "tree" /\ SetTree(Home, j, NoTree)
    BY <1>5 DEF DeleteTree
  <2>2. /\ DiskInv' /\ disk'[Home][j] = NoTree
        /\ \A m \in Nodes, i \in Jobs : m # Home \/ i # j => disk'[m][i] = disk[m][i]
    BY <1>2, <1>j, <2>1
  <2> QED
    BY <2>1, <2>2 DEF DiskEffect
<1>6. ASSUME NEW n \in Nodes, RetentionStep(n), ~RetryClear(n), ~ScratchPurge(n), ~ExpireTree(n)
      PROVE  disk' = disk
  BY <1>6 DEF RetentionStep, RetryRead, RetryMarker, RetryProbe, RetryBody, RetrySeal, RetryPutFails, RetryFix,
     RetryFixRaises, RetryAfter, RetryUndo, ScratchRead, ScratchJudge,
     ExpireRead, ExpireReserve, ExpireBlob, ExpireBlobFails, ExpireFinal, ExpireRaises
<1>7. ASSUME NEW n \in Nodes, NEW j \in Jobs, RetentionBegin(n, j) PROVE disk' = disk
  BY <1>7 DEF RetentionBegin, RetryBegin, ScratchBegin, ExpireList
<1>8. ASSUME NEW j \in Jobs, ExpiryPasses(j) \/ (DeleteStep(j) /\ ~DeleteTree(j)) PROVE disk' = disk
  BY <1>8 DEF ExpiryPasses, DeleteStep, DeleteRead, DeleteBlob, DeleteFails, DeleteRow, localVars
<1> QED
  BY <1>1, <1>3, <1>4, <1>5, <1>6, <1>7, <1>8 DEF SweepStep

LEMMA BlobsTyped ==
  ASSUME TypeInv, RtInv, SweepStep
  PROVE  BlobInv' /\ PubInv'
<1>j. /\ \A n \in Nodes : rt[n].pc # "idle" => RJ(n) \in Jobs /\ Uploads(n) \in ClaimIds
      /\ blob \in [Jobs -> Blobs] /\ published \subseteq ClaimIds /\ NoClaim \in ClaimIds
      /\ NoBlob \in Blobs
  BY JobStoreAssumption DEF RtInv, TypeInv, DiskInv, Trees, BlobInv, PubInv, Uploads, NoClaim, ClaimIds,
     NoBlob, Blobs
<1>r. ASSUME NEW j \in Jobs, NEW b \in Remains(j) PROVE b \in Blobs
  BY <1>j DEF Remains, Blobs
<1>1. CASE UNCHANGED <<blob, published>>
  BY <1>1, <1>j DEF BlobInv, PubInv
<1>2. ASSUME NEW j \in Jobs, NEW b \in Blobs, blob' = [blob EXCEPT ![j] = b] PROVE BlobInv'
  BY <1>2, <1>j DEF BlobInv
<1>3. ASSUME NEW n \in Nodes, RetryBody(n) \/ RetrySeal(n) PROVE BlobInv' /\ PubInv'
  <2>1. RJ(n) \in Jobs /\ Uploads(n) \in ClaimIds
    BY <1>3, <1>j DEF RetryBody, RetrySeal, RAt
  <2>2. published' \subseteq ClaimIds
    BY <1>3, <1>j, <2>1 DEF RetryBody, RetrySeal
  <2>3. PICK b \in {blob[RJ(n)], [blob[RJ(n)] EXCEPT !.body = Uploads(n)],
                    [blob[RJ(n)] EXCEPT !.seal = Uploads(n)]} :
          blob' = blob \/ blob' = [blob EXCEPT ![RJ(n)] = b]
    BY <1>3 DEF RetryBody, RetrySeal
  <2>4. b \in Blobs
    BY <1>j, <2>1, <2>3 DEF Blobs
  <2> QED
    BY <1>j, <1>2, <2>1, <2>2, <2>3, <2>4 DEF BlobInv, PubInv
<1>4. ASSUME NEW n \in Nodes, RetryUndo(n) \/ ExpireBlob(n) \/ ExpireBlobFails(n)
      PROVE  BlobInv' /\ PubInv'
  <2>1. RJ(n) \in Jobs /\ published' = published
    BY <1>4, <1>j DEF RetryUndo, ExpireBlob, ExpireBlobFails, RAt
  <2>2. blob' = blob \/ \E b \in Remains(RJ(n)) \cup {NoBlob} : blob' = [blob EXCEPT ![RJ(n)] = b]
    BY <1>4 DEF RetryUndo, ExpireBlob, ExpireBlobFails
  <2> QED
    BY <1>j, <1>r, <1>2, <2>1, <2>2 DEF BlobInv, PubInv
<1>5. ASSUME NEW j \in Jobs, DeleteBlob(j) \/ DeleteFails(j) PROVE BlobInv' /\ PubInv'
  <2>1. published' = published /\ \E b \in Remains(j) \cup {NoBlob} : blob' = [blob EXCEPT ![j] = b]
    BY <1>5 DEF DeleteBlob, DeleteFails, deleteRest
  <2> QED
    BY <1>j, <1>r, <1>2, <2>1 DEF PubInv
<1>6. ASSUME NEW n \in Nodes, RetentionStep(n), ~RetryBody(n), ~RetrySeal(n), ~RetryUndo(n),
             ~ExpireBlob(n), ~ExpireBlobFails(n)
      PROVE  UNCHANGED <<blob, published>>
  BY <1>6 DEF RetentionStep, RetryRead, RetryMarker, RetryProbe, RetryPutFails, RetryFix,
     RetryFixRaises, RetryAfter, RetryClear, ScratchRead, ScratchJudge, ScratchPurge,
     ExpireRead, ExpireReserve, ExpireTree, ExpireFinal, ExpireRaises
<1>7. ASSUME NEW n \in Nodes, NEW j \in Jobs, RetentionBegin(n, j) PROVE UNCHANGED <<blob, published>>
  BY <1>7 DEF RetentionBegin, RetryBegin, ScratchBegin, ExpireList
<1>8. ASSUME NEW j \in Jobs,
             ExpiryPasses(j) \/ (DeleteStep(j) /\ ~DeleteBlob(j) /\ ~DeleteFails(j))
      PROVE  UNCHANGED <<blob, published>>
  BY <1>8 DEF ExpiryPasses, DeleteStep, DeleteRead, DeleteTree, DeleteRow, localVars, deleteRest
<1> QED
  BY <1>1, <1>3, <1>4, <1>5, <1>6, <1>7, <1>8 DEF SweepStep

LEMMA DelEffects ==
  ASSUME RtInv, SweepStep
  PROVE  DelEffect
<1>t. del \in [Jobs -> DeletePcs]
  BY DEF RtInv
<1>1. CASE del' = del
  BY <1>1, <1>t DEF DelEffect
<1>2. ASSUME NEW j \in Jobs, NEW p \in DeletePcs \ {"no"}, DGo(j, p),
             del[j] \in {"tree", "blob", "row"} \/ (row[j].status \in Terminal /\ p = "tree")
      PROVE  DelEffect
  <2>1. del' \in [Jobs -> DeletePcs] /\ del'[j] = p /\ \A i \in Jobs : i # j => del'[i] = del[i]
    BY <1>t, <1>2 DEF DGo
  <2> QED
    BY <1>2, <2>1 DEF DelEffect
<1>3. ASSUME NEW j \in Jobs, DeleteStep(j) PROVE DelEffect
  BY <1>2, <1>3 DEF DeleteStep, DeleteRead, DeleteTree, DeleteBlob, DeleteFails, DeleteRow, DeletePcs
<1>4. ASSUME NEW n \in Nodes, RetentionStep(n) PROVE del' = del
  BY <1>4 DEF RetentionStep, RetryRead, RetryMarker, RetryProbe, RetryBody, RetrySeal, RetryPutFails, RetryFix,
     RetryFixRaises, RetryAfter, RetryUndo, RetryClear, ScratchRead, ScratchJudge, ScratchPurge,
     ExpireRead, ExpireReserve, ExpireTree, ExpireBlob, ExpireBlobFails, ExpireFinal,
     ExpireRaises, workVars
<1>5. ASSUME NEW n \in Nodes, NEW j \in Jobs, RetentionBegin(n, j) PROVE del' = del
  BY <1>5 DEF RetentionBegin, RetryBegin, ScratchBegin, ExpireList, workVars
<1>6. ASSUME NEW j \in Jobs, ExpiryPasses(j) PROVE del' = del
  BY <1>6 DEF ExpiryPasses, retVars
<1> QED
  BY <1>1, <1>3, <1>4, <1>5, <1>6 DEF SweepStep

-------------------------------------------------------------------------------
\* The types.
LEMMA SweepTyped ==
  ASSUME TypeInv, RtInv, SweepStep
  PROVE  TypeInv' /\ RtInv'
<1>1. RowInv'
  <2>1. row \in [Jobs -> Rows] /\ issued \in 0..MaxClaims /\ submitted \in 0..NJobs
        /\ AttemptsBounded
    BY DEF TypeInv, RowInv
  <2>2. CASE UNCHANGED storeVars
    BY <2>1, <2>2 DEF RowInv, AttemptsBounded, storeVars
  <2>3. ASSUME NEW j \in Jobs, NEW r \in Rows, row' = [row EXCEPT ![j] = r],
               UNCHANGED <<issued, submitted>>,
               \/ \E e \in Expiries : r = [row[j] EXCEPT !.expiry = e]
               \/ r.status \in {"done", "expired", "absent"}
        PROVE  RowInv'
    <3>1. /\ row' \in [Jobs -> Rows] /\ row'[j] = r
          /\ \A i \in Jobs : i # j => row'[i] = row[i]
      BY <2>1, <2>3
    <3>2. r.status \in {"queued", "running"} => r.status = row[j].status /\ r.attempts = row[j].attempts
      <4>1. row[j] \in Rows
        BY <2>1
      <4> QED
        BY <2>3, <4>1 DEF Rows
    <3>3. AttemptsBounded'
      BY <2>1, <3>1, <3>2 DEF AttemptsBounded
    <3> QED
      BY <2>1, <2>3, <3>1, <3>3 DEF RowInv
  <2>4. NoRow.status = "absent"
    BY DEF NoRow
  <2> QED
    BY <2>2, <2>3, <2>4, RowEffects DEF RowEffect
<1>2. ThInv' /\ MtInv' /\ BoxInv' /\ GateInv'
  BY SweepsLeave DEF TypeInv, ThInv, MtInv, BoxInv, GateInv
<1>3. DiskInv' /\ BlobInv' /\ PubInv'
  BY DiskEffects, BlobsTyped
<1>4. RtInv'
  <2>1. RtEffect /\ del' \in [Jobs -> DeletePcs]
    BY RtEffects, DelEffects DEF DelEffect
  <2>3. ASSUME NEW n \in Nodes, rt'[n].pc # "idle" PROVE rt'[n].job \in Jobs
    BY <2>1, <2>3, IdleTyped DEF RtEffect, RtInv, Begins, Proceeds, RJ
  <2> QED
    BY <2>1, <2>3 DEF RtEffect, RtInv, RJ
<1> QED
  BY <1>1, <1>2, <1>3, <1>4 DEF TypeInv

LEMMA RetentionTyping ==
  ASSUME TypeInv, RtInv, [RetentionNext]_allVars
  PROVE  TypeInv' /\ RtInv'
<1>1. CASE DispatcherStep
  <2>1. TypeInv'
    BY <1>1, NextTyped DEF DispatcherStep
  <2>2. \A n \in Nodes : rt'[n].pc # "idle" => rt'[n].job \in Jobs
    BY <1>1, IdleTyped DEF DispatcherStep, RtInv, RJ
  <2> QED
    BY <1>1, <2>1, <2>2 DEF DispatcherStep, RtInv, RJ
<1>2. CASE SweepStep
  BY <1>2, SweepTyped
<1> QED
  BY <1>1, <1>2, RetentionSteps

LEMMA RetentionStarts == RetentionInit => TypeInv /\ RtInv
<1> SUFFICES ASSUME RetentionInit PROVE TypeInv /\ RtInv
  OBVIOUS
<1>1. IdleRetention \in RetentionStates /\ IdleRetention.pc = "idle" /\ "no" \in DeletePcs
  BY IdleTyped DEF DeletePcs
<1> QED
  BY <1>1, InitTyped DEF RetentionInit, RtInv

\* Every variable keeps its type when retry_pending_uploads, reap_stale_scratch, the
\* JobRetentionSweeper and DELETE /v1/jobs run beside the dispatcher.
THEOREM RetentionTyped == RetentionSpec => []RetentionTypeOK
<1>1. TypeInv /\ RtInv => RetentionTypeOK
  BY DEF TypeInv, RowInv, ThInv, MtInv, DiskInv, BoxInv, BlobInv, GateInv, PubInv, RtInv,
         TypeOK, RetentionTypeOK
<1>2. TypeInv /\ RtInv /\ [RetentionNext]_allVars => TypeInv' /\ RtInv'
  BY RetentionTyping
<1> QED
  BY <1>1, <1>2, RetentionStarts, PTL DEF RetentionSpec

-------------------------------------------------------------------------------
\* What a sweep or a request has in hand.

\* A row without a job carries no claim; the retry goes on only for the failed attempt it
\* read, and withdraws or clears a marker only of a row that is not failed any more; an
\* expiry and a DELETE concern only rows that are over.
AbsentFree == \A j \in Jobs : row[j].status = "absent" => row[j].claim = NoClaim

RetryInv ==
  \A n \in Nodes :
    /\ rt[n].pc \in {"rtmark", "rtprobe", "rtbody", "rtseal", "rtfix"} =>
         Over(RJ(n)) /\ (row[RJ(n)].status = "failed" => row[RJ(n)].claim = rt[n].claim)
    /\ rt[n].pc \in {"rtprobe", "rtbody", "rtseal", "rtfix"} => rt[n].claim # NoClaim
    /\ rt[n].pc \in {"rtundo", "rtclear"} => Over(RJ(n)) /\ row[RJ(n)].status # "failed"

ExpireInv ==
  \A n \in Nodes :
    /\ rt[n].pc \in {"exread", "exreserve"} => rt[n].status \in Terminal
    /\ rt[n].pc = "extree" => Over(RJ(n)) /\ row[RJ(n)].status # "failed"

DeleteInv == \A j \in Jobs : del[j] \in {"tree", "blob", "row"} => Over(j)

SweepInv == AbsentFree /\ RetryInv /\ ExpireInv /\ DeleteInv

\* A row that is over stays so, and only what had failed is failed after the step.
OverStays ==
  \A j \in Jobs : Over(j) =>
    /\ j <= submitted' /\ row'[j].status \in Terminal \cup {"absent"}
    /\ row'[j].status = "failed" => row[j].status = "failed" /\ row'[j].claim = row[j].claim

LEMMA OversStay ==
  ASSUME TypeInv, AbsentInv, AbsentFree, StoreEffect \/ RowEffect
  PROVE  OverStays /\ AbsentFree'
<1>t. row \in [Jobs -> Rows] /\ submitted \in Nat
  BY JobStoreAssumption DEF TypeInv, RowInv
<1>b. ASSUME NEW j \in Jobs, NEW r, row' = [row EXCEPT ![j] = r]
      PROVE  row'[j] = r /\ \A i \in Jobs : i # j => row'[i] = row[i]
  BY <1>b, <1>t
<1>1. CASE UNCHANGED storeVars
  BY <1>1 DEF storeVars, OverStays, Over, AbsentFree
<1>2. ASSUME NEW j \in Jobs, Create(j) PROVE OverStays /\ AbsentFree'
  <2>0. NewRow.status = "queued" /\ row' = [row EXCEPT ![j] = NewRow]
    BY <1>2 DEF Create, NewRow, NoRow
  <2>1. row'[j].status = "queued" /\ \A i \in Jobs : i # j => row'[i] = row[i]
    BY <2>0, <1>b
  <2>2. ~Over(j) /\ submitted' = submitted + 1
    BY <1>2, <1>t DEF Create, Over
  <2> QED
    BY <1>t, <2>1, <2>2 DEF OverStays, Over, AbsentFree, Jobs
<1>3. ASSUME NEW j \in Jobs, NEW S \in SUBSET Jobs, ClaimNext(S, j) PROVE OverStays /\ AbsentFree'
  <2>1. row[j] \in Rows /\ row[j].status = "queued"
    BY <1>3, <1>t DEF ClaimNext, Claimable
  <2>2. PICK r : r.status = "running" /\ row' = [row EXCEPT ![j] = r]
    BY <1>3, <2>1 DEF ClaimNext, Rows
  <2>3. row'[j].status = "running" /\ \A i \in Jobs : i # j => row'[i] = row[i]
    BY <1>b, <2>2
  <2> QED
    BY <1>3, <2>1, <2>3 DEF ClaimNext, OverStays, Over, AbsentFree, Terminal
<1>4. ASSUME NEW j \in Jobs, NEW s, NEW c, Becomes(j, s, c),
             \/ s = row[j].status /\ c = row[j].claim
             \/ row[j].status \in {"queued", "running"} /\ s # "absent"
      PROVE  OverStays /\ AbsentFree'
  <2>1. /\ row'[j].status = s /\ row'[j].claim = c /\ submitted' = submitted
        /\ \A i \in Jobs : i # j => row'[i] = row[i]
    BY <1>4, <1>b DEF Becomes
  <2> QED
    BY <1>4, <2>1 DEF OverStays, Over, AbsentFree, Terminal
<1>5. CASE StoreEffect
  BY <1>1, <1>2, <1>3, <1>4, <1>5 DEF StoreEffect
<1>6. ASSUME NEW j \in Jobs, NEW r \in Rows, row' = [row EXCEPT ![j] = r],
             UNCHANGED <<issued, submitted>>,
             \/ \E e \in Expiries : r = [row[j] EXCEPT !.expiry = e]
             \/ r.status \in {"done", "expired"}
             \/ r = NoRow
      PROVE  OverStays /\ AbsentFree'
  <2>1. row'[j] = r /\ \A i \in Jobs : i # j => row'[i] = row[i]
    BY <1>6, <1>b
  <2>2. CASE \E e \in Expiries : r = [row[j] EXCEPT !.expiry = e]
    <3>1. r.status = row[j].status /\ r.claim = row[j].claim
      BY <1>t, <2>2 DEF Rows
    <3> QED
      BY <1>6, <2>1, <3>1 DEF OverStays, Over, AbsentFree
  <2>3. CASE r.status \in {"done", "expired"}
    BY <1>6, <2>1, <2>3 DEF OverStays, Over, AbsentFree, Terminal
  <2>4. CASE r = NoRow
    BY <1>6, <2>1, <2>4 DEF OverStays, Over, AbsentFree, NoRow
  <2> QED
    BY <1>6, <2>2, <2>3, <2>4
<1>7. CASE RowEffect
  BY <1>1, <1>6, <1>7 DEF RowEffect
<1> QED
  BY <1>5, <1>7

\* The next three follow from what a step does to the rows and to the work in hand.
LEMMA InHandStays ==
  ASSUME TypeInv, RtInv, AbsentInv, SweepInv, [RetentionNext]_allVars
  PROVE  SweepInv'
<1>s. TypeInv' /\ RtInv' /\ (DispatcherStep \/ SweepStep)
  BY RetentionTyping, RetentionSteps
<1>e. StoreEffect \/ RowEffect
  BY <1>s, NextEffect, RowEffects DEF DispatcherStep
<1>o. OverStays /\ AbsentFree'
  BY <1>e, OversStay DEF SweepInv
<1>h. \A j \in Jobs : row[j].status # "absent" => j <= submitted
  BY JobStoreAssumption DEF AbsentInv, TypeInv, RowInv, Jobs
<1>j. /\ \A n \in Nodes : rt[n].pc # "idle" => RJ(n) \in Jobs
      /\ \A j \in Jobs : row[j].claim \in ClaimIds
  BY DEF RtInv, TypeInv, RowInv, Rows
<1>r. \A n \in Nodes : rt'[n] = rt[n] \/ rt'[n] = IdleRetention \/ Begins(n) \/ Proceeds(n)
  BY <1>s, RtEffects DEF DispatcherStep, RtEffect
<1>1. ASSUME NEW n \in Nodes
      PROVE  LET p == rt'[n].pc  j == rt'[n].job IN
             /\ p \in {"rtmark", "rtprobe", "rtbody", "rtseal", "rtfix"} =>
                  /\ j <= submitted' /\ row'[j].status \in Terminal \cup {"absent"}
                  /\ row'[j].status = "failed" => row'[j].claim = rt'[n].claim
             /\ p \in {"rtprobe", "rtbody", "rtseal", "rtfix"} => rt'[n].claim # NoClaim
             /\ p \in {"rtundo", "rtclear"} =>
                  /\ j <= submitted' /\ row'[j].status \in Terminal \cup {"absent"}
                  /\ row'[j].status # "failed"
             /\ p \in {"exread", "exreserve"} => rt'[n].status \in Terminal
             /\ p = "extree" =>
                  /\ j <= submitted' /\ row'[j].status \in Terminal \cup {"absent"}
                  /\ row'[j].status # "failed"
  <2>1. CASE rt'[n] = rt[n]
    BY <2>1, <1>j, <1>o DEF OverStays, SweepInv, RetryInv, ExpireInv, RJ
  <2>2. CASE rt'[n] = IdleRetention
    BY <2>2, IdleTyped
  <2>3. CASE Begins(n)
    BY <2>3 DEF Begins
  <2>4. CASE Proceeds(n)
    <3>1. rt'[n].job = RJ(n) /\ RJ(n) \in Jobs
      BY <2>4, <1>j DEF Proceeds
    <3> DEFINE p == rt[n].pc
               q == rt'[n].pc
    <3>2. CASE p = "rtread" /\ q = "rtmark" /\ row[RJ(n)].status = "failed"
               /\ rt'[n].claim = row[RJ(n)].claim
      BY <3>1, <3>2, <1>h, <1>o DEF OverStays, Over, Terminal
    <3>3. CASE /\ rt'[n].claim = rt[n].claim
               /\ \/ p = "rtmark" /\ q = "rtprobe" /\ rt[n].claim # NoClaim
                  \/ p = "rtprobe" /\ q \in {"rtbody", "rtfix"}
                  \/ p = "rtbody" /\ q = "rtseal"
                  \/ p = "rtseal" /\ q = "rtfix"
      BY <3>1, <3>3, <1>o DEF OverStays, SweepInv, RetryInv
    <3>4. CASE p = "rtfix" /\ q = "rtclear" /\ row'[RJ(n)].status = "done"
      BY <3>1, <3>4, <1>o DEF OverStays, SweepInv, RetryInv
    <3>5. CASE p = "rtafter" /\ q = "rtundo" /\ row[RJ(n)].status = "expired"
      BY <3>1, <3>5, <1>h, <1>o DEF OverStays, Over, Terminal
    <3>6. CASE p = "rtundo" /\ q = "rtclear"
      BY <3>1, <3>6, <1>o DEF OverStays, SweepInv, RetryInv
    <3>7. CASE p = "exread" /\ q = "exreserve" /\ rt'[n].status = rt[n].status
      BY <3>1, <3>7 DEF SweepInv, ExpireInv
    <3>8. CASE /\ p = "exreserve" /\ q = "extree" /\ row[RJ(n)].status = rt[n].status
               /\ row'[RJ(n)].status = "expired"
      <4>1. row[RJ(n)].status \in Terminal
        BY <3>8 DEF SweepInv, ExpireInv
      <4> QED
        BY <3>1, <3>8, <4>1, <1>h, <1>o DEF OverStays, Over, Terminal
    <3>9. CASE q \in {"rtafter", "scjudge", "scpurge", "exblob", "exfinal"}
      BY <3>9
    <3> QED
      BY <2>4, <3>2, <3>3, <3>4, <3>5, <3>6, <3>7, <3>8, <3>9 DEF Proceeds
  <2> QED
    BY <1>r, <2>1, <2>2, <2>3, <2>4
<1>2. RetryInv' /\ ExpireInv'
  BY <1>1 DEF RetryInv, ExpireInv, Over, RJ
<1>3. DeleteInv'
  <2>1. ASSUME NEW j \in Jobs, del'[j] \in {"tree", "blob", "row"} PROVE Over(j)
    <3>1. \/ del'[j] = del[j] \/ del[j] \in {"tree", "blob", "row"}
          \/ row[j].status \in Terminal
      BY <1>s, DelEffects DEF DispatcherStep, DelEffect
    <3>2. row[j].status \in Terminal => j <= submitted
      BY <1>h DEF Terminal
    <3> QED
      BY <2>1, <3>1, <3>2 DEF SweepInv, DeleteInv, Over
  <2> QED
    BY <2>1, <1>o DEF DeleteInv, Over, OverStays
<1> QED
  BY <1>2, <1>3, <1>o DEF SweepInv

-------------------------------------------------------------------------------
\* The job life cycle.
LEMMA SweepRefines ==
  ASSUME TypeInv, AbsentInv, SweepInv, RowEffect
  PROVE  AbsentInv' /\ [Lifecycle!Next]_(Lifecycle!lifeVars)
<1>t. row \in [Jobs -> Rows] /\ submitted \in 0..NJobs
  BY DEF TypeInv, RowInv
<1> DEFINE st == [i \in Jobs |-> row[i].status]
           cl == [i \in Jobs |-> row[i].claim]
<1>d. \A j \in Jobs : st[j] = row[j].status /\ cl[j] = row[j].claim
  OBVIOUS
<1>c. ASSUME NEW j \in Jobs, NEW r \in Rows, row' = [row EXCEPT ![j] = r]
      PROVE  /\ st' = [st EXCEPT ![j] = r.status] /\ cl' = [cl EXCEPT ![j] = r.claim]
             /\ row'[j] = r /\ \A i \in Jobs : i # j => row'[i] = row[i]
  BY <1>t, <1>c
<1>1. CASE UNCHANGED storeVars
  BY <1>1 DEF storeVars, AbsentInv, Lifecycle!lifeVars
<1>2. ASSUME NEW j \in Jobs, NEW r \in Rows, row' = [row EXCEPT ![j] = r],
             UNCHANGED <<issued, submitted>>,
             \/ \E e \in Expiries : r = [row[j] EXCEPT !.expiry = e]
             \/ /\ row[j].status = "failed" /\ r.status = "done" /\ r.claim = row[j].claim
                /\ \E n \in Nodes : rt[n].pc = "rtfix" /\ RJ(n) = j
             \/ /\ r.status = "expired" /\ r.claim = row[j].claim
                /\ \E n \in Nodes :
                     rt[n].pc = "exreserve" /\ RJ(n) = j /\ rt[n].status = row[j].status
             \/ del[j] = "row" /\ r = NoRow
      PROVE  AbsentInv' /\ [Lifecycle!Next]_(Lifecycle!lifeVars)
  <2>c. /\ st' = [st EXCEPT ![j] = r.status] /\ cl' = [cl EXCEPT ![j] = r.claim]
        /\ row'[j] = r /\ \A i \in Jobs : i # j => row'[i] = row[i]
    BY <1>c, <1>2
  <2>s. ASSUME r.status = row[j].status, r.claim = row[j].claim
        PROVE  AbsentInv' /\ UNCHANGED Lifecycle!lifeVars
    <3>1. st' = st /\ cl' = cl
      BY <2>c, <2>s, <1>d
    <3>2. AbsentInv'
      BY <1>2, <2>c, <2>s DEF AbsentInv
    <3> QED
      BY <1>2, <3>1, <3>2 DEF Lifecycle!lifeVars
  <2>k. ASSUME r.claim = row[j].claim PROVE cl' = cl
    BY <2>c, <2>k, <1>d
  <2>a. ASSUME row[j].status # "absent" PROVE AbsentInv'
    BY <1>2, <2>a, <2>c DEF AbsentInv
  <2>1. CASE \E e \in Expiries : r = [row[j] EXCEPT !.expiry = e]
    <3>1. r.status = row[j].status /\ r.claim = row[j].claim
      BY <1>t, <2>1 DEF Rows
    <3> QED
      BY <2>s, <3>1
  <2>2. CASE /\ row[j].status = "failed" /\ r.status = "done" /\ r.claim = row[j].claim
             /\ \E n \in Nodes : rt[n].pc = "rtfix" /\ RJ(n) = j
    <3>1. row[j].claim # NoClaim
      BY <2>2 DEF SweepInv, RetryInv
    <3>2. Lifecycle!Promote(j)
      BY <1>2, <1>d, <2>2, <2>c, <2>k, <3>1 DEF Lifecycle!Promote, Lifecycle!Nobody, NoClaim
    <3> QED
      BY <2>2, <2>a, <3>2 DEF Lifecycle!Next
  <2>3. CASE /\ r.status = "expired" /\ r.claim = row[j].claim
             /\ \E n \in Nodes :
                  rt[n].pc = "exreserve" /\ RJ(n) = j /\ rt[n].status = row[j].status
    <3>1. row[j].status \in Terminal
      BY <2>3 DEF SweepInv, ExpireInv
    <3>2. CASE row[j].status = "expired"
      BY <2>3, <2>s, <3>2
    <3>3. CASE row[j].status \in {"done", "failed"}
      <4>1. Lifecycle!Expire(j)
        BY <1>2, <1>d, <2>3, <2>c, <2>k, <3>3 DEF Lifecycle!Expire, Lifecycle!Outcomes
      <4> QED
        BY <2>a, <3>3, <4>1 DEF Lifecycle!Next
    <3> QED
      BY <3>1, <3>2, <3>3 DEF Terminal
  <2>4. CASE del[j] = "row" /\ r = NoRow
    <3>1. Over(j) /\ r.status = "absent" /\ r.claim = NoClaim
      BY <2>4 DEF SweepInv, DeleteInv, NoRow
    <3>2. CASE row[j].status = "absent"
      BY <2>s, <3>1, <3>2 DEF SweepInv, AbsentFree
    <3>3. CASE row[j].status # "absent"
      <4>1. Lifecycle!Remove(j)
        BY <1>2, <1>d, <2>c, <3>1, <3>3
           DEF Lifecycle!Remove, Lifecycle!Outcomes, Lifecycle!Nobody, NoClaim, Over, Terminal
      <4> QED
        BY <2>a, <3>3, <4>1 DEF Lifecycle!Next
    <3> QED
      BY <3>2, <3>3
  <2> QED
    BY <1>2, <2>1, <2>2, <2>3, <2>4
<1> QED
  BY <1>1, <1>2 DEF RowEffect

LEMMA InHandStarts == RetentionInit => SweepInv
  BY IdleTyped DEF RetentionInit, Init, StoreInit, NoRow, SweepInv, AbsentFree, RetryInv, ExpireInv,
     DeleteInv, IdleRetention

\* Beside the dispatcher, the upload retry, the expiry and DELETE keep to the job life cycle:
\* only a failed row that still carries a claim becomes DONE after its terminal write
\* (_retry_pending_one), only a finished one expires (_expire_job) or goes (delete_job), and
\* none is ever queued or run again.
THEOREM RetentionImplements == RetentionSpec => ImplementsLifecycle
<1> DEFINE Inv == TypeInv /\ RtInv /\ AbsentInv /\ SweepInv
<1>1. RetentionInit => Inv /\ Lifecycle!Init
  <2>1. RetentionInit => Lifecycle!Init
    BY JobStoreAssumption
       DEF RetentionInit, Init, StoreInit, NoRow, Lifecycle!Init, Lifecycle!Nobody, NoClaim
  <2> QED
    BY <2>1, RetentionStarts, InHandStarts, AbsentInit DEF RetentionInit
<1>2. Inv /\ [RetentionNext]_allVars => Inv' /\ [Lifecycle!Next]_(Lifecycle!lifeVars)
  <2> SUFFICES ASSUME Inv, [RetentionNext]_allVars
               PROVE  Inv' /\ [Lifecycle!Next]_(Lifecycle!lifeVars)
    OBVIOUS
  <2>1. TypeInv' /\ RtInv' /\ SweepInv'
    BY RetentionTyping, InHandStays
  <2>2. AbsentInv' /\ [Lifecycle!Next]_(Lifecycle!lifeVars)
    BY RetentionSteps, NextEffect, EffectRefines, RowEffects, SweepRefines DEF DispatcherStep
  <2> QED
    BY <2>1, <2>2
<1> QED
  BY <1>1, <1>2, PTL DEF RetentionSpec, ImplementsLifecycle, Lifecycle!Spec

-------------------------------------------------------------------------------
\* The last copy of a retained result.

\* Which trees a step of a thread touches, and which a step from outside.
LEMMA StepFrame ==
  ASSUME TypeInv, NEW t \in Threads, Claim(t) \/ ThreadStep(t), NEW n \in Nodes, NEW j \in Jobs
  PROVE  disk'[n][j] = disk[n][j] \/ (th[t].pc # "idle" /\ j = J(t))
<1>a. th[t].pc # "idle" => J(t) \in Jobs /\ N(t) \in Nodes
  BY ThreadInHand
<1>s. ASSUME NEW d, SetTree(N(t), J(t), d), th[t].pc # "idle"
      PROVE  disk'[n][j] = disk[n][j] \/ j = J(t)
  BY <1>s, <1>a, TreeSet
<1>1. CASE \/ Claim(t) \/ Refuse(t) \/ NoHeadroom(t) \/ AdmitWarm(t) \/ AdmitCold(t)
           \/ StampWarm(t) \/ FetchFails(t) \/ Reject(t) \/ EgressDefer(t) \/ StampCold(t)
           \/ BoxDone(t) \/ BoxKilled(t) \/ BoxOrphaned(t) \/ GuestDone(t) \/ GuestFails(t)
           \/ Refresh(t) \/ SealFails(t)
  BY <1>1 DEF Claim, Refuse, NoHeadroom, AdmitWarm, AdmitCold, StampWarm, FetchFails, Reject,
     EgressDefer, StampCold, BoxDone, BoxKilled, BoxOrphaned, GuestDone, GuestFails, Refresh,
     SealFails, localVars
<1>2. CASE \/ Check(t) \/ PutBody(t) \/ PutSeal(t)
           \/ PutFails(t) \/ ReapCheck(t) \/ Reap(t) \/ Keep(t) \/ Commit(t) \/ Fail(t)
           \/ Raise(t) \/ InRead(t) \/ PgRead(t)
  BY <1>2 DEF Check, PutBody, PutSeal, PutFails, ReapCheck, Reap, Keep, Commit, Fail, Raise,
     InRead, PgRead, localVars
<1>3. CASE \/ Fetch(t) \/ FetchDrop(t) \/ InDel(t) \/ Launch(t) \/ LaunchFails(t) \/ Seal(t)
           \/ Release(t) \/ Mark(t) \/ Unmark(t) \/ PgDel(t)
  <2>1. th[t].pc # "idle"
    BY <1>3 DEF Fetch, FetchDrop, InDel, Launch, LaunchFails, Seal, Release, Mark, Unmark, PgDel, At
  <2>2. disk' = disk \/ \E d : SetTree(N(t), J(t), d)
    <3>1. CASE Fetch(t) \/ FetchDrop(t) \/ InDel(t)
      BY <3>1 DEF Fetch, FetchDrop, InDel
    <3>2. CASE Launch(t) \/ LaunchFails(t)
      BY <3>2 DEF Launch, LaunchFails
    <3>3. CASE Seal(t)
      BY <3>3 DEF Seal
    <3>4. CASE Release(t) \/ Mark(t) \/ Unmark(t) \/ PgDel(t)
      BY <3>4 DEF Release, Mark, Unmark, PgDel
    <3> QED
      BY <1>3, <3>1, <3>2, <3>3, <3>4
  <2> QED
    BY <2>1, <2>2, <1>s
<1> QED
  BY <1>1, <1>2, <1>3 DEF ThreadStep

LEMMA AsideFrame ==
  ASSUME TypeInv, Aside, NEW m \in Nodes, NEW i \in Jobs
  PROVE  \/ disk'[m][i] = disk[m][i]
         \/ row[i].status \in {"queued", "running"}
         \/ box[m][i] # NoClaim
         \/ mt[m].pc \in {"rcpop", "rcdel"} /\ mt[m].job = i
         \/ i = submitted'
<1>a. disk \in [Nodes -> [Jobs -> Trees]]
  BY DEF TypeInv, DiskInv
<1> DEFINE Free == \/ row[i].status \in {"queued", "running"}
                   \/ box[m][i] # NoClaim
                   \/ mt[m].pc \in {"rcpop", "rcdel"} /\ mt[m].job = i
                   \/ i = submitted'
<1>s. ASSUME NEW n \in Nodes, NEW j \in Jobs, NEW d, SetTree(n, j, d),
             n = m /\ j = i => Free \/ d = disk[n][j]
      PROVE  disk'[m][i] = disk[m][i] \/ Free
  <2>1. /\ disk'[n][j] = d
        /\ m # n \/ i # j => disk'[m][i] = disk[m][i]
    BY <1>s, TreeSet
  <2> QED
    BY <1>s, <2>1
<1>1. ASSUME NEW j \in Jobs, Submit(j) PROVE disk'[m][i] = disk[m][i] \/ Free
  <2>1. SetTree(Home, j, [disk[Home][j] EXCEPT !.input = TRUE]) /\ submitted' = j
    BY <1>1 DEF Submit, Create
  <2> QED
    BY <2>1, <1>s, DispatchAssumption
<1>2. ASSUME NEW j \in Jobs, Elapse(j) PROVE disk' = disk
  BY <1>2 DEF Elapse, localVars
<1>3. ASSUME NEW n \in Nodes,
             \/ SweepPs(n) \/ SweepSkip(n) \/ SweepRequeue(n) \/ ReconcilePs(n)
             \/ ReconcileRead(n) \/ Crash(n)
             \/ \E j \in Jobs : SweepList(n, j) \/ ReconcileList(n, j)
      PROVE  disk' = disk
  BY <1>3 DEF SweepPs, SweepSkip, SweepRequeue, ReconcilePs, ReconcileRead, Crash, SweepList,
     ReconcileList
<1>4. ASSUME NEW n \in Nodes, SweepWarm(n) PROVE disk'[m][i] = disk[m][i] \/ Free
  <2>1. mt[n].job \in Jobs
    BY <1>4, MaintInHand DEF SweepWarm
  <2>2. PICK d : /\ SetTree(n, mt[n].job, d)
                 /\ row[mt[n].job].status = "running" \/ d = disk[n][mt[n].job]
    BY <1>4 DEF SweepWarm, Matches
  <2> QED
    BY <2>1, <2>2, <1>s
<1>5. ASSUME NEW n \in Nodes, ReconcilePop(n) \/ ReconcileDel(n)
      PROVE  disk'[m][i] = disk[m][i] \/ Free
  <2>1. mt[n].job \in Jobs /\ mt[n].pc \in {"rcpop", "rcdel"}
    BY <1>5, MaintInHand DEF ReconcilePop, ReconcileDel
  <2>2. \E d : SetTree(n, mt[n].job, d)
    BY <1>5 DEF ReconcilePop, ReconcileDel
  <2> QED
    BY <2>1, <2>2, <1>s
<1>6. ASSUME NEW n \in Nodes, NEW j \in Jobs, FailStaleQueued(n, j)
      PROVE  disk'[m][i] = disk[m][i] \/ Free
  <2>1. row[j].status = "queued" /\ \E d : SetTree(n, j, d)
    BY <1>6 DEF FailStaleQueued
  <2> QED
    BY <2>1, <1>s
<1>7. ASSUME NEW n \in Nodes, NEW j \in Jobs, BoxExits(n, j)
      PROVE  disk'[m][i] = disk[m][i] \/ Free
  <2>1. box[n][j] # NoClaim /\ \E d : SetTree(n, j, d)
    BY <1>7 DEF BoxExits
  <2> QED
    BY <2>1, <1>s
<1> QED
  BY <1>1, <1>2, <1>3, <1>4, <1>5, <1>6, <1>7 DEF Aside, MaintStep, MaintBegin

\* Nothing is stored, run or retained for a job before it is submitted.
Known ==
  /\ InHand
  /\ \A n \in Nodes, j \in Jobs : box[n][j] # NoClaim \/ disk[n][j] # NoTree => j <= submitted

\* The reclaim of a scratch tree is of a job that is over; it read the status of a row
\* that says it is retained as FAILED, and purges only a tree that is not marked.
ScratchInv ==
  \A n \in Nodes :
    /\ rt[n].pc = "scread" => RJ(n) <= submitted
    /\ rt[n].pc \in {"scjudge", "scpurge"} => Over(RJ(n))
    /\ rt[n].pc = "scjudge" /\ Retains(RJ(n)) => rt[n].status = "failed"
    /\ rt[n].pc = "scpurge" /\ Retains(RJ(n)) => disk[n][RJ(n)].marker = NoClaim

\* A retained result is on a disk, unless a client asked to delete its job.
KeptUnasked == \A j \in Jobs : del[j] = "no" => KeptTree(j)

\* A step of the dispatcher.
LEMMA KnownNext ==
  ASSUME TypeInv, AbsentInv, Owned, Known, Retained, OrphansOver, [Next]_vars
  PROVE  Known' /\ submitted <= submitted'
<1>t. row \in [Jobs -> Rows] /\ submitted \in 0..NJobs /\ NJobs \in Nat
  BY JobStoreAssumption DEF TypeInv, RowInv
<1>1. submitted' \in Nat /\ submitted <= submitted'
  <2>1. ASSUME NEW j \in Jobs, Create(j) PROVE submitted' = submitted + 1
    BY <2>1 DEF Create
  <2>2. ASSUME NEW j \in Jobs, NEW S \in SUBSET Jobs, ClaimNext(S, j) PROVE submitted' = submitted
    BY <2>2 DEF ClaimNext
  <2>3. ASSUME NEW j \in Jobs, NEW st, NEW c, Becomes(j, st, c) PROVE submitted' = submitted
    BY <2>3 DEF Becomes
  <2>4. submitted' \in {submitted, submitted + 1}
    BY <2>1, <2>2, <2>3, NextEffect DEF StoreEffect, storeVars
  <2> QED
    BY <1>t, <2>4
<1>2. \A j \in Jobs : j <= submitted => j <= submitted'
  BY <1>1, <1>t DEF Jobs
<1>3. \A j \in Jobs : row[j].status # "absent" => j <= submitted
  BY <1>t DEF AbsentInv, Jobs
<1>4. (\E t \in Threads : ThreadActs(t)) \/ AsideActs
  BY Steps
<1>5. InHand'
  <2>1. ASSUME NEW u \in Threads, th'[u].pc # "idle" PROVE th'[u].job <= submitted'
    <3>1. CASE th[u].pc # "idle" /\ th'[u].job = J(u)
      BY <3>1, <1>2, OwnedTypes DEF Known, InHand, J
    <3>2. CASE ThreadActs(u) /\ Takes(u)
      <4> DEFINE j == th'[u].job
      <4>1. j \in Jobs /\ row'[j].claim = issued + 1 /\ th[u].pc = "idle"
        BY <3>2 DEF Takes
      <4>2. row[j].claim <= issued /\ row[j].claim \in Nat /\ issued \in Nat
        BY <4>1, OwnedTypes DEF Owned, ClaimsIssued
      <4>3. ~SameRow(j)
        BY <4>1, <4>2 DEF SameRow
      <4>4. row[j].status = "queued"
        BY <3>2, <4>1, <4>3 DEF ThreadActs, RowActs, StopsRow, Working
      <4> QED
        BY <4>1, <4>4, <1>2, <1>3
    <3>3. ASSUME NEW t \in Threads, ThreadActs(t)
          PROVE  (th[u].pc # "idle" /\ th'[u].job = J(u)) \/ (ThreadActs(u) /\ Takes(u))
      BY <2>1, <3>3 DEF ThreadActs, Acts, GoesOn, Follows, Ends, IdleThread, J
    <3>4. ASSUME AsideActs PROVE th[u].pc # "idle" /\ th'[u].job = J(u)
      BY <2>1, <3>4 DEF AsideActs, ThreadsAside, IdleThread, J
    <3> QED
      BY <1>4, <3>1, <3>2, <3>3, <3>4
  <2> QED
    BY <2>1 DEF InHand, J
<1>6. ASSUME NEW n \in Nodes, NEW j \in Jobs, box'[n][j] # NoClaim PROVE j <= submitted'
  <2>1. box[n][j] # NoClaim \/ \E t \in Threads : th[t].pc # "idle" /\ j = J(t)
    BY <1>4, <1>6 DEF ThreadActs, BoxActs, AsideActs, BoxAside
  <2> QED
    BY <2>1, <1>2 DEF Known, InHand
<1>7. ASSUME NEW n \in Nodes, NEW j \in Jobs, disk'[n][j] # NoTree PROVE j <= submitted'
  <2>1. CASE disk[n][j] # NoTree
    BY <2>1, <1>2 DEF Known
  <2>2. CASE disk'[n][j] # disk[n][j]
    <3>1. ASSUME NEW t \in Threads, Claim(t) \/ ThreadStep(t) PROVE j <= submitted'
      <4>1. th[t].pc # "idle" /\ j = J(t)
        BY <2>2, <3>1, StepFrame
      <4> QED
        BY <4>1, <1>2 DEF Known, InHand
    <3>2. CASE Aside
      <4>1. \/ row[j].status \in {"queued", "running"}
            \/ box[n][j] # NoClaim
            \/ mt[n].pc \in {"rcpop", "rcdel"} /\ mt[n].job = j
            \/ j = submitted'
        BY <2>2, <3>2, AsideFrame
      <4>2. mt[n].pc \in {"rcpop", "rcdel"} /\ mt[n].job = j => Over(j)
        BY DEF Retained, OrphansOver
      <4>3. j = submitted' => j <= submitted'
        BY <1>1
      <4> QED
        BY <4>1, <4>2, <4>3, <1>2, <1>3 DEF Known, Over
    <3>3. CASE UNCHANGED vars
      BY <2>2, <3>3 DEF vars
    <3> QED
      BY <3>1, <3>2, <3>3 DEF Next, Aside
  <2> QED
    BY <1>7, <2>1, <2>2
<1> QED
  BY <1>1, <1>5, <1>6, <1>7 DEF Known

LEMMA OrphansOverNext ==
  ASSUME ~StoreFaults, TypeInv, TypeInv', Owned, Paths, InHand, Retained, OrphansOver, OverStays,
         submitted <= submitted', (\E t \in Threads : ThreadActs(t)) \/ AsideActs
  PROVE  OrphansOver'
<1>b. /\ \A u \in Threads : th[u].pc # "idle" => th[u].job \in Jobs
      /\ \A n \in Nodes : mt[n].pc # "idle" => mt[n].job \in Jobs
  BY OwnedTypes
<1>f. \A j \in Jobs : Over(j) => j <= submitted' /\ row'[j].status \in Terminal \cup {"absent"}
  BY DEF OverStays
<1>i. IdleThread.pc = "idle" /\ ~IdleThread.orphan
  BY DEF IdleThread
<1>1. ASSUME NEW u \in Threads, th'[u].orphan, th'[u].pc # "fail"
      PROVE  /\ th'[u].job <= submitted'
             /\ row'[th'[u].job].status \in Terminal \cup {"absent"}
  <2>1. CASE th'[u] = th[u]
    <3>1. th[u].pc # "idle"
      BY <1>1, <2>1 DEF Paths
    <3> QED
      BY <1>1, <2>1, <3>1, <1>b, <1>f DEF OrphansOver, J
  <2>2. CASE ThreadActs(u) /\ GoesOn(u)
    <3>1. /\ th[u].orphan /\ th'[u].job = th[u].job /\ th[u].pc # "idle"
      BY <1>1, <2>2 DEF GoesOn, Follows
    <3>2. CASE th[u].pc = "fail"
      <4>1. StillOurs(u)
        BY <3>2 DEF Owned, HoldsRow, Working
      <4>2. J(u) \in Jobs /\ J(u) <= submitted /\ submitted \in Nat /\ submitted' \in Nat
        BY <3>1, <1>b, JobStoreAssumption DEF InHand, J, TypeInv, RowInv
      <4>3. J(u) <= submitted'
        BY <4>2 DEF Jobs
      <4> QED
        BY <2>2, <3>1, <3>2, <4>1, <4>3 DEF ThreadActs, RowActs, J, Terminal
    <3>3. CASE th[u].pc # "fail"
      BY <3>1, <3>3, <1>b, <1>f DEF OrphansOver, J
    <3> QED
      BY <3>2, <3>3
  <2>3. ASSUME NEW t \in Threads, ThreadActs(t)
        PROVE  th'[u] = th[u] \/ (ThreadActs(u) /\ GoesOn(u))
    BY <1>1, <2>3, <1>i DEF ThreadActs, Acts, Ends, Takes
  <2>4. ASSUME AsideActs PROVE th'[u] = th[u]
    BY <1>1, <2>4, <1>i DEF AsideActs, ThreadsAside
  <2> QED
    BY <2>1, <2>2, <2>3, <2>4
<1>2. ASSUME NEW n \in Nodes, NEW j \in Jobs, orphans'[n][j] # NoClaim
      PROVE  j <= submitted' /\ row'[j].status \in Terminal \cup {"absent"}
  <2>1. \/ orphans[n][j] # NoClaim
        \/ \E t \in Threads : th[t].pc = "release" /\ th[t].orphan /\ j = J(t)
    BY <1>2, ListsChange
  <2> QED
    BY <2>1, <1>f DEF OrphansOver
<1>3. ASSUME NEW n \in Nodes, mt'[n].pc \in {"rcread", "rcdel"}
      PROVE  /\ mt'[n].job <= submitted'
             /\ row'[mt'[n].job].status \in Terminal \cup {"absent"}
  <2>1. CASE mt[n].pc \in {"rcread", "rcdel"} /\ mt'[n].job = mt[n].job
    BY <2>1, <1>b, <1>f DEF OrphansOver
  <2>2. CASE mt[n].pc = "rcpop" /\ mt[n].job \in Jobs /\ mt'[n].job = mt[n].job
    BY <2>2, <1>f DEF OrphansOver, Retained
  <2> QED
    BY <1>3, <2>1, <2>2, ListsChange
<1> QED
  BY <1>1, <1>2, <1>3 DEF OrphansOver, Over, J

LEMMA ScratchBesideDispatcher ==
  ASSUME TypeInv, AbsentInv, RtInv, Owned, Keeping, ScratchInv, OverStays,
         submitted <= submitted', DispatcherStep
  PROVE  ScratchInv'
<1>1. ASSUME NEW n \in Nodes, NEW j \in Jobs, Over(j)
      PROVE  /\ j <= submitted' /\ row'[j].status \in Terminal \cup {"absent"}
             /\ RetainsAfter(j) => Retains(j)
             /\ Retains(j) /\ disk[n][j].marker = NoClaim => disk'[n][j].marker = NoClaim
  <2>1. j <= submitted' /\ row'[j].status \in Terminal \cup {"absent"}
    BY <1>1 DEF OverStays
  <2>2. row[j].status # "running"
    BY <1>1 DEF Over, Terminal
  <2>3. ASSUME NEW t \in Threads, KeepActs(t)
        PROVE  /\ RetainsAfter(j) => Retains(j)
               /\ Retains(j) => disk'[n][j].marker = disk[n][j].marker
    <3>1. th[t].pc \in Working => j # J(t)
      BY <2>2, AtWork
    <3>2. th[t].pc # "unmark" /\ (th[t].pc = "pgdel" => ~Retains(J(t)))
      BY DEF Keeping, WorkTree, Flags
    <3> QED
      BY <2>3, <3>1, <3>2 DEF KeepActs, RowKeeps, MarkerKeeps, Working
  <2>4. ASSUME KeepAside
        PROVE  /\ RetainsAfter(j) => Retains(j)
               /\ Retains(j) => disk'[n][j].marker = disk[n][j].marker
    BY <2>4 DEF KeepAside, Keeping, OrphansLost
  <2> QED
    BY <2>1, <2>3, <2>4, KeepSteps DEF DispatcherStep, Moves, Stands
<1>2. ASSUME NEW n \in Nodes, rt'[n].pc \in {"scread", "scjudge", "scpurge"}
      PROVE  /\ rt'[n].pc = "scread" => rt'[n].job <= submitted'
             /\ rt'[n].pc # "scread" =>
                  /\ rt'[n].job <= submitted'
                  /\ row'[rt'[n].job].status \in Terminal \cup {"absent"}
             /\ rt'[n].pc = "scjudge" /\ RetainsAfter(rt'[n].job) => rt'[n].status = "failed"
             /\ rt'[n].pc = "scpurge" /\ RetainsAfter(rt'[n].job) =>
                  disk'[n][rt'[n].job].marker = NoClaim
  <2>1. rt'[n] = rt[n] /\ RJ(n) \in Jobs
    BY <1>2, IdleTyped DEF DispatcherStep, RtInv
  <2>2. RJ(n) <= submitted => RJ(n) <= submitted'
    BY <2>1, NextTyped, JobStoreAssumption DEF DispatcherStep, TypeInv, RowInv, Jobs
  <2>3. CASE rt[n].pc = "scread"
    BY <2>1, <2>2, <2>3 DEF ScratchInv, RJ
  <2>4. CASE rt[n].pc \in {"scjudge", "scpurge"}
    <3>1. /\ RJ(n) <= submitted' /\ row'[RJ(n)].status \in Terminal \cup {"absent"}
          /\ RetainsAfter(RJ(n)) => Retains(RJ(n))
          /\ Retains(RJ(n)) /\ disk[n][RJ(n)].marker = NoClaim =>
               disk'[n][RJ(n)].marker = NoClaim
      BY <2>1, <2>4, <1>1 DEF ScratchInv
    <3> QED
      BY <2>1, <2>4, <3>1 DEF ScratchInv, RJ
  <2> QED
    BY <1>2, <2>1, <2>3, <2>4
<1> QED
  BY <1>2 DEF ScratchInv, RJ, Over, Retains, RetainsAfter

\* A step of a sweep, of DELETE or of the clock of expires_at: the rows and the trees of the
\* jobs that are not over stay as they are, and no row comes to say that it is retained.
SweepSpares ==
  /\ issued' = issued /\ submitted' = submitted
  /\ \A j \in Jobs : ~Over(j) => SameRow(j) /\ \A n \in Nodes : disk'[n][j] = disk[n][j]
  /\ \A j \in Jobs :
       /\ RetainsAfter(j) => Retains(j) /\ row'[j].claim = row[j].claim
       /\ row'[j].claim \in {row[j].claim, NoClaim}
       /\ row'[j].status \in {"queued", "running"} => SameRow(j)

LEMMA Spares ==
  ASSUME TypeInv, AbsentInv, SweepInv, ScratchInv, RowEffect, DiskEffect
  PROVE  SweepSpares
<1>t. row \in [Jobs -> Rows] /\ \A j \in Jobs : row[j].status # "absent" => j <= submitted
  BY JobStoreAssumption DEF AbsentInv, TypeInv, RowInv, Jobs
<1>1. \A j \in Jobs : ~Over(j) => \A n \in Nodes : disk'[n][j] = disk[n][j]
  BY DEF DiskEffect, SweepInv, RetryInv, ExpireInv, DeleteInv, ScratchInv
<1> DEFINE RowSpares ==
             /\ issued' = issued /\ submitted' = submitted
             /\ \A j \in Jobs : ~Over(j) => SameRow(j)
             /\ \A j \in Jobs :
                  /\ RetainsAfter(j) => Retains(j) /\ row'[j].claim = row[j].claim
                  /\ row'[j].claim \in {row[j].claim, NoClaim}
                  /\ row'[j].status \in {"queued", "running"} => SameRow(j)
<1>2. ASSUME UNCHANGED storeVars PROVE RowSpares
  BY <1>2 DEF storeVars, SameRow, Retains, RetainsAfter
<1>3. ASSUME NEW j \in Jobs, NEW r \in Rows, row' = [row EXCEPT ![j] = r],
             UNCHANGED <<issued, submitted>>,
             \/ \E e \in Expiries : r = [row[j] EXCEPT !.expiry = e]
             \/ /\ row[j].status = "failed" /\ r.status = "done" /\ r.claim = row[j].claim
                /\ \E n \in Nodes : rt[n].pc = "rtfix" /\ RJ(n) = j
             \/ /\ r.status = "expired" /\ r.claim = row[j].claim
                /\ \E n \in Nodes :
                     rt[n].pc = "exreserve" /\ RJ(n) = j /\ rt[n].status = row[j].status
             \/ del[j] = "row" /\ r = NoRow
      PROVE  RowSpares
  <2>1. row'[j] = r /\ \A i \in Jobs : i # j => row'[i] = row[i]
    BY <1>t, <1>3
  <2>2. CASE \E e \in Expiries : r = [row[j] EXCEPT !.expiry = e]
    <3>1. /\ r.status = row[j].status /\ r.claim = row[j].claim
          /\ r.deferred = row[j].deferred /\ r.kept = row[j].kept
      BY <1>t, <2>2 DEF Rows
    <3> QED
      BY <1>3, <2>1, <3>1 DEF SameRow, Retains, RetainsAfter
  <2>3. CASE Over(j) /\ r.status \in {"done", "expired"} /\ r.claim = row[j].claim
    BY <1>3, <2>1, <2>3 DEF SameRow, Retains, RetainsAfter
  <2>4. CASE Over(j) /\ r = NoRow
    <3>1. r.status = "absent" /\ r.claim = NoClaim
      BY <2>4 DEF NoRow
    <3> QED
      BY <1>3, <2>1, <2>4, <3>1 DEF SameRow, Retains, RetainsAfter
  <2>5. \A n \in Nodes : rt[n].pc = "rtfix" /\ RJ(n) = j => Over(j)
    BY DEF SweepInv, RetryInv
  <2>6. \A n \in Nodes : rt[n].pc = "exreserve" /\ rt[n].status = row[j].status => Over(j)
    BY <1>t DEF SweepInv, ExpireInv, Over, Terminal
  <2>7. del[j] = "row" => Over(j)
    BY DEF SweepInv, DeleteInv
  <2> HIDE DEF RowSpares
  <2> QED
    BY <1>3, <2>2, <2>3, <2>4, <2>5, <2>6, <2>7
<1> QED
  BY <1>1, <1>2, <1>3 DEF RowEffect, SweepSpares

LEMMA OwnedBesideSweeps ==
  ASSUME TypeInv, Owned, OwnBoxGone, Paths, AbsentFree', SweepSpares,
         UNCHANGED <<th, mt, box, permits, orphans, upfail, crashes>>
  PROVE  Owned' /\ OwnBoxGone' /\ Paths'
<1>b. issued \in Nat /\ \A j \in Jobs : row[j].claim \in Nat
  BY OwnedTypes
<1>1. RowsFree'
  BY DEF Owned, RowsFree, AbsentFree, SweepSpares, SameRow
<1>2. ClaimsIssued'
  <2>1. \A j \in Jobs : row'[j].claim <= issued'
    BY <1>b DEF Owned, ClaimsIssued, SweepSpares, NoClaim
  <2> QED
    BY <2>1 DEF Owned, ClaimsIssued, SweepSpares
<1>3. OwnClaim' /\ JudgedGone'
  BY DEF Owned, OwnClaim, JudgedGone, Judged
<1>4. HoldsRow'
  <2>1. ASSUME NEW t \in Threads, th[t].pc \in Working
        PROVE  row'[J(t)].status = "running" /\ row'[J(t)].claim = C(t)
    <3>1. row[J(t)].status = "running" /\ row[J(t)].claim = C(t) /\ J(t) \in Jobs
      BY <2>1, AtWork DEF Working
    <3> QED
      BY <3>1 DEF SweepSpares, SameRow, Over, Terminal
  <2> QED
    BY <2>1 DEF HoldsRow, StillOurs, Matches, J, C
<1>5. OwnBoxGone' /\ Paths'
  BY DEF OwnBoxGone, Paths, J, C, N
<1> QED
  BY <1>1, <1>2, <1>3, <1>4, <1>5 DEF Owned

LEMMA KeepingBesideSweeps ==
  ASSUME TypeInv, Owned, Paths, Keeping, SweepSpares,
         UNCHANGED <<th, mt, box, permits, orphans, upfail, crashes>>
  PROVE  Keeping'
<1>a. \A t \in Threads : th[t].pc # "idle" => J(t) \in Jobs /\ N(t) \in Nodes
  BY AtWork
<1>1. JobsApart'
  <2>1. ASSUME NEW t \in Threads, th[t].pc # "idle"
        PROVE  /\ row'[J(t)].status = "queued" => row'[J(t)].deferred
               /\ row'[J(t)].status = "running" => row'[J(t)].claim = C(t)
    BY <2>1, <1>a DEF Keeping, JobsApart, SweepSpares, SameRow
  <2> QED
    BY <2>1 DEF Keeping, JobsApart, J, C
<1>2. WorkTree'
  <2>1. ASSUME NEW t \in Threads, th[t].pc \in Working
        PROVE  disk'[N(t)][J(t)] = disk[N(t)][J(t)]
    <3>1. row[J(t)].status = "running" /\ J(t) \in Jobs /\ N(t) \in Nodes
      BY <2>1, AtWork DEF Working
    <3> QED
      BY <3>1 DEF SweepSpares, Over, Terminal
  <2>2. SealedPcs \cup {"boxed", "seal"} \subseteq Working /\ "keep" \in SealedPcs
    BY DEF SealedPcs, Working
  <2>3. ASSUME NEW t \in Threads
        PROVE  /\ th[t].pc = "boxed" \/ (th[t].pc = "seal" /\ ~th[t].warm) =>
                    disk'[N(t)][J(t)].by = C(t)
               /\ th[t].pc \in SealedPcs => SealedAfter(N(t), J(t), C(t))
               /\ th[t].pc = "keep" =>
                    disk'[N(t)][J(t)].marker = C(t) /\ J(t) \in upfail[N(t)]
               /\ th[t].pc # "unmark"
    BY <2>1, <2>2 DEF Keeping, WorkTree, Tree, SealedFor, SealedAfter
  <2> QED
    BY <2>3 DEF WorkTree, Tree, SealedFor, SealedAfter, J, C, N
<1>3. Flags'
  <2>1. ASSUME NEW t \in Threads
        PROVE  /\ th[t].pc \in {"release", "inread", "indel", "pgread"} /\ RetainsAfter(J(t))
                    => J(t) \in upfail[N(t)]
               /\ th[t].pc \in {"fetchdrop", "pgdel"} => ~RetainsAfter(J(t))
    BY <1>a DEF Keeping, Flags, SweepSpares
  <2> QED
    BY <2>1 DEF Flags, J, N, Retains, RetainsAfter
<1>4. OrphansLost'
  <2>0. \A t \in Threads : th[t].orphan => J(t) \in Jobs
    BY <1>a DEF Paths
  <2>1. /\ \A t \in Threads : th[t].orphan => ~RetainsAfter(J(t))
        /\ \A n \in Nodes, j \in Jobs : orphans[n][j] # NoClaim => ~RetainsAfter(j)
        /\ \A n \in Nodes : mt[n].pc \in {"rcread", "rcdel"} => ~RetainsAfter(mt[n].job)
    BY <2>0, OwnedTypes DEF Keeping, OrphansLost, SweepSpares
  <2> QED
    BY <2>1 DEF OrphansLost, J, Retains, RetainsAfter
<1> QED
  BY <1>1, <1>2, <1>3, <1>4 DEF Keeping

LEMMA KnownBesideSweeps ==
  ASSUME TypeInv, Known, Paths, Retained, OrphansOver, OverStays, SweepSpares,
         UNCHANGED <<th, mt, box, permits, orphans, upfail, crashes>>
  PROVE  Known' /\ Retained' /\ OrphansOver'
<1>1. \A n \in Nodes, j \in Jobs : disk'[n][j] # NoTree => j <= submitted
  BY DEF Known, SweepSpares, Over
<1>2. Known'
  BY <1>1 DEF Known, InHand, SweepSpares, J
<1>3. Retained'
  BY DEF Retained
<1>4. \A j \in Jobs : Over(j) => j <= submitted' /\ row'[j].status \in Terminal \cup {"absent"}
  BY DEF OverStays
<1>5. /\ \A t \in Threads : th[t].orphan => J(t) \in Jobs
      /\ \A n \in Nodes : mt[n].pc \in {"rcread", "rcdel"} => mt[n].job \in Jobs
  BY OwnedTypes DEF Paths, J
<1>6. /\ \A t \in Threads : th[t].orphan /\ th[t].pc # "fail" =>
           J(t) <= submitted' /\ row'[J(t)].status \in Terminal \cup {"absent"}
      /\ \A n \in Nodes, j \in Jobs : orphans[n][j] # NoClaim =>
           j <= submitted' /\ row'[j].status \in Terminal \cup {"absent"}
      /\ \A n \in Nodes : mt[n].pc \in {"rcread", "rcdel"} =>
           mt[n].job <= submitted' /\ row'[mt[n].job].status \in Terminal \cup {"absent"}
  BY <1>4, <1>5 DEF OrphansOver
<1>7. OrphansOver'
  BY <1>6 DEF OrphansOver, Over, J
<1> QED
  BY <1>2, <1>3, <1>7

\* A marker that a sweep or DELETE takes away is not put back by them.
LEMMA ScratchBesideSweeps ==
  ASSUME TypeInv, RtInv, Known, ScratchInv, AbsentInv, OverStays, SweepSpares, RtEffect, DiskEffect
  PROVE  ScratchInv'
<1>h. \A j \in Jobs : row[j].status # "absent" => j <= submitted
  BY JobStoreAssumption DEF AbsentInv, TypeInv, RowInv, Jobs
<1>o. \A j \in Jobs : Over(j) =>
        j <= submitted' /\ row'[j].status \in Terminal \cup {"absent"}
  BY DEF OverStays
<1>k. \A j \in Jobs : RetainsAfter(j) => Retains(j)
  BY DEF SweepSpares
<1>m. \A n \in Nodes, j \in Jobs : disk[n][j].marker = NoClaim => disk'[n][j].marker = NoClaim
  <2>1. NoTree.marker = NoClaim
    BY DEF NoTree
  <2>2. \A n \in Nodes, j \in Jobs : disk[n][j] \in Trees
    BY DEF TypeInv, DiskInv
  <2>3. \A n \in Nodes, j \in Jobs : [disk[n][j] EXCEPT !.marker = NoClaim].marker = NoClaim
    BY <2>2 DEF Trees
  <2> QED
    BY <2>1, <2>3 DEF DiskEffect
<1>1. ASSUME NEW n \in Nodes, rt'[n].pc \in {"scread", "scjudge", "scpurge"}
      PROVE  LET j == rt'[n].job IN
             /\ rt'[n].pc = "scread" => j <= submitted'
             /\ rt'[n].pc # "scread" =>
                  j <= submitted' /\ row'[j].status \in Terminal \cup {"absent"}
             /\ rt'[n].pc = "scjudge" /\ RetainsAfter(j) => rt'[n].status = "failed"
             /\ rt'[n].pc = "scpurge" /\ RetainsAfter(j) => disk'[n][j].marker = NoClaim
  <2>s. submitted' = submitted
    BY DEF SweepSpares
  <2>1. CASE rt'[n] = rt[n]
    <3>1. RJ(n) \in Jobs
      BY <1>1, <2>1 DEF RtInv
    <3>2. CASE rt[n].pc = "scread"
      BY <2>1, <2>s, <3>2 DEF ScratchInv, RJ
    <3>3. CASE rt[n].pc \in {"scjudge", "scpurge"}
      BY <2>1, <3>1, <3>3, <1>o, <1>k, <1>m DEF ScratchInv, RJ
    <3> QED
      BY <1>1, <2>1, <3>2, <3>3
  <2>2. CASE Begins(n)
    <3>1. rt'[n].pc = "scread" /\ rt'[n].job \in Jobs /\ disk[n][rt'[n].job] # NoTree
      BY <1>1, <2>2 DEF Begins
    <3> QED
      BY <2>s, <3>1 DEF Known
  <2>3. CASE Proceeds(n)
    <3>1. rt'[n].job = RJ(n) /\ RJ(n) \in Jobs
      BY <2>3 DEF Proceeds, RtInv
    <3>2. CASE /\ rt[n].pc = "scread" /\ rt'[n].pc = "scjudge"
               /\ row[RJ(n)].status \in Terminal \cup {"absent"}
               /\ rt'[n].status = row[RJ(n)].status
      <4>1. Over(RJ(n))
        BY <3>2 DEF ScratchInv, Over
      <4> QED
        BY <3>1, <3>2, <4>1, <1>o, <1>k DEF Retains
    <3>3. CASE /\ rt[n].pc = "scjudge" /\ rt'[n].pc = "scpurge"
               /\ rt[n].status = "failed" => disk[n][RJ(n)].marker = NoClaim
      BY <3>1, <3>3, <1>o, <1>k, <1>m DEF ScratchInv
    <3> QED
      BY <1>1, <2>3, <3>2, <3>3 DEF Proceeds
  <2>4. rt'[n] # IdleRetention
    BY <1>1, IdleTyped
  <2> QED
    BY <2>1, <2>2, <2>3, <2>4 DEF RtEffect
<1> QED
  BY <1>1 DEF ScratchInv, RJ, Over, Retains, RetainsAfter

\* What a sweep takes away is not the last copy.
LEMMA CopiesBesideSweeps ==
  ASSUME TypeInv, SweepInv, ScratchInv, SweepSpares, DiskEffect, DelEffect, box' = box, KeptUnasked
  PROVE  KeptUnasked'
<1> SUFFICES ASSUME NEW j \in Jobs, del'[j] = "no", RetainsAfter(j)
             PROVE  /\ row'[j].claim # NoClaim
                    /\ \E n \in Nodes : /\ disk'[n][j].marker = row'[j].claim
                                        /\ SealedAfter(n, j, row'[j].claim)
  BY DEF KeptUnasked, KeptTree, Retains, RetainsAfter, SealedFor, SealedAfter
<1>1. del[j] = "no"
  BY DEF DelEffect
<1>2. Retains(j) /\ row'[j].claim = row[j].claim /\ row[j].status = "failed"
  BY DEF SweepSpares, Retains
<1>3. row[j].claim # NoClaim
  BY <1>1, <1>2 DEF KeptUnasked, KeptTree
<1>4. PICK n \in Nodes : disk[n][j].marker = row[j].claim /\ SealedFor(n, j, row[j].claim)
  BY <1>1, <1>2 DEF KeptUnasked, KeptTree
<1>5. disk'[n][j] = disk[n][j]
  <2>1. ~(rt[n].pc \in {"rtclear", "extree"} /\ RJ(n) = j)
    BY <1>2 DEF SweepInv, RetryInv, ExpireInv
  <2>2. ~(rt[n].pc = "scpurge" /\ RJ(n) = j)
    BY <1>2, <1>3, <1>4 DEF ScratchInv
  <2> QED
    BY <1>1, <2>1, <2>2 DEF DiskEffect
<1> QED
  BY <1>2, <1>3, <1>4, <1>5 DEF SealedFor, SealedAfter

\* The invariant of the dispatcher beside the sweeps, with prompt owners and a store that
\* answers.
CopiesInv ==
  /\ TypeInv /\ RtInv /\ AbsentInv /\ SweepInv /\ ScratchInv
  /\ Owned /\ Paths /\ OwnBoxGone /\ Known /\ Retained /\ OrphansOver
  /\ Keeping /\ KeptUnasked

LEMMA CopiesStart == RetentionInit => CopiesInv
<1> SUFFICES ASSUME RetentionInit PROVE CopiesInv
  OBVIOUS
<1>1. TypeInv /\ RtInv /\ AbsentInv /\ SweepInv /\ Owned /\ Paths /\ OwnBoxGone /\ Retained
  BY RetentionStarts, InHandStarts, AbsentInit, OwnedInit, ResultInit, OrphanInit
     DEF RetentionInit, ResultInv, OrphanInv
<1>2. Keeping /\ KeptUnasked
  BY KeepInit DEF RetentionInit, KeepInv, KeptUnasked
<1>3. ScratchInv
  BY IdleTyped DEF RetentionInit, ScratchInv
<1>4. Known /\ OrphansOver
  BY DEF RetentionInit, Init, IdleThread, IdleMaint, Known, InHand, OrphansOver
<1> QED
  BY <1>1, <1>2, <1>3, <1>4 DEF CopiesInv

LEMMA CopiesNext ==
  ASSUME SlowOwners = FALSE, StoreFaults = FALSE, CopiesInv, [RetentionNext]_allVars
  PROVE  CopiesInv'
<1> USE DEF CopiesInv
<1>1. TypeInv' /\ RtInv' /\ SweepInv'
  BY RetentionTyping, InHandStays
<1>2. AbsentInv'
  BY RetentionSteps, NextEffect, EffectRefines, RowEffects, SweepRefines DEF DispatcherStep
<1>3. OverStays
  BY RetentionSteps, NextEffect, RowEffects, OversStay DEF DispatcherStep, SweepInv
<1>4. CASE DispatcherStep
  <2>1. [Next]_vars /\ del' = del
    BY <1>4 DEF DispatcherStep
  <2>2. (\E t \in Threads : ThreadActs(t)) \/ AsideActs
    BY <2>1, Steps
  <2>3. Owned' /\ Paths' /\ OwnBoxGone' /\ Retained'
    BY <2>1, <2>2, OwnedNext, PathsNext, BoxGoneThread, BoxGoneAside, RetainedNext
  <2>4. Known' /\ submitted <= submitted'
    BY <2>1, KnownNext
  <2>5. OrphansOver'
    BY <1>1, <1>3, <2>2, <2>4, OrphansOverNext DEF Known
  <2>6. Keeping' /\ \A j \in Jobs : KeptTree(j) => KeptTree(j)'
    BY <2>1, KeepNext DEF Known
  <2>7. KeptUnasked'
    BY <2>1, <2>6 DEF KeptUnasked
  <2>8. ScratchInv'
    BY <1>3, <1>4, <2>4, ScratchBesideDispatcher
  <2> QED
    BY <1>1, <1>2, <2>3, <2>4, <2>5, <2>6, <2>7, <2>8
<1>5. CASE SweepStep
  <2>1. RtEffect /\ RowEffect /\ DiskEffect /\ DelEffect
    BY <1>5, RtEffects, RowEffects, DiskEffects, DelEffects
  <2>2. UNCHANGED <<th, mt, box, permits, orphans, upfail, crashes>>
    BY <1>5, SweepsLeave
  <2>3. SweepSpares
    BY <2>1, Spares
  <2>4. Owned' /\ OwnBoxGone' /\ Paths'
    BY <1>1, <2>2, <2>3, OwnedBesideSweeps DEF SweepInv
  <2>5. Keeping'
    BY <2>2, <2>3, KeepingBesideSweeps
  <2>6. Known' /\ Retained' /\ OrphansOver'
    BY <1>3, <2>2, <2>3, KnownBesideSweeps
  <2>7. ScratchInv'
    BY <1>3, <2>1, <2>3, ScratchBesideSweeps
  <2>8. KeptUnasked'
    BY <2>1, <2>2, <2>3, CopiesBesideSweeps
  <2> QED
    BY <1>1, <1>2, <2>4, <2>5, <2>6, <2>7, <2>8
<1> QED
  BY <1>4, <1>5, RetentionSteps

\* The sweeps, the expiry and the reclaim of scratch never destroy the only copy of a result
\* that the row says is retained (job_is_last_copy, the marker under the row's claim, and the
\* order reserve before remove in _expire_job), whatever the dispatchers, the crashes and the
\* failed uploads of any number of nodes do meanwhile, until a client asks to delete the job --
\* if owners are prompt and no store call raises.
THEOREM LastCopiesStaySafe ==
  SlowOwners = FALSE /\ StoreFaults = FALSE => (RetentionSpec => []LastCopySafe)
<1> SUFFICES ASSUME SlowOwners = FALSE, StoreFaults = FALSE
             PROVE  RetentionSpec => []LastCopySafe
  OBVIOUS
<1>1. CopiesInv /\ [RetentionNext]_allVars => CopiesInv'
  BY CopiesNext
<1>2. CopiesInv => LastCopySafe
  BY DEF CopiesInv, KeptUnasked, KeptTree, LastCopySafe, Retains, SealedFor
<1> QED
  BY <1>1, <1>2, CopiesStart, PTL DEF RetentionSpec

-------------------------------------------------------------------------------
\* What the upload retry repairs.

\* Row j is RUNNING or FAILED under a claim, and the tree of node n is marked for it.
Marked(n, j) ==
  /\ row[j].status \in {"running", "failed"} /\ row[j].claim # NoClaim
  /\ disk[n][j].marker = row[j].claim
MarkedAfter(n, j) ==
  /\ row'[j].status \in {"running", "failed"} /\ row'[j].claim # NoClaim
  /\ disk'[n][j].marker = row'[j].claim

\* What becomes of a thread that has marked its tree.
Marking == {"keep", "release", "inread", "indel", "pgread"}

\* Such a tree is sealed for that claim, whether or not the job's owner lived to write that
\* the result is retained; whoever is still on the job knows that the upload failed; and
\* no container of the job is waiting for its reconciliation.
MarkedTree(n, j) == Marked(n, j) =>
  /\ SealedFor(n, j, row[j].claim)
  /\ \A t \in Threads : th[t].pc # "idle" /\ J(t) = j =>
       ~th[t].orphan /\ th[t].pc \in Marking /\ j \in upfail[N(t)]
  /\ \A m \in Nodes :
       orphans[m][j] = NoClaim /\ ~(mt[m].pc \in {"rcread", "rcdel"} /\ mt[m].job = j)

MarkInv == \A n \in Nodes, j \in Jobs : disk[n][j].marker <= issued /\ MarkedTree(n, j)

\* From its look at the marker on, the retry has a tree marked for the claim it read, unless
\* the row has changed or a client has asked to delete the job.
HeldMark ==
  \A n \in Nodes :
    rt[n].pc \in {"rtprobe", "rtbody", "rtseal", "rtfix"} /\ row[RJ(n)].status = "failed"
      /\ del[RJ(n)] = "no" => disk[n][RJ(n)].marker = rt[n].claim

LEMMA MarksThread ==
  ASSUME TypeInv, Owned, Paths, Retained, OrphansOver, Keeping, MarkInv,
         NEW t \in Threads, ThreadActs(t), KeepActs(t)
  PROVE  MarkInv'
<1>b. /\ issued \in Nat /\ NoClaim <= issued /\ \A n \in Nodes, j \in Jobs : disk[n][j].marker \in Nat
      /\ C(t) \in Nat /\ C(t) <= issued
  <2>1. issued \in Nat /\ C(t) \in Nat /\ C(t) <= issued
    BY OwnedTypes DEF Owned, ClaimsIssued, C
  <2>2. \A n \in Nodes, j \in Jobs : disk[n][j].marker \in Nat
    BY DEF TypeInv, DiskInv, Trees, ClaimIds
  <2> QED
    BY <2>1, <2>2 DEF NoClaim
<1>w. th[t].pc \in Working => row[J(t)].status = "running" /\ row[J(t)].claim = C(t)
  BY AtWork
<1>1. issued' = issued \/ issued' = issued + 1
  BY DEF ThreadActs, RowActs, Takes
<1>2. ASSUME NEW n \in Nodes, NEW j \in Jobs PROVE disk'[n][j].marker <= issued'
  <2>1. disk'[n][j].marker \in {disk[n][j].marker, C(t), NoClaim}
    BY DEF KeepActs, MarkerKeeps
  <2>2. disk[n][j].marker <= issued /\ disk[n][j].marker \in Nat /\ NoClaim \in Nat
    BY <1>b DEF MarkInv, NoClaim
  <2> QED
    BY <1>1, <1>b, <2>1, <2>2
<1>3. ASSUME NEW n \in Nodes, NEW j \in Jobs, MarkedAfter(n, j)
      PROVE  /\ SealedAfter(n, j, row'[j].claim)
             /\ \A u \in Threads : th'[u].pc # "idle" /\ th'[u].job = j =>
                  ~th'[u].orphan /\ th'[u].pc \in Marking /\ j \in upfail'[N(u)]
             /\ \A m \in Nodes :
                  orphans'[m][j] = NoClaim
                  /\ ~(mt'[m].pc \in {"rcread", "rcdel"} /\ mt'[m].job = j)
  <2>1. ~(Takes(t) /\ j = th'[t].job)
    <3>1. SUFFICES ASSUME Takes(t), j = th'[t].job PROVE FALSE
      OBVIOUS
    <3>2. row'[j].claim = issued + 1 /\ th[t].pc = "idle"
      BY <3>1 DEF Takes
    <3>3. disk'[n][j].marker = disk[n][j].marker
      BY <3>2 DEF KeepActs, MarkerKeeps
    <3> QED
      BY <1>3, <1>b, <3>2, <3>3 DEF MarkedAfter, MarkInv
  <2>2. row[j].claim = row'[j].claim /\ row[j].status \in {"running", "failed"}
    BY <1>3, <2>1 DEF MarkedAfter, ThreadActs, RowActs, SameRow, StopsRow, StillOurs, Matches
  <2>3. CASE Marked(n, j)
    <3>1. /\ SealedFor(n, j, row[j].claim)
          /\ \A u \in Threads : th[u].pc # "idle" /\ J(u) = j =>
               ~th[u].orphan /\ th[u].pc \in Marking /\ j \in upfail[N(u)]
          /\ \A m \in Nodes :
               orphans[m][j] = NoClaim /\ ~(mt[m].pc \in {"rcread", "rcdel"} /\ mt[m].job = j)
      BY <2>3 DEF MarkInv, MarkedTree
    <3>2. ~(j = J(t) /\ th[t].pc \in {"launch", "seal", "pgdel"})
      BY <3>1 DEF Marking
    <3>3. SealedAfter(n, j, row'[j].claim)
      <4>1. disk'[n][j].by = disk[n][j].by /\ disk'[n][j].stage = disk[n][j].stage
        BY <3>2 DEF ThreadActs, TreeActs
      <4>2. box'[n][j] \in {box[n][j], NoClaim}
        BY <3>2 DEF ThreadActs, BoxActs
      <4> QED
        BY <1>3, <2>2, <3>1, <4>1, <4>2 DEF SealedFor, SealedAfter, MarkedAfter
    <3>4. ASSUME NEW u \in Threads, th'[u].pc # "idle", th'[u].job = j
          PROVE  ~th'[u].orphan /\ th'[u].pc \in Marking /\ j \in upfail'[N(u)]
      <4>1. CASE u # t
        <5>1. th'[u] = th[u]
          BY <4>1 DEF ThreadActs, Acts
        <5>2. ~th[u].orphan /\ th[u].pc \in Marking /\ j \in upfail[N(u)] /\ J(u) = j
          BY <3>1, <3>4, <5>1 DEF J
        <5>3. ~(th[t].pc = "pgread" /\ j = J(t))
          BY <3>4, <4>1, <5>1, <5>2 DEF Keeping, JobsApart
        <5>4. j \in upfail'[N(u)]
          BY <5>2, <5>3, AtWork DEF KeepActs, UploadKeeps
        <5> QED
          BY <5>1, <5>2, <5>4
      <4>2. CASE u = t
        <5>1. GoesOn(t)
          BY <2>1, <3>4, <4>2 DEF ThreadActs, Acts, Ends, IdleThread
        <5>2. J(t) = j /\ th[t].pc # "idle"
          BY <3>4, <4>2, <5>1 DEF GoesOn, Follows, J
        <5>3. ~th[t].orphan /\ th[t].pc \in Marking /\ j \in upfail[N(t)]
          BY <3>1, <5>2
        <5>4. ~th'[t].orphan
          BY <5>1, <5>3 DEF GoesOn, Marking
        <5>5. th[t].pc = "keep" => th'[t].pc # "unmark"
          BY DEF Owned, HoldsRow, Working, KeepActs, RowKeeps
        <5>6. th[t].pc = "pgread" => th'[t].pc # "pgdel"
          BY <5>2, <5>3 DEF KeepActs, UploadKeeps
        <5>7. th'[t].pc \in Marking /\ th[t].pc # "pgread"
          BY <5>1, <5>3, <5>5, <5>6 DEF GoesOn, Follows, Marking
        <5>8. j \in upfail'[N(t)]
          BY <5>3, <5>7, AtWork DEF KeepActs, UploadKeeps
        <5> QED
          BY <4>2, <5>4, <5>7, <5>8
      <4> QED
        BY <4>1, <4>2
    <3>5. ASSUME NEW m \in Nodes
          PROVE  /\ orphans'[m][j] = NoClaim
                 /\ ~(mt'[m].pc \in {"rcread", "rcdel"} /\ mt'[m].job = j)
      <4>1. orphans'[m][j] \in {orphans[m][j], NoClaim}
        <5>1. ~(th[t].pc = "release" /\ th[t].orphan /\ j = J(t))
          BY <3>1
        <5>2. orphans \in [Nodes -> [Jobs -> ClaimIds]]
          BY DEF TypeInv, GateInv
        <5>3. CASE th[t].pc = "release" /\ th[t].orphan
          <6>1. orphans' = [orphans EXCEPT ![N(t)][J(t)] = C(t)] /\ j # J(t)
            BY <5>1, <5>3 DEF ThreadActs, GateActs
          <6> QED
            BY <5>2, <6>1
        <5>4. CASE ~(th[t].pc = "release" /\ th[t].orphan)
          <6>1. orphans' = orphans
            BY <5>4 DEF ThreadActs, GateActs
          <6> QED
            BY <6>1
        <5> QED
          BY <5>3, <5>4
      <4>2. mt' = mt
        BY DEF ThreadActs, GateActs
      <4> QED
        BY <3>1, <4>1, <4>2
    <3> QED
      BY <3>3, <3>4, <3>5
  <2>4. CASE ~Marked(n, j)
    <3>1. disk'[n][j].marker # disk[n][j].marker /\ disk'[n][j].marker # NoClaim
      BY <1>3, <2>2, <2>4 DEF Marked, MarkedAfter
    <3>2. n = N(t) /\ j = J(t) /\ th[t].pc = "mark" /\ row'[j].claim = C(t)
      BY <1>3, <3>1 DEF KeepActs, MarkerKeeps, MarkedAfter
    <3>3. SealedFor(n, j, C(t))
      BY <3>2 DEF Keeping, WorkTree, SealedPcs
    <3>4. SealedAfter(n, j, row'[j].claim)
      <4>1. disk'[n][j].by = disk[n][j].by /\ disk'[n][j].stage = disk[n][j].stage
        BY <3>2 DEF ThreadActs, TreeActs
      <4>2. box'[n][j] \in {box[n][j], NoClaim}
        BY <3>2 DEF ThreadActs, BoxActs
      <4> QED
        BY <1>3, <3>2, <3>3, <4>1, <4>2 DEF SealedFor, SealedAfter, MarkedAfter
    <3>5. row[j].status = "running"
      BY <1>w, <3>2 DEF Working
    <3>6. ASSUME NEW u \in Threads, th'[u].pc # "idle", th'[u].job = j
          PROVE  ~th'[u].orphan /\ th'[u].pc \in Marking /\ j \in upfail'[N(u)]
      <4>1. u = t
        BY <3>2, <3>6 DEF ThreadActs, Acts, Keeping, JobsApart, J
      <4>2. GoesOn(t) /\ th'[t].pc = "keep"
        BY <3>2 DEF ThreadActs, Acts, Ends, Takes, GoesOn, Follows
      <4>3. ~th'[t].orphan
        BY <3>2, <4>2 DEF GoesOn, Paths
      <4>4. j \in upfail'[N(t)]
        BY <3>2 DEF KeepActs, UploadKeeps
      <4> QED
        BY <4>1, <4>2, <4>3, <4>4 DEF Marking
    <3>7. \A m \in Nodes : orphans[m][j] = NoClaim
                           /\ ~(mt[m].pc \in {"rcread", "rcdel"} /\ mt[m].job = j)
      BY <3>5 DEF OrphansOver, Over, Terminal
    <3>8. orphans' = orphans /\ mt' = mt
      BY <3>2 DEF ThreadActs, GateActs
    <3> QED
      BY <3>4, <3>6, <3>7, <3>8
  <2> QED
    BY <2>3, <2>4
<1> QED
  BY <1>2, <1>3 DEF MarkInv, MarkedTree, Marked, MarkedAfter, SealedFor, SealedAfter, J, N

LEMMA MarksAside ==
  ASSUME TypeInv, Owned, Retained, MarkInv, AsideActs, KeepAside
  PROVE  MarkInv'
<1>1. \A n \in Nodes, j \in Jobs : disk'[n][j].marker <= issued'
  <2>1. issued \in Nat /\ NoClaim <= issued /\ issued' = issued
    BY OwnedTypes DEF NoClaim, AsideActs, RowAside
  <2> QED
    BY <2>1 DEF KeepAside, MarkInv
<1>2. ASSUME NEW n \in Nodes, NEW j \in Jobs, MarkedAfter(n, j)
      PROVE  /\ SealedAfter(n, j, row'[j].claim)
             /\ \A u \in Threads : th'[u].pc # "idle" /\ th'[u].job = j =>
                  ~th'[u].orphan /\ th'[u].pc \in Marking /\ j \in upfail'[N(u)]
             /\ \A m \in Nodes :
                  orphans'[m][j] = NoClaim
                  /\ ~(mt'[m].pc \in {"rcread", "rcdel"} /\ mt'[m].job = j)
  <2>1. row[j].claim = row'[j].claim /\ row[j].status \in {"running", "failed"}
    BY <1>2 DEF MarkedAfter, AsideActs, RowAside, Sweeps, Owned, RowsFree
  <2>2. Marked(n, j)
    BY <1>2, <2>1 DEF KeepAside, Marked, MarkedAfter
  <2>3. /\ SealedFor(n, j, row[j].claim)
        /\ \A u \in Threads : th[u].pc # "idle" /\ J(u) = j =>
             ~th[u].orphan /\ th[u].pc \in Marking /\ j \in upfail[N(u)]
        /\ \A m \in Nodes :
             orphans[m][j] = NoClaim /\ ~(mt[m].pc \in {"rcread", "rcdel"} /\ mt[m].job = j)
    BY <2>2 DEF MarkInv, MarkedTree
  <2>4. SealedAfter(n, j, row'[j].claim)
    BY <2>1, <2>2, <2>3 DEF SealedFor, SealedAfter, Marked, AsideActs, TreeAside, BoxAside
  <2>5. ASSUME NEW u \in Threads, th'[u].pc # "idle", th'[u].job = j
        PROVE  ~th'[u].orphan /\ th'[u].pc \in Marking /\ j \in upfail'[N(u)]
    <3>0. IdleThread.pc = "idle"
      BY DEF IdleThread
    <3>1. th'[u] = th[u]
      BY <2>5, <3>0 DEF AsideActs, ThreadsAside
    <3>2. ~th[u].orphan /\ th[u].pc \in Marking /\ j \in upfail[N(u)] /\ N(u) \in Nodes
      BY <2>3, <2>5, <3>1, AtWork DEF J
    <3>3. j \in upfail'[N(u)]
      BY <2>3, <2>5, <3>0, <3>2 DEF KeepAside
    <3> QED
      BY <3>1, <3>2, <3>3
  <2>6. ASSUME NEW m \in Nodes
        PROVE  /\ orphans'[m][j] = NoClaim
               /\ ~(mt'[m].pc \in {"rcread", "rcdel"} /\ mt'[m].job = j)
    <3>1. orphans'[m][j] = NoClaim
      <4>1. \/ orphans'[m] = orphans[m]
            \/ orphans'[m] = [orphans[m] EXCEPT ![mt[m].job] = NoClaim]
            \/ orphans'[m] = [i \in Jobs |-> NoClaim]
        BY DEF AsideActs, GateAside
      <4>2. orphans[m] \in [Jobs -> ClaimIds] /\ orphans[m][j] = NoClaim
        BY <2>3 DEF TypeInv, GateInv
      <4> QED
        BY <4>1, <4>2
    <3>2. ~(mt'[m].pc \in {"rcread", "rcdel"} /\ mt'[m].job = j)
      BY <2>3, ListsChange
    <3> QED
      BY <3>1, <3>2
  <2> QED
    BY <2>4, <2>5, <2>6
<1> QED
  BY <1>1, <1>2 DEF MarkInv, MarkedTree, Marked, MarkedAfter, SealedFor, SealedAfter, J, N

\* A sweep or DELETE leaves a marked tree as it is, or takes its marker away.
LEMMA MarksBesideSweeps ==
  ASSUME TypeInv, Owned, MarkInv, OverStays, SweepSpares, DiskEffect,
         UNCHANGED <<th, mt, box, permits, orphans, upfail, crashes>>
  PROVE  MarkInv'
<1>1. ASSUME NEW n \in Nodes, NEW j \in Jobs
      PROVE  disk'[n][j] = disk[n][j] \/ disk'[n][j].marker = NoClaim
  <2>1. NoTree.marker = NoClaim
    BY DEF NoTree
  <2>2. [disk[n][j] EXCEPT !.marker = NoClaim].marker = NoClaim
    BY DEF TypeInv, DiskInv, Trees
  <2> QED
    BY <2>1, <2>2 DEF DiskEffect
<1>2. \A n \in Nodes, j \in Jobs : disk'[n][j].marker <= issued'
  <2>1. NoClaim <= issued /\ issued' = issued
    BY OwnedTypes DEF NoClaim, SweepSpares
  <2> QED
    BY <1>1, <2>1 DEF MarkInv
<1>3. ASSUME NEW n \in Nodes, NEW j \in Jobs, MarkedAfter(n, j)
      PROVE  /\ SealedAfter(n, j, row'[j].claim)
             /\ \A u \in Threads : th[u].pc # "idle" /\ J(u) = j =>
                  ~th[u].orphan /\ th[u].pc \in Marking /\ j \in upfail[N(u)]
             /\ \A m \in Nodes :
                  orphans[m][j] = NoClaim
                  /\ ~(mt[m].pc \in {"rcread", "rcdel"} /\ mt[m].job = j)
  <2>1. disk'[n][j] = disk[n][j]
    BY <1>1, <1>3 DEF MarkedAfter
  <2>2. row[j].status \in {"running", "failed"} /\ row[j].claim = row'[j].claim
    BY <1>3 DEF MarkedAfter, SweepSpares, OverStays, SameRow
  <2>3. Marked(n, j)
    BY <1>3, <2>1, <2>2 DEF Marked, MarkedAfter
  <2> QED
    BY <2>1, <2>2, <2>3 DEF MarkInv, MarkedTree, SealedFor, SealedAfter
<1> QED
  BY <1>2, <1>3 DEF MarkInv, MarkedTree, Marked, MarkedAfter, SealedFor, SealedAfter, J, N

\* What the retry has in its hand beside the dispatcher ...
LEMMA HeldBesideDispatcher ==
  ASSUME TypeInv, RtInv, SweepInv, Keeping, MarkInv, HeldMark, OverStays, DispatcherStep,
         Moves \/ Stands
  PROVE  HeldMark'
<1>1. ASSUME NEW n \in Nodes, rt'[n].pc \in {"rtprobe", "rtbody", "rtseal", "rtfix"},
             row'[rt'[n].job].status = "failed", del'[rt'[n].job] = "no"
      PROVE  disk'[n][rt'[n].job].marker = rt'[n].claim
  <2>1. rt'[n] = rt[n] /\ del' = del
    BY <1>1, IdleTyped DEF DispatcherStep
  <2>2. RJ(n) \in Jobs /\ Over(RJ(n)) /\ rt[n].claim # NoClaim
    BY <1>1, <2>1 DEF RtInv, SweepInv, RetryInv
  <2>3. row[RJ(n)].status = "failed"
    BY <1>1, <2>1, <2>2 DEF OverStays, RJ
  <2>4. row[RJ(n)].claim = rt[n].claim /\ disk[n][RJ(n)].marker = rt[n].claim
    BY <1>1, <2>1, <2>3 DEF SweepInv, RetryInv, HeldMark, RJ
  <2>5. /\ \A t \in Threads : th[t].pc # "idle" /\ J(t) = RJ(n) => th[t].pc \in Marking
        /\ ~(mt[n].pc = "rcdel" /\ mt[n].job = RJ(n))
    BY <2>2, <2>3, <2>4 DEF MarkInv, MarkedTree, Marked
  <2>6. disk'[n][RJ(n)].marker = disk[n][RJ(n)].marker
    <3>1. ASSUME NEW t \in Threads, KeepActs(t) PROVE disk'[n][RJ(n)].marker = disk[n][RJ(n)].marker
      BY <2>2, <2>5, <3>1 DEF KeepActs, MarkerKeeps, Marking
    <3>2. ASSUME KeepAside PROVE disk'[n][RJ(n)].marker = disk[n][RJ(n)].marker
      BY <2>2, <2>5, <3>2 DEF KeepAside
    <3> QED
      BY <3>1, <3>2 DEF Moves, Stands
  <2> QED
    BY <2>1, <2>4, <2>6 DEF RJ
<1> QED
  BY <1>1 DEF HeldMark, RJ

\* ... and beside the other sweeps and DELETE.
LEMMA HeldBesideSweeps ==
  ASSUME TypeInv, RtInv, SweepInv, HeldMark, OverStays, RtEffect, DiskEffect, DelEffect
  PROVE  HeldMark'
<1>1. ASSUME NEW n \in Nodes, rt'[n].pc \in {"rtprobe", "rtbody", "rtseal", "rtfix"},
             row'[rt'[n].job].status = "failed", del'[rt'[n].job] = "no"
      PROVE  disk'[n][rt'[n].job].marker = rt'[n].claim
  <2>1. \/ rt'[n] = rt[n]
        \/ /\ Proceeds(n) /\ rt'[n].claim = rt[n].claim
           /\ \/ rt[n].pc = "rtmark" /\ disk[n][RJ(n)].marker = rt[n].claim
              \/ rt[n].pc \in {"rtprobe", "rtbody", "rtseal"}
    BY <1>1, IdleTyped DEF RtEffect, Begins, Proceeds
  <2>2. rt'[n].job = RJ(n) /\ rt'[n].claim = rt[n].claim
    BY <2>1 DEF Proceeds, RJ
  <2>3. /\ RJ(n) \in Jobs /\ Over(RJ(n))
        /\ rt[n].pc \in {"rtmark", "rtprobe", "rtbody", "rtseal", "rtfix"}
    BY <1>1, <2>1 DEF RtInv, SweepInv, RetryInv
  <2>4. row[RJ(n)].status = "failed" /\ del[RJ(n)] = "no"
    BY <1>1, <2>2, <2>3 DEF OverStays, DelEffect
  <2>5. disk[n][RJ(n)].marker = rt[n].claim
    BY <1>1, <2>1, <2>4 DEF HeldMark
  <2>6. disk'[n][RJ(n)] = disk[n][RJ(n)]
    BY <2>3, <2>4 DEF DiskEffect
  <2> QED
    BY <2>2, <2>5, <2>6
<1> QED
  BY <1>1 DEF HeldMark, RJ

\* Only the retry turns FAILED into DONE.
LEMMA RepairsOfTrees ==
  ASSUME TypeInv, RtInv, SweepInv, MarkInv, HeldMark,
         \/ (\E t \in Threads : ThreadActs(t)) \/ AsideActs
         \/ RowEffect
  PROVE  RepairIsOwn
<1> SUFFICES ASSUME NEW j \in Jobs, row[j].status = "failed", row'[j].status = "done", del[j] = "no"
             PROVE  \E n \in Nodes : disk[n][j].by = row[j].claim /\ disk[n][j].stage = "sealed"
  BY DEF RepairIsOwn
<1>1. RowEffect
  BY DEF ThreadActs, RowActs, SameRow, StopsRow, StillOurs, Matches, AsideActs, RowAside, Sweeps
<1>2. PICK n \in Nodes : rt[n].pc = "rtfix" /\ RJ(n) = j
  <2>1. row \in [Jobs -> Rows]
    BY DEF TypeInv, RowInv
  <2>2. row' # row
    OBVIOUS
  <2>3. PICK i \in Jobs, r \in Rows :
          /\ row' = [row EXCEPT ![i] = r]
          /\ \/ \E e \in Expiries : r = [row[i] EXCEPT !.expiry = e]
             \/ r.status = "done" /\ \E n \in Nodes : rt[n].pc = "rtfix" /\ RJ(n) = i
             \/ r.status = "expired"
             \/ r = NoRow
    BY <1>1, <2>2 DEF RowEffect, storeVars
  <2>4. i = j /\ r.status = "done"
    BY <2>1, <2>3
  <2>5. ~(\E e \in Expiries : r = [row[i] EXCEPT !.expiry = e]) /\ r # NoRow
    BY <2>1, <2>4 DEF Rows, NoRow
  <2> QED
    BY <2>3, <2>4, <2>5
<1>3. row[j].claim = rt[n].claim /\ rt[n].claim # NoClaim /\ disk[n][j].marker = rt[n].claim
  BY <1>2 DEF SweepInv, RetryInv, HeldMark
<1>4. SealedFor(n, j, row[j].claim)
  BY <1>3 DEF MarkInv, MarkedTree, Marked
<1> QED
  BY <1>4 DEF SealedFor

LEMMA RepairsNext ==
  ASSUME SlowOwners = FALSE, StoreFaults = FALSE, CopiesInv, MarkInv, HeldMark,
         [RetentionNext]_allVars
  PROVE  MarkInv' /\ HeldMark' /\ RepairIsOwn
<1> USE DEF CopiesInv
<1>1. OverStays
  BY RetentionSteps, NextEffect, RowEffects, OversStay DEF DispatcherStep, SweepInv
<1>2. CASE DispatcherStep
  <2>1. Moves \/ Stands
    BY <1>2, KeepSteps DEF DispatcherStep
  <2>2. MarkInv'
    BY <2>1, MarksThread, MarksAside DEF Moves, Stands
  <2>3. HeldMark'
    BY <1>1, <1>2, <2>1, HeldBesideDispatcher
  <2>4. RepairIsOwn
    BY <2>1, RepairsOfTrees DEF Moves, Stands
  <2> QED
    BY <2>2, <2>3, <2>4
<1>3. CASE SweepStep
  <2>1. RtEffect /\ RowEffect /\ DiskEffect /\ DelEffect
    BY <1>3, RtEffects, RowEffects, DiskEffects, DelEffects
  <2>2. UNCHANGED <<th, mt, box, permits, orphans, upfail, crashes>> /\ SweepSpares
    BY <1>3, <2>1, SweepsLeave, Spares
  <2>3. MarkInv'
    BY <1>1, <2>1, <2>2, MarksBesideSweeps
  <2>4. HeldMark' /\ RepairIsOwn
    BY <1>1, <2>1, HeldBesideSweeps, RepairsOfTrees
  <2> QED
    BY <2>3, <2>4
<1> QED
  BY <1>2, <1>3, RetentionSteps

\* The upload retry (_retry_pending_one) turns FAILED into DONE only on a node that holds the
\* sealed tree of the very attempt on the row: a marker that outlived its attempt, a crash
\* between the marker and the terminal write, a clean-up or a reclaim between the look at
\* the marker and the repair never make it DONE for another -- if owners are prompt, no
\* store call raises and no client has asked to delete the job.
THEOREM RepairsAreOwn ==
  SlowOwners = FALSE /\ StoreFaults = FALSE => (RetentionSpec => [][RepairIsOwn]_allVars)
<1> SUFFICES ASSUME SlowOwners = FALSE, StoreFaults = FALSE
             PROVE  RetentionSpec => [][RepairIsOwn]_allVars
  OBVIOUS
<1> DEFINE Inv == CopiesInv /\ MarkInv /\ HeldMark
<1>1. RetentionInit => Inv
  <2> SUFFICES ASSUME RetentionInit PROVE Inv
    OBVIOUS
  <2>1. CopiesInv
    BY CopiesStart
  <2>2. MarkInv
    BY DEF RetentionInit, Init, StoreInit, NoRow, NoTree, MarkInv, MarkedTree, Marked, NoClaim
  <2>3. HeldMark
    BY IdleTyped DEF RetentionInit, HeldMark
  <2> QED
    BY <2>1, <2>2, <2>3
<1>2. Inv /\ [RetentionNext]_allVars => Inv' /\ RepairIsOwn
  BY CopiesNext, RepairsNext
<1> HIDE DEF Inv
<1>3. Inv /\ [RetentionNext]_allVars => [RepairIsOwn]_allVars
  BY <1>2
<1> QED
  BY <1>1, <1>2, <1>3, PTL DEF RetentionSpec

-------------------------------------------------------------------------------
\* What a repaired job serves.

\* The seal that a retry finds in the store, if there is one, is of the attempt whose
\* upload it retries.  The code does not look: that a seal is there is all it asks.
SealsAreOwn ==
  \A n \in Nodes :
    rt[n].pc = "rtprobe" /\ disk[n][RJ(n)].marker = rt[n].claim /\ rt[n].claim # NoClaim
      => blob[RJ(n)].seal \in {NoClaim, rt[n].claim}

\* What a sweep or DELETE does to the stored results.
BlobEffect ==
  /\ \A j \in Jobs :
       \/ blob'[j] = blob[j]
       \/ \E n \in Nodes :
            /\ RJ(n) = j
            /\ \/ rt[n].pc = "rtbody" /\ blob'[j] = [blob[j] EXCEPT !.body = Uploads(n)]
               \/ rt[n].pc = "rtseal" /\ blob'[j] = [blob[j] EXCEPT !.seal = Uploads(n)]
               \/ rt[n].pc \in {"rtundo", "exblob"}
       \/ del[j] = "blob"
  /\ \A n \in Nodes : disk[n][RJ(n)].stage # "empty" =>
       /\ rt[n].pc = "rtbody" /\ rt'[n].pc = "rtseal" => blob'[RJ(n)].body = Uploads(n)
       /\ rt[n].pc = "rtseal" /\ rt'[n].pc = "rtfix" => blob'[RJ(n)].seal = Uploads(n)
  /\ \A n \in Nodes :
       rt[n].pc = "rtprobe" /\ rt'[n].pc = "rtfix" => blob[RJ(n)].seal # NoClaim

LEMMA BlobEffects ==
  ASSUME TypeInv, RtInv, SweepStep
  PROVE  BlobEffect
<1>t. /\ rt \in [Nodes -> RetentionStates] /\ blob \in [Jobs -> Blobs]
      /\ \A n \in Nodes : rt[n].pc # "idle" => RJ(n) \in Jobs
  BY DEF RtInv, TypeInv, BlobInv
<1>o. ASSUME NEW n \in Nodes, NEW r, rt' = [rt EXCEPT ![n] = r]
      PROVE  rt'[n] = r /\ \A m \in Nodes : m # n => rt'[m] = rt[m]
  BY <1>o, <1>t
<1>g. ASSUME NEW n \in Nodes, NEW p, RGo(n, p)
      PROVE  rt'[n].pc = p /\ \A m \in Nodes : m # n => rt'[m] = rt[m]
  BY <1>g, <1>t DEF RGo, RetentionStates
<1>i. ASSUME NEW n \in Nodes, RIdle(n)
      PROVE  rt'[n].pc = "idle" /\ \A m \in Nodes : m # n => rt'[m] = rt[m]
  BY <1>i, <1>t, IdleTyped DEF RIdle
<1>1. ASSUME NEW n \in Nodes, RetryProbe(n) PROVE BlobEffect
  <2>1. rt[n].pc = "rtprobe" /\ blob' = blob
    BY <1>1 DEF RetryProbe, RAt
  <2>2. RGo(n, "rtbody") \/ (RGo(n, "rtfix") /\ blob[RJ(n)].seal # NoClaim)
    BY <1>1 DEF RetryProbe
  <2> QED
    BY <1>g, <2>1, <2>2 DEF BlobEffect
<1>2. ASSUME NEW n \in Nodes, RetryBody(n) PROVE BlobEffect
  <2>1. rt[n].pc = "rtbody" /\ RGo(n, "rtseal") /\ RJ(n) \in Jobs
    BY <1>2, <1>t DEF RetryBody, RAt
  <2>2. \/ disk[n][RJ(n)].stage = "empty" /\ blob' = blob
        \/ blob' = [blob EXCEPT ![RJ(n)] = [blob[RJ(n)] EXCEPT !.body = Uploads(n)]]
    BY <1>2 DEF RetryBody
  <2>3. /\ \A j \in Jobs : j # RJ(n) => blob'[j] = blob[j]
        /\ \/ disk[n][RJ(n)].stage = "empty" /\ blob'[RJ(n)] = blob[RJ(n)]
           \/ blob'[RJ(n)] = [blob[RJ(n)] EXCEPT !.body = Uploads(n)]
    BY <1>t, <2>1, <2>2
  <2>4. disk[n][RJ(n)].stage # "empty" => blob'[RJ(n)].body = Uploads(n)
    BY <1>t, <2>1, <2>3 DEF Blobs
  <2>5. rt'[n].pc = "rtseal" /\ \A m \in Nodes : m # n => rt'[m] = rt[m]
    BY <1>g, <2>1
  <2> QED
    BY <2>1, <2>3, <2>4, <2>5 DEF BlobEffect
<1>3. ASSUME NEW n \in Nodes, RetrySeal(n) PROVE BlobEffect
  <2>1. rt[n].pc = "rtseal" /\ RGo(n, "rtfix") /\ RJ(n) \in Jobs
    BY <1>3, <1>t DEF RetrySeal, RAt
  <2>2. \/ disk[n][RJ(n)].stage = "empty" /\ blob' = blob
        \/ blob' = [blob EXCEPT ![RJ(n)] = [blob[RJ(n)] EXCEPT !.seal = Uploads(n)]]
    BY <1>3 DEF RetrySeal
  <2>3. /\ \A j \in Jobs : j # RJ(n) => blob'[j] = blob[j]
        /\ \/ disk[n][RJ(n)].stage = "empty" /\ blob'[RJ(n)] = blob[RJ(n)]
           \/ blob'[RJ(n)] = [blob[RJ(n)] EXCEPT !.seal = Uploads(n)]
    BY <1>t, <2>1, <2>2
  <2>4. disk[n][RJ(n)].stage # "empty" => blob'[RJ(n)].seal = Uploads(n)
    BY <1>t, <2>1, <2>3 DEF Blobs
  <2>5. rt'[n].pc = "rtfix" /\ \A m \in Nodes : m # n => rt'[m] = rt[m]
    BY <1>g, <2>1
  <2> QED
    BY <2>1, <2>3, <2>4, <2>5 DEF BlobEffect
<1>4. ASSUME NEW n \in Nodes, RetentionStep(n), ~RetryProbe(n), ~RetryBody(n), ~RetrySeal(n)
      PROVE  BlobEffect
  <2>1. CASE RetryPutFails(n)
    <3>1. RIdle(n) /\ blob' = blob
      BY <2>1 DEF RetryPutFails
    <3> QED
      BY <1>i, <3>1 DEF BlobEffect
  <2>2. CASE RetryRead(n) \/ ScratchRead(n)
    <3>1. rt[n].pc \in {"rtread", "scread"} /\ blob' = blob
      BY <2>2 DEF RetryRead, ScratchRead, RAt
    <3>2. RIdle(n) \/ \E p, c, st : \/ rt' = [rt EXCEPT ![n].pc = p, ![n].claim = c]
                                    \/ rt' = [rt EXCEPT ![n].pc = p, ![n].status = st]
      BY <2>2 DEF RetryRead, ScratchRead
    <3>3. \A m \in Nodes : m # n => rt'[m] = rt[m]
      BY <1>i, <1>t, <3>2
    <3> QED
      BY <3>1, <3>3 DEF BlobEffect
  <2>3. CASE \/ RetryMarker(n) \/ RetryFix(n) \/ RetryFixRaises(n) \/ RetryAfter(n) \/ RetryClear(n)
             \/ ScratchJudge(n) \/ ScratchPurge(n) \/ ExpireRead(n) \/ ExpireReserve(n)
             \/ ExpireTree(n) \/ ExpireFinal(n) \/ ExpireRaises(n)
    <3>1. rt[n].pc \notin {"rtprobe", "rtbody", "rtseal"} /\ blob' = blob
      BY <2>3 DEF RetryMarker, RetryFix, RetryFixRaises, RetryAfter, RetryClear, ScratchJudge, ScratchPurge,
         ExpireRead, ExpireReserve, ExpireTree, ExpireFinal, ExpireRaises, RAt
    <3>2. RIdle(n) \/ \E p : RGo(n, p)
      BY <2>3 DEF RetryMarker, RetryFix, RetryFixRaises, RetryAfter, RetryClear, ScratchJudge, ScratchPurge,
         ExpireRead, ExpireReserve, ExpireTree, ExpireFinal, ExpireRaises
    <3>3. \A m \in Nodes : m # n => rt'[m] = rt[m]
      BY <1>g, <1>i, <3>2
    <3> QED
      BY <3>1, <3>3 DEF BlobEffect
  <2>4. CASE RetryUndo(n) \/ ExpireBlob(n) \/ ExpireBlobFails(n)
    <3>1. rt[n].pc \in {"rtundo", "exblob"} /\ (RIdle(n) \/ \E p : RGo(n, p))
      BY <2>4 DEF RetryUndo, ExpireBlob, ExpireBlobFails, RAt
    <3>2. blob' = blob \/ \E b : blob' = [blob EXCEPT ![RJ(n)] = b]
      BY <2>4 DEF RetryUndo, ExpireBlob, ExpireBlobFails
    <3>3. \A j \in Jobs : j # RJ(n) => blob'[j] = blob[j]
      BY <1>t, <3>2
    <3>4. \A m \in Nodes : m # n => rt'[m] = rt[m]
      BY <1>g, <1>i, <3>1
    <3> QED
      BY <3>1, <3>3, <3>4 DEF BlobEffect
  <2> QED
    BY <1>4, <2>1, <2>2, <2>3, <2>4 DEF RetentionStep
<1>5. ASSUME NEW n \in Nodes, NEW j \in Jobs, RetentionBegin(n, j) PROVE BlobEffect
  <2>1. rt[n].pc = "idle" /\ blob' = blob /\ \E r : rt' = [rt EXCEPT ![n] = r]
    BY <1>5 DEF RetentionBegin, RetryBegin, ScratchBegin, ExpireList, RBegin, RAt
  <2>2. \A m \in Nodes : m # n => rt'[m] = rt[m]
    BY <1>o, <2>1
  <2> QED
    BY <2>1, <2>2 DEF BlobEffect
<1>6. ASSUME NEW j \in Jobs, ExpiryPasses(j) \/ DeleteStep(j) PROVE BlobEffect
  <2>1. rt' = rt
    BY <1>6 DEF ExpiryPasses, DeleteStep, DeleteRead, DeleteTree, DeleteBlob, DeleteFails,
       DeleteRow, deleteRest, retVars
  <2>2. \/ blob' = blob
        \/ del[j] = "blob" /\ \E b : blob' = [blob EXCEPT ![j] = b]
    BY <1>6 DEF ExpiryPasses, DeleteStep, DeleteRead, DeleteTree, DeleteBlob, DeleteFails,
       DeleteRow, localVars
  <2>3. \A i \in Jobs : blob'[i] = blob[i] \/ del[i] = "blob"
    BY <1>t, <2>2
  <2> QED
    BY <2>1, <2>3 DEF BlobEffect
<1> QED
  BY <1>1, <1>2, <1>3, <1>4, <1>5, <1>6 DEF SweepStep

\* An upload is marked on the node that made it, and nowhere else.
MarkersApart ==
  /\ \A m, n \in Nodes, j \in Jobs :
       disk[m][j].marker = disk[n][j].marker /\ disk[m][j].marker # NoClaim => m = n
  /\ \A t \in Threads, n \in Nodes, j \in Jobs :
       th[t].pc # "idle" /\ disk[n][j].marker = C(t) => n = N(t)

\* Stored bytes are taken away only of rows that have expired, or gone.
Undone ==
  \A n \in Nodes : rt[n].pc \in {"extree", "exblob", "exfinal", "rtundo"} =>
    Over(RJ(n)) /\ row[RJ(n)].status \in {"expired", "absent"}

\* Nothing is sealed for a claim that is still to be issued ...
SealIssued == \A j \in Jobs : ~Over(j) => blob[j].seal <= issued

\* ... and a seal is stored after the artifacts it covers.
BodyFirst ==
  \A j \in Jobs :
    /\ row[j].status \in {"running", "failed"} /\ row[j].claim # NoClaim /\ del[j] = "no"
    /\ blob[j].seal = row[j].claim
    => blob[j].body = row[j].claim

\* What a retry has uploaded so far is stored.
RetryStored ==
  \A n \in Nodes :
    rt[n].pc \in {"rtseal", "rtfix"} /\ row[RJ(n)].status = "failed" /\ del[RJ(n)] = "no" =>
      /\ blob[RJ(n)].body = rt[n].claim
      /\ rt[n].pc = "rtfix" => blob[RJ(n)].seal = rt[n].claim

\* Once a job is DONE, no retry writes to its result any more.
LeftAlone ==
  \A n \in Nodes :
    /\ rt[n].pc \in {"rtmark", "rtprobe", "rtbody", "rtseal"}
    /\ row[RJ(n)].status = "done" /\ del[RJ(n)] = "no"
    => /\ rt[n].pc = "rtmark"
       /\ rt[n].claim # NoClaim => disk[n][RJ(n)].marker # rt[n].claim

StoredInv ==
  /\ MarkersApart /\ Undone /\ SealIssued /\ BodyFirst /\ RetryStored /\ LeftAlone /\ OwnBlob
  /\ RepairedServesItsResult

LEMMA StoredStarts == RetentionInit => StoredInv
<1> SUFFICES ASSUME RetentionInit PROVE StoredInv
  OBVIOUS
<1>1. /\ \A n \in Nodes : rt[n].pc = "idle"
      /\ \A t \in Threads : th[t].pc = "idle"
      /\ \A j \in Jobs : row[j].status = "absent" /\ blob[j].seal = NoClaim /\ row[j].claim = NoClaim
      /\ \A n \in Nodes, j \in Jobs : disk[n][j].marker = NoClaim
      /\ issued = 0
  BY IdleTyped DEF RetentionInit, Init, StoreInit, IdleThread, NoRow, NoBlob, NoTree
<1> QED
  BY <1>1 DEF StoredInv, MarkersApart, Undone, SealIssued, BodyFirst, RetryStored, LeftAlone,
     OwnBlob, RepairedServesItsResult, NoClaim

\* A thread marks under a claim that only it holds, and only where it works.
LEMMA MarkersThread ==
  ASSUME TypeInv, Owned, MarkInv, MarkersApart, NEW t \in Threads, ThreadActs(t), KeepActs(t)
  PROVE  MarkersApart'
<1>b. /\ issued \in Nat /\ \A n \in Nodes, j \in Jobs : disk[n][j].marker \in Nat
      /\ \A u \in Threads : N(u) \in Nodes /\ C(u) \in Nat /\ C(u) <= issued
                            /\ (th[u].pc # "idle" => C(u) # NoClaim)
  <2>1. \A n \in Nodes, j \in Jobs : disk[n][j].marker \in Nat
    BY DEF TypeInv, DiskInv, Trees, ClaimIds
  <2> QED
    BY <2>1, OwnedTypes DEF Owned, ClaimsIssued, C
<1>m. \A n \in Nodes, j \in Jobs :
        \/ disk'[n][j].marker \in {disk[n][j].marker, NoClaim}
        \/ n = N(t) /\ th[t].pc # "idle" /\ disk'[n][j].marker = C(t)
  BY DEF KeepActs, MarkerKeeps
<1>1. ASSUME NEW m \in Nodes, NEW n \in Nodes, NEW j \in Jobs,
             disk'[m][j].marker = disk'[n][j].marker, disk'[m][j].marker # NoClaim
      PROVE  m = n
  BY <1>1, <1>b, <1>m DEF MarkersApart
<1>2. ASSUME NEW u \in Threads, NEW n \in Nodes, NEW j \in Jobs, th'[u].pc # "idle",
             disk'[n][j].marker = th'[u].claim
      PROVE  n = N(u)
  <2>1. CASE u # t
    <3>1. (th'[u] = th[u] /\ C(u) # C(t)) \/ th[t].pc = "idle"
      BY <2>1, <1>b DEF ThreadActs, Acts, Owned, OwnClaim, C
    <3>2. th'[u] = th[u]
      BY <2>1 DEF ThreadActs, Acts
    <3> QED
      BY <1>2, <1>b, <1>m, <3>1, <3>2 DEF MarkersApart, C
  <2>2. CASE u = t /\ GoesOn(t)
    <3>1. th'[t].claim = C(t) /\ th[t].pc # "idle"
      BY <2>2 DEF GoesOn, Follows, C
    <3> QED
      BY <1>2, <1>b, <1>m, <2>2, <3>1 DEF MarkersApart
  <2>3. CASE u = t /\ Takes(t)
    <3>1. th'[t].claim = issued + 1 /\ th[t].pc = "idle"
      BY <2>3 DEF Takes
    <3>2. disk[n][j].marker <= issued
      BY DEF MarkInv
    <3> QED
      BY <1>2, <1>b, <1>m, <2>3, <3>1, <3>2 DEF NoClaim
  <2>4. CASE u = t /\ Ends(t)
    BY <1>2, <2>4 DEF Ends, IdleThread
  <2> QED
    BY <2>1, <2>2, <2>3, <2>4 DEF ThreadActs, Acts
<1> QED
  BY <1>1, <1>2 DEF MarkersApart, C, N

\* Whatever else happens, markers only go.
LEMMA MarkersGo ==
  ASSUME TypeInv, Owned, MarkersApart, ThreadsAside \/ th' = th,
         \A n \in Nodes, j \in Jobs : disk'[n][j].marker \in {disk[n][j].marker, NoClaim}
  PROVE  MarkersApart'
<1>1. \A t \in Threads : th'[t].pc # "idle" => th'[t] = th[t] /\ C(t) # NoClaim
  BY OwnedTypes DEF ThreadsAside, IdleThread, Owned, ClaimsIssued, C
<1> QED
  BY <1>1 DEF MarkersApart, C, N

\* A row that has expired, or gone, stays so.
GoneStays ==
  \A j \in Jobs : Over(j) /\ row[j].status \in {"expired", "absent"} =>
    row'[j].status \in {"expired", "absent"}

\* What a sweep finds and leaves: only a repair makes a row DONE.
Repairs(j) ==
  /\ row[j].status = "failed" /\ row'[j].claim = row[j].claim
  /\ \E n \in Nodes : rt[n].pc = "rtfix" /\ RJ(n) = j

LEMMA RowsDone ==
  ASSUME TypeInv, RowEffect
  PROVE  /\ GoneStays
         /\ \A j \in Jobs : row'[j].status = "done" =>
              \/ row[j].status = "done" /\ row'[j].claim = row[j].claim
              \/ Repairs(j)
<1>t. row \in [Jobs -> Rows]
  BY DEF TypeInv, RowInv
<1>1. CASE UNCHANGED storeVars
  BY <1>1 DEF storeVars, GoneStays
<1>2. ASSUME NEW i \in Jobs, NEW r \in Rows, row' = [row EXCEPT ![i] = r],
             \/ \E e \in Expiries : r = [row[i] EXCEPT !.expiry = e]
             \/ /\ row[i].status = "failed" /\ r.status = "done" /\ r.claim = row[i].claim
                /\ \E n \in Nodes : rt[n].pc = "rtfix" /\ RJ(n) = i
             \/ r.status = "expired"
             \/ r = NoRow
      PROVE  /\ GoneStays
             /\ \A j \in Jobs : row'[j].status = "done" =>
                  \/ row[j].status = "done" /\ row'[j].claim = row[j].claim
                  \/ Repairs(j)
  <2>1. row'[i] = r /\ \A j \in Jobs : j # i => row'[j] = row[j]
    BY <1>t, <1>2
  <2>2. CASE \E e \in Expiries : r = [row[i] EXCEPT !.expiry = e]
    <3>1. r.status = row[i].status /\ r.claim = row[i].claim
      BY <1>t, <2>2 DEF Rows
    <3> QED
      BY <2>1, <3>1 DEF GoneStays
  <2>3. NoRow.status = "absent"
    BY DEF NoRow
  <2> QED
    BY <1>2, <2>1, <2>2, <2>3 DEF GoneStays, Repairs
<1> QED
  BY <1>1, <1>2 DEF RowEffect

LEMMA RowsGone ==
  ASSUME TypeInv, AbsentInv, (\E t \in Threads : ThreadActs(t)) \/ AsideActs
  PROVE  GoneStays
<1>1. ASSUME NEW t \in Threads, ThreadActs(t) PROVE GoneStays
  BY <1>1 DEF ThreadActs, RowActs, SameRow, StopsRow, StillOurs, Matches, GoneStays
<1>2. ASSUME AsideActs PROVE GoneStays
  <2>1. submitted \in Nat /\ Jobs \subseteq Nat
    BY JobStoreAssumption DEF TypeInv, RowInv, Jobs
  <2> QED
    BY <1>2, <2>1 DEF AsideActs, RowAside, Sweeps, GoneStays, Over
<1> QED
  BY <1>1, <1>2

LEMMA UndoneBesideDispatcher ==
  ASSUME RtInv, Undone, OverStays, GoneStays, DispatcherStep
  PROVE  Undone'
<1>1. \A n \in Nodes : rt'[n].pc # "idle" => rt'[n] = rt[n]
  BY IdleTyped DEF DispatcherStep
<1>2. \A n \in Nodes : rt[n].pc # "idle" => RJ(n) \in Jobs
  BY DEF RtInv
<1> QED
  BY <1>1, <1>2 DEF Undone, OverStays, GoneStays, Over, RJ

LEMMA UndoneBesideSweeps ==
  ASSUME TypeInv, TypeInv', RtInv, AbsentInv, AbsentInv', Undone, OverStays, GoneStays,
         RtEffect
  PROVE  Undone'
<1>1. ASSUME NEW n \in Nodes, rt'[n].pc \in {"extree", "exblob", "exfinal", "rtundo"}
      PROVE  rt'[n].job <= submitted' /\ row'[rt'[n].job].status \in {"expired", "absent"}
  <2>1. rt'[n] = rt[n] \/ Proceeds(n)
    BY <1>1, IdleTyped DEF RtEffect, Begins
  <2>2. rt'[n].job = RJ(n) /\ RJ(n) \in Jobs
    BY <1>1, <2>1 DEF Proceeds, RtInv, RJ
  <2>3. CASE rt[n].pc \in {"extree", "exblob", "exfinal", "rtundo"}
    BY <2>2, <2>3 DEF Undone, OverStays, GoneStays
  <2>4. CASE rt[n].pc \notin {"extree", "exblob", "exfinal", "rtundo"}
    <3>1. row[RJ(n)].status = "expired" \/ row'[RJ(n)].status = "expired"
      BY <1>1, <2>1, <2>4 DEF Proceeds
    <3>2. submitted \in Nat /\ submitted' \in Nat /\ RJ(n) \in Nat
      BY <2>2, JobStoreAssumption DEF TypeInv, RowInv, Jobs
    <3>3. CASE row[RJ(n)].status = "expired"
      <4>1. Over(RJ(n))
        BY <2>2, <3>2, <3>3 DEF AbsentInv, Over, Terminal
      <4> QED
        BY <2>2, <3>3, <4>1 DEF OverStays, GoneStays
    <3>4. CASE row'[RJ(n)].status = "expired"
      BY <2>2, <3>2, <3>4 DEF AbsentInv
    <3> QED
      BY <2>2, <3>1, <3>3, <3>4
  <2> QED
    BY <2>3, <2>4
<1> QED
  BY <1>1 DEF Undone, Over, Terminal, RJ

\* What a step of the dispatcher does to rows and results that are over, and to the others.
DispatcherSpares ==
  /\ \A j \in Jobs : Over(j) => blob'[j] = blob[j]
  /\ \A j \in Jobs : row'[j].status = "done" /\ row[j].status = "done" =>
       /\ row'[j].claim = row[j].claim
       /\ \A n \in Nodes : disk'[n][j].marker \in {disk[n][j].marker, NoClaim}

\* The retry, beside the dispatcher: nothing of what it has in hand changes.
LEMMA RetriesBesideDispatcher ==
  ASSUME TypeInv, RtInv, AbsentInv, SweepInv, OverStays, RetryStored, LeftAlone,
         DispatcherStep, DispatcherSpares,
         \A j \in Jobs : Over(j) /\ row'[j].status = "done" => row[j].status = "done"
  PROVE  RetryStored' /\ LeftAlone'
<1>1. /\ \A n \in Nodes : rt'[n].pc # "idle" => rt'[n] = rt[n] /\ RJ(n) \in Jobs
      /\ del' = del
  BY IdleTyped DEF DispatcherStep, RtInv
<1>2. ASSUME NEW n \in Nodes, rt[n].pc \in {"rtseal", "rtfix"}, rt'[n] = rt[n],
             row'[RJ(n)].status = "failed", del[RJ(n)] = "no"
      PROVE  /\ blob'[RJ(n)].body = rt[n].claim
             /\ rt[n].pc = "rtfix" => blob'[RJ(n)].seal = rt[n].claim
  <2>1. RJ(n) \in Jobs /\ Over(RJ(n))
    BY <1>1, <1>2 DEF SweepInv, RetryInv
  <2> QED
    BY <1>2, <2>1 DEF OverStays, DispatcherSpares, RetryStored
<1>3. ASSUME NEW n \in Nodes, rt[n].pc \in {"rtmark", "rtprobe", "rtbody", "rtseal"}, rt'[n] = rt[n],
             row'[RJ(n)].status = "done", del[RJ(n)] = "no"
      PROVE  /\ rt[n].pc = "rtmark"
             /\ rt[n].claim # NoClaim => disk'[n][RJ(n)].marker # rt[n].claim
  <2>1. RJ(n) \in Jobs /\ Over(RJ(n))
    BY <1>1, <1>3 DEF SweepInv, RetryInv
  <2>2. row[RJ(n)].status = "done"
    BY <1>3, <2>1
  <2> QED
    BY <1>3, <2>1, <2>2 DEF DispatcherSpares, LeftAlone
<1>4. RetryStored'
  BY <1>1, <1>2 DEF RetryStored, RJ
<1>5. LeftAlone'
  BY <1>1, <1>3 DEF LeftAlone, RJ
<1> QED
  BY <1>4, <1>5

LEMMA StoredThread ==
  ASSUME TypeInv, AbsentInv, Owned, Paths, OwnBoxGone, Keeping, OverStays,
         SealIssued, BodyFirst, OwnBlob, RepairedServesItsResult,
         NEW t \in Threads, ThreadActs(t), KeepActs(t), del' = del
  PROVE  /\ SealIssued' /\ BodyFirst' /\ OwnBlob' /\ RepairedServesItsResult'
         /\ DispatcherSpares
         /\ \A j \in Jobs : Over(j) /\ row'[j].status = "done" => row[j].status = "done"
<1>b. /\ issued \in Nat /\ submitted \in Nat /\ issued <= issued' /\ issued' \in Nat
      /\ C(t) \in Nat /\ C(t) <= issued /\ \A j \in Jobs : blob[j].seal \in Nat /\ j \in Nat
  <2>1. issued' = issued \/ issued' = issued + 1
    BY DEF ThreadActs, RowActs, Takes
  <2>2. submitted \in Nat /\ \A j \in Jobs : blob[j].seal \in Nat /\ j \in Nat
    BY JobStoreAssumption DEF TypeInv, RowInv, BlobInv, Blobs, ClaimIds, Jobs
  <2> QED
    BY <2>1, <2>2, OwnedTypes DEF Owned, ClaimsIssued, C
<1>w. th[t].pc \in Working =>
        row[J(t)].status = "running" /\ row[J(t)].claim = C(t) /\ J(t) \in Jobs /\ C(t) # NoClaim
  BY AtWork DEF Working
<1>s. th[t].pc \in {"body", "putseal"} => Tree(t).by = C(t) /\ Tree(t).stage # "empty"
  BY DEF Keeping, WorkTree, SealedPcs, SealedFor, Tree, J, N
<1>r. \A j \in Jobs :
        \/ row'[j].status = row[j].status /\ row'[j].claim = row[j].claim
        \/ /\ Takes(t) /\ j = th'[t].job /\ row[j].status = "queued"
           /\ row'[j].status = "running" /\ row'[j].claim = issued + 1
        \/ /\ j = J(t) /\ row[j].status = "running" /\ row[j].claim = C(t)
           /\ \/ row'[j].status = "queued"
              \/ row'[j].status = "failed" /\ row'[j].claim = C(t)
              \/ row'[j].status = "done" /\ row'[j].claim = C(t) /\ th[t].pc = "commit"
  BY DEF ThreadActs, RowActs, SameRow, StopsRow, StillOurs, Matches, Takes
<1>c. \A j \in Jobs :
        \/ blob'[j] = blob[j]
        \/ /\ j = J(t) /\ row[j].status = "running" /\ row[j].claim = C(t) /\ C(t) # NoClaim
           /\ \/ th[t].pc = "body" /\ blob'[j].seal = blob[j].seal /\ blob'[j].body = C(t)
              \/ th[t].pc = "putseal" /\ blob'[j].seal = C(t) /\ blob'[j].body = C(t)
              \/ th[t].pc = "reap" /\ blob'[j].seal = NoClaim
  <2>1. NoBlob.seal = NoClaim
    BY DEF NoBlob
  <2> QED
    BY <1>w, <1>s, <2>1 DEF ThreadActs, BlobActs, Working, OwnBlob
<1>1. \A j \in Jobs : Over(j) => blob'[j] = blob[j]
  BY <1>c DEF Over, Terminal
<1>2. SealIssued'
  <2>1. ASSUME NEW j \in Jobs, ~(j <= submitted' /\ row'[j].status \in Terminal \cup {"absent"})
        PROVE  blob'[j].seal <= issued'
    <3>1. ~Over(j)
      BY <2>1 DEF OverStays
    <3>2. blob[j].seal <= issued
      BY <3>1 DEF SealIssued
    <3>3. blob'[j].seal \in {blob[j].seal, C(t), NoClaim}
      BY <1>c
    <3> QED
      BY <1>b, <3>2, <3>3 DEF NoClaim
  <2> QED
    BY <2>1 DEF SealIssued, Over
<1>3. BodyFirst'
  <2>1. ASSUME NEW j \in Jobs, row'[j].status \in {"running", "failed"}, row'[j].claim # NoClaim,
               del[j] = "no", blob'[j].seal = row'[j].claim
        PROVE  blob'[j].body = row'[j].claim
    <3>1. CASE Takes(t) /\ j = th'[t].job /\ row[j].status = "queued" /\ row'[j].claim = issued + 1
      <4>1. blob'[j] = blob[j] /\ ~Over(j)
        BY <1>c, <3>1 DEF Over, Terminal
      <4> QED
        BY <1>b, <2>1, <3>1, <4>1 DEF SealIssued
    <3>2. CASE row[j].status \in {"running", "failed"} /\ row'[j].claim = row[j].claim
      BY <1>c, <2>1, <3>2 DEF BodyFirst
    <3> QED
      BY <1>r, <2>1, <3>1, <3>2
  <2> QED
    BY <2>1 DEF BodyFirst
<1>4. OwnBlob'
  <2>1. OwnTree
    BY DEF Keeping, WorkTree, SealedPcs, SealedFor, OwnTree, Tree, J, N
  <2> QED
    BY <2>1, ResultThread
<1>5. RepairedServesItsResult'
  <2>1. ASSUME NEW j \in Jobs, row'[j].status = "done", del[j] = "no"
        PROVE  blob'[j].body = row'[j].claim /\ blob'[j].seal = row'[j].claim
    <3>1. CASE row[j].status = "done" /\ row'[j].claim = row[j].claim
      BY <1>c, <2>1, <3>1 DEF RepairedServesItsResult
    <3>2. CASE j = J(t) /\ row'[j].claim = C(t) /\ th[t].pc = "commit"
      BY <1>c, <3>2 DEF OwnBlob
    <3> QED
      BY <1>r, <2>1, <3>1, <3>2
  <2> QED
    BY <2>1 DEF RepairedServesItsResult
<1>6. \A j \in Jobs : Over(j) /\ row'[j].status = "done" => row[j].status = "done"
  BY <1>r DEF Over, Terminal
<1>7. \A j \in Jobs : row[j].status = "done" =>
        \A n \in Nodes : disk'[n][j].marker \in {disk[n][j].marker, NoClaim}
  BY <1>w DEF KeepActs, MarkerKeeps, Working
<1> QED
  BY <1>1, <1>2, <1>3, <1>4, <1>5, <1>6, <1>7, <1>r DEF DispatcherSpares

LEMMA StoredAside ==
  ASSUME TypeInv, AbsentInv, Owned, Paths, OwnBoxGone, Keeping, OverStays,
         SealIssued, BodyFirst, OwnBlob, RepairedServesItsResult,
         AsideActs, KeepAside, del' = del
  PROVE  /\ SealIssued' /\ BodyFirst' /\ OwnBlob' /\ RepairedServesItsResult'
         /\ DispatcherSpares
         /\ \A j \in Jobs : Over(j) /\ row'[j].status = "done" => row[j].status = "done"
<1>1. blob' = blob /\ issued' = issued
  BY DEF AsideActs, RowAside
<1>r. \A j \in Jobs :
        \/ row'[j].status = row[j].status /\ row'[j].claim = row[j].claim
        \/ row'[j].status \in {"queued", "failed"} /\ row'[j].claim = NoClaim
        \/ row[j].status = "running" /\ row'[j].status = "failed" /\ row'[j].claim = row[j].claim
  BY DEF AsideActs, RowAside, Sweeps, Owned, RowsFree
<1>2. SealIssued'
  BY <1>1 DEF SealIssued, OverStays, Over
<1>3. BodyFirst'
  BY <1>1, <1>r DEF BodyFirst
<1>4. OwnBlob'
  <2>1. OwnTree
    BY DEF Keeping, WorkTree, SealedPcs, SealedFor, OwnTree, Tree, J, N
  <2> QED
    BY <2>1, ResultAside
<1>5. RepairedServesItsResult'
  BY <1>1, <1>r DEF RepairedServesItsResult
<1>6. \A n \in Nodes, j \in Jobs : disk'[n][j].marker \in {disk[n][j].marker, NoClaim}
  BY DEF KeepAside
<1> QED
  BY <1>1, <1>2, <1>3, <1>4, <1>5, <1>6, <1>r DEF DispatcherSpares

\* Beside the sweeps and DELETE.  A failed job that nobody asked to delete has its bytes
\* written only by the retry that holds the tree of its claim ...
LEMMA RetryWrites ==
  ASSUME TypeInv, RtInv, SweepInv, MarkInv, HeldMark, Undone, BlobEffect,
         NEW j \in Jobs, row[j].status = "failed", del[j] = "no"
  PROVE  /\ blob'[j].body \in {blob[j].body, row[j].claim}
         /\ blob'[j].seal = blob[j].seal
            \/ /\ blob'[j].seal = row[j].claim /\ blob'[j].body = blob[j].body
               /\ \E n \in Nodes : rt[n].pc = "rtseal" /\ RJ(n) = j
<1>1. ASSUME NEW n \in Nodes, RJ(n) = j, rt[n].pc \in {"rtbody", "rtseal"}
      PROVE  Uploads(n) = row[j].claim
  <2>1. row[j].claim = rt[n].claim /\ rt[n].claim # NoClaim /\ disk[n][j].marker = rt[n].claim
    BY <1>1 DEF SweepInv, RetryInv, HeldMark
  <2> QED
    BY <1>1, <2>1 DEF MarkInv, MarkedTree, Marked, SealedFor, Uploads
<1>2. blob[j] \in Blobs
  BY DEF TypeInv, BlobInv
<1>3. ASSUME NEW n \in Nodes, RJ(n) = j PROVE rt[n].pc \notin {"rtundo", "exblob"}
  BY <1>3 DEF Undone
<1> QED
  BY <1>1, <1>2, <1>3 DEF BlobEffect, Blobs

\* ... and a job that is not over, or is DONE, by none.
LEMMA SweepsSpareBlobs ==
  ASSUME TypeInv, RtInv, SweepInv, Undone, LeftAlone, BlobEffect, NEW j \in Jobs,
         ~Over(j) \/ (row[j].status = "done" /\ del[j] = "no")
  PROVE  blob'[j] = blob[j]
<1>1. CASE ~Over(j)
  BY <1>1 DEF BlobEffect, SweepInv, RetryInv, DeleteInv, Undone
<1>2. CASE row[j].status = "done" /\ del[j] = "no"
  BY <1>2 DEF BlobEffect, LeftAlone, Undone
<1> QED
  BY <1>1, <1>2

\* The retry that repairs a job is the only one that holds a tree marked for it.
LEMMA OnlyOneRepairs ==
  ASSUME TypeInv, RtInv, SweepInv, HeldMark, MarkersApart, NEW j \in Jobs, Repairs(j), del[j] = "no",
         NEW n \in Nodes, RJ(n) = j, rt[n].pc \in {"rtmark", "rtprobe", "rtbody", "rtseal"}
  PROVE  /\ rt[n].pc = "rtmark" /\ rt[n].claim = row[j].claim
         /\ disk[n][j].marker # rt[n].claim
<1>1. PICK m \in Nodes : rt[m].pc = "rtfix" /\ RJ(m) = j
  BY DEF Repairs
<1>2. /\ row[j].status = "failed" /\ row[j].claim = rt[m].claim /\ rt[m].claim # NoClaim
      /\ row[j].claim = rt[n].claim /\ disk[m][j].marker = rt[m].claim
  BY <1>1 DEF Repairs, SweepInv, RetryInv, HeldMark
<1>3. m # n
  BY <1>1
<1>4. disk[n][j].marker # rt[n].claim
  BY <1>2, <1>3 DEF MarkersApart
<1> QED
  BY <1>2, <1>4 DEF HeldMark

\* Sweeps and DELETE leave markers alone or take them away.
LEMMA SweepsUnmark ==
  ASSUME TypeInv, DiskEffect
  PROVE  \A n \in Nodes, j \in Jobs : disk'[n][j].marker \in {disk[n][j].marker, NoClaim}
<1>1. NoTree.marker = NoClaim
  BY DEF NoTree
<1>2. \A n \in Nodes, j \in Jobs : [disk[n][j] EXCEPT !.marker = NoClaim].marker = NoClaim
  BY DEF TypeInv, DiskInv, Trees
<1> QED
  BY <1>1, <1>2 DEF DiskEffect

LEMMA RetriesBesideSweeps ==
  ASSUME TypeInv, RtInv, SweepInv, MarkInv, HeldMark, OverStays, MarkersApart, Undone, BodyFirst,
         RetryStored, LeftAlone, SealsAreOwn, RtEffect, RowEffect, DiskEffect, DelEffect, BlobEffect
  PROVE  RetryStored' /\ LeftAlone'
<1>d. \A j \in Jobs : del'[j] = "no" => del[j] = "no"
  BY DEF DelEffect
<1>1. ASSUME NEW n \in Nodes, rt'[n].pc \in {"rtseal", "rtfix"},
             row'[rt'[n].job].status = "failed", del'[rt'[n].job] = "no"
      PROVE  /\ blob'[rt'[n].job].body = rt'[n].claim
             /\ rt'[n].pc = "rtfix" => blob'[rt'[n].job].seal = rt'[n].claim
  <2>1. \/ rt'[n] = rt[n]
        \/ /\ Proceeds(n) /\ rt'[n].claim = rt[n].claim
           /\ \/ rt[n].pc = "rtprobe" /\ rt'[n].pc = "rtfix"
              \/ rt[n].pc = "rtbody" /\ rt'[n].pc = "rtseal"
              \/ rt[n].pc = "rtseal" /\ rt'[n].pc = "rtfix"
    BY <1>1, IdleTyped DEF RtEffect, Begins, Proceeds
  <2>2. /\ rt'[n].job = RJ(n) /\ rt'[n].claim = rt[n].claim /\ RJ(n) \in Jobs
        /\ rt[n].pc \in {"rtprobe", "rtbody", "rtseal", "rtfix"}
    BY <1>1, <2>1 DEF Proceeds, RJ, RtInv
  <2>3. Over(RJ(n))
    BY <2>2 DEF SweepInv, RetryInv
  <2>4. row[RJ(n)].status = "failed" /\ del[RJ(n)] = "no"
    BY <1>1, <1>d, <2>2, <2>3 DEF OverStays
  <2>5. row[RJ(n)].claim = rt[n].claim
    BY <2>2, <2>4 DEF SweepInv, RetryInv
  <2>6. /\ blob'[RJ(n)].body \in {blob[RJ(n)].body, rt[n].claim}
        /\ blob'[RJ(n)].seal \in {blob[RJ(n)].seal, rt[n].claim}
    BY <2>2, <2>4, <2>5, RetryWrites
  <2>7. CASE rt'[n] = rt[n]
    BY <1>1, <2>2, <2>4, <2>6, <2>7 DEF RetryStored
  <2>8. CASE rt[n].pc = "rtprobe" /\ rt'[n].pc = "rtfix"
    <3>0. rt[n].claim # NoClaim /\ disk[n][RJ(n)].marker = rt[n].claim
      BY <2>4, <2>8 DEF SweepInv, RetryInv, HeldMark
    <3>1. blob[RJ(n)].seal = rt[n].claim
      BY <2>8, <3>0 DEF BlobEffect, SealsAreOwn
    <3>2. blob[RJ(n)].body = rt[n].claim
      BY <2>2, <2>4, <2>5, <3>0, <3>1 DEF BodyFirst
    <3> QED
      BY <2>2, <2>6, <3>1, <3>2
  <2>9. CASE rt[n].pc \in {"rtbody", "rtseal"} /\ rt'[n].pc # rt[n].pc
    <3>1. rt[n].claim # NoClaim /\ disk[n][RJ(n)].marker = rt[n].claim
      BY <2>2, <2>4, <2>9 DEF SweepInv, RetryInv, HeldMark
    <3>2. SealedFor(n, RJ(n), rt[n].claim)
      BY <2>2, <2>4, <2>5, <3>1 DEF MarkInv, MarkedTree, Marked
    <3>3. Uploads(n) = rt[n].claim /\ disk[n][RJ(n)].stage # "empty"
      BY <3>2 DEF SealedFor, Uploads
    <3>4. rt[n].pc = "rtseal" => blob[RJ(n)].body = rt[n].claim
      BY <2>4 DEF RetryStored
    <3> QED
      BY <1>1, <2>1, <2>2, <2>6, <2>9, <3>3, <3>4 DEF BlobEffect
  <2> QED
    BY <2>1, <2>7, <2>8, <2>9
<1>2. ASSUME NEW n \in Nodes, rt'[n].pc \in {"rtmark", "rtprobe", "rtbody", "rtseal"},
             row'[rt'[n].job].status = "done", del'[rt'[n].job] = "no"
      PROVE  /\ rt'[n].pc = "rtmark"
             /\ rt'[n].claim # NoClaim => disk'[n][rt'[n].job].marker # rt'[n].claim
  <2>1. \/ rt'[n] = rt[n]
        \/ /\ Proceeds(n)
           /\ \/ rt[n].pc = "rtprobe" /\ rt'[n].pc = "rtbody"
              \/ rt[n].pc = "rtmark" /\ rt'[n].pc = "rtprobe"
                 /\ disk[n][RJ(n)].marker = rt[n].claim /\ rt[n].claim # NoClaim
              \/ rt[n].pc = "rtbody" /\ rt'[n].pc = "rtseal"
              \/ rt[n].pc = "rtread" /\ rt'[n].pc = "rtmark" /\ row[RJ(n)].status = "failed"
                 /\ rt'[n].claim = row[RJ(n)].claim
    BY <1>2, IdleTyped DEF RtEffect, Begins, Proceeds
  <2>2. /\ rt'[n].job = RJ(n) /\ RJ(n) \in Jobs
        /\ rt[n].pc \in {"rtread", "rtmark", "rtprobe", "rtbody", "rtseal"}
    BY <1>2, <2>1 DEF Proceeds, RJ, RtInv
  <2>3. del[RJ(n)] = "no"
    BY <1>2, <1>d, <2>2
  <2>4. disk'[n][RJ(n)].marker \in {disk[n][RJ(n)].marker, NoClaim}
    BY <2>2, SweepsUnmark
  <2>5. CASE row[RJ(n)].status = "done"
    BY <1>2, <2>1, <2>2, <2>3, <2>4, <2>5 DEF LeftAlone
  <2>6. CASE Repairs(RJ(n))
    <3>1. PICK m \in Nodes : rt[m].pc = "rtfix" /\ RJ(m) = RJ(n)
      BY <2>6 DEF Repairs
    <3>2. /\ row[RJ(n)].claim # NoClaim /\ disk[m][RJ(n)].marker = row[RJ(n)].claim /\ m # n
      BY <2>2, <2>3, <2>6, <3>1 DEF Repairs, SweepInv, RetryInv, HeldMark
    <3>3. disk[n][RJ(n)].marker # row[RJ(n)].claim
      BY <2>2, <3>2 DEF MarkersApart
    <3>4. rt[n].pc # "rtread" =>
            rt[n].pc = "rtmark" /\ rt[n].claim = row[RJ(n)].claim
      BY <2>2, <2>3, <2>6, OnlyOneRepairs
    <3> QED
      BY <1>2, <2>1, <2>2, <2>4, <3>2, <3>3, <3>4
  <2> QED
    BY <1>2, <2>2, <2>5, <2>6, RowsDone
<1>3. RetryStored'
  BY <1>1 DEF RetryStored, RJ
<1>4. LeftAlone'
  BY <1>2 DEF LeftAlone, RJ
<1> QED
  BY <1>3, <1>4

LEMMA StoredBesideSweeps ==
  ASSUME TypeInv, RtInv, AbsentInv, SweepInv, Owned, MarkInv, HeldMark, OverStays, SweepSpares,
         StoredInv, SealsAreOwn, RtEffect, RowEffect, DiskEffect, DelEffect, BlobEffect,
         UNCHANGED <<th, mt, box, permits, orphans, upfail, crashes>>
  PROVE  SealIssued' /\ BodyFirst' /\ OwnBlob' /\ RepairedServesItsResult'
<1> USE DEF StoredInv
<1>d. \A j \in Jobs : del'[j] = "no" => del[j] = "no"
  BY DEF DelEffect
<1>1. SealIssued'
  <2>1. ASSUME NEW j \in Jobs, ~(j <= submitted' /\ row'[j].status \in Terminal \cup {"absent"})
        PROVE  blob'[j].seal <= issued'
    <3>1. ~Over(j)
      BY <2>1 DEF OverStays
    <3> QED
      BY <3>1, SweepsSpareBlobs DEF SealIssued, SweepSpares
  <2> QED
    BY <2>1 DEF SealIssued, Over
<1>2. BodyFirst'
  <2>1. ASSUME NEW j \in Jobs, row'[j].status \in {"running", "failed"}, row'[j].claim # NoClaim,
               del'[j] = "no", blob'[j].seal = row'[j].claim
        PROVE  blob'[j].body = row'[j].claim
    <3>1. row[j].status \in {"running", "failed"} /\ row'[j].claim = row[j].claim /\ del[j] = "no"
      BY <1>d, <2>1 DEF SweepSpares, OverStays, SameRow
    <3>2. CASE row[j].status = "running"
      <4>1. blob'[j] = blob[j]
        BY <3>2, SweepsSpareBlobs DEF Over, Terminal
      <4> QED
        BY <2>1, <3>1, <4>1 DEF BodyFirst
    <3>3. CASE row[j].status = "failed"
      <4>1. /\ blob'[j].body \in {blob[j].body, row[j].claim}
            /\ blob'[j].seal = blob[j].seal
               \/ /\ blob'[j].seal = row[j].claim /\ blob'[j].body = blob[j].body
                  /\ \E n \in Nodes : rt[n].pc = "rtseal" /\ RJ(n) = j
        BY <3>1, <3>3, RetryWrites
      <4>2. \A n \in Nodes : rt[n].pc = "rtseal" /\ RJ(n) = j => blob[j].body = row[j].claim
        BY <3>1, <3>3 DEF RetryStored, SweepInv, RetryInv
      <4> QED
        BY <2>1, <3>1, <3>3, <4>1, <4>2 DEF BodyFirst
    <3> QED
      BY <3>1, <3>2, <3>3
  <2> QED
    BY <2>1 DEF BodyFirst
<1>3. OwnBlob'
  <2>1. ASSUME NEW t \in Threads, th[t].pc \in {"putseal", "commit"}
        PROVE  blob'[J(t)] = blob[J(t)]
    <3>1. row[J(t)].status = "running" /\ J(t) \in Jobs
      BY <2>1, AtWork DEF Working
    <3> QED
      BY <3>1, SweepsSpareBlobs DEF Over, Terminal
  <2> QED
    BY <2>1 DEF OwnBlob, J, C
<1>4. RepairedServesItsResult'
  <2>1. ASSUME NEW j \in Jobs, row'[j].status = "done", del'[j] = "no"
        PROVE  blob'[j].body = row'[j].claim /\ blob'[j].seal = row'[j].claim
    <3>1. del[j] = "no"
      BY <1>d, <2>1
    <3>2. CASE row[j].status = "done" /\ row'[j].claim = row[j].claim
      BY <3>1, <3>2, SweepsSpareBlobs DEF RepairedServesItsResult
    <3>3. CASE Repairs(j)
      <4>1. PICK n \in Nodes : rt[n].pc = "rtfix" /\ RJ(n) = j
        BY <3>3 DEF Repairs
      <4>2. row[j].status = "failed" /\ row'[j].claim = row[j].claim /\ row[j].claim = rt[n].claim
        BY <3>3, <4>1 DEF Repairs, SweepInv, RetryInv
      <4>3. blob[j].body = row[j].claim /\ blob[j].seal = row[j].claim
        BY <3>1, <4>1, <4>2 DEF RetryStored
      <4> QED
        BY <3>1, <4>2, <4>3, RetryWrites
    <3> QED
      BY <2>1, <3>2, <3>3, RowsDone
  <2> QED
    BY <2>1 DEF RepairedServesItsResult
<1> QED
  BY <1>1, <1>2, <1>3, <1>4

LEMMA StoredNext ==
  ASSUME SlowOwners = FALSE, StoreFaults = FALSE, CopiesInv, CopiesInv', MarkInv, HeldMark, StoredInv,
         SealsAreOwn, [RetentionNext]_allVars
  PROVE  StoredInv'
<1> USE DEF CopiesInv, StoredInv
<1>1. OverStays
  BY RetentionSteps, NextEffect, RowEffects, OversStay DEF DispatcherStep, SweepInv
<1>2. CASE DispatcherStep
  <2>1. Moves \/ Stands
    BY <1>2, KeepSteps DEF DispatcherStep
  <2>2. del' = del
    BY <1>2 DEF DispatcherStep
  <2>3. GoneStays
    BY <2>1, RowsGone DEF Moves, Stands
  <2>4. Undone'
    BY <1>1, <1>2, <2>3, UndoneBesideDispatcher
  <2>5. MarkersApart'
    <3>1. ASSUME NEW t \in Threads, ThreadActs(t), KeepActs(t) PROVE MarkersApart'
      BY <3>1, MarkersThread
    <3>2. ASSUME Stands PROVE MarkersApart'
      BY <3>2, MarkersGo DEF Stands, AsideActs, KeepAside
    <3> QED
      BY <2>1, <3>1, <3>2 DEF Moves
  <2>6. /\ SealIssued' /\ BodyFirst' /\ OwnBlob' /\ RepairedServesItsResult'
        /\ DispatcherSpares
        /\ \A j \in Jobs : Over(j) /\ row'[j].status = "done" => row[j].status = "done"
    <3>1. ASSUME NEW t \in Threads, ThreadActs(t), KeepActs(t)
          PROVE  /\ SealIssued' /\ BodyFirst' /\ OwnBlob' /\ RepairedServesItsResult'
                 /\ DispatcherSpares
                 /\ \A j \in Jobs : Over(j) /\ row'[j].status = "done" => row[j].status = "done"
      BY <1>1, <2>2, <3>1, StoredThread
    <3>2. CASE Stands
      BY <1>1, <2>2, <3>2, StoredAside DEF Stands
    <3> QED
      BY <2>1, <3>1, <3>2 DEF Moves
  <2>7. RetryStored' /\ LeftAlone'
    BY <1>1, <1>2, <2>6, RetriesBesideDispatcher
  <2> QED
    BY <2>4, <2>5, <2>6, <2>7
<1>3. CASE SweepStep
  <2>1. RtEffect /\ RowEffect /\ DiskEffect /\ DelEffect /\ BlobEffect
    BY <1>3, RtEffects, RowEffects, DiskEffects, DelEffects, BlobEffects
  <2>2. UNCHANGED <<th, mt, box, permits, orphans, upfail, crashes>> /\ SweepSpares
    BY <1>3, <2>1, SweepsLeave, Spares
  <2>3. GoneStays
    BY <2>1, RowsDone
  <2>4. Undone'
    BY <1>1, <2>1, <2>3, UndoneBesideSweeps
  <2>5. \A n \in Nodes, j \in Jobs : disk'[n][j].marker \in {disk[n][j].marker, NoClaim}
    BY <2>1, SweepsUnmark
  <2>6. MarkersApart'
    BY <2>2, <2>5, MarkersGo
  <2>7. RetryStored' /\ LeftAlone'
    BY <1>1, <2>1, RetriesBesideSweeps
  <2>8. SealIssued' /\ BodyFirst' /\ OwnBlob' /\ RepairedServesItsResult'
    BY <1>1, <2>1, <2>2, StoredBesideSweeps
  <2> QED
    BY <2>4, <2>6, <2>7, <2>8
<1> QED
  BY <1>2, <1>3, RetentionSteps

\* Whether its dispatcher committed it (_upload_output, then the DONE write) or the upload
\* retry repaired it (_retry_pending_one), and whatever the expiry, the withdrawal of a late
\* upload, crashes and the other nodes do, a DONE job that nobody asked to delete serves the
\* artifacts and the seal of the attempt on its row -- provided that the seal a retry finds
\* and trusts is its own attempt's.  That proviso is what the run on stale seals shows to be
\* needed, and the theorem that it is all that is: with prompt owners and a store that
\* answers, nothing else can make a DONE job serve another attempt's bytes.
THEOREM RepairedServesItsOwn ==
  SlowOwners = FALSE /\ StoreFaults = FALSE =>
    (RetentionSpec /\ []SealsAreOwn => []RepairedServesItsResult)
<1> SUFFICES ASSUME SlowOwners = FALSE, StoreFaults = FALSE
             PROVE  RetentionSpec /\ []SealsAreOwn => []RepairedServesItsResult
  OBVIOUS
<1> DEFINE Inv == CopiesInv /\ MarkInv /\ HeldMark /\ StoredInv
<1>1. RetentionInit => Inv
  <2> SUFFICES ASSUME RetentionInit PROVE Inv
    OBVIOUS
  <2>1. CopiesInv /\ StoredInv
    BY CopiesStart, StoredStarts
  <2>2. MarkInv
    BY DEF RetentionInit, Init, StoreInit, NoRow, NoTree, MarkInv, MarkedTree, Marked, NoClaim
  <2>3. HeldMark
    BY IdleTyped DEF RetentionInit, HeldMark
  <2> QED
    BY <2>1, <2>2, <2>3
<1>2. Inv /\ SealsAreOwn /\ [RetentionNext]_allVars => Inv'
  <2> SUFFICES ASSUME Inv, SealsAreOwn, [RetentionNext]_allVars PROVE Inv'
    OBVIOUS
  <2>1. CopiesInv'
    BY CopiesNext
  <2>2. MarkInv' /\ HeldMark'
    BY RepairsNext
  <2>3. StoredInv'
    BY <2>1, StoredNext
  <2> QED
    BY <2>1, <2>2, <2>3
<1>3. Inv => RepairedServesItsResult
  BY DEF StoredInv
<1> HIDE DEF Inv
<1> QED
  BY <1>1, <1>2, <1>3, PTL DEF RetentionSpec

-------------------------------------------------------------------------------
\* What an expired row leaves behind.

\* A step of the dispatcher ends a job only with a fresh expiry, and touches the expiry of no
\* row that is over.
Dated(j, r) ==
  r.status \in Terminal =>
    \/ r.status = row[j].status /\ r.expiry = row[j].expiry
    \/ r.status \in {"done", "failed"} /\ r.expiry = ExpiresAt

LEMMA WrittenDated ==
  ASSUME NEW j \in Jobs, row[j] \in Rows, NEW b \in BOOLEAN, NEW a \in 1..MaxAttempts
  PROVE  /\ Dated(j, Failed(row[j], b)) /\ Dated(j, Done(row[j]))
         /\ Dated(j, Requeued(row[j], b)) /\ Dated(j, FetchFailed(row[j], a))
<1>1. Dated(j, Failed(row[j], b)) /\ Dated(j, Done(row[j])) /\ Dated(j, Requeued(row[j], b))
  BY DEF Dated, Failed, Done, Requeued, Rows, Terminal
<1>2. CASE a >= MaxAttempts
  <2> DEFINE f == Failed(row[j], FALSE)
  <2>1. f.status = "failed" /\ f.expiry = ExpiresAt /\ DOMAIN f = DOMAIN row[j]
    BY DEF Failed, Rows
  <2>2. FetchFailed(row[j], a) = [f EXCEPT !.attempts = a]
    BY <1>2 DEF FetchFailed
  <2>3. [f EXCEPT !.attempts = a].status = "failed" /\ [f EXCEPT !.attempts = a].expiry = ExpiresAt
    BY DEF Failed, Rows
  <2>4. FetchFailed(row[j], a).status = "failed" /\ FetchFailed(row[j], a).expiry = ExpiresAt
    BY <2>2, <2>3
  <2> QED
    BY <1>1, <2>4 DEF Dated
<1>3. CASE ~(a >= MaxAttempts)
  <2>1. FetchFailed(row[j], a).status = "queued"
    BY <1>3 DEF FetchFailed, Rows
  <2> QED
    BY <1>1, <2>1 DEF Dated, Terminal
<1> QED
  BY <1>1, <1>2, <1>3

LEMMA ThreadsDate ==
  ASSUME TypeInv, NEW t \in Threads, Claim(t) \/ ThreadStep(t), NEW i \in Jobs
  PROVE  Dated(i, row'[i])
<1> USE JobStoreAssumption
<1>t. row \in [Jobs -> Rows]
  BY DEF TypeInv, RowInv
<1>a. th[t].pc # "idle" => J(t) \in Jobs /\ row[J(t)] \in Rows
                           /\ th[t].attempts \in 0..(MaxAttempts - 1)
  BY ThreadInHand
<1>s. ASSUME NEW j \in Jobs, NEW r, row' = row \/ row' = [row EXCEPT ![j] = r], Dated(j, r)
      PROVE  Dated(i, row'[i])
  BY <1>t, <1>s DEF Dated
<1>u. ASSUME UNCHANGED storeVars PROVE Dated(i, row'[i])
  BY <1>u DEF storeVars, Dated
<1>c. ASSUME NEW r, UpdateIfStatus(J(t), "running", C(t), r), th[t].pc # "idle", Dated(J(t), r)
      PROVE  Dated(i, row'[i])
  BY <1>a, <1>c, <1>s DEF UpdateIfStatus
<1>1. CASE \/ AdmitWarm(t) \/ AdmitCold(t) \/ FetchDrop(t) \/ Reject(t) \/ Launch(t)
           \/ LaunchFails(t) \/ BoxDone(t) \/ BoxKilled(t) \/ BoxOrphaned(t)
           \/ GuestDone(t) \/ GuestFails(t) \/ Seal(t) \/ SealFails(t) \/ Check(t)
           \/ PutBody(t) \/ PutSeal(t) \/ PutFails(t) \/ ReapCheck(t) \/ Reap(t)
           \/ Mark(t) \/ Unmark(t) \/ Raise(t) \/ Release(t) \/ InRead(t) \/ InDel(t)
           \/ PgRead(t) \/ PgDel(t)
  <2>1. UNCHANGED storeVars
    BY <1>1 DEF AdmitWarm, AdmitCold, FetchDrop, Reject, Launch,
     LaunchFails, BoxDone, BoxKilled, BoxOrphaned, GuestDone, GuestFails, Seal, SealFails,
     Check, PutBody, PutSeal, PutFails, ReapCheck, Reap, Mark, Unmark, Raise, Release, InRead,
     InDel, PgRead, PgDel
  <2> QED
    BY <1>u, <2>1
<1>2. CASE Claim(t)
  <2>1. PICK j \in Jobs : ClaimNext(Serves[t], j)
    BY <1>2 DEF Claim
  <2> DEFINE r == [row[j] EXCEPT !.status = "running", !.claim = issued + 1, !.age = Fresh]
  <2>2. row' = [row EXCEPT ![j] = r]
    BY <2>1 DEF ClaimNext
  <2>3. Dated(j, r)
    BY <1>t DEF Dated, Rows, Terminal
  <2> HIDE DEF r
  <2> QED
    BY <1>s, <2>2, <2>3
<1>3. CASE Refuse(t) \/ NoHeadroom(t) \/ EgressDefer(t)
  <2>1. th[t].pc # "idle"
    BY <1>3 DEF Refuse, NoHeadroom, EgressDefer, At
  <2>2. TRUE \in BOOLEAN /\ 1 \in 1..MaxAttempts
    OBVIOUS
  <2>3. PICK b \in BOOLEAN : UpdateIfStatus(J(t), "running", C(t), Requeued(row[J(t)], b))
    BY <1>3, <2>2 DEF Refuse, NoHeadroom, EgressDefer
  <2>4. Dated(J(t), Requeued(row[J(t)], b))
    BY <1>a, <2>1, <2>2, WrittenDated
  <2> QED
    BY <1>c, <2>1, <2>3, <2>4
<1>4. CASE FetchFails(t)
  <2>1. th[t].pc # "idle"
    BY <1>4 DEF FetchFails, At
  <2>2. th[t].attempts + 1 \in 1..MaxAttempts /\ TRUE \in BOOLEAN
    BY <1>a, <2>1
  <2>3. Dated(J(t), FetchFailed(row[J(t)], th[t].attempts + 1))
    BY <1>a, <2>1, <2>2, WrittenDated
  <2>4. UpdateIfStatus(J(t), "running", C(t), FetchFailed(row[J(t)], th[t].attempts + 1))
    BY <1>4 DEF FetchFails
  <2> QED
    BY <1>c, <2>1, <2>3, <2>4
<1>5. CASE StampWarm(t) \/ StampCold(t) \/ Refresh(t) \/ Fetch(t)
  <2>1. th[t].pc # "idle"
    BY <1>5 DEF StampWarm, StampCold, Refresh, Fetch, At
  <2>2. CASE UNCHANGED storeVars
    BY <1>u, <2>2
  <2>3. CASE ~UNCHANGED storeVars
    <3>1. PICK r : /\ UpdateIfStatus(J(t), "running", C(t), r)
                   /\ \/ r = [row[J(t)] EXCEPT !.runtime = "warm"]
                      \/ r = [row[J(t)] EXCEPT !.runtime = "cold"]
                      \/ r = [row[J(t)] EXCEPT !.age = Fresh]
                      \/ r = [row[J(t)] EXCEPT !.attempts = 0]
      BY <1>5, <2>3 DEF StampWarm, StampCold, Refresh, Fetch, Cas
    <3>2. r.status = row[J(t)].status /\ r.expiry = row[J(t)].expiry
      BY <1>a, <2>1, <3>1 DEF Rows
    <3>3. Dated(J(t), r)
      BY <3>2 DEF Dated
    <3> QED
      BY <1>c, <2>1, <3>1, <3>3
  <2> QED
    BY <2>2, <2>3
<1>6. CASE Keep(t) \/ Fail(t) \/ Commit(t)
  <2>1. th[t].pc # "idle"
    BY <1>6 DEF Keep, Fail, Commit, At
  <2>2. TRUE \in BOOLEAN /\ FALSE \in BOOLEAN /\ 1 \in 1..MaxAttempts
    OBVIOUS
  <2>3. \A b \in BOOLEAN : Dated(J(t), Failed(row[J(t)], b)) /\ Dated(J(t), Done(row[J(t)]))
    BY <1>a, <2>1, <2>2, WrittenDated
  <2>4. \/ \E b \in BOOLEAN : UpdateIfStatus(J(t), "running", C(t), Failed(row[J(t)], b))
        \/ UpdateIfStatus(J(t), "running", C(t), Done(row[J(t)]))
    BY <1>6, <2>2 DEF Keep, Fail, Commit, Cas
  <2> QED
    BY <1>c, <2>1, <2>2, <2>3, <2>4
<1> QED
  BY <1>1, <1>2, <1>3, <1>4, <1>5, <1>6 DEF ThreadStep

LEMMA AsideDates ==
  ASSUME TypeInv, Aside, NEW i \in Jobs
  PROVE  Dated(i, row'[i])
<1> USE JobStoreAssumption
<1>t. row \in [Jobs -> Rows] /\ TRUE \in BOOLEAN /\ FALSE \in BOOLEAN /\ 1 \in 1..MaxAttempts
  BY DEF TypeInv, RowInv
<1>s. ASSUME NEW j \in Jobs, NEW r, row' = row \/ row' = [row EXCEPT ![j] = r], Dated(j, r)
      PROVE  Dated(i, row'[i])
  BY <1>t, <1>s DEF Dated
<1>1. ASSUME NEW j \in Jobs, Submit(j) PROVE Dated(i, row'[i])
  <2>1. row' = [row EXCEPT ![j] = NewRow] /\ Dated(j, NewRow)
    BY <1>1 DEF Submit, Create, Dated, NewRow, NoRow, Terminal
  <2> QED
    BY <1>s, <2>1
<1>2. ASSUME NEW j \in Jobs, Elapse(j) PROVE Dated(i, row'[i])
  <2>1. PICK r : /\ row' = [row EXCEPT ![j] = r]
                 /\ \/ r = [row[j] EXCEPT !.age = row[j].age + 1]
                    \/ r = [row[j] EXCEPT !.deferred = FALSE]
    BY <1>2 DEF Elapse, Age, BecomeClaimable
  <2>2. r.status = row[j].status /\ r.expiry = row[j].expiry
    BY <1>t, <2>1 DEF Rows
  <2>3. Dated(j, r)
    BY <2>2 DEF Dated
  <2> QED
    BY <1>s, <2>1, <2>3
<1>3. ASSUME NEW n \in Nodes, SweepWarm(n) \/ SweepRequeue(n) PROVE Dated(i, row'[i])
  <2> DEFINE j == mt[n].job
  <2>1. j \in Jobs /\ row[j] \in Rows
    BY <1>3, MaintInHand DEF SweepWarm, SweepRequeue
  <2>2. row[j].deferred \in BOOLEAN
    BY <2>1 DEF Rows
  <2>3. Dated(j, Failed(row[j], FALSE)) /\ Dated(j, Requeued(row[j], row[j].deferred))
    BY <1>t, <2>1, <2>2, WrittenDated
  <2>4. \/ row' = row
        \/ row' = [row EXCEPT ![j] = Failed(row[j], FALSE)]
        \/ row' = [row EXCEPT ![j] = Requeued(row[j], row[j].deferred)]
    BY <1>3 DEF SweepWarm, SweepRequeue, UpdateIfStatus
  <2> HIDE DEF j
  <2> QED
    BY <1>s, <2>1, <2>3, <2>4
<1>4. ASSUME NEW n \in Nodes,
             \/ SweepPs(n) \/ SweepSkip(n) \/ ReconcilePs(n) \/ ReconcilePop(n)
             \/ ReconcileRead(n) \/ ReconcileDel(n) \/ Crash(n)
             \/ \E j \in Jobs : SweepList(n, j) \/ ReconcileList(n, j) \/ BoxExits(n, j)
      PROVE  Dated(i, row'[i])
  <2>1. UNCHANGED storeVars
    BY <1>4 DEF SweepPs, SweepSkip, ReconcilePs, ReconcilePop, ReconcileRead, ReconcileDel,
       Crash, SweepList, ReconcileList, BoxExits
  <2> QED
    BY <2>1 DEF storeVars, Dated
<1>5. ASSUME NEW n \in Nodes, NEW j \in Jobs, FailStaleQueued(n, j) PROVE Dated(i, row'[i])
  <2>1. row' = row \/ row' = [row EXCEPT ![j] = Failed(row[j], FALSE)]
    BY <1>5 DEF FailStaleQueued, UpdateIfStatusOnly
  <2>2. Dated(j, Failed(row[j], FALSE))
    BY <1>t, WrittenDated
  <2> QED
    BY <1>s, <2>1, <2>2
<1> QED
  BY <1>1, <1>2, <1>3, <1>4, <1>5 DEF Aside, MaintStep, MaintBegin

LEMMA DispatcherDates ==
  ASSUME TypeInv, [Next]_vars
  PROVE  \A i \in Jobs : Dated(i, row'[i])
<1>1. CASE UNCHANGED vars
  BY <1>1 DEF vars, Dated
<1> QED
  BY <1>1, ThreadsDate, AsideDates DEF Next, Aside

\* What a sweep or DELETE does to the expiry of a row that is over.
SweepDated(i) ==
  row'[i].status \in Terminal =>
    \/ row'[i].status = row[i].status /\ row'[i].expiry \in {row[i].expiry, "due"}
    \/ row'[i].status = "done" /\ row'[i].expiry = ExpiresAt
    \/ /\ row'[i].status = "expired" /\ row'[i].expiry = row[i].expiry
       /\ \E n \in Nodes : rt[n].pc = "exreserve" /\ RJ(n) = i /\ rt[n].status = row[i].status
    \/ /\ row'[i].status = "expired" /\ row[i].status = "expired"
       /\ \E n \in Nodes : rt[n].pc = "exfinal" /\ RJ(n) = i

LEMMA SweepDates ==
  ASSUME TypeInv, RtInv, SweepStep, NEW i \in Jobs
  PROVE  SweepDated(i)
<1>j. /\ \A n \in Nodes : rt[n].pc # "idle" => RJ(n) \in Jobs
      /\ row \in [Jobs -> Rows]
  BY DEF RtInv, TypeInv, RowInv
<1>u. ASSUME row' = row PROVE SweepDated(i)
  BY <1>u DEF SweepDated
<1>s. ASSUME NEW j \in Jobs, NEW r, row' = [row EXCEPT ![j] = r]
      PROVE  row'[j] = r /\ \A k \in Jobs : k # j => row'[k] = row[k]
  BY <1>s, <1>j
<1>3. ASSUME NEW n \in Nodes, RetryFix(n) PROVE SweepDated(i)
  <2>1. RJ(n) \in Jobs /\ row[RJ(n)] \in Rows
    BY <1>3, <1>j DEF RetryFix, RAt
  <2>2. row' = row \/ row' = [row EXCEPT ![RJ(n)] = Done(row[RJ(n)])]
    BY <1>3 DEF RetryFix, UpdateIfStatusOnly
  <2>3. Done(row[RJ(n)]).status = "done" /\ Done(row[RJ(n)]).expiry = ExpiresAt
    BY <2>1 DEF Done, Rows
  <2> QED
    BY <1>s, <1>u, <2>1, <2>2, <2>3 DEF SweepDated
<1>4. ASSUME NEW n \in Nodes, ExpireReserve(n) PROVE SweepDated(i)
  <2>1. rt[n].pc = "exreserve" /\ RJ(n) \in Jobs /\ row[RJ(n)] \in Rows
    BY <1>4, <1>j DEF ExpireReserve, RAt
  <2> DEFINE r == [row[RJ(n)] EXCEPT !.status = "expired"]
  <2>2. row' = row \/ (row[RJ(n)].status = rt[n].status /\ row' = [row EXCEPT ![RJ(n)] = r])
    BY <1>4 DEF ExpireReserve, UpdateIfStatusOnly
  <2>3. r.status = "expired" /\ r.expiry = row[RJ(n)].expiry
    BY <2>1 DEF Rows
  <2> HIDE DEF r
  <2> QED
    BY <1>s, <1>u, <2>1, <2>2, <2>3 DEF SweepDated
<1>5. ASSUME NEW n \in Nodes, ExpireFinal(n) PROVE SweepDated(i)
  <2>1. rt[n].pc = "exfinal" /\ RJ(n) \in Jobs /\ row[RJ(n)] \in Rows
    BY <1>5, <1>j DEF ExpireFinal, RAt
  <2> DEFINE r == [row[RJ(n)] EXCEPT !.expiry = "never"]
  <2>2. row' = row \/ (row[RJ(n)].status = "expired" /\ row' = [row EXCEPT ![RJ(n)] = r])
    BY <1>5 DEF ExpireFinal, UpdateIfStatusOnly
  <2>3. r.status = row[RJ(n)].status
    BY <2>1 DEF Rows
  <2> HIDE DEF r
  <2> QED
    BY <1>s, <1>u, <2>1, <2>2, <2>3 DEF SweepDated
<1>6. ASSUME NEW j \in Jobs, DeleteRow(j) PROVE SweepDated(i)
  <2>1. row' = [row EXCEPT ![j] = NoRow] /\ NoRow.status = "absent"
    BY <1>6 DEF DeleteRow, Delete, NoRow
  <2> QED
    BY <1>s, <2>1 DEF SweepDated, Terminal
<1>7. ASSUME NEW n \in Nodes, RetentionStep(n), ~RetryFix(n), ~ExpireReserve(n), ~ExpireFinal(n)
      PROVE  row' = row
  BY <1>7 DEF RetentionStep, RetryRead, RetryMarker, RetryProbe, RetryBody, RetrySeal, RetryPutFails,
     RetryFixRaises, RetryAfter, RetryUndo, RetryClear, ScratchRead, ScratchJudge, ScratchPurge,
     ExpireRead, ExpireTree, ExpireBlob, ExpireBlobFails, ExpireRaises, storeVars
<1>8. ASSUME NEW n \in Nodes, NEW j \in Jobs, RetentionBegin(n, j) PROVE row' = row
  BY <1>8 DEF RetentionBegin, RetryBegin, ScratchBegin, ExpireList, storeVars
<1>9. ASSUME NEW j \in Jobs, DeleteStep(j), ~DeleteRow(j) PROVE row' = row
  BY <1>9 DEF DeleteStep, DeleteRead, DeleteTree, DeleteBlob, DeleteFails, storeVars
<1>10. ASSUME NEW j \in Jobs, ExpiryPasses(j) PROVE SweepDated(i)
  <2> DEFINE r == [row[j] EXCEPT !.expiry = "due"]
  <2>1. row' = [row EXCEPT ![j] = r]
    BY <1>10 DEF ExpiryPasses
  <2>2. r.status = row[j].status /\ r.expiry = "due"
    BY <1>j DEF Rows
  <2> HIDE DEF r
  <2> QED
    BY <1>s, <2>1, <2>2 DEF SweepDated
<1> QED
  BY <1>u, <1>3, <1>4, <1>5, <1>6, <1>7, <1>8, <1>9, <1>10 DEF SweepStep

\* A retry of j that has stored, or found, a seal and has still to decide what becomes of it.
Withdrawing(n, j) == RJ(n) = j /\ rt[n].pc \in {"rtfix", "rtafter", "rtundo"}
WithdrawsAfter(n, j) == rt'[n].job = j /\ rt'[n].pc \in {"rtfix", "rtafter", "rtundo"}

\* What a sweep or DELETE does to the seals: only the retry that goes on to the row stores
\* one, an expiry that goes on to its last write has deleted it, and a retry whose row has
\* expired ends only once it has deleted what it stored.
SealEffect ==
  /\ \A j \in Jobs :
       blob'[j].seal \in {blob[j].seal, NoClaim} \/ \E n \in Nodes : WithdrawsAfter(n, j)
  /\ \A n \in Nodes : rt'[n].pc = "exfinal" =>
       rt'[n] = rt[n] \/ blob'[rt'[n].job].seal = NoClaim
  /\ \A n \in Nodes, j \in Jobs : Withdrawing(n, j) =>
       WithdrawsAfter(n, j) \/ row'[j].status # "expired" \/ blob'[j].seal = NoClaim

LEMMA SealEffects ==
  ASSUME StoreFaults = FALSE, UndoFails = FALSE, TypeInv, RtInv, SweepStep
  PROVE  SealEffect
<1>t. /\ rt \in [Nodes -> RetentionStates] /\ blob \in [Jobs -> Blobs] /\ row \in [Jobs -> Rows]
      /\ \A n \in Nodes : rt[n].pc # "idle" => RJ(n) \in Jobs
  BY DEF RtInv, TypeInv, BlobInv, RowInv
<1>g. ASSUME NEW n \in Nodes, NEW p, RGo(n, p)
      PROVE  /\ rt'[n].pc = p /\ rt'[n].job = RJ(n)
             /\ \A m \in Nodes : m # n => rt'[m] = rt[m]
  BY <1>g, <1>t DEF RGo, RetentionStates, RJ
<1>i. ASSUME NEW n \in Nodes, RIdle(n)
      PROVE  rt'[n].pc = "idle" /\ \A m \in Nodes : m # n => rt'[m] = rt[m]
  BY <1>i, <1>t, IdleTyped DEF RIdle
<1>n. NoBlob.seal = NoClaim
  BY DEF NoBlob
\* A step of node n, on a job it does not withdraw, that stores no seal.
<1>s. ASSUME NEW n \in Nodes, \A m \in Nodes : m # n => rt'[m] = rt[m],
             \A j \in Jobs : blob'[j].seal \in {blob[j].seal, NoClaim} \/ WithdrawsAfter(n, j),
             rt'[n].pc = "exfinal" => blob'[rt'[n].job].seal = NoClaim,
             \A j \in Jobs : Withdrawing(n, j) =>
               WithdrawsAfter(n, j) \/ row'[j].status # "expired" \/ blob'[j].seal = NoClaim
      PROVE  SealEffect
  BY <1>s DEF SealEffect, Withdrawing, WithdrawsAfter, RJ
<1>1. ASSUME NEW n \in Nodes, RetryBody(n) \/ RetrySeal(n) PROVE SealEffect
  <2>1. rt[n].pc \in {"rtbody", "rtseal"} /\ RJ(n) \in Jobs
    BY <1>1, <1>t DEF RetryBody, RetrySeal, RAt
  <2>2. CASE RetryBody(n)
    <3>1. RGo(n, "rtseal")
          /\ (blob' = blob \/ blob' = [blob EXCEPT ![RJ(n)] = [blob[RJ(n)] EXCEPT !.body = Uploads(n)]])
      BY <2>2 DEF RetryBody
    <3>2. \A j \in Jobs : blob'[j].seal = blob[j].seal
      BY <1>t, <2>1, <3>1 DEF Blobs
    <3> QED
      BY <1>g, <1>s, <2>1, <3>1, <3>2 DEF Withdrawing
  <2>3. CASE RetrySeal(n)
    <3>1. RGo(n, "rtfix")
          /\ (blob' = blob \/ blob' = [blob EXCEPT ![RJ(n)] = [blob[RJ(n)] EXCEPT !.seal = Uploads(n)]])
      BY <2>3 DEF RetrySeal
    <3>2. \A j \in Jobs : j # RJ(n) => blob'[j] = blob[j]
      BY <1>t, <2>1, <3>1
    <3> QED
      BY <1>g, <1>s, <2>1, <3>1, <3>2 DEF Withdrawing, WithdrawsAfter
  <2> QED
    BY <1>1, <2>2, <2>3
<1>2. ASSUME NEW n \in Nodes, RetryFix(n) PROVE SealEffect
  <2>1. rt[n].pc = "rtfix" /\ RJ(n) \in Jobs /\ blob' = blob
    BY <1>2, <1>t DEF RetryFix, RAt
  <2>2. CASE row[RJ(n)].status = "failed"
    <3>1. row' = [row EXCEPT ![RJ(n)] = Done(row[RJ(n)])] /\ RGo(n, "rtclear")
      BY <1>2, <2>2 DEF RetryFix, UpdateIfStatusOnly
    <3>2. Done(row[RJ(n)]).status = "done"
      BY <1>t, <2>1 DEF Done, Rows
    <3>3. row'[RJ(n)].status = "done"
      BY <1>t, <2>1, <3>1, <3>2
    <3> QED
      BY <1>g, <1>s, <2>1, <3>1, <3>3 DEF Withdrawing
  <2>3. CASE row[RJ(n)].status # "failed"
    <3>1. RGo(n, "rtafter")
      BY <1>2, <2>3 DEF RetryFix
    <3> QED
      BY <1>g, <1>s, <2>1, <3>1 DEF Withdrawing, WithdrawsAfter
  <2> QED
    BY <2>2, <2>3
<1>3. ASSUME NEW n \in Nodes, RetryAfter(n) PROVE SealEffect
  <2>1. rt[n].pc = "rtafter" /\ RJ(n) \in Jobs /\ blob' = blob /\ row' = row
    BY <1>3, <1>t DEF RetryAfter, RAt, storeVars
  <2>2. IF row[RJ(n)].status = "expired" THEN RGo(n, "rtundo") ELSE RIdle(n)
    BY <1>3 DEF RetryAfter, Answers
  <2> QED
    BY <1>g, <1>i, <1>s, <2>1, <2>2 DEF Withdrawing, WithdrawsAfter
<1>4. ASSUME NEW n \in Nodes, RetryUndo(n) PROVE SealEffect
  <2>1. rt[n].pc = "rtundo" /\ RJ(n) \in Jobs /\ RGo(n, "rtclear")
    BY <1>4, <1>t DEF RetryUndo, RAt
  <2>2. blob' = [blob EXCEPT ![RJ(n)] = NoBlob]
    BY <1>4 DEF RetryUndo
  <2>3. /\ blob'[RJ(n)].seal = NoClaim
        /\ \A j \in Jobs : j # RJ(n) => blob'[j] = blob[j]
    BY <1>n, <1>t, <2>1, <2>2
  <2> QED
    BY <1>g, <1>s, <2>1, <2>3 DEF Withdrawing
<1>5. ASSUME NEW n \in Nodes, ExpireBlob(n) \/ ExpireBlobFails(n) PROVE SealEffect
  <2>1. rt[n].pc = "exblob" /\ RJ(n) \in Jobs
    BY <1>5, <1>t DEF ExpireBlob, ExpireBlobFails, RAt
  <2>2. CASE ExpireBlob(n)
    <3>1. blob' = [blob EXCEPT ![RJ(n)] = NoBlob] /\ RGo(n, "exfinal")
      BY <2>2 DEF ExpireBlob
    <3>2. /\ blob'[RJ(n)].seal = NoClaim
          /\ \A j \in Jobs : j # RJ(n) => blob'[j] = blob[j]
      BY <1>n, <1>t, <2>1, <3>1
    <3> QED
      BY <1>g, <1>s, <2>1, <3>1, <3>2 DEF Withdrawing
  <2>3. CASE ExpireBlobFails(n)
    <3>1. PICK b \in Remains(RJ(n)) : blob' = [blob EXCEPT ![RJ(n)] = b]
      BY <2>3 DEF ExpireBlobFails
    <3>2. b.seal \in {blob[RJ(n)].seal, NoClaim}
      BY <1>t, <2>1 DEF Remains, Blobs
    <3>3. RIdle(n) /\ \A j \in Jobs : blob'[j].seal \in {blob[j].seal, NoClaim}
      BY <1>t, <2>1, <2>3, <3>1, <3>2 DEF ExpireBlobFails
    <3> QED
      BY <1>i, <1>s, <2>1, <3>3 DEF Withdrawing
  <2> QED
    BY <1>5, <2>2, <2>3
<1>6. ASSUME NEW n \in Nodes, RetentionStep(n), ~RetryBody(n), ~RetrySeal(n), ~RetryFix(n),
             ~RetryAfter(n), ~RetryUndo(n), ~ExpireBlob(n), ~ExpireBlobFails(n)
      PROVE  SealEffect
  <2>1. CASE RetryRead(n) \/ ScratchRead(n)
    <3>1. rt[n].pc \in {"rtread", "scread"} /\ blob' = blob
      BY <2>1 DEF RetryRead, ScratchRead, RAt
    <3>2. RIdle(n) \/ \E p, c, st : \/ p # "exfinal" /\ rt' = [rt EXCEPT ![n].pc = p, ![n].claim = c]
                                    \/ p # "exfinal" /\ rt' = [rt EXCEPT ![n].pc = p, ![n].status = st]
      BY <2>1 DEF RetryRead, ScratchRead
    <3>3. rt'[n].pc # "exfinal" /\ \A m \in Nodes : m # n => rt'[m] = rt[m]
      BY <1>i, <1>t, <3>2 DEF RetentionStates
    <3> QED
      BY <1>s, <3>1, <3>3 DEF Withdrawing
  <2>2. CASE ~RetryRead(n) /\ ~ScratchRead(n)
    <3>1. /\ rt[n].pc \notin {"rtfix", "rtafter", "rtundo"} /\ blob' = blob
          /\ RIdle(n) \/ \E p : p # "exfinal" /\ RGo(n, p)
      BY <1>6, <2>2 DEF RetentionStep, RetryMarker, RetryProbe, RetryPutFails, RetryFixRaises, RetryClear,
         ScratchJudge, ScratchPurge, ExpireRead, ExpireReserve, ExpireTree, ExpireFinal,
         ExpireRaises, RAt
    <3>2. rt'[n].pc # "exfinal" /\ \A m \in Nodes : m # n => rt'[m] = rt[m]
      BY <1>g, <1>i, <3>1
    <3> QED
      BY <1>s, <3>1, <3>2 DEF Withdrawing
  <2> QED
    BY <2>1, <2>2
<1>7. ASSUME NEW n \in Nodes, NEW j \in Jobs, RetentionBegin(n, j) PROVE SealEffect
  <2>1. /\ rt[n].pc = "idle" /\ blob' = blob
        /\ \E r : r.pc # "exfinal" /\ rt' = [rt EXCEPT ![n] = r]
    <3> DEFINE R(p, st) == [IdleRetention EXCEPT !.pc = p, !.job = j, !.status = st]
    <3>1. /\ rt[n].pc = "idle" /\ blob' = blob
          /\ \E p \in {"rtread", "scread"} : rt' = [rt EXCEPT ![n] = [IdleRetention EXCEPT !.pc = p, !.job = j]]
             \/ rt' = [rt EXCEPT ![n] = R("exread", row[j].status)]
      BY <1>7 DEF RetentionBegin, RetryBegin, ScratchBegin, ExpireList, RBegin, RAt
    <3>2. /\ R("exread", row[j].status).pc # "exfinal"
          /\ \A p \in {"rtread", "scread"} : [IdleRetention EXCEPT !.pc = p, !.job = j].pc # "exfinal"
      BY DEF IdleRetention
    <3> HIDE DEF R
    <3> QED
      BY <3>1, <3>2
  <2>2. rt'[n].pc # "exfinal" /\ \A m \in Nodes : m # n => rt'[m] = rt[m]
    BY <1>t, <2>1
  <2> QED
    BY <1>s, <2>1, <2>2 DEF Withdrawing
<1>8. ASSUME NEW j \in Jobs, ExpiryPasses(j) \/ DeleteStep(j) PROVE SealEffect
  <2>1. rt' = rt
    BY <1>8 DEF ExpiryPasses, DeleteStep, DeleteRead, DeleteTree, DeleteBlob, DeleteFails, DeleteRow,
       retVars, deleteRest
  <2>2. blob' = blob \/ \E b \in Remains(j) \cup {NoBlob} : blob' = [blob EXCEPT ![j] = b]
    BY <1>8 DEF ExpiryPasses, DeleteStep, DeleteRead, DeleteTree, DeleteBlob, DeleteFails, DeleteRow,
       localVars
  <2>3. \A b \in Remains(j) \cup {NoBlob} : b.seal \in {blob[j].seal, NoClaim}
    BY <1>n, <1>t DEF Remains, Blobs
  <2>4. \A i \in Jobs : blob'[i].seal \in {blob[i].seal, NoClaim}
    BY <1>t, <2>2, <2>3
  <2> QED
    BY <2>1, <2>4 DEF SealEffect, Withdrawing, WithdrawsAfter, RJ
<1> QED
  BY <1>1, <1>2, <1>3, <1>4, <1>5, <1>6, <1>7, <1>8 DEF SweepStep

\* An expiry begins only where finished jobs are kept for a while.
ForExpiry == \A n \in Nodes : rt[n].pc \in {"exread", "exreserve"} => Retaining

LEMMA ExpiriesBegin ==
  ASSUME TypeInv, RtInv, ForExpiry, SweepStep
  PROVE  ForExpiry'
<1>t. rt \in [Nodes -> RetentionStates]
  BY DEF RtInv
<1>o. ASSUME NEW n \in Nodes, \A m \in Nodes : m # n => rt'[m] = rt[m],
             rt'[n].pc \in {"exread", "exreserve"} => Retaining
      PROVE  ForExpiry'
  BY <1>o DEF ForExpiry
<1>1. ASSUME NEW n \in Nodes, RetentionStep(n) PROVE ForExpiry'
  <2>1. \/ RIdle(n)
        \/ \E p, c, st :
             /\ p \in {"exread", "exreserve"} => rt[n].pc = "exread"
             /\ \/ rt' = [rt EXCEPT ![n].pc = p]
                \/ rt' = [rt EXCEPT ![n].pc = p, ![n].claim = c]
                \/ rt' = [rt EXCEPT ![n].pc = p, ![n].status = st]
    BY <1>1 DEF RetentionStep, RetryRead, RetryMarker, RetryProbe, RetryBody, RetrySeal, RetryPutFails,
       RetryFix, RetryFixRaises, RetryAfter, RetryUndo, RetryClear, ScratchRead, ScratchJudge,
       ScratchPurge, ExpireRead, ExpireReserve, ExpireTree, ExpireBlob, ExpireBlobFails,
       ExpireFinal, ExpireRaises, RGo, RAt
  <2>2. /\ \A m \in Nodes : m # n => rt'[m] = rt[m]
        /\ rt'[n].pc \in {"exread", "exreserve"} => rt[n].pc = "exread"
    BY <1>t, <2>1, IdleTyped DEF RIdle, RetentionStates
  <2> QED
    BY <1>o, <2>2 DEF ForExpiry
<1>2. ASSUME NEW n \in Nodes, NEW j \in Jobs, RetentionBegin(n, j) PROVE ForExpiry'
  <2>1. Retaining \/ \E p \in {"rtread", "scread"} :
                       rt' = [rt EXCEPT ![n] = [IdleRetention EXCEPT !.pc = p, !.job = j]]
    BY <1>2 DEF RetentionBegin, RetryBegin, ScratchBegin, ExpireList, RBegin
  <2>2. \A p \in {"rtread", "scread"} : [IdleRetention EXCEPT !.pc = p, !.job = j].pc = p
    BY DEF IdleRetention
  <2>3. CASE Retaining
    BY <2>3 DEF ForExpiry
  <2>4. CASE ~Retaining
    <3>1. rt'[n].pc \in {"rtread", "scread"} /\ \A m \in Nodes : m # n => rt'[m] = rt[m]
      BY <1>t, <2>1, <2>2, <2>4
    <3> QED
      BY <1>o, <3>1
  <2> QED
    BY <2>3, <2>4
<1>3. ASSUME NEW j \in Jobs, ExpiryPasses(j) \/ DeleteStep(j) PROVE ForExpiry'
  <2>1. rt' = rt
    BY <1>3 DEF ExpiryPasses, DeleteStep, DeleteRead, DeleteTree, DeleteBlob, DeleteFails, DeleteRow,
       retVars, deleteRest
  <2> QED
    BY <2>1 DEF ForExpiry
<1> QED
  BY <1>1, <1>2, <1>3 DEF SweepStep

\* A job that is kept for a while ends with an expiry, ...
NeverLast == Retaining => \A j \in Jobs : row[j].status \in {"done", "failed"} => row[j].expiry # "never"

\* ... and a seal that outlives the deletion of an expired job's result is one that a retry
\* has still to withdraw.
Finishing(j) == \E n \in Nodes : rt[n].pc = "exfinal" /\ RJ(n) = j

NoTrace ==
  \A j \in Jobs :
    /\ row[j].status = "expired" /\ (row[j].expiry = "never" \/ Finishing(j))
    /\ blob[j].seal # NoClaim
    => \E n \in Nodes : Withdrawing(n, j)

TraceInv ==
  /\ Undone /\ ForExpiry /\ NeverLast
  /\ crashes = 0 => NoTrace

\* A step of the dispatcher that is no crash leaves the sweeps, and the results of rows that
\* are over, alone.
LEMMA TraceBesideDispatcher ==
  ASSUME TypeInv, RtInv, AbsentInv, Owned, TraceInv, OverStays, DispatcherStep,
         crashes' = 0 => crashes = 0 /\ rt' = rt
  PROVE  TraceInv'
<1> USE DEF TraceInv
<1>1. \A j \in Jobs : Dated(j, row'[j])
  BY DispatcherDates DEF DispatcherStep
<1>2. Moves \/ Stands
  BY KeepSteps DEF DispatcherStep
<1>3. GoneStays /\ Undone'
  BY <1>2, RowsGone, UndoneBesideDispatcher DEF Moves, Stands
<1>4. ForExpiry'
  BY IdleTyped DEF ForExpiry, DispatcherStep
<1>5. NeverLast'
  BY <1>1 DEF NeverLast, Dated, ExpiresAt, Terminal
<1>6. \A j \in Jobs : Over(j) => blob'[j] = blob[j]
  <2>1. ASSUME NEW t \in Threads, ThreadActs(t), NEW j \in Jobs, Over(j) PROVE blob'[j] = blob[j]
    <3>1. th[t].pc \in {"body", "putseal", "reap"} => row[J(t)].status = "running"
      BY AtWork DEF Working
    <3> QED
      BY <2>1, <3>1 DEF ThreadActs, BlobActs, Over, Terminal
  <2> QED
    BY <1>2, <2>1 DEF Moves, Stands, AsideActs
<1>7. ASSUME crashes' = 0 PROVE NoTrace'
  <2>1. rt' = rt /\ NoTrace
    BY <1>7
  <2>2. ASSUME NEW j \in Jobs, row'[j].status = "expired",
               row'[j].expiry = "never" \/ Finishing(j), blob'[j].seal # NoClaim
        PROVE  \E n \in Nodes : Withdrawing(n, j)
    <3>1. row[j].status = "expired" /\ row'[j].expiry = row[j].expiry
      BY <1>1, <2>2 DEF Dated, Terminal
    <3>2. j <= submitted
      <4>1. submitted \in Nat /\ j \in Nat
        BY JobStoreAssumption DEF TypeInv, RowInv, Jobs
      <4> QED
        BY <3>1, <4>1 DEF AbsentInv
    <3>3. blob'[j] = blob[j]
      BY <1>6, <3>1, <3>2 DEF Over, Terminal
    <3> QED
      BY <2>1, <2>2, <3>1, <3>3 DEF NoTrace
  <2> QED
    BY <2>1, <2>2 DEF NoTrace, Finishing, Withdrawing, RJ
<1> QED
  BY <1>3, <1>4, <1>5, <1>7

LEMMA TraceBesideSweeps ==
  ASSUME StoreFaults = FALSE, UndoFails = FALSE, TypeInv, TypeInv', RtInv, AbsentInv, AbsentInv',
         SweepInv, TraceInv, OverStays, SweepStep
  PROVE  TraceInv'
<1> USE DEF TraceInv
<1>1. RtEffect /\ RowEffect /\ SealEffect /\ \A j \in Jobs : SweepDated(j)
  BY RtEffects, RowEffects, SealEffects, SweepDates
<1>2. GoneStays /\ Undone' /\ ForExpiry'
  BY <1>1, RowsDone, UndoneBesideSweeps, ExpiriesBegin
<1>3. NeverLast'
  BY <1>1 DEF NeverLast, SweepDated, ExpiresAt, Terminal
<1>4. ASSUME crashes' = 0 PROVE NoTrace'
  <2>0. crashes' = crashes /\ NoTrace
    BY <1>4, SweepsLeave
  <2>1. ASSUME NEW j \in Jobs, row'[j].status = "expired",
               \/ row'[j].expiry = "never"
               \/ \E n \in Nodes : rt'[n].pc = "exfinal" /\ rt'[n].job = j,
               blob'[j].seal # NoClaim
        PROVE  \E n \in Nodes : WithdrawsAfter(n, j)
    <3>1. CASE blob'[j].seal # blob[j].seal
      BY <1>1, <2>1, <3>1 DEF SealEffect
    <3>2. CASE blob'[j].seal = blob[j].seal
      <4>1. ASSUME NEW n \in Nodes, rt'[n].pc = "exfinal", rt'[n].job = j PROVE Finishing(j)
        BY <1>1, <2>1, <4>1 DEF SealEffect, Finishing, RJ
      <4>2. Finishing(j) => row[j].status \in {"expired", "absent"}
        BY DEF Finishing, Undone
      <4>3. CASE row[j].status = "expired"
        <5>1. row[j].expiry = "never" \/ Finishing(j)
          BY <1>1, <2>1, <4>1, <4>3 DEF SweepDated, Finishing, Terminal
        <5>2. PICK n \in Nodes : Withdrawing(n, j)
          BY <2>0, <2>1, <3>2, <4>3, <5>1 DEF NoTrace
        <5> QED
          BY <1>1, <2>1, <5>2 DEF SealEffect
      <4>4. CASE row[j].status # "expired"
        <5>1. PICK n \in Nodes : rt[n].pc = "exreserve" /\ rt[n].status = row[j].status
                                 /\ row'[j].expiry = row[j].expiry
          BY <1>1, <2>1, <4>4 DEF SweepDated, Terminal
        <5>2. row[j].status \in {"done", "failed"} /\ Retaining
          BY <4>4, <5>1 DEF SweepInv, ExpireInv, ForExpiry, Terminal
        <5>3. row'[j].expiry # "never" /\ ~Finishing(j)
          BY <4>2, <5>1, <5>2 DEF NeverLast
        <5> QED
          BY <2>1, <4>1, <5>3
      <4> QED
        BY <4>3, <4>4
    <3> QED
      BY <3>1, <3>2
  <2> QED
    BY <2>1 DEF NoTrace, Finishing, Withdrawing, WithdrawsAfter, RJ
<1> QED
  BY <1>2, <1>3, <1>4

\* Only a crash ends a dispatcher's step with other retention work in hand.
LEMMA OnlyCrashes ==
  ASSUME TypeInv, RtInv, [RetentionNext]_allVars
  PROVE  SweepStep \/ (DispatcherStep /\ (crashes' = 0 => crashes = 0 /\ rt' = rt))
<1>1. crashes \in Nat
  BY DispatchAssumption DEF TypeInv, GateInv
<1>2. CASE SweepStep
  BY <1>2
<1>3. CASE ~SweepStep
  <2>1. DispatcherStep
    BY <1>3, RetentionSteps
  <2>2. crashes' \in {crashes, crashes + 1}
    BY <2>1, CrashGrows DEF DispatcherStep
  <2>3. ASSUME NEW n \in Nodes, CrashAll(n) PROVE crashes' = crashes + 1
    BY <2>3 DEF CrashAll, Crash
  <2>4. rt' = rt \/ crashes' = crashes + 1
    BY <1>3, <2>3 DEF RetentionNext, SweepStep, retVars, allVars
  <2> QED
    BY <1>1, <2>1, <2>2, <2>4
<1> QED
  BY <1>2, <1>3

\* Once a job has expired and no sweep will select its row again, the store holds no result of
\* it that looks complete, whichever expiry (_expire_job), DELETE and upload retry of any
\* number of nodes met over it: what a retry stores after the expiry has deleted the result,
\* it finds out (RetryAfter) and deletes again, and the row that is to be rewritten last keeps
\* the expiry from being forgotten.  It takes prompt owners, store calls and deletions that
\* succeed and, until the moment looked at, no crash: a retry that dies between its upload and
\* the look at the row leaves the bytes for good.
THEOREM ExpiredStaysTraceless ==
  SlowOwners = FALSE /\ StoreFaults = FALSE /\ UndoFails = FALSE =>
    (RetentionSpec => [](crashes = 0 => ExpiredLeavesNoResult))
<1> SUFFICES ASSUME SlowOwners = FALSE, StoreFaults = FALSE, UndoFails = FALSE
             PROVE  RetentionSpec => [](crashes = 0 => ExpiredLeavesNoResult)
  OBVIOUS
<1> DEFINE Inv == CopiesInv /\ TraceInv
<1>1. RetentionInit => Inv
  <2> SUFFICES ASSUME RetentionInit PROVE TraceInv
    BY CopiesStart
  <2>1. /\ \A n \in Nodes : rt[n].pc = "idle"
        /\ \A j \in Jobs : row[j].status = "absent"
    BY IdleTyped DEF RetentionInit, Init, StoreInit, NoRow
  <2> QED
    BY <2>1 DEF TraceInv, Undone, ForExpiry, NeverLast, NoTrace
<1>2. Inv /\ [RetentionNext]_allVars => Inv'
  <2> SUFFICES ASSUME Inv, [RetentionNext]_allVars PROVE Inv'
    OBVIOUS
  <2> USE DEF CopiesInv
  <2>1. CopiesInv'
    BY CopiesNext
  <2>2. OverStays
    BY RetentionSteps, NextEffect, RowEffects, OversStay DEF DispatcherStep, SweepInv
  <2>3. CASE SweepStep
    BY <2>1, <2>2, <2>3, TraceBesideSweeps
  <2>4. CASE DispatcherStep /\ (crashes' = 0 => crashes = 0 /\ rt' = rt)
    BY <2>1, <2>2, <2>4, TraceBesideDispatcher
  <2> QED
    BY <2>3, <2>4, OnlyCrashes
<1>3. Inv => (crashes = 0 => ExpiredLeavesNoResult)
  BY DEF TraceInv, NoTrace, ExpiredLeavesNoResult, Retrying, Withdrawing
<1> HIDE DEF Inv
<1> QED
  BY <1>1, <1>2, <1>3, PTL DEF RetentionSpec
================================================================================
