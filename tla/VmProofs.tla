------------------------------- MODULE VmProofs --------------------------------
(* Theorems about VmDispatch, for any hosts, threads, slots and faults: the rows *)
(* go through the states of JobLifecycle, and what the blob store serves for a   *)
(* DONE row is the result of the run the row names.  An upload is not fenced by  *)
(* the claim; what fences it is that a stamped row is given back by its own      *)
(* thread only, which has stopped uploading by then.                             *)
(*                                                                               *)
(* And about GuestGate, for any images, VMs, publications and rewrites: a guest  *)
(* that serves runs a rootfs that passed the check.                              *)
EXTENDS VmDispatch, GuestGate, TLAPS

WorkerPcs ==
  {"idle", "gate", "purge", "stamp", "fetch", "run", "own1", "meta", "own2", "body", "seal",
   "mark", "part", "reap", "cas", "fail", "requeue", "final"}

WorkerStates == [pc : WorkerPcs, job : 0..NJobs, claim : ClaimIds, ok : BOOLEAN,
                 pend : BOOLEAN, owned : BOOLEAN, term : {"none", "done", "failed"}]

\* What the validate thread of a claim may answer.
Verdicts == {"ok", "bad", "busy", "lost"}

\* A row that may still run has failed fewer fetches than fail it.
Tries(r) == r.status \in {"queued", "running"} => r.attempts < MaxAttempts

RowsTyped ==
  /\ row \in [Jobs -> Rows]
  /\ \A j \in Jobs : Tries(row[j])
  /\ issued \in 0..MaxClaims
  /\ submitted \in 0..NJobs
  /\ \A j \in Jobs : j > submitted => row[j].status = "absent" /\ row[j].claim = NoClaim

ThreadsTyped ==
  /\ w \in [Workers -> WorkerStates]
  /\ \A x \in Workers : w[x].pc # "idle" => J(x) \in Jobs /\ C(x) # NoClaim

\* The hosts a validate thread may be on.
AllHosts == VmHosts \cup {HostOf[x] : x \in Workers} \cup {CHOOSE h \in VmHosts : TRUE}

ValStates == [pc : {"none", "slot", "clear", "post", "write", "over"},
              res : Verdicts \cup {"none"}, job : 0..NJobs, host : AllHosts]

ValsTyped ==
  /\ val \in [ClaimIds -> ValStates]
  /\ \A c \in ClaimIds : val[c].pc = "over" => val[c].res \in Verdicts

VmTypeInv == RowsTyped /\ ThreadsTyped /\ ValsTyped

-------------------------------------------------------------------------------
\* What a step does.

\* Row j is the same attempt's, and as far as it was.
Same(j) ==
  /\ row'[j].status = row[j].status
  /\ row'[j].claim = row[j].claim
  /\ row'[j].runtime = row[j].runtime

\* The rows after the step; what happens to another row than j does not matter.
Only(j) ==
  /\ row' \in [Jobs -> Rows]
  /\ \A i \in Jobs : Tries(row'[i])
  /\ \A i \in Jobs \ {j} : Same(i)
  /\ UNCHANGED <<issued, submitted>>

\* From the stamp to the terminal write: the row is the thread's, or was failed.
Stamped == {"fetch", "run", "own1", "meta", "own2", "body", "seal", "mark", "part", "reap",
            "cas", "fail", "requeue"}

\* What thread x makes of the row it owns.
Stamps(x) == /\ row'[J(x)].status = "running" /\ row'[J(x)].claim = C(x)
             /\ row'[J(x)].runtime = "warm"
Fails(x)    == row'[J(x)].status = "failed" /\ row'[J(x)].claim = C(x)
Commits(x)  == row'[J(x)].status = "done" /\ row'[J(x)].claim = C(x)
GivesBack(x) == row'[J(x)].status = "queued" /\ row'[J(x)].claim = NoClaim

WorkerRow(x) ==
  /\ Only(J(x))
  /\ \/ Same(J(x)) /\ ~(At(x, "stamp") /\ w'[x].pc \in Stamped)
     \/ Ours(x) /\ Stamps(x) /\ (At(x, "stamp") \/ w[x].pc \in Stamped)
     \/ Ours(x) /\ Fails(x) /\ ~At(x, "stamp")
     \/ Ours(x) /\ GivesBack(x) /\ w'[x].pc \notin Stamped
     \/ Ours(x) /\ Commits(x) /\ At(x, "cas") /\ w[x].ok /\ w'[x].pc \notin Stamped

\* Where thread x goes on.
WorkerMoves(x) ==
  /\ w' \in [Workers -> WorkerStates]
  /\ \A y \in Workers : y # x => w'[y] = w[y]
  /\ ~At(x, "idle")
  /\ w'[x] = IdleWorker \/ (w'[x].job = J(x) /\ w'[x].claim = C(x))
  /\ w'[x].pc \in Stamped => At(x, "stamp") \/ w[x].pc \in Stamped

\* What it uploads and removes; ok is what it is going to write.
WorkerBlob(x) ==
  /\ vblob' \in [Jobs -> [body : ClaimIds, seal : ClaimIds]]
  /\ \A j \in Jobs : vblob'[j] = vblob[j] \/ (j = J(x) /\ w[x].pc \in {"body", "seal", "reap"})
  /\ w'[x].pc = "seal" => At(x, "body") /\ vblob'[J(x)].body = C(x)
  /\ w'[x].pc \in {"part", "reap"} =>
       ~w'[x].ok \/ (w[x].pc \in {"part", "reap"} /\ w[x].ok)
  /\ w'[x].pc = "cas" /\ w'[x].ok =>
       \/ w[x].pc \in {"part", "reap"} /\ w[x].ok
       \/ /\ At(x, "seal")
          /\ vblob'[J(x)] = [body |-> vblob[J(x)].body, seal |-> C(x)]

BlobsTyped == vblob \in [Jobs -> [body : ClaimIds, seal : ClaimIds]]

-------------------------------------------------------------------------------
\* The fields the threads write.
LEMMA RowShapes ==
  ASSUME NEW r \in Rows, NEW b \in BOOLEAN
  PROVE  /\ Failed(r, b) \in Rows /\ Failed(r, b).status = "failed"
         /\ Failed(r, b).claim = r.claim
         /\ Done(r) \in Rows /\ Done(r).status = "done" /\ Done(r).claim = r.claim
         /\ Requeued(r, b) \in Rows /\ Requeued(r, b).status = "queued"
         /\ Requeued(r, b).claim = NoClaim
         /\ Tries(Failed(r, b)) /\ Tries(Done(r))
         /\ Requeued(r, b).attempts = r.attempts
<1>1. ExpiresAt \in Expiries
  BY DEF ExpiresAt, Expiries
<1>2. NoClaim \in ClaimIds /\ Fresh \in Ages /\ "none" \in Runtimes
  BY JobStoreAssumption DEF NoClaim, ClaimIds, Fresh, Ages, PastStale, Runtimes
<1>3. {"failed", "done", "queued"} \subseteq Statuses
  BY DEF Statuses
<1> QED
  BY <1>1, <1>2, <1>3 DEF Failed, Done, Requeued, Rows, Tries

LEMMA ThreadTypes ==
  ASSUME VmTypeInv, NEW x \in Workers, ~At(x, "idle")
  PROVE  /\ J(x) \in Jobs /\ C(x) \in ClaimIds /\ C(x) # NoClaim
         /\ row[J(x)] \in Rows /\ row[J(x)].attempts \in 0..MaxAttempts
         /\ Ours(x) => row[J(x)].attempts + 1 \in 1..MaxAttempts
         /\ row[J(x)].status = "running" => row[J(x)].attempts < MaxAttempts
         /\ w[x] \in WorkerStates
<1>1. J(x) \in Jobs /\ C(x) \in ClaimIds /\ C(x) # NoClaim /\ w[x] \in WorkerStates
  BY DEF VmTypeInv, ThreadsTyped, WorkerStates, J, C, At
<1>2. row[J(x)] \in Rows /\ row[J(x)].attempts \in 0..MaxAttempts /\ Tries(row[J(x)])
  BY <1>1 DEF VmTypeInv, RowsTyped, Rows
<1> QED
  BY <1>1, <1>2, JobStoreAssumption DEF Tries, Ours, Matches

\* A claim-fenced write of row r.
LEMMA CasRow ==
  ASSUME VmTypeInv, NEW j, NEW c, NEW r, UpdateIfStatus(j, "running", c, r),
         j \in Jobs /\ Matches(j, "running", c) => r \in Rows /\ Tries(r)
  PROVE  /\ Only(j)
         /\ \/ j \in Jobs => Same(j)
            \/ Matches(j, "running", c) /\ row'[j] = r
<1>1. row \in [Jobs -> Rows] /\ \A i \in Jobs : Tries(row[i])
  BY DEF VmTypeInv, RowsTyped
<1>2. CASE Matches(j, "running", c) /\ j \in Jobs
  <2>1. row' = [row EXCEPT ![j] = r] /\ r \in Rows /\ Tries(r)
    BY <1>2 DEF UpdateIfStatus
  <2>2. row'[j] = r /\ \A i \in Jobs \ {j} : row'[i] = row[i]
    BY <1>1, <1>2, <2>1
  <2>3. row' \in [Jobs -> Rows] /\ \A i \in Jobs : Tries(row'[i])
    BY <1>1, <2>1, <2>2
  <2> QED
    BY <1>2, <2>2, <2>3 DEF UpdateIfStatus, Only, Same
<1>3. CASE ~Matches(j, "running", c) \/ j \notin Jobs
  <2>1. row' = row
    BY <1>1, <1>3 DEF UpdateIfStatus
  <2>2. row' \in [Jobs -> Rows] /\ \A i \in Jobs : Tries(row'[i])
    BY <1>1, <2>1
  <2> QED
    BY <2>1, <2>2 DEF UpdateIfStatus, Only, Same
<1> QED
  BY <1>2, <1>3

LEMMA NoRowChange ==
  ASSUME VmTypeInv, UNCHANGED <<row, issued, submitted>>, NEW j
  PROVE  Only(j) /\ Same(j)
  BY DEF VmTypeInv, RowsTyped, Only, Same

-------------------------------------------------------------------------------
LEMMA MovesWorker ==
  ASSUME VmTypeInv, NEW x \in Workers, WorkerStep(x)
  PROVE  WorkerMoves(x)
<1>a. w \in [Workers -> WorkerStates]
  BY DEF VmTypeInv, ThreadsTyped
<1>i. IdleWorker \in WorkerStates /\ IdleWorker.pc = "idle"
  BY JobStoreAssumption DEF IdleWorker, WorkerStates, WorkerPcs, NoClaim, ClaimIds
<1>w. ASSUME NEW s \in WorkerStates, s = IdleWorker \/ (s.job = J(x) /\ s.claim = C(x)),
             s.pc \in Stamped => At(x, "stamp") \/ w[x].pc \in Stamped,
             w' = [w EXCEPT ![x] = s], ~At(x, "idle")
      PROVE  WorkerMoves(x)
  BY <1>a, <1>w DEF WorkerMoves
<1>r. ASSUME Rest(x), ~At(x, "idle")
      PROVE  WorkerMoves(x)
  BY <1>i, <1>w, <1>r DEF Rest, Stamped
<1>g. ASSUME NEW p \in WorkerPcs, Go(x, p), ~At(x, "idle"),
             p \in Stamped => At(x, "stamp") \/ w[x].pc \in Stamped
      PROVE  WorkerMoves(x)
  <2> DEFINE s == [w[x] EXCEPT !.pc = p]
  <2>1. s \in WorkerStates /\ s.job = J(x) /\ s.claim = C(x) /\ s.pc = p
    BY <1>a DEF WorkerStates, J, C
  <2>2. w' = [w EXCEPT ![x] = s]
    BY <1>g DEF Go
  <2> HIDE DEF s
  <2> QED
    BY <1>w, <1>g, <2>1, <2>2
<1>f. ASSUME NEW b \in BOOLEAN, NEW z \in {"none", "done", "failed"}, ~At(x, "idle"),
             w' = [w EXCEPT ![x] = [w[x] EXCEPT !.pc = "final", !.owned = b, !.term = z]]
      PROVE  WorkerMoves(x)
  <2> DEFINE s == [w[x] EXCEPT !.pc = "final", !.owned = b, !.term = z]
  <2>1. s \in WorkerStates /\ s.job = J(x) /\ s.claim = C(x) /\ s.pc = "final"
    BY <1>a DEF WorkerStates, WorkerPcs, J, C
  <2>2. w' = [w EXCEPT ![x] = s]
    BY <1>f
  <2> HIDE DEF s
  <2> QED
    BY <1>w, <1>f, <2>1, <2>2 DEF Stamped
<1>o. Ours(x) \in BOOLEAN
  BY DEF Ours, Matches
<1>1. CASE Gate(x) \/ Purge(x) \/ Finally(x)
  BY <1>1, <1>r, <1>g DEF Gate, Purge, Finally, At, Stamped, WorkerPcs
<1>2. CASE Stamp(x)
  <2>1. Rest(x) \/ Go(x, "fetch") \/ Go(x, "purge")
    BY <1>2 DEF Stamp
  <2> QED
    BY <1>2, <2>1, <1>r, <1>g DEF Stamp, At, Stamped, WorkerPcs
<1>3. CASE Fetch(x)
  <2>1. \/ \E p \in {"run", "fail", "final"} : Go(x, p)
        \/ w' = [w EXCEPT ![x] = [w[x] EXCEPT !.pc = "final", !.owned = Ours(x),
                                              !.term = "failed"]]
    BY <1>3, <1>a DEF Fetch, StartValidate
  <2> QED
    BY <1>3, <1>o, <2>1, <1>f, <1>g DEF Fetch, At, Stamped, WorkerPcs
<1>4. CASE Join(x)
  <2> DEFINE res == val[C(x)].res
             p == CASE res = "ok" -> "own1"
                    [] res = "bad" -> "cas"
                    [] res = "busy" -> "requeue"
                    [] res = "lost" -> "fail"
             s == [w[x] EXCEPT !.ok = (res = "ok"), !.pc = p]
  <2>1. At(x, "run") /\ res \in Verdicts
    BY <1>4, ThreadTypes DEF Join, At, VmTypeInv, ValsTyped
  <2>2. p \in WorkerPcs /\ p \in Stamped
    BY <2>1 DEF Verdicts, WorkerPcs, Stamped
  <2>3. w' = [w EXCEPT ![x].ok = (res = "ok"), ![x].pc = p]
    BY <1>4, Zenon DEF Join
  <2> HIDE DEF p, res
  <2>5. w' = [w EXCEPT ![x] = s]
    BY <1>a, <2>3 DEF WorkerStates
  <2>4. s \in WorkerStates /\ s.job = J(x) /\ s.claim = C(x) /\ s.pc = p
    BY <1>a, <2>2 DEF WorkerStates, J, C
  <2> HIDE DEF s
  <2> QED
    BY <1>w, <2>1, <2>2, <2>4, <2>5 DEF At, Stamped
<1>5. CASE CheckOwner(x)
  <2>1. \E p \in {"final", "meta", "body"} : Go(x, p)
    BY <1>5 DEF CheckOwner
  <2> QED
    BY <1>5, <2>1, <1>g DEF CheckOwner, At, Stamped, WorkerPcs
<1>6. CASE Timeout(x) \/ EnsureMetadata(x) \/ PutOutput(x) \/ CheckPartial(x) \/ ReapPartial(x)
           \/ WriteFailed(x) \/ Requeue(x) \/ WriteOutcome(x)
  <2>1. w[x].pc \in Stamped
    BY <1>6 DEF Timeout, EnsureMetadata, PutOutput, CheckPartial, ReapPartial, WriteFailed,
       Requeue, WriteOutcome, At, Stamped
  <2>2. \/ \E p \in {"fail", "own2", "seal", "cas", "mark", "reap", "final"} : Go(x, p)
        \/ \E z \in {"done", "failed"} :
             w' = [w EXCEPT ![x] = [w[x] EXCEPT !.pc = "final", !.owned = Ours(x), !.term = z]]
    BY <1>6, <1>a DEF Timeout, EnsureMetadata, PutOutput, CheckPartial, ReapPartial, WriteFailed,
       Requeue, WriteOutcome
  <2> QED
    BY <1>o, <2>1, <2>2, <1>f, <1>g DEF At, Stamped, WorkerPcs
<1>7. CASE MarkPending(x)
  <2> DEFINE s == [w[x] EXCEPT !.pc = "part", !.pend = TRUE, !.ok = FALSE]
  <2>1. s \in WorkerStates /\ s.job = J(x) /\ s.claim = C(x) /\ s.pc = "part"
    BY <1>a DEF WorkerStates, WorkerPcs, J, C
  <2>2. w' = [w EXCEPT ![x] = s] /\ At(x, "mark")
    BY <1>7, <1>a DEF MarkPending
  <2> HIDE DEF s
  <2> QED
    BY <1>w, <2>1, <2>2 DEF At, Stamped
<1> QED
  BY <1>1, <1>2, <1>3, <1>4, <1>5, <1>6, <1>7 DEF WorkerStep

LEMMA RowWorker ==
  ASSUME VmTypeInv, NEW x \in Workers, WorkerStep(x)
  PROVE  WorkerRow(x)
<1>a. WorkerMoves(x)
  BY MovesWorker
<1>b. /\ J(x) \in Jobs /\ C(x) \in ClaimIds /\ row[J(x)] \in Rows
      /\ row[J(x)].attempts \in 0..MaxAttempts
      /\ Ours(x) => row[J(x)].attempts + 1 \in 1..MaxAttempts
      /\ row[J(x)].status = "running" => row[J(x)].attempts < MaxAttempts
  BY <1>a, ThreadTypes DEF WorkerMoves
<1>c. TRUE \in BOOLEAN /\ FALSE \in BOOLEAN
  OBVIOUS
<1>w. w \in [Workers -> WorkerStates]
  BY DEF VmTypeInv, ThreadsTyped
<1>p. \A p : Go(x, p) => w'[x].pc = p
  BY <1>w DEF Go, WorkerStates
<1>f. \A b, z : w' = [w EXCEPT ![x] = [w[x] EXCEPT !.pc = "final", !.owned = b, !.term = z]]
                  => w'[x].pc = "final"
  BY <1>w DEF WorkerStates
<1>i. Rest(x) => w'[x].pc = "idle"
  BY <1>w DEF Rest, IdleWorker
<1>n. ASSUME UNCHANGED noStore, ~(At(x, "stamp") /\ w'[x].pc \in Stamped)
      PROVE  WorkerRow(x)
  BY <1>n, NoRowChange DEF noStore, WorkerRow
<1>q. ASSUME NEW d \in BOOLEAN, w'[x].pc \notin Stamped,
             UpdateIfStatus(J(x), "running", C(x), Requeued(row[J(x)], d))
      PROVE  WorkerRow(x)
  <2> DEFINE r == Requeued(row[J(x)], d)
  <2>1. r \in Rows /\ r.status = "queued" /\ r.claim = NoClaim /\ r.attempts = row[J(x)].attempts
    BY <1>b, RowShapes
  <2>2. UpdateIfStatus(J(x), "running", C(x), r)
    BY <1>q
  <2> HIDE DEF r
  <2> QED
    BY <1>b, <1>q, <2>1, <2>2, CasRow DEF WorkerRow, GivesBack, Ours, Matches, Tries
<1>e. ASSUME NEW d \in BOOLEAN, ~At(x, "stamp"),
             UpdateIfStatus(J(x), "running", C(x), Failed(row[J(x)], d))
      PROVE  WorkerRow(x)
  <2> DEFINE r == Failed(row[J(x)], d)
  <2>1. r \in Rows /\ r.status = "failed" /\ r.claim = row[J(x)].claim /\ Tries(r)
    BY <1>b, RowShapes
  <2>2. UpdateIfStatus(J(x), "running", C(x), r)
    BY <1>e
  <2> HIDE DEF r
  <2> QED
    BY <1>b, <1>e, <2>1, <2>2, CasRow DEF WorkerRow, Fails, Ours, Matches
<1>1. CASE \/ Purge(x) \/ Join(x) \/ Timeout(x) \/ CheckOwner(x) \/ EnsureMetadata(x)
           \/ PutOutput(x) \/ MarkPending(x) \/ CheckPartial(x) \/ ReapPartial(x)
           \/ Finally(x)
  BY <1>1, <1>n DEF Purge, Join, Timeout, CheckOwner, EnsureMetadata, PutOutput, MarkPending,
     CheckPartial, ReapPartial, Finally, At
<1>2. CASE Gate(x)
  <2>1. CASE UNCHANGED noStore
    BY <1>2, <2>1, <1>n DEF Gate, At
  <2>2. CASE \E d \in BOOLEAN :
               UpdateIfStatus(J(x), "running", C(x), Requeued(row[J(x)], d)) /\ Rest(x)
    BY <2>2, <1>q, <1>i DEF Stamped
  <2>3. CASE UpdateIfStatus(J(x), "running", C(x), Failed(row[J(x)], FALSE))
    BY <1>2, <1>c, <2>3, <1>e DEF Gate, At
  <2> QED
    BY <1>2, <2>1, <2>2, <2>3 DEF Gate
<1>3. CASE Stamp(x)
  <2>1. CASE UNCHANGED noStore /\ (Go(x, "purge") \/ Rest(x))
    BY <2>1, <1>n, <1>p, <1>i DEF Stamped
  <2>2. CASE Ours(x) /\ UpdateIfStatus(J(x), "running", C(x),
                                       [row[J(x)] EXCEPT !.runtime = "warm"])
    <3> DEFINE r == [row[J(x)] EXCEPT !.runtime = "warm"]
    <3>1. /\ r \in Rows /\ r.status = row[J(x)].status /\ r.claim = row[J(x)].claim
          /\ r.runtime = "warm" /\ r.attempts = row[J(x)].attempts
      BY <1>b DEF Rows, Runtimes
    <3>2. UpdateIfStatus(J(x), "running", C(x), r)
      BY <2>2
    <3> HIDE DEF r
    <3>3. Only(J(x)) /\ row'[J(x)] = r
      BY <1>b, <2>2, <3>1, <3>2, CasRow DEF Ours, Matches, UpdateIfStatus, VmTypeInv, RowsTyped,
         Tries
    <3> QED
      BY <1>3, <2>2, <3>1, <3>3 DEF WorkerRow, Stamps, Ours, Matches, Stamp
  <2> QED
    BY <1>3, <2>1, <2>2 DEF Stamp
<1>4. CASE Fetch(x)
  <2>0. At(x, "fetch")
    BY <1>4 DEF Fetch
  <2>1. CASE UNCHANGED noStore
    BY <2>0, <2>1, <1>n DEF At
  <2>2. CASE UpdateIfStatus(J(x), "running", C(x), [row[J(x)] EXCEPT !.attempts = 0])
    <3> DEFINE r == [row[J(x)] EXCEPT !.attempts = 0]
    <3>1. /\ r \in Rows /\ r.status = row[J(x)].status /\ r.claim = row[J(x)].claim
          /\ r.runtime = row[J(x)].runtime /\ Tries(r)
      BY <1>b, JobStoreAssumption DEF Rows, Tries
    <3>2. UpdateIfStatus(J(x), "running", C(x), r)
      BY <2>2
    <3> HIDE DEF r
    <3> QED
      BY <1>b, <2>0, <3>1, <3>2, CasRow DEF WorkerRow, Same, At
  <2> DEFINE f == [row[J(x)] EXCEPT !.attempts = row[J(x)].attempts + 1]
  <2>5. Ours(x) => f \in Rows
    BY <1>b DEF Rows
  <2>6. f.claim = row[J(x)].claim /\ f.attempts = row[J(x)].attempts + 1
        /\ f.runtime = row[J(x)].runtime
    BY <1>b DEF Rows
  <2>7. row[J(x)].runtime \in Runtimes
    BY <1>b DEF Rows
  <2>3. CASE UpdateIfStatus(J(x), "running", C(x), Failed(f, FALSE))
    <3> DEFINE r == Failed(f, FALSE)
    <3> HIDE DEF f
    <3>2. Ours(x) => r \in Rows /\ r.status = "failed" /\ r.claim = row[J(x)].claim /\ Tries(r)
      BY <1>c, <2>5, <2>6, RowShapes
    <3>3. UpdateIfStatus(J(x), "running", C(x), r)
      BY <2>3
    <3> HIDE DEF r
    <3> QED
      BY <1>b, <2>0, <3>2, <3>3, CasRow DEF WorkerRow, Fails, Ours, Matches, At
  <2>4. CASE /\ UpdateIfStatus(J(x), "running", C(x),
                               [Requeued(f, TRUE) EXCEPT !.runtime = f.runtime])
             /\ Go(x, "final") /\ f.attempts < MaxAttempts
    <3> DEFINE q == Requeued(f, TRUE)
               r == [q EXCEPT !.runtime = f.runtime]
    <3> HIDE DEF f
    <3>2. Ours(x) => q \in Rows /\ q.status = "queued" /\ q.claim = NoClaim
                     /\ q.attempts = f.attempts
      BY <1>c, <2>5, RowShapes
    <3>3. UpdateIfStatus(J(x), "running", C(x), r)
      BY <2>4
    <3> HIDE DEF q
    <3>4. Ours(x) => r \in Rows /\ r.status = "queued" /\ r.claim = NoClaim /\ Tries(r)
      BY <2>4, <2>6, <2>7, <3>2 DEF Rows, Tries
    <3> HIDE DEF r
    <3>5. w'[x].pc \notin Stamped
      BY <1>p, <2>4 DEF Stamped
    <3> QED
      BY <1>b, <3>3, <3>4, <3>5, CasRow DEF WorkerRow, GivesBack, Ours
  <2>8. ~(f.attempts >= MaxAttempts) => f.attempts < MaxAttempts
    BY <1>b, <2>6, JobStoreAssumption
  <2>9. \/ UNCHANGED noStore
        \/ UpdateIfStatus(J(x), "running", C(x), [row[J(x)] EXCEPT !.attempts = 0])
        \/ UpdateIfStatus(J(x), "running", C(x), Failed(f, FALSE))
        \/ /\ UpdateIfStatus(J(x), "running", C(x),
                             [Requeued(f, TRUE) EXCEPT !.runtime = f.runtime])
           /\ Go(x, "final") /\ ~(f.attempts >= MaxAttempts)
    BY <1>4, <2>6 DEF Fetch
  <2> QED
    BY <2>1, <2>2, <2>3, <2>4, <2>8, <2>9
<1>5. CASE WriteOutcome(x)
  <2>0. At(x, "cas")
    BY <1>5 DEF WriteOutcome
  <2>1. CASE UNCHANGED noStore
    BY <2>0, <2>1, <1>n DEF At
  <2>2. CASE ~w[x].ok /\ UpdateIfStatus(J(x), "running", C(x), Failed(row[J(x)], w[x].pend))
    <3>1. w[x].pend \in BOOLEAN
      BY <1>w DEF WorkerStates
    <3> QED
      BY <2>0, <2>2, <3>1, <1>e DEF At
  <2>3. CASE /\ w[x].ok /\ UpdateIfStatus(J(x), "running", C(x), Done(row[J(x)]))
             /\ w'[x].pc = "final"
    <3> DEFINE r == Done(row[J(x)])
    <3>1. r \in Rows /\ r.status = "done" /\ r.claim = row[J(x)].claim /\ Tries(r)
      BY <1>b, <1>c, RowShapes
    <3>2. UpdateIfStatus(J(x), "running", C(x), r)
      BY <2>3
    <3> HIDE DEF r
    <3> QED
      BY <1>b, <2>0, <2>3, <3>1, <3>2, CasRow DEF WorkerRow, Commits, Ours, Matches, At, Stamped
  <2>4. w[x].ok \in BOOLEAN
    BY <1>w DEF WorkerStates
  <2> QED
    BY <1>5, <1>f, <2>1, <2>2, <2>3, <2>4 DEF WriteOutcome
<1>6. CASE WriteFailed(x)
  BY <1>6, <1>c, <1>n, <1>e DEF WriteFailed, At
<1>7. CASE Requeue(x)
  BY <1>7, <1>c, <1>n, <1>q, <1>p DEF Requeue, At, Stamped
<1> QED
  BY <1>1, <1>2, <1>3, <1>4, <1>5, <1>6, <1>7 DEF WorkerStep

LEMMA BlobWorker ==
  ASSUME VmTypeInv, BlobsTyped, NEW x \in Workers, WorkerStep(x)
  PROVE  WorkerBlob(x)
<1>a. WorkerMoves(x)
  BY MovesWorker
<1>b. J(x) \in Jobs /\ C(x) \in ClaimIds /\ w \in [Workers -> WorkerStates]
  BY <1>a, ThreadTypes DEF WorkerMoves, VmTypeInv, ThreadsTyped
<1>p. \A p : Go(x, p) => w'[x].pc = p /\ w'[x].ok = w[x].ok
  BY <1>b DEF Go, WorkerStates
<1>f. \A b, z : w' = [w EXCEPT ![x] = [w[x] EXCEPT !.pc = "final", !.owned = b, !.term = z]]
                  => w'[x].pc = "final"
  BY <1>b DEF WorkerStates
<1>i. Rest(x) => w'[x].pc = "idle"
  BY <1>b DEF Rest, IdleWorker
<1>n. ASSUME UNCHANGED vblob, w'[x].pc \notin {"seal", "part", "reap", "cas"}
      PROVE  WorkerBlob(x)
  BY <1>n DEF WorkerBlob, BlobsTyped
<1>1. CASE \/ Gate(x) \/ Purge(x) \/ Stamp(x) \/ Fetch(x) \/ Timeout(x) \/ CheckOwner(x)
           \/ EnsureMetadata(x) \/ WriteOutcome(x) \/ WriteFailed(x) \/ Requeue(x)
           \/ Finally(x)
  <2>1. UNCHANGED vblob
    BY <1>1 DEF Gate, Purge, Stamp, Fetch, Timeout, CheckOwner, EnsureMetadata, WriteOutcome,
       WriteFailed, Requeue, Finally, elsewhere
  <2>2. \/ Rest(x) \/ \E p \in {"stamp", "purge", "fetch", "run", "fail", "final", "meta", "body",
                                "own2"} : Go(x, p)
        \/ \E b, z : w' = [w EXCEPT ![x] = [w[x] EXCEPT !.pc = "final", !.owned = b, !.term = z]]
    BY <1>1, <1>b DEF Gate, Purge, Stamp, Fetch, Timeout, CheckOwner, EnsureMetadata,
       WriteOutcome, WriteFailed, Requeue, Finally, StartValidate
  <2> QED
    BY <2>1, <2>2, <1>n, <1>p, <1>f, <1>i
<1>2. CASE Join(x)
  <2>1. UNCHANGED vblob
    BY <1>2 DEF Join, elsewhere
  <2>2. CASE val[C(x)].res = "ok"
    <3>1. w' = [w EXCEPT ![x].ok = TRUE, ![x].pc = "own1"]
      BY <1>2, <2>2 DEF Join
    <3> QED
      BY <1>b, <2>1, <3>1, <1>n DEF WorkerStates
  <2>3. CASE val[C(x)].res # "ok"
    <3>1. w'[x].ok = FALSE
      BY <1>2, <1>b, <2>3 DEF Join, WorkerStates
    <3>2. w'[x].pc # "seal"
      <4>1. val[C(x)].res \in Verdicts
        BY <1>2, <1>b DEF Join, VmTypeInv, ValsTyped
      <4> DEFINE p == CASE val[C(x)].res = "ok" -> "own1"
                        [] val[C(x)].res = "bad" -> "cas"
                        [] val[C(x)].res = "busy" -> "requeue"
                        [] val[C(x)].res = "lost" -> "fail"
      <4>2. p # "seal"
        BY <4>1 DEF Verdicts
      <4>3. w' = [w EXCEPT ![x].ok = (val[C(x)].res = "ok"), ![x].pc = p]
        BY <1>2, Zenon DEF Join
      <4> HIDE DEF p
      <4> QED
        BY <1>b, <4>2, <4>3 DEF WorkerStates
    <3> QED
      BY <2>1, <3>1, <3>2 DEF WorkerBlob, BlobsTyped
  <2> QED
    BY <2>2, <2>3
<1>3. CASE PutOutput(x)
  <2>1. CASE UNCHANGED vblob /\ Go(x, "mark")
    BY <2>1, <1>p, <1>n
  <2>2. CASE At(x, "body") /\ vblob' = [vblob EXCEPT ![J(x)].body = C(x)] /\ Go(x, "seal")
    BY <1>b, <1>p, <2>2 DEF WorkerBlob, BlobsTyped, At
  <2>3. CASE At(x, "seal") /\ vblob' = [vblob EXCEPT ![J(x)].seal = C(x)] /\ Go(x, "cas")
    <3>1. vblob' = [vblob EXCEPT ![J(x)] = [body |-> vblob[J(x)].body, seal |-> C(x)]]
      <4>1. [vblob[J(x)] EXCEPT !.seal = C(x)] = [body |-> vblob[J(x)].body, seal |-> C(x)]
        BY <1>b DEF BlobsTyped
      <4>2. vblob' = [vblob EXCEPT ![J(x)] = [vblob[J(x)] EXCEPT !.seal = C(x)]]
        BY <2>3, Zenon
      <4> QED
        BY <4>1, <4>2
    <3> QED
      BY <1>b, <1>p, <2>3, <3>1 DEF WorkerBlob, BlobsTyped, At
  <2> QED
    BY <1>3, <2>1, <2>2, <2>3 DEF PutOutput, At
<1>4. CASE MarkPending(x)
  <2>1. w'[x].pc = "part" /\ w'[x].ok = FALSE /\ UNCHANGED vblob
    BY <1>4, <1>b DEF MarkPending, WorkerStates
  <2> QED
    BY <2>1 DEF WorkerBlob, BlobsTyped
<1>5. CASE CheckPartial(x)
  <2>1. UNCHANGED vblob /\ At(x, "part") /\ (Go(x, "reap") \/ Go(x, "cas"))
    BY <1>5 DEF CheckPartial, elsewhere
  <2> QED
    BY <1>b, <2>1, <1>p DEF WorkerBlob, BlobsTyped, At, WorkerStates
<1>6. CASE ReapPartial(x)
  <2>1. NoBlob \in [body : ClaimIds, seal : ClaimIds]
    BY JobStoreAssumption DEF NoBlob, NoClaim, ClaimIds
  <2> QED
    BY <1>6, <1>b, <2>1, <1>p DEF ReapPartial, WorkerBlob, BlobsTyped, At, WorkerStates
<1> QED
  BY <1>1, <1>2, <1>3, <1>4, <1>5, <1>6 DEF WorkerStep

-------------------------------------------------------------------------------
\* The validate threads.
LEMMA ValsNext ==
  ASSUME VmTypeInv, [VmNext]_vmVars
  PROVE  ValsTyped'
<1> USE DEF ValsTyped
<1>a. val \in [ClaimIds -> ValStates]
  BY DEF VmTypeInv
<1>u. CASE UNCHANGED val
  BY <1>u DEF VmTypeInv
<1>s. ASSUME NEW c \in ClaimIds, NEW v \in ValStates, v.pc = "over" => v.res \in Verdicts,
             val' = [val EXCEPT ![c] = v]
      PROVE  ValsTyped'
  BY <1>a, <1>s DEF VmTypeInv
<1>1. ASSUME NEW x \in Workers, WorkerStep(x) PROVE ValsTyped'
  <2>1. J(x) \in Jobs /\ C(x) \in ClaimIds /\ H(x) \in AllHosts
    BY <1>1, MovesWorker, ThreadTypes DEF WorkerMoves, H, AllHosts
  <2>2. CASE StartValidate(x)
    <3> DEFINE v == [pc |-> "slot", res |-> "none", job |-> J(x), host |-> H(x)]
    <3>1. v \in ValStates /\ v.pc # "over"
      BY <2>1 DEF ValStates, Jobs
    <3>2. val' = [val EXCEPT ![C(x)] = v]
      BY <2>2 DEF StartValidate
    <3> HIDE DEF v
    <3> QED
      BY <1>s, <2>1, <3>1, <3>2
  <2>3. UNCHANGED val \/ StartValidate(x)
    BY <1>1 DEF WorkerStep, Gate, Purge, Stamp, Fetch, Join, Timeout, CheckOwner, EnsureMetadata,
       PutOutput, MarkPending, CheckPartial, ReapPartial, WriteOutcome, WriteFailed, Requeue,
       Finally, elsewhere
  <2> QED
    BY <2>2, <2>3, <1>u
<1>2. ASSUME NEW c \in ClaimIds, ValidateStep(c) PROVE ValsTyped'
  <2>1. CASE \E p \in {"clear", "post", "write"} : VGo(c, p)
    <3> PICK p \in {"clear", "post", "write"} : VGo(c, p)
      BY <2>1
    <3> DEFINE v == [val[c] EXCEPT !.pc = p]
    <3>1. v \in ValStates /\ v.pc # "over"
      BY <1>a DEF ValStates
    <3>2. val' = [val EXCEPT ![c] = v]
      BY DEF VGo
    <3> HIDE DEF v
    <3> QED
      BY <1>s, <3>1, <3>2
  <2>2. CASE \E res \in Verdicts : End(c, res)
    <3> PICK res \in Verdicts : End(c, res)
      BY <2>2
    <3> DEFINE v == [val[c] EXCEPT !.pc = "over", !.res = res]
    <3>1. v \in ValStates /\ v.res \in Verdicts
      BY <1>a DEF ValStates
    <3>2. val' = [val EXCEPT ![c].pc = "over", ![c].res = res]
      BY DEF End
    <3>3. val' = [val EXCEPT ![c] = v]
      BY <1>a, <3>2 DEF ValStates
    <3> HIDE DEF v
    <3> QED
      BY <1>s, <3>1, <3>3
  <2>3. (\E p \in {"clear", "post", "write"} : VGo(c, p)) \/ (\E res \in Verdicts : End(c, res))
    BY <1>2 DEF ValidateStep, ClaimSlot, ClearOutput, Post, Extract, Verdicts
  <2> QED
    BY <2>1, <2>2, <2>3
<1>3. ASSUME NEW h \in VmHosts, VmCrash(h) PROVE ValsTyped'
  <2>1. NoVal(h) \in ValStates /\ NoVal(h).pc # "over"
    BY JobStoreAssumption DEF NoVal, ValStates, AllHosts
  <2>2. val' = [c \in ClaimIds |-> IF VH(c) = h THEN NoVal(h) ELSE val[c]]
    BY <1>3 DEF VmCrash
  <2> QED
    BY <1>a, <2>1, <2>2 DEF VmTypeInv
<1> DEFINE Others ==
      \/ \E j \in Jobs :
           \/ VmCreate(j) \/ VmAge(j) \/ VmDue(j) \/ PeerRequeues(j)
           \/ \E x \in Workers : VmClaim(x, j)
           \/ \E h \in VmHosts : SweepRead(h, j)
      \/ \E x \in Workers : Heartbeat(x)
      \/ \E h \in VmHosts : SweepFail(h) \/ SweepUnlink(h)
      \/ UNCHANGED vmVars
<1>4. ASSUME Others PROVE ValsTyped'
  BY <1>4, <1>u DEF VmCreate, VmAge, VmDue, PeerRequeues, VmClaim, SweepRead, Heartbeat,
     SweepFail, SweepUnlink, noStore, vmVars, elsewhere
<1>5. \/ \E x \in Workers : WorkerStep(x)
      \/ \E c \in ClaimIds : ValidateStep(c)
      \/ \E h \in VmHosts : VmCrash(h)
      \/ Others
  <2>1. CASE VmNext
    BY <2>1 DEF VmNext
  <2>2. CASE UNCHANGED vmVars
    BY <2>2
  <2> QED
    BY <2>1, <2>2
<1> HIDE DEF Others
<1> QED
  BY <1>1, <1>2, <1>3, <1>4, <1>5

-------------------------------------------------------------------------------
\* What happens around a thread: time, the validate threads, the sweeps of every host, the
\* requeue sweep of a container dispatcher, a crash.  A stamped row is at most failed.
AsideRow(j) ==
  /\ Only(j)
  /\ \/ j \in Jobs => Same(j)
     \/ /\ row[j].status = "running"
        /\ row'[j].status = "failed" /\ row'[j].claim = row[j].claim
     \/ /\ row[j].status = "running" /\ row[j].runtime # "warm"
        /\ row'[j].status = "queued" /\ row'[j].claim = NoClaim

Aside ==
  /\ \E j : AsideRow(j)
  /\ w' \in [Workers -> WorkerStates]
  /\ \A x \in Workers : w'[x] = w[x] \/ w'[x] = IdleWorker
  /\ UNCHANGED vblob

AsideNext ==
  \/ \E j \in Jobs :
       \/ VmAge(j) \/ VmDue(j) \/ PeerRequeues(j)
       \/ \E h \in VmHosts : SweepRead(h, j)
  \/ \E x \in Workers : Heartbeat(x)
  \/ \E c \in ClaimIds : ValidateStep(c)
  \/ \E h \in VmHosts : SweepFail(h) \/ SweepUnlink(h) \/ VmCrash(h)
  \/ UNCHANGED vmVars

LEMMA AsideSteps ==
  ASSUME VmTypeInv, AsideNext
  PROVE  Aside
<1>a. /\ row \in [Jobs -> Rows] /\ \A i \in Jobs : Tries(row[i])
      /\ w \in [Workers -> WorkerStates]
  BY DEF VmTypeInv, RowsTyped, ThreadsTyped
<1>n. ASSUME UNCHANGED noStore PROVE \E j : AsideRow(j)
  BY <1>n, NoRowChange DEF noStore, AsideRow
<1>w. UNCHANGED w => /\ w' \in [Workers -> WorkerStates]
                     /\ \A x \in Workers : w'[x] = w[x] \/ w'[x] = IdleWorker
  BY <1>a
<1>r. ASSUME NEW j \in Jobs, NEW r \in Rows, row' = [row EXCEPT ![j] = r], Tries(r),
             UNCHANGED <<issued, submitted>>
      PROVE  Only(j) /\ row'[j] = r
  <2>1. row'[j] = r /\ \A i \in Jobs \ {j} : row'[i] = row[i]
    BY <1>a, <1>r
  <2>2. row' \in [Jobs -> Rows] /\ \A i \in Jobs : Tries(row'[i])
    BY <1>a, <1>r, <2>1
  <2> QED
    BY <1>r, <2>1, <2>2 DEF Only, Same
<1>1. ASSUME NEW j \in Jobs, VmAge(j) PROVE Aside
  <2> DEFINE r == [row[j] EXCEPT !.age = row[j].age + 1]
  <2>1. r \in Rows /\ r.status = row[j].status /\ r.claim = row[j].claim
        /\ r.runtime = row[j].runtime /\ Tries(r)
    <3>1. row[j] \in Rows /\ row[j].age \in 0..2 /\ row[j].age < 2 /\ Tries(row[j])
      BY <1>a, <1>1 DEF VmAge, Age, Rows, Ages, Fresh, PastStale
    <3>2. row[j].age + 1 \in Ages
      BY <3>1 DEF Ages, Fresh, PastStale
    <3> QED
      BY <3>1, <3>2 DEF Rows, Tries
  <2>2. row' = [row EXCEPT ![j] = r] /\ UNCHANGED <<issued, submitted>>
    BY <1>1 DEF VmAge, Age
  <2> HIDE DEF r
  <2>3. AsideRow(j)
    BY <1>r, <2>1, <2>2 DEF AsideRow, Same
  <2> QED
    BY <1>1, <1>w, <2>3 DEF VmAge, Aside, elsewhere
<1>2. ASSUME NEW j \in Jobs, VmDue(j) PROVE Aside
  <2> DEFINE r == [row[j] EXCEPT !.deferred = FALSE]
  <2>1. r \in Rows /\ r.status = row[j].status /\ r.claim = row[j].claim
        /\ r.runtime = row[j].runtime /\ Tries(r)
    BY <1>a DEF Rows, Tries
  <2>2. row' = [row EXCEPT ![j] = r] /\ UNCHANGED <<issued, submitted>>
    BY <1>2 DEF VmDue, BecomeClaimable
  <2> HIDE DEF r
  <2>3. AsideRow(j)
    BY <1>r, <2>1, <2>2 DEF AsideRow, Same
  <2> QED
    BY <1>2, <1>w, <2>3 DEF VmDue, Aside, elsewhere
<1>3. ASSUME NEW j \in Jobs, PeerRequeues(j) PROVE Aside
  <2> DEFINE r == Requeued(row[j], FALSE)
  <2>1. r \in Rows /\ r.status = "queued" /\ r.claim = NoClaim /\ r.attempts = row[j].attempts
    BY <1>a, RowShapes
  <2>2. row[j].status = "running" /\ row[j].runtime # "warm" /\ Tries(row[j])
    BY <1>3, <1>a DEF PeerRequeues
  <2>3. row' = [row EXCEPT ![j] = r] /\ UNCHANGED <<issued, submitted>>
    BY <1>3 DEF PeerRequeues
  <2> HIDE DEF r
  <2>4. AsideRow(j)
    BY <1>r, <2>1, <2>2, <2>3 DEF AsideRow, Tries
  <2> QED
    BY <1>3, <1>w, <2>4 DEF PeerRequeues, Aside, elsewhere
<1>4. ASSUME NEW h \in VmHosts, SweepFail(h) PROVE Aside
  <2> DEFINE j == sweep[h].job
             c == sweep[h].claim
             r == Failed(row[j], FALSE)
  <2>1. j \in Jobs => r \in Rows /\ r.status = "failed" /\ r.claim = row[j].claim /\ Tries(r)
    BY <1>a, RowShapes
  <2>2. UpdateIfStatus(j, "running", c, r)
    BY <1>4 DEF SweepFail
  <2> HIDE DEF r, j, c
  <2>3. /\ Only(j)
        /\ (j \in Jobs => Same(j)) \/ (Matches(j, "running", c) /\ row'[j] = r)
    BY <2>1, <2>2, CasRow
  <2>4. AsideRow(j)
    BY <2>1, <2>3 DEF AsideRow, Matches
  <2> QED
    BY <1>4, <1>w, <2>4 DEF SweepFail, Aside
<1>5. ASSUME NEW x \in Workers, Heartbeat(x) PROVE Aside
  <2> DEFINE r == [row[J(x)] EXCEPT !.age = Fresh]
  <2>0. J(x) \in Jobs /\ row[J(x)] \in Rows /\ Tries(row[J(x)])
    BY <1>5, <1>a, ThreadTypes DEF Heartbeat, At
  <2>1. r \in Rows /\ r.status = row[J(x)].status /\ r.claim = row[J(x)].claim
        /\ r.runtime = row[J(x)].runtime /\ Tries(r)
    <3>1. Fresh \in Ages
      BY DEF Fresh, Ages, PastStale
    <3> QED
      BY <2>0, <3>1 DEF Rows, Tries
  <2>2. UpdateIfStatus(J(x), "running", C(x), r)
    BY <1>5 DEF Heartbeat
  <2> HIDE DEF r
  <2>3. AsideRow(J(x))
    BY <2>0, <2>1, <2>2, CasRow DEF AsideRow, Same
  <2> QED
    BY <1>5, <1>w, <2>3 DEF Heartbeat, Aside, elsewhere
<1>6. ASSUME NEW h \in VmHosts, VmCrash(h) PROVE Aside
  <2>1. IdleWorker \in WorkerStates
    BY JobStoreAssumption DEF IdleWorker, WorkerStates, WorkerPcs, NoClaim, ClaimIds
  <2>2. w' = [x \in Workers |-> IF H(x) = h THEN IdleWorker ELSE w[x]]
    BY <1>6 DEF VmCrash
  <2> QED
    BY <1>6, <1>a, <1>n, <2>1, <2>2 DEF VmCrash, Aside
<1>7. ASSUME \/ \E j \in Jobs, h \in VmHosts : SweepRead(h, j)
             \/ \E h \in VmHosts : SweepUnlink(h)
             \/ \E c \in ClaimIds : ValidateStep(c)
             \/ UNCHANGED vmVars
      PROVE  Aside
  <2>1. UNCHANGED <<noStore, w, vblob>>
    BY <1>7 DEF SweepRead, SweepUnlink, ValidateStep, ClaimSlot, ClearOutput, Post, Extract, vmVars, noStore
  <2> QED
    BY <2>1, <1>n, <1>w DEF Aside
<1> QED
  BY <1>1, <1>2, <1>3, <1>4, <1>5, <1>6, <1>7 DEF AsideNext

-------------------------------------------------------------------------------
\* The invariant.

\* Claims are handed out once, and in order.
Issued ==
  /\ \A j \in Jobs : row[j].claim <= issued
  /\ \A x \in Workers : ~At(x, "idle") => C(x) <= issued
  /\ \A x, y \in Workers : x # y /\ ~At(x, "idle") /\ ~At(y, "idle") => C(x) # C(y)

\* From the stamp to the terminal write the row is the thread's; others may have failed
\* it, but nobody gives it back, since it is stamped warm as long as it runs.
Held ==
  \A x \in Workers : w[x].pc \in Stamped =>
    /\ row[J(x)].claim = C(x)
    /\ row[J(x)].status \in {"running", "failed"}
    /\ row[J(x)].status = "running" => row[J(x)].runtime = "warm"

\* What a thread has uploaded is still there, and is all it has when it writes DONE.
Uploaded ==
  \A x \in Workers :
    /\ At(x, "seal") => vblob[J(x)].body = C(x)
    /\ w[x].pc \in {"part", "reap"} => ~w[x].ok
    /\ At(x, "cas") /\ w[x].ok => vblob[J(x)] = [body |-> C(x), seal |-> C(x)]

VmInv == VmTypeInv /\ BlobsTyped /\ Issued /\ Held /\ Uploaded /\ VmDoneServesItsResult

LEMMA VmStart == VmInit => VmInv
<1> SUFFICES ASSUME VmInit PROVE VmInv
  OBVIOUS
<1> USE JobStoreAssumption DEF VmInit, StoreInit
<1>1. NoRow \in Rows /\ NoRow.status = "absent" /\ NoRow.claim = NoClaim
  BY DEF NoRow, Rows, Statuses, ClaimIds, NoClaim, Ages, Fresh, PastStale, Runtimes, Expiries
<1>2. RowsTyped
  BY <1>1 DEF RowsTyped, Tries
<1>3. IdleWorker \in WorkerStates /\ IdleWorker.pc = "idle"
  BY DEF IdleWorker, WorkerStates, WorkerPcs, NoClaim, ClaimIds
<1>4. ThreadsTyped
  BY <1>3 DEF ThreadsTyped
<1>5. ValsTyped
  BY DEF ValsTyped, NoVal, ValStates, AllHosts
<1>6. BlobsTyped
  BY DEF BlobsTyped, NoBlob, NoClaim, ClaimIds
<1>7. Issued /\ Held /\ Uploaded /\ VmDoneServesItsResult
  BY <1>1, <1>3 DEF Issued, Held, Uploaded, VmDoneServesItsResult, At, Stamped, NoClaim
<1> QED
  BY <1>2, <1>4, <1>5, <1>6, <1>7 DEF VmInv, VmTypeInv

LEMMA RowsOnly ==
  ASSUME VmTypeInv, NEW j, Only(j), j \in Jobs => Same(j) \/ row[j].status = "running"
  PROVE  RowsTyped'
<1>1. ASSUME NEW i \in Jobs, i > submitted
      PROVE  row'[i].status = "absent" /\ row'[i].claim = NoClaim
  BY <1>1 DEF VmTypeInv, RowsTyped, Only, Same
<1> QED
  BY <1>1 DEF VmTypeInv, RowsTyped, Only

\* A step of a thread.
LEMMA InvWorker ==
  ASSUME VmInv, NEW x \in Workers, WorkerStep(x), ValsTyped'
  PROVE  VmInv'
<1>a. WorkerMoves(x) /\ WorkerRow(x) /\ WorkerBlob(x)
  BY MovesWorker, RowWorker, BlobWorker DEF VmInv
<1>b. J(x) \in Jobs /\ C(x) # NoClaim /\ C(x) \in ClaimIds
  BY <1>a, ThreadTypes DEF WorkerMoves, VmInv
<1>i. IdleWorker.pc = "idle"
  BY DEF IdleWorker
<1>t. RowsTyped' /\ ThreadsTyped' /\ BlobsTyped'
  <2>1. RowsTyped'
    BY <1>a, <1>b, RowsOnly DEF VmInv, WorkerRow, Ours, Matches
  <2>2. ASSUME NEW y \in Workers, w'[y].pc # "idle"
        PROVE  w'[y].job \in Jobs /\ w'[y].claim # NoClaim
    BY <1>a, <1>b, <1>i, <2>2 DEF VmInv, VmTypeInv, ThreadsTyped, WorkerMoves, J, C
  <2> QED
    BY <1>a, <2>1, <2>2 DEF WorkerMoves, WorkerBlob, ThreadsTyped, BlobsTyped, J, C
<1>y. ASSUME NEW y \in Workers, y # x, w[y].pc # "idle"
      PROVE  /\ w'[y] = w[y] /\ J(y) \in Jobs
             /\ C(y) # C(x)
             /\ J(y) = J(x) /\ w[y].pc \in Stamped => Same(J(x)) /\ w[x].pc \notin Stamped
             /\ J(y) # J(x) => Same(J(y))
  <2>1. w'[y] = w[y] /\ J(y) \in Jobs /\ C(y) # C(x)
    BY <1>a, <1>y DEF WorkerMoves, VmInv, VmTypeInv, ThreadsTyped, Issued, At
  <2>2. ASSUME J(y) = J(x), w[y].pc \in Stamped
        PROVE  Same(J(x)) /\ w[x].pc \notin Stamped
    <3>1. row[J(x)].claim = C(y)
      BY <2>2 DEF VmInv, Held
    <3>2. ~Ours(x) /\ w[x].pc \notin Stamped
      BY <2>1, <3>1 DEF VmInv, Held, Ours, Matches
    <3> QED
      BY <1>a, <3>2 DEF WorkerRow
  <2> QED
    BY <1>a, <2>1, <2>2 DEF WorkerRow, Only
<1>x. w'[x].pc # "idle" => w'[x].job = J(x) /\ w'[x].claim = C(x)
  BY <1>a, <1>i DEF WorkerMoves
<1>1. Issued'
  <2>1. \A j \in Jobs : row'[j].claim = row[j].claim \/ row'[j].claim = NoClaim
    BY <1>a, <1>b DEF WorkerRow, Only, Same, Stamps, Fails, GivesBack, Commits, Ours, Matches
  <2>2. \A j \in Jobs : row'[j].claim <= issued'
    BY <1>a, <2>1 DEF VmInv, VmTypeInv, RowsTyped, Issued, WorkerRow, Only, NoClaim
  <2>3. ASSUME NEW y \in Workers, w'[y].pc # "idle"
        PROVE  w[y].pc # "idle" /\ w'[y].claim = C(y)
    BY <1>a, <1>x, <2>3 DEF WorkerMoves, At, C
  <2> QED
    BY <1>a, <2>2, <2>3 DEF VmInv, Issued, WorkerRow, Only, At, C
<1>2. Held'
  <2>1. ASSUME NEW y \in Workers, y # x, w'[y].pc \in Stamped
        PROVE  /\ row'[w'[y].job].claim = w'[y].claim
               /\ row'[w'[y].job].status \in {"running", "failed"}
               /\ row'[w'[y].job].status = "running" => row'[w'[y].job].runtime = "warm"
    <3>1. w'[y] = w[y] /\ w[y].pc \in Stamped /\ w[y].pc # "idle"
      BY <1>a, <2>1 DEF WorkerMoves, Stamped
    <3>2. Same(J(y))
      BY <1>y, <2>1, <3>1
    <3> QED
      BY <3>1, <3>2 DEF VmInv, Held, Same, J, C
  <2>2. ASSUME w'[x].pc \in Stamped
        PROVE  /\ row'[J(x)].claim = C(x)
               /\ row'[J(x)].status \in {"running", "failed"}
               /\ row'[J(x)].status = "running" => row'[J(x)].runtime = "warm"
    <3>1. CASE At(x, "stamp")
      BY <1>a, <2>2, <3>1 DEF WorkerRow, Stamps, At
    <3>2. CASE ~At(x, "stamp")
      <4>1. w[x].pc \in Stamped
        BY <1>a, <2>2, <3>2 DEF WorkerMoves
      <4>2. Same(J(x)) \/ Stamps(x) \/ Fails(x)
        BY <1>a, <2>2 DEF WorkerRow
      <4> QED
        BY <4>1, <4>2 DEF VmInv, Held, Same, Stamps, Fails
    <3> QED
      BY <3>1, <3>2
  <2>3. w'[x].pc \in Stamped => w'[x].job = J(x) /\ w'[x].claim = C(x)
    BY <1>x DEF Stamped
  <2> QED
    BY <2>1, <2>2, <2>3 DEF Held, J, C
<1>3. Uploaded'
  <2>1. ASSUME NEW y \in Workers, y # x
        PROVE  /\ w'[y].pc = "seal" => vblob'[w'[y].job].body = w'[y].claim
               /\ w'[y].pc \in {"part", "reap"} => ~w'[y].ok
               /\ w'[y].pc = "cas" /\ w'[y].ok =>
                    vblob'[w'[y].job] = [body |-> w'[y].claim, seal |-> w'[y].claim]
    <3>1. w'[y] = w[y]
      BY <1>a, <2>1 DEF WorkerMoves
    <3>2. w[y].pc \in {"seal", "cas"} => vblob'[J(y)] = vblob[J(y)]
      BY <1>a, <1>y, <2>1 DEF WorkerBlob, Stamped
    <3> QED
      BY <3>1, <3>2 DEF VmInv, Uploaded, At, J, C
  <2>2. /\ w'[x].pc = "seal" => vblob'[J(x)].body = C(x)
        /\ w'[x].pc \in {"part", "reap"} => ~w'[x].ok
        /\ w'[x].pc = "cas" /\ w'[x].ok => vblob'[J(x)] = [body |-> C(x), seal |-> C(x)]
    BY <1>a DEF WorkerBlob, VmInv, Uploaded, At
  <2> QED
    BY <1>x, <2>1, <2>2 DEF Uploaded, At, J, C
<1>4. VmDoneServesItsResult'
  <2> SUFFICES ASSUME NEW j \in Jobs, row'[j].status = "done"
               PROVE  vblob'[j] = [body |-> row'[j].claim, seal |-> row'[j].claim]
    BY DEF VmDoneServesItsResult
  <2>1. CASE row[j].status = "done"
    <3>1. Same(j)
      BY <1>a, <2>1 DEF WorkerRow, Only, Ours, Matches
    <3>2. vblob'[j] = vblob[j]
      BY <1>a, <2>1 DEF WorkerBlob, VmInv, Held, Stamped
    <3> QED
      BY <2>1, <3>1, <3>2 DEF Same, VmInv, VmDoneServesItsResult
  <2>2. CASE row[j].status # "done"
    <3>1. j = J(x) /\ Commits(x) /\ At(x, "cas") /\ w[x].ok
      BY <1>a, <2>2 DEF WorkerRow, Only, Same, Stamps, Fails, GivesBack
    <3>2. vblob'[j] = vblob[j]
      BY <1>a, <3>1 DEF WorkerBlob, At
    <3> QED
      BY <3>1, <3>2 DEF Commits, VmInv, Uploaded
  <2> QED
    BY <2>1, <2>2
<1> QED
  BY <1>t, <1>1, <1>2, <1>3, <1>4 DEF VmInv, VmTypeInv

\* What goes on around the threads.
LEMMA InvAside ==
  ASSUME VmInv, Aside, ValsTyped'
  PROVE  VmInv'
<1> PICK z : AsideRow(z)
  BY DEF Aside
<1>i. IdleWorker.pc = "idle"
  BY DEF IdleWorker
<1>r. ASSUME NEW j \in Jobs
      PROVE  \/ Same(j)
             \/ /\ row[j].status = "running"
                /\ row'[j].status = "failed" /\ row'[j].claim = row[j].claim
             \/ /\ row[j].status = "running" /\ row[j].runtime # "warm"
                /\ row'[j].status = "queued" /\ row'[j].claim = NoClaim
  BY DEF AsideRow, Only
<1>w. \A y \in Workers : w'[y].pc # "idle" => w'[y] = w[y]
  BY <1>i DEF Aside
<1>t. RowsTyped' /\ ThreadsTyped' /\ BlobsTyped'
  <2>1. RowsTyped'
    BY RowsOnly DEF VmInv, AsideRow
  <2>2. ASSUME NEW y \in Workers, w'[y].pc # "idle"
        PROVE  w'[y].job \in Jobs /\ w'[y].claim # NoClaim
    BY <1>w, <2>2 DEF VmInv, VmTypeInv, ThreadsTyped, J, C
  <2> QED
    BY <2>1, <2>2 DEF Aside, ThreadsTyped, VmInv, BlobsTyped, J, C
<1>1. Issued'
  <2>1. \A j \in Jobs : row'[j].claim <= issued'
    BY <1>r DEF VmInv, VmTypeInv, RowsTyped, Issued, AsideRow, Only, NoClaim, Same
  <2> QED
    BY <1>w, <2>1 DEF VmInv, Issued, AsideRow, Only, At, C
<1>2. Held'
  <2> SUFFICES ASSUME NEW y \in Workers, w'[y].pc \in Stamped
               PROVE  /\ row'[w'[y].job].claim = w'[y].claim
                      /\ row'[w'[y].job].status \in {"running", "failed"}
                      /\ row'[w'[y].job].status = "running" => row'[w'[y].job].runtime = "warm"
    BY DEF Held, J, C
  <2>1. w'[y] = w[y] /\ J(y) \in Jobs
    BY <1>w DEF Stamped, VmInv, VmTypeInv, ThreadsTyped
  <2>2. /\ row[J(y)].claim = C(y) /\ row[J(y)].status \in {"running", "failed"}
        /\ row[J(y)].status = "running" => row[J(y)].runtime = "warm"
    BY <2>1 DEF VmInv, Held
  <2> QED
    BY <1>r, <2>1, <2>2 DEF Same, J, C
<1>3. Uploaded'
  BY <1>w DEF VmInv, Uploaded, Aside, At, J, C
<1>4. VmDoneServesItsResult'
  <2>1. \A j \in Jobs : row'[j].status = "done" =>
          row[j].status = "done" /\ row'[j].claim = row[j].claim
    BY <1>r DEF Same
  <2> QED
    BY <2>1 DEF VmInv, VmDoneServesItsResult, Aside
<1> QED
  BY <1>t, <1>1, <1>2, <1>3, <1>4 DEF VmInv, VmTypeInv

\* A thread takes a row of the queue, which no stamped thread has.
LEMMA InvClaim ==
  ASSUME VmInv, NEW x \in Workers, NEW j \in Jobs, VmClaim(x, j), ValsTyped'
  PROVE  /\ VmInv'
         /\ row[j].status = "queued" /\ row'[j].status = "running" /\ row'[j].claim = issued + 1
         /\ \A i \in Jobs \ {j} : row'[i] = row[i]
         /\ issued + 1 \in 1..MaxClaims /\ issued' = issued + 1
<1>a. /\ row \in [Jobs -> Rows] /\ w \in [Workers -> WorkerStates] /\ issued \in 0..MaxClaims
      /\ MaxClaims \in Nat
  BY JobStoreAssumption DEF VmInv, VmTypeInv, RowsTyped, ThreadsTyped
<1>b. ClaimNext(Jobs, j) /\ row[j].status = "queued" /\ issued < MaxClaims
  BY DEF VmClaim, ClaimNext, Claimable
<1>c. issued + 1 \in ClaimIds /\ issued + 1 \in 1..MaxClaims /\ issued + 1 # NoClaim
  BY <1>a, <1>b DEF ClaimIds, NoClaim
<1> DEFINE r == [row[j] EXCEPT !.status = "running", !.claim = issued + 1, !.age = Fresh]
           s == [IdleWorker EXCEPT !.pc = "gate", !.job = j, !.claim = issued + 1]
<1>d. /\ r \in Rows /\ r.status = "running" /\ r.claim = issued + 1 /\ Tries(r)
  <2>1. row[j] \in Rows /\ Tries(row[j]) /\ Fresh \in Ages /\ "running" \in Statuses
    BY <1>a DEF VmInv, VmTypeInv, RowsTyped, Ages, Fresh, PastStale, Statuses
  <2> QED
    BY <1>b, <1>c, <2>1 DEF Rows, Tries
<1>e. s \in WorkerStates /\ s.pc = "gate" /\ s.job = j /\ s.claim = issued + 1
  <2>1. IdleWorker \in WorkerStates
    BY JobStoreAssumption DEF IdleWorker, WorkerStates, WorkerPcs, NoClaim, ClaimIds
  <2>2. j \in 0..NJobs
    BY JobStoreAssumption DEF Jobs
  <2> QED
    BY <1>c, <2>1, <2>2 DEF WorkerStates, WorkerPcs
<1>f. row' = [row EXCEPT ![j] = r] /\ issued' = issued + 1 /\ submitted' = submitted
  BY <1>b DEF ClaimNext
<1>g. w' = [w EXCEPT ![x] = s] /\ vblob' = vblob
  BY DEF VmClaim, elsewhere
<1> HIDE DEF r, s
<1>h. /\ row'[j] = r /\ \A i \in Jobs \ {j} : row'[i] = row[i]
      /\ row' \in [Jobs -> Rows]
  BY <1>a, <1>d, <1>f
<1>i. /\ w'[x] = s /\ \A y \in Workers \ {x} : w'[y] = w[y]
      /\ w' \in [Workers -> WorkerStates]
  BY <1>a, <1>e, <1>g
<1>1. RowsTyped'
  <2>1. j <= submitted
    BY <1>b DEF VmInv, VmTypeInv, RowsTyped, Jobs
  <2> QED
    BY <1>c, <1>d, <1>f, <1>h, <2>1 DEF VmInv, VmTypeInv, RowsTyped, Jobs
<1>2. ThreadsTyped' /\ BlobsTyped'
  <2>1. \A y \in Workers : w'[y].pc # "idle" => w'[y].job \in Jobs /\ w'[y].claim # NoClaim
    BY <1>c, <1>e, <1>i DEF VmInv, VmTypeInv, ThreadsTyped, J, C
  <2> QED
    BY <1>g, <1>i, <2>1 DEF ThreadsTyped, VmInv, BlobsTyped, J, C
<1>3. Issued'
  <2>1. \A i \in Jobs : row'[i].claim <= issued'
    <3>1. \A i \in Jobs : row[i].claim \in Nat /\ row[i].claim <= issued
      BY <1>a DEF VmInv, Issued, Rows, ClaimIds
    <3> QED
      BY <1>a, <1>d, <1>f, <1>h, <3>1
  <2>2. \A y \in Workers : w[y].pc # "idle" => w[y].claim \in Nat /\ w[y].claim <= issued
    BY <1>a DEF VmInv, Issued, WorkerStates, ClaimIds, At, C
  <2>3. \A y \in Workers : w'[y].pc # "idle" => w'[y].claim <= issued'
    BY <1>a, <1>e, <1>f, <1>i, <2>2
  <2>4. \A y, z \in Workers : y # z /\ w'[y].pc # "idle" /\ w'[z].pc # "idle"
                                => w'[y].claim # w'[z].claim
    BY <1>a, <1>e, <1>i, <2>2 DEF VmInv, Issued, At, C
  <2> QED
    BY <2>1, <2>3, <2>4 DEF Issued, At, C
<1>4. Held'
  <2> SUFFICES ASSUME NEW y \in Workers, w'[y].pc \in Stamped
               PROVE  /\ row'[w'[y].job].claim = w'[y].claim
                      /\ row'[w'[y].job].status \in {"running", "failed"}
                      /\ row'[w'[y].job].status = "running" => row'[w'[y].job].runtime = "warm"
    BY DEF Held, J, C
  <2>1. w'[y] = w[y] /\ J(y) \in Jobs
    BY <1>e, <1>i DEF Stamped, VmInv, VmTypeInv, ThreadsTyped
  <2>2. /\ row[J(y)].claim = C(y) /\ row[J(y)].status \in {"running", "failed"}
        /\ row[J(y)].status = "running" => row[J(y)].runtime = "warm"
    BY <2>1 DEF VmInv, Held
  <2>3. J(y) # j
    BY <1>b, <2>2
  <2> QED
    BY <1>h, <2>1, <2>2, <2>3 DEF J, C
<1>5. Uploaded'
  BY <1>e, <1>g, <1>i DEF VmInv, Uploaded, At, J, C
<1>6. VmDoneServesItsResult'
  BY <1>d, <1>g, <1>h DEF VmInv, VmDoneServesItsResult
<1> QED
  BY <1>1, <1>2, <1>3, <1>4, <1>5, <1>6, <1>b, <1>c, <1>d, <1>f, <1>h DEF VmInv, VmTypeInv

LEMMA InvCreate ==
  ASSUME VmInv, NEW j \in Jobs, VmCreate(j), ValsTyped'
  PROVE  /\ VmInv'
         /\ row[j].status = "absent" /\ row'[j].status = "queued"
         /\ row[j].claim = NoClaim /\ row'[j].claim = NoClaim
         /\ \A i \in Jobs \ {j} : row'[i] = row[i]
         /\ issued' = issued
<1>a. row \in [Jobs -> Rows] /\ submitted \in 0..NJobs /\ issued \in 0..MaxClaims
  BY DEF VmInv, VmTypeInv, RowsTyped
<1>b. /\ j = submitted + 1 /\ submitted' = j /\ row' = [row EXCEPT ![j] = NewRow]
      /\ UNCHANGED <<issued, w, vblob>>
  BY DEF VmCreate, Create, elsewhere
<1>c. NewRow \in Rows /\ NewRow.status = "queued" /\ NewRow.claim = NoClaim /\ Tries(NewRow)
  <2>1. NoRow \in Rows /\ NoRow.claim = NoClaim /\ NoRow.attempts = 0
    BY JobStoreAssumption
       DEF NoRow, Rows, Statuses, ClaimIds, NoClaim, Ages, Fresh, PastStale, Runtimes, Expiries
  <2>2. "queued" \in Statuses
    BY DEF Statuses
  <2> QED
    BY <2>1, <2>2, JobStoreAssumption DEF NewRow, Rows, Tries
<1>d. /\ row'[j] = NewRow /\ \A i \in Jobs \ {j} : row'[i] = row[i]
      /\ row' \in [Jobs -> Rows]
  BY <1>a, <1>b, <1>c
<1>e. row[j].status = "absent" /\ row[j].claim = NoClaim
  BY <1>a, <1>b DEF VmInv, VmTypeInv, RowsTyped
<1>1. RowsTyped'
  BY <1>a, <1>b, <1>c, <1>d DEF VmInv, VmTypeInv, RowsTyped, Jobs
<1>2. ThreadsTyped' /\ BlobsTyped' /\ Uploaded'
  BY <1>b DEF VmInv, VmTypeInv, ThreadsTyped, BlobsTyped, Uploaded, At, J, C
<1>3. Issued'
  BY <1>a, <1>b, <1>c, <1>d DEF VmInv, Issued, At, C, NoClaim
<1>4. Held'
  BY <1>b, <1>d, <1>e DEF VmInv, VmTypeInv, ThreadsTyped, Held, J, C, Stamped
<1>5. VmDoneServesItsResult'
  BY <1>b, <1>c, <1>d DEF VmInv, VmDoneServesItsResult
<1> QED
  BY <1>1, <1>2, <1>3, <1>4, <1>5, <1>b, <1>c, <1>d, <1>e DEF VmInv, VmTypeInv

LEMMA VmCases ==
  ASSUME [VmNext]_vmVars
  PROVE  \/ \E x \in Workers : WorkerStep(x)
         \/ \E x \in Workers, j \in Jobs : VmClaim(x, j)
         \/ \E j \in Jobs : VmCreate(j)
         \/ AsideNext
<1>1. CASE VmNext
  BY <1>1 DEF VmNext, AsideNext
<1>2. CASE UNCHANGED vmVars
  BY <1>2 DEF AsideNext
<1> QED
  BY <1>1, <1>2

LEMMA VmInvNext == VmInv /\ [VmNext]_vmVars => VmInv'
<1> SUFFICES ASSUME VmInv, [VmNext]_vmVars PROVE VmInv'
  OBVIOUS
<1>1. ValsTyped'
  BY ValsNext DEF VmInv
<1>2. CASE \E x \in Workers : WorkerStep(x)
  BY <1>1, <1>2, InvWorker
<1>3. CASE \E x \in Workers, j \in Jobs : VmClaim(x, j)
  BY <1>1, <1>3, InvClaim
<1>4. CASE \E j \in Jobs : VmCreate(j)
  BY <1>1, <1>4, InvCreate
<1>5. CASE AsideNext
  BY <1>1, <1>5, AsideSteps, InvAside DEF VmInv
<1> QED
  BY <1>2, <1>3, <1>4, <1>5, VmCases

\* What the blob store serves for a DONE row is the result of the attempt whose
\* claim the row carries, with any number of dispatchers, also beside ones that
\* requeue what is not stamped, and whatever times out, fails or dies.
THEOREM VmServesItsOwn == VmSpec => []VmDoneServesItsResult
<1>1. VmInv => VmDoneServesItsResult
  BY DEF VmInv
<1> QED
  BY <1>1, VmStart, VmInvNext, PTL DEF VmSpec

-------------------------------------------------------------------------------
\* Each step is one of the life cycle's, or changes nothing it is about.

\* Row j alone changes, as a run does.
Runs(j) ==
  /\ row' \in [Jobs -> Rows] /\ issued' = issued
  /\ \A i \in Jobs \ {j} : Same(i)
  /\ \/ j \in Jobs => Same(j)
     \/ /\ row[j].status = "running" /\ row'[j].claim = row[j].claim
        /\ row'[j].status \in {"running", "done", "failed"}
     \/ /\ row[j].status = "running" /\ row'[j].claim = NoClaim
        /\ row'[j].status = "queued"

LEMMA RunsRefine ==
  ASSUME VmInv, NEW j, Runs(j)
  PROVE  [VmLifecycle!Next]_(VmLifecycle!lifeVars)
<1> DEFINE st == [i \in Jobs |-> row[i].status]
           cl == [i \in Jobs |-> row[i].claim]
<1>a. \A i \in Jobs \ {j} : row'[i].status = row[i].status /\ row'[i].claim = row[i].claim
  BY DEF Runs, Same
<1>u. (1..issued)' = 1..issued
  BY DEF Runs
<1>1. CASE j \in Jobs => row'[j].status = row[j].status /\ row'[j].claim = row[j].claim
  <2>1. st' = st /\ cl' = cl
    BY <1>a, <1>1
  <2> QED
    BY <1>u, <2>1 DEF VmLifecycle!lifeVars
<1>2. CASE /\ j \in Jobs /\ row[j].status = "running" /\ row'[j].claim = row[j].claim
           /\ row'[j].status \in {"done", "failed"}
  <2>1. st' = [st EXCEPT ![j] = row'[j].status] /\ cl' = cl /\ st[j] = "running"
    BY <1>a, <1>2
  <2>2. VmLifecycle!Finish(j)
    BY <1>2, <1>u, <2>1 DEF VmLifecycle!Finish, VmLifecycle!Outcomes
  <2> QED
    BY <1>2, <2>2 DEF VmLifecycle!Next
<1>3. CASE /\ j \in Jobs /\ row[j].status = "running" /\ row'[j].claim = NoClaim
           /\ row'[j].status = "queued"
  <2>1. /\ st' = [st EXCEPT ![j] = "queued"] /\ cl' = [cl EXCEPT ![j] = NoClaim]
        /\ st[j] = "running"
    BY <1>a, <1>3
  <2>2. VmLifecycle!GiveBack(j)
    BY <1>u, <2>1 DEF VmLifecycle!GiveBack, VmLifecycle!Nobody, NoClaim
  <2> QED
    BY <1>3, <2>2 DEF VmLifecycle!Next
<1> QED
  BY <1>1, <1>2, <1>3 DEF Runs, Same

LEMMA StepRefines ==
  ASSUME VmInv, [VmNext]_vmVars
  PROVE  [VmLifecycle!Next]_(VmLifecycle!lifeVars)
<1> DEFINE st == [i \in Jobs |-> row[i].status]
           cl == [i \in Jobs |-> row[i].claim]
<1>v. ValsTyped'
  BY ValsNext DEF VmInv
<1>1. CASE \E x \in Workers : WorkerStep(x)
  <2> PICK x \in Workers : WorkerStep(x)
    BY <1>1
  <2>1. WorkerRow(x)
    BY RowWorker DEF VmInv
  <2>2. Runs(J(x))
    BY <2>1 DEF WorkerRow, Only, Runs, Ours, Matches, Stamps, Fails, GivesBack, Commits
  <2> QED
    BY <2>2, RunsRefine
<1>2. CASE \E x \in Workers, j \in Jobs : VmClaim(x, j)
  <2> PICK x \in Workers, j \in Jobs : VmClaim(x, j)
    BY <1>2
  <2>0. /\ row[j].status = "queued" /\ row'[j].status = "running" /\ row'[j].claim = issued + 1
        /\ \A i \in Jobs \ {j} : row'[i] = row[i]
        /\ issued + 1 \in 1..MaxClaims /\ issued' = issued + 1
    BY <1>v, InvClaim
  <2>1. /\ st' = [st EXCEPT ![j] = "running"] /\ cl' = [cl EXCEPT ![j] = issued + 1]
        /\ st[j] = "queued"
    BY <2>0
  <2>2. issued + 1 \in (1..MaxClaims) \ (1..issued) /\ 1..issued' = (1..issued) \cup {issued + 1}
    BY <2>0 DEF VmInv, VmTypeInv, RowsTyped
  <2>3. VmLifecycle!Take(j)
    BY <2>1, <2>2 DEF VmLifecycle!Take
  <2> QED
    BY <2>3 DEF VmLifecycle!Next
<1>3. CASE \E j \in Jobs : VmCreate(j)
  <2> PICK j \in Jobs : VmCreate(j)
    BY <1>3
  <2>0. /\ row[j].status = "absent" /\ row'[j].status = "queued"
        /\ row[j].claim = NoClaim /\ row'[j].claim = NoClaim
        /\ \A i \in Jobs \ {j} : row'[i] = row[i]
        /\ issued' = issued
    BY <1>v, InvCreate
  <2>1. st' = [st EXCEPT ![j] = "queued"] /\ cl' = cl /\ st[j] = "absent"
    BY <2>0
  <2>2. VmLifecycle!Create(j)
    BY <2>0, <2>1 DEF VmLifecycle!Create
  <2> QED
    BY <2>2 DEF VmLifecycle!Next
<1>4. CASE AsideNext
  <2>1. Aside
    BY <1>4, AsideSteps DEF VmInv
  <2>2. PICK z : AsideRow(z)
    BY <2>1 DEF Aside
  <2>3. Runs(z)
    BY <2>2 DEF AsideRow, Only, Runs
  <2> QED
    BY <2>3, RunsRefine
<1> QED
  BY <1>1, <1>2, <1>3, <1>4, VmCases

\* The network-endpoint dispatcher implements the same life cycle as the container
\* dispatcher: whatever threads, sweeps and crashes do, a client sees the changes of a
\* row it may rely on, and no claim twice.
THEOREM VmImplements == VmSpec => VmImplementsLifecycle
<1>1. VmInit => VmLifecycle!Init
  BY DEF VmInit, StoreInit, NoRow, VmLifecycle!Init, VmLifecycle!Nobody, NoClaim
<1>2. VmInv /\ [VmNext]_vmVars => [VmLifecycle!Next]_(VmLifecycle!lifeVars)
  BY StepRefines
<1> QED
  BY <1>1, <1>2, VmStart, VmInvNext, PTL DEF VmSpec, VmImplementsLifecycle, VmLifecycle!Spec

-------------------------------------------------------------------------------
\* The check of a guest's rootfs

\* The name stands for an image at first, and its absence is none; a VM is booted or restored.
GateConstants == FirstImage \in Images /\ Absent \notin Images /\ WarmSlots \cap Checkers = {}

Files == Images \cup {Absent}
Ids == Files \X Nat
Waypoints == {"none", "open", "judge", "settle", "passed", "started", "booting", "ready",
              "refused", "killed", "stale"}

VmRecords == [pc : Waypoints, key : Ids, held : Ids, found : {"none", "undecided", "drift", "good"},
              opened : Files, ran : Ids, doubt : BOOLEAN]

GateTypeOK ==
  /\ path \in Files
  /\ edits \in [Images -> Nat]
  /\ cache \in [key : Ids, problem : BOOLEAN, sure : BOOLEAN]
  /\ vm \in [Vms -> VmRecords]
  /\ base \in [key : Ids, ran : Ids, doubt : BOOLEAN]

\* A verdict that is kept for good is right.
CacheRight == ~cache.problem /\ cache.sure => cache.key = NoId \/ ~Drift(cache.key)

\* A descriptor's file has at least the edits it had when it was opened; found good, it had none.
HeldRight(v) ==
  /\ vm[v].pc \in {"judge", "settle"} =>
       vm[v].held[1] \in Images /\ vm[v].held[2] <= edits[vm[v].held[1]]
  /\ vm[v].pc = "settle" => vm[v].found # "none"
  /\ vm[v].pc = "settle" /\ vm[v].found = "good" => ~Drift(vm[v].held)

\* What has passed the check is sound, or in doubt; a VM is restored over the file of its base.
Vetted(v) ==
  /\ vm[v].pc \in {"passed", "started", "booting"} => (Drift(vm[v].key) => vm[v].doubt)
  /\ v \in WarmSlots => vm[v].pc \in {"none", "started", "booting", "ready", "stale"}
  /\ v \in WarmSlots /\ vm[v].pc \in {"started", "booting"} => vm[v].key = vm[v].held

BaseVetted == base.key # NoId => base.ran = base.key /\ (Drift(base.key) => base.doubt)

GateInv ==
  /\ GateTypeOK /\ CacheRight /\ BaseVetted
  /\ \A v \in Vms : HeldRight(v) /\ Vetted(v)
  /\ ServesTheCheckedRootfs
Serves(v) ==
  Stands(v, "ready") => (Drift(vm[v].ran) => vm[v].doubt) /\ (v \in WarmSlots => vm[v].ran = vm[v].held)

LEMMA IdentityIsOne ==
  ASSUME GateTypeOK, NEW i \in Files
  PROVE  Identity(i) \in Ids /\ (i \in Images /\ Absent \notin Images => Identity(i) = <<i, edits[i]>>)
BY DEF GateTypeOK, Identity, NoId, Files, Ids, Absent

LEMMA NoVmIsOne ==
  /\ NoVm \in VmRecords /\ NoVm.pc = "none" /\ NoVm.found = "none"
  /\ \A pc \in Waypoints : [NoVm EXCEPT !.pc = pc] \in VmRecords
<1>1. NoId \in Ids /\ Absent \in Files
  BY DEF NoId, Ids, Files, Absent
<1> QED
  BY <1>1 DEF NoVm, VmRecords, Waypoints, Absent

\* A VM bound to an identity, before it is checked and after.
Bound(pc, key) == [NoVm EXCEPT !.pc = pc, !.key = key]
Trusted(pc, key, doubt) == [NoVm EXCEPT !.pc = pc, !.key = key, !.doubt = doubt]

LEMMA NewVm ==
  ASSUME NEW pc \in Waypoints, NEW key \in Ids, NEW doubt \in BOOLEAN
  PROVE  /\ Trusted(pc, key, doubt) \in VmRecords /\ Trusted(pc, key, doubt).pc = pc
         /\ Trusted(pc, key, doubt).key = key /\ Trusted(pc, key, doubt).doubt = doubt
         /\ Bound(pc, key) \in VmRecords /\ Bound(pc, key).pc = pc /\ Bound(pc, key).key = key
<1>1. NoId \in Ids /\ Absent \in Files
  BY DEF NoId, Ids, Files, Absent
<1> DEFINE b == [NoVm EXCEPT !.pc = pc]
           d == [NoVm EXCEPT !.pc = pc, !.key = key]
           c == [NoVm EXCEPT !.pc = pc, !.key = key, !.doubt = doubt]
<1>2. b \in VmRecords /\ b.pc = pc
  BY NoVmIsOne DEF NoVm
<1>3. d = [b EXCEPT !.key = key]
  OBVIOUS
<1>4. c = [d EXCEPT !.doubt = doubt]
  OBVIOUS
<1> HIDE DEF b, c, d
<1>5. d \in VmRecords /\ d.pc = pc /\ d.key = key
  BY <1>2, <1>3 DEF VmRecords
<1>6. c \in VmRecords /\ c.pc = pc /\ c.key = key /\ c.doubt = doubt
  BY <1>4, <1>5 DEF VmRecords
<1>7. c = Trusted(pc, key, doubt) /\ d = Bound(pc, key)
  BY DEF c, d, Trusted, Bound
<1> QED
  BY <1>5, <1>6, <1>7

LEMMA GateInitially ==
  ASSUME GateConstants
  PROVE  GateInit => GateInv
<1> SUFFICES ASSUME GateInit PROVE GateInv
  OBVIOUS
<1>1. NoId \in Ids
  BY DEF NoId, Ids, Files, Absent
<1>2. GateTypeOK
  BY <1>1, NoVmIsOne DEF GateInit, GateTypeOK, GateConstants, NoBase, Files
<1>3. CacheRight /\ BaseVetted
  BY DEF GateInit, CacheRight, BaseVetted, NoBase
<1>4. \A v \in Vms : HeldRight(v) /\ Vetted(v) /\ vm[v].pc = "none"
  BY NoVmIsOne DEF GateInit, HeldRight, Vetted
<1> QED
  BY <1>2, <1>3, <1>4 DEF GateInv, ServesTheCheckedRootfs, Stands

\* A step of one VM: what it must bring about for itself.
LEMMA OneVm ==
  ASSUME GateInv, NEW v \in Vms, NEW c \in VmRecords, Move(v, c), UNCHANGED <<path, edits>>,
         cache' \in [key : Ids, problem : BOOLEAN, sure : BOOLEAN], CacheRight',
         base' \in [key : Ids, ran : Ids, doubt : BOOLEAN], BaseVetted',
         c.pc \in {"judge", "settle"} => c.held[1] \in Images /\ c.held[2] <= edits[c.held[1]],
         c.pc = "settle" => c.found # "none" /\ (c.found = "good" => ~Drift(c.held)),
         c.pc \in {"passed", "started", "booting"} => (Drift(c.key) => c.doubt),
         v \in WarmSlots => c.pc \in {"none", "started", "booting", "ready", "stale"},
         v \in WarmSlots /\ c.pc \in {"started", "booting"} => c.key = c.held,
         c.pc = "ready" => (Drift(c.ran) => c.doubt) /\ (v \in WarmSlots => c.ran = c.held)
  PROVE  GateInv'
<1>1. GateTypeOK /\ (\A u \in Vms : HeldRight(u) /\ Vetted(u) /\ Serves(u))
  BY DEF GateInv, ServesTheCheckedRootfs, Serves
<1>2. vm' = [vm EXCEPT ![v] = c]
  BY DEF Move
<1>3. GateTypeOK'
  BY <1>1, <1>2 DEF GateTypeOK
<1>4. vm'[v] = c /\ \A u \in Vms : u # v => vm'[u] = vm[u]
  BY <1>1, <1>2 DEF GateTypeOK
<1>5. ASSUME NEW u \in Vms
      PROVE  HeldRight(u)' /\ Vetted(u)' /\ Serves(u)'
  <2>1. CASE u = v
    <3>1. HeldRight(v)'
      BY <1>4 DEF HeldRight, Drift
    <3>2. Vetted(v)'
      BY <1>4 DEF Vetted, Drift
    <3>3. Serves(v)'
      BY <1>4 DEF Serves, Stands, Drift
    <3> QED
      BY <2>1, <3>1, <3>2, <3>3
  <2>2. CASE u # v
    <3>1. vm'[u] = vm[u]
      BY <1>4, <2>2
    <3>2. HeldRight(u)'
      BY <1>1, <3>1 DEF HeldRight, Drift
    <3>3. Vetted(u)'
      BY <1>1, <3>1 DEF Vetted, Drift
    <3>4. Serves(u)'
      BY <1>1, <3>1 DEF Serves, Stands, Drift
    <3> QED
      BY <3>2, <3>3, <3>4
  <2> QED
    BY <2>1, <2>2
<1> QED
  BY <1>3, <1>5 DEF GateInv, ServesTheCheckedRootfs, Serves

\* The publisher: a file only gains edits.
LEMMA PublisherKept ==
  ASSUME GateConstants, GateInv, (\E i \in Images \cup {Absent} : Publish(i)) \/ (\E i \in Images : Rewrite(i))
  PROVE  GateInv'
<1>1. GateTypeOK /\ CacheRight /\ BaseVetted /\ (\A u \in Vms : HeldRight(u) /\ Vetted(u)) /\ ServesTheCheckedRootfs
  BY DEF GateInv
<1>2. UNCHANGED <<cache, vm, base>> /\ path' \in Files
  BY <1>1 DEF Publish, Rewrite, GateTypeOK, Files
<1>3. edits' \in [Images -> Nat] /\ \A i \in Images : edits[i] <= edits'[i]
  <2>1. CASE \E i \in Images \cup {Absent} : Publish(i)
    BY <1>1, <2>1 DEF Publish, GateTypeOK
  <2>2. CASE \E i \in Images : Rewrite(i)
    <3>1. PICK i \in Images : Rewrite(i)
      BY <2>2
    <3> QED
      BY <1>1, <3>1 DEF Rewrite, GateTypeOK
  <2> QED
    BY <2>1, <2>2
<1>4. GateTypeOK'
  BY <1>1, <1>2, <1>3 DEF GateTypeOK
<1>5. CacheRight' /\ BaseVetted' /\ ServesTheCheckedRootfs'
  BY <1>1, <1>2 DEF CacheRight, BaseVetted, ServesTheCheckedRootfs, Drift, Stands
<1>6. ASSUME NEW u \in Vms
      PROVE  HeldRight(u)' /\ Vetted(u)'
  <2>1. vm[u].held[2] \in Nat
    BY <1>1 DEF GateTypeOK, VmRecords, Ids
  <2>2. \A i \in Images : edits[i] \in Nat /\ edits'[i] \in Nat
    BY <1>1, <1>3 DEF GateTypeOK
  <2>3. HeldRight(u)'
    BY <1>1, <1>2, <1>3, <2>1, <2>2 DEF HeldRight, Drift
  <2>4. Vetted(u)'
    BY <1>1, <1>2 DEF Vetted, Drift
  <2> QED
    BY <2>3, <2>4
<1> QED
  BY <1>4, <1>5, <1>6 DEF GateInv

\* A VM that has come to its end, or starts anew, asks for nothing.
LEMMA RestsKept ==
  ASSUME GateInv, NEW v \in Vms, NEW pc \in {"none", "refused", "killed", "stale"},
         Move(v, [NoVm EXCEPT !.pc = pc]), UNCHANGED <<path, edits>>,
         v \in WarmSlots => pc \in {"none", "stale"},
         cache' \in [key : Ids, problem : BOOLEAN, sure : BOOLEAN], CacheRight',
         base' \in [key : Ids, ran : Ids, doubt : BOOLEAN], BaseVetted'
  PROVE  GateInv'
<1> DEFINE c == [NoVm EXCEPT !.pc = pc]
<1>1. c \in VmRecords
  BY NoVmIsOne DEF Waypoints
<1>2. c.pc = pc
  BY DEF NoVm
<1>3. Move(v, c)
  OBVIOUS
<1> HIDE DEF c
<1> QED
  BY <1>1, <1>2, <1>3, OneVm

LEMMA BooksStand ==
  ASSUME GateInv, UNCHANGED <<cache, base>>
  PROVE  /\ cache' \in [key : Ids, problem : BOOLEAN, sure : BOOLEAN] /\ CacheRight'
         /\ base' \in [key : Ids, ran : Ids, doubt : BOOLEAN] /\ BaseVetted'
BY DEF GateInv, GateTypeOK, CacheRight, BaseVetted, Drift

LEMMA StatKept ==
  ASSUME GateConstants, GateInv, NEW v \in Vms, Stat(v)
  PROVE  GateInv'
<1>1. GateTypeOK /\ CacheRight
  BY DEF GateInv
<1>2. v \notin WarmSlots /\ path \in Images /\ UNCHANGED <<path, edits, cache, base>>
  BY <1>1 DEF Stat, GateConstants, GateTypeOK, Files
<1> DEFINE key == Identity(path)
<1>3. key \in Ids /\ key # NoId
  BY <1>1, <1>2, IdentityIsOne DEF GateConstants, NoId, Files, Absent
<1>4. /\ cache' \in [key : Ids, problem : BOOLEAN, sure : BOOLEAN] /\ CacheRight'
      /\ base' \in [key : Ids, ran : Ids, doubt : BOOLEAN] /\ BaseVetted'
  BY <1>2, BooksStand
<1>5. \/ Move(v, [NoVm EXCEPT !.pc = "refused"])
      \/ key = cache.key /\ ~cache.problem /\ Move(v, [NoVm EXCEPT !.pc = "passed", !.key = key, !.doubt = ~cache.sure])
      \/ Move(v, [NoVm EXCEPT !.pc = "open", !.key = key])
  BY DEF Stat
<1> HIDE DEF key
<1>6. CASE Move(v, [NoVm EXCEPT !.pc = "refused"])
  BY <1>2, <1>4, <1>6, RestsKept
<1>7. CASE key = cache.key /\ ~cache.problem /\ Move(v, [NoVm EXCEPT !.pc = "passed", !.key = key, !.doubt = ~cache.sure])
  <2> DEFINE doubt == ~cache.sure
             c == [NoVm EXCEPT !.pc = "passed", !.key = key, !.doubt = doubt]
  <2>1. doubt \in BOOLEAN
    OBVIOUS
  <2>2. Drift(key) => doubt
    BY <1>1, <1>3, <1>7 DEF CacheRight
  <2>3. Move(v, c)
    BY <1>7
  <2> HIDE DEF doubt
  <2>4. c = Trusted("passed", key, doubt) /\ "passed" \in Waypoints
    BY DEF Trusted, Waypoints
  <2> HIDE DEF c
  <2>5. c \in VmRecords /\ c.pc = "passed" /\ c.key = key /\ c.doubt = doubt
    BY <1>3, <2>1, <2>4, NewVm
  <2> HIDE DEF c
  <2> QED
    BY <1>2, <1>4, <2>2, <2>3, <2>5, OneVm
<1>8. CASE Move(v, [NoVm EXCEPT !.pc = "open", !.key = key])
  <2> DEFINE c == [NoVm EXCEPT !.pc = "open", !.key = key]
  <2>1. Move(v, c)
    BY <1>8
  <2>2. c = Bound("open", key) /\ "open" \in Waypoints
    BY DEF Bound, Waypoints
  <2> HIDE DEF c
  <2>3. c \in VmRecords /\ c.pc = "open"
    BY <1>3, <2>2, NewVm
  <2> QED
    BY <1>2, <1>4, <2>1, <2>3, OneVm
<1> QED
  BY <1>5, <1>6, <1>7, <1>8

\* No restored VM is checked by name.
LEMMA Unchecked ==
  ASSUME GateInv, NEW v \in Vms, vm[v].pc \in {"open", "judge", "settle", "passed"}
  PROVE  v \notin WarmSlots
BY DEF GateInv, Vetted

LEMMA OpenKept ==
  ASSUME GateConstants, GateInv, NEW v \in Vms, Open(v)
  PROVE  GateInv'
<1>1. GateTypeOK /\ vm[v] \in VmRecords
  BY DEF GateInv, GateTypeOK
<1>2. v \notin WarmSlots /\ UNCHANGED <<path, edits, cache, base>>
  BY Unchecked DEF Open, Stands
<1>3. /\ cache' \in [key : Ids, problem : BOOLEAN, sure : BOOLEAN] /\ CacheRight'
      /\ base' \in [key : Ids, ran : Ids, doubt : BOOLEAN] /\ BaseVetted'
  BY <1>2, BooksStand
<1>4. CASE path = Absent
  BY <1>2, <1>3, <1>4, RestsKept DEF Open
<1>5. CASE path # Absent
  <2> DEFINE held == Identity(path)
             c == [vm[v] EXCEPT !.pc = "judge", !.held = held]
  <2>1. path \in Images /\ path \in Files
    BY <1>1, <1>5 DEF GateTypeOK, Files
  <2>2. held \in Ids /\ held = <<path, edits[path]>>
    BY <1>1, <2>1, IdentityIsOne DEF GateConstants
  <2>3. edits[path] <= edits[path]
    BY <1>1, <2>1 DEF GateTypeOK
  <2>4. Move(v, c)
    BY <1>5 DEF Open
  <2> HIDE DEF held
  <2>5. c \in VmRecords /\ c.pc = "judge" /\ c.held = held
    BY <1>1, <2>2 DEF VmRecords, Waypoints
  <2> HIDE DEF c
  <2>6. c.held[1] \in Images /\ c.held[2] <= edits[c.held[1]]
    BY <2>1, <2>2, <2>3, <2>5
  <2> QED
    BY <1>2, <1>3, <2>4, <2>5, <2>6, OneVm
<1> QED
  BY <1>4, <1>5

LEMMA JudgeKept ==
  ASSUME GateConstants, GateInv, NEW v \in Vms, Judge(v)
  PROVE  GateInv'
<1>1. GateTypeOK /\ vm[v] \in VmRecords /\ HeldRight(v) /\ vm[v].pc = "judge"
  BY DEF GateInv, GateTypeOK, Judge, Stands
<1>2. v \notin WarmSlots /\ UNCHANGED <<path, edits, cache, base>>
  BY <1>1, Unchecked DEF Judge
<1>3. /\ cache' \in [key : Ids, problem : BOOLEAN, sure : BOOLEAN] /\ CacheRight'
      /\ base' \in [key : Ids, ran : Ids, doubt : BOOLEAN] /\ BaseVetted'
  BY <1>2, BooksStand
<1> DEFINE h == vm[v].held
<1>4. h[1] \in Images /\ h[2] <= edits[h[1]] /\ h[2] \in Nat /\ edits[h[1]] \in Nat
  BY <1>1 DEF HeldRight, VmRecords, Ids, GateTypeOK
<1>5. Identity(h[1]) = <<h[1], edits[h[1]]>>
  BY <1>1, <1>4, IdentityIsOne DEF GateConstants, Files
<1>6. PICK found \in {"undecided", "drift", "good"} :
         /\ Move(v, [vm[v] EXCEPT !.pc = "settle", !.found = found])
         /\ found = "good" => ~Drift(Identity(h[1]))
  BY DEF Judge
<1> DEFINE c == [vm[v] EXCEPT !.pc = "settle", !.found = found]
<1>7. c \in VmRecords /\ c.pc = "settle" /\ c.held = h /\ c.found = found
  BY <1>1 DEF VmRecords, Waypoints
<1>8. found = "good" => ~Drift(h)
  BY <1>4, <1>5, <1>6 DEF Drift
<1>9. Move(v, c)
  BY <1>6
<1> HIDE DEF c, h
<1> QED
  BY <1>2, <1>3, <1>4, <1>7, <1>8, <1>9, OneVm

LEMMA SettleKept ==
  ASSUME GateConstants, GateInv, NEW v \in Vms, Settle(v)
  PROVE  GateInv'
<1>1. GateTypeOK /\ CacheRight /\ BaseVetted /\ vm[v] \in VmRecords /\ HeldRight(v) /\ vm[v].pc = "settle"
  BY DEF GateInv, GateTypeOK, Settle, Stands
<1>2. v \notin WarmSlots /\ UNCHANGED <<path, edits, base>>
  BY <1>1, Unchecked DEF Settle
<1>3. base' \in [key : Ids, ran : Ids, doubt : BOOLEAN] /\ BaseVetted'
  BY <1>1, <1>2 DEF GateTypeOK, BaseVetted, Drift
<1> DEFINE r == vm[v]
<1>4. r.key \in Ids /\ r.found \in {"none", "undecided", "drift", "good"}
  BY <1>1 DEF VmRecords
<1>5. r.found = "good" /\ r.held = r.key => ~Drift(r.key)
  BY <1>1 DEF HeldRight
<1>6. SameThroughout(v) => r.held = r.key
  BY DEF SameThroughout
<1>7. r.found \in {"undecided", "drift", "good"}
  BY <1>1, <1>4 DEF HeldRight
<1>8. cache' \in [key : Ids, problem : BOOLEAN, sure : BOOLEAN] /\ CacheRight'
  <2>1. CASE SameThroughout(v)
    <3> DEFINE bad == r.found = "drift"
               firm == r.found # "undecided"
    <3>1. bad \in BOOLEAN /\ firm \in BOOLEAN
      OBVIOUS
    <3>2. cache' = [key |-> r.key, problem |-> bad, sure |-> firm]
      BY <2>1 DEF Settle
    <3>3. ~bad /\ firm => ~Drift(r.key)
      BY <1>5, <1>6, <1>7, <2>1
    <3> HIDE DEF bad, firm
    <3>4. cache'.key = r.key /\ cache'.problem = bad /\ cache'.sure = firm
      BY <3>2
    <3>5. CacheRight'
      BY <3>3, <3>4 DEF CacheRight, Drift
    <3> QED
      BY <1>4, <3>1, <3>2, <3>5
  <2>2. CASE ~SameThroughout(v)
    BY <1>1, <2>2 DEF Settle, GateTypeOK, CacheRight, Drift
  <2> QED
    BY <2>1, <2>2
<1>9. CASE (~SameThroughout(v) /\ r.held # r.key) \/ r.found = "drift"
  BY <1>2, <1>3, <1>8, <1>9, RestsKept DEF Settle
<1>10. CASE ~((~SameThroughout(v) /\ r.held # r.key) \/ r.found = "drift")
  <2> DEFINE doubt == r.found = "undecided"
             c == [NoVm EXCEPT !.pc = "passed", !.key = r.key, !.doubt = doubt]
  <2>1. Move(v, c)
    BY <1>10 DEF Settle
  <2>2. doubt \in BOOLEAN
    OBVIOUS
  <2>3. Drift(r.key) => doubt
    BY <1>5, <1>6, <1>7, <1>10
  <2> HIDE DEF doubt
  <2>4. c = Trusted("passed", r.key, doubt) /\ "passed" \in Waypoints
    BY DEF Trusted, Waypoints
  <2> HIDE DEF c
  <2>5. c \in VmRecords /\ c.pc = "passed" /\ c.key = r.key /\ c.doubt = doubt
    BY <1>4, <2>2, <2>4, NewVm
  <2> QED
    BY <1>2, <1>3, <1>8, <2>1, <2>3, <2>5, OneVm
<1> QED
  BY <1>9, <1>10

LEMMA StartKept ==
  ASSUME GateConstants, GateInv, NEW v \in Vms, Start(v)
  PROVE  GateInv'
<1>1. GateTypeOK /\ vm[v] \in VmRecords /\ Vetted(v) /\ vm[v].pc = "passed"
  BY DEF GateInv, GateTypeOK, Start, Stands
<1>2. v \notin WarmSlots /\ UNCHANGED <<path, edits, cache, base>>
  BY <1>1, Unchecked DEF Start
<1>3. /\ cache' \in [key : Ids, problem : BOOLEAN, sure : BOOLEAN] /\ CacheRight'
      /\ base' \in [key : Ids, ran : Ids, doubt : BOOLEAN] /\ BaseVetted'
  BY <1>2, BooksStand
<1>4. CASE Move(v, [NoVm EXCEPT !.pc = "refused"])
  BY <1>2, <1>3, <1>4, RestsKept
<1>5. CASE Move(v, [vm[v] EXCEPT !.pc = "started"])
  <2> DEFINE c == [vm[v] EXCEPT !.pc = "started"]
  <2>1. c \in VmRecords /\ c.pc = "started" /\ c.key = vm[v].key /\ c.doubt = vm[v].doubt
    BY <1>1 DEF VmRecords, Waypoints
  <2>2. Drift(c.key) => c.doubt
    BY <1>1, <2>1 DEF Vetted
  <2>3. Move(v, c)
    BY <1>5
  <2> HIDE DEF c
  <2> QED
    BY <1>2, <1>3, <2>1, <2>2, <2>3, OneVm
<1> QED
  BY <1>4, <1>5 DEF Start

LEMMA OpenDriveKept ==
  ASSUME GateConstants, GateInv, NEW v \in Vms, OpenDrive(v)
  PROVE  GateInv'
<1>1. GateTypeOK /\ vm[v] \in VmRecords /\ Vetted(v) /\ vm[v].pc = "started"
  BY DEF GateInv, GateTypeOK, OpenDrive, Stands
<1>2. UNCHANGED <<path, edits, cache, base>>
  BY DEF OpenDrive
<1>3. /\ cache' \in [key : Ids, problem : BOOLEAN, sure : BOOLEAN] /\ CacheRight'
      /\ base' \in [key : Ids, ran : Ids, doubt : BOOLEAN] /\ BaseVetted'
  BY <1>2, BooksStand
<1> DEFINE c == [vm[v] EXCEPT !.pc = "booting", !.opened = path]
<1>4. path \in Files
  BY <1>1 DEF GateTypeOK
<1>5. /\ c \in VmRecords /\ c.pc = "booting" /\ c.key = vm[v].key /\ c.doubt = vm[v].doubt
      /\ c.held = vm[v].held
  BY <1>1, <1>4 DEF VmRecords, Waypoints
<1>6. Move(v, c)
  BY DEF OpenDrive
<1> HIDE DEF c
<1>7. (Drift(c.key) => c.doubt) /\ (v \in WarmSlots => c.key = c.held)
  BY <1>1, <1>5 DEF Vetted
<1> QED
  BY <1>2, <1>3, <1>5, <1>6, <1>7, OneVm

\* The VM is served on the drive whose identity its key is.
LEMMA Served ==
  ASSUME GateConstants, GateInv, NEW v \in Vms, Stands(v, "booting"), OpenedMatches(v),
         Move(v, [vm[v] EXCEPT !.pc = "ready", !.ran = Identity(vm[v].opened)]),
         UNCHANGED <<path, edits, cache, base>>
  PROVE  GateInv'
<1>1. GateTypeOK /\ vm[v] \in VmRecords /\ Vetted(v) /\ vm[v].pc = "booting"
  BY DEF GateInv, GateTypeOK, Stands
<1>2. /\ cache' \in [key : Ids, problem : BOOLEAN, sure : BOOLEAN] /\ CacheRight'
      /\ base' \in [key : Ids, ran : Ids, doubt : BOOLEAN] /\ BaseVetted'
  BY BooksStand
<1> DEFINE ran == Identity(vm[v].opened)
           c == [vm[v] EXCEPT !.pc = "ready", !.ran = ran]
<1>3. ran = vm[v].key
  BY DEF OpenedMatches
<1>4. ran \in Ids
  BY <1>1, <1>3 DEF VmRecords
<1>5. Move(v, c)
  OBVIOUS
<1> HIDE DEF ran
<1>6. /\ c \in VmRecords /\ c.pc = "ready" /\ c.ran = ran /\ c.doubt = vm[v].doubt
      /\ c.held = vm[v].held
  BY <1>1, <1>4 DEF VmRecords, Waypoints
<1> HIDE DEF c
<1>7. (Drift(c.ran) => c.doubt) /\ (v \in WarmSlots => c.ran = c.held)
  BY <1>1, <1>3, <1>6 DEF Vetted
<1> QED
  BY <1>2, <1>5, <1>6, <1>7, OneVm

LEMMA CheckpointKept ==
  ASSUME GateConstants, GateInv, Checkpoint
  PROVE  GateInv'
<1>1. Builder \in Vms /\ Builder \notin WarmSlots
  BY DEF GateConstants, Checkers, Vms
<1> DEFINE r == vm[Builder]
<1>2. GateTypeOK /\ r \in VmRecords /\ Vetted(Builder) /\ r.pc = "booting"
  BY <1>1 DEF GateInv, GateTypeOK, Checkpoint, Stands
<1>3. UNCHANGED <<path, edits, cache>> /\ Move(Builder, NoVm)
  BY DEF Checkpoint
<1>4. r.key \in Ids /\ r.doubt \in BOOLEAN /\ (Drift(r.key) => r.doubt)
  BY <1>2 DEF VmRecords, Vetted
<1>5. cache' \in [key : Ids, problem : BOOLEAN, sure : BOOLEAN] /\ CacheRight'
  BY <1>3 DEF GateInv, GateTypeOK, CacheRight, Drift
<1>6. base' \in [key : Ids, ran : Ids, doubt : BOOLEAN] /\ BaseVetted'
  <2>1. CASE OpenedMatches(Builder)
    <3>1. base' = [key |-> r.key, ran |-> r.key, doubt |-> r.doubt]
      BY <2>1 DEF Checkpoint, OpenedMatches
    <3>2. base'.key = r.key /\ base'.ran = r.key /\ base'.doubt = r.doubt
      BY <3>1
    <3>3. BaseVetted'
      BY <1>4, <3>2 DEF BaseVetted, Drift
    <3> QED
      BY <1>4, <3>1, <3>3
  <2>2. CASE ~OpenedMatches(Builder)
    BY <2>2 DEF Checkpoint, GateInv, GateTypeOK, BaseVetted, Drift
  <2> QED
    BY <2>1, <2>2
<1>7. [NoVm EXCEPT !.pc = "none"] = NoVm
  BY NoVmIsOne DEF VmRecords
<1>8. Move(Builder, [NoVm EXCEPT !.pc = "none"])
  BY <1>3, <1>7
<1> QED
  BY <1>1, <1>3, <1>5, <1>6, <1>8, RestsKept

LEMMA RestoreBeginsKept ==
  ASSUME GateConstants, GateInv, NEW v \in Vms, RestoreBegins(v)
  PROVE  GateInv'
<1>1. GateTypeOK /\ BaseVetted /\ base.key # NoId
  BY DEF GateInv, RestoreBegins
<1>2. UNCHANGED <<path, edits, cache, base>>
  BY DEF RestoreBegins
<1>3. /\ cache' \in [key : Ids, problem : BOOLEAN, sure : BOOLEAN] /\ CacheRight'
      /\ base' \in [key : Ids, ran : Ids, doubt : BOOLEAN] /\ BaseVetted'
  BY <1>2, BooksStand
<1>4. CASE Move(v, [NoVm EXCEPT !.pc = "stale"])
  BY <1>2, <1>3, <1>4, RestsKept
<1>5. CASE Move(v, [NoVm EXCEPT !.pc = "started", !.key = base.key, !.doubt = base.doubt, !.held = base.ran])
  <2> DEFINE b == [NoVm EXCEPT !.pc = "started", !.key = base.key, !.doubt = base.doubt]
             c == [NoVm EXCEPT !.pc = "started", !.key = base.key, !.doubt = base.doubt, !.held = base.ran]
  <2>1. /\ base.key \in Ids /\ base.doubt \in BOOLEAN /\ base.ran = base.key
        /\ (Drift(base.key) => base.doubt)
    BY <1>1 DEF GateTypeOK, BaseVetted
  <2>2. b = Trusted("started", base.key, base.doubt) /\ "started" \in Waypoints
    BY DEF Trusted, Waypoints
  <2>3. c = [b EXCEPT !.held = base.ran]
    OBVIOUS
  <2>4. Move(v, c)
    BY <1>5
  <2> HIDE DEF b, c
  <2>5. b \in VmRecords /\ b.pc = "started" /\ b.key = base.key /\ b.doubt = base.doubt
    BY <2>1, <2>2, NewVm
  <2>6. c \in VmRecords /\ c.pc = "started" /\ c.key = base.key /\ c.doubt = base.doubt /\ c.held = base.ran
    BY <2>1, <2>3, <2>5 DEF VmRecords
  <2> QED
    BY <1>2, <1>3, <2>1, <2>4, <2>6, OneVm
<1> QED
  BY <1>4, <1>5 DEF RestoreBegins

LEMMA ReapKept ==
  ASSUME GateConstants, GateInv, NEW v \in Vms, Reap(v)
  PROVE  GateInv'
<1>1. UNCHANGED <<path, edits, cache, base>> /\ Move(v, NoVm)
  BY DEF Reap
<1>2. [NoVm EXCEPT !.pc = "none"] = NoVm
  BY NoVmIsOne DEF VmRecords
<1>3. Move(v, [NoVm EXCEPT !.pc = "none"])
  BY <1>1, <1>2
<1> QED
  BY <1>1, <1>3, BooksStand, RestsKept

LEMMA GateStep ==
  ASSUME GateConstants
  PROVE  GateInv /\ [GateNext]_gateVars => GateInv'
<1> SUFFICES ASSUME GateInv, [GateNext]_gateVars PROVE GateInv'
  OBVIOUS
<1>1. CASE (\E i \in Images \cup {Absent} : Publish(i)) \/ (\E i \in Images : Rewrite(i))
  BY <1>1, PublisherKept
<1>2. ASSUME NEW v \in Vms,
             \/ Stat(v) \/ Open(v) \/ Judge(v) \/ Settle(v) \/ Start(v) \/ OpenDrive(v)
             \/ NotReadyYet(v) \/ Promote(v) \/ RestoreBegins(v) \/ RestoreEnds(v) \/ Reap(v)
      PROVE  GateInv'
  <2>1. CASE Stat(v)
    BY <2>1, StatKept
  <2>2. CASE Open(v)
    BY <2>2, OpenKept
  <2>3. CASE Judge(v)
    BY <2>3, JudgeKept
  <2>4. CASE Settle(v)
    BY <2>4, SettleKept
  <2>5. CASE Start(v)
    BY <2>5, StartKept
  <2>6. CASE OpenDrive(v)
    BY <2>6, OpenDriveKept
  <2>7. CASE NotReadyYet(v)
    <3>1. v \notin WarmSlots
      BY <2>7 DEF NotReadyYet, GateConstants, Checkers
    <3> QED
      BY <2>7, <3>1, BooksStand, RestsKept DEF NotReadyYet
  <2>8. CASE Promote(v)
    BY <2>8, Served DEF Promote
  <2>9. CASE RestoreBegins(v)
    BY <2>9, RestoreBeginsKept
  <2>10. CASE RestoreEnds(v)
    <3>1. UNCHANGED <<path, edits, cache, base>> /\ Stands(v, "booting")
      BY <2>10 DEF RestoreEnds
    <3>2. CASE OpenedMatches(v)
      BY <2>10, <3>1, <3>2, Served DEF RestoreEnds
    <3>3. CASE ~OpenedMatches(v)
      BY <2>10, <3>1, <3>3, BooksStand, RestsKept DEF RestoreEnds
    <3> QED
      BY <3>2, <3>3
  <2>11. CASE Reap(v)
    BY <2>11, ReapKept
  <2> QED
    BY <1>2, <2>1, <2>2, <2>3, <2>4, <2>5, <2>6, <2>7, <2>8, <2>9, <2>10, <2>11
<1>3. CASE Checkpoint
  BY <1>3, CheckpointKept
<1>4. CASE UNCHANGED gateVars
  BY <1>4 DEF gateVars, GateInv, GateTypeOK, CacheRight, BaseVetted, HeldRight, Vetted, ServesTheCheckedRootfs, Drift, Stands
<1> QED
  BY <1>1, <1>2, <1>3, <1>4 DEF GateNext

\* A guest that serves runs a rootfs that passed the check, a restored one the very rootfs its
\* memory image was taken over, through every republication and rewrite
\* (rootfs_stamp.GuestGate.checked, firecracker.is_ready, fc_snapshot_launcher's RootfsPin).
THEOREM CheckedRootfsServed ==
  ASSUME GateConstants
  PROVE  GateSpec => []ServesTheCheckedRootfs
<1>1. GateInit => GateInv
  BY GateInitially
<1>2. GateInv /\ [GateNext]_gateVars => GateInv'
  BY GateStep
<1>3. GateInv => ServesTheCheckedRootfs
  BY DEF GateInv
<1> QED
  BY <1>1, <1>2, <1>3, PTL DEF GateSpec
=============================================================================
