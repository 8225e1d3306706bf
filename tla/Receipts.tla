------------------------------ MODULE Receipts ------------------------------
(***************************************************************************)
(* Execution receipts (host/attest.py): how the dispatcher seals a result   *)
(* tree with a signed receipt or a tombstone and a marker that vouches for  *)
(* it, how the tree's three deciding objects reach the result store         *)
(* (blobs/base.py _upload_tiers, put_output), how retained and legacy trees *)
(* are sanitised before they are shipped (jobs/retention.py), how           *)
(* `migrate-results --remark` marks receipts stored without a marker, how   *)
(* the attestation route reads the three objects (ingress/app.py) and what  *)
(* the client makes of the answer (client/verify.py).                       *)
(*                                                                         *)
(* One job.  An object is its author and the envelope it is bound to.       *)
(* Fresh trees may be uploaded by two owners at once (a fenced-out owner    *)
(* and its successor); a legacy tree belongs to a settled row, so its       *)
(* as-is upload overlaps no other.                                          *)
(***************************************************************************)
EXTENDS Integers, Sequences, FiniteSets

CONSTANTS
    FreshTrees,     \* trees of attempts run by this release, gate-verified
    LegacyTrees,    \* trees accepted by releases that reserved no names
    MaxDeaths       \* bound: uploads that die part-way, and failed writes

VARIABLES
    stored,         \* the result prefix: its envelope, receipt and marker
    tree,           \* each local tree: its receipt, marker and declaration
    stage,          \* "made", "sealed", "held", "up" or "shipped"
    todo,           \* the objects an upload has still to store
    rowDone,        \* the row is DONE: the route answers
    reader,         \* one client request, read by read
    remark,         \* the re-mark pass over this job
    deaths

receiptVars == <<stored, tree, stage, todo, rowDone, reader, remark, deaths>>

Trees == FreshTrees \cup LegacyTrees
Absent == [by |-> "none", of |-> 0]
By(author, e) == [by |-> author, of |-> e]
\* The envelope an older release stored; trees are numbered from 1 up.
OldEnvelope == 100

Idle0 == [at |-> "idle", m |-> Absent, e |-> 0, r |-> Absent, sees |-> 0]
Legacy(t) == t \in LegacyTrees

\* What a worker may have left in a tree: a receipt of its own, and junk at the marker's name.
WorkerLeft(t) ==
    [receipt : {Absent, By("worker", t)}, marker : {Absent, By("worker", t)},
     declares : IF Legacy(t) THEN {"nothing", "receipt", "marker"} ELSE {"nothing"}]

\* A prefix is empty, or holds a tree shipped verbatim by a release without markers.
Verbatim ==
    {[env |-> 0, receipt |-> Absent, marker |-> Absent]} \cup
    [env : {OldEnvelope}, receipt : {By("host", OldEnvelope), By("worker", OldEnvelope)},
     marker : {Absent, By("worker", OldEnvelope)}]

ReceiptInit ==
    /\ stored \in Verbatim
    /\ tree \in {f \in [Trees -> UNION {WorkerLeft(t) : t \in Trees}] :
                    \A t \in Trees : f[t] \in WorkerLeft(t)}
    /\ stage = [t \in Trees |-> "made"]
    /\ todo = [t \in Trees |-> << >>]
    /\ rowDone = (stored.env # 0)
    /\ reader = Idle0
    /\ remark = Idle0
    /\ deaths = 0

(***************************************************************************)
(* Sealing a tree.                                                          *)
(***************************************************************************)
Cleared(m) == m.by = "cleared"

\* tree_receipt_path_protection: the envelope's say on the reserved names.
Protected(t) == tree[t].declares # "nothing"

\* seal_receipt: the receipt of an observed run, or a tombstone, then the marker bound to it.
SealReceipt(t, r) ==
    tree' = [tree EXCEPT ![t].receipt = r, ![t].marker = By("cleared", t)]

\* seal_fresh_receipt, through the dispatcher's _seal_receipt.
SealFresh(t) ==
    /\ t \in FreshTrees /\ stage[t] = "made"
    /\ \E r \in {By("host", t), By("tomb", 0)} : SealReceipt(t, r)
    /\ stage' = [stage EXCEPT ![t] = "sealed"]
    /\ UNCHANGED <<stored, todo, rowDone, reader, remark, deaths>>

\* ReceiptMarkerUnwritten, or nothing could be written: the tree is retained, never uploaded.
SealFreshFails(t) ==
    /\ t \in FreshTrees /\ stage[t] = "made" /\ deaths < MaxDeaths
    /\ deaths' = deaths + 1
    /\ \E r \in {By("host", t), tree[t].receipt} :
          tree' = [tree EXCEPT ![t].receipt = r,
                               ![t].marker = IF r.by = "host" THEN Absent ELSE @]
    /\ stage' = [stage EXCEPT ![t] = "held"]
    /\ UNCHANGED <<stored, todo, rowDone, reader, remark>>

\* tree_receipt_is_ours: a signature of this host for this job over this envelope.
ReceiptIsOurs(t) == tree[t].receipt = By("host", t)

\* write_withheld_marker keeps the host's own marker and replaces junk, but never an entry
\* the envelope declares (ReceiptPathOccupied: the tree is not shipped).
WithheldMarker(t) ==
    /\ Protected(t)
    /\ tree[t].declares = "marker" => tree[t].marker = Absent
    /\ tree' = [tree EXCEPT ![t].marker = By("withheld", t)]

\* _retry_pending_one's sanitising: as-is with a withheld marker, or ours and vouched for
\* again, or a tombstone in place of whatever is there.
Sanitise(t) ==
    \/ WithheldMarker(t)
    \/ ~Protected(t) /\ ReceiptIsOurs(t) /\ SealReceipt(t, tree[t].receipt)
    \/ ~Protected(t) /\ ~ReceiptIsOurs(t) /\ SealReceipt(t, By("tomb", 0))

\* _migrate_legacy_one: as-is, or a tombstone; no receipt of such a tree is the host's.
Migrate(t) ==
    \/ WithheldMarker(t)
    \/ ~Protected(t) /\ SealReceipt(t, By("tomb", 0))

SanitiseHeld(t) ==
    /\ stage[t] = "held" /\ Sanitise(t)
    /\ stage' = [stage EXCEPT ![t] = "sealed"]
    /\ UNCHANGED <<stored, todo, rowDone, reader, remark, deaths>>

MigrateLegacy(t) ==
    /\ Legacy(t) /\ stage[t] = "made" /\ Migrate(t)
    /\ stage' = [stage EXCEPT ![t] = "sealed"]
    /\ UNCHANGED <<stored, todo, rowDone, reader, remark, deaths>>

(***************************************************************************)
(* Uploading: three tiers, each stored only after the one before.           *)
(***************************************************************************)
\* _upload_tiers: a marker that vouches lands after the receipt, any other before it.
UploadTiers(t) ==
    IF Cleared(tree[t].marker) THEN <<"receipt", "marker", "env">>
    ELSE <<"marker", "receipt", "env">>

AsIs(t) == tree[t].marker.by = "withheld"

StartUpload(t) ==
    /\ stage[t] = "sealed"
    /\ AsIs(t) => remark.at = "idle"
    /\ \A u \in Trees \ {t} : stage[u] = "up" => ~AsIs(u) /\ ~AsIs(t)
    /\ stage' = [stage EXCEPT ![t] = "up"]
    /\ todo' = [todo EXCEPT ![t] = UploadTiers(t)]
    /\ UNCHANGED <<stored, tree, rowDone, reader, remark, deaths>>

\* put_output's _put_one / _atomic_copy: one object replaced atomically; an absent file is
\* simply not in the tier.  The seal last makes the upload complete and the row DONE.
Holds(t, name) ==
    CASE name = "env"     -> [stored EXCEPT !.env = t]
      [] name = "receipt" -> IF tree[t].receipt = Absent THEN stored
                             ELSE [stored EXCEPT !.receipt = tree[t].receipt]
      [] name = "marker"  -> [stored EXCEPT !.marker = tree[t].marker]

PutOne(t) ==
    /\ stage[t] = "up"
    /\ stored' = Holds(t, Head(todo[t]))
    /\ todo' = [todo EXCEPT ![t] = Tail(@)]
    /\ stage' = [stage EXCEPT ![t] = IF Len(todo[t]) = 1 THEN "shipped" ELSE "up"]
    /\ rowDone' = (rowDone \/ Len(todo[t]) = 1)
    /\ UNCHANGED <<tree, reader, remark, deaths>>

\* upload_output_with_retry gives up: the tree stays and a sweep takes it up again.
UploadDies(t) ==
    /\ stage[t] = "up" /\ deaths < MaxDeaths
    /\ deaths' = deaths + 1
    /\ stage' = [stage EXCEPT ![t] = "held"]
    /\ todo' = [todo EXCEPT ![t] = << >>]
    /\ UNCHANGED <<stored, tree, rowDone, reader, remark>>

(***************************************************************************)
(* remark_stored_receipts: three reads, a verification and one write.       *)
(***************************************************************************)
\* A marker of this host: a withheld body, or the cleared body of the stored envelope.
HostMarker(m, e) == m.by = "withheld" \/ (Cleared(m) /\ m.of = e)

\* A tree that was shipped as-is declares, and no other stored envelope does.
Declares(e) == e \in Trees /\ Protected(e)

Verifies(r, e) == r = By("host", e) /\ e # 0 /\ ~Declares(e)

RemarkReads ==
    /\ remark.at = "idle" /\ rowDone /\ ~HostMarker(stored.marker, stored.env)
    /\ \A t \in Trees : stage[t] = "up" => ~AsIs(t)
    /\ remark' = [remark EXCEPT !.at = "env", !.m = stored.marker, !.e = stored.env]
    /\ UNCHANGED <<stored, tree, stage, todo, rowDone, reader, deaths>>

RemarkVerifies ==
    /\ remark.at = "env"
    /\ remark' = IF Verifies(stored.receipt, remark.e)
                 THEN [remark EXCEPT !.at = "mark", !.r = stored.receipt] ELSE Idle0
    /\ UNCHANGED <<stored, tree, stage, todo, rowDone, reader, deaths>>

RemarkStores ==
    /\ remark.at = "mark"
    /\ stored' = [stored EXCEPT !.marker = By("cleared", remark.e)]
    /\ remark' = Idle0
    /\ UNCHANGED <<tree, stage, todo, rowDone, reader, deaths>>

(***************************************************************************)
(* get_attestation: marker, envelope, receipt, and the marker again.        *)
(***************************************************************************)
\* A 404 is final; a 503 says "retry" (_status_failure), and so does a broken transfer.
Refused == [Idle0 EXCEPT !.at = "refused"]
Retryable == [Idle0 EXCEPT !.at = "retry"]

\* The first marker read: nothing but a well-formed cleared body goes on.
RouteReadsMarker ==
    /\ reader.at = "idle" /\ rowDone
    /\ reader' = IF Cleared(stored.marker)
                 THEN [reader EXCEPT !.at = "env", !.m = stored.marker] ELSE Refused
    /\ UNCHANGED <<stored, tree, stage, todo, rowDone, remark, deaths>>

\* The envelope must be the one the marker is bound to and declare no reserved name.
RouteReadsEnvelope ==
    /\ reader.at = "env"
    /\ reader' = IF stored.env = reader.m.of /\ ~Declares(stored.env)
                 THEN [reader EXCEPT !.at = "receipt", !.e = stored.env] ELSE Refused
    /\ UNCHANGED <<stored, tree, stage, todo, rowDone, remark, deaths>>

RouteReadsReceipt ==
    /\ reader.at = "receipt"
    /\ reader' = IF stored.receipt.by \in {"host", "worker"}
                 THEN [reader EXCEPT !.at = "again", !.r = stored.receipt] ELSE Refused
    /\ UNCHANGED <<stored, tree, stage, todo, rowDone, remark, deaths>>

\* The second read of the marker must give the bytes of the first.
AgainAgrees(m) == m = reader.m

RouteServes ==
    /\ reader.at = "again"
    /\ reader' = IF AgainAgrees(stored.marker)
                 THEN [reader EXCEPT !.at = "served"] ELSE Retryable
    /\ UNCHANGED <<stored, tree, stage, todo, rowDone, remark, deaths>>

\* verify_receipt: only a pinned key's signature passes, and a worker has none.
SignatureVerifies(r) == r.by = "host"

\* _check_metadata: the envelope held is the one that was signed.
MetadataMatches(r, e) == r.of = e

\* fetch_and_verify: the signature under a pinned key, then the metadata route's envelope.
ClientVerifies ==
    /\ reader.at = "served"
    /\ reader' = IF SignatureVerifies(reader.r) /\ MetadataMatches(reader.r, stored.env)
                 THEN [reader EXCEPT !.at = "verified", !.sees = stored.env] ELSE Refused
    /\ UNCHANGED <<stored, tree, stage, todo, rowDone, remark, deaths>>

\* _get_within: a request that timed out or broke, at any point of the exchange.
ClientLosesAnswer ==
    /\ reader.at \in {"env", "receipt", "again", "served"}
    /\ reader' = Retryable
    /\ UNCHANGED <<stored, tree, stage, todo, rowDone, remark, deaths>>

ClientRetries ==
    /\ reader.at = "retry"
    /\ reader' = Idle0
    /\ UNCHANGED <<stored, tree, stage, todo, rowDone, remark, deaths>>

ReceiptNext ==
    \/ \E t \in Trees :
          \/ SealFresh(t) \/ SealFreshFails(t) \/ SanitiseHeld(t) \/ MigrateLegacy(t)
          \/ StartUpload(t) \/ PutOne(t) \/ UploadDies(t)
    \/ RemarkReads \/ RemarkVerifies \/ RemarkStores
    \/ RouteReadsMarker \/ RouteReadsEnvelope \/ RouteReadsReceipt \/ RouteServes
    \/ ClientVerifies \/ ClientLosesAnswer \/ ClientRetries

ReceiptSpec == ReceiptInit /\ [][ReceiptNext]_receiptVars

(***************************************************************************)
(* Properties.                                                              *)
(***************************************************************************)

\* What the attestation route serves was written by a host, never by a worker, however uploads,
\* re-uploads and re-marking passes land between its four reads (get_attestation against
\* _upload_tiers); and a pair the client verified is one receipt over exactly those metadata
\* bytes (fetch_and_verify), although the route may serve a sibling attempt's receipt.
ServedIsHosts ==
    /\ reader.at \in {"served", "verified"} => reader.r.by = "host"
    /\ reader.at = "verified" => reader.r.of = reader.sees
=============================================================================
