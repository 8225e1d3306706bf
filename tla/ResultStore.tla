---------------------------- MODULE ResultStore -----------------------------
(***************************************************************************)
(* One job's results in the S3 result store (host/blobs/s3.py) and the      *)
(* ingress routes that serve and delete them (host/ingress/app.py).         *)
(*                                                                         *)
(* Every object is its set of versions, numbered as they were made.  On a   *)
(* versioned bucket removing the newest version makes the one before it     *)
(* current again, a listing is one bounded page, and a batch of deletes     *)
(* fails key by key.                                                        *)
(* The DELETE route and the retention sweep may run over the same job,      *)
(* while a client downloads the archive.                                    *)
(***************************************************************************)
EXTENDS Naturals, FiniteSets

CONSTANTS
    Deleters,       \* the callers of delete_job: "route", "sweep"
    History,        \* how many versions each key has when the job is done
    DeleteBatch,    \* _DELETE_BATCH, the size of a page and of a batch
    Versioned,      \* the bucket keeps versions
    Denied,         \* of {"status", "versions"}: calls this principal may never make
    MaxErrors,      \* failed deletions and failed calls
    MaxPuts         \* re-uploads while the job is done

Receipt == 1        \* attestation.json
Withheld == 2       \* attestation.withheld.json, the marker that masks it
Metadata == 3       \* metadata.json
Artifact == 4       \* a declared artifact
Keys == 1 .. 4      \* in listing order

VARIABLES
    objs,           \* per key, its versions, delete markers among them
    newest,         \* per key, the number of the last version made
    row,            \* the job row: done, expired, deleted
    versioning,     \* _versioned: none, yes, no
    del,            \* per deleter: where delete_job is
    read,           \* the archive under construction
    errs, puts

resultVars == <<objs, newest, row, versioning, del, read, errs, puts>>

Bytes(v) == [v |-> v, marker |-> FALSE]
Marker(v) == [v |-> v, marker |-> TRUE]

Idle == [pc |-> "idle", step |-> 0, noncurrent |-> FALSE, targets |-> {}, failed |-> FALSE,
         since |-> [k \in Keys |-> 0]]
NoRead == [pc |-> "idle", got |-> {}]

ResultInit ==
    /\ newest = History
    /\ objs = [k \in Keys |-> {Bytes(v) : v \in 1 .. History[k]}]
    /\ row = "done" /\ versioning = "none"
    /\ del = [d \in Deleters |-> Idle]
    /\ read = NoRead
    /\ errs = 0 /\ puts = 0

Errs(n) == errs + n <= MaxErrors /\ errs' = errs + n

(***************************************************************************)
(* Objects.                                                                 *)
(***************************************************************************)
\* The version of the key that S3 calls its latest.
Latest(k, o) == \A p \in objs[k] : p.v <= o.v

\* open_output: the bytes a read of the key returns, if any.
Current(k) == {o.v : o \in {p \in objs[k] : Latest(k, p) /\ ~p.marker}}

\* put_object.
Written(k, v) == IF Versioned THEN objs[k] \cup {Bytes(v)} ELSE {Bytes(v)}

\* A retry or a re-mark stores the sealed files again.
Put(k) ==
    /\ puts < MaxPuts /\ row = "done" /\ puts' = puts + 1
    /\ newest' = [newest EXCEPT ![k] = @ + 1]
    /\ objs' = [objs EXCEPT ![k] = Written(k, newest[k] + 1)]
    /\ UNCHANGED <<row, versioning, del, read, errs>>

(***************************************************************************)
(* _next_delete_page.                                                       *)
(***************************************************************************)
Entry(k, o) == [key |-> k, id |-> o.v, latest |-> Latest(k, o)]
Listing(keys) == UNION {{Entry(k, o) : o \in objs[k]} : k \in keys}

\* list_object_versions: one page, the keys in order, each key's versions newest first.
Before(e, f) == e.key < f.key \/ (e.key = f.key /\ e.id > f.id)
Page(keys) == {e \in Listing(keys) : Cardinality({f \in Listing(keys) : Before(f, e)}) < DeleteBatch}
Truncated(keys) == Page(keys) # Listing(keys)

\* list_objects_v2: the first of the keys a read would find.
CurrentPage(keys) ==
    LET found == {k \in keys : Current(k) # {}}
    IN  {k \in found : Cardinality({j \in found : j < k}) < DeleteBatch}

\* The versions that are not current, and the current ones: on a truncated page the last key's
\* is held back, for its older versions may be on the next page.
Noncurrent(keys) == {e \in Page(keys) : ~e.latest}
HeldBack(keys, e) == Truncated(keys) /\ \A f \in Page(keys) : f.key <= e.key
CurrentOnes(keys) == {e \in Page(keys) : e.latest /\ ~HeldBack(keys, e)}

VersionPage(keys) ==
    [noncurrent |-> Noncurrent(keys), current |-> CurrentOnes(keys),
     full |-> Truncated(keys) \/ Cardinality(Page(keys)) >= DeleteBatch]

\* A deletion that names no version.
Keyless(k) == [key |-> k, id |-> 0, latest |-> TRUE]
KeylessPage(keys) ==
    [noncurrent |-> {}, current |-> {Keyless(k) : k \in CurrentPage(keys)},
     full |-> Cardinality(CurrentPage(keys)) >= DeleteBatch]

\* _bucket_is_versioned: a status that cannot be read is taken for versioned, and not kept.
StatusRead == IF "status" \in Denied THEN "none" ELSE IF Versioned THEN "yes" ELSE "no"

\* The page, given what is known of the bucket; a settled refusal to list versions falls back
\* to a keyless listing only if the bucket was never seen to be versioned.
Pages(keys, known) ==
    IF known = "no" \/ ("versions" \in Denied /\ known = "none") THEN {KeylessPage(keys)}
    ELSE IF "versions" \in Denied THEN {} ELSE {VersionPage(keys)}

(***************************************************************************)
(* delete_job: the receipt, then everything but the marker, then the rest.  *)
(***************************************************************************)
PrefixOf(step) == IF step = 1 THEN {Receipt} ELSE Keys
KeptAt(step) == IF step = 2 THEN {Withheld} ELSE {}

Raise(d) == del' = [del EXCEPT ![d] = [Idle EXCEPT !.pc = "failed"]]

\* The route refuses a job that is not terminal; the sweep takes a due one.
DeleteBegins(d) ==
    /\ del[d].pc \in {"idle", "failed"} /\ row = "done"
    /\ del' = [del EXCEPT ![d] = [Idle EXCEPT !.pc = "list", !.step = 1, !.since = newest]]
    /\ UNCHANGED <<objs, newest, row, versioning, read, errs, puts>>

\* Noncurrent and current versions in one batch.
TargetsTogether(page) == page.noncurrent \cup page.current

\* A page's current versions only when it lists no noncurrent one.
Targets(page) == IF page.noncurrent # {} THEN page.noncurrent ELSE page.current

ListPage(d) ==
    LET c == del[d]
        Spare(es) == {e \in es : e.key \notin KeptAt(c.step)}
    IN  /\ c.pc = "list"
        /\ versioning' = IF versioning = "none" THEN StatusRead ELSE versioning
        /\ \E page \in Pages(PrefixOf(c.step), versioning') :
              LET mine == [page EXCEPT !.noncurrent = Spare(@), !.current = Spare(@)]
              IN  IF Targets(mine) # {}
                  THEN del' = [del EXCEPT ![d].pc = "batch", ![d].targets = Targets(mine),
                                          ![d].noncurrent = mine.noncurrent # {}]
                  ELSE IF mine.full \/ c.failed THEN Raise(d)
                  ELSE IF c.step < 3 THEN del' = [del EXCEPT ![d].step = @ + 1]
                  ELSE del' = [del EXCEPT ![d].pc = "gone"]
        /\ UNCHANGED <<objs, newest, row, read, errs, puts>>

\* A listing that raises, or that this principal may never make, ends the deletion.
ListFails(d) ==
    /\ del[d].pc = "list"
    /\ Errs(1)
    /\ Raise(d)
    /\ UNCHANGED <<objs, newest, row, versioning, read, puts>>

\* Versions removed; or a keyless delete, which on a versioned bucket makes a delete marker.
Removed(k, es) ==
    IF Keyless(k) \in es THEN IF Versioned THEN objs[k] \cup {Marker(newest[k] + 1)} ELSE {}
    ELSE {o \in objs[k] : \A e \in es : e.key # k \/ e.id # o.v}

\* delete_objects: each target of the batch fails or not by itself.
DeleteBatchDone(d) ==
    LET c == del[d]
    IN  /\ c.pc = "batch"
        /\ \E bad \in SUBSET c.targets :
              /\ Errs(Cardinality(bad))
              /\ objs' = [k \in Keys |-> Removed(k, c.targets \ bad)]
              /\ newest' = [k \in Keys |-> IF Versioned /\ Keyless(k) \in c.targets \ bad
                                           THEN newest[k] + 1 ELSE newest[k]]
              /\ IF bad = c.targets \/ ((c.failed \/ bad # {}) /\ c.noncurrent) THEN Raise(d)
                 ELSE del' = [del EXCEPT ![d].pc = "list", ![d].failed = @ \/ bad # {}, ![d].targets = {}]
        /\ UNCHANGED <<row, versioning, read, puts>>

\* The blobs are gone: the route drops the row, the sweep marks it expired.
DeleteEnds(d) ==
    /\ del[d].pc = "gone"
    /\ row' = IF row = "done" THEN (IF d = "route" THEN "deleted" ELSE "expired") ELSE row
    /\ del' = [del EXCEPT ![d].pc = "done"]
    /\ UNCHANGED <<objs, newest, versioning, read, errs, puts>>

(***************************************************************************)
(* get_result: the row, the metadata, then each declared artifact; one that *)
(* is not there is left out.                                                *)
(***************************************************************************)
ReadRow ==
    /\ read.pc = "idle" /\ row = "done"
    /\ read' = [NoRead EXCEPT !.pc = "metadata"]
    /\ UNCHANGED <<objs, newest, row, versioning, del, errs, puts>>

ReadMetadata ==
    /\ read.pc = "metadata"
    /\ read' = IF Current(Metadata) = {} THEN [NoRead EXCEPT !.pc = "missing"]
               ELSE [pc |-> "artifacts", got |-> {<<Metadata, v, newest[Metadata]>> : v \in Current(Metadata)}]
    /\ UNCHANGED <<objs, newest, row, versioning, del, errs, puts>>

ReadArtifacts ==
    /\ read.pc = "artifacts"
    /\ read' = [pc |-> "served",
                got |-> read.got \cup {<<Artifact, v, newest[Artifact]>> : v \in Current(Artifact)}]
    /\ UNCHANGED <<objs, newest, row, versioning, del, errs, puts>>

NextRequest ==
    /\ read.pc \in {"served", "missing"}
    /\ read' = NoRead
    /\ UNCHANGED <<objs, newest, row, versioning, del, errs, puts>>

ResultNext ==
    \/ Put(Metadata) \/ Put(Artifact)
    \/ \E d \in Deleters : DeleteBegins(d) \/ ListPage(d) \/ ListFails(d) \/ DeleteBatchDone(d) \/ DeleteEnds(d)
    \/ ReadRow \/ ReadMetadata \/ ReadArtifacts \/ NextRequest

ResultSpec == ResultInit /\ [][ResultNext]_resultVars

(***************************************************************************)
(* Properties.                                                              *)
(***************************************************************************)

\* Bytes the store has overwritten never come back: whatever pages and batches of one or two
\* deletions fail half-way, a read of a key finds its last version or nothing
\* (_next_delete_page, _delete_prefix, open_output).
NothingResurfaces == \A k \in Keys : Current(k) \subseteq {newest[k]}

\* A masked receipt is never served: while the receipt of a job that had a marker can be read,
\* so can the marker (delete_job's order).
ReceiptStaysMasked == History[Withheld] > 0 /\ Current(Receipt) # {} => Current(Withheld) # {}

\* A row is dropped or marked expired only over a bucket that holds no version of what was
\* stored when that deletion began (delete_job raises on every partial failure).
GoneMeansGone ==
    \A d \in Deleters : del[d].pc = "done" =>
        \A k \in Keys : \A o \in objs[k] : o.v > del[d].since[k]

\* What an archive holds was current when it was read (get_result, _zip_validated_artifacts).
ServedIsCurrent == \A g \in read.got : g[2] = g[3]
=============================================================================
