----------------------------- MODULE StoreBoot ------------------------------
(***************************************************************************)
(* How a process proves its result store before it takes work               *)
(* (host/canary.py, the start of Dispatcher.run_forever, build_app's last   *)
(* checks, the blob-target registry of the job stores and the blob-target   *)
(* command): a canary object is written, looked up, read back and deleted,  *)
(* and the store's identity is agreed with the other processes of the queue *)
(* through one registry row.  Processes boot, run their periodic canary and *)
(* stop in any order, and dispatchers of one host and tier share the        *)
(* canary's key.                                                            *)
(***************************************************************************)
EXTENDS Integers, FiniteSets

CONSTANTS
    Dispatchers, Ingresses,
    WritesTo,       \* where a process's writes go
    ReadsFrom,      \* where its reads come from: not the same in a misconfigured process
    NoDelete,       \* processes whose principal may not delete
    KeyOf,          \* the stable canary key: identity, tier, engines and job root
    MaxProbes,      \* canaries a process runs
    MaxResets       \* blob-target resets

Procs == Dispatchers \cup Ingresses
Stores == {WritesTo[p] : p \in Procs} \cup {ReadsFrom[p] : p \in Procs}
None == "none"
NoSeal == <<>>

UniqueKey(p, n) == <<p, n>>
CanaryKeys == {<<KeyOf[p], 0>> : p \in Procs} \cup {UniqueKey(p, n) : p \in Procs, n \in 1 .. MaxProbes}

VARIABLES
    objects,        \* per store and canary key: the seal stored there
    registry,       \* the blob_target row
    phase,          \* per process: down, probing, checking, serving, unreadable, disagreeing
    probe,          \* per process: the round trip under way
    probes, resets

bootVars == <<objects, registry, phase, probe, probes, resets>>

NoProbe == [at |-> "idle", key |-> NoSeal, seal |-> NoSeal, racey |-> FALSE]

BootInit ==
    /\ objects = [s \in Stores |-> [k \in CanaryKeys |-> NoSeal]]
    /\ registry = None
    /\ phase = [p \in Procs |-> "down"]
    /\ probe = [p \in Procs |-> NoProbe]
    /\ probes = [p \in Procs |-> 0] /\ resets = 0

(***************************************************************************)
(* The round trip.                                                          *)
(***************************************************************************)
Begin(p, key, racey) ==
    probe' = [probe EXCEPT ![p] = [at |-> "put", key |-> key, seal |-> NoSeal, racey |-> racey]]

\* run_forever: a dispatcher probes first; an ingress only checks the target.
Boot(p) ==
    /\ phase[p] = "down" /\ probes[p] < MaxProbes
    /\ probes' = [probes EXCEPT ![p] = @ + 1]
    /\ IF p \in Dispatchers
       THEN phase' = [phase EXCEPT ![p] = "probing"] /\ Begin(p, <<KeyOf[p], 0>>, TRUE)
       ELSE phase' = [phase EXCEPT ![p] = "checking"] /\ UNCHANGED probe
    /\ UNCHANGED <<objects, registry, resets>>

\* The periodic self_test, which gates nothing.
PeriodicCanary(p) ==
    /\ p \in Dispatchers /\ phase[p] = "serving" /\ probe[p].at = "idle" /\ probes[p] < MaxProbes
    /\ probes' = [probes EXCEPT ![p] = @ + 1]
    /\ Begin(p, <<KeyOf[p], 0>>, TRUE)
    /\ UNCHANGED <<objects, registry, phase, resets>>

\* put_output: the seal is this probe's own.
PutSeal(p) ==
    LET c == probe[p]
        seal == <<p, probes[p], c.racey>>
    IN  /\ c.at = "put"
        /\ objects' = [objects EXCEPT ![WritesTo[p]][c.key] = seal]
        /\ probe' = [probe EXCEPT ![p].seal = seal, ![p].at = "has"]
        /\ UNCHANGED <<registry, phase, probes, resets>>

\* The object this process reads under the canary's key.
SeenBy(p) == objects[ReadsFrom[p]][probe[p].key]

HasOutput(p) ==
    /\ probe[p].at = "has"
    /\ probe' = [probe EXCEPT ![p].at = IF SeenBy(p) = NoSeal THEN "missed" ELSE "open"]
    /\ UNCHANGED <<objects, registry, phase, probes, resets>>

\* open_output and the comparison of the bytes.
ReadBack(p) ==
    /\ probe[p].at = "open"
    /\ probe' = [probe EXCEPT ![p].at = IF SeenBy(p) = probe[p].seal THEN "matched" ELSE "missed"]
    /\ UNCHANGED <<objects, registry, phase, probes, resets>>

\* _cleanup: the key is deleted in the store this process writes to, every version of it,
\* whoever wrote it; a refusal is only logged.
Cleaned(p) ==
    IF p \in NoDelete THEN objects ELSE [objects EXCEPT ![WritesTo[p]][probe[p].key] = NoSeal]

\* The second round trip on the stable key again.
RetryKeyShared(p) == <<KeyOf[p], 0>>

\* blob_roundtrip: a miss on the shared key is tried once more, on a key nobody else holds.
RetryKey(p) == UniqueKey(p, probes[p])

MissCleansUp(p) ==
    /\ probe[p].at = "missed"
    /\ objects' = Cleaned(p)
    /\ IF probe[p].racey
       THEN Begin(p, RetryKey(p), FALSE) /\ UNCHANGED phase
       ELSE /\ probe' = [probe EXCEPT ![p] = NoProbe]
            /\ phase' = [phase EXCEPT ![p] = IF @ = "probing" THEN "unreadable" ELSE @]
    /\ UNCHANGED <<registry, probes, resets>>

MatchCleansUp(p) ==
    /\ probe[p].at = "matched"
    /\ objects' = Cleaned(p)
    /\ probe' = [probe EXCEPT ![p] = NoProbe]
    /\ phase' = [phase EXCEPT ![p] = IF @ = "probing" THEN "checking" ELSE @]
    /\ UNCHANGED <<registry, probes, resets>>

(***************************************************************************)
(* The agreement on one target.                                             *)
(***************************************************************************)
\* blob_target_fingerprint: the bucket and the prefix.
Fingerprint(p) == WritesTo[p]

\* claim_blob_target: INSERT ... ON CONFLICT DO NOTHING, SETNX.
ClaimTarget(mine) == registry' = IF registry = None THEN mine ELSE registry

CheckAgreement(p) ==
    /\ phase[p] = "checking"
    /\ ClaimTarget(Fingerprint(p))
    /\ phase' = [phase EXCEPT ![p] = IF registry' = Fingerprint(p) THEN "serving" ELSE "disagreeing"]
    /\ UNCHANGED <<objects, probe, probes, resets>>

\* A process stops or dies where it is, its canary's object left behind.
Stop(p) ==
    /\ phase[p] # "down"
    /\ phase' = [phase EXCEPT ![p] = "down"]
    /\ probe' = [probe EXCEPT ![p] = NoProbe]
    /\ UNCHANGED <<objects, registry, probes, resets>>

\* `blob-target reset --yes`, on the stopped fleet its warning demands.
ResetTarget ==
    /\ resets < MaxResets /\ resets' = resets + 1
    /\ \A p \in Procs : phase[p] \in {"down", "unreadable", "disagreeing"}
    /\ registry' = None
    /\ UNCHANGED <<objects, phase, probe, probes>>

BootNext ==
    \/ \E p \in Procs :
          \/ Boot(p) \/ PeriodicCanary(p) \/ PutSeal(p) \/ HasOutput(p) \/ ReadBack(p)
          \/ MissCleansUp(p) \/ MatchCleansUp(p) \/ CheckAgreement(p) \/ Stop(p)
    \/ ResetTarget

BootSpec == BootInit /\ [][BootNext]_bootVars

(***************************************************************************)
(* Properties.                                                              *)
(***************************************************************************)

\* The gate is exact.  A dispatcher that serves reads what it writes, and all that serve share
\* one store; a process is refused only for a store it cannot read back or one that is not the
\* registered one: never because another process's canary collided with its own
\* (blob_roundtrip, check_blob_target_agreement, run_forever).
BootGateExact ==
    /\ \A p \in Dispatchers : phase[p] = "serving" => ReadsFrom[p] = WritesTo[p]
    /\ \A p, q \in Procs : phase[p] = "serving" /\ phase[q] = "serving" => Fingerprint(p) = Fingerprint(q)
    /\ \A p \in Procs : phase[p] = "unreadable" => ReadsFrom[p] # WritesTo[p]
    /\ \A p \in Procs : phase[p] = "disagreeing" => \E q \in Procs : Fingerprint(q) # Fingerprint(p)
=============================================================================
