-------------------------------- MODULE PinSet --------------------------------
(* `pins --set` (host/pins.py set_version): every pin of blastbox in a         *)
(* repository is moved to one version.  The rewrite is staged in memory, the   *)
(* files are then written one by one, the repository is scanned again, and     *)
(* every file is put back when a pin did not move.                             *)
EXTENDS Naturals, FiniteSets

CONSTANTS PinFiles,    \* the files that hold a pin
          PinFaults,   \* which of "write", "read" may happen
          MaxPinFaults

(* What a file's pin is like.  The last three are rewrites that go wrong: the  *)
(* requirement is not found on its line; other text on the line is rewritten   *)
(* and the pin stays; the rewritten file no longer parses.                     *)
PinKinds == {"plain", "hashed", "nofloor", "noline", "ceiling", "lost", "shadowed", "breaks"}

VARIABLES
  pnKind,      \* file -> its kind
  pnDigests,   \* the caller passed the release's digests
  pnText,      \* file -> [pin, hash, ok]: its version, its hashes' version, whether it parses
  pnStaged, pnOriginal,    \* file -> text, in memory
  pnTodo,      \* files the current loop has still to visit
  pnAt,        \* where the command is
  pnBefore,    \* history: the files when the command started
  pnFaults

pinVars == <<pnKind, pnDigests, pnText, pnStaged, pnOriginal, pnTodo, pnAt, pnBefore, pnFaults>>

OldVersion == 1
Wanted == 2
OldText(kind) == [pin |-> OldVersion, hash |-> IF kind = "hashed" THEN OldVersion ELSE 0, ok |-> TRUE]
NoText == [pin |-> 0, hash |-> 0, ok |-> FALSE]
NoTexts == [f \in PinFiles |-> NoText]

PinInit ==
  /\ pnKind \in [PinFiles -> PinKinds] /\ pnDigests \in BOOLEAN
  /\ pnText = [f \in PinFiles |-> OldText(pnKind[f])] /\ pnBefore = pnText
  /\ pnStaged = NoTexts /\ pnOriginal = NoTexts
  /\ pnTodo = {} /\ pnAt = "scan" /\ pnFaults = 0

PinFault(kind) == kind \in PinFaults /\ pnFaults < MaxPinFaults /\ pnFaults' = pnFaults + 1
Ended(how) == pnAt' = how /\ pnTodo' = {}
Loop(at) == pnAt' = at /\ pnTodo' = PinFiles
-------------------------------------------------------------------------------
(* The first scan and what it refuses: a pin with no floor or no line to rewrite, and one whose ceiling *)
(* would be kept and excludes the new version                                                           *)
Unhandled == {f \in PinFiles : pnKind[f] \in {"nofloor", "noline"}}
Conflicts == {f \in PinFiles : pnKind[f] = "ceiling"}

ScanRepo ==
  /\ pnAt = "scan"
  /\ IF Unhandled \cup Conflicts # {} THEN Ended("failed") ELSE Loop("stage")
  /\ UNCHANGED <<pnKind, pnDigests, pnText, pnStaged, pnOriginal, pnBefore, pnFaults>>

(* A file's rewrite, in memory *)
Located(f) == pnKind[f] # "lost"
ReplaceHashes(f, hash) == IF pnKind[f] = "hashed" THEN Wanted ELSE hash
Rewrite(f) ==
  [pnText[f] EXCEPT !.pin = IF pnKind[f] = "shadowed" THEN @ ELSE Wanted,
                    !.hash = ReplaceHashes(f, @),
                    !.ok = pnKind[f] # "breaks"]
HashesAtHand(f) == pnKind[f] = "hashed" => pnDigests

Stage(f) ==
  /\ pnAt = "stage" /\ f \in pnTodo
  /\ IF Located(f) /\ HashesAtHand(f)
     THEN /\ pnStaged' = [pnStaged EXCEPT ![f] = Rewrite(f)]
          /\ IF pnTodo = {f} THEN Loop("keep") ELSE pnTodo' = pnTodo \ {f} /\ pnAt' = pnAt
     ELSE Ended("failed") /\ UNCHANGED pnStaged
  /\ UNCHANGED <<pnKind, pnDigests, pnText, pnOriginal, pnBefore, pnFaults>>

Keep ==
  /\ pnAt = "keep"
  /\ pnOriginal' = pnText /\ Loop("write")
  /\ UNCHANGED <<pnKind, pnDigests, pnText, pnStaged, pnBefore, pnFaults>>

Write(f) ==
  /\ pnAt = "write" /\ f \in pnTodo
  /\ pnText' = [pnText EXCEPT ![f] = pnStaged[f]]
  /\ pnTodo' = pnTodo \ {f} /\ pnAt' = IF pnTodo = {f} THEN "verify" ELSE "write"
  /\ UNCHANGED <<pnKind, pnDigests, pnStaged, pnOriginal, pnBefore, pnFaults>>

\* The write raises: nothing here restores the files already written.
WriteRaises(f) ==
  /\ pnAt = "write" /\ f \in pnTodo /\ PinFault("write")
  /\ Ended("failed")
  /\ UNCHANGED <<pnKind, pnDigests, pnText, pnStaged, pnOriginal, pnBefore>>

(* The second scan: it raises on a file that does not parse or cannot be read, and finds the pins that stayed *)
ScanRaises == \E f \in PinFiles : ~pnText[f].ok
Stale == {f \in PinFiles : pnText[f].pin # Wanted}

VerdictOfStale == IF Stale # {} THEN Loop("restore") ELSE Ended(IF ScanRaises THEN "failed" ELSE "set")
Verdict == IF ScanRaises \/ Stale # {} THEN Loop("restore") ELSE Ended("set")
Verify ==
  /\ pnAt = "verify"
  /\ Verdict
  /\ UNCHANGED <<pnKind, pnDigests, pnText, pnStaged, pnOriginal, pnBefore, pnFaults>>

VerifyUnreadable ==
  /\ pnAt = "verify" /\ PinFault("read")
  /\ Loop("restore")
  /\ UNCHANGED <<pnKind, pnDigests, pnText, pnStaged, pnOriginal, pnBefore>>

Restore(f) ==
  /\ pnAt = "restore" /\ f \in pnTodo
  /\ pnText' = [pnText EXCEPT ![f] = pnOriginal[f]]
  /\ IF pnTodo = {f} THEN Ended("failed") ELSE pnTodo' = pnTodo \ {f} /\ pnAt' = pnAt
  /\ UNCHANGED <<pnKind, pnDigests, pnStaged, pnOriginal, pnBefore, pnFaults>>

RestoreRaises(f) ==
  /\ pnAt = "restore" /\ f \in pnTodo /\ PinFault("write")
  /\ Ended("failed")
  /\ UNCHANGED <<pnKind, pnDigests, pnText, pnStaged, pnOriginal, pnBefore>>

PinNext ==
  \/ ScanRepo \/ Keep \/ Verify \/ VerifyUnreadable
  \/ \E f \in PinFiles : Stage(f) \/ Write(f) \/ WriteRaises(f) \/ Restore(f) \/ RestoreRaises(f)

PinSpec == PinInit /\ [][PinNext]_pinVars
-------------------------------------------------------------------------------
\* A bump is whole or nothing.  When set_version returns, every pin is at the
\* version asked for and a hashed lock carries that release's digests; when it
\* raises, every file is what it was.
BumpWholeOrNothing ==
  /\ pnAt = "set" => \A f \in PinFiles : /\ pnText[f].pin = Wanted
                                         /\ pnText[f].hash \in {0, Wanted}
  /\ pnAt = "failed" => pnText = pnBefore
===============================================================================
