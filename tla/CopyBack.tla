-------------------------------- MODULE CopyBack --------------------------------
(***************************************************************************)
(* Copying a writable mount back from an App Sandbox slot into the host's  *)
(* own directory (worker/sandbox/appsandbox.py, macos_common.py).          *)
(*                                                                         *)
(* The child's tree is built beside the host's entries (`new`), the host's *)
(* entries are renamed aside (`old`) and the new ones renamed in, under a  *)
(* journal whose phase is written before each phase begins.  A worker that *)
(* dies in between leaves the journal to the next run that claims the      *)
(* directory, or to the next agent that starts, which finish or undo the   *)
(* swap.  One swap is modelled, with every process that may recover it.    *)
(***************************************************************************)
EXTENDS Naturals, FiniteSets

CONSTANTS
    OldNames, NewNames, \* what the directory holds, and what the child left
    Stagers,            \* processes whose run stages the directory
    Agents,             \* processes that start an agent
    MaxSwapFaults,      \* bound
    SwapFaults          \* subset of {"crash", "fail", "noxattr", "window"}

Recoverers == Stagers \cup Agents
Procs == {"w"} \cup Recoverers

VARIABLES
    oldAt,      \* host entry -> "dest" | "old" | "done" | "gone"
    newAt,      \* child's entry -> "none" | "new" | "dest" | "gone"
    dirs,       \* which of "new", "old", "done" exist in the directory
    journal,    \* phase on disk, or "none"
    record,     \* a done-record names the tree and its nonce
    claim,      \* the process that holds the path claim, or "nobody"
    pc,         \* process -> what it does next
    known,      \* recoverer -> the phase it read
    undoLeft, undone,   \* the writer's in-process undo
    swapFaults

treeVars == <<oldAt, newAt, dirs>>
undoVars == <<undoLeft, undone>>
backVars == <<treeVars, journal, record, claim, pc, known, undoVars, swapFaults>>

BackInit ==
    /\ oldAt = [e \in OldNames |-> "dest"] /\ newAt = [e \in NewNames |-> "none"]
    /\ dirs = {} /\ journal = "none" /\ record = FALSE
    /\ claim = "nobody" /\ pc = [p \in Procs |-> "idle"]
    /\ known = [p \in Recoverers |-> "none"]
    /\ undoLeft = {} /\ undone = TRUE /\ swapFaults = 0

Fails(f) == f \in SwapFaults /\ swapFaults < MaxSwapFaults /\ swapFaults' = swapFaults + 1
Goes(p, to) == pc' = [pc EXCEPT ![p] = to]
Leaves(p, to) == Goes(p, to) /\ claim' = "nobody"
At(p, where) == pc[p] = where

InDest(e) == (e \in OldNames /\ oldAt[e] = "dest") \/ (e \in NewNames /\ newAt[e] = "dest")
OldIn(d) == {e \in OldNames : oldAt[e] = d}
NewIn(d) == {e \in NewNames : newAt[e] = d}
WithOld(from, to) == [e \in OldNames |-> IF oldAt[e] = from THEN to ELSE oldAt[e]]
WithNew(from, to) == [e \in NewNames |-> IF newAt[e] = from THEN to ELSE newAt[e]]
Writer == pc["w"] \notin {"idle", "done", "dead"}

(* ----- the run that copies back ------------------------------------------- *)

(* hold_path_claims, then _build_copy_back beside the host's entries.         *)
BuildCopyBack ==
    /\ At("w", "idle") /\ claim = "nobody"
    /\ claim' = "w" /\ Goes("w", "built")
    /\ newAt' = [e \in NewNames |-> "new"] /\ dirs' = dirs \cup {"new"}
    /\ UNCHANGED <<oldAt, journal, record, known, undoVars, swapFaults>>

(* CopyBackJournal, mkdir(old) and advance("out"), each its own write; one    *)
(* that fails removes what was set up, and no host entry has moved.           *)
SetUp ==
    \/ /\ At("w", "built") /\ journal' = "prep" /\ Goes("w", "prep") /\ UNCHANGED dirs
    \/ /\ At("w", "prep") /\ dirs' = dirs \cup {"old"} /\ Goes("w", "made") /\ UNCHANGED journal
    \/ /\ At("w", "made") /\ journal' = "out" /\ Goes("w", "out") /\ UNCHANGED dirs
SetUpSteps ==
    SetUp /\ UNCHANGED <<oldAt, newAt, record, claim, known, undoVars, swapFaults>>

SetUpFails ==
    /\ pc["w"] \in {"built", "prep", "made"} /\ Fails("fail")
    /\ newAt' = WithNew("new", "gone") /\ dirs' = {} /\ journal' = "none"
    /\ Leaves("w", "done")
    /\ UNCHANGED <<oldAt, record, known, undoVars>>

MoveOut(e) ==
    /\ At("w", "out") /\ oldAt[e] = "dest"
    /\ oldAt' = [oldAt EXCEPT ![e] = "old"]
    /\ UNCHANGED <<newAt, dirs, journal, record, claim, pc, known, undoVars, swapFaults>>

(* The phase is on disk before the first new entry moves.                     *)
AdvanceInLate ==
    /\ At("w", "out") /\ OldIn("dest") = {}
    /\ Goes("w", "in")
    /\ UNCHANGED <<treeVars, journal, record, claim, known, undoVars, swapFaults>>
AdvanceIn ==
    /\ At("w", "out") /\ OldIn("dest") = {}
    /\ journal' = "in" /\ Goes("w", "in")
    /\ UNCHANGED <<treeVars, record, claim, known, undoVars, swapFaults>>

MoveIn(e) ==
    /\ At("w", "in") /\ newAt[e] = "new"
    /\ newAt' = [newAt EXCEPT ![e] = "dest"]
    /\ UNCHANGED <<oldAt, dirs, journal, record, claim, pc, known, undoVars, swapFaults>>

AdvanceRetire ==
    \/ /\ At("w", "in") /\ NewIn("new") = {}
       /\ dirs' = dirs \ {"new"} /\ Goes("w", "swapped") /\ UNCHANGED journal
    \/ /\ At("w", "swapped") /\ journal' = "retire" /\ Goes("w", "tag") /\ UNCHANGED dirs
AdvanceRetireSteps ==
    AdvanceRetire
      /\ UNCHANGED <<oldAt, newAt, record, claim, known, undoVars, swapFaults>>

(* A rename fails: the moves are undone in reverse order, past one that fails.*)
SwapFails ==
    /\ pc["w"] \in {"out", "in"} /\ Fails("fail")
    /\ undoLeft' = ({"new"} \X NewIn("dest")) \cup ({"old"} \X OldIn("old"))
    /\ Goes("w", "undo")
    /\ UNCHANGED <<treeVars, journal, record, claim, known, undone>>

Undo(m) ==
    /\ At("w", "undo") /\ m \in undoLeft
    /\ m[1] = "old" => \A n \in undoLeft : n[1] = "old"
    /\ undoLeft' = undoLeft \ {m}
    /\ \/ /\ m[1] = "new" /\ newAt' = [newAt EXCEPT ![m[2]] = "new"]
          /\ UNCHANGED <<oldAt, undone, swapFaults>>
       \/ /\ m[1] = "old" /\ oldAt' = [oldAt EXCEPT ![m[2]] = "dest"]
          /\ newAt' = [e \in NewNames |-> IF e = m[2] /\ newAt[e] = "dest" THEN "gone"
                                          ELSE newAt[e]]
          /\ UNCHANGED <<undone, swapFaults>>
       \/ /\ Fails("fail") /\ undone' = FALSE /\ UNCHANGED <<oldAt, newAt>>
    /\ UNCHANGED <<dirs, journal, record, claim, pc, known>>

UndoEnds ==
    \/ /\ At("w", "undo") /\ undoLeft = {} /\ undone
       /\ newAt' = WithNew("new", "gone") /\ dirs' = {} /\ Goes("w", "undone")
       /\ UNCHANGED <<journal, claim>>
    \/ /\ At("w", "undone") /\ journal' = "none" /\ Leaves("w", "done")
       /\ UNCHANGED <<newAt, dirs>>
    \/ /\ At("w", "undo") /\ undoLeft = {} /\ ~undone
       /\ journal' = "broken" /\ Leaves("w", "done")
       /\ UNCHANGED <<newAt, dirs>>
UndoSteps == UndoEnds /\ UNCHANGED <<oldAt, record, known, undoVars, swapFaults>>

(* ----- retire_replaced, by the writer or by a recoverer --------------------- *)

(* Tagged and recorded before it is renamed to say that it is garbage; where  *)
(* it cannot be tagged it is removed under the name it has.                   *)
Tag(p) ==
    /\ At(p, "tag")
    /\ IF "old" \notin dirs
       THEN Goes(p, "close") /\ UNCHANGED <<treeVars, record, swapFaults>>
       ELSE \/ /\ record' = TRUE /\ Goes(p, "rename")
               /\ UNCHANGED <<treeVars, swapFaults>>
            \/ /\ Fails("noxattr") /\ Goes(p, "close")
               /\ oldAt' = WithOld("old", "gone") /\ dirs' = dirs \ {"old"}
               /\ UNCHANGED <<newAt, record>>
    /\ UNCHANGED <<journal, claim, known, undoVars>>

RenameDone(p) ==
    /\ At(p, "rename")
    /\ oldAt' = WithOld("old", "done")
    /\ dirs' = (dirs \ {"old"}) \cup {"done"}
    /\ Goes(p, "remove")
    /\ UNCHANGED <<newAt, journal, record, claim, known, undoVars, swapFaults>>

(* What cannot be removed keeps its record, and fails the run or the          *)
(* recovery.                                                                  *)
RemoveDone(p) ==
    /\ At(p, "remove")
    /\ \/ /\ oldAt' = WithOld("done", "gone") /\ dirs' = dirs \ {"done"}
          /\ record' = FALSE
          /\ Goes(p, "close") /\ UNCHANGED swapFaults
       \/ /\ Fails("fail") /\ Goes(p, IF p = "w" THEN "close" ELSE "refused")
          /\ UNCHANGED <<oldAt, dirs, record>>
    /\ UNCHANGED <<newAt, journal, claim, known, undoVars>>

(* The writer closes its journal whether or not the tree could be removed; a  *)
(* recoverer unlinks it only when it got this far.                            *)
CloseJournal(p) ==
    /\ At(p, "close")
    /\ journal' = "none"
    /\ IF p = "w" THEN Leaves(p, "done") ELSE Goes(p, "recovered") /\ UNCHANGED claim
    /\ UNCHANGED <<treeVars, record, known, undoVars, swapFaults>>

(* ----- recovery ------------------------------------------------------------- *)

(* A run that is about to stage the directory holds its claim first.          *)
StageClaims(p) ==
    /\ p \in Stagers /\ At(p, "idle") /\ claim = "nobody"
    /\ claim' = p /\ Goes(p, "claimed")
    /\ UNCHANGED <<treeVars, journal, record, known, undoVars, swapFaults>>
StageReads(p) ==
    /\ p \in Stagers /\ At(p, "claimed")
    /\ known' = [known EXCEPT ![p] = journal]
    /\ Goes(p, IF journal = "none" THEN "recovered" ELSE "check")
    /\ UNCHANGED <<treeVars, journal, record, claim, undoVars, swapFaults>>

(* A starting agent reads the journal, looks whether its writer lives, and    *)
(* claims the directory after that.                                           *)
AgentReads(p) ==
    /\ p \in Agents /\ At(p, "idle") /\ journal # "none"
    /\ Writer => "window" \in SwapFaults
    /\ known' = [known EXCEPT ![p] = journal]
    /\ Goes(p, "check")
    /\ UNCHANGED <<treeVars, journal, record, claim, undoVars, swapFaults>>

(* _journal_writer_alive, and then the claim.  A writer that finished its     *)
(* own undo badly lives on, and its journal is refused.                       *)
Checks(p) ==
    /\ p \in Recoverers /\ At(p, "check")
    /\ IF pc["w"] # "dead" \/ (p \in Agents /\ claim # "nobody")
       THEN Goes(p, "refused") /\ UNCHANGED claim
       ELSE claim' = p /\ Goes(p, "recover")
    /\ UNCHANGED <<treeVars, journal, record, known, undoVars, swapFaults>>

(* _recover_journal by the phase read: prep and out put the originals back    *)
(* and drop the new tree, in and retire take the rest of the new tree in and  *)
(* retire the originals; an entry never overwrites another.                   *)
BacksOut(p) == known[p] \in {"prep", "out"}

RecoverMove(p) ==
    /\ At(p, "recover") /\ known[p] # "broken"
    /\ \/ /\ BacksOut(p)
          /\ \E e \in OldIn("old") :
                IF InDest(e) THEN Goes(p, "refused") /\ UNCHANGED oldAt
                ELSE oldAt' = [oldAt EXCEPT ![e] = "dest"] /\ UNCHANGED pc
          /\ UNCHANGED newAt
       \/ /\ ~BacksOut(p)
          /\ \E e \in NewIn("new") :
                IF InDest(e) THEN Goes(p, "refused") /\ UNCHANGED newAt
                ELSE newAt' = [newAt EXCEPT ![e] = "dest"] /\ UNCHANGED pc
          /\ UNCHANGED oldAt
    /\ UNCHANGED <<dirs, journal, record, claim, known, undoVars, swapFaults>>

RecoverEnds(p) ==
    /\ At(p, "recover") /\ known[p] # "broken"
    /\ \/ /\ BacksOut(p) /\ OldIn("old") = {}
          /\ newAt' = WithNew("new", "gone") /\ dirs' = dirs \ {"new", "old"}
          /\ Goes(p, "close")
       \/ /\ ~BacksOut(p) /\ NewIn("new") = {}
          /\ dirs' = dirs \ {"new"} /\ Goes(p, "tag")
          /\ UNCHANGED newAt
    /\ UNCHANGED <<oldAt, journal, record, claim, known, undoVars, swapFaults>>

RecoverRefuses(p) ==
    /\ At(p, "recover") /\ known[p] = "broken"
    /\ Goes(p, "refused")
    /\ UNCHANGED <<treeVars, journal, record, claim, known, undoVars, swapFaults>>

(* clear_stale_copy_backs before staging: a recorded done- tree is garbage    *)
(* and goes, anything else with the mark refuses the mount.                   *)
ClearRecorded == IF record THEN dirs \ {"done"} ELSE dirs
ClearStale(p) ==
    /\ At(p, "recovered") /\ p \in Stagers
    /\ dirs' = ClearRecorded
    /\ oldAt' = IF "done" \in dirs \ ClearRecorded THEN WithOld("done", "gone") ELSE oldAt
    /\ record' = (record /\ ClearRecorded # {})
    /\ Goes(p, IF ClearRecorded = {} THEN "staged" ELSE "refused")
    /\ UNCHANGED <<newAt, journal, claim, known, undoVars, swapFaults>>

(* The run, the agent or the refused attempt ends; the process may try again. *)
Lets(p) ==
    /\ p \in Recoverers
    /\ pc[p] \in {"staged", "refused"} \/ (p \in Agents /\ At(p, "recovered"))
    /\ Goes(p, "idle")
    /\ claim' = IF claim = p THEN "nobody" ELSE claim
    /\ known' = [known EXCEPT ![p] = "none"]
    /\ UNCHANGED <<treeVars, journal, record, undoVars, swapFaults>>

(* A process is killed: the kernel drops its claim.  A recoverer's work is    *)
(* taken up by a later one.                                                   *)
Crash(p) ==
    /\ IF p = "w" THEN Writer ELSE ~At(p, "idle")
    /\ Fails("crash")
    /\ Goes(p, IF p = "w" THEN "dead" ELSE "idle")
    /\ claim' = IF claim = p THEN "nobody" ELSE claim
    /\ known' = IF p = "w" THEN known ELSE [known EXCEPT ![p] = "none"]
    /\ UNCHANGED <<treeVars, journal, record, undoVars>>

WriterSteps ==
    \/ BuildCopyBack \/ SetUpSteps \/ AdvanceIn \/ AdvanceRetireSteps \/ UndoSteps
    \/ \E e \in OldNames : MoveOut(e)
    \/ \E e \in NewNames : MoveIn(e)
    \/ \E m \in undoLeft : Undo(m)

Recovers(p) ==
    \/ StageClaims(p) \/ StageReads(p) \/ AgentReads(p) \/ Checks(p) \/ RecoverMove(p)
    \/ RecoverEnds(p) \/ RecoverRefuses(p) \/ ClearStale(p) \/ Lets(p)

Retires(p) == Tag(p) \/ RenameDone(p) \/ RemoveDone(p) \/ CloseJournal(p)

BackNext ==
    \/ WriterSteps \/ SetUpFails \/ SwapFails
    \/ \E p \in Recoverers : Recovers(p)
    \/ \E p \in Procs : Retires(p) \/ Crash(p)

BackSpec == BackInit /\ [][BackNext]_backVars

(* Every process runs on; workers keep starting and staging the directory.    *)
WriterGoes == WriterSteps \/ Retires("w")
RecovererGoes(p) == Recovers(p) \/ Retires(p)
BackFairness == WF_backVars(WriterGoes) /\ \A p \in Recoverers : SF_backVars(RecovererGoes(p))

(* ----- properties ----------------------------------------------------------- *)

(* Whatever point a death or a failed rename interrupts, a run that stages    *)
(* the directory finds it fully old or fully new, with nothing of the swap    *)
(* left in it, and so does anyone once no journal is open on it.              *)
FullyOld == OldIn("dest") = OldNames /\ NewIn("dest") = {}
FullyNew == NewIn("dest") = NewNames /\ OldIn("dest") = {}
NeverPartSwapped ==
    /\ \A p \in Stagers : At(p, "staged") => dirs = {} /\ (FullyOld \/ FullyNew)
    /\ journal = "none" => FullyOld \/ FullyNew

(* An original is destroyed only when the whole new tree has taken its place. *)
OriginalsKept == OldIn("gone") # {} => FullyNew
CopyBackWhole == NeverPartSwapped /\ OriginalsKept

(* A swap cut short by a death is put together by a later worker: its journal *)
(* does not stay open on a directory nobody can stage.                        *)
Resolved == pc["w"] = "dead" => journal = "none"
=================================================================================
