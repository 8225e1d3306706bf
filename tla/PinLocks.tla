------------------------------- MODULE PinLocks -------------------------------
(* The audit of a hashed lock (host/pins.py missing_from_locks): would         *)
(* `pip install --require-hashes` of this install set find every distribution  *)
(* that blastbox and the extras in use need?  The audit walks the files that   *)
(* include one another, closes the extras over blastbox's own self-references, *)
(* looks at blastbox's requirements and then follows the requirements of what  *)
(* is pinned, with a stack and a set of what it has seen.                      *)
EXTENDS Naturals, Sequences, FiniteSets, SequencesExt

CONSTANTS LockFiles,    \* the files; the install set has the one member "root"
          LockWorlds,   \* the repositories and indexes audited
          LockExtras    \* names of extras

(* A world holds                                                               *)
(*   lines      file -> its lines: [kind "r" or "c", to] or                    *)
(*              [kind "pin", name, version, here, hashed, extras]              *)
(*   requires   what blastbox requires: [name, fits, extras, under]            *)
(*   needs      <<name, version>> -> its requirements, for those the index     *)
(*              answers for                                                    *)
(*   declared   the extras the install line names                              *)
(* A requirement is met by the versions in "fits"; "under" is the extra its    *)
(* marker asks for, or "".  A pin is "here" when its marker holds.             *)

VARIABLES
  lkWorld,
  lkAt,
  lkStack,     \* the files being read: <<file, next line, constraining>>
  lkRead,      \* files read, with the mode in which
  lkPins,      \* the pins found, in order
  lkLimits,    \* constraints found
  lkExtras,    \* the extras in play
  lkQueue, lkSeen,
  lkGaps       \* what is reported: <<name, why>>

lockVars == <<lkWorld, lkAt, lkStack, lkRead, lkPins, lkLimits, lkExtras, lkQueue, lkSeen, lkGaps>>

Me == "blastbox"

LockInit ==
  /\ lkWorld \in LockWorlds
  /\ lkAt = "pins" /\ lkStack = <<>> /\ lkRead = {} /\ lkPins = <<>> /\ lkLimits = {}
  /\ lkExtras = {} /\ lkQueue = {} /\ lkSeen = {} /\ lkGaps = {}
-------------------------------------------------------------------------------
(* Reading the files.  _effective_pins follows -r and reads a file once;       *)
(* _constraint_specs follows -r and -c and reads a file once in each mode.     *)
TopLine == lkWorld.lines[Head(lkStack)[1]][Head(lkStack)[2]]
AtEnd == Head(lkStack)[2] > Len(lkWorld.lines[Head(lkStack)[1]])
Rest == <<[Head(lkStack) EXCEPT ![2] = @ + 1]>> \o Tail(lkStack)
EnterAs(file, mode, rest) ==
  /\ lkStack' = IF <<file, mode>> \in lkRead THEN rest ELSE <<<<file, 1, mode>>>> \o rest
  /\ lkRead' = lkRead \cup {<<file, mode>>}

PinsStart ==
  /\ lkAt = "pins" /\ lkRead = {}
  /\ EnterAs("root", FALSE, <<>>)
  /\ UNCHANGED <<lkWorld, lkAt, lkPins, lkLimits, lkExtras, lkQueue, lkSeen, lkGaps>>

PinsLine ==
  /\ lkAt = "pins" /\ lkStack # <<>> /\ ~AtEnd
  /\ IF TopLine.kind = "r" THEN EnterAs(TopLine.to, FALSE, Rest) ELSE lkStack' = Rest /\ UNCHANGED lkRead
  /\ lkPins' = IF TopLine.kind = "pin" THEN Append(lkPins, TopLine) ELSE lkPins
  /\ UNCHANGED <<lkWorld, lkAt, lkLimits, lkExtras, lkQueue, lkSeen, lkGaps>>

FileEnds ==
  /\ lkStack # <<>> /\ AtEnd
  /\ lkStack' = Tail(lkStack)
  /\ UNCHANGED <<lkWorld, lkAt, lkRead, lkPins, lkLimits, lkExtras, lkQueue, lkSeen, lkGaps>>

\* A set without a pin of blastbox, or without one hash, is not judged.
Judged(pins) ==
  /\ \E i \in DOMAIN pins : pins[i].name = Me
  /\ \E i \in DOMAIN pins : pins[i].hashed
PinsEnd ==
  /\ lkAt = "pins" /\ lkStack = <<>> /\ lkRead # {}
  /\ lkAt' = IF Judged(lkPins) THEN "limits" ELSE "skipped"
  /\ lkRead' = {}
  /\ UNCHANGED <<lkWorld, lkStack, lkPins, lkLimits, lkExtras, lkQueue, lkSeen, lkGaps>>

LimitsStart ==
  /\ lkAt = "limits" /\ lkRead = {}
  /\ EnterAs("root", FALSE, <<>>)
  /\ UNCHANGED <<lkWorld, lkAt, lkPins, lkLimits, lkExtras, lkQueue, lkSeen, lkGaps>>

LimitsLine ==
  /\ lkAt = "limits" /\ lkStack # <<>> /\ ~AtEnd
  /\ IF TopLine.kind = "pin"
     THEN /\ lkStack' = Rest /\ UNCHANGED lkRead
          /\ lkLimits' = IF Head(lkStack)[3] THEN lkLimits \cup {<<TopLine.name, TopLine.version>>} ELSE lkLimits
     ELSE /\ EnterAs(TopLine.to, TopLine.kind = "c" \/ Head(lkStack)[3], Rest)
          /\ UNCHANGED lkLimits
  /\ UNCHANGED <<lkWorld, lkAt, lkPins, lkExtras, lkQueue, lkSeen, lkGaps>>
-------------------------------------------------------------------------------
(* What is asked of the pins *)
HerePins == {i \in DOMAIN lkPins : lkPins[i].here}
Usable(req) == {i \in HerePins : lkPins[i].name = req.name /\ lkPins[i].hashed /\ lkPins[i].version \in req.fits}
First(S) == CHOOSE i \in S : \A j \in S : i <= j
Applies(req, extras) == req.under = "" \/ req.under \in extras

Enforced == UNION {lkPins[i].extras : i \in {j \in HerePins : lkPins[j].name = Me}}

\* _extras_in_play: an extra most of whose own distributions are pinned.
NamesUnder(e) == {r.name : r \in {q \in lkWorld.requires : q.under = e}}
OwnNames(e) == NamesUnder(e) \ (UNION {NamesUnder(o) : o \in (LockExtras \cup {""}) \ {e}} \cup {Me})
InPlay ==
  {e \in LockExtras : /\ OwnNames(e) # {}
                      /\ 2 * Cardinality(OwnNames(e) \cap {lkPins[i].name : i \in HerePins}) > Cardinality(OwnNames(e))}
StartingExtras ==
  IF Enforced \cup lkWorld.declared # {} THEN Enforced \cup lkWorld.declared ELSE InPlay

Clashes == {<<lkPins[i].name, "clash">> : i \in {x \in HerePins :
              \E j \in HerePins : lkPins[j].name = lkPins[x].name /\ lkPins[j].version # lkPins[x].version}}
Excluded == {<<lkPins[i].name, "excluded">> : i \in {x \in HerePins :
              \E l \in lkLimits : l[1] = lkPins[x].name /\ l[2] # lkPins[x].version}}

\* _judge_scope: a blastbox pin that is not for this platform leaves nothing to judge.
LimitsEnd ==
  /\ lkAt = "limits" /\ lkStack = <<>> /\ lkRead # {}
  /\ IF \E i \in HerePins : lkPins[i].name = Me
     THEN lkAt' = "extras" /\ lkExtras' = StartingExtras /\ lkGaps' = Clashes \cup Excluded
     ELSE lkAt' = "skipped" /\ UNCHANGED <<lkExtras, lkGaps>>
  /\ UNCHANGED <<lkWorld, lkStack, lkRead, lkPins, lkLimits, lkQueue, lkSeen>>

\* _with_nested_extras: one round of the loop.
SelfRefs(extras) == {r \in lkWorld.requires : r.name = Me /\ Applies(r, extras)}
Grown(extras) == extras \cup UNION {r.extras : r \in SelfRefs(extras)}
GrowExtras ==
  /\ lkAt = "extras"
  /\ lkExtras' = Grown(lkExtras)
  /\ lkAt' = IF Grown(lkExtras) = lkExtras THEN "direct" ELSE "extras"
  /\ UNCHANGED <<lkWorld, lkStack, lkRead, lkPins, lkLimits, lkQueue, lkSeen, lkGaps>>

Direct == {r \in lkWorld.requires : Applies(r, lkExtras)}
DirectGaps ==
  /\ lkAt = "direct"
  /\ lkGaps' = lkGaps \cup {<<r.name, "missing">> : r \in {q \in Direct : Usable(q) = {}}}
  /\ lkQueue' = Direct /\ lkAt' = "deep"
  /\ UNCHANGED <<lkWorld, lkStack, lkRead, lkPins, lkLimits, lkExtras, lkSeen>>

\* _transitive_gaps: one turn of the loop.  The order of the stack is left open.
Key(req) == <<req.name, lkPins[First(Usable(req))].version, req.extras>>
NeedsOf(key) == IF <<key[1], key[2]>> \in DOMAIN lkWorld.needs
                THEN {s \in lkWorld.needs[<<key[1], key[2]>>] : Applies(s, key[3])} ELSE {}
Visit(req) ==
  /\ lkAt = "deep" /\ req \in lkQueue
  /\ IF Usable(req) = {} \/ Key(req) \in lkSeen
     THEN lkQueue' = lkQueue \ {req} /\ UNCHANGED <<lkSeen, lkGaps>>
     ELSE /\ lkSeen' = lkSeen \cup {Key(req)}
          /\ LET subs == NeedsOf(<<Key(req)[1], Key(req)[2], req.extras>>) IN
             /\ lkGaps' = lkGaps \cup {<<s.name, "missing">> : s \in {x \in subs : Usable(x) = {}}}
             /\ lkQueue' = (lkQueue \ {req}) \cup {s \in subs : Usable(s) # {}}
  /\ UNCHANGED <<lkWorld, lkAt, lkStack, lkRead, lkPins, lkLimits, lkExtras>>

AuditEnds ==
  /\ lkAt = "deep" /\ lkQueue = {}
  /\ lkAt' = "done"
  /\ UNCHANGED <<lkWorld, lkStack, lkRead, lkPins, lkLimits, lkExtras, lkQueue, lkSeen, lkGaps>>

LockNext ==
  \/ PinsStart \/ PinsLine \/ FileEnds \/ PinsEnd \/ LimitsStart \/ LimitsLine \/ LimitsEnd
  \/ GrowExtras \/ DirectGaps \/ (\E req \in lkQueue : Visit(req)) \/ AuditEnds

LockSpec == LockInit /\ [][LockNext]_lockVars
-------------------------------------------------------------------------------
(* What the audit should find, without stacks or sets of what was seen *)

\* The files pip reads, and those it reads as constraints.
Edges(kinds) == {<<f, g>> \in LockFiles \X LockFiles :
                   \E i \in DOMAIN lkWorld.lines[f] : lkWorld.lines[f][i].kind \in kinds /\ lkWorld.lines[f][i].to = g}
ClosedUnder(S, E) == \A e \in E : e[1] \in S => e[2] \in S
ReachedFrom(start, E) == {f \in LockFiles : \A S \in SUBSET LockFiles : (start \subseteq S /\ ClosedUnder(S, E)) => f \in S}
PipReads == ReachedFrom({"root"}, Edges({"r"}))
PipLimits == ReachedFrom({e[2] : e \in {x \in Edges({"c"}) : x[1] \in ReachedFrom({"root"}, Edges({"r", "c"}))}},
                         Edges({"r", "c"}))
PinsOf(files) == UNION {{lkWorld.lines[f][i] : i \in {j \in DOMAIN lkWorld.lines[f] : lkWorld.lines[f][j].kind = "pin"}} : f \in files}

\* The smallest set of extras closed under blastbox's references to itself.
NeededExtras == {e \in LockExtras : \A S \in SUBSET LockExtras : (StartingExtras \subseteq S /\ Grown(S) \subseteq S) => e \in S}

\* The smallest set of installed things, each with the extras asked of it.
Installs(reqs) == {<<r.name, lkPins[First(Usable(r))].version, r.extras>> : r \in {q \in reqs : Usable(q) # {}}}
Everything == Installs(lkWorld.requires) \cup UNION {Installs(lkWorld.needs[k]) : k \in DOMAIN lkWorld.needs}
Complete(S, direct) == Installs(direct) \subseteq S /\ \A k \in S : Installs(NeedsOf(k)) \subseteq S
Needed(direct) == {k \in Everything : \A S \in SUBSET Everything : Complete(S, direct) => k \in S}
Missing(reqs) == {<<r.name, "missing">> : r \in {q \in reqs : Usable(q) = {}}}

\* When the audit ends it has read exactly the files pip would read, each pin
\* once, and the constraints of exactly the files reached through a -c; and it
\* reports a distribution missing exactly when something that would be
\* installed, with the extras asked of it, needs one that no hashed pin for this
\* platform satisfies.  Files that include one another, requirements in a cycle
\* and one distribution needed with and without an extra do not mislead it.
AuditExact ==
  lkAt = "done" =>
    LET direct == {r \in lkWorld.requires : Applies(r, NeededExtras)} IN
    /\ ToSet(lkPins) = PinsOf(PipReads) /\ Len(lkPins) = Cardinality(PinsOf(PipReads))
    /\ lkLimits = {<<p.name, p.version>> : p \in PinsOf(PipLimits)}
    /\ lkExtras = NeededExtras
    /\ {g \in lkGaps : g[2] = "missing"}
         = Missing(direct) \cup UNION {Missing(NeedsOf(k)) : k \in Needed(direct)}
===============================================================================
