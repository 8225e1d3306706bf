------------------------------ MODULE MCDispatch ------------------------------
(* Instances of Dispatch for TLC: which node a thread runs on and which jobs it *)
(* may claim.                                                                   *)
EXTENDS Dispatch, TLC

CONSTANTS n1, n2, t1, t2

OneNode == [t \in {t1, t2} |-> n1]
\* Threads of one process are interchangeable.
SameProcess == Permutations({t1, t2})

EveryJob == [t \in {t1, t2} |-> Jobs]
===============================================================================
