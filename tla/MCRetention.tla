------------------------------ MODULE MCRetention ------------------------------
(* Instances of Retention for TLC: one dispatcher thread, and one or two nodes  *)
(* whose maintenance threads sweep.                                             *)
EXTENDS Retention, TLC

CONSTANTS n1, n2, t1

OneThread == t1 :> n1
EveryJob == t1 :> Jobs
================================================================================
