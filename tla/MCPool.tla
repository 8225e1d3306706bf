--------------------------------- MODULE MCPool ---------------------------------
(* Instances of Pool for TLC.                                                   *)
EXTENDS Pool, TLC

\* Slots, dispatch threads and reapers are interchangeable.
Alike == Permutations(Slots) \cup Permutations(Clients) \cup Permutations(Reapers)
===============================================================================
