--------------------------- MODULE MCTaskRetention ---------------------------
(***************************************************************************)
(* TaskRetention for TLC: interchangeable tasks, workers and creators.     *)
(***************************************************************************)
EXTENDS TaskRetention, TLC

Interchangeable == Permutations(Tasks) \cup Permutations(Workers) \cup Permutations(Creators)
===============================================================================
