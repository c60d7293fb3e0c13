---------------------------- MODULE MCTaskDelivery ----------------------------
(***************************************************************************)
(* TaskDelivery for TLC. Only the run without liveness takes the symmetry. *)
(***************************************************************************)
EXTENDS TaskDelivery, TLC

Interchangeable == Permutations(Workers) \cup Permutations(Admins)
===============================================================================
