------------------------------ MODULE MCSessions ------------------------------
(***************************************************************************)
(* Sessions for TLC: interchangeable request slots.                        *)
(***************************************************************************)
EXTENDS Sessions, TLC

Interchangeable == Permutations(Requests)
===============================================================================
