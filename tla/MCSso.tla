-------------------------------- MODULE MCSso --------------------------------
(* Sso with two identities, one of them without an e-mail.                      *)
EXTENDS Sso, TLC

CONSTANTS p1, p2, e1, a1

EmailsForMC == [p \in Identities |-> IF p = p1 THEN e1 ELSE NoEmail]
AdminForMC == a1 :> e1

Interchangeable == Permutations(Requests) \cup Permutations(Users) \cup Permutations(States)
==============================================================================
