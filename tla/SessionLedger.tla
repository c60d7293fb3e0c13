---------------------------- MODULE SessionLedger ----------------------------
(***************************************************************************)
(* What the sessions of a subject promise, without rows, tokens, statements *)
(* or requests: a login opens a token family under the passwordVersion of   *)
(* its time, refreshing goes unseen, a family that is closed stays closed,  *)
(* and only open families of the current passwordVersion are let in.        *)
(***************************************************************************)
EXTENDS Naturals

CONSTANT Families

VARIABLES
    epoch,      \* the passwordVersion
    family,     \* [Families -> Entry]
    honoured    \* the families whose access tokens are let in

ledger == <<epoch, family, honoured>>

Entry == [state : {"none", "open", "closed"}, epoch : Nat]

Honourable == {f \in Families : family[f].state = "open" /\ family[f].epoch = epoch}

LedgerInit ==
    /\ epoch = 0
    /\ family = [f \in Families |-> [state |-> "none", epoch |-> 0]]
    /\ honoured = {}

\* A login; the passwordVersion it has read may be an old one by now.
Open(f, e) ==
    /\ family[f].state = "none"
    /\ e <= epoch
    /\ family' = [family EXCEPT ![f] = [state |-> "open", epoch |-> e]]
    /\ UNCHANGED epoch

\* Logout, eviction, expiry, reuse of a token, a request that dies in the middle of a rotation.
Close(closing) ==
    /\ \A f \in closing : family[f].state = "open"
    /\ family' = [f \in Families |-> IF f \in closing THEN [family[f] EXCEPT !.state = "closed"]
                                     ELSE family[f]]
    /\ UNCHANGED epoch

\* logoutAll, a new password, a disabled account.
Advance == epoch' = epoch + 1 /\ UNCHANGED family

\* Whom the guard lets in may change with every step, and without any.
LedgerNext ==
    /\ \/ \E f \in Families, e \in 0..epoch : Open(f, e)
       \/ \E closing \in SUBSET Families : Close(closing)
       \/ Advance
    /\ honoured' \subseteq Honourable'

LedgerSpec == LedgerInit /\ [][LedgerNext]_ledger
==============================================================================
