------------------------------- MODULE MCLogin --------------------------------
(***************************************************************************)
(* LoginGuard with small thresholds, and Tokens with lifetimes of one or   *)
(* two seconds, side by side.  They share no variable, so a behaviour      *)
(* moves one of them, which `part` names, and their states add up.         *)
(***************************************************************************)
EXTENDS LoginGuard, Tokens, TLC

CONSTANTS r1, r2, e1

VARIABLE part

\* Two logins; a login and an update; a login and a change of the configuration.
ProfilesForMC == {{r1, r2}} \cup {{r, c} : r \in {r1, r2}, c \in {Updater, e1}}

DefaultsForMC ==
    LoginMaxFailed :> 2 @@ IpSuspiciousThreshold :> 2 @@ IpBanSeconds :> 1

LifetimesForMC == [kr \in {"access", "refresh"} \X BOOLEAN |-> IF kr[2] THEN 2 ELSE 1]

\* The parts share r1 and r2, so that one permutation does for both.
Interchangeable == Permutations({r1, r2})

\* What a row says that is not there makes no difference.
RowsForMC ==
    {rows \in [Edited -> ConfigRow] : \A k \in Edited :
        rows[k].state # "present" => rows[k].value = NotANumber /\ rows[k].enabled}

LoginInit ==
    /\ Init /\ TokensInit
    /\ part \in {"guard", "tokens"}
    /\ part = "guard" => ~sameSecret /\ row \in RowsForMC
    /\ part = "tokens" => clients = {r1, r2} /\ row = CHOOSE rows \in RowsForMC : TRUE

LoginNext ==
    \/ part = "guard" /\ Next /\ UNCHANGED <<tokenVars, part>>
    \/ part = "tokens" /\ TokensNext /\ UNCHANGED <<vars, part>>

LoginSpec == LoginInit /\ [][LoginNext]_<<vars, tokenVars, part>>
===============================================================================
