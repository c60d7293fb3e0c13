------------------------------- MODULE Sessions -------------------------------
(***************************************************************************)
(* The sessions of one subject, a user or an administrator: SessionService *)
(* and the services that call it, UserAuthService, AdminAuthService,       *)
(* ProfileService, AdministratorsService and EndUserService.update.        *)
(*                                                                         *)
(* A request is a sequence of statements without a transaction around      *)
(* them.  The model keeps each statement that reads or writes the shared   *)
(* tables as a step, so that requests interleave as they do in the         *)
(* program, and lets a request end after any of them (the process dies,    *)
(* the database does not answer).                                          *)
(*                                                                         *)
(* A session stands for its row and for the pair of tokens issued with it: *)
(* they bear its jti and the passwordVersion (pv) the handler had read.    *)
(***************************************************************************)
EXTENDS Naturals, FiniteSets

CONSTANTS
    Requests,       \* slots for requests in flight
    Ops,            \* what the clients ask for, and "expire": sessions expire
    Sessions,       \* the ids of the rows, in the order of their inserts
    MaxPv,          \* bound of the model: passwordVersion
    Policy,         \* "replace" or "limit": SESSION_POLICY
    MaxActive,      \* JWT_MAX_ACTIVE_SESSIONS, for "limit"; 0: no limit
    NoRequest

AllOps == {"login", "refresh", "logout", "revokeByUser", "logoutAll", "changePassword",
           "edit", "disable", "expire"}

VARIABLES
    user,         \* the columns status (ACTIVE or not) and passwordVersion
    password,     \* the version of the stored password hash
    session,      \* [Sessions -> Row]: user_sessions
    blacklist,    \* sessions whose jti is in Redis until the access token expires
    held,         \* sessions whose tokens have reached a client
    req,          \* [Requests -> Request \cup {NoRequest}]
    announced,    \* history: the last password whose change has increased pv
    ended,        \* history: families that existed when pv was increased
    reused        \* history: families revoked by reuse detection

vars == <<user, password, session, blacklist, held, req, announced, ended, reused>>
-------------------------------------------------------------------------------
NoSession == 0

\* Of revokedReason the code tells "rotated" from everything else. "expired" is an
\* unrevoked row past its expiresAt.
States == {"absent", "live", "expired", "rotated", "revoked"}

\* The statement a request is about to make.
Steps == {"verify", "insert", "select", "evict", "validate", "reuse", "rotate", "renew",
          "find", "save", "blacklist", "set", "revoke", "increment"}

User    == [active : BOOLEAN, pv : Nat]
Row     == [state : States, family : Sessions \cup {NoSession}, pv : Nat, proof : Nat]
Request == [op : AllOps, at : Steps, session : Sessions \cup {NoSession}, seen : User,
            proof : Nat, picked : SUBSET Sessions]

ASSUME SessionConstants ==
    /\ Sessions \subseteq Nat \ {NoSession}
    /\ Ops \subseteq AllOps
    /\ MaxPv \in Nat /\ MaxActive \in Nat
    /\ Policy \in {"replace", "limit"}
    /\ NoRequest \notin Request

Absent     == [state |-> "absent", family |-> NoSession, pv |-> 0, proof |-> 0]
Existing   == {s \in Sessions : session[s].state # "absent"}
Live       == {s \in Sessions : session[s].state = "live"}
Unrevoked  == {s \in Sessions : session[s].state \in {"live", "expired"}}
Kin(s)     == {u \in Existing : session[u].family = session[s].family}

\* UPDATE user_sessions SET revokedAt = now, revokedReason = ... for each of S.
Revoked(S) == [s \in Sessions |-> IF s \in S THEN [session[s] EXCEPT !.state = "revoked"]
                                  ELSE session[s]]

\* Whether a request with the access token of s gets past the strategy: the
\* blacklist, then validateAccess. Its three reads are taken as one: each of them can
\* only refuse the request.
Accepted(s) ==
    /\ s \notin blacklist
    /\ s \in Live
    /\ user.active
    /\ user.pv = session[s].pv

\* Control flow of a request.
Starts(r, op, step, s, seen, proof) ==
    /\ op \in Ops
    /\ req[r] = NoRequest
    /\ req' = [req EXCEPT ![r] = [op |-> op, at |-> step, session |-> s, seen |-> seen,
                                  proof |-> proof, picked |-> {}]]
At(r, ops, step) == req[r] # NoRequest /\ req[r].op \in ops /\ req[r].at = step
GoesOn(r, step)  == req' = [req EXCEPT ![r].at = step]
Ends(r)          == req' = [req EXCEPT ![r] = NoRequest]
-------------------------------------------------------------------------------
Init ==
    /\ user = [active |-> TRUE, pv |-> 0]
    /\ password = 0
    /\ session = [s \in Sessions |-> Absent]
    /\ blacklist = {} /\ held = {}
    /\ req = [r \in Requests |-> NoRequest]
    /\ announced = 0 /\ ended = {} /\ reused = {}

\* sessionRepository.save of a new row; ids are given in order.
Inserts(s, family, pv, proof) ==
    /\ s \notin Existing
    /\ \A u \in Sessions \ Existing : s <= u
    /\ session' = [session EXCEPT ![s] = [state |-> "live", family |-> family, pv |-> pv,
                                          proof |-> proof]]

(***************************************************************************)
(* login: verifyCredentials, then establishSession.                        *)
(***************************************************************************)

\* resolveByIdentifier and the status gate. The pv is the one read here.
LoginReads(r) ==
    /\ user.active
    /\ Starts(r, "login", "verify", NoSession, user, 0)
    /\ UNCHANGED <<user, password, session, blacklist, held, announced, ended, reused>>

\* credentialService.verify: the password given is the stored one.
LoginVerifies(r) ==
    /\ At(r, {"login"}, "verify")
    /\ req' = [req EXCEPT ![r].at = "insert", ![r].proof = password]
    /\ UNCHANGED <<user, password, session, blacklist, held, announced, ended, reused>>

\* create: a session of a new family.
LoginInserts(r) ==
    /\ At(r, {"login"}, "insert")
    /\ \E s \in Sessions :
        /\ Inserts(s, s, req[r].seen.pv, req[r].proof)
        /\ req' = [req EXCEPT ![r].at = "select", ![r].session = s]
    /\ UNCHANGED <<user, password, blacklist, held, announced, ended, reused>>

\* Mutant: the comparison with the limit is off by one.
SurplusButOne(mine) ==
    IF Policy = "replace" THEN {s \in Live : \E u \in Live \ {mine} : u > s}
    ELSE {s \in Live : MaxActive < Cardinality({u \in Live : u > s})}

\* replaceOtherActiveSessions, or the oldest ones that enforceMaxActiveSessions evicts.
Surplus(mine) ==
    IF Policy = "replace" THEN Live \ {mine}
    ELSE {s \in Live : 0 < MaxActive /\ MaxActive <= Cardinality({u \in Live : u > s})}

LoginSelects(r) ==
    /\ At(r, {"login"}, "select")
    /\ req' = [req EXCEPT ![r].at = "evict", ![r].picked = Surplus(req[r].session)]
    /\ UNCHANGED <<user, password, session, blacklist, held, announced, ended, reused>>

\* save(others): the rows are updated whatever has become of them since.
LoginEvicts(r) ==
    /\ At(r, {"login"}, "evict")
    /\ session' = Revoked(req[r].picked)
    /\ held' \in {held, held \cup {req[r].session}}    \* the answer may be lost
    /\ Ends(r)
    /\ UNCHANGED <<user, password, blacklist, announced, ended, reused>>

(***************************************************************************)
(* refresh: the gates, validateRefreshSession, rotateSession.              *)
(***************************************************************************)

\* Mutant: a refresh token of an older pv is exchanged for one of the current.
RefreshReadsStatus(r, s) ==
    /\ s \in held
    /\ user.active
    /\ Starts(r, "refresh", "validate", s, user, 0)
    /\ UNCHANGED <<user, password, session, blacklist, held, announced, ended, reused>>

\* findByUid, the status and the pv gate.
RefreshReads(r, s) ==
    /\ s \in held
    /\ user.active
    /\ user.pv = session[s].pv
    /\ Starts(r, "refresh", "validate", s, user, 0)
    /\ UNCHANGED <<user, password, session, blacklist, held, announced, ended, reused>>

\* Mutant: a revoked session is as good as a live one.
RefreshValidatesRevoked(r) ==
    /\ At(r, {"refresh"}, "validate")
    /\ LET s == req[r].session IN
       \/ session[s].state \in {"live", "revoked"} /\ GoesOn(r, "rotate")
       \/ session[s].state = "rotated" /\ GoesOn(r, "reuse")
       \/ session[s].state = "expired" /\ Ends(r)
    /\ UNCHANGED <<user, password, session, blacklist, held, announced, ended, reused>>

\* validateRefreshSession up to its verdict: a rotated session means reuse, a
\* revoked or expired one is refused.
RefreshValidates(r) ==
    /\ At(r, {"refresh"}, "validate")
    /\ LET s == req[r].session IN
       \/ s \in Live /\ GoesOn(r, "rotate")
       \/ session[s].state = "rotated" /\ GoesOn(r, "reuse")
       \/ session[s].state \in {"revoked", "expired"} /\ Ends(r)
    /\ UNCHANGED <<user, password, session, blacklist, held, announced, ended, reused>>

\* Mutant: only the session that was presented.
RevokeReusedSession(r) ==
    /\ At(r, {"refresh"}, "reuse")
    /\ session' = Revoked({req[r].session} \cap Unrevoked)
    /\ reused' = reused \cup {session[req[r].session].family}
    /\ Ends(r)
    /\ UNCHANGED <<user, password, blacklist, held, announced, ended>>

\* revokeTokenFamily, one UPDATE; the request is refused.
RevokeTokenFamily(r) ==
    /\ At(r, {"refresh"}, "reuse")
    /\ session' = Revoked(Kin(req[r].session) \cap Unrevoked)
    /\ reused' = reused \cup {session[req[r].session].family}
    /\ Ends(r)
    /\ UNCHANGED <<user, password, blacklist, held, announced, ended>>

\* Mutant: the old session is left as it is.
RotateForgetsOld(r) ==
    /\ At(r, {"refresh"}, "rotate")
    /\ GoesOn(r, "renew")
    /\ UNCHANGED <<user, password, session, blacklist, held, announced, ended, reused>>

\* rotateSession, the old row: found again and saved as rotated, whatever it is now.
RotateRevokesOld(r) ==
    /\ At(r, {"refresh"}, "rotate")
    /\ session' = [session EXCEPT ![req[r].session].state = "rotated"]
    /\ GoesOn(r, "renew")
    /\ UNCHANGED <<user, password, blacklist, held, announced, ended, reused>>

\* rotateSession, the new row: the family of the old one, the pv read at the start.
RotateInserts(r) ==
    /\ At(r, {"refresh"}, "renew")
    /\ LET old == session[req[r].session] IN
       \E s \in Sessions :
        /\ Inserts(s, old.family, req[r].seen.pv, old.proof)
        /\ held' \in {held, held \cup {s}}
    /\ Ends(r)
    /\ UNCHANGED <<user, password, blacklist, announced, ended, reused>>

(***************************************************************************)
(* logout and revokeByUser.                                                *)
(***************************************************************************)

\* The guard has let the request in.
LogoutStarts(r, s) ==
    /\ s \in held /\ Accepted(s)
    /\ Starts(r, "logout", "find", s, user, 0)
    /\ UNCHANGED <<user, password, session, blacklist, held, announced, ended, reused>>

\* revokeByUser names any session of the subject.
RevokeByUserStarts(r, s) ==
    /\ s \in Existing
    /\ \E own \in held : Accepted(own)
    /\ Starts(r, "revokeByUser", "find", s, user, 0)
    /\ UNCHANGED <<user, password, session, blacklist, held, announced, ended, reused>>

AfterRevoke == [logout |-> "blacklist", revokeByUser |-> "done",
                logoutAll |-> "increment", disable |-> "increment",
                changePassword |-> "done"]

\* The rest of a handler that has come to its last statement is nothing.
Continues(r, step) == IF step = "done" THEN Ends(r) ELSE GoesOn(r, step)

\* revoke: nothing to save if the row is already revoked.
RevokeFinds(r) ==
    /\ At(r, {"logout", "revokeByUser"}, "find")
    /\ Continues(r, IF req[r].session \in Unrevoked THEN "save"
                    ELSE AfterRevoke[req[r].op])
    /\ UNCHANGED <<user, password, session, blacklist, held, announced, ended, reused>>

RevokeSaves(r) ==
    /\ At(r, {"logout", "revokeByUser"}, "save")
    /\ session' = Revoked({req[r].session})
    /\ Continues(r, AfterRevoke[req[r].op])
    /\ UNCHANGED <<user, password, blacklist, held, announced, ended, reused>>

\* tokenBlacklist.blacklist, the end of logout and logoutAll.
Blacklists(r) ==
    /\ At(r, {"logout", "logoutAll"}, "blacklist")
    /\ blacklist' = blacklist \cup {req[r].session}
    /\ Ends(r)
    /\ UNCHANGED <<user, password, session, held, announced, ended, reused>>

(***************************************************************************)
(* logoutAll, changePassword, and update (disable or edit).                *)
(***************************************************************************)

LogoutAllStarts(r, s) ==
    /\ s \in held /\ Accepted(s)
    /\ Starts(r, "logoutAll", "revoke", s, user, 0)
    /\ UNCHANGED <<user, password, session, blacklist, held, announced, ended, reused>>

\* changePassword behind its guard and its check of the old password, or
\* resetPassword, which has none.
ChangePasswordStarts(r) ==
    /\ Starts(r, "changePassword", "set", NoSession, user, 0)
    /\ UNCHANGED <<user, password, session, blacklist, held, announced, ended, reused>>

\* credentialService.setPassword.
SetPassword(r) ==
    /\ At(r, {"changePassword"}, "set")
    /\ password < MaxPv
    /\ password' = password + 1
    /\ req' = [req EXCEPT ![r].at = "increment", ![r].proof = password + 1]
    /\ UNCHANGED <<user, session, blacklist, held, announced, ended, reused>>

\* update, the findByUid; the fields of the DTO are set on the entity.
UpdateReads(r) ==
    /\ \E active \in BOOLEAN :
        Starts(r, IF user.active /\ ~active THEN "disable" ELSE "edit", "save",
               NoSession, [user EXCEPT !.active = active], 0)
    /\ UNCHANGED <<user, password, session, blacklist, held, announced, ended, reused>>

\* update, save(user): every column that differs from the row now is written.
UpdateSaves(r) ==
    /\ At(r, {"edit", "disable"}, "save")
    /\ user' = req[r].seen
    /\ IF req[r].op = "disable" THEN GoesOn(r, "revoke") ELSE Ends(r)
    /\ UNCHANGED <<password, session, blacklist, held, announced, ended, reused>>

\* revokeAllForUser, one UPDATE.
RevokeAllForUser(r) ==
    /\ At(r, {"logoutAll", "disable", "changePassword"}, "revoke")
    /\ session' = Revoked(Unrevoked)
    /\ Continues(r, AfterRevoke[req[r].op])
    /\ UNCHANGED <<user, password, blacklist, held, announced, ended, reused>>

AfterIncrement == [logoutAll |-> "blacklist", disable |-> "done",
                   changePassword |-> "revoke"]

\* Mutant: pv is written back from the row the request read.
IncrementFromRead(r) ==
    /\ At(r, {"logoutAll", "disable", "changePassword"}, "increment")
    /\ req[r].seen.pv < MaxPv
    /\ user' = [user EXCEPT !.pv = req[r].seen.pv + 1]
    /\ ended' = ended \cup {session[s].family : s \in Existing}
    /\ announced' = IF req[r].proof > announced THEN req[r].proof ELSE announced
    /\ Continues(r, AfterIncrement[req[r].op])
    /\ UNCHANGED <<password, session, blacklist, held, reused>>

\* incrementPasswordVersion, in the database.
IncrementPasswordVersion(r) ==
    /\ At(r, {"logoutAll", "disable", "changePassword"}, "increment")
    /\ user.pv < MaxPv
    /\ user' = [user EXCEPT !.pv = @ + 1]
    /\ ended' = ended \cup {session[s].family : s \in Existing}
    /\ announced' = IF req[r].proof > announced THEN req[r].proof ELSE announced
    /\ Continues(r, AfterIncrement[req[r].op])
    /\ UNCHANGED <<password, session, blacklist, held, reused>>

(***************************************************************************)
(* The environment.                                                        *)
(***************************************************************************)

\* expiresAt passes.
Expires(s) ==
    /\ "expire" \in Ops
    /\ s \in Live
    /\ session' = [session EXCEPT ![s].state = "expired"]
    /\ UNCHANGED <<user, password, blacklist, held, req, announced, ended, reused>>

\* The process dies, or a statement rejects: what has been written stays.
RequestDies(r) ==
    /\ req[r] # NoRequest
    /\ Ends(r)
    /\ UNCHANGED <<user, password, session, blacklist, held, announced, ended, reused>>
-------------------------------------------------------------------------------
LoginStep(r) ==
    LoginReads(r) \/ LoginVerifies(r) \/ LoginInserts(r) \/ LoginSelects(r) \/ LoginEvicts(r)

RefreshStep(r) ==
    \/ \E s \in Sessions : RefreshReads(r, s)
    \/ RefreshValidates(r) \/ RevokeTokenFamily(r) \/ RotateRevokesOld(r) \/ RotateInserts(r)

LogoutStep(r) ==
    \/ \E s \in Sessions : LogoutStarts(r, s) \/ RevokeByUserStarts(r, s) \/ LogoutAllStarts(r, s)
    \/ RevokeFinds(r) \/ RevokeSaves(r) \/ Blacklists(r)

AccountStep(r) ==
    \/ ChangePasswordStarts(r) \/ SetPassword(r)
    \/ UpdateReads(r) \/ UpdateSaves(r)
    \/ RevokeAllForUser(r) \/ IncrementPasswordVersion(r)

Next ==
    \/ \E r \in Requests : LoginStep(r) \/ RefreshStep(r) \/ LogoutStep(r) \/ AccountStep(r)
                           \/ RequestDies(r)
    \/ \E s \in Sessions : Expires(s)

Spec == Init /\ [][Next]_vars
-------------------------------------------------------------------------------
(***************************************************************************)
(* Properties.                                                             *)
(***************************************************************************)

\* Types; the history variables name what exists, a token never outruns the pv or the
\* password it comes from, and only revoked sessions are in the blacklist.
TypeOK ==
    /\ user \in User /\ password \in Nat
    /\ session \in [Sessions -> Row]
    /\ held \subseteq Existing /\ blacklist \subseteq Existing \ Unrevoked
    /\ req \in [Requests -> Request \cup {NoRequest}]
    /\ announced \in 0..password
    /\ ended \subseteq Existing /\ reused \subseteq Existing
    /\ \A s \in Existing : session[s].family \in Existing /\ session[s].proof <= password

\* Once a password change has increased pv, no session opened with an older password
\* gets a request through, however its login or its refreshes overlapped the change.
OldPasswordOpensNothing ==
    \A s \in Sessions : Accepted(s) => session[s].proof >= announced

\* logoutAll, a password change and disabling are for good: no session of a family that
\* existed when they increased pv is accepted again, nor any that comes of it later.
LogoutAllIsForGood ==
    \A s \in Sessions : Accepted(s) => session[s].family \notin ended

\* The comment of SessionService: a replayed refresh token ends its whole family.
ReuseEndsFamily ==
    \A s \in Live : session[s].family \notin reused

\* A family is a chain: it has one live session at most.
OneLivePerFamily ==
    \A s, u \in Live : session[s].family = session[u].family => s = u

\* The comment of jwtConfig.policy: when a login answers and no other login is on its way,
\* the sessions beyond its own ("replace") or beyond the MaxActive newest are closed.
LoginAppliesPolicy ==
    [][ \A r \in Requests :
          /\ At(r, {"login"}, "evict") /\ held' # held
          /\ \A q \in Requests \ {r} : req[q] = NoRequest \/ req[q].op # "login"
          => IF Policy = "replace" THEN Live' \subseteq {req[r].session}
             ELSE MaxActive > 0 => Cardinality(Live') <= MaxActive ]_vars

\* The families that can still be refreshed: one that has a live session, or a refresh of which
\* has been let through and will insert one.
OpenFamilies ==
    {session[s].family : s \in Live}
        \cup {session[req[r].session].family :
                  r \in {r \in Requests : At(r, {"refresh"}, "rotate") \/ At(r, {"refresh"}, "renew")}}

\* A family is named after its first session.
FamilyEntry(f) ==
    IF f \notin Existing \/ session[f].family # f THEN [state |-> "none", epoch |-> 0]
    ELSE [state |-> IF f \in OpenFamilies THEN "open" ELSE "closed", epoch |-> session[f].pv]

Ledger == INSTANCE SessionLedger WITH
    Families <- Sessions,
    epoch    <- user.pv,
    family   <- [f \in Sessions |-> FamilyEntry(f)],
    honoured <- {session[s].family : s \in {s \in Sessions : Accepted(s)}}

\* The statements of all requests together do what SessionLedger promises: a rotation never
\* brings a closed family back, whatever revoked it in between, and its sessions keep the pv of
\* their login (validateRefreshSession, rotateSession, validateAccess).
ImplementsLedger == Ledger!LedgerSpec
===============================================================================
