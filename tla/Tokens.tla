------------------------------- MODULE Tokens --------------------------------
(* Access and refresh tokens in time: what they are signed with, how long they, *)
(* their session and their blacklist entry last, and which of them the guards   *)
(* of the two applications let in.                                             *)
(*                                                                            *)
(* TokenService, the passport strategies, TokenBlacklistService and the         *)
(* authentication services and controllers of admin-api and user-api.  Times    *)
(* are ticks; tokens and Redis count in seconds, sessions in ticks.  There is   *)
(* one account of each application, and clients present any token that has been *)
(* issued, in a cookie or in a header.  Status and passwordVersion of accounts,  *)
(* and which sessions a login or a reuse ends, are in Sessions.                  *)
EXTENDS Naturals

CONSTANTS Jtis,       \* the sessions
          Calls,      \* the requests under way
          Lifetime,   \* Lifetime[<<kind, remember>>]: seconds, jwtConfig
          PerSecond,  \* ticks
          MaxTick,    \* bound on the time
          NoJti

ASSUME TokensAssumption ==
    /\ Lifetime \in [{"access", "refresh"} \X BOOLEAN -> Nat \ {0}]
    /\ PerSecond \in Nat \ {0} /\ MaxTick \in Nat
    /\ NoJti \notin Jtis

VARIABLES now,
          sameSecret, \* whether access and refresh tokens are signed with the same secret
          issued,     \* issued[j]: the session j and when its tokens end
          blacklist,  \* blacklist[j]: the entry of j in Redis
          call,       \* call[c]: where a request is, and its locals
          loggedOut   \* the sessions whose logout has got to the end

tokenVars == <<now, sameSecret, issued, blacklist, call, loggedOut>>

Apps == {"admin", "user"}
TokenType == {"admin", "user", "refresh"}
Tokens == [kind : {"access", "refresh"}, jti : Jtis]

Ticks == 0..(MaxTick + PerSecond * (Lifetime[<<"access", TRUE>>] + Lifetime[<<"access", FALSE>>] +
                                    Lifetime[<<"refresh", TRUE>>] + Lifetime[<<"refresh", FALSE>>]))

\* app, access, refresh: the application that signed the two tokens, and their exp in seconds;
\* expiresAt, subject, family: of the row.  A family goes by the first of its sessions.
Issued == [state : {"none", "signed", "live", "revoked"}, app : Apps, access : Ticks,
           refresh : Ticks, expiresAt : Ticks, subject : Apps, family : Jtis \cup {NoJti}]

\* token: the jti of the request's own token; new: of the tokens it issues.
Call == [step : {"idle", "validate", "sign", "issue", "create", "rotate", "insert", "revoke",
                 "blacklist"},
         app : Apps, token : Jtis \cup {NoJti}, new : Jtis \cup {NoJti}, remember : BOOLEAN,
         expiresAt : Ticks]

Unused == [state |-> "none", app |-> "user", access |-> 0, refresh |-> 0, expiresAt |-> 0,
           subject |-> "user", family |-> NoJti]
NoCall == [step |-> "idle", app |-> "user", token |-> NoJti, new |-> NoJti, remember |-> FALSE,
           expiresAt |-> 0]
NoBan == [until |-> 0, forever |-> FALSE]

\* Only a session that has been inserted is revoked or blacklisted.
TokensTypeOK ==
    /\ now \in 0..MaxTick
    /\ sameSecret \in BOOLEAN
    /\ issued \in [Jtis -> Issued]
    /\ blacklist \in [Jtis -> [until : Ticks, forever : BOOLEAN]]
    /\ call \in [Calls -> Call]
    /\ \A j \in loggedOut : blacklist[j] # NoBan
    /\ \A j \in Jtis : blacklist[j] # NoBan => issued[j].state = "revoked"

TokensInit ==
    /\ now = 0
    /\ sameSecret \in BOOLEAN
    /\ issued = [j \in Jtis |-> Unused]
    /\ blacklist = [j \in Jtis |-> NoBan]
    /\ call = [c \in Calls |-> NoCall]
    /\ loggedOut = {}

Second(tick) == tick \div PerSecond

Has(c, step) == call[c].step = step
CallOver(c) == call' = [call EXCEPT ![c] = NoCall]

------------------------------------------------------------------------------
(* The strategies                                                              *)

Typ(t) == IF t.kind = "refresh" THEN "refresh" ELSE issued[t.jti].app
Exp(t) == IF t.kind = "refresh" THEN issued[t.jti].refresh ELSE issued[t.jti].access

\* jwtService.verify with the secret for this kind of token; it compares whole seconds.
Verifies(t, kind) ==
    /\ issued[t.jti].state # "none"
    /\ t.kind = kind \/ sameSecret
    /\ Second(now) < Exp(t)

\* AdminJwtStrategy, UserJwtStrategy.
MayEnter(app, t) == Typ(t) = app

Blacklisted(j) == blacklist[j].forever \/ now < blacklist[j].until

\* Mutant: the row is looked up by its jti alone.
HasSessionOfAny(app, j) == issued[j].state = "live" /\ now < issued[j].expiresAt

\* findByUserAndJti, for the account of this application: its row of user_sessions.
HasSession(app, j) ==
    /\ issued[j].state = "live" /\ issued[j].subject = app
    /\ now < issued[j].expiresAt

\* What a strategy asks where no session validator is bound, and where one is.
AcceptsUnasked(app, t) == Verifies(t, "access") /\ MayEnter(app, t) /\ ~Blacklisted(t.jti)
Accepts(app, t) == AcceptsUnasked(app, t) /\ HasSession(app, t.jti)

\* RefreshJwtStrategy; validateRefreshSession compares the hash with that of the refresh token.
AcceptsRefresh(t) == Verifies(t, "refresh") /\ Typ(t) = "refresh"

------------------------------------------------------------------------------
(* Issuing                                                                     *)

\* Mutant: refreshExpiresAt forgets about `remember`.
ExpiresAtPlain(remember) == now + PerSecond * Lifetime[<<"refresh", FALSE>>]

\* calculateExpiresAt(refreshExpiresInSeconds).
ExpiresAt(remember) == now + PerSecond * Lifetime[<<"refresh", remember>>]

\* issueTokens: both tokens are signed, iat being the second at hand.
Signs(c, app, old, remember) ==
    LET unused == {j \in Jtis : issued[j].state = "none"}
        j == CHOOSE j \in unused : TRUE IN
        /\ unused # {}
        /\ issued' = [issued EXCEPT ![j] =
               [Unused EXCEPT !.state = "signed", !.app = app,
                              !.access = Second(now) + Lifetime[<<"access", remember>>],
                              !.refresh = Second(now) + Lifetime[<<"refresh", remember>>]]]
        /\ call' = [call EXCEPT ![c] = [NoCall EXCEPT !.step = "issue", !.app = app, !.token = old,
                                                      !.new = j, !.remember = remember]]
        /\ UNCHANGED <<now, sameSecret, blacklist, loggedOut>>

\* issueTokens, when both are signed: refreshExpiresAt.
TokensIssued(c) ==
    /\ Has(c, "issue")
    /\ call' = [call EXCEPT ![c].step = IF call[c].token = NoJti THEN "create" ELSE "rotate",
                            ![c].remember = FALSE, ![c].expiresAt = ExpiresAt(call[c].remember)]
    /\ UNCHANGED <<now, sameSecret, issued, blacklist, loggedOut>>

\* login, and register or SSO (which remember nothing), up to issueTokens.
LoginSigns(c, app, remember) == Has(c, "idle") /\ Signs(c, app, NoJti, remember)

\* The row is inserted.
CreatesSession(c, subject, family) ==
    /\ issued' = [issued EXCEPT ![call[c].new] =
           [@ EXCEPT !.state = "live", !.expiresAt = call[c].expiresAt,
                     !.subject = subject, !.family = family]]
    /\ CallOver(c)
    /\ UNCHANGED <<now, sameSecret, blacklist, loggedOut>>

\* establishSession: with a family of its own.
LoginCreates(c) == Has(c, "create") /\ CreatesSession(c, call[c].app, call[c].new)

RefreshPassesGuard(c, app) ==
    \E t \in Tokens :
        /\ Has(c, "idle")
        /\ AcceptsRefresh(t)
        /\ call' = [call EXCEPT ![c] = [NoCall EXCEPT !.step = "validate", !.app = app,
                                                      !.token = t.jti]]
        /\ UNCHANGED <<now, sameSecret, issued, blacklist, loggedOut>>

\* The refresh token does not say of which application it is: the account, and its session by
\* validateRefreshSession, are looked up among those of this one.
RefreshValidates(c) ==
    /\ Has(c, "validate")
    /\ HasSession(call[c].app, call[c].token)
    /\ call' = [call EXCEPT ![c].step = "sign"]
    /\ UNCHANGED <<now, sameSecret, issued, blacklist, loggedOut>>

\* refresh does not know whether the login was to be remembered.
RefreshSigns(c) == Has(c, "sign") /\ Signs(c, call[c].app, call[c].token, FALSE)

\* rotateSession: the old session, then the new one.
RotateRevokes(c) ==
    /\ Has(c, "rotate")
    /\ issued' = [issued EXCEPT ![call[c].token].state = "revoked"]
    /\ call' = [call EXCEPT ![c].step = "insert"]
    /\ UNCHANGED <<now, sameSecret, blacklist, loggedOut>>

\* The new row takes over subjectType and tokenFamilyId of the old one.
RotateCreates(c) ==
    LET old == issued[call[c].token] IN
    Has(c, "insert") /\ CreatesSession(c, old.subject, old.family)

------------------------------------------------------------------------------
(* Logout                                                                      *)

LogoutPassesGuard(c, app) ==
    \E t \in Tokens :
        /\ Has(c, "idle")
        /\ Accepts(app, t)
        /\ call' = [call EXCEPT ![c] = [NoCall EXCEPT !.step = "revoke", !.app = app,
                                                      !.token = t.jti]]
        /\ UNCHANGED <<now, sameSecret, issued, blacklist, loggedOut>>

LogoutRevokes(c) ==
    /\ Has(c, "revoke")
    /\ issued' = [issued EXCEPT ![call[c].token].state = "revoked"]
    /\ call' = [call EXCEPT ![c].step = "blacklist"]
    /\ UNCHANGED <<now, sameSecret, blacklist, loggedOut>>

\* Mutant: what is left of the lifetime is rounded down.
RemainingRoundedDown(exp) ==
    IF Second(now + 1) < exp THEN exp - Second(now + 1) ELSE 0

\* resolveBlacklistTtlSeconds.
Remaining(exp) == IF Second(now) < exp THEN exp - Second(now) ELSE 0

\* RedisService.set: with a TTL of 0 the key is set without one.
Entry(ttl) ==
    IF ttl > 0 THEN [until |-> now + PerSecond * ttl, forever |-> FALSE]
               ELSE [until |-> 0, forever |-> TRUE]

LogoutBlacklists(c) ==
    LET j == call[c].token IN
    /\ Has(c, "blacklist")
    /\ blacklist' = [blacklist EXCEPT ![j] = Entry(Remaining(issued[j].access))]
    /\ loggedOut' = loggedOut \cup {j}
    /\ CallOver(c)
    /\ UNCHANGED <<now, sameSecret, issued>>

------------------------------------------------------------------------------
\* A gate refuses, or the process dies.
CallEnds(c) ==
    /\ ~Has(c, "idle")
    /\ CallOver(c)
    /\ UNCHANGED <<now, sameSecret, issued, blacklist, loggedOut>>

\* A login, a reused token, a password change, an administrator.
SessionEnds(j) ==
    /\ issued[j].state = "live"
    /\ issued' = [issued EXCEPT ![j].state = "revoked"]
    /\ UNCHANGED <<now, sameSecret, blacklist, call, loggedOut>>

Tick ==
    /\ now < MaxTick
    /\ now' = now + 1
    /\ UNCHANGED <<sameSecret, issued, blacklist, call, loggedOut>>

AuthStep(c) ==
    \/ \E app \in Apps : \/ \E remember \in BOOLEAN : LoginSigns(c, app, remember)
                         \/ RefreshPassesGuard(c, app)
                         \/ LogoutPassesGuard(c, app)
    \/ TokensIssued(c) \/ LoginCreates(c)
    \/ RefreshValidates(c) \/ RefreshSigns(c) \/ RotateRevokes(c) \/ RotateCreates(c)
    \/ LogoutRevokes(c) \/ LogoutBlacklists(c)
    \/ CallEnds(c)

TokensNext ==
    \/ \E c \in Calls : AuthStep(c)
    \/ \E j \in Jtis : SessionEnds(j)
    \/ Tick

TokensSpec == TokensInit /\ [][TokensNext]_tokenVars

------------------------------------------------------------------------------
\* Whatever a guard lets in goes back, over any number of refreshes, to a login in that application:
\* a refresh token names none, both sign it with one secret where that is configured so, and all
\* their sessions are rows of one table (RefreshJwtStrategy, validateRefreshSession, rotateSession).
FamiliesKeepTheirApplication ==
    \A app \in Apps, t \in Tokens :
        Accepts(app, t) => issued[issued[t.jti].family].app = app

\* Once a logout is through, no guard accepts that access token for the rest of its life, not even
\* one without a session validator: the entry lasts until the second in which the token expires
\* (resolveBlacklistTtlSeconds).
LoggedOutStaysOut ==
    \A app \in Apps, j \in loggedOut : ~AcceptsUnasked(app, [kind |-> "access", jti |-> j])

\* A live session lasts until its refresh token has expired, whenever in a second it was signed
\* and whether or not it is remembered (issueTokens).
SessionCoversRefreshToken ==
    \A j \in Jtis :
        issued[j].state = "live" /\ Second(now) < issued[j].refresh => now < issued[j].expiresAt
==============================================================================
