---------------------------- MODULE SessionsProofs ----------------------------
(***************************************************************************)
(* Sessions, for any number of requests, sessions and increases: what       *)
(* increasing passwordVersion does to older sessions and the promises of    *)
(* SessionLedger (as long as no update writes an old passwordVersion       *)
(* back), the chains that rotation makes and the policy of a login.        *)
(***************************************************************************)
EXTENDS Sessions, FiniteSetTheorems, WellFoundedInduction, TLAPS

\* Nothing increases pv between the findByUid of an update and its save, which would write the old
\* one back (AdministratorsService.update, EndUserService.update).
UpdatesApart == \A r \in Requests : At(r, {"edit", "disable"}, "save") => req[r].seen.pv = user.pv
-------------------------------------------------------------------------------
(***************************************************************************)
(* The inductive invariant.  A row or a request with the pv of a family    *)
(* that was ended is below the pv of the user; one with the pv of the user *)
(* comes of a password that is new enough.                                 *)
(***************************************************************************)

RowInv ==
    \A s \in Existing :
        /\ session[s].pv <= user.pv
        /\ session[s].family \in ended => session[s].pv < user.pv
        /\ session[s].pv = user.pv => session[s].proof >= announced

\* logout and logoutAll have revoked the session by the time they blacklist it.
HasRevoked(q) ==
    \/ q.op = "logout" /\ q.at = "blacklist"
    \/ q.op = "logoutAll" /\ q.at \in {"increment", "blacklist"}

HasSession(q) ==
    \/ q.op \in {"refresh", "logout", "revokeByUser", "logoutAll"}
    \/ q.op = "login" /\ q.at \in {"select", "evict"}

GoodRequest(q) ==
    /\ q \in Request
    /\ q.op \in Ops
    /\ q.picked \subseteq Existing
    /\ q.seen.pv <= user.pv
    /\ q.proof <= password
    /\ HasSession(q) => q.session \in Existing
    /\ HasRevoked(q) => q.session \notin Unrevoked
    /\ q.op = "login" /\ q.at = "insert" /\ q.seen.pv = user.pv => q.proof >= announced
    /\ q.op = "refresh" /\ session[q.session].family \in ended => q.seen.pv < user.pv
    /\ q.op = "refresh" /\ q.seen.pv = user.pv => session[q.session].proof >= announced

RequestInv == \A r \in Requests : req[r] # NoRequest => GoodRequest(req[r])

IInv == TypeOK /\ RowInv /\ RequestInv
-------------------------------------------------------------------------------
(***************************************************************************)
(* Steps that change no more of the rows than their states.                *)
(***************************************************************************)

\* Nothing is revived, and only the states of the rows change.
OnlyStates ==
    /\ session' \in [Sessions -> Row]
    /\ \A s \in Sessions :
        /\ session'[s].family = session[s].family
        /\ session'[s].pv = session[s].pv
        /\ session'[s].proof = session[s].proof
    /\ Existing' = Existing
    /\ Unrevoked' \subseteq Unrevoked

Accounts == <<user, password, announced, ended>>

\* A step of one request.
OneRequest(r) ==
    /\ req' \in [Requests -> Request \cup {NoRequest}]
    /\ \A q \in Requests \ {r} : req'[q] = req[q]

\* Starting a request, moving it on or ending it concerns that request alone.
LEMMA ControlFlow ==
    ASSUME IInv, NEW r \in Requests
    PROVE  /\ Ends(r) => OneRequest(r) /\ req'[r] = NoRequest
           /\ \A step \in Steps :
                req[r] # NoRequest /\ GoesOn(r, step)
                => OneRequest(r) /\ req'[r] = [req[r] EXCEPT !.at = step]
  BY SMTT(30) DEF IInv, TypeOK, RequestInv, GoodRequest, Ends, GoesOn, OneRequest, Request

\* An UPDATE that revokes existing rows changes nothing but their states.
LEMMA RevokedRows ==
    ASSUME TypeOK, NEW S, S \subseteq Existing, session' = Revoked(S)
    PROVE  /\ OnlyStates /\ Unrevoked' = Unrevoked \ S
           /\ \A s \in Sessions \ S : session'[s] = session[s]
  <1>1. \A s \in Sessions : session'[s] = IF s \in S THEN [session[s] EXCEPT !.state = "revoked"]
                                          ELSE session[s]
    BY DEF Revoked
  <1>2. session' \in [Sessions -> Row]
    BY <1>1 DEF TypeOK, Revoked, Row, States, Existing
  <1>3. \A s \in Sessions :
          /\ session'[s].family = session[s].family
          /\ session'[s].pv = session[s].pv
          /\ session'[s].proof = session[s].proof
          /\ session'[s].state = IF s \in S THEN "revoked" ELSE session[s].state
    BY <1>1 DEF TypeOK, Row
  <1>4. Existing' = Existing
    BY <1>3 DEF Existing
  <1>5. Unrevoked' = Unrevoked \ S
    BY <1>3 DEF Unrevoked
  <1> QED
    BY <1>1, <1>2, <1>3, <1>4, <1>5 DEF OnlyStates

\* Such a step keeps the invariant if it leaves the accounts alone and the request that
\* makes it stays good.
LEMMA Frame ==
    ASSUME IInv, OnlyStates, UNCHANGED Accounts,
           NEW r \in Requests, OneRequest(r),
           req'[r] = NoRequest \/ GoodRequest(req[r])',
           held' \subseteq Existing, reused' \subseteq Existing,
           blacklist' \subseteq Existing \ Unrevoked'
    PROVE  IInv'
  <1>1. TypeOK'
    <2>1. Existing \subseteq Sessions
      BY DEF Existing
    <2>2. \A s \in Existing' : session'[s].family \in Existing' /\ session'[s].proof <= password'
      BY <2>1 DEF IInv, TypeOK, OnlyStates, Accounts
    <2> QED
      BY <2>2 DEF IInv, TypeOK, OnlyStates, Accounts, OneRequest
  <1>2. RowInv'
    BY DEF IInv, RowInv, TypeOK, OnlyStates, Accounts, Existing
  <1>3. ASSUME NEW q \in Requests \ {r}, req'[q] # NoRequest
        PROVE  GoodRequest(req[q])'
    <2>1. req'[q] = req[q] /\ GoodRequest(req[q])
      BY <1>3 DEF IInv, RequestInv, OneRequest
    <2>2. req[q].op = "refresh" => req[q].session \in Sessions
      BY <2>1 DEF GoodRequest, HasSession, Existing
    <2> QED
      BY <2>1, <2>2 DEF GoodRequest, OnlyStates, Accounts, HasSession, HasRevoked
  <1> QED
    BY <1>1, <1>2, <1>3 DEF IInv, RequestInv

-------------------------------------------------------------------------------
(***************************************************************************)
(* Steps that leave rows and accounts alone.                               *)
(***************************************************************************)

LEMMA Quiet ==
    ASSUME IInv, UNCHANGED <<user, password, session, announced, ended, reused>>,
           NEW r \in Requests, OneRequest(r),
           req'[r] = NoRequest \/ GoodRequest(req'[r]),
           held' \subseteq Existing, blacklist' \subseteq Existing \ Unrevoked
    PROVE  IInv'
  <1>1. OnlyStates /\ UNCHANGED Accounts /\ Unrevoked' = Unrevoked
    BY DEF OnlyStates, Accounts, IInv, TypeOK, Existing, Unrevoked
  <1>2. GoodRequest(req'[r]) => GoodRequest(req[r])'
    BY DEF GoodRequest, HasSession, HasRevoked, Existing, Unrevoked
  <1> QED
    BY <1>1, <1>2, Frame DEF IInv, TypeOK

\* The first step of a request.
LEMMA Starting ==
    ASSUME IInv, NEW r \in Requests, NEW op \in AllOps, NEW step \in Steps,
           NEW s \in Sessions \cup {NoSession}, NEW seen \in User, NEW proof \in Nat,
           Starts(r, op, step, s, seen, proof),
           seen.pv <= user.pv, proof <= password,
           op # "login" \/ step = "verify",
           op = "logoutAll" => step = "revoke",
           op = "logout" => step = "find",
           op \in {"refresh", "logout", "revokeByUser", "logoutAll"} => s \in Existing,
           op = "refresh" => seen.pv = session[s].pv,
           UNCHANGED <<user, password, session, blacklist, held, announced, ended, reused>>
    PROVE  IInv'
  <1> DEFINE q == [op |-> op, at |-> step, session |-> s, seen |-> seen,
                   proof |-> proof, picked |-> {}]
  <1>1. q \in Request /\ op \in Ops
    BY DEF Starts, Request
  <1>2. OneRequest(r) /\ req'[r] = q
    BY <1>1 DEF Starts, OneRequest, IInv, TypeOK
  <1>3. GoodRequest(q)
    <2>1. ~HasRevoked(q) /\ (HasSession(q) => s \in Existing)
      BY DEF HasRevoked, HasSession
    <2>2. op = "refresh" => /\ session[s].family \in ended => seen.pv < user.pv
                            /\ seen.pv = user.pv => session[s].proof >= announced
      BY DEF IInv, RowInv
    <2> QED
      BY <1>1, <2>1, <2>2 DEF GoodRequest
  <1> QED
    BY <1>2, <1>3, Quiet DEF IInv, TypeOK

\* A request that goes on, or ends, and does no more to the rows than OnlyStates.
LEMMA Moving ==
    ASSUME IInv, OnlyStates, UNCHANGED Accounts,
           NEW r \in Requests, req[r] # NoRequest, req[r].op # "login",
           NEW step \in Steps \cup {"done"}, Continues(r, step),
           HasRevoked([req[r] EXCEPT !.at = step]) => req[r].session \notin Unrevoked',
           UNCHANGED held, reused' \subseteq Existing,
           blacklist' \subseteq Existing \ Unrevoked'
    PROVE  IInv'
  <1>1. CASE step = "done"
    BY <1>1, ControlFlow, Frame DEF Continues, IInv, TypeOK
  <1>2. CASE step \in Steps /\ step # "done"
    <2> DEFINE p == [req[r] EXCEPT !.at = step]
    <2>1. OneRequest(r) /\ req'[r] = p
      BY <1>2, ControlFlow DEF Continues
    <2>2. GoodRequest(req[r]) /\ req[r] \in Request
      BY DEF IInv, RequestInv, GoodRequest
    <2>3. p \in Request /\ p.op = req[r].op /\ p.session = req[r].session
          /\ p.seen = req[r].seen /\ p.proof = req[r].proof /\ p.picked = req[r].picked
      BY <1>2, <2>2 DEF Request
    <2>4. /\ HasSession(p) <=> HasSession(req[r])
          /\ p.op = "refresh" => HasSession(p)
      BY <2>3 DEF HasSession
    <2>5. HasSession(p) => p.session \in Sessions
      BY <2>2, <2>3, <2>4 DEF GoodRequest, Existing
    <2>6. GoodRequest(req[r])'
      <3> HIDE DEF p
      <3> QED
        BY <2>1, <2>2, <2>3, <2>4, <2>5
        DEF p, GoodRequest, OnlyStates, Accounts, HasSession, HasRevoked
    <2> QED
      BY <2>1, <2>6, Frame DEF IInv, TypeOK
  <1> QED
    BY <1>1, <1>2

\* A new row that is no newer than the request that inserts it.
LEMMA Inserting ==
    ASSUME IInv, NEW s \in Sessions, NEW family \in Existing \cup {s},
           NEW pv \in Nat, NEW proof \in Nat, Inserts(s, family, pv, proof),
           pv <= user.pv, proof <= password,
           family \in ended => pv < user.pv, pv = user.pv => proof >= announced,
           UNCHANGED Accounts, UNCHANGED <<blacklist, reused>>, held' \subseteq Existing \cup {s},
           NEW r \in Requests, OneRequest(r), req'[r] = NoRequest \/ GoodRequest(req[r])'
    PROVE  IInv'
  <1> DEFINE row == [state |-> "live", family |-> family, pv |-> pv, proof |-> proof]
  <1>1. s \notin Existing /\ family \in Sessions /\ row \in Row
    BY DEF Inserts, Existing, Row, States
  <1>2. session' = [session EXCEPT ![s] = row]
    BY DEF Inserts
  <1>3. session' \in [Sessions -> Row] /\ session'[s] = row
        /\ \A u \in Sessions \ {s} : session'[u] = session[u]
    BY <1>1, <1>2 DEF IInv, TypeOK
  <1>4. Existing' = Existing \cup {s} /\ Existing \subseteq Sessions
    BY <1>3 DEF Existing
  <1>5. Unrevoked' = Unrevoked \cup {s}
    BY <1>3 DEF Unrevoked
  <1>6. TypeOK'
    <2>1. \A u \in Existing' : session'[u].family \in Existing' /\ session'[u].proof <= password'
      BY <1>1, <1>3, <1>4 DEF IInv, TypeOK, Accounts
    <2>2. blacklist' \subseteq Existing' \ Unrevoked'
      BY <1>1, <1>4, <1>5 DEF IInv, TypeOK
    <2> QED
      BY <1>3, <1>4, <2>1, <2>2 DEF IInv, TypeOK, OneRequest, Accounts
  <1>7. RowInv'
    BY <1>1, <1>3, <1>4 DEF IInv, RowInv, Accounts
  <1>8. ASSUME NEW q \in Requests \ {r}, req'[q] # NoRequest
        PROVE  GoodRequest(req[q])'
    <2>1. req'[q] = req[q] /\ GoodRequest(req[q])
      BY <1>8 DEF IInv, RequestInv, OneRequest
    <2>2. HasSession(req[q]) => req[q].session # s /\ req[q].session \in Sessions
      BY <1>1, <1>4, <2>1 DEF GoodRequest
    <2>3. HasRevoked(req[q]) => HasSession(req[q])
      BY DEF HasRevoked, HasSession
    <2>4. req[q].op = "refresh" => HasSession(req[q])
      BY DEF HasSession
    <2> QED
      BY <1>3, <1>4, <1>5, <2>1, <2>2, <2>3, <2>4
      DEF GoodRequest, Accounts, HasRevoked, HasSession
  <1> QED
    BY <1>6, <1>7, <1>8 DEF IInv, RequestInv

LEMMA LoginSteps ==
    ASSUME IInv, NEW r \in Requests, LoginStep(r)
    PROVE  IInv'
  <1> DEFINE q == req[r]
  <1>0. q # NoRequest => q \in Request /\ GoodRequest(q)
    BY DEF IInv, RequestInv, GoodRequest
  <1>1. CASE LoginReads(r)
    <2>1. /\ user \in User /\ user.pv <= user.pv /\ "login" \in AllOps /\ "verify" \in Steps
          /\ NoSession \in Sessions \cup {NoSession} /\ 0 \in Nat /\ 0 <= password
      BY DEF IInv, TypeOK, User, AllOps, Steps
    <2> QED
      BY <1>1, <2>1, Starting DEF LoginReads
  <1>2. CASE LoginVerifies(r)
    <2> DEFINE p == [q EXCEPT !.at = "insert", !.proof = password]
    <2>1. q # NoRequest /\ q.op = "login" /\ p \in Request
      BY <1>0, <1>2 DEF LoginVerifies, At, Request, Steps, IInv, TypeOK
    <2>2. OneRequest(r) /\ req'[r] = p
      BY <1>2, <2>1 DEF LoginVerifies, OneRequest, Steps, IInv, TypeOK
    <2>3. GoodRequest(p)
      BY <1>0, <2>1 DEF GoodRequest, Request, Steps, HasSession, HasRevoked, IInv, TypeOK
    <2> QED
      BY <1>2, <2>2, <2>3, Quiet DEF LoginVerifies, IInv, TypeOK
  <1>3. CASE LoginInserts(r)
    <2>1. q # NoRequest /\ q.op = "login" /\ q.at = "insert" /\ GoodRequest(q)
      BY <1>0, <1>3 DEF LoginInserts, At
    <2>2. PICK s \in Sessions :
            /\ Inserts(s, s, q.seen.pv, q.proof)
            /\ req' = [req EXCEPT ![r].at = "select", ![r].session = s]
      BY <1>3 DEF LoginInserts
    <2> DEFINE p == [q EXCEPT !.at = "select", !.session = s]
    <2>3. p \in Request /\ OneRequest(r) /\ req'[r] = p
      BY <2>1, <2>2 DEF OneRequest, GoodRequest, Request, Steps, IInv, TypeOK
    <2>4. Existing' = Existing \cup {s} /\ q.seen.pv \in Nat /\ q.proof \in Nat /\ s \notin ended
      BY <2>1, <2>2 DEF Inserts, Existing, GoodRequest, Request, User, IInv, TypeOK
    <2>5. GoodRequest(req[r])'
      BY <1>3, <2>1, <2>3, <2>4 DEF LoginInserts, GoodRequest, Request, HasSession, HasRevoked
    <2> QED
      <3>1. /\ q.seen.pv <= user.pv /\ q.proof <= password
            /\ q.seen.pv = user.pv => q.proof >= announced
        BY <2>1 DEF GoodRequest
      <3>2. /\ UNCHANGED Accounts /\ UNCHANGED <<blacklist, reused>>
            /\ held' \subseteq Existing \cup {s}
        BY <1>3 DEF LoginInserts, Accounts, IInv, TypeOK
      <3> HIDE DEF p, q
      <3> QED
        BY <2>2, <2>3, <2>4, <2>5, <3>1, <3>2, Inserting
  <1>4. CASE LoginSelects(r)
    <2> DEFINE p == [q EXCEPT !.at = "evict", !.picked = Surplus(q.session)]
    <2>1. q # NoRequest /\ q.op = "login" /\ q.at = "select"
      BY <1>4 DEF LoginSelects, At
    <2>2. Surplus(q.session) \subseteq Existing
      BY DEF Surplus, Live, Existing
    <2>3. p \in Request /\ OneRequest(r) /\ req'[r] = p
      BY <1>0, <1>4, <2>1, <2>2 DEF LoginSelects, OneRequest, Request, Steps, Existing, IInv, TypeOK
    <2>4. GoodRequest(p)
      BY <1>0, <2>1, <2>2, <2>3 DEF GoodRequest, Request, Steps, HasSession, HasRevoked
    <2> QED
      BY <1>4, <2>3, <2>4, Quiet DEF LoginSelects, IInv, TypeOK
  <1>5. CASE LoginEvicts(r)
    <2>1. q # NoRequest /\ q.op = "login" /\ q.at = "evict"
      BY <1>5 DEF LoginEvicts, At
    <2>2. q.picked \subseteq Existing /\ q.session \in Existing
      BY <1>0, <2>1 DEF GoodRequest, HasSession
    <2>3. OnlyStates
      BY <1>5, <2>2, RevokedRows DEF LoginEvicts, IInv
    <2>4. OneRequest(r) /\ req'[r] = NoRequest
      BY <1>5, ControlFlow DEF LoginEvicts
    <2> QED
      BY <1>5, <2>2, <2>3, <2>4, Frame DEF LoginEvicts, Accounts, OnlyStates, IInv, TypeOK
  <1> QED
    BY <1>1, <1>2, <1>3, <1>4, <1>5 DEF LoginStep

LEMMA RefreshSteps ==
    ASSUME IInv, NEW r \in Requests, RefreshStep(r)
    PROVE  IInv'
  <1> DEFINE q == req[r]
  <1>0. q # NoRequest => q \in Request /\ GoodRequest(q)
    BY DEF IInv, RequestInv, GoodRequest
  <1>1. ASSUME NEW s \in Sessions, RefreshReads(r, s)
        PROVE  IInv'
    <2>1. /\ user \in User /\ user.pv <= user.pv /\ 0 <= password /\ s \in Existing
      BY <1>1 DEF RefreshReads, IInv, TypeOK, User
    <2>2. "refresh" \in AllOps /\ "validate" \in Steps
      BY DEF AllOps, Steps
    <2> QED
      BY <1>1, <2>1, <2>2, Starting DEF RefreshReads
  <1>2. CASE RefreshValidates(r)
    <2>1. q # NoRequest /\ q.op = "refresh" /\ OnlyStates /\ UNCHANGED Accounts
          /\ Unrevoked' = Unrevoked
      BY <1>2 DEF RefreshValidates, At, OnlyStates, Accounts, Existing, Unrevoked, IInv, TypeOK
    <2>2. PICK step \in {"rotate", "reuse", "done"} : Continues(r, step)
      BY <1>2 DEF RefreshValidates, Continues
    <2>3. step \in Steps \cup {"done"} /\ ~HasRevoked([q EXCEPT !.at = step])
      BY <1>0, <2>1 DEF Steps, HasRevoked, Request
    <2> QED
      BY <1>2, <2>1, <2>2, <2>3, Moving DEF RefreshValidates, IInv, TypeOK
  <1>3. CASE RevokeTokenFamily(r)
    <2>1. q # NoRequest /\ q.op = "refresh" /\ q.session \in Existing
      BY <1>0, <1>3 DEF RevokeTokenFamily, At, GoodRequest, HasSession
    <2>2. OnlyStates /\ UNCHANGED Accounts
      BY <1>3, RevokedRows DEF RevokeTokenFamily, Kin, Accounts, IInv
    <2>3. OneRequest(r) /\ req'[r] = NoRequest
      BY <1>3, ControlFlow DEF RevokeTokenFamily
    <2>4. reused' \subseteq Existing
      BY <1>3, <2>1 DEF RevokeTokenFamily, IInv, TypeOK
    <2> QED
      BY <1>3, <2>2, <2>3, <2>4, Frame DEF RevokeTokenFamily, OnlyStates, IInv, TypeOK
  <1>4. CASE RotateRevokesOld(r)
    <2>1. q # NoRequest /\ q.op = "refresh" /\ q.session \in Existing /\ q.session \in Sessions
      BY <1>0, <1>4 DEF RotateRevokesOld, At, GoodRequest, HasSession, Existing
    <2>2. session' = [session EXCEPT ![q.session] = [session[q.session] EXCEPT !.state = "rotated"]]
      BY <1>4 DEF RotateRevokesOld
    <2>3. /\ session' \in [Sessions -> Row]
          /\ \A s \in Sessions :
               /\ session'[s].family = session[s].family
               /\ session'[s].pv = session[s].pv
               /\ session'[s].proof = session[s].proof
               /\ session'[s].state = IF s = q.session THEN "rotated" ELSE session[s].state
      BY <2>1, <2>2 DEF IInv, TypeOK, Row, States
    <2>4. OnlyStates
      BY <2>1, <2>3 DEF OnlyStates, Existing, Unrevoked
    <2>5. "renew" \in Steps \cup {"done"} /\ ~HasRevoked([q EXCEPT !.at = "renew"])
          /\ Continues(r, "renew") /\ UNCHANGED Accounts
      BY <1>0, <1>4, <2>1 DEF RotateRevokesOld, Steps, HasRevoked, Request, Continues, Accounts
    <2> QED
      BY <1>4, <2>1, <2>4, <2>5, Moving DEF RotateRevokesOld, OnlyStates, IInv, TypeOK
  <1>5. CASE RotateInserts(r)
    <2>1. q # NoRequest /\ q.op = "refresh" /\ GoodRequest(q) /\ q.session \in Existing
          /\ q.session \in Sessions
      BY <1>0, <1>5 DEF RotateInserts, At, GoodRequest, HasSession, Existing
    <2> DEFINE old == session[q.session]
    <2>2. PICK s \in Sessions :
            Inserts(s, old.family, q.seen.pv, old.proof) /\ held' \in {held, held \cup {s}}
      BY <1>5 DEF RotateInserts
    <2>3. old.family \in Existing \cup {s} /\ q.seen.pv \in Nat /\ old.proof \in Nat
          /\ old.proof <= password
      BY <2>1 DEF IInv, TypeOK, Row, GoodRequest, Request, User
    <2>4. /\ q.seen.pv <= user.pv
          /\ old.family \in ended => q.seen.pv < user.pv
          /\ q.seen.pv = user.pv => old.proof >= announced
      BY <2>1 DEF GoodRequest
    <2>5. OneRequest(r) /\ req'[r] = NoRequest
      BY <1>5, ControlFlow DEF RotateInserts
    <2>6. /\ UNCHANGED Accounts /\ UNCHANGED <<blacklist, reused>>
          /\ held' \subseteq Existing \cup {s}
      BY <1>5, <2>2 DEF RotateInserts, Accounts, IInv, TypeOK
    <2> HIDE DEF q, old
    <2> QED
      BY <2>2, <2>3, <2>4, <2>5, <2>6, Inserting
  <1> QED
    BY <1>1, <1>2, <1>3, <1>4, <1>5 DEF RefreshStep

LEMMA LogoutSteps ==
    ASSUME IInv, NEW r \in Requests, LogoutStep(r)
    PROVE  IInv'
  <1> DEFINE q == req[r]
  <1>0. q # NoRequest => q \in Request /\ GoodRequest(q)
    BY DEF IInv, RequestInv, GoodRequest
  <1>1. ASSUME NEW s \in Sessions,
               LogoutStarts(r, s) \/ RevokeByUserStarts(r, s) \/ LogoutAllStarts(r, s)
        PROVE  IInv'
    <2>1. user \in User /\ user.pv <= user.pv /\ 0 \in Nat /\ 0 <= password /\ s \in Existing
      BY <1>1 DEF LogoutStarts, RevokeByUserStarts, LogoutAllStarts, IInv, TypeOK, User
    <2>2. /\ "logout" \in AllOps /\ "revokeByUser" \in AllOps /\ "logoutAll" \in AllOps
          /\ "find" \in Steps /\ "revoke" \in Steps
      BY DEF AllOps, Steps
    <2>3. CASE LogoutStarts(r, s)
      BY <2>1, <2>2, <2>3, Starting DEF LogoutStarts
    <2>4. CASE RevokeByUserStarts(r, s)
      BY <2>1, <2>2, <2>4, Starting DEF RevokeByUserStarts
    <2>5. CASE LogoutAllStarts(r, s)
      BY <2>1, <2>2, <2>5, Starting DEF LogoutAllStarts
    <2> QED
      BY <1>1, <2>3, <2>4, <2>5
  <1>2. CASE RevokeFinds(r)
    <2>1. q # NoRequest /\ q.op \in {"logout", "revokeByUser"} /\ OnlyStates
          /\ UNCHANGED Accounts /\ Unrevoked' = Unrevoked
      BY <1>2 DEF RevokeFinds, At, OnlyStates, Accounts, Existing, Unrevoked, IInv, TypeOK
    <2> DEFINE step == IF q.session \in Unrevoked THEN "save" ELSE AfterRevoke[q.op]
    <2>2. Continues(r, step)
      BY <1>2 DEF RevokeFinds
    <2>3. step \in Steps \cup {"done"}
      BY <2>1 DEF Steps, AfterRevoke
    <2>4. HasRevoked([q EXCEPT !.at = step]) => q.session \notin Unrevoked'
      BY <1>0, <2>1 DEF HasRevoked, Request
    <2> HIDE DEF step
    <2> QED
      BY <1>2, <2>1, <2>2, <2>3, <2>4, Moving DEF RevokeFinds, IInv, TypeOK
  <1>3. CASE RevokeSaves(r)
    <2>1. q # NoRequest /\ q.op \in {"logout", "revokeByUser"} /\ {q.session} \subseteq Existing
      BY <1>0, <1>3 DEF RevokeSaves, At, GoodRequest, HasSession
    <2>2. OnlyStates /\ UNCHANGED Accounts /\ q.session \notin Unrevoked'
      BY <1>3, <2>1, RevokedRows DEF RevokeSaves, Accounts, IInv
    <2>3. AfterRevoke[q.op] \in Steps \cup {"done"} /\ Continues(r, AfterRevoke[q.op])
      BY <1>3, <2>1 DEF RevokeSaves, Steps, AfterRevoke
    <2> QED
      BY <1>3, <2>1, <2>2, <2>3, Moving DEF RevokeSaves, OnlyStates, IInv, TypeOK
  <1>4. CASE Blacklists(r)
    <2>1. q # NoRequest /\ q.op \in {"logout", "logoutAll"} /\ q.session \in Existing \ Unrevoked
      BY <1>0, <1>4 DEF Blacklists, At, GoodRequest, HasSession, HasRevoked
    <2>2. OneRequest(r) /\ req'[r] = NoRequest
      BY <1>4, ControlFlow DEF Blacklists
    <2> QED
      BY <1>4, <2>1, <2>2, Quiet DEF Blacklists, IInv, TypeOK
  <1> QED
    BY <1>1, <1>2, <1>3, <1>4 DEF LogoutStep

\* A step that only raises the versions: the password's, or pv above every token's.
LEMMA Growing ==
    ASSUME IInv, UNCHANGED <<session, blacklist, held, reused>>,
           user' \in User, password' \in Nat, announced' \in 0..password',
           user.pv <= user'.pv, password <= password', ended' \subseteq Existing,
           user'.pv = user.pv => UNCHANGED <<announced, ended>>,
           NEW r \in Requests, OneRequest(r),
           req'[r] = NoRequest \/ GoodRequest(req[r])'
    PROVE  IInv'
  <1>1. /\ Existing' = Existing /\ Unrevoked' = Unrevoked /\ Existing \subseteq Sessions
        /\ user.pv \in Nat /\ user'.pv \in Nat /\ password \in Nat
    BY DEF Existing, Unrevoked, User, IInv, TypeOK
  <1>2. \A s \in Existing : session[s].pv \in Nat /\ session[s].proof \in Nat
    BY <1>1 DEF IInv, TypeOK, Row
  <1>3. TypeOK'
    BY <1>1, <1>2 DEF IInv, TypeOK, OneRequest
  <1>4. RowInv'
    BY <1>1, <1>2 DEF IInv, RowInv
  <1>5. ASSUME NEW q \in Requests \ {r}, req'[q] # NoRequest
        PROVE  GoodRequest(req[q])'
    <2>1. req'[q] = req[q] /\ GoodRequest(req[q])
      BY <1>5 DEF IInv, RequestInv, OneRequest
    <2>2. req[q].seen.pv \in Nat /\ req[q].proof \in Nat
      BY <2>1 DEF GoodRequest, Request, User
    <2> QED
      BY <1>1, <2>1, <2>2 DEF GoodRequest, HasRevoked, HasSession
  <1> QED
    BY <1>3, <1>4, <1>5 DEF IInv, RequestInv

LEMMA AccountSteps ==
    ASSUME UpdatesApart, IInv, NEW r \in Requests, AccountStep(r)
    PROVE  IInv'
  <1> DEFINE q == req[r]
  <1>0. q # NoRequest => q \in Request /\ GoodRequest(q)
    BY DEF IInv, RequestInv, GoodRequest
  <1>1. CASE ChangePasswordStarts(r)
    <2>1. /\ user \in User /\ user.pv <= user.pv /\ 0 \in Nat /\ 0 <= password
          /\ "changePassword" \in AllOps /\ "set" \in Steps
      BY DEF IInv, TypeOK, User, AllOps, Steps
    <2> QED
      BY <1>1, <2>1, Starting DEF ChangePasswordStarts
  <1>2. CASE SetPassword(r)
    <2> DEFINE p == [q EXCEPT !.at = "increment", !.proof = password + 1]
    <2>1. q # NoRequest /\ q.op = "changePassword" /\ GoodRequest(q) /\ q \in Request
      BY <1>0, <1>2 DEF SetPassword, At
    <2>2. p \in Request /\ OneRequest(r) /\ req'[r] = p
      <3>1. password + 1 \in Nat
        BY DEF IInv, TypeOK
      <3>2. p \in Request
        BY <2>1, <3>1 DEF Request, Steps
      <3>3. req' = [req EXCEPT ![r] = p] /\ req \in [Requests -> Request \cup {NoRequest}]
        BY <1>2 DEF SetPassword, IInv, TypeOK
      <3> HIDE DEF p
      <3> QED
        BY <3>2, <3>3 DEF OneRequest
    <2>3. GoodRequest(req[r])'
      BY <1>2, <2>1, <2>2
      DEF SetPassword, GoodRequest, Request, HasSession, HasRevoked, Existing, IInv, TypeOK
    <2>4. UNCHANGED <<user, session, blacklist, held, reused, announced, ended>>
          /\ password' \in Nat /\ password <= password' /\ announced' \in 0..password'
          /\ user' \in User /\ user.pv <= user'.pv /\ ended' \subseteq Existing
      BY <1>2 DEF SetPassword, User, IInv, TypeOK
    <2> HIDE DEF p, q
    <2> QED
      BY <2>2, <2>3, <2>4, Growing
  <1>3. CASE UpdateReads(r)
    <2>1. PICK active \in BOOLEAN :
              Starts(r, IF user.active /\ ~active THEN "disable" ELSE "edit", "save",
                     NoSession, [user EXCEPT !.active = active], 0)
      BY <1>3 DEF UpdateReads
    <2>2. PICK op \in {"edit", "disable"} : op = IF user.active /\ ~active THEN "disable" ELSE "edit"
      OBVIOUS
    <2>3. PICK seen \in User : seen = [user EXCEPT !.active = active] /\ seen.pv = user.pv
      <3>1. [user EXCEPT !.active = active] \in User /\ [user EXCEPT !.active = active].pv = user.pv
        BY DEF IInv, TypeOK, User
      <3> QED
        BY <3>1
    <2>4. /\ user.pv <= user.pv /\ 0 \in Nat /\ 0 <= password
          /\ op \in AllOps /\ "save" \in Steps
      BY DEF IInv, TypeOK, User, AllOps, Steps
    <2> QED
      BY <1>3, <2>1, <2>2, <2>3, <2>4, Starting DEF UpdateReads
  <1>4. CASE UpdateSaves(r)
    <2>1. q # NoRequest /\ q.op \in {"edit", "disable"} /\ q.seen.pv = user.pv
          /\ GoodRequest(q) /\ q \in Request /\ q.seen \in User
      BY <1>0, <1>4 DEF UpdateSaves, At, UpdatesApart, Request
    <2>2. /\ user' \in User /\ user'.pv = user.pv /\ user.pv \in Nat
          /\ UNCHANGED <<password, session, blacklist, held, reused, announced, ended>>
      BY <1>4, <2>1 DEF UpdateSaves, IInv, TypeOK, User
    <2>3. CASE Ends(r)
      BY <2>2, <2>3, ControlFlow, Growing DEF IInv, TypeOK
    <2>4. CASE GoesOn(r, "revoke")
      <3> DEFINE p == [q EXCEPT !.at = "revoke"]
      <3>1. OneRequest(r) /\ req'[r] = p
        BY <2>1, <2>4, ControlFlow DEF Steps
      <3>2. p \in Request /\ p.op = q.op /\ p.session = q.session
            /\ p.seen = q.seen /\ p.proof = q.proof /\ p.picked = q.picked
        BY <2>1 DEF Request, Steps
      <3>3. ~HasSession(p) /\ ~HasRevoked(p)
        BY <2>1, <3>2 DEF HasSession, HasRevoked
      <3> HIDE DEF p
      <3>4. GoodRequest(req[r])'
        BY <2>1, <2>2, <3>1, <3>2, <3>3 DEF GoodRequest, HasSession, HasRevoked, Existing
      <3> HIDE DEF q
      <3> QED
        BY <2>2, <3>1, <3>4, Growing DEF IInv, TypeOK
    <2> QED
      BY <1>4, <2>3, <2>4 DEF UpdateSaves
  <1>5. CASE RevokeAllForUser(r)
    <2>1. q # NoRequest /\ q.op \in {"logoutAll", "changePassword", "disable"} /\ q.op \in Ops
      BY <1>0, <1>5 DEF RevokeAllForUser, At, GoodRequest
    <2>2. Unrevoked \subseteq Existing
      BY DEF Unrevoked, Existing
    <2>3. OnlyStates /\ UNCHANGED Accounts /\ Unrevoked' = {}
      BY <1>5, <2>2, RevokedRows DEF RevokeAllForUser, Accounts, IInv
    <2>4. AfterRevoke[q.op] \in Steps \cup {"done"} /\ Continues(r, AfterRevoke[q.op])
      BY <1>5, <2>1 DEF RevokeAllForUser, Steps, AfterRevoke
    <2> QED
      BY <1>5, <2>1, <2>3, <2>4, Moving DEF RevokeAllForUser, OnlyStates, IInv, TypeOK
  <1>6. CASE IncrementPasswordVersion(r)
    <2>1. q # NoRequest /\ q.op \in {"logoutAll", "changePassword", "disable"}
          /\ q.at = "increment" /\ GoodRequest(q) /\ q \in Request
      BY <1>0, <1>6 DEF IncrementPasswordVersion, At
    <2> DEFINE step == AfterIncrement[q.op]
               p == [q EXCEPT !.at = step]
    <2>2. step \in Steps \cup {"done"} /\ Continues(r, step)
      BY <1>6, <2>1 DEF IncrementPasswordVersion, Steps, AfterIncrement
    <2>3. OneRequest(r) /\ (req'[r] = NoRequest \/ (step \in Steps /\ req'[r] = p))
      <3>1. step = "done" \/ step \in Steps
        BY <2>2
      <3> HIDE DEF step
      <3> QED
        BY <2>1, <2>2, <3>1, ControlFlow DEF Continues
    <2>4. /\ user' \in User /\ user'.pv = user.pv + 1 /\ user.pv \in Nat
          /\ announced' \in 0..password' /\ announced <= announced'
          /\ UNCHANGED <<password, session, blacklist, held, reused>>
      BY <1>6, <2>1 DEF IncrementPasswordVersion, GoodRequest, Request, User, IInv, TypeOK
    <2>5. ended' \subseteq Existing /\ Existing' = Existing /\ Unrevoked' = Unrevoked
      BY <1>6 DEF IncrementPasswordVersion, IInv, TypeOK, Existing, Unrevoked
    <2>6. ASSUME step \in Steps, req'[r] = p PROVE GoodRequest(req[r])'
      <3>1. p \in Request /\ p.op = q.op /\ p.at = step /\ p.session = q.session
            /\ p.seen = q.seen /\ p.proof = q.proof /\ p.picked = q.picked
        BY <2>1, <2>6 DEF Request
      <3>2. HasSession(p) => HasSession(q)
        BY <2>1, <3>1 DEF HasSession
      <3>3. HasRevoked(p) => HasRevoked(q)
        BY <2>1, <3>1 DEF HasRevoked
      <3>4. q.seen.pv \in Nat /\ q.op # "refresh" /\ q.op # "login"
        BY <2>1 DEF Request, User
      <3> HIDE DEF p
      <3> QED
        BY <2>1, <2>4, <2>5, <2>6, <3>1, <3>2, <3>3, <3>4
        DEF GoodRequest, HasSession, HasRevoked
    <2> HIDE DEF step, p, q
    <2> QED
      BY <2>3, <2>4, <2>5, <2>6, Growing DEF IInv, TypeOK
  <1> QED
    BY <1>1, <1>2, <1>3, <1>4, <1>5, <1>6 DEF AccountStep

LEMMA EnvironmentSteps ==
    ASSUME IInv
    PROVE  /\ \A s \in Sessions : Expires(s) => IInv'
           /\ \A r \in Requests : RequestDies(r) => IInv'
  <1>1. ASSUME NEW s \in Sessions, Expires(s)
        PROVE  IInv'
    <2>1. session' = [session EXCEPT ![s] = [session[s] EXCEPT !.state = "expired"]]
          /\ session[s].state = "live"
      BY <1>1 DEF Expires, Live
    <2>2. /\ session' \in [Sessions -> Row]
          /\ \A u \in Sessions :
               /\ session'[u].family = session[u].family
               /\ session'[u].pv = session[u].pv
               /\ session'[u].proof = session[u].proof
               /\ session'[u].state = IF u = s THEN "expired" ELSE session[u].state
      BY <2>1 DEF IInv, TypeOK, Row, States
    <2>3. Existing' = Existing /\ Unrevoked' = Unrevoked /\ Existing \subseteq Sessions
      BY <2>1, <2>2 DEF Existing, Unrevoked
    <2>4. UNCHANGED <<Accounts, blacklist, held, req, reused>>
      BY <1>1 DEF Expires, Accounts
    <2>5. TypeOK'
      <3>1. \A u \in Existing' : session'[u].family \in Existing' /\ session'[u].proof <= password'
        BY <2>2, <2>3, <2>4 DEF IInv, TypeOK, Accounts
      <3> QED
        BY <2>2, <2>3, <2>4, <3>1 DEF IInv, TypeOK, Accounts
    <2>6. RowInv'
      BY <2>2, <2>3, <2>4 DEF IInv, RowInv, Accounts
    <2>7. ASSUME NEW r \in Requests, req'[r] # NoRequest
          PROVE  GoodRequest(req[r])'
      <3>1. GoodRequest(req[r]) /\ req'[r] = req[r]
        BY <2>4, <2>7 DEF IInv, RequestInv
      <3>2. req[r].op = "refresh" => req[r].session \in Sessions
        BY <2>3, <3>1 DEF GoodRequest, HasSession
      <3> QED
        BY <2>2, <2>3, <2>4, <3>1, <3>2 DEF GoodRequest, Accounts, HasSession, HasRevoked
    <2> QED
      BY <2>5, <2>6, <2>7 DEF IInv, RequestInv
  <1>2. ASSUME NEW r \in Requests, RequestDies(r)
        PROVE  IInv'
    BY <1>2, ControlFlow, Quiet DEF RequestDies, IInv, TypeOK
  <1> QED
    BY <1>1, <1>2
-------------------------------------------------------------------------------
(***************************************************************************)
(* The theorems.                                                           *)
(***************************************************************************)

LEMMA SessionsStart == Init => IInv
  <1> SUFFICES ASSUME Init PROVE IInv
    OBVIOUS
  <1>1. Existing = {} /\ Unrevoked = {} /\ 0 \in Nat
    BY DEF Init, Absent, Existing, Unrevoked
  <1>2. Absent \in Row
    BY DEF Absent, Row, States
  <1>3. TypeOK
    BY <1>1, <1>2 DEF Init, TypeOK, User
  <1> QED
    BY <1>1, <1>3 DEF Init, IInv, RowInv, RequestInv

LEMMA SessionsStep == IInv /\ UpdatesApart /\ [Next]_vars => IInv'
  <1> SUFFICES ASSUME IInv, UpdatesApart, [Next]_vars PROVE IInv'
    OBVIOUS
  <1>1. CASE UNCHANGED vars
    BY <1>1 DEF vars, IInv, TypeOK, RowInv, RequestInv, GoodRequest, HasSession, HasRevoked,
                Existing, Unrevoked
  <1>2. CASE Next
    BY <1>2, LoginSteps, RefreshSteps, LogoutSteps, AccountSteps, EnvironmentSteps DEF Next
  <1> QED
    BY <1>1, <1>2

\* The invariant is inductive as long as no update writes an old pv back.
THEOREM SessionsInductive == Spec /\ []UpdatesApart => []IInv
  BY SessionsStart, SessionsStep, PTL DEF Spec

\* Type correctness, with what TypeOK says of the blacklist and of the history.
THEOREM SessionsType == Spec /\ []UpdatesApart => []TypeOK
  <1>1. IInv => TypeOK
    BY DEF IInv
  <1> QED
    BY <1>1, SessionsInductive, PTL

\* However logins and refreshes overlap logoutAll or a password change: a family that
\* existed when pv was increased is never accepted again.
THEOREM LogoutAllHolds == Spec /\ []UpdatesApart => []LogoutAllIsForGood
  <1>1. IInv => LogoutAllIsForGood
    BY DEF IInv, RowInv, TypeOK, User, LogoutAllIsForGood, Accepted, Live, Existing
  <1> QED
    BY <1>1, SessionsInductive, PTL

\* And no session opened with a password older than the last change announced by an
\* increase of pv is accepted.
THEOREM OldPasswordHolds == Spec /\ []UpdatesApart => []OldPasswordOpensNothing
  <1>1. IInv => OldPasswordOpensNothing
    BY DEF IInv, RowInv, OldPasswordOpensNothing, Accepted, Live, Existing
  <1> QED
    BY <1>1, SessionsInductive, PTL
-------------------------------------------------------------------------------
(***************************************************************************)
(* The refinement.  A family is named after the session of its login, which *)
(* has the pv of all its rows; a refresh carries the pv of the row it was   *)
(* given.                                                                  *)
(***************************************************************************)

Heads == {f \in Existing : session[f].family = f}

Rotating(q) == q # NoRequest /\ q.op = "refresh" /\ q.at \in {"rotate", "renew"}

FamilyInv ==
    \A s \in Existing :
        /\ session[s].family \in Heads
        /\ session[s].pv = session[session[s].family].pv

CarriesPv(q) ==
    q # NoRequest /\ q.op = "refresh" =>
        q.session \in Existing /\ q.seen.pv = session[q.session].pv

LedgerInv == FamilyInv /\ \A r \in Requests : CarriesPv(req[r])

\* A step that adds no row and keeps families and versions.
SameFamilies ==
    /\ Existing' = Existing
    /\ \A s \in Sessions : session'[s].family = session[s].family /\ session'[s].pv = session[s].pv

\* What a request may become in a step that opens no family.
KeepsClosed(r) ==
    \/ req'[r] = req[r] \/ req'[r] = NoRequest \/ req'[r].op # "refresh"
    \/ /\ req'[r].session \in Existing
       /\ req'[r].seen.pv = session[req'[r].session].pv
       /\ Rotating(req'[r]) => session[req'[r].session].family \in OpenFamilies

\* The mapping needs of the families only which are there, which are open, and their pv.
LEMMA Closes ==
    ASSUME TypeOK, FamilyInv, Heads' = Heads, \A f \in Heads : session'[f].pv = session[f].pv,
           OpenFamilies \subseteq Heads, OpenFamilies' \subseteq OpenFamilies, user'.pv = user.pv
    PROVE  \E closing \in SUBSET Sessions : Ledger!Close(closing)
  <1> DEFINE closing == OpenFamilies \ OpenFamilies'
  <1>1. Heads \subseteq Sessions
    BY DEF Heads, Existing
  <1>2. \A f \in Sessions : FamilyEntry(f) = IF f \notin Heads THEN [state |-> "none", epoch |-> 0]
            ELSE [state |-> IF f \in OpenFamilies THEN "open" ELSE "closed", epoch |-> session[f].pv]
    BY DEF FamilyEntry, Heads
  <1>3. \A f \in Sessions : FamilyEntry(f)' = IF f \notin Heads' THEN [state |-> "none", epoch |-> 0]
            ELSE [state |-> IF f \in OpenFamilies' THEN "open" ELSE "closed", epoch |-> session'[f].pv]
    BY DEF FamilyEntry, Heads
  <1>4. \A f \in closing : FamilyEntry(f).state = "open"
    BY <1>1, <1>2
  <1>5. \A f \in Sessions : FamilyEntry(f)' = IF f \in closing
            THEN [FamilyEntry(f) EXCEPT !.state = "closed"] ELSE FamilyEntry(f)
    <2> SUFFICES ASSUME NEW f \in Sessions
                 PROVE  FamilyEntry(f)' = IF f \in closing
                            THEN [FamilyEntry(f) EXCEPT !.state = "closed"] ELSE FamilyEntry(f)
      OBVIOUS
    <2>1. CASE f \in closing
      BY <1>2, <1>3, <2>1
    <2>2. CASE f \notin closing
      BY <1>2, <1>3, <2>2
    <2> QED
      BY <2>1, <2>2
  <1> QED
    <2>1. closing \in SUBSET Sessions
      BY <1>1
    <2> HIDE DEF closing
    <2>2. Ledger!Close(closing)
      BY <1>4, <1>5, <2>1 DEF Ledger!Close
    <2> QED
      BY <2>1, <2>2

LEMMA OpenHeads ==
    ASSUME IInv, LedgerInv
    PROVE  OpenFamilies \subseteq Heads
  BY DEF IInv, RequestInv, LedgerInv, CarriesPv, FamilyInv, OpenFamilies, Live, Existing, At

\* A step that adds no row, revives none and lets no refresh of a closed family through.
LEMMA Settles ==
    ASSUME IInv, LedgerInv, SameFamilies, Live' \subseteq Live,
           \A r \in Requests : KeepsClosed(r)
    PROVE  /\ LedgerInv'
           /\ user'.pv = user.pv => \E closing \in SUBSET Sessions : Ledger!Close(closing)
  <1>1. Existing \subseteq Sessions
    BY DEF Existing
  <1>2. Heads' = Heads
    BY <1>1 DEF SameFamilies, Heads
  <1>3. FamilyInv'
    BY <1>1, <1>2 DEF SameFamilies, LedgerInv, FamilyInv, Heads
  <1>4. ASSUME NEW r \in Requests PROVE CarriesPv(req[r])'
    BY <1>1 DEF LedgerInv, CarriesPv, KeepsClosed, SameFamilies
  <1>5. OpenFamilies' \subseteq OpenFamilies
    <2> SUFFICES ASSUME NEW f \in OpenFamilies' PROVE f \in OpenFamilies
      OBVIOUS
    <2>1. CASE \E s \in Live' : f = session'[s].family
      BY <2>1 DEF OpenFamilies, Live, SameFamilies
    <2>2. CASE \E r \in Requests : Rotating(req'[r]) /\ f = session'[req'[r].session].family
      <3>1. PICK r \in Requests : Rotating(req'[r]) /\ f = session'[req'[r].session].family
        BY <2>2
      <3>2. req'[r].session \in Sessions /\ f = session[req'[r].session].family
        BY <1>1, <1>4, <3>1 DEF Rotating, CarriesPv, SameFamilies
      <3>3. CASE req'[r] = req[r]
        BY <3>1, <3>2, <3>3 DEF Rotating, OpenFamilies, At
      <3> QED
        BY <3>1, <3>2, <3>3 DEF KeepsClosed, Rotating
    <2> QED
      BY <2>1, <2>2 DEF OpenFamilies, At, Rotating
  <1> QED
    BY <1>1, <1>2, <1>3, <1>4, <1>5, OpenHeads, Closes
    DEF LedgerInv, SameFamilies, IInv, Heads

\* An insert keeps the families and their versions, if its row belongs to one or starts one.
LEMMA Extends ==
    ASSUME IInv, LedgerInv, NEW s \in Sessions, NEW family \in Heads \cup {s}, NEW pv \in Nat,
           NEW proof \in Nat, Inserts(s, family, pv, proof),
           family \in Heads => pv = session[family].pv,
           NEW r \in Requests, OneRequest(r),
           req'[r] = NoRequest \/ req'[r].op # "refresh"
    PROVE  /\ LedgerInv'
           /\ s \notin Existing /\ Existing' = Existing \cup {s}
           /\ session'[s] = [state |-> "live", family |-> family, pv |-> pv, proof |-> proof]
           /\ \A u \in Sessions \ {s} : session'[u] = session[u]
           /\ OpenFamilies' \subseteq OpenFamilies \cup {family}
  <1> DEFINE row == [state |-> "live", family |-> family, pv |-> pv, proof |-> proof]
  <1>1. s \notin Existing /\ session' = [session EXCEPT ![s] = row]
    BY DEF Inserts
  <1>2. session'[s] = row /\ \A u \in Sessions \ {s} : session'[u] = session[u]
    BY <1>1 DEF IInv, TypeOK
  <1>3. Existing' = Existing \cup {s} /\ Existing \subseteq Sessions /\ Live' = Live \cup {s}
    BY <1>2 DEF Existing, Live
  <1>4. Heads \subseteq Heads' /\ (family = s => s \in Heads') /\ s \notin Heads
    BY <1>1, <1>2, <1>3 DEF Heads
  <1>5. FamilyInv'
    <2>1. \A u \in Existing : session[u].family \in Heads /\ session[u].pv = session[session[u].family].pv
      BY DEF LedgerInv, FamilyInv
    <2>2. \A f \in Heads : f \in Sessions \ {s}
      BY <1>1, <1>3 DEF Heads
    <2>3. \A u \in Existing' :
            session'[u].family \in Heads' /\ session'[u].pv = session'[session'[u].family].pv
      BY <1>1, <1>2, <1>3, <1>4, <2>1, <2>2
    <2> QED
      BY <2>3 DEF FamilyInv
  <1>6. \A q \in Requests : CarriesPv(req[q])'
    BY <1>1, <1>2, <1>3 DEF LedgerInv, CarriesPv, OneRequest
  <1>7. OpenFamilies' \subseteq OpenFamilies \cup {family}
    <2> SUFFICES ASSUME NEW f \in OpenFamilies' PROVE f \in OpenFamilies \cup {family}
      OBVIOUS
    <2>1. CASE \E u \in Live' : f = session'[u].family
      BY <1>2, <1>3, <2>1 DEF OpenFamilies, Live
    <2>2. CASE \E q \in Requests : Rotating(req'[q]) /\ f = session'[req'[q].session].family
      <3>1. PICK q \in Requests : Rotating(req'[q]) /\ f = session'[req'[q].session].family
        BY <2>2
      <3>2. req'[q] = req[q]
        BY <3>1 DEF OneRequest, Rotating
      <3>3. req[q].session \in Existing
        BY <3>1, <3>2 DEF LedgerInv, CarriesPv, Rotating
      <3> QED
        BY <1>1, <1>2, <1>3, <3>1, <3>2, <3>3 DEF OpenFamilies, Rotating, At
    <2> QED
      BY <2>1, <2>2 DEF OpenFamilies, At, Rotating
  <1> QED
    BY <1>1, <1>2, <1>3, <1>5, <1>6, <1>7 DEF LedgerInv

\* The insert of a login opens the family.
LEMMA LoginOpens ==
    ASSUME IInv, LedgerInv, NEW r \in Requests, LoginInserts(r)
    PROVE  LedgerInv' /\ \E f \in Sessions, e \in 0..user.pv : Ledger!Open(f, e)
  <1> DEFINE q == req[r]
  <1>1. q \in Request /\ GoodRequest(q) /\ q # NoRequest /\ q.op = "login"
    BY DEF IInv, RequestInv, GoodRequest, LoginInserts, At
  <1>2. PICK s \in Sessions :
          /\ Inserts(s, s, q.seen.pv, q.proof)
          /\ req' = [req EXCEPT ![r].at = "select", ![r].session = s]
    BY DEF LoginInserts
  <1> DEFINE p == [q EXCEPT !.at = "select", !.session = s]
             e == q.seen.pv
  <1>3. p \in Request /\ p.op = "login"
    BY <1>1 DEF Request, Steps
  <1>4. OneRequest(r) /\ req'[r].op # "refresh"
    BY <1>2, <1>3 DEF OneRequest, IInv, TypeOK
  <1>5. e \in 0..user.pv /\ q.proof \in Nat /\ user' = user /\ s \notin Heads
    BY <1>1, <1>2 DEF GoodRequest, Request, User, LoginInserts, Inserts, Heads, IInv, TypeOK
  <1>6. /\ LedgerInv'
        /\ s \notin Existing /\ Existing' = Existing \cup {s}
        /\ session'[s] = [state |-> "live", family |-> s, pv |-> e, proof |-> q.proof]
        /\ \A u \in Sessions \ {s} : session'[u] = session[u]
        /\ OpenFamilies' \subseteq OpenFamilies \cup {s}
    <2>1. e \in Nat
      BY <1>1 DEF Request, User
    <2> HIDE DEF p, q, e
    <2> QED
      BY <1>2, <1>4, <1>5, <2>1, Extends DEF e
  <1>7. s \in OpenFamilies' /\ OpenFamilies \subseteq OpenFamilies'
    <2>1. s \in Live' /\ \A u \in Live : u \in Live' /\ u # s
      BY <1>6 DEF Live, Existing
    <2>2. ASSUME NEW x \in Requests, Rotating(req[x])
          PROVE  Rotating(req'[x]) /\ req'[x] = req[x] /\ req[x].session \in Sessions \ {s}
      <3>1. x # r /\ req'[x] = req[x]
        BY <1>1, <1>4, <2>2 DEF Rotating, OneRequest
      <3> QED
        BY <1>6, <2>2, <3>1 DEF LedgerInv, CarriesPv, Rotating, Existing
    <2>3. \A u \in Live : session'[u].family = session[u].family
      BY <1>6, <2>1 DEF Live
    <2>4. OpenFamilies \subseteq OpenFamilies'
      BY <1>6, <2>1, <2>2, <2>3 DEF OpenFamilies, Rotating, At
    <2>5. session'[s].family = s
      BY <1>6
    <2>6. s \in OpenFamilies'
      BY <2>1, <2>5 DEF OpenFamilies
    <2> QED
      BY <2>4, <2>6
  <1>8. FamilyEntry(s).state = "none" /\ FamilyEntry(s)' = [state |-> "open", epoch |-> e]
    BY <1>6, <1>7 DEF FamilyEntry
  <1>9. ASSUME NEW f \in Sessions \ {s} PROVE FamilyEntry(f)' = FamilyEntry(f)
    <2>1. f \in OpenFamilies' <=> f \in OpenFamilies
      BY <1>6, <1>7
    <2> QED
      BY <1>6, <2>1 DEF FamilyEntry
  <1>10. Ledger!Open(s, e)
    <2>1. e <= user.pv /\ user'.pv = user.pv
      BY <1>5
    <2> HIDE DEF e
    <2> QED
      BY <1>8, <1>9, <2>1 DEF Ledger!Open
  <1> QED
    BY <1>5, <1>6, <1>10

HonouredInv ==
    {session[s].family : s \in {s \in Sessions : Accepted(s)}} \subseteq Ledger!Honourable

\* Whoever is let in has an open family of the current pv.
LEMMA HonouredAreOpen ==
    ASSUME IInv, LedgerInv
    PROVE  HonouredInv
  <1> SUFFICES ASSUME NEW s \in Sessions, Accepted(s)
               PROVE  session[s].family \in Ledger!Honourable
    BY DEF HonouredInv
  <1> DEFINE f == session[s].family
  <1>1. s \in Live /\ s \in Existing /\ user.pv = session[s].pv
    BY DEF Accepted, Live, Existing
  <1>2. f \in Heads /\ f \in OpenFamilies /\ session[f].pv = user.pv /\ f \in Sessions
    BY <1>1 DEF LedgerInv, FamilyInv, OpenFamilies, Heads, Existing
  <1>3. FamilyEntry(f) = [state |-> "open", epoch |-> user.pv]
    BY <1>2 DEF FamilyEntry, Heads
  <1> HIDE DEF f
  <1> QED
    BY <1>2, <1>3 DEF f, Ledger!Honourable

\* The families of the ledger after a step.
FamilyStep ==
    \/ \E f \in Sessions, e \in 0..user.pv : Ledger!Open(f, e)
    \/ \E closing \in SUBSET Sessions : Ledger!Close(closing)
    \/ Ledger!Advance

\* A step that leaves the rows alone, or revokes some, and concerns one request, which is no
\* refresh afterwards.
LEMMA Aside ==
    ASSUME IInv, LedgerInv, NEW r \in Requests, OneRequest(r),
           req'[r] = NoRequest \/ req'[r].op # "refresh",
           session' = session \/ \E S : S \subseteq Existing /\ session' = Revoked(S)
    PROVE  /\ LedgerInv'
           /\ user'.pv = user.pv => FamilyStep
  <1>1. SameFamilies /\ Live' \subseteq Live
    <2>1. CASE session' = session
      BY <2>1 DEF SameFamilies, Live, Existing
    <2>2. CASE \E S : S \subseteq Existing /\ session' = Revoked(S)
      <3>1. PICK S : S \subseteq Existing /\ session' = Revoked(S)
        BY <2>2
      <3>2. OnlyStates /\ \A s \in Sessions \ S : session'[s] = session[s]
        BY <3>1, RevokedRows DEF IInv
      <3>3. \A s \in S : session'[s].state = "revoked"
        BY <3>1 DEF Revoked, Existing, IInv, TypeOK, Row
      <3> QED
        BY <3>2, <3>3 DEF OnlyStates, SameFamilies, Live
    <2> QED
      BY <2>1, <2>2
  <1>2. \A q \in Requests : KeepsClosed(q)
    BY DEF OneRequest, KeepsClosed
  <1> QED
    BY <1>1, <1>2, Settles DEF FamilyStep

LEMMA LoginKeepsLedger ==
    ASSUME IInv, LedgerInv, NEW r \in Requests, LoginStep(r)
    PROVE  LedgerInv' /\ FamilyStep
  <1> DEFINE q == req[r]
  <1>0. q # NoRequest => q \in Request /\ GoodRequest(q)
    BY DEF IInv, RequestInv, GoodRequest
  <1>1. CASE LoginReads(r)
    <2> DEFINE p == [op |-> "login", at |-> "verify", session |-> NoSession, seen |-> user,
                     proof |-> 0, picked |-> {}]
    <2>1. p \in Request
      BY DEF Request, AllOps, Steps, IInv, TypeOK
    <2>2. OneRequest(r) /\ req'[r].op # "refresh"
      BY <1>1, <2>1 DEF LoginReads, Starts, OneRequest, IInv, TypeOK
    <2> QED
      BY <1>1, <2>2, Aside DEF LoginReads
  <1>2. CASE LoginVerifies(r) \/ LoginSelects(r)
    <2>1. q \in Request /\ q.op = "login"
      BY <1>0, <1>2 DEF LoginVerifies, LoginSelects, At
    <2>2. PICK p : /\ p \in Request /\ p.op = "login" /\ req' = [req EXCEPT ![r] = p]
      <3>1. CASE LoginVerifies(r)
        <4>1. [q EXCEPT !.at = "insert", !.proof = password] \in Request
          BY <2>1 DEF Request, Steps, IInv, TypeOK
        <4> QED
          BY <2>1, <3>1, <4>1 DEF LoginVerifies, Request
      <3>2. CASE LoginSelects(r)
        <4>1. Surplus(q.session) \in SUBSET Sessions
          BY DEF Surplus, Live
        <4>2. [q EXCEPT !.at = "evict", !.picked = Surplus(q.session)] \in Request
          BY <2>1, <4>1 DEF Request, Steps
        <4> QED
          BY <2>1, <3>2, <4>2 DEF LoginSelects, Request
      <3> QED
        BY <1>2, <3>1, <3>2
    <2>3. OneRequest(r) /\ req'[r].op # "refresh"
      BY <2>2 DEF OneRequest, IInv, TypeOK
    <2> QED
      BY <1>2, <2>3, Aside DEF LoginVerifies, LoginSelects
  <1>3. CASE LoginInserts(r)
    BY <1>3, LoginOpens DEF FamilyStep
  <1>4. CASE LoginEvicts(r)
    <2>1. q.picked \subseteq Existing
      BY <1>0, <1>4 DEF LoginEvicts, At, GoodRequest
    <2> QED
      BY <1>4, <2>1, ControlFlow, Aside DEF LoginEvicts
  <1> QED
    BY <1>1, <1>2, <1>3, <1>4 DEF LoginStep

\* Control flow, of a request that is no refresh.
LEMMA FlowAside ==
    ASSUME IInv, NEW r \in Requests, req[r] # NoRequest, req[r].op # "refresh",
           NEW step \in Steps \cup {"done"}, Continues(r, step)
    PROVE  OneRequest(r) /\ (req'[r] = NoRequest \/ req'[r].op # "refresh")
  <1>1. req[r] \in Request
    BY DEF IInv, TypeOK
  <1>2. CASE step = "done"
    BY <1>2, ControlFlow DEF Continues
  <1>3. CASE step \in Steps /\ step # "done"
    <2>1. OneRequest(r) /\ req'[r] = [req[r] EXCEPT !.at = step]
      BY <1>3, ControlFlow DEF Continues
    <2> QED
      BY <1>1, <2>1 DEF Request
  <1> QED
    BY <1>2, <1>3

LEMMA LogoutKeepsLedger ==
    ASSUME IInv, LedgerInv, NEW r \in Requests, LogoutStep(r)
    PROVE  LedgerInv' /\ FamilyStep
  <1> DEFINE q == req[r]
  <1>0. q # NoRequest => q \in Request /\ GoodRequest(q)
    BY DEF IInv, RequestInv, GoodRequest
  <1>1. ASSUME NEW s \in Sessions,
               LogoutStarts(r, s) \/ RevokeByUserStarts(r, s) \/ LogoutAllStarts(r, s)
        PROVE  LedgerInv' /\ FamilyStep
    <2>1. PICK op \in {"logout", "revokeByUser", "logoutAll"}, step \in {"find", "revoke"} :
            Starts(r, op, step, s, user, 0)
      BY <1>1 DEF LogoutStarts, RevokeByUserStarts, LogoutAllStarts
    <2> DEFINE p == [op |-> op, at |-> step, session |-> s, seen |-> user, proof |-> 0, picked |-> {}]
    <2>2. p \in Request
      BY DEF Request, AllOps, Steps, IInv, TypeOK
    <2>3. OneRequest(r) /\ req'[r] = p
      BY <2>1, <2>2 DEF Starts, OneRequest, IInv, TypeOK
    <2>4. UNCHANGED <<user, session>>
      BY <1>1 DEF LogoutStarts, RevokeByUserStarts, LogoutAllStarts
    <2> QED
      BY <2>3, <2>4, Aside
  <1>2. CASE RevokeFinds(r)
    <2> DEFINE step == IF q.session \in Unrevoked THEN "save" ELSE AfterRevoke[q.op]
    <2>1. q # NoRequest /\ q.op # "refresh" /\ step \in Steps \cup {"done"} /\ Continues(r, step)
      BY <1>2 DEF RevokeFinds, At, Steps, AfterRevoke
    <2> HIDE DEF step
    <2>2. OneRequest(r) /\ (req'[r] = NoRequest \/ req'[r].op # "refresh")
      BY <2>1, FlowAside
    <2> QED
      BY <1>2, <2>2, Aside DEF RevokeFinds
  <1>3. CASE RevokeSaves(r)
    <2>1. q # NoRequest /\ q.op # "refresh" /\ AfterRevoke[q.op] \in Steps \cup {"done"}
          /\ {q.session} \subseteq Existing /\ Continues(r, AfterRevoke[q.op])
      BY <1>0, <1>3 DEF RevokeSaves, At, GoodRequest, HasSession, Steps, AfterRevoke
    <2>2. OneRequest(r) /\ (req'[r] = NoRequest \/ req'[r].op # "refresh")
      BY <2>1, FlowAside
    <2> QED
      BY <1>3, <2>1, <2>2, Aside DEF RevokeSaves
  <1>4. CASE Blacklists(r)
    BY <1>4, ControlFlow, Aside DEF Blacklists
  <1> QED
    BY <1>1, <1>2, <1>3, <1>4 DEF LogoutStep

LEMMA AccountKeepsLedger ==
    ASSUME UpdatesApart, IInv, LedgerInv, NEW r \in Requests, AccountStep(r)
    PROVE  LedgerInv' /\ FamilyStep
  <1> DEFINE q == req[r]
  <1>0. q # NoRequest => q \in Request /\ GoodRequest(q)
    BY DEF IInv, RequestInv, GoodRequest
  <1>1. CASE ChangePasswordStarts(r)
    <2> DEFINE p == [op |-> "changePassword", at |-> "set", session |-> NoSession, seen |-> user,
                     proof |-> 0, picked |-> {}]
    <2>1. p \in Request
      BY DEF Request, AllOps, Steps, IInv, TypeOK
    <2>2. OneRequest(r) /\ req'[r] = p
      BY <1>1, <2>1 DEF ChangePasswordStarts, Starts, OneRequest, IInv, TypeOK
    <2> QED
      BY <1>1, <2>2, Aside DEF ChangePasswordStarts
  <1>2. CASE SetPassword(r)
    <2> DEFINE p == [q EXCEPT !.at = "increment", !.proof = password + 1]
    <2>1. q \in Request /\ q.op = "changePassword" /\ password + 1 \in Nat
      BY <1>0, <1>2 DEF SetPassword, At, IInv, TypeOK
    <2>2. p \in Request /\ p.op = "changePassword"
      BY <2>1 DEF Request, Steps
    <2>3. OneRequest(r) /\ req'[r] = p
      BY <1>2, <2>2 DEF SetPassword, OneRequest, IInv, TypeOK
    <2> HIDE DEF p
    <2> QED
      BY <1>2, <2>2, <2>3, Aside DEF SetPassword
  <1>3. CASE UpdateReads(r)
    <2>1. PICK active \in BOOLEAN :
              Starts(r, IF user.active /\ ~active THEN "disable" ELSE "edit", "save",
                     NoSession, [user EXCEPT !.active = active], 0)
      BY <1>3 DEF UpdateReads
    <2>2. PICK op \in {"edit", "disable"} : op = IF user.active /\ ~active THEN "disable" ELSE "edit"
      OBVIOUS
    <2>3. PICK seen \in User : seen = [user EXCEPT !.active = active]
      BY DEF IInv, TypeOK, User
    <2> DEFINE p == [op |-> op, at |-> "save", session |-> NoSession, seen |-> seen,
                     proof |-> 0, picked |-> {}]
    <2>4. p \in Request
      BY DEF Request, AllOps, Steps
    <2>5. OneRequest(r) /\ req'[r] = p
      BY <2>1, <2>2, <2>3, <2>4 DEF Starts, OneRequest, IInv, TypeOK
    <2> QED
      BY <1>3, <2>5, Aside DEF UpdateReads
  <1>4. CASE UpdateSaves(r)
    <2>1. q # NoRequest /\ q.op # "refresh" /\ user'.pv = user.pv /\ session' = session
      BY <1>4 DEF UpdateSaves, At, UpdatesApart
    <2>2. CASE Ends(r)
      BY <2>1, <2>2, ControlFlow, Aside
    <2>3. CASE GoesOn(r, "revoke")
      <3>1. "revoke" \in Steps \cup {"done"} /\ Continues(r, "revoke")
        BY <2>3 DEF Steps, Continues
      <3>2. OneRequest(r) /\ (req'[r] = NoRequest \/ req'[r].op # "refresh")
        BY <2>1, <3>1, FlowAside
      <3> QED
        BY <2>1, <3>2, Aside
    <2> QED
      BY <1>4, <2>2, <2>3 DEF UpdateSaves
  <1>5. CASE RevokeAllForUser(r)
    <2>1. q # NoRequest /\ q.op # "refresh" /\ AfterRevoke[q.op] \in Steps \cup {"done"}
          /\ Unrevoked \subseteq Existing /\ Continues(r, AfterRevoke[q.op])
      BY <1>5 DEF RevokeAllForUser, At, Steps, AfterRevoke, Unrevoked, Existing
    <2>2. OneRequest(r) /\ (req'[r] = NoRequest \/ req'[r].op # "refresh")
      BY <2>1, FlowAside
    <2> QED
      BY <1>5, <2>1, <2>2, Aside DEF RevokeAllForUser
  <1>6. CASE IncrementPasswordVersion(r)
    <2>1. q # NoRequest /\ q.op # "refresh" /\ AfterIncrement[q.op] \in Steps \cup {"done"}
          /\ Continues(r, AfterIncrement[q.op]) /\ session' = session
      BY <1>6 DEF IncrementPasswordVersion, At, Steps, AfterIncrement
    <2>2. OneRequest(r) /\ (req'[r] = NoRequest \/ req'[r].op # "refresh")
      BY <2>1, FlowAside
    <2>3. LedgerInv'
      BY <2>1, <2>2, Aside
    <2>4. \A x \in Requests : Rotating(req[x]) <=> Rotating(req'[x])
      BY <2>1, <2>2 DEF OneRequest, Rotating
    <2>5. \A x \in Requests : Rotating(req[x]) => req'[x] = req[x]
      BY <2>1, <2>2 DEF OneRequest, Rotating
    <2>6. OpenFamilies' = OpenFamilies
      BY <2>1, <2>4, <2>5 DEF OpenFamilies, Rotating, At, Live
    <2>7. \A f \in Sessions : FamilyEntry(f)' = FamilyEntry(f)
      BY <2>1, <2>6 DEF FamilyEntry, Existing
    <2>8. user'.pv = user.pv + 1
      BY <1>6 DEF IncrementPasswordVersion, IInv, TypeOK, User
    <2> QED
      BY <2>3, <2>7, <2>8 DEF FamilyStep, Ledger!Advance
  <1> QED
    BY <1>1, <1>2, <1>3, <1>4, <1>5, <1>6 DEF AccountStep

LEMMA EnvironmentKeepsLedger ==
    ASSUME IInv, LedgerInv
    PROVE  /\ \A s \in Sessions : Expires(s) => LedgerInv' /\ FamilyStep
           /\ \A r \in Requests : RequestDies(r) => LedgerInv' /\ FamilyStep
  <1>1. ASSUME NEW s \in Sessions, Expires(s)
        PROVE  LedgerInv' /\ FamilyStep
    <2>1. session' = [session EXCEPT ![s] = [session[s] EXCEPT !.state = "expired"]]
          /\ session[s].state = "live" /\ UNCHANGED <<user, req>>
      BY <1>1 DEF Expires, Live
    <2>2. \A u \in Sessions :
            /\ session'[u].family = session[u].family
            /\ session'[u].pv = session[u].pv
            /\ session'[u].state = IF u = s THEN "expired" ELSE session[u].state
      BY <2>1 DEF IInv, TypeOK, Row, States
    <2>3. SameFamilies /\ Live' \subseteq Live
      BY <2>1, <2>2 DEF SameFamilies, Live, Existing
    <2> QED
      BY <2>1, <2>3, Settles DEF KeepsClosed, FamilyStep
  <1>2. ASSUME NEW r \in Requests, RequestDies(r)
        PROVE  LedgerInv' /\ FamilyStep
    BY <1>2, ControlFlow, Aside DEF RequestDies
  <1> QED
    BY <1>1, <1>2

LEMMA RefreshKeepsLedger ==
    ASSUME IInv, LedgerInv, NEW r \in Requests, RefreshStep(r)
    PROVE  LedgerInv' /\ FamilyStep
  <1> DEFINE q == req[r]
  <1>0. q # NoRequest => q \in Request /\ GoodRequest(q) /\ CarriesPv(q)
    BY DEF IInv, RequestInv, GoodRequest, LedgerInv
  <1>1. ASSUME NEW s \in Sessions, RefreshReads(r, s)
        PROVE  LedgerInv' /\ FamilyStep
    <2> DEFINE p == [op |-> "refresh", at |-> "validate", session |-> s, seen |-> user,
                     proof |-> 0, picked |-> {}]
    <2>1. p \in Request /\ s \in Existing /\ UNCHANGED <<user, session>>
      BY <1>1 DEF RefreshReads, Request, AllOps, Steps, IInv, TypeOK
    <2>2. OneRequest(r) /\ req'[r] = p
      BY <1>1, <2>1 DEF RefreshReads, Starts, OneRequest, IInv, TypeOK
    <2>3. p.seen.pv = session[p.session].pv /\ ~Rotating(p)
      BY <1>1 DEF RefreshReads, Rotating
    <2>4. \A x \in Requests : KeepsClosed(x)
      BY <2>1, <2>2, <2>3 DEF OneRequest, KeepsClosed
    <2>5. SameFamilies /\ Live' \subseteq Live
      BY <2>1 DEF SameFamilies, Live, Existing
    <2> QED
      BY <2>1, <2>4, <2>5, Settles DEF FamilyStep
  <1>2. CASE RefreshValidates(r)
    <2>1. q # NoRequest /\ q.op = "refresh" /\ q.session \in Existing
          /\ q.seen.pv = session[q.session].pv /\ UNCHANGED <<user, session>>
      BY <1>0, <1>2 DEF RefreshValidates, At, CarriesPv
    <2>2. SameFamilies /\ Live' \subseteq Live
      BY <2>1 DEF SameFamilies, Live, Existing
    <2>3. CASE Ends(r)
      BY <2>1, <2>3, ControlFlow, Aside
    <2>4. ASSUME NEW step \in {"rotate", "reuse"}, GoesOn(r, step),
                 step = "rotate" => q.session \in Live
          PROVE  LedgerInv' /\ FamilyStep
      <3>1. OneRequest(r) /\ req'[r] = [q EXCEPT !.at = step]
        BY <2>1, <2>4, ControlFlow DEF Steps
      <3>2. /\ req'[r].session = q.session /\ req'[r].seen = q.seen
            /\ req'[r].at = step
        BY <1>0, <2>1, <3>1 DEF Request
      <3>3. Rotating(req'[r]) => session[q.session].family \in OpenFamilies
        BY <2>4, <3>2 DEF Rotating, OpenFamilies
      <3>4. \A x \in Requests : KeepsClosed(x)
        BY <2>1, <3>1, <3>2, <3>3 DEF OneRequest, KeepsClosed
      <3> QED
        BY <2>1, <2>2, <3>4, Settles DEF FamilyStep
    <2>5. \/ GoesOn(r, "rotate") /\ q.session \in Live
          \/ GoesOn(r, "reuse")
          \/ Ends(r)
      BY <1>2 DEF RefreshValidates
    <2> HIDE DEF q
    <2> QED
      BY <2>3, <2>4, <2>5
  <1>3. CASE RevokeTokenFamily(r)
    <2>1. /\ Kin(q.session) \cap Unrevoked \subseteq Existing
          /\ session' = Revoked(Kin(q.session) \cap Unrevoked) /\ user' = user
      BY <1>3 DEF RevokeTokenFamily, Kin
    <2>2. OneRequest(r) /\ req'[r] = NoRequest
      BY <1>3, ControlFlow DEF RevokeTokenFamily
    <2> QED
      BY <2>1, <2>2, Aside
  <1>4. CASE RotateRevokesOld(r)
    <2>1. q # NoRequest /\ q.op = "refresh" /\ q.at = "rotate" /\ q.session \in Existing
          /\ q.seen.pv = session[q.session].pv /\ q.session \in Sessions /\ user' = user
      BY <1>0, <1>4 DEF RotateRevokesOld, At, CarriesPv, Existing
    <2>2. session' = [session EXCEPT ![q.session] = [session[q.session] EXCEPT !.state = "rotated"]]
      BY <1>4 DEF RotateRevokesOld
    <2>3. \A s \in Sessions :
            /\ session'[s].family = session[s].family
            /\ session'[s].pv = session[s].pv
            /\ session'[s].state = IF s = q.session THEN "rotated" ELSE session[s].state
      BY <2>1, <2>2 DEF IInv, TypeOK, Row
    <2>4. SameFamilies /\ Live' \subseteq Live
      BY <2>1, <2>3 DEF SameFamilies, Live, Existing
    <2>5. OneRequest(r) /\ req'[r] = [q EXCEPT !.at = "renew"]
      BY <1>4, <2>1, ControlFlow DEF RotateRevokesOld, Steps
    <2>6. req'[r].session = q.session /\ req'[r].seen = q.seen
      BY <1>0, <2>1, <2>5 DEF Request
    <2>7. session[q.session].family \in OpenFamilies
      BY <2>1 DEF OpenFamilies, At
    <2>8. \A x \in Requests : KeepsClosed(x)
      BY <2>1, <2>5, <2>6, <2>7 DEF OneRequest, KeepsClosed
    <2> QED
      BY <2>1, <2>4, <2>8, Settles DEF FamilyStep
  <1>5. CASE RotateInserts(r)
    <2> DEFINE old == session[q.session]
    <2>1. q # NoRequest /\ q.op = "refresh" /\ q.at = "renew" /\ q.session \in Existing
          /\ q.seen.pv = old.pv /\ user' = user
      BY <1>0, <1>5 DEF RotateInserts, At, CarriesPv
    <2>2. PICK s \in Sessions : Inserts(s, old.family, q.seen.pv, old.proof)
      BY <1>5 DEF RotateInserts
    <2>3. /\ old.family \in Heads /\ q.seen.pv = session[old.family].pv
          /\ q.seen.pv \in Nat /\ old.proof \in Nat /\ old.family \in OpenFamilies
      BY <2>1 DEF LedgerInv, FamilyInv, OpenFamilies, At, IInv, TypeOK, Row, Existing
    <2>4. OneRequest(r) /\ req'[r] = NoRequest
      BY <1>5, ControlFlow DEF RotateInserts
    <2>5. /\ LedgerInv'
          /\ s \notin Existing /\ Existing' = Existing \cup {s}
          /\ session'[s] = [state |-> "live", family |-> old.family, pv |-> q.seen.pv,
                            proof |-> old.proof]
          /\ \A u \in Sessions \ {s} : session'[u] = session[u]
          /\ OpenFamilies' \subseteq OpenFamilies \cup {old.family}
      <3> HIDE DEF old, q
      <3> QED
        BY <2>2, <2>3, <2>4, Extends
    <2>6. Heads' = Heads /\ \A f \in Heads : session'[f].pv = session[f].pv
      <3>1. session'[s].family # s
        BY <2>3, <2>5 DEF Heads
      <3> QED
        BY <2>5, <3>1 DEF Heads, Existing
    <2>7. OpenFamilies' \subseteq OpenFamilies /\ OpenFamilies \subseteq Heads /\ user'.pv = user.pv
      BY <2>1, <2>3, <2>5, OpenHeads
    <2> QED
      BY <2>5, <2>6, <2>7, Closes DEF LedgerInv, IInv, FamilyStep
  <1> QED
    BY <1>1, <1>2, <1>3, <1>4, <1>5 DEF RefreshStep

\* The statements of any number of overlapping requests implement the ledger: families are
\* opened under the pv of their time, closed for good, and honoured while open and current.
THEOREM LedgerImplemented == Spec /\ []UpdatesApart => ImplementsLedger
  <1>1. Init => LedgerInv /\ Ledger!LedgerInit
    <2> SUFFICES ASSUME Init PROVE LedgerInv /\ Ledger!LedgerInit
      OBVIOUS
    <2>1. Existing = {} /\ Live = {} /\ user.pv = 0
      BY DEF Init, Absent, Existing, Live
    <2>2. \A f \in Sessions : FamilyEntry(f) = [state |-> "none", epoch |-> 0]
      BY <2>1 DEF FamilyEntry
    <2>3. {s \in Sessions : Accepted(s)} = {}
      BY <2>1 DEF Accepted
    <2>4. LedgerInv
      BY <2>1 DEF Init, LedgerInv, FamilyInv, CarriesPv
    <2> QED
      BY <2>1, <2>2, <2>3, <2>4 DEF Ledger!LedgerInit
  <1>2. IInv /\ UpdatesApart /\ LedgerInv /\ [Next]_vars => LedgerInv'
    <2> SUFFICES ASSUME IInv, UpdatesApart, LedgerInv, [Next]_vars PROVE LedgerInv'
      OBVIOUS
    <2>1. CASE UNCHANGED vars
      BY <2>1 DEF vars, LedgerInv, FamilyInv, CarriesPv, Heads, Existing
    <2>2. CASE Next
      BY <2>2, LoginKeepsLedger, RefreshKeepsLedger, LogoutKeepsLedger, AccountKeepsLedger,
         EnvironmentKeepsLedger DEF Next
    <2> QED
      BY <2>1, <2>2
  <1>3. IInv /\ LedgerInv => HonouredInv
    BY HonouredAreOpen
  <1>4. IInv /\ UpdatesApart /\ LedgerInv /\ HonouredInv' /\ [Next]_vars
        => [Ledger!LedgerNext]_(Ledger!ledger)
    <2> SUFFICES ASSUME IInv, UpdatesApart, LedgerInv, HonouredInv', [Next]_vars
                 PROVE  [Ledger!LedgerNext]_(Ledger!ledger)
      OBVIOUS
    <2>1. CASE UNCHANGED vars
      <3>1. OpenFamilies' = OpenFamilies
        BY <2>1 DEF vars, OpenFamilies, Live, At
      <3>2. \A f \in Sessions : FamilyEntry(f)' = FamilyEntry(f)
        BY <2>1, <3>1 DEF vars, FamilyEntry, Existing
      <3>3. \A s \in Sessions : Accepted(s)' = Accepted(s)
        BY <2>1 DEF vars, Accepted, Live
      <3> QED
        BY <2>1, <3>2, <3>3 DEF vars, Ledger!ledger
    <2>2. CASE Next
      <3>1. FamilyStep
        BY <2>2, LoginKeepsLedger, RefreshKeepsLedger, LogoutKeepsLedger, AccountKeepsLedger,
           EnvironmentKeepsLedger DEF Next
      <3> QED
        BY <3>1 DEF FamilyStep, HonouredInv, Ledger!LedgerNext
    <2> QED
      BY <2>1, <2>2
  <1> QED
    BY <1>1, <1>2, <1>3, <1>4, SessionsInductive, PTL DEF Spec, ImplementsLedger, Ledger!LedgerSpec
-------------------------------------------------------------------------------
(***************************************************************************)
(* Rotation.  A family is a chain with one live session at most, and reuse  *)
(* of a rotated token ends it, as long as two refreshes of one family do    *)
(* not overlap; everything else may, update included.                      *)
(***************************************************************************)

IsRefresh(q) == q # NoRequest /\ q.op = "refresh"

FamilyOf(q) == session[q.session].family

\* No client presents the tokens of one family in two requests at the same time.
RefreshesApart ==
    \A q, r \in Requests :
        IsRefresh(req[q]) /\ IsRefresh(req[r]) /\ FamilyOf(req[q]) = FamilyOf(req[r]) => q = r

\* What the rows and the requests have to be for it, whatever has become of pv.
ChainRequest(q) ==
    /\ q \in Request
    /\ q.picked \subseteq Existing
    /\ HasSession(q) => q.session \in Existing

ChainType ==
    /\ user \in User /\ password \in Nat
    /\ session \in [Sessions -> Row]
    /\ held \subseteq Existing /\ reused \subseteq Existing
    /\ \A s \in Existing : session[s].family \in Existing
    /\ req \in [Requests -> Request \cup {NoRequest}]
    /\ \A r \in Requests : req[r] # NoRequest => ChainRequest(req[r])

\* Behind validateRefreshSession the session at hand is the only one that may still be live, and
\* between the two statements of rotateSession none is.
Rotation(q) ==
    q.op = "refresh" =>
        /\ q.at \in {"rotate", "renew"} => FamilyOf(q) \notin reused
        /\ q.at = "rotate" => \A u \in Live : session[u].family = FamilyOf(q) => u = q.session
        /\ q.at = "renew" => \A u \in Live : session[u].family # FamilyOf(q)

ChainInv ==
    /\ ChainType
    /\ OneLivePerFamily /\ ReuseEndsFamily
    /\ \A r \in Requests : req[r] # NoRequest => Rotation(req[r])

\* A step of request r that revives no row.
LEMMA ChainFrame ==
    ASSUME ChainInv, OnlyStates, Live' \subseteq Live, UNCHANGED reused, held' \subseteq Existing,
           user' \in User, password' \in Nat,
           NEW r \in Requests, OneRequest(r),
           req'[r] = NoRequest \/ (ChainRequest(req'[r]) /\ Rotation(req[r])')
    PROVE  ChainInv'
  <1>1. Existing \subseteq Sessions /\ Live \subseteq Sessions
    BY DEF Existing, Live
  <1>2. ASSUME NEW q \in Requests, req'[q] # NoRequest
        PROVE  (ChainRequest(req[q]) /\ Rotation(req[q]))'
    <2>1. CASE q = r
      BY <1>2, <2>1 DEF ChainRequest, OnlyStates, HasSession
    <2>2. CASE q # r
      <3>1. req'[q] = req[q] /\ ChainRequest(req[q]) /\ Rotation(req[q])
        BY <1>2, <2>2 DEF OneRequest, ChainInv, ChainType
      <3>2. ChainRequest(req[q])'
        BY <3>1 DEF ChainRequest, OnlyStates, HasSession
      <3>3. req[q].op = "refresh" => req[q].session \in Sessions
        BY <1>1, <3>1 DEF ChainRequest, HasSession
      <3> QED
        BY <1>1, <3>1, <3>2, <3>3 DEF Rotation, FamilyOf, OnlyStates
    <2> QED
      BY <2>1, <2>2
  <1>3. ChainType'
    BY <1>1, <1>2 DEF ChainInv, ChainType, OnlyStates, OneRequest
  <1>4. OneLivePerFamily' /\ ReuseEndsFamily'
    BY <1>1 DEF ChainInv, OneLivePerFamily, ReuseEndsFamily, OnlyStates
  <1> QED
    BY <1>2, <1>3, <1>4 DEF ChainInv

LEMMA ChainQuiet ==
    ASSUME ChainInv, UNCHANGED <<session, reused>>, held' \subseteq Existing,
           user' \in User, password' \in Nat,
           NEW r \in Requests, OneRequest(r),
           req'[r] = NoRequest \/ (ChainRequest(req'[r]) /\ Rotation(req'[r]))
    PROVE  ChainInv'
  <1>1. OnlyStates /\ Live' = Live
    BY DEF ChainInv, ChainType, OnlyStates, Existing, Unrevoked, Live
  <1>2. Rotation(req'[r]) => Rotation(req[r])'
    BY <1>1 DEF Rotation, FamilyOf
  <1> QED
    BY <1>1, <1>2, ChainFrame

LEMMA ChainStarts ==
    ASSUME ChainInv, NEW r \in Requests, NEW op \in AllOps, NEW step \in Steps,
           NEW s \in Sessions \cup {NoSession}, NEW seen \in User, NEW proof \in Nat,
           Starts(r, op, step, s, seen, proof),
           op # "login" \/ step = "verify", op # "refresh" \/ step = "validate",
           op \in {"refresh", "logout", "revokeByUser", "logoutAll"} => s \in Existing,
           UNCHANGED <<user, password, session, held, reused>>
    PROVE  ChainInv'
  <1> DEFINE q == [op |-> op, at |-> step, session |-> s, seen |-> seen,
                   proof |-> proof, picked |-> {}]
  <1>1. q \in Request
    BY DEF Request
  <1>2. ChainRequest(q) /\ Rotation(q)
    BY <1>1 DEF ChainRequest, HasSession, Rotation
  <1>3. OneRequest(r) /\ req'[r] = q
    BY <1>1 DEF Starts, OneRequest, ChainInv, ChainType
  <1> HIDE DEF q
  <1> QED
    BY <1>2, <1>3, ChainQuiet DEF ChainInv, ChainType

LEMMA ChainFlow ==
    ASSUME ChainInv, NEW r \in Requests, req[r] # NoRequest
    PROVE  /\ Ends(r) => OneRequest(r) /\ req'[r] = NoRequest
           /\ \A step \in Steps :
                GoesOn(r, step) =>
                    /\ OneRequest(r) /\ req'[r] = [req[r] EXCEPT !.at = step]
                    /\ req[r].op # "login" => ChainRequest(req'[r])
                    /\ req'[r].op = req[r].op /\ req'[r].at = step /\ req'[r].session = req[r].session
  <1>1. req \in [Requests -> Request \cup {NoRequest}] /\ req[r] \in Request /\ ChainRequest(req[r])
    BY DEF ChainInv, ChainType
  <1>2. ASSUME Ends(r) PROVE OneRequest(r) /\ req'[r] = NoRequest
    BY <1>1, <1>2 DEF Ends, OneRequest
  <1>3. ASSUME NEW step \in Steps, GoesOn(r, step)
        PROVE  /\ OneRequest(r) /\ req'[r] = [req[r] EXCEPT !.at = step]
               /\ req[r].op # "login" => ChainRequest(req'[r])
               /\ req'[r].op = req[r].op /\ req'[r].at = step /\ req'[r].session = req[r].session
    <2> DEFINE q == [req[r] EXCEPT !.at = step]
    <2>1. q \in Request /\ q.op = req[r].op /\ q.at = step /\ q.session = req[r].session
          /\ q.picked = req[r].picked
      BY <1>1 DEF Request
    <2>2. OneRequest(r) /\ req'[r] = q
      BY <1>1, <1>3, <2>1 DEF GoesOn, OneRequest
    <2> HIDE DEF q
    <2>3. req[r].op # "login" => ChainRequest(q)
      BY <1>1, <2>1 DEF ChainRequest, HasSession
    <2> QED
      BY <2>1, <2>2, <2>3 DEF q
  <1> QED
    BY <1>2, <1>3

\* An UPDATE that revokes existing rows.
LEMMA ChainRevokes ==
    ASSUME ChainInv, NEW S, S \subseteq Existing, session' = Revoked(S)
    PROVE  OnlyStates /\ Live' = Live \ S
  <1>1. \A s \in Sessions : /\ session'[s].family = session[s].family
                            /\ session'[s].pv = session[s].pv
                            /\ session'[s].proof = session[s].proof
                            /\ session'[s].state = IF s \in S THEN "revoked" ELSE session[s].state
    BY DEF Revoked, ChainInv, ChainType, Row
  <1>2. session' \in [Sessions -> Row]
    BY DEF Revoked, ChainInv, ChainType, Row, States
  <1> QED
    BY <1>1, <1>2 DEF OnlyStates, Existing, Unrevoked, Live

\* The INSERT of a row, into a new family or into one without a live session.
LEMMA ChainInserts ==
    ASSUME ChainInv, NEW s \in Sessions, NEW family \in Existing \cup {s},
           NEW pv \in Nat, NEW proof \in Nat, Inserts(s, family, pv, proof),
           family \notin reused, \A u \in Live : session[u].family # family,
           NEW r \in Requests, OneRequest(r),
           \A q \in Requests \ {r} : IsRefresh(req[q]) => FamilyOf(req[q]) # family,
           req'[r] = NoRequest \/ (req'[r].op = "login" /\ ChainRequest(req[r])'),
           held' \subseteq Existing \cup {s}, UNCHANGED <<user, password, reused>>
    PROVE  ChainInv'
  <1> DEFINE row == [state |-> "live", family |-> family, pv |-> pv, proof |-> proof]
  <1>1. s \notin Existing /\ family \in Sessions /\ row \in Row
    BY DEF Inserts, Existing, Row, States
  <1>2. session' \in [Sessions -> Row] /\ session'[s] = row
        /\ \A u \in Sessions \ {s} : session'[u] = session[u]
    BY <1>1 DEF ChainInv, ChainType, Inserts
  <1>3. Existing' = Existing \cup {s} /\ Existing \subseteq Sessions
    BY <1>2 DEF Existing
  <1>4. Live' = Live \cup {s} /\ Live \subseteq Existing
    BY <1>2 DEF Live, Existing
  <1>5. ASSUME NEW q \in Requests \ {r}, req'[q] # NoRequest
        PROVE  (ChainRequest(req[q]) /\ Rotation(req[q]))'
    <2>1. req'[q] = req[q] /\ ChainRequest(req[q]) /\ Rotation(req[q])
      BY <1>5 DEF OneRequest, ChainInv, ChainType
    <2>2. ChainRequest(req[q])'
      BY <1>3, <2>1 DEF ChainRequest, HasSession
    <2>3. req[q].op = "refresh" => req[q].session \in Existing /\ FamilyOf(req[q]) # family
      BY <1>5, <2>1 DEF ChainRequest, HasSession, IsRefresh
    <2> QED
      BY <1>1, <1>2, <1>3, <1>4, <2>1, <2>2, <2>3 DEF Rotation, FamilyOf
  <1>6. ChainType'
    <2>1. \A u \in Existing' : session'[u].family \in Existing'
      BY <1>1, <1>2, <1>3 DEF ChainInv, ChainType
    <2> QED
      BY <1>2, <1>3, <1>5, <2>1 DEF ChainInv, ChainType, OneRequest
  <1>7. OneLivePerFamily' /\ ReuseEndsFamily'
    BY <1>1, <1>2, <1>3, <1>4 DEF ChainInv, OneLivePerFamily, ReuseEndsFamily
  <1>8. req'[r] # NoRequest => Rotation(req[r])'
    BY DEF Rotation
  <1> QED
    BY <1>5, <1>6, <1>7, <1>8 DEF ChainInv

LEMMA ChainRequests ==
    ASSUME ChainInv, NEW r \in Requests, req[r] # NoRequest
    PROVE  /\ req[r] \in Request /\ ChainRequest(req[r]) /\ Rotation(req[r])
           /\ req \in [Requests -> Request \cup {NoRequest}]
           /\ user \in User /\ password \in Nat /\ held \subseteq Existing
           /\ Existing \subseteq Sessions
  BY DEF ChainInv, ChainType, ChainRequest, Existing

\* A step that moves a request on or ends it, and leaves the rows alone.
LEMMA ChainMoves ==
    ASSUME ChainInv, NEW r \in Requests, req[r] # NoRequest, req[r].op \notin {"login", "refresh"},
           Ends(r) \/ \E step \in Steps : GoesOn(r, step),
           UNCHANGED <<session, held, reused>>, user' \in User, password' \in Nat
    PROVE  ChainInv'
  <1>1. held' \subseteq Existing
    BY ChainRequests
  <1>2. CASE Ends(r)
    BY <1>1, <1>2, ChainFlow, ChainQuiet
  <1>3. CASE \E step \in Steps : GoesOn(r, step)
    <2>1. PICK step \in Steps : GoesOn(r, step)
      BY <1>3
    <2>2. OneRequest(r) /\ ChainRequest(req'[r]) /\ req'[r].op # "refresh"
      BY <2>1, ChainFlow
    <2>3. Rotation(req'[r])
      BY <2>2 DEF Rotation
    <2> QED
      BY <1>1, <2>2, <2>3, ChainQuiet
  <1> QED
    BY <1>2, <1>3

\* The same for one whose UPDATE revokes existing rows.
LEMMA ChainCloses ==
    ASSUME ChainInv, NEW r \in Requests, req[r] # NoRequest, req[r].op \notin {"refresh"},
           NEW S, S \subseteq Existing, session' = Revoked(S),
           Ends(r) \/ (req[r].op # "login" /\ \E step \in Steps : GoesOn(r, step)),
           UNCHANGED <<user, password, reused>>, held' \subseteq Existing
    PROVE  ChainInv'
  <1>1. OnlyStates /\ Live' \subseteq Live
    BY ChainRevokes
  <1>2. user' \in User /\ password' \in Nat
    BY ChainRequests
  <1>3. CASE Ends(r)
    BY <1>1, <1>2, <1>3, ChainFlow, ChainFrame
  <1>4. CASE req[r].op # "login" /\ \E step \in Steps : GoesOn(r, step)
    <2>1. PICK step \in Steps : GoesOn(r, step)
      BY <1>4
    <2>2. OneRequest(r) /\ ChainRequest(req'[r]) /\ req'[r].op # "refresh"
      BY <1>4, <2>1, ChainFlow
    <2>3. Rotation(req[r])'
      BY <2>2 DEF Rotation
    <2> QED
      BY <1>1, <1>2, <2>2, <2>3, ChainFrame
  <1> QED
    BY <1>3, <1>4

LEMMA ChainLogin ==
    ASSUME ChainInv, NEW r \in Requests, LoginStep(r)
    PROVE  ChainInv'
  <1>0. user \in User /\ password \in Nat /\ held \subseteq Existing /\ Existing \subseteq Sessions
        /\ NoRequest \notin Request
    BY SessionConstants DEF ChainInv, ChainType, Existing
  <1>1. CASE LoginReads(r)
    <2>1. "login" \in AllOps /\ "verify" \in Steps /\ 0 \in Nat /\ NoSession \in Sessions \cup {NoSession}
      BY DEF AllOps, Steps
    <2> QED
      BY <1>0, <1>1, <2>1, ChainStarts DEF LoginReads
  <1>2. CASE LoginVerifies(r)
    <2> DEFINE q == [req[r] EXCEPT !.at = "insert", !.proof = password]
    <2>1. req[r] # NoRequest /\ req[r].op = "login" /\ req' = [req EXCEPT ![r] = q]
      BY <1>2 DEF LoginVerifies, At
    <2>2. req[r] \in Request /\ ChainRequest(req[r])
      BY <2>1, ChainRequests
    <2>3. q \in Request /\ q.op = "login" /\ q.at = "insert" /\ q.picked = req[r].picked
      BY <1>0, <2>1, <2>2 DEF Request, Steps
    <2> HIDE DEF q
    <2>4. OneRequest(r) /\ req'[r] = q
      BY <2>1, <2>3 DEF OneRequest, ChainInv, ChainType
    <2>5. ChainRequest(q) /\ Rotation(q)
      BY <2>2, <2>3 DEF ChainRequest, HasSession, Rotation
    <2> QED
      BY <1>0, <1>2, <2>4, <2>5, ChainQuiet DEF LoginVerifies
  <1>3. CASE LoginInserts(r)
    <2>1. req[r] # NoRequest /\ req[r].op = "login" /\ req[r] \in Request /\ ChainRequest(req[r])
      BY <1>3, ChainRequests DEF LoginInserts, At
    <2>2. PICK s \in Sessions : /\ Inserts(s, s, req[r].seen.pv, req[r].proof)
                                /\ req' = [req EXCEPT ![r].at = "select", ![r].session = s]
      BY <1>3 DEF LoginInserts
    <2> DEFINE q == [req[r] EXCEPT !.at = "select", !.session = s]
    <2>3. q \in Request /\ q.op = "login" /\ q.picked = req[r].picked /\ q.session = s
      BY <2>1 DEF Request, Steps
    <2>4. req' = [req EXCEPT ![r] = q]
      BY <2>2
    <2> HIDE DEF q
    <2>5. OneRequest(r) /\ req'[r] = q
      BY <2>3, <2>4 DEF OneRequest, ChainInv, ChainType
    <2>6. s \notin Existing /\ Existing' = Existing \cup {s}
      BY <2>2 DEF Inserts, Existing, ChainInv, ChainType
    <2>7. ChainRequest(req[r])'
      BY <2>1, <2>3, <2>5, <2>6 DEF ChainRequest
    <2>8. s \notin reused /\ \A u \in Live : session[u].family # s
      BY <2>6 DEF ChainInv, ChainType, Live, Existing
    <2>9. \A p \in Requests \ {r} : IsRefresh(req[p]) => FamilyOf(req[p]) # s
      BY <2>6 DEF ChainInv, ChainType, ChainRequest, IsRefresh, FamilyOf, HasSession
    <2>10. req[r].seen.pv \in Nat /\ req[r].proof \in Nat
      BY <2>1 DEF Request, User
    <2>11. UNCHANGED <<user, password, held, reused>>
      BY <1>3 DEF LoginInserts
    <2> QED
      BY <1>0, <2>2, <2>3, <2>5, <2>7, <2>8, <2>9, <2>10, <2>11, ChainInserts
  <1>4. CASE LoginSelects(r)
    <2> DEFINE q == [req[r] EXCEPT !.at = "evict", !.picked = Surplus(req[r].session)]
    <2>1. req[r] # NoRequest /\ req[r].op = "login" /\ req[r].at = "select"
          /\ req' = [req EXCEPT ![r] = q]
      BY <1>4 DEF LoginSelects, At
    <2>2. req[r] \in Request /\ ChainRequest(req[r])
      BY <2>1, ChainRequests
    <2>3. Surplus(req[r].session) \subseteq Existing
      BY DEF Surplus, Live, Existing
    <2>4. q \in Request /\ q.op = "login" /\ q.at = "evict" /\ q.picked = Surplus(req[r].session)
          /\ q.session = req[r].session
      BY <1>0, <2>1, <2>2, <2>3 DEF Request, Steps
    <2> HIDE DEF q
    <2>5. OneRequest(r) /\ req'[r] = q
      BY <2>1, <2>4 DEF OneRequest, ChainInv, ChainType
    <2>6. ChainRequest(q) /\ Rotation(q)
      BY <2>1, <2>2, <2>3, <2>4 DEF ChainRequest, HasSession, Rotation
    <2> QED
      BY <1>0, <1>4, <2>5, <2>6, ChainQuiet DEF LoginSelects
  <1>5. CASE LoginEvicts(r)
    <2>1. req[r] # NoRequest /\ req[r].op = "login" /\ req[r].at = "evict" /\ ChainRequest(req[r])
      BY <1>5, ChainRequests DEF LoginEvicts, At
    <2>2. req[r].picked \subseteq Existing /\ req[r].session \in Existing
      BY <2>1 DEF ChainRequest, HasSession
    <2>3. held' \subseteq Existing
      BY <1>0, <1>5, <2>2 DEF LoginEvicts
    <2> QED
      BY <1>5, <2>1, <2>2, <2>3, ChainCloses DEF LoginEvicts
  <1> QED
    BY <1>1, <1>2, <1>3, <1>4, <1>5 DEF LoginStep

LEMMA ChainRefresh ==
    ASSUME ChainInv, RefreshesApart, NEW r \in Requests, RefreshStep(r)
    PROVE  ChainInv'
  <1>0. user \in User /\ password \in Nat /\ held \subseteq Existing /\ Existing \subseteq Sessions
    BY DEF ChainInv, ChainType, Existing
  <1>1. ASSUME NEW s \in Sessions, RefreshReads(r, s) PROVE ChainInv'
    <2>1. "refresh" \in AllOps /\ "validate" \in Steps /\ s \in Existing
      BY <1>0, <1>1 DEF AllOps, Steps, RefreshReads
    <2> QED
      BY <1>0, <1>1, <2>1, ChainStarts DEF RefreshReads
  <1>2. CASE RefreshValidates(r)
    <2>1. req[r] # NoRequest /\ req[r].op = "refresh" /\ ChainRequest(req[r])
      BY <1>2, ChainRequests DEF RefreshValidates, At
    <2>2. CASE Ends(r)
      BY <1>0, <1>2, <2>1, <2>2, ChainFlow, ChainQuiet DEF RefreshValidates
    <2>3. CASE req[r].session \in Live /\ GoesOn(r, "rotate")
      <3>1. /\ OneRequest(r) /\ ChainRequest(req'[r])
            /\ req'[r].op = "refresh" /\ req'[r].at = "rotate" /\ req'[r].session = req[r].session
        BY <2>1, <2>3, ChainFlow DEF Steps
      <3>2. FamilyOf(req'[r]) = session[req[r].session].family
        BY <3>1 DEF FamilyOf
      <3>3. Rotation(req'[r])
        BY <2>3, <3>1, <3>2 DEF ChainInv, OneLivePerFamily, ReuseEndsFamily, Rotation
      <3> QED
        BY <1>0, <1>2, <3>1, <3>3, ChainQuiet DEF RefreshValidates
    <2>4. CASE GoesOn(r, "reuse")
      <3>1. OneRequest(r) /\ ChainRequest(req'[r]) /\ req'[r].at = "reuse"
        BY <2>1, <2>4, ChainFlow DEF Steps
      <3>2. Rotation(req'[r])
        BY <3>1 DEF Rotation
      <3> QED
        BY <1>0, <1>2, <3>1, <3>2, ChainQuiet DEF RefreshValidates
    <2> QED
      BY <1>2, <2>2, <2>3, <2>4 DEF RefreshValidates
  <1>3. CASE RevokeTokenFamily(r)
    <2> DEFINE f == FamilyOf(req[r])
    <2>1. req[r] # NoRequest /\ req[r].op = "refresh" /\ ChainRequest(req[r])
      BY <1>3, ChainRequests DEF RevokeTokenFamily, At
    <2>2. req[r].session \in Existing /\ f \in Existing
      BY <2>1 DEF ChainRequest, HasSession, ChainInv, ChainType, FamilyOf
    <2>3. OneRequest(r) /\ req'[r] = NoRequest
      BY <1>3, <2>1, ChainFlow DEF RevokeTokenFamily
    <2>4. OnlyStates /\ Live' = Live \ (Kin(req[r].session) \cap Unrevoked)
      BY <1>3, ChainRevokes DEF RevokeTokenFamily, Kin
    <2>5. /\ Live' \subseteq Live /\ Live \subseteq Existing /\ reused' = reused \cup {f}
          /\ \A u \in Live' : session[u].family # f
      BY <1>3, <2>4 DEF RevokeTokenFamily, Kin, Unrevoked, Live, Existing, FamilyOf
    <2>6. ASSUME NEW q \in Requests, req'[q] # NoRequest
          PROVE  (ChainRequest(req[q]) /\ Rotation(req[q]))'
      <3>1. q # r /\ req'[q] = req[q] /\ ChainRequest(req[q]) /\ Rotation(req[q])
        BY <2>3, <2>6 DEF OneRequest, ChainInv, ChainType
      <3>2. ChainRequest(req[q])'
        BY <2>4, <3>1 DEF ChainRequest, OnlyStates, HasSession
      <3>3. req[q].op = "refresh" => req[q].session \in Sessions /\ FamilyOf(req[q]) # f
        BY <1>0, <2>1, <2>6, <3>1 DEF ChainRequest, HasSession, RefreshesApart, IsRefresh
      <3> QED
        BY <1>0, <2>4, <2>5, <3>1, <3>2, <3>3 DEF Rotation, FamilyOf, OnlyStates
    <2> HIDE DEF f
    <2>7. ChainType'
      <3>1. \A s \in Existing' : session'[s].family \in Existing'
        BY <1>0, <2>4 DEF ChainInv, ChainType, OnlyStates
      <3>2. UNCHANGED <<user, password, held>>
        BY <1>3 DEF RevokeTokenFamily
      <3> QED
        BY <2>2, <2>3, <2>4, <2>5, <2>6, <3>1, <3>2 DEF ChainInv, ChainType, OnlyStates, OneRequest
    <2>8. OneLivePerFamily' /\ ReuseEndsFamily'
      BY <1>0, <2>4, <2>5 DEF ChainInv, OneLivePerFamily, ReuseEndsFamily, OnlyStates
    <2> QED
      BY <2>6, <2>7, <2>8 DEF ChainInv
  <1>4. CASE RotateRevokesOld(r)
    <2> DEFINE s == req[r].session
    <2>1. req[r] # NoRequest /\ req[r].op = "refresh" /\ req[r].at = "rotate" /\ ChainRequest(req[r])
          /\ Rotation(req[r])
      BY <1>4, ChainRequests DEF RotateRevokesOld, At
    <2>2. s \in Existing
      BY <2>1 DEF ChainRequest, HasSession
    <2>3. OneRequest(r) /\ ChainRequest(req'[r])
          /\ req'[r].op = "refresh" /\ req'[r].at = "renew" /\ req'[r].session = s
      BY <1>4, <2>1, ChainFlow DEF RotateRevokesOld, Steps
    <2> HIDE DEF s
    <2>4. session' = [session EXCEPT ![s].state = "rotated"]
      BY <1>4 DEF RotateRevokesOld, s
    <2>5. \A u \in Sessions :
            /\ session'[u].family = session[u].family /\ session'[u].pv = session[u].pv
            /\ session'[u].proof = session[u].proof
            /\ session'[u].state = IF u = s THEN "rotated" ELSE session[u].state
      BY <2>4 DEF ChainInv, ChainType, Row
    <2>6. session' \in [Sessions -> Row]
      BY <2>4 DEF ChainInv, ChainType, Row, States
    <2>7. OnlyStates /\ Live' = Live \ {s}
      BY <2>2, <2>5, <2>6 DEF OnlyStates, Existing, Unrevoked, Live
    <2>8. ChainRequest(req[r])'
      BY <2>3, <2>7 DEF ChainRequest, OnlyStates, HasSession
    <2>9. FamilyOf(req[r])' = FamilyOf(req[r])
      BY <1>0, <2>2, <2>3, <2>7 DEF FamilyOf, OnlyStates, s
    <2>10. Rotation(req[r])'
      <3>1. FamilyOf(req[r]) \notin reused /\ \A u \in Live' : session[u].family # FamilyOf(req[r])
        BY <2>1, <2>7 DEF Rotation, s
      <3>2. \A u \in Live' : session'[u].family = session[u].family
        BY <2>7 DEF OnlyStates, Live
      <3> QED
        BY <1>4, <2>3, <2>9, <3>1, <3>2 DEF Rotation, RotateRevokesOld
    <2> QED
      BY <1>0, <1>4, <2>3, <2>7, <2>10, ChainFrame DEF RotateRevokesOld
  <1>5. CASE RotateInserts(r)
    <2> DEFINE old == session[req[r].session]
    <2>1. req[r] # NoRequest /\ req[r].op = "refresh" /\ req[r].at = "renew" /\ ChainRequest(req[r])
          /\ Rotation(req[r]) /\ req[r] \in Request
      BY <1>5, ChainRequests DEF RotateInserts, At
    <2>2. req[r].session \in Existing
      BY <2>1 DEF ChainRequest, HasSession
    <2>3. old.family \in Existing /\ old.proof \in Nat /\ req[r].seen.pv \in Nat
      BY <1>0, <2>1, <2>2 DEF ChainInv, ChainType, Row, Request, User
    <2>4. old.family = FamilyOf(req[r])
      BY DEF FamilyOf
    <2>5. old.family \notin reused /\ \A u \in Live : session[u].family # old.family
      BY <2>1, <2>4 DEF Rotation
    <2>6. \A q \in Requests \ {r} : IsRefresh(req[q]) => FamilyOf(req[q]) # old.family
      BY <2>1, <2>4 DEF RefreshesApart, IsRefresh
    <2> HIDE DEF old
    <2>7. PICK s \in Sessions : /\ Inserts(s, old.family, req[r].seen.pv, old.proof)
                                /\ held' \in {held, held \cup {s}}
      BY <1>5 DEF RotateInserts, old
    <2>8. OneRequest(r) /\ req'[r] = NoRequest
      BY <1>5, <2>1, ChainFlow DEF RotateInserts
    <2>9. UNCHANGED <<user, password, reused>> /\ held' \subseteq Existing \cup {s}
      BY <1>0, <1>5, <2>7 DEF RotateInserts
    <2> QED
      BY <2>3, <2>5, <2>6, <2>7, <2>8, <2>9, ChainInserts
  <1> QED
    BY <1>1, <1>2, <1>3, <1>4, <1>5 DEF RefreshStep

LEMMA ChainLogout ==
    ASSUME ChainInv, NEW r \in Requests, LogoutStep(r)
    PROVE  ChainInv'
  <1>0. user \in User /\ password \in Nat /\ held \subseteq Existing /\ Existing \subseteq Sessions
        /\ 0 \in Nat
    BY DEF ChainInv, ChainType, Existing
  <1>1. ASSUME NEW s \in Sessions, LogoutStarts(r, s) PROVE ChainInv'
    <2>1. "logout" \in AllOps /\ "find" \in Steps /\ s \in Existing
      BY <1>0, <1>1 DEF AllOps, Steps, LogoutStarts
    <2> QED
      BY <1>0, <1>1, <2>1, ChainStarts DEF LogoutStarts
  <1>2. ASSUME NEW s \in Sessions, RevokeByUserStarts(r, s) PROVE ChainInv'
    <2>1. "revokeByUser" \in AllOps /\ "find" \in Steps /\ s \in Existing
      BY <1>2 DEF AllOps, Steps, RevokeByUserStarts
    <2> QED
      BY <1>0, <1>2, <2>1, ChainStarts DEF RevokeByUserStarts
  <1>3. ASSUME NEW s \in Sessions, LogoutAllStarts(r, s) PROVE ChainInv'
    <2>1. "logoutAll" \in AllOps /\ "revoke" \in Steps /\ s \in Existing
      BY <1>0, <1>3 DEF AllOps, Steps, LogoutAllStarts
    <2> QED
      BY <1>0, <1>3, <2>1, ChainStarts DEF LogoutAllStarts
  <1>4. CASE RevokeFinds(r)
    <2>1. req[r] # NoRequest /\ req[r].op \in {"logout", "revokeByUser"}
      BY <1>4 DEF RevokeFinds, At
    <2>2. Ends(r) \/ \E step \in Steps : GoesOn(r, step)
      BY <1>4, <2>1 DEF RevokeFinds, Continues, AfterRevoke, Steps
    <2> QED
      BY <1>0, <1>4, <2>1, <2>2, ChainMoves DEF RevokeFinds
  <1>5. CASE RevokeSaves(r)
    <2>1. req[r] # NoRequest /\ req[r].op \in {"logout", "revokeByUser"} /\ ChainRequest(req[r])
      BY <1>5, ChainRequests DEF RevokeSaves, At
    <2>2. {req[r].session} \subseteq Existing
      BY <2>1 DEF ChainRequest, HasSession
    <2>3. Ends(r) \/ \E step \in Steps : GoesOn(r, step)
      BY <1>5, <2>1 DEF RevokeSaves, Continues, AfterRevoke, Steps
    <2> QED
      BY <1>0, <1>5, <2>1, <2>2, <2>3, ChainCloses DEF RevokeSaves
  <1>6. CASE Blacklists(r)
    <2>1. req[r] # NoRequest /\ req[r].op \in {"logout", "logoutAll"} /\ Ends(r)
      BY <1>6 DEF Blacklists, At
    <2> QED
      BY <1>0, <1>6, <2>1, ChainMoves DEF Blacklists
  <1> QED
    BY <1>1, <1>2, <1>3, <1>4, <1>5, <1>6 DEF LogoutStep

LEMMA ChainAccount ==
    ASSUME ChainInv, NEW r \in Requests, AccountStep(r)
    PROVE  ChainInv'
  <1>0. user \in User /\ password \in Nat /\ held \subseteq Existing /\ Existing \subseteq Sessions
        /\ 0 \in Nat /\ NoSession \in Sessions \cup {NoSession}
    BY DEF ChainInv, ChainType, Existing
  <1>1. CASE ChangePasswordStarts(r)
    <2>1. "changePassword" \in AllOps /\ "set" \in Steps
      BY DEF AllOps, Steps
    <2> QED
      BY <1>0, <1>1, <2>1, ChainStarts DEF ChangePasswordStarts
  <1>2. CASE SetPassword(r)
    <2> DEFINE q == [req[r] EXCEPT !.at = "increment", !.proof = password + 1]
    <2>1. req[r] # NoRequest /\ req[r].op = "changePassword" /\ req' = [req EXCEPT ![r] = q]
      BY <1>2 DEF SetPassword, At
    <2>2. req[r] \in Request /\ ChainRequest(req[r])
      BY <2>1, ChainRequests
    <2>7. password + 1 \in Nat /\ "increment" \in Steps
      BY <1>0 DEF Steps
    <2>3. q \in Request /\ q.op = "changePassword" /\ q.picked = req[r].picked
      BY <2>1, <2>2, <2>7 DEF Request
    <2> HIDE DEF q
    <2>4. OneRequest(r) /\ req'[r] = q
      BY <2>1, <2>3 DEF OneRequest, ChainInv, ChainType
    <2>5. ChainRequest(q) /\ Rotation(q)
      BY <2>2, <2>3 DEF ChainRequest, HasSession, Rotation
    <2>6. password' \in Nat /\ UNCHANGED <<user, session, held, reused>>
      BY <1>0, <1>2 DEF SetPassword
    <2> QED
      BY <1>0, <2>4, <2>5, <2>6, ChainQuiet
  <1>3. CASE UpdateReads(r)
    <2>1. PICK active \in BOOLEAN :
            Starts(r, IF user.active /\ ~active THEN "disable" ELSE "edit", "save",
                   NoSession, [user EXCEPT !.active = active], 0)
      BY <1>3 DEF UpdateReads
    <2> DEFINE op == IF user.active /\ ~active THEN "disable" ELSE "edit"
               seen == [user EXCEPT !.active = active]
    <2>2. op \in AllOps /\ op \notin {"login", "refresh", "logout", "revokeByUser", "logoutAll"}
          /\ "save" \in Steps
      BY DEF AllOps, Steps
    <2>3. seen \in User
      BY <1>0 DEF User
    <2>4. Starts(r, op, "save", NoSession, seen, 0)
      BY <2>1
    <2> HIDE DEF op, seen
    <2> QED
      BY <1>0, <1>3, <2>2, <2>3, <2>4, ChainStarts DEF UpdateReads
  <1>4. CASE UpdateSaves(r)
    <2>1. req[r] # NoRequest /\ req[r].op \in {"edit", "disable"} /\ req[r] \in Request
      BY <1>4, ChainRequests DEF UpdateSaves, At
    <2>2. user' \in User /\ (Ends(r) \/ GoesOn(r, "revoke")) /\ "revoke" \in Steps
      BY <1>4, <2>1 DEF UpdateSaves, Request, Steps
    <2> QED
      BY <1>0, <1>4, <2>1, <2>2, ChainMoves DEF UpdateSaves
  <1>5. CASE RevokeAllForUser(r)
    <2>1. req[r] # NoRequest /\ req[r].op \in {"logoutAll", "disable", "changePassword"}
      BY <1>5 DEF RevokeAllForUser, At
    <2>2. Unrevoked \subseteq Existing
      BY DEF Unrevoked, Existing
    <2>3. Ends(r) \/ \E step \in Steps : GoesOn(r, step)
      BY <1>5, <2>1 DEF RevokeAllForUser, Continues, AfterRevoke, Steps
    <2> QED
      BY <1>0, <1>5, <2>1, <2>2, <2>3, ChainCloses DEF RevokeAllForUser
  <1>6. CASE IncrementPasswordVersion(r)
    <2>1. req[r] # NoRequest /\ req[r].op \in {"logoutAll", "disable", "changePassword"}
      BY <1>6 DEF IncrementPasswordVersion, At
    <2>2. user' \in User
      BY <1>0, <1>6 DEF IncrementPasswordVersion, User
    <2>3. Ends(r) \/ \E step \in Steps : GoesOn(r, step)
      BY <1>6, <2>1 DEF IncrementPasswordVersion, Continues, AfterIncrement, Steps
    <2> QED
      BY <1>0, <1>6, <2>1, <2>2, <2>3, ChainMoves DEF IncrementPasswordVersion
  <1> QED
    BY <1>1, <1>2, <1>3, <1>4, <1>5, <1>6 DEF AccountStep

LEMMA ChainExpires ==
    ASSUME ChainInv, NEW s \in Sessions, Expires(s)
    PROVE  ChainInv'
  <1>1. \A u \in Sessions :
          /\ session'[u].family = session[u].family /\ session'[u].pv = session[u].pv
          /\ session'[u].proof = session[u].proof
          /\ session'[u].state = IF u = s THEN "expired" ELSE session[u].state
    BY DEF Expires, ChainInv, ChainType, Row
  <1>2. session' \in [Sessions -> Row]
    BY DEF Expires, ChainInv, ChainType, Row, States
  <1>3. OnlyStates /\ Live' = Live \ {s}
    BY <1>1, <1>2 DEF OnlyStates, Existing, Unrevoked, Live, Expires
  <1>4. Existing \subseteq Sessions /\ Live \subseteq Sessions
    BY DEF Existing, Live
  <1>5. UNCHANGED <<user, password, held, req, reused>>
    BY DEF Expires
  <1>6. ASSUME NEW q \in Requests, req'[q] # NoRequest
        PROVE  (ChainRequest(req[q]) /\ Rotation(req[q]))'
    <2>1. req'[q] = req[q] /\ ChainRequest(req[q]) /\ Rotation(req[q])
      BY <1>5, <1>6 DEF ChainInv, ChainType
    <2>2. ChainRequest(req[q])'
      BY <1>3, <2>1 DEF ChainRequest, OnlyStates, HasSession
    <2>3. req[q].op = "refresh" => req[q].session \in Sessions
      BY <1>4, <2>1 DEF ChainRequest, HasSession
    <2> QED
      BY <1>3, <1>4, <1>5, <2>1, <2>2, <2>3 DEF Rotation, FamilyOf, OnlyStates
  <1>7. ChainType'
    BY <1>3, <1>4, <1>5, <1>6 DEF ChainInv, ChainType, OnlyStates
  <1>8. OneLivePerFamily' /\ ReuseEndsFamily'
    BY <1>3, <1>4, <1>5 DEF ChainInv, OneLivePerFamily, ReuseEndsFamily, OnlyStates
  <1> QED
    BY <1>6, <1>7, <1>8 DEF ChainInv

LEMMA ChainNext ==
    ASSUME ChainInv, RefreshesApart, [Next]_vars
    PROVE  ChainInv'
  <1>1. ASSUME NEW r \in Requests, RequestDies(r) PROVE ChainInv'
    <2>1. OneRequest(r) /\ req'[r] = NoRequest
      BY <1>1, ChainFlow DEF RequestDies
    <2> QED
      BY <1>1, <2>1, ChainQuiet DEF RequestDies, ChainInv, ChainType
  <1>2. CASE UNCHANGED vars
    BY <1>2 DEF vars, ChainInv, ChainType, ChainRequest, Rotation, FamilyOf, HasSession,
                OneLivePerFamily, ReuseEndsFamily, Existing, Live
  <1> QED
    BY <1>1, <1>2, ChainLogin, ChainRefresh, ChainLogout, ChainAccount, ChainExpires DEF Next

LEMMA ChainInit == Init => ChainInv
  <1> SUFFICES ASSUME Init PROVE ChainInv
    OBVIOUS
  <1>1. \A s \in Sessions : session[s] = Absent
    BY DEF Init
  <1>2. Existing = {} /\ Live = {}
    BY <1>1 DEF Existing, Live, Absent
  <1>3. session \in [Sessions -> Row] /\ user \in User
    BY DEF Init, Absent, Row, States, User
  <1>4. ChainType
    BY <1>2, <1>3 DEF ChainType, Init
  <1> QED
    BY <1>2, <1>4 DEF Init, ChainInv, OneLivePerFamily, ReuseEndsFamily

\* The invariant of rotation: while no two refreshes of one family overlap, whatever else runs.
THEOREM RotationInductive == Spec /\ []RefreshesApart => []ChainInv
  BY ChainInit, ChainNext, PTL DEF Spec

\* A family is a chain (rotateSession): as long as no two refreshes of one family overlap, no
\* interleaving of logins, logouts, updates, expiries and requests cut short leaves a family
\* with two live sessions.
THEOREM FamiliesAreChains == Spec /\ []RefreshesApart => []OneLivePerFamily
  <1>1. ChainInv => OneLivePerFamily
    BY DEF ChainInv
  <1> QED
    BY <1>1, RotationInductive, PTL

\* A replayed refresh token ends its whole family, for good (revokeTokenFamily): under the same
\* condition, no session of a family that reuse detection has revoked is ever live again.
THEOREM ReuseEndsIt == Spec /\ []RefreshesApart => []ReuseEndsFamily
  <1>1. ChainInv => ReuseEndsFamily
    BY DEF ChainInv
  <1> QED
    BY <1>1, RotationInductive, PTL

-------------------------------------------------------------------------------
(***************************************************************************)
(* The policy of a login.  What its UPDATE leaves is within the policy, as  *)
(* long as nothing is inserted between the SELECT it comes from and it.     *)
(***************************************************************************)

\* A finite set of numbers has a least one.
LEMMA Smallest ==
    ASSUME NEW S, S \subseteq Nat, S # {}, IsFiniteSet(S)
    PROVE  \E m \in S : \A x \in S : m <= x
  <1> DEFINE Below(m) == {x \in S : x < m}
             Initial == {Below(m) : m \in S}
  <1>1. Initial # {}
    OBVIOUS
  <1>2. ASSUME NEW m \in S PROVE Below(m) \in FiniteSubsetsOf(S)
    <2>1. Below(m) \in SUBSET S
      OBVIOUS
    <2> HIDE DEF Below
    <2>2. IsFiniteSet(Below(m))
      BY <2>1, FS_Subset
    <2> QED
      BY <2>1, <2>2 DEF FiniteSubsetsOf
  <1>3. Initial \subseteq FiniteSubsetsOf(S)
    BY <1>2
  <1>4. \A m, x \in S : x < m => <<Below(x), Below(m)>> \in StrictSubsetOrdering(S)
    <2> SUFFICES ASSUME NEW m \in S, NEW x \in S, x < m
                 PROVE  <<Below(x), Below(m)>> \in StrictSubsetOrdering(S)
      OBVIOUS
    <2>0. \A y \in S : y \in Nat
      OBVIOUS
    <2>1. \A y \in S : y < x => y < m
      BY <2>0
    <2>2. Below(x) \subseteq Below(m)
      BY <2>1
    <2>3. x \in Below(m) /\ x \notin Below(x)
      BY <2>0
    <2>4. Below(x) \in SUBSET S /\ Below(m) \in SUBSET S
      OBVIOUS
    <2> HIDE DEF Below
    <2> QED
      BY <2>2, <2>3, <2>4 DEF StrictSubsetOrdering
  <1>5. \A m \in S : Below(m) \in Initial
    OBVIOUS
  <1> HIDE DEF Below, Initial
  <1>6. PICK B \in Initial : \A C \in Initial : ~(<<C, B>> \in StrictSubsetOrdering(S))
    <2>1. IsWellFoundedOn(StrictSubsetOrdering(S), FiniteSubsetsOf(S))
      BY FS_StrictSubsetOrderingWellFounded
    <2> QED
      BY <1>1, <1>3, <2>1, WFMin
  <1>7. PICK m \in S : B = Below(m)
    BY <1>6 DEF Initial
  <1>8. \A x \in S : ~(x < m)
    BY <1>4, <1>5, <1>6, <1>7
  <1>9. \A x \in S : x \in Nat
    OBVIOUS
  <1> QED
    BY <1>8, <1>9

\* Of a finite set of numbers, at most k have fewer than k above them.
LEMMA Newest ==
    ASSUME NEW S, S \subseteq Nat, IsFiniteSet(S), NEW k \in Nat, k > 0,
           NEW T, T \subseteq S, \A s \in T : ~(k <= Cardinality({u \in S : u > s}))
    PROVE  Cardinality(T) <= k
  <1>1. IsFiniteSet(T) /\ Cardinality(T) \in Nat
    BY FS_Subset, FS_CardinalityType
  <1>2. CASE T = {}
    BY <1>2, FS_EmptySet
  <1>3. CASE T # {}
    <2>1. PICK m \in T : \A x \in T : m <= x
      BY <1>1, <1>3, Smallest
    <2> DEFINE Above == {u \in S : u > m}
    <2>2. T \ {m} \subseteq Above
      BY <2>1
    <2>3. IsFiniteSet(Above) /\ Cardinality(Above) \in Nat
      BY FS_Subset, FS_CardinalityType
    <2>4. Cardinality(Above) < k
      BY <2>1, <2>3
    <2> HIDE DEF Above
    <2>5. Cardinality(T \ {m}) <= Cardinality(Above)
      BY <2>2, <2>3, FS_Subset
    <2>6. Cardinality(T \ {m}) = Cardinality(T) - 1
      BY <1>1, <2>1, FS_RemoveElement
    <2> QED
      BY <1>1, <2>3, <2>4, <2>5, <2>6
  <1> QED
    BY <1>2, <1>3
\* Between a login's SELECT and its UPDATE no other login and no rotation is about to insert.
NothingAppears ==
    \A r, q \in Requests :
        At(r, {"login"}, "evict") /\ q # r
        => ~At(q, {"login"}, "insert") /\ ~At(q, {"refresh"}, "renew")

\* What the UPDATE of request r will leave live is within the policy.
WithinPolicy(r) ==
    IF Policy = "replace" THEN Live \ req[r].picked \subseteq {req[r].session}
    ELSE MaxActive > 0 => Cardinality(Live \ req[r].picked) <= MaxActive

PolicyInv ==
    /\ IsFiniteSet(Existing)
    /\ \A r \in Requests : At(r, {"login"}, "evict") => WithinPolicy(r)

\* The rows only lose life, and request r does not come to its UPDATE.
Shrinks(r) ==
    /\ Live' \subseteq Live /\ Existing' = Existing
    /\ \A q \in Requests \ {r} : req'[q] = req[q]
    /\ req'[r] = NoRequest \/ req'[r].at # "evict"

LEMMA PolicyKept ==
    ASSUME PolicyInv, NEW r \in Requests, Shrinks(r)
    PROVE  PolicyInv'
  <1>1. ASSUME NEW q \in Requests, At(q, {"login"}, "evict")'
        PROVE  WithinPolicy(q)'
    <2>1. req'[q] = req[q] /\ At(q, {"login"}, "evict") /\ WithinPolicy(q)
      BY <1>1 DEF Shrinks, At, PolicyInv
    <2> DEFINE kept == Live \ req[q].picked
               left == Live' \ req[q].picked
    <2>2. left \subseteq kept /\ kept \subseteq Existing
      BY DEF Shrinks, Live, Existing
    <2> HIDE DEF kept, left
    <2>3. IsFiniteSet(kept) /\ Cardinality(kept) \in Nat
      BY <2>2, FS_Subset, FS_CardinalityType DEF PolicyInv
    <2>4. Cardinality(left) <= Cardinality(kept) /\ Cardinality(left) \in Nat
      BY <2>2, <2>3, FS_Subset, FS_CardinalityType
    <2>5. CASE Policy = "replace"
      <3>1. kept \subseteq {req[q].session}
        BY <2>1, <2>5 DEF WithinPolicy, kept
      <3>2. left \subseteq {req'[q].session}
        BY <2>1, <2>2, <3>1
      <3> QED
        BY <2>1, <2>5, <3>2 DEF WithinPolicy, left
    <2>6. CASE Policy # "replace" /\ MaxActive > 0
      <3>1. Cardinality(kept) <= MaxActive
        BY <2>1, <2>6 DEF WithinPolicy, kept
      <3>2. Cardinality(left) <= MaxActive
        BY <2>3, <2>4, <3>1, SessionConstants
      <3> QED
        BY <2>1, <2>6, <3>2 DEF WithinPolicy, left
    <2>7. CASE Policy # "replace" /\ ~(MaxActive > 0)
      BY <2>7 DEF WithinPolicy
    <2> QED
      BY <2>5, <2>6, <2>7
  <1> QED
    BY <1>1 DEF PolicyInv, Shrinks

\* The ways in which the statement of a request may end.
LEMMA FlowShrinks ==
    ASSUME ChainInv, NEW r \in Requests
    PROVE  /\ Ends(r) => req'[r] = NoRequest /\ \A q \in Requests \ {r} : req'[q] = req[q]
           /\ \A step \in Steps :
                req[r] # NoRequest /\ GoesOn(r, step)
                => req'[r].at = step /\ \A q \in Requests \ {r} : req'[q] = req[q]
           /\ \A op, step, s, seen, proof :
                Starts(r, op, step, s, seen, proof)
                => req'[r].at = step /\ \A q \in Requests \ {r} : req'[q] = req[q]
  <1>1. req \in [Requests -> Request \cup {NoRequest}]
    BY DEF ChainInv, ChainType
  <1>2. Ends(r) => req'[r] = NoRequest /\ \A q \in Requests \ {r} : req'[q] = req[q]
    BY <1>1 DEF Ends
  <1>3. ASSUME NEW step \in Steps, req[r] # NoRequest, GoesOn(r, step)
        PROVE  req'[r].at = step /\ \A q \in Requests \ {r} : req'[q] = req[q]
    BY <1>1, <1>3 DEF GoesOn, Request
  <1>4. ASSUME NEW op, NEW step, NEW s, NEW seen, NEW proof,
               Starts(r, op, step, s, seen, proof)
        PROVE  req'[r].at = step /\ \A q \in Requests \ {r} : req'[q] = req[q]
    BY <1>1, <1>4 DEF Starts
  <1> QED
    BY <1>2, <1>3, <1>4

LEMMA LoginShrinks ==
    ASSUME ChainInv, NEW r \in Requests, LoginReads(r) \/ LoginVerifies(r) \/ LoginEvicts(r)
    PROVE  Shrinks(r)
  <1>1. CASE LoginReads(r)
    BY <1>1, FlowShrinks DEF LoginReads, Shrinks, Live, Existing
  <1>2. CASE LoginVerifies(r)
    <2>1. req'[r].at = "insert" /\ \A q \in Requests \ {r} : req'[q] = req[q]
      BY <1>2 DEF LoginVerifies, At, ChainInv, ChainType, Request
    <2> QED
      BY <1>2, <2>1 DEF LoginVerifies, Shrinks, Live, Existing
  <1>3. CASE LoginEvicts(r)
    <2>1. req[r].picked \subseteq Existing
      BY <1>3 DEF LoginEvicts, At, ChainInv, ChainType, ChainRequest
    <2>2. OnlyStates /\ Live' \subseteq Live
      BY <1>3, <2>1, ChainRevokes DEF LoginEvicts
    <2> QED
      BY <1>3, <2>2, FlowShrinks DEF LoginEvicts, Shrinks, OnlyStates
  <1> QED
    BY <1>1, <1>2, <1>3

LEMMA RefreshShrinks ==
    ASSUME ChainInv, NEW r \in Requests, RefreshStep(r), ~RotateInserts(r)
    PROVE  Shrinks(r)
  <1>1. ASSUME NEW s \in Sessions, RefreshReads(r, s) PROVE Shrinks(r)
    BY <1>1, FlowShrinks DEF RefreshReads, Shrinks, Live, Existing
  <1>2. CASE RefreshValidates(r)
    <2>1. req[r] # NoRequest /\ (Ends(r) \/ GoesOn(r, "rotate") \/ GoesOn(r, "reuse"))
      BY <1>2 DEF RefreshValidates, At
    <2>2. "rotate" \in Steps /\ "reuse" \in Steps
      BY DEF Steps
    <2> QED
      BY <1>2, <2>1, <2>2, FlowShrinks DEF RefreshValidates, Shrinks, Live, Existing
  <1>3. CASE RevokeTokenFamily(r)
    <2>1. OnlyStates /\ Live' \subseteq Live
      BY <1>3, ChainRevokes DEF RevokeTokenFamily, Kin
    <2> QED
      BY <1>3, <2>1, FlowShrinks DEF RevokeTokenFamily, Shrinks, OnlyStates
  <1>4. CASE RotateRevokesOld(r)
    <2>1. req[r] # NoRequest /\ req[r].op = "refresh" /\ ChainRequest(req[r])
      BY <1>4, ChainRequests DEF RotateRevokesOld, At
    <2>2. req[r].session \in Existing
      BY <2>1 DEF ChainRequest, HasSession
    <2>3. \A u \in Sessions :
            session'[u].state = IF u = req[r].session THEN "rotated" ELSE session[u].state
      BY <1>4 DEF RotateRevokesOld, ChainInv, ChainType, Row
    <2>4. Live' \subseteq Live /\ Existing' = Existing
      BY <2>2, <2>3 DEF Live, Existing
    <2>5. "renew" \in Steps
      BY DEF Steps
    <2> QED
      BY <1>4, <2>1, <2>4, <2>5, FlowShrinks DEF RotateRevokesOld, Shrinks
  <1> QED
    BY <1>1, <1>2, <1>3, <1>4 DEF RefreshStep

LEMMA LogoutShrinks ==
    ASSUME ChainInv, NEW r \in Requests, LogoutStep(r)
    PROVE  Shrinks(r)
  <1>0. {"save", "blacklist", "increment", "revoke"} \subseteq Steps
    BY DEF Steps
  <1>1. ASSUME NEW s \in Sessions,
               LogoutStarts(r, s) \/ RevokeByUserStarts(r, s) \/ LogoutAllStarts(r, s)
        PROVE  Shrinks(r)
    BY <1>1, FlowShrinks
       DEF LogoutStarts, RevokeByUserStarts, LogoutAllStarts, Shrinks, Live, Existing
  <1>2. CASE RevokeFinds(r)
    <2>1. req[r] # NoRequest /\ (Ends(r) \/ GoesOn(r, "save") \/ GoesOn(r, "blacklist"))
      BY <1>2 DEF RevokeFinds, At, Continues, AfterRevoke
    <2> QED
      BY <1>0, <1>2, <2>1, FlowShrinks DEF RevokeFinds, Shrinks, Live, Existing
  <1>3. CASE RevokeSaves(r)
    <2>1. req[r] # NoRequest /\ (Ends(r) \/ GoesOn(r, "blacklist")) /\ req[r].session \in Existing
      BY <1>3, ChainRequests
         DEF RevokeSaves, At, Continues, AfterRevoke, ChainRequest, HasSession
    <2>2. OnlyStates /\ Live' \subseteq Live
      BY <1>3, <2>1, ChainRevokes DEF RevokeSaves
    <2> QED
      BY <1>0, <1>3, <2>1, <2>2, FlowShrinks DEF RevokeSaves, Shrinks, OnlyStates
  <1>4. CASE Blacklists(r)
    BY <1>4, FlowShrinks DEF Blacklists, Shrinks, Live, Existing
  <1> QED
    BY <1>1, <1>2, <1>3, <1>4 DEF LogoutStep

LEMMA AccountShrinks ==
    ASSUME ChainInv, NEW r \in Requests, AccountStep(r)
    PROVE  Shrinks(r)
  <1>0. {"save", "blacklist", "increment", "revoke"} \subseteq Steps
    BY DEF Steps
  <1>1. CASE ChangePasswordStarts(r)
    BY <1>1, FlowShrinks DEF ChangePasswordStarts, Shrinks, Live, Existing
  <1>2. CASE SetPassword(r)
    <2>1. req'[r].at = "increment" /\ \A q \in Requests \ {r} : req'[q] = req[q]
      BY <1>2 DEF SetPassword, At, ChainInv, ChainType, Request
    <2> QED
      BY <1>2, <2>1 DEF SetPassword, Shrinks, Live, Existing
  <1>3. CASE UpdateReads(r)
    BY <1>3, FlowShrinks DEF UpdateReads, Shrinks, Live, Existing
  <1>4. CASE UpdateSaves(r)
    <2>1. req[r] # NoRequest /\ (Ends(r) \/ GoesOn(r, "revoke"))
      BY <1>4 DEF UpdateSaves, At
    <2> QED
      BY <1>0, <1>4, <2>1, FlowShrinks DEF UpdateSaves, Shrinks, Live, Existing
  <1>5. CASE RevokeAllForUser(r)
    <2>1. req[r] # NoRequest /\ (Ends(r) \/ GoesOn(r, "increment"))
      BY <1>5 DEF RevokeAllForUser, At, Continues, AfterRevoke
    <2>2. Unrevoked \subseteq Existing
      BY DEF Unrevoked, Existing
    <2>3. OnlyStates /\ Live' \subseteq Live
      BY <1>5, <2>2, ChainRevokes DEF RevokeAllForUser
    <2> QED
      BY <1>0, <1>5, <2>1, <2>3, FlowShrinks DEF RevokeAllForUser, Shrinks, OnlyStates
  <1>6. CASE IncrementPasswordVersion(r)
    <2>1. req[r] # NoRequest /\ (Ends(r) \/ GoesOn(r, "blacklist") \/ GoesOn(r, "revoke"))
      BY <1>6 DEF IncrementPasswordVersion, At, Continues, AfterIncrement
    <2> QED
      BY <1>0, <1>6, <2>1, FlowShrinks DEF IncrementPasswordVersion, Shrinks, Live, Existing
  <1> QED
    BY <1>1, <1>2, <1>3, <1>4, <1>5, <1>6 DEF AccountStep

LEMMA InsertsKeepPolicy ==
    ASSUME ChainInv, PolicyInv, NothingAppears, NEW r \in Requests,
           LoginInserts(r) \/ RotateInserts(r)
    PROVE  PolicyInv'
  <1>1. At(r, {"login"}, "insert") \/ At(r, {"refresh"}, "renew")
    BY DEF LoginInserts, RotateInserts
  <1>2. \E s \in Sessions : Existing' = Existing \cup {s}
    <2>1. PICK s, family, pv, proof : s \in Sessions /\ Inserts(s, family, pv, proof)
      BY DEF LoginInserts, RotateInserts
    <2>2. Existing' = Existing \cup {s}
      BY <2>1 DEF Inserts, Existing, ChainInv, ChainType
    <2> QED
      BY <2>1, <2>2
  <1>3. IsFiniteSet(Existing')
    BY <1>2, FS_AddElement DEF PolicyInv
  <1>4. req'[r] = NoRequest \/ req'[r].at = "select"
    BY DEF LoginInserts, RotateInserts, At, Ends, ChainInv, ChainType, Request
  <1>5. \A q \in Requests \ {r} : req'[q] = req[q]
    BY DEF LoginInserts, RotateInserts, Ends, ChainInv, ChainType
  <1>6. \A q \in Requests : ~At(q, {"login"}, "evict")'
    BY <1>1, <1>4, <1>5 DEF At, NothingAppears
  <1> QED
    BY <1>3, <1>6 DEF PolicyInv

LEMMA SelectKeepsPolicy ==
    ASSUME ChainInv, PolicyInv, NEW r \in Requests, LoginSelects(r)
    PROVE  PolicyInv'
  <1> DEFINE picked == Surplus(req[r].session)
  <1>1. req'[r].picked = picked /\ req'[r].session = req[r].session
        /\ \A q \in Requests \ {r} : req'[q] = req[q]
    BY DEF LoginSelects, At, ChainInv, ChainType, Request
  <1>2. Live' = Live /\ Existing' = Existing /\ Live \subseteq Existing
    BY DEF LoginSelects, Live, Existing
  <1>3. IsFiniteSet(Live) /\ Live \subseteq Nat
    BY <1>2, FS_Subset, SessionConstants DEF PolicyInv, Live
  <1>4. CASE Policy = "replace"
    BY <1>1, <1>2, <1>4 DEF PolicyInv, WithinPolicy, Surplus, At
  <1>5. CASE Policy # "replace" /\ MaxActive > 0
    <2>1. Live \ picked \subseteq Live
          /\ \A s \in Live \ picked : ~(MaxActive <= Cardinality({u \in Live : u > s}))
      BY <1>5, SessionConstants DEF Surplus
    <2>2. Cardinality(Live \ picked) <= MaxActive
      BY <1>3, <1>5, <2>1, Newest, SessionConstants
    <2> HIDE DEF picked
    <2> QED
      BY <1>1, <1>2, <1>5, <2>2 DEF PolicyInv, WithinPolicy, At
  <1>6. CASE Policy # "replace" /\ ~(MaxActive > 0)
    BY <1>2, <1>6 DEF PolicyInv, WithinPolicy
  <1> QED
    BY <1>4, <1>5, <1>6

LEMMA PolicyNext ==
    ASSUME ChainInv, PolicyInv, NothingAppears, [Next]_vars
    PROVE  PolicyInv'
  <1>1. ASSUME NEW r \in Requests, RequestDies(r) PROVE PolicyInv'
    <2>1. Shrinks(r)
      BY <1>1, FlowShrinks DEF RequestDies, Shrinks, Live, Existing
    <2> QED
      BY <2>1, PolicyKept
  <1>2. ASSUME NEW r \in Requests, LoginStep(r) PROVE PolicyInv'
    BY <1>2, LoginShrinks, PolicyKept, InsertsKeepPolicy, SelectKeepsPolicy DEF LoginStep
  <1>3. ASSUME NEW r \in Requests, RefreshStep(r) PROVE PolicyInv'
    BY <1>3, RefreshShrinks, PolicyKept, InsertsKeepPolicy
  <1>4. ASSUME NEW r \in Requests, LogoutStep(r) \/ AccountStep(r) PROVE PolicyInv'
    BY <1>4, LogoutShrinks, AccountShrinks, PolicyKept
  <1>5. ASSUME NEW s \in Sessions, Expires(s) PROVE PolicyInv'
    <2>1. \A u \in Sessions : session'[u].state = IF u = s THEN "expired" ELSE session[u].state
      BY <1>5 DEF Expires, ChainInv, ChainType, Row
    <2>2. Live' \subseteq Live /\ Existing' = Existing /\ req' = req
      BY <1>5, <2>1 DEF Expires, Live, Existing
    <2>3. CASE \E r \in Requests : At(r, {"login"}, "evict")
      <3>1. ASSUME NEW r \in Requests, At(r, {"login"}, "evict") PROVE WithinPolicy(r)'
        <4>1. WithinPolicy(r) /\ req'[r] = req[r]
          BY <2>2, <3>1 DEF PolicyInv
        <4> DEFINE kept == Live \ req[r].picked
                   left == Live' \ req[r].picked
        <4>2. left \subseteq kept /\ kept \subseteq Existing
          BY <2>2 DEF Live, Existing
        <4> HIDE DEF kept, left
        <4>3. IsFiniteSet(kept) /\ Cardinality(kept) \in Nat
          BY <4>2, FS_Subset, FS_CardinalityType DEF PolicyInv
        <4>4. Cardinality(left) <= Cardinality(kept) /\ Cardinality(left) \in Nat
          BY <4>2, <4>3, FS_Subset, FS_CardinalityType
        <4> QED
          BY <4>1, <4>2, <4>3, <4>4, SessionConstants DEF WithinPolicy, kept, left
      <3> QED
        BY <2>2, <3>1 DEF PolicyInv, At
    <2> QED
      BY <2>2, <2>3 DEF PolicyInv, At
  <1>6. CASE UNCHANGED vars
    BY <1>6 DEF vars, PolicyInv, WithinPolicy, At, Existing, Live
  <1> QED
    BY <1>1, <1>2, <1>3, <1>4, <1>5, <1>6 DEF Next

LEMMA PolicyStep ==
    ASSUME ChainInv, PolicyInv, NothingAppears, [Next]_vars
    PROVE  \A r \in Requests :
             /\ At(r, {"login"}, "evict") /\ held' # held
             /\ \A q \in Requests \ {r} : req[q] = NoRequest \/ req[q].op # "login"
             => IF Policy = "replace" THEN Live' \subseteq {req[r].session}
                ELSE MaxActive > 0 => Cardinality(Live') <= MaxActive
  <1> SUFFICES ASSUME NEW r \in Requests, At(r, {"login"}, "evict"), held' # held,
                      \A q \in Requests \ {r} : req[q] = NoRequest \/ req[q].op # "login"
               PROVE  IF Policy = "replace" THEN Live' \subseteq {req[r].session}
                      ELSE MaxActive > 0 => Cardinality(Live') <= MaxActive
    OBVIOUS
  <1>1. PICK q \in Requests : LoginEvicts(q) \/ RotateInserts(q)
    BY DEF Next, LoginStep, RefreshStep, LogoutStep, AccountStep, vars,
           LoginReads, LoginVerifies, LoginInserts, LoginSelects,
           RefreshReads, RefreshValidates, RevokeTokenFamily, RotateRevokesOld,
           LogoutStarts, RevokeByUserStarts, LogoutAllStarts, RevokeFinds, RevokeSaves, Blacklists,
           ChangePasswordStarts, SetPassword, UpdateReads, UpdateSaves, RevokeAllForUser,
           IncrementPasswordVersion, Expires, RequestDies
  <1>2. LoginEvicts(r)
    BY <1>1 DEF LoginEvicts, RotateInserts, At, NothingAppears
  <1>3. req[r].picked \subseteq Existing
    BY <1>2 DEF LoginEvicts, At, ChainInv, ChainType, ChainRequest
  <1>4. Live' = Live \ req[r].picked
    BY <1>2, <1>3, ChainRevokes DEF LoginEvicts
  <1> QED
    BY <1>4 DEF PolicyInv, WithinPolicy

LEMMA PolicyInit == Init => PolicyInv
  <1> SUFFICES ASSUME Init PROVE PolicyInv
    OBVIOUS
  <1>1. Existing = {}
    BY DEF Init, Existing, Absent
  <1> QED
    BY <1>1, FS_EmptySet DEF Init, PolicyInv, At

\* The comment of jwtConfig.policy: when a login answers and no other login is on its way, the
\* sessions beyond its own ("replace") or beyond the MaxActive newest are closed, for any number
\* of sessions and any limit, unless a row was inserted behind its SELECT.
THEOREM LoginKeepsPolicy == Spec /\ []RefreshesApart /\ []NothingAppears => LoginAppliesPolicy
  <1>1. ChainInv /\ PolicyInv /\ NothingAppears /\ [Next]_vars => PolicyInv'
    BY PolicyNext
  <1>2. ChainInv /\ PolicyInv /\ NothingAppears /\ [Next]_vars
        => [ \A r \in Requests :
             /\ At(r, {"login"}, "evict") /\ held' # held
             /\ \A q \in Requests \ {r} : req[q] = NoRequest \/ req[q].op # "login"
             => IF Policy = "replace" THEN Live' \subseteq {req[r].session}
                ELSE MaxActive > 0 => Cardinality(Live') <= MaxActive ]_vars
    BY PolicyStep
  <1> QED
    BY <1>1, <1>2, PolicyInit, RotationInductive, PTL DEF Spec, LoginAppliesPolicy

\* A server that handles one request at a time meets all three conditions.
OneSlot == \A q, r \in Requests : q = r

\* One request at a time is on its way: nothing comes between the reads of an update and its save.
LEMMA SlotKeepsUpdates ==
    ASSUME OneSlot, IInv, UpdatesApart, [Next]_vars
    PROVE  UpdatesApart'
  <1> SUFFICES ASSUME NEW r \in Requests, At(r, {"edit", "disable"}, "save")'
               PROVE  req'[r].seen.pv = user'.pv
    BY DEF UpdatesApart
  <1>1. At(r, {"edit", "disable"}, "save") => req[r].seen.pv = user.pv
    BY DEF UpdatesApart
  <1>2. CASE UNCHANGED <<req, user>>
    BY <1>1, <1>2 DEF At
  <1>3. ASSUME NEW q \in Requests,
               LoginStep(q) \/ RefreshStep(q) \/ LogoutStep(q) \/ AccountStep(q) \/ RequestDies(q)
        PROVE  req'[r].seen.pv = user'.pv
    <2>1. q = r
      BY DEF OneSlot
    <2>2. req[r] # NoRequest => req[r] \in Request
      BY DEF IInv, TypeOK
    <2>3. req'[r] # NoRequest /\ req'[r].op \in {"edit", "disable"} /\ req'[r].at = "save"
      BY DEF At
    <2>4. CASE UpdateReads(r)
      BY <2>4 DEF UpdateReads, Starts, IInv, TypeOK, User
    <2>5. CASE ~UpdateReads(r)
      <3>1. ASSUME NEW op, NEW step, NEW s, NEW seen, NEW proof, Starts(r, op, step, s, seen, proof)
            PROVE  req'[r].op = op
        BY <3>1 DEF Starts, IInv, TypeOK
      <3>2. ~Ends(r)
        BY <2>3, ControlFlow
      <3>3. ASSUME NEW step \in Steps, req[r] # NoRequest, GoesOn(r, step)
            PROVE  req'[r].op = req[r].op /\ req'[r].at = step
        <4>1. req'[r] = [req[r] EXCEPT !.at = step]
          BY <3>3, ControlFlow
        <4> QED
          BY <2>2, <3>3, <4>1 DEF Request
      <3>4. ~LoginStep(r)
        BY <2>2, <2>3, <3>1, <3>2 DEF LoginStep, LoginReads, LoginVerifies, LoginInserts,
              LoginSelects, LoginEvicts, At, IInv, TypeOK, Request
      <3>5. ~RefreshStep(r)
        BY <2>3, <3>1, <3>2, <3>3 DEF RefreshStep, RefreshReads, RefreshValidates, RevokeTokenFamily,
              RotateRevokesOld, RotateInserts, At, Steps
      <3>6. ~LogoutStep(r)
        <4>1. ~\E s \in Sessions : LogoutStarts(r, s) \/ RevokeByUserStarts(r, s) \/ LogoutAllStarts(r, s)
          BY <2>3, <3>1 DEF LogoutStarts, RevokeByUserStarts, LogoutAllStarts
        <4>2. ~RevokeFinds(r)
          BY <2>3, <3>2, <3>3 DEF RevokeFinds, Continues, AfterRevoke, At, Steps
        <4>3. ~RevokeSaves(r) /\ ~Blacklists(r)
          BY <2>3, <3>2, <3>3 DEF RevokeSaves, Blacklists, Continues, AfterRevoke, At, Steps
        <4> QED
          BY <4>1, <4>2, <4>3 DEF LogoutStep
      <3>7. ~AccountStep(r)
        <4>1. ~ChangePasswordStarts(r)
          BY <2>3, <3>1 DEF ChangePasswordStarts
        <4>2. ~SetPassword(r)
          BY <2>2, <2>3 DEF SetPassword, At, IInv, TypeOK, Request
        <4>3. ~UpdateSaves(r)
          BY <2>3, <3>2, <3>3 DEF UpdateSaves, At, Steps
        <4>4. ~RevokeAllForUser(r) /\ ~IncrementPasswordVersion(r)
          BY <2>3, <3>2, <3>3 DEF RevokeAllForUser, IncrementPasswordVersion, Continues, AfterRevoke,
                AfterIncrement, At, Steps
        <4> QED
          BY <2>5, <4>1, <4>2, <4>3, <4>4 DEF AccountStep
      <3> QED
        BY <1>3, <2>1, <3>2, <3>4, <3>5, <3>6, <3>7 DEF RequestDies
    <2> QED
      BY <2>4, <2>5
  <1>4. ASSUME NEW s \in Sessions, Expires(s) PROVE UNCHANGED <<req, user>>
    BY <1>4 DEF Expires
  <1> QED
    BY <1>2, <1>3, <1>4 DEF Next, vars

\* One request at a time, cut short after any of its statements, update included: families are
\* chains, reuse ends them, a login applies the policy, an increased pv is for good and so is a
\* changed password, and the ledger's promises are kept.
THEOREM SerialSessions ==
    ASSUME OneSlot
    PROVE  Spec => /\ [](OneLivePerFamily /\ ReuseEndsFamily) /\ LoginAppliesPolicy
                   /\ [](LogoutAllIsForGood /\ OldPasswordOpensNothing) /\ ImplementsLedger
  <1>1. RefreshesApart /\ NothingAppears
    BY DEF OneSlot, RefreshesApart, NothingAppears
  <1>2. Init => IInv /\ UpdatesApart
    BY SessionsStart DEF Init, UpdatesApart, At
  <1>3. IInv /\ UpdatesApart /\ [Next]_vars => IInv' /\ UpdatesApart'
    BY SessionsStep, SlotKeepsUpdates
  <1>4. Spec => []UpdatesApart
    BY <1>2, <1>3, PTL DEF Spec
  <1> QED
    BY <1>1, <1>4, FamiliesAreChains, ReuseEndsIt, LoginKeepsPolicy, LogoutAllHolds, OldPasswordHolds,
       LedgerImplemented, PTL
===============================================================================
