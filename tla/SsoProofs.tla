------------------------------- MODULE SsoProofs -------------------------------
(***************************************************************************)
(* Theorems about Sso, for any number of accounts, identities, flows and    *)
(* requests, whatever the providers verify: who a callback signs in.        *)
(***************************************************************************)
EXTENDS Sso, TLAPS

-------------------------------------------------------------------------------
(***************************************************************************)
(* The inductive invariant.  A row of external_identities belongs to whom   *)
(* it was first linked to, for good, and that somebody is entitled to it; a *)
(* request that is past the lookup or the link has the row's owner in hand. *)
(***************************************************************************)

Credentialed(u) == u \in Users /\ account[u].password # "none"

Matched(a, p) == a \in Admins /\ p \in Verified /\ EmailOf[p] = account[a].email

Entitled(u, type, p) == IF type = "admin" THEN Matched(u, p) ELSE Credentialed(u)

AccountInv == \A u \in Users : account[u].password # "none" => account[u].exists

LinkInv ==
    \A type \in Types, p \in Identities :
        link[<<type, p>>].owner # NoUser => Entitled(link[<<type, p>>].owner, type, p)

StateInv == \A s \in States : state[s].bind # NoUser => Credentialed(state[s].bind)

\* The type of the row that a callback looks for.
LinkType(q) == IF q.bind THEN "user" ELSE q.app

FromFlow(q) ==
    /\ q.s \in States /\ q.flow \in States /\ q.p \in Identities
    /\ q.p \in Oidc => q.flow = q.s

Owns(q, type) == q.user # NoUser /\ link[<<type, q.p>>].owner = q.user

GoodRequest(q) ==
    /\ q.step = "new" => q = Fresh
    /\ q.s # NoState => state[q.s].kept = "spent" /\ q.bind = (state[q.s].bind # NoUser)
    /\ q.step = "find" => FromFlow(q) /\ ~q.bind
    /\ q.step \in {"create", "credential", "profile"} =>
        q.app = "user" /\ ~q.bind /\ (q.sso => FromFlow(q))
    /\ q.step = "credential" => q.user \in Users /\ account[q.user].exists
    /\ q.step = "profile" => Credentialed(q.user)
    /\ q.step \in {"link", "save", "insert"} => FromFlow(q) /\ Entitled(q.user, LinkType(q), q.p)
    /\ q.step = "save" => Owns(q, LinkType(q))
    /\ q.step \in {"enqueue", "gate", "session", "code"} => FromFlow(q) /\ ~q.bind /\ Owns(q, q.app)
    /\ q.step = "unlink" => q.p \in Identities /\ link[<<"user", q.p>>].owner # NoUser

\* The session of a request is of what the request has in hand, which stays as it is.
GoodSession(r) ==
    LET q == request[r] IN
    /\ q.step = "code" => session[r].opened # NoSession /\ code[r] = "none"
    /\ session[r].opened # NoSession =>
        /\ q.step \in {"code", "done"} /\ ~q.bind
        /\ FromFlow(q) /\ Owns(q, q.app)
        /\ session[r].opened = [user |-> q.user, app |-> q.app, s |-> q.s, flow |-> q.flow,
                                p |-> q.p]
    /\ handed[r] <= (IF code[r] = "spent" THEN 1 ELSE 0)

OneRequestPerFlow ==
    \A r, q \in Requests : request[r].s # NoState /\ request[r].s = request[q].s => r = q

SsoInv ==
    /\ TypeOK
    /\ AccountInv /\ LinkInv /\ StateInv
    /\ \A r \in Requests : GoodRequest(request[r]) /\ GoodSession(r)
    /\ OneRequestPerFlow
-------------------------------------------------------------------------------
(***************************************************************************)
(* What every step keeps for the requests that do not make it.              *)
(***************************************************************************)

\* Nobody loses a password, no row its owner, and a state that has been consumed stays so.
Grows ==
    /\ \A u \in Users : /\ account[u].exists => account'[u].exists
                        /\ account[u].password # "none" => account'[u].password # "none"
    /\ \A a \in Admins : account'[a].email = account[a].email
    /\ \A type \in Types, p \in Identities :
        link[<<type, p>>].owner # NoUser => link'[<<type, p>>].owner = link[<<type, p>>].owner
    /\ \A s \in States : state[s].kept = "spent" => state'[s] = state[s]

LEMMA EntitledStays ==
    ASSUME Grows, NEW u, NEW type, NEW p, Entitled(u, type, p)
    PROVE  Entitled(u, type, p)'
  BY DEF Grows, Entitled, Matched, Credentialed

LEMMA RequestStays ==
    ASSUME Grows, NEW q \in Request, GoodRequest(q)
    PROVE  GoodRequest(q)'
  <1>1. q.app \in Types /\ LinkType(q) \in Types /\ "user" \in Types
    BY DEF Request, LinkType, Types
  <1>2. Entitled(q.user, LinkType(q), q.p) => Entitled(q.user, LinkType(q), q.p)'
    BY EntitledStays
  <1>3. q.s # NoState => q.s \in States
    BY DEF Request
  <1>4. \A type \in Types : FromFlow(q) /\ Owns(q, type) => Owns(q, type)'
    BY DEF Grows, FromFlow, Owns
  <1>5. q.s # NoState /\ state[q.s].kept = "spent"
        => state'[q.s] = state[q.s]
    BY <1>3 DEF Grows
  <1>6. q.step = "profile" => Credentialed(q.user)'
    BY DEF GoodRequest, Credentialed, Grows
  <1>7. q.step = "unlink" => q.p \in Identities /\ link'[<<"user", q.p>>].owner # NoUser
    BY <1>1 DEF GoodRequest, Grows
  <1>8. q.step = "credential" => q.user \in Users /\ account'[q.user].exists
    BY DEF GoodRequest, Grows
  <1> QED
    BY <1>1, <1>2, <1>4, <1>5, <1>6, <1>7, <1>8 DEF GoodRequest, FromFlow

LEMMA SsoFrame ==
    ASSUME SsoInv, Grows, TypeOK', AccountInv', LinkInv', StateInv', NEW r \in Requests,
           \A q \in Requests \ {r} :
               /\ request'[q] = request[q] /\ session'[q] = session[q] /\ code'[q] = code[q]
               /\ handed'[q] = handed[q],
           GoodRequest(request[r])', GoodSession(r)',
           request'[r].s # NoState /\ request'[r].s # request[r].s
           => \A q \in Requests : request[q].s # request'[r].s
    PROVE  SsoInv'
  <1>1. ASSUME NEW q \in Requests \ {r} PROVE (GoodRequest(request[q]) /\ GoodSession(q))'
    <2>1. request'[q] = request[q] /\ request[q] \in Request /\ GoodRequest(request[q])
          /\ GoodSession(q)
      BY DEF SsoInv, TypeOK
    <2>2. GoodRequest(request[q])'
      BY <2>1, RequestStays DEF GoodRequest
    <2>3. request[q].app \in Types
      BY <2>1 DEF Request
    <2>4. FromFlow(request[q]) /\ Owns(request[q], request[q].app)
          => link'[<<request[q].app, request[q].p>>].owner = request[q].user
      BY <2>3 DEF Grows, Owns, FromFlow
    <2>5. GoodSession(q)'
      BY <2>1, <2>4 DEF GoodSession, FromFlow, Owns
    <2> QED
      BY <2>2, <2>5
  <1>2. OneRequestPerFlow'
    BY DEF SsoInv, OneRequestPerFlow
  <1> QED
    BY <1>1, <1>2 DEF SsoInv

\* A step that changes nothing but a request.
LEMMA RequestMoves ==
    ASSUME SsoInv, NEW r \in Requests, NEW q \in Request, request' = [request EXCEPT ![r] = q],
           UNCHANGED <<account, link, state, session, code, handed>>,
           GoodRequest(q), session[r].opened = NoSession, q.step # "code",
           q.s # NoState => q.s = request[r].s
    PROVE  SsoInv'
  <1>1. request' \in [Requests -> Request] /\ request'[r] = q
        /\ \A p \in Requests \ {r} : request'[p] = request[p]
    BY DEF SsoInv, TypeOK
  <1>2. TypeOK'
    BY <1>1 DEF SsoInv, TypeOK
  <1>3. Grows
    BY DEF Grows
  <1>4. AccountInv' /\ LinkInv' /\ StateInv'
    BY DEF SsoInv, AccountInv, LinkInv, StateInv, Entitled, Matched, Credentialed
  <1>5. GoodRequest(request[r])'
    BY <1>1, <1>3, RequestStays
  <1>6. GoodSession(r)'
    BY <1>1 DEF SsoInv, GoodSession
  <1> QED
    BY <1>1, <1>2, <1>3, <1>4, <1>5, <1>6, SsoFrame

LEMMA Going ==
    ASSUME SsoInv, NEW r \in Requests, NEW step \in Steps
    PROVE  LET q == [request[r] EXCEPT !.step = step] IN
           /\ q \in Request
           /\ q.step = step /\ q.app = request[r].app /\ q.s = request[r].s
           /\ q.flow = request[r].flow /\ q.p = request[r].p /\ q.user = request[r].user
           /\ q.bind = request[r].bind /\ q.sso = request[r].sso
           /\ Goes(r, step) => request' = [request EXCEPT ![r] = q]
  <1> DEFINE q == [request[r] EXCEPT !.step = step]
  <1>1. request[r] \in Request
    BY DEF SsoInv, TypeOK
  <1>2. /\ q \in Request
        /\ q.step = step /\ q.app = request[r].app /\ q.s = request[r].s
        /\ q.flow = request[r].flow /\ q.p = request[r].p /\ q.user = request[r].user
        /\ q.bind = request[r].bind /\ q.sso = request[r].sso
    BY <1>1 DEF Request
  <1>3. Goes(r, step) => request' = [request EXCEPT ![r] = q]
    BY DEF Goes
  <1> QED
    BY <1>2, <1>3

\* Whatever a request has done, it may end; one that has a session keeps what it has in hand.
LEMMA RequestEnds ==
    ASSUME SsoInv, NEW r \in Requests, Goes(r, "done"), code' \in [Requests -> {"none", "issued", "spent"}],
           \A q \in Requests : code'[q] # "none" => session[q].opened # NoSession,
           \A q \in Requests \ {r} : code'[q] = code[q],
           code[r] = "spent" => code'[r] = "spent",
           UNCHANGED <<account, link, state, session, handed>>
    PROVE  SsoInv'
  <1> DEFINE q == [request[r] EXCEPT !.step = "done"]
  <1>0. "done" \in Steps
    BY DEF Steps
  <1>1. q \in Request /\ request' = [request EXCEPT ![r] = q] /\ q.step = "done"
        /\ q.app = request[r].app /\ q.s = request[r].s /\ q.flow = request[r].flow
        /\ q.p = request[r].p /\ q.user = request[r].user /\ q.bind = request[r].bind
    BY <1>0, Going
  <1> HIDE DEF q
  <1>2. request' \in [Requests -> Request] /\ request'[r] = q
        /\ \A p \in Requests \ {r} : request'[p] = request[p]
    BY <1>1 DEF SsoInv, TypeOK
  <1>3. TypeOK'
    BY <1>2 DEF SsoInv, TypeOK
  <1>4. Grows
    BY DEF Grows
  <1>5. AccountInv' /\ LinkInv' /\ StateInv'
    BY DEF SsoInv, AccountInv, LinkInv, StateInv, Entitled, Matched, Credentialed
  <1>6. GoodRequest(q)
    <2>1. GoodRequest(request[r])
      BY DEF SsoInv
    <2>2. q.s # NoState => state[q.s].kept = "spent" /\ q.bind = (state[q.s].bind # NoUser)
      BY <1>1, <2>1 DEF GoodRequest
    <2> QED
      BY <1>1, <2>2 DEF GoodRequest
  <1>7. GoodRequest(request[r])'
    BY <1>1, <1>2, <1>4, <1>6, RequestStays
  <1>8. GoodSession(r)'
    <2>1. GoodSession(r) /\ handed[r] \in Nat
      BY DEF SsoInv, TypeOK
    <2> QED
      BY <1>1, <1>2, <2>1 DEF GoodSession, FromFlow, Owns
  <1> QED
    BY <1>1, <1>2, <1>3, <1>4, <1>5, <1>7, <1>8, SsoFrame

\* A step that is of no request.
LEMMA SsoAround ==
    ASSUME SsoInv, Grows, TypeOK', AccountInv', LinkInv', StateInv',
           UNCHANGED <<request, session, code, handed>>
    PROVE  SsoInv'
  <1>1. ASSUME NEW q \in Requests PROVE (GoodRequest(request[q]) /\ GoodSession(q))'
    <2>1. request'[q] = request[q] /\ request[q] \in Request /\ GoodRequest(request[q])
          /\ GoodSession(q)
      BY DEF SsoInv, TypeOK
    <2>2. GoodRequest(request[q])'
      BY <2>1, RequestStays DEF GoodRequest
    <2>3. request[q].app \in Types
      BY <2>1 DEF Request
    <2>4. FromFlow(request[q]) /\ Owns(request[q], request[q].app)
          => link'[<<request[q].app, request[q].p>>].owner = request[q].user
      BY <2>3 DEF Grows, Owns, FromFlow
    <2>5. GoodSession(q)'
      BY <2>1, <2>4 DEF GoodSession, FromFlow, Owns
    <2> QED
      BY <2>2, <2>5
  <1>2. OneRequestPerFlow'
    BY DEF SsoInv, OneRequestPerFlow
  <1> QED
    BY <1>1, <1>2 DEF SsoInv

\* What is known of a request at one of the steps before its session.
LEMMA RequestFacts ==
    ASSUME SsoInv, NEW r \in Requests
    PROVE  /\ request[r] \in Request /\ GoodRequest(request[r])
           /\ request[r].step \notin {"code", "done"} => session[r].opened = NoSession
           /\ LinkKey(r) = <<LinkType(request[r]), request[r].p>>
           /\ LinkType(request[r]) \in Types /\ request[r].app \in Types
  BY DEF SsoInv, TypeOK, GoodSession, LinkKey, LinkType, Types, Request

LEMMA OwnersAreEntitled ==
    ASSUME SsoInv, NEW type \in Types, NEW p \in Identities,
           link[<<type, p>>].kept # "none"
    PROVE  /\ link[<<type, p>>].owner # NoUser
           /\ link[<<type, p>>].owner \in Subjects
           /\ Entitled(link[<<type, p>>].owner, type, p)
  <1>1. <<type, p>> \in Types \X Identities
    OBVIOUS
  <1>2. link[<<type, p>>] \in Link
    BY <1>1 DEF SsoInv, TypeOK
  <1>3. link[<<type, p>>].owner # NoUser
    BY <1>1 DEF SsoInv, TypeOK
  <1> QED
    BY <1>2, <1>3 DEF SsoInv, LinkInv, Link

LEMMA CallbackFinds ==
    ASSUME SsoInv, NEW r \in Requests, FindsIdentity(r) \/ MatchesAdmin(r) \/ MayRegister(r)
    PROVE  SsoInv'
  <1>1. /\ request[r] \in Request /\ request[r].step = "find" /\ GoodRequest(request[r])
        /\ session[r].opened = NoSession /\ LinkKey(r) = <<request[r].app, request[r].p>>
        /\ request[r].app \in Types /\ FromFlow(request[r]) /\ ~request[r].bind
    BY RequestFacts DEF FindsIdentity, MatchesAdmin, MayRegister, At, GoodRequest, LinkType
  <1>2. CASE FindsIdentity(r)
    <2> DEFINE owner == link[LinkKey(r)].owner
               q == [request[r] EXCEPT !.step = "enqueue", !.user = owner]
    <2>1. owner # NoUser /\ owner \in Subjects
      BY <1>1, <1>2, OwnersAreEntitled DEF FindsIdentity, FromFlow
    <2>2. /\ q \in Request /\ q.step = "enqueue" /\ q.app = request[r].app /\ q.s = request[r].s
          /\ q.flow = request[r].flow /\ q.p = request[r].p /\ q.user = owner /\ q.bind = request[r].bind
      <3> HIDE DEF owner
      <3> QED
        BY <1>1, <2>1 DEF Request, Steps
    <2>3. request' = [request EXCEPT ![r] = q]
      BY <1>2 DEF FindsIdentity
    <2>4. link[<<q.app, q.p>>].owner = q.user
      BY <1>1, <2>2
    <2> HIDE DEF q, owner
    <2>5. GoodRequest(q)
      BY <1>1, <2>1, <2>2, <2>4 DEF GoodRequest, FromFlow, Owns
    <2> QED
      BY <1>1, <1>2, <2>2, <2>3, <2>5, RequestMoves DEF FindsIdentity
  <1>3. CASE MatchesAdmin(r)
    <2>1. PICK a \in AdminsNamed(request[r].p) :
              request' = [request EXCEPT ![r].step = "link", ![r].user = a]
      BY <1>3 DEF MatchesAdmin
    <2> DEFINE q == [request[r] EXCEPT !.step = "link", !.user = a]
    <2>2. Matched(a, request[r].p)
      BY <2>1 DEF AdminsNamed, Matched
    <2>3. /\ q \in Request /\ q.step = "link" /\ q.app = request[r].app /\ q.s = request[r].s
          /\ q.flow = request[r].flow /\ q.p = request[r].p /\ q.user = a /\ q.bind = request[r].bind
      BY <1>1, <2>2 DEF Request, Steps, Matched, Subjects
    <2>4. request' = [request EXCEPT ![r] = q]
      BY <2>1
    <2> HIDE DEF q
    <2>5. Entitled(q.user, LinkType(q), q.p)
      BY <1>1, <1>3, <2>2, <2>3 DEF Entitled, LinkType, MatchesAdmin
    <2>6. GoodRequest(q)
      BY <1>1, <2>3, <2>5 DEF GoodRequest, FromFlow
    <2> QED
      BY <1>1, <1>3, <2>3, <2>4, <2>6, RequestMoves DEF MatchesAdmin
  <1>4. CASE MayRegister(r)
    <2> DEFINE q == [request[r] EXCEPT !.step = "create", !.sso = TRUE]
    <2>1. /\ q \in Request /\ q.step = "create" /\ q.app = request[r].app /\ q.s = request[r].s
          /\ q.flow = request[r].flow /\ q.p = request[r].p /\ q.user = request[r].user
          /\ q.bind = request[r].bind
      BY <1>1 DEF Request, Steps
    <2>2. request' = [request EXCEPT ![r] = q]
      BY <1>4 DEF MayRegister
    <2> HIDE DEF q
    <2>3. GoodRequest(q)
      BY <1>1, <1>4, <2>1 DEF GoodRequest, FromFlow, MayRegister
    <2> QED
      BY <1>1, <1>4, <2>1, <2>2, <2>3, RequestMoves DEF MayRegister
  <1> QED
    BY <1>2, <1>3, <1>4

\* A request that goes on with what it has in hand.
LEMMA RequestGoesOn ==
    ASSUME SsoInv, NEW r \in Requests, NEW step \in Steps \ {"new", "code"}, Goes(r, step),
           request[r].step \notin {"code", "done"},
           GoodRequest([request[r] EXCEPT !.step = step]),
           UNCHANGED <<account, link, state, session, code, handed>>
    PROVE  SsoInv'
  <1> DEFINE q == [request[r] EXCEPT !.step = step]
  <1>1. q \in Request /\ q.step = step /\ q.s = request[r].s /\ request' = [request EXCEPT ![r] = q]
    BY Going
  <1>2. GoodRequest(q) /\ session[r].opened = NoSession
    BY RequestFacts
  <1> HIDE DEF q
  <1> QED
    BY <1>1, <1>2, RequestMoves

LEMMA LinkGoesOn ==
    ASSUME SsoInv, NEW r \in Requests,
           LinkFinds(r) \/ LinkMisses(r) \/ EnqueuesSync(r) \/ PassesGate(r)
    PROVE  SsoInv'
  <1>0. {"save", "insert", "gate", "session"} \subseteq Steps \ {"new", "code"}
        /\ UNCHANGED <<account, link, state, session, code, handed>>
    BY DEF Steps, LinkFinds, LinkMisses, EnqueuesSync, PassesGate
  <1>1. /\ GoodRequest(request[r]) /\ request[r].step \notin {"code", "done"}
        /\ LinkKey(r) = <<LinkType(request[r]), request[r].p>> /\ LinkType(request[r]) \in Types
    BY RequestFacts DEF LinkFinds, LinkMisses, EnqueuesSync, PassesGate, At
  <1>2. CASE LinkFinds(r)
    <2> DEFINE q == [request[r] EXCEPT !.step = "save"]
    <2>1. /\ q.step = "save" /\ q.app = request[r].app /\ q.s = request[r].s
          /\ q.flow = request[r].flow /\ q.p = request[r].p /\ q.user = request[r].user
          /\ q.bind = request[r].bind
      BY <1>0, Going
    <2>2. request[r].step = "link" /\ link[LinkKey(r)].kept = "active"
          /\ link[LinkKey(r)].owner = request[r].user /\ Goes(r, "save")
      BY <1>2 DEF LinkFinds, At
    <2>3. FromFlow(request[r]) /\ Entitled(request[r].user, LinkType(request[r]), request[r].p)
      BY <1>1, <2>2 DEF GoodRequest
    <2>4. Owns(request[r], LinkType(request[r]))
      BY <1>1, <2>2, <2>3, OwnersAreEntitled DEF Owns, FromFlow
    <2> HIDE DEF q
    <2>5. GoodRequest(q)
      BY <1>1, <2>1, <2>3, <2>4 DEF GoodRequest, FromFlow, LinkType, Owns
    <2> QED
      BY <1>0, <1>1, <2>2, <2>5, RequestGoesOn DEF q
  <1>3. CASE LinkMisses(r)
    <2> DEFINE q == [request[r] EXCEPT !.step = "insert"]
    <2>1. /\ q.step = "insert" /\ q.app = request[r].app /\ q.s = request[r].s
          /\ q.flow = request[r].flow /\ q.p = request[r].p /\ q.user = request[r].user
          /\ q.bind = request[r].bind
      BY <1>0, Going
    <2>2. request[r].step = "link" /\ Goes(r, "insert")
      BY <1>3 DEF LinkMisses, At
    <2> HIDE DEF q
    <2>5. GoodRequest(q)
      BY <1>1, <2>1, <2>2 DEF GoodRequest, FromFlow, LinkType
    <2> QED
      BY <1>0, <1>1, <2>2, <2>5, RequestGoesOn DEF q
  <1>4. CASE EnqueuesSync(r)
    <2> DEFINE q == [request[r] EXCEPT !.step = "gate"]
    <2>1. /\ q.step = "gate" /\ q.app = request[r].app /\ q.s = request[r].s
          /\ q.flow = request[r].flow /\ q.p = request[r].p /\ q.user = request[r].user
          /\ q.bind = request[r].bind
      BY <1>0, Going
    <2>2. request[r].step = "enqueue" /\ Goes(r, "gate")
      BY <1>4 DEF EnqueuesSync, At
    <2> HIDE DEF q
    <2>5. GoodRequest(q)
      BY <1>1, <2>1, <2>2 DEF GoodRequest, FromFlow, Owns
    <2> QED
      BY <1>0, <1>1, <2>2, <2>5, RequestGoesOn DEF q
  <1>5. CASE PassesGate(r)
    <2> DEFINE q == [request[r] EXCEPT !.step = "session"]
    <2>1. /\ q.step = "session" /\ q.app = request[r].app /\ q.s = request[r].s
          /\ q.flow = request[r].flow /\ q.p = request[r].p /\ q.user = request[r].user
          /\ q.bind = request[r].bind
      BY <1>0, Going
    <2>2. request[r].step = "gate" /\ Goes(r, "session")
      BY <1>5 DEF PassesGate, At
    <2> HIDE DEF q
    <2>5. GoodRequest(q)
      BY <1>1, <2>1, <2>2 DEF GoodRequest, FromFlow, Owns
    <2> QED
      BY <1>0, <1>1, <2>2, <2>5, RequestGoesOn DEF q
  <1> QED
    BY <1>2, <1>3, <1>4, <1>5

\* Requests that are refused, fail or die.
LEMMA RequestOver ==
    ASSUME SsoInv, NEW r \in Requests,
           \/ Rejects(r) \/ RefusesUser(r) \/ LinkRefuses(r) \/ LinkFails(r) \/ FailsGate(r)
           \/ RequestDies(r) \/ IssueCode(r)
    PROVE  SsoInv'
  <1>1. Goes(r, "done") /\ UNCHANGED <<account, link, state, session, handed>>
        /\ (code' = code \/ (At(r, "code") /\ code' = [code EXCEPT ![r] = "issued"]))
    BY DEF Rejects, RefusesUser, LinkRefuses, LinkFails, FailsGate, RequestDies, IssueCode
  <1>2. code \in [Requests -> {"none", "issued", "spent"}]
        /\ \A q \in Requests : code[q] # "none" => session[q].opened # NoSession
    BY DEF SsoInv, TypeOK
  <1>3. /\ code' \in [Requests -> {"none", "issued", "spent"}]
        /\ \A q \in Requests \ {r} : code'[q] = code[q]
        /\ code'[r] = code[r] \/ (At(r, "code") /\ code'[r] = "issued")
    BY <1>1, <1>2
  <1>4. At(r, "code") => session[r].opened # NoSession /\ code[r] = "none"
    BY DEF SsoInv, GoodSession, At
  <1>5. \A q \in Requests : code'[q] # "none" => session[q].opened # NoSession
    BY <1>2, <1>3, <1>4
  <1> QED
    BY <1>1, <1>3, <1>4, <1>5, RequestEnds

\* Accounts and entitlements after a step that leaves the accounts alone, or adds to them.
LEMMA GrowingKeeps ==
    ASSUME SsoInv, Grows, UNCHANGED <<link, state>>
    PROVE  LinkInv' /\ StateInv'
  <1>1. LinkInv'
    <2> SUFFICES ASSUME NEW type \in Types, NEW p \in Identities, link[<<type, p>>].owner # NoUser
                 PROVE  Entitled(link[<<type, p>>].owner, type, p)'
      BY DEF LinkInv
    <2>1. Entitled(link[<<type, p>>].owner, type, p)
      BY DEF SsoInv, LinkInv
    <2>2. \A u : Entitled(u, type, p) => Entitled(u, type, p)'
      BY EntitledStays
    <2> QED
      BY <2>1, <2>2
  <1>2. StateInv'
    BY DEF SsoInv, StateInv, Credentialed, Grows
  <1> QED
    BY <1>1, <1>2

LEMMA RegisterKeeps ==
    ASSUME SsoInv, NEW r \in Requests, RegisterStep(r)
    PROVE  SsoInv'
  <1>0. {"create", "credential", "profile", "link", "done"} \subseteq Steps
        /\ request \in [Requests -> Request] /\ account \in [Subjects -> Account]
        /\ Users \subseteq Subjects /\ Admins \subseteq Subjects
    BY DEF Steps, SsoInv, TypeOK, Subjects
  <1>1. request[r] \in Request /\ GoodRequest(request[r]) /\ NoState \notin States
        /\ (request[r].step \notin {"code", "done"} => session[r].opened = NoSession)
    BY RequestFacts, NullAssumption
  <1>2. CASE RegisterStarts(r)
    <2> DEFINE q == [request[r] EXCEPT !.step = "create"]
    <2>1. /\ q.step = "create" /\ q.app = request[r].app /\ q.s = request[r].s
          /\ q.bind = request[r].bind /\ q.sso = request[r].sso
      BY <1>0, Going
    <2>2. request[r].step = "new" /\ Goes(r, "create") /\ request[r] = Fresh
      BY <1>1, <1>2 DEF RegisterStarts, At, Goes, GoodRequest
    <2> HIDE DEF q
    <2>3. GoodRequest(q)
      BY <2>1, <2>2 DEF GoodRequest, Fresh
    <2> QED
      BY <1>0, <1>2, <2>2, <2>3, RequestGoesOn DEF q, RegisterStarts
  <1>3. ASSUME NEW u \in Users, NEW email \in Emails \cup {NoEmail}, CreateUser(r, u, email)
        PROVE  SsoInv'
    <2> DEFINE new == [exists |-> TRUE, email |-> email, password |-> "none", active |-> TRUE]
               q == [request[r] EXCEPT !.step = "credential", !.user = u]
    <2>1. /\ q \in Request /\ q.step = "credential" /\ q.app = request[r].app /\ q.s = request[r].s
          /\ q.flow = request[r].flow /\ q.p = request[r].p /\ q.user = u /\ q.bind = request[r].bind
          /\ q.sso = request[r].sso
      BY <1>0, <1>1 DEF Request
    <2>2. new \in Account /\ new.exists = TRUE /\ new.password = "none"
      BY DEF Account, Passwords
    <2>3. /\ request[r].step = "create" /\ ~account[u].exists
          /\ account' = [account EXCEPT ![u] = new] /\ request' = [request EXCEPT ![r] = q]
          /\ UNCHANGED <<link, state, session, code, handed>>
      BY <1>3 DEF CreateUser, At
    <2> HIDE DEF new, q
    <2>4. account' \in [Subjects -> Account] /\ account'[u] = new
          /\ \A v \in Subjects \ {u} : account'[v] = account[v]
      BY <1>0, <2>2, <2>3
    <2>5. request' \in [Requests -> Request] /\ request'[r] = q
          /\ \A p \in Requests \ {r} : request'[p] = request[p]
      BY <1>0, <2>1, <2>3
    <2>6. account[u].password = "none"
      BY <2>3 DEF SsoInv, AccountInv
    <2>7. Grows
      BY <1>0, <2>2, <2>3, <2>4, <2>6, SsoAssumption DEF Grows
    <2>8. TypeOK' /\ AccountInv'
      BY <1>0, <2>2, <2>3, <2>4, <2>5 DEF SsoInv, TypeOK, AccountInv
    <2>9. LinkInv' /\ StateInv'
      BY <2>3, <2>7, GrowingKeeps
    <2>10. GoodRequest(request[r])'
      <3>1. q.s # NoState => state'[q.s].kept = "spent" /\ q.bind = (state'[q.s].bind # NoUser)
        BY <1>1, <2>1, <2>3 DEF GoodRequest
      <3>2. q.app = "user" /\ ~q.bind /\ (q.sso => FromFlow(q))
        BY <1>1, <2>1, <2>3 DEF GoodRequest, FromFlow
      <3>3. q.user \in Users /\ account'[q.user].exists
        BY <2>1, <2>2, <2>4
      <3> QED
        BY <2>1, <2>5, <3>1, <3>2, <3>3 DEF GoodRequest, FromFlow
    <2>11. GoodSession(r)'
      BY <1>1, <2>1, <2>3, <2>5 DEF SsoInv, GoodSession
    <2> QED
      BY <2>1, <2>3, <2>5, <2>7, <2>8, <2>9, <2>10, <2>11, SsoFrame
  <1>4. CASE SetCredential(r)
    <2> DEFINE u == request[r].user
               password == IF request[r].sso THEN "placeholder" ELSE "chosen"
               new == [account[u] EXCEPT !.password = password]
               q == [request[r] EXCEPT !.step = "profile"]
    <2>1. /\ q \in Request /\ q.step = "profile" /\ q.app = request[r].app /\ q.s = request[r].s
          /\ q.flow = request[r].flow /\ q.p = request[r].p /\ q.user = u /\ q.bind = request[r].bind
          /\ q.sso = request[r].sso
      BY <1>0, <1>1, Going
    <2>2. request[r].step = "credential" /\ request' = [request EXCEPT ![r] = q]
          /\ account' = [account EXCEPT ![u] = new]
          /\ UNCHANGED <<link, state, session, code, handed>>
      BY <1>4 DEF SetCredential, At, Goes
    <2>3. u \in Users /\ account[u].exists /\ account[u] \in Account
      BY <1>0, <1>1, <2>2 DEF GoodRequest
    <2>4. new \in Account /\ new.exists = account[u].exists /\ new.email = account[u].email
          /\ new.password # "none"
      BY <2>3 DEF Account, Passwords
    <2> HIDE DEF new, q, password
    <2>5. account' \in [Subjects -> Account] /\ account'[u] = new
          /\ \A v \in Subjects \ {u} : account'[v] = account[v]
      BY <1>0, <2>2, <2>3, <2>4
    <2>6. request' \in [Requests -> Request] /\ request'[r] = q
          /\ \A p \in Requests \ {r} : request'[p] = request[p]
      BY <1>0, <2>1, <2>2
    <2>7. Grows
      BY <1>0, <2>2, <2>3, <2>4, <2>5, SsoAssumption DEF Grows
    <2>8. TypeOK' /\ AccountInv'
      BY <1>0, <2>2, <2>3, <2>4, <2>5, <2>6 DEF SsoInv, TypeOK, AccountInv
    <2>9. LinkInv' /\ StateInv'
      BY <2>2, <2>7, GrowingKeeps
    <2>10. GoodRequest(request[r])'
      <3>1. q.s # NoState => state'[q.s].kept = "spent" /\ q.bind = (state'[q.s].bind # NoUser)
        BY <1>1, <2>1, <2>2 DEF GoodRequest
      <3>2. q.app = "user" /\ ~q.bind /\ (q.sso => FromFlow(q))
        BY <1>1, <2>1, <2>2 DEF GoodRequest, FromFlow
      <3>3. q.user \in Users /\ account'[q.user].password # "none"
        BY <2>1, <2>3, <2>4, <2>5
      <3> QED
        BY <2>1, <2>6, <3>1, <3>2, <3>3 DEF GoodRequest, FromFlow, Credentialed
    <2>11. GoodSession(r)'
      BY <1>1, <2>1, <2>2, <2>6 DEF SsoInv, GoodSession
    <2> QED
      BY <2>1, <2>2, <2>6, <2>7, <2>8, <2>9, <2>10, <2>11, SsoFrame
  <1>5. CASE SavesProfile(r)
    <2>1. request[r].step = "profile" /\ Goes(r, IF request[r].sso THEN "link" ELSE "done")
          /\ UNCHANGED <<account, link, state, session, code, handed>>
      BY <1>5 DEF SavesProfile, At
    <2>2. CASE request[r].sso
      <3> DEFINE q == [request[r] EXCEPT !.step = "link"]
      <3>1. /\ q.step = "link" /\ q.app = request[r].app /\ q.s = request[r].s
            /\ q.flow = request[r].flow /\ q.p = request[r].p /\ q.user = request[r].user
            /\ q.bind = request[r].bind
        BY <1>0, Going
      <3> HIDE DEF q
      <3>2. GoodRequest(q)
        BY <1>1, <2>1, <2>2, <3>1 DEF GoodRequest, FromFlow, Entitled, LinkType
      <3> QED
        BY <1>0, <2>1, <2>2, <3>2, RequestGoesOn DEF q
    <2>3. CASE ~request[r].sso
      <3>1. Goes(r, "done")
        BY <2>1, <2>3
      <3> QED
        BY <2>1, <3>1, RequestEnds DEF SsoInv, TypeOK
    <2> QED
      BY <2>2, <2>3
  <1> QED
    BY <1>2, <1>3, <1>4, <1>5, RequestOver DEF RegisterStep

\* save(), the INSERT and softRemove: a row changes, its owner only from nobody to somebody.
LEMMA LinkKeeps ==
    ASSUME SsoInv, NEW r \in Requests, NEW type \in Types, NEW p \in Identities, NEW row \in Link,
           link' = [link EXCEPT ![<<type, p>>] = row],
           row.kept # "none", row.owner # NoUser,
           link[<<type, p>>].kept # "none" => row.owner = link[<<type, p>>].owner,
           Entitled(row.owner, type, p),
           NEW step \in Steps \ {"new", "code"}, Goes(r, step), request[r].step \notin {"code", "done"},
           GoodRequest(request[r])',
           UNCHANGED <<account, state, session, code, handed>>
    PROVE  SsoInv'
  <1> DEFINE q == [request[r] EXCEPT !.step = step]
  <1>1. q \in Request /\ q.step = step /\ q.s = request[r].s /\ request' = [request EXCEPT ![r] = q]
    BY Going
  <1>2. session[r].opened = NoSession
    BY RequestFacts
  <1> HIDE DEF q
  <1>3. request' \in [Requests -> Request] /\ request'[r] = q
        /\ \A z \in Requests \ {r} : request'[z] = request[z]
    BY <1>1 DEF SsoInv, TypeOK
  <1>4. /\ link' \in [Types \X Identities -> Link] /\ link'[<<type, p>>] = row
        /\ \A key \in (Types \X Identities) \ {<<type, p>>} : link'[key] = link[key]
    BY DEF SsoInv, TypeOK
  <1>5. TypeOK'
    BY <1>3, <1>4 DEF SsoInv, TypeOK
  <1>6. Grows
    BY <1>4 DEF Grows, SsoInv, TypeOK
  <1>7. AccountInv' /\ StateInv'
    BY DEF SsoInv, AccountInv, StateInv, Credentialed
  <1>8. LinkInv'
    BY <1>4 DEF SsoInv, LinkInv, Entitled, Matched, Credentialed
  <1>9. GoodSession(r)'
    BY <1>1, <1>2, <1>3 DEF SsoInv, GoodSession
  <1> QED
    BY <1>1, <1>3, <1>5, <1>6, <1>7, <1>8, <1>9, SsoFrame

LEMMA LinkWrites ==
    ASSUME SsoInv, NEW r \in Requests, LinkSaves(r) \/ LinkInserts(r) \/ UnlinkRemoves(r)
    PROVE  SsoInv'
  <1>0. {"done", "enqueue"} \subseteq Steps \ {"new", "code"} /\ request \in [Requests -> Request]
        /\ "user" \in Types
        /\ link \in [Types \X Identities -> Link] /\ NoUser \notin Subjects /\ NoState \notin States
    BY NullAssumption DEF Steps, Types, SsoInv, TypeOK
  <1>1. /\ request[r] \in Request /\ GoodRequest(request[r]) /\ request[r].step \notin {"code", "done"}
        /\ LinkKey(r) = <<LinkType(request[r]), request[r].p>> /\ LinkType(request[r]) \in Types
    BY RequestFacts DEF LinkSaves, LinkInserts, UnlinkRemoves, At
  <1>2. \A u, type, p : Entitled(u, type, p) => u \in Subjects
    BY DEF Entitled, Matched, Credentialed, Subjects
  <1> DEFINE type == LinkType(request[r])
             p == request[r].p
             user == request[r].user
  <1>3. CASE LinkSaves(r) \/ LinkInserts(r)
    <2> DEFINE next == IF request[r].bind THEN "done" ELSE "enqueue"
               row == IF LinkSaves(r) THEN [link[<<type, p>>] EXCEPT !.kept = "active"]
                      ELSE [kept |-> "active", owner |-> user]
               q == [request[r] EXCEPT !.step = next]
    <2>1. FromFlow(request[r]) /\ Entitled(user, type, p) /\ p \in Identities /\ user \in Subjects
      BY <1>1, <1>2, <1>3 DEF GoodRequest, LinkSaves, LinkInserts, At, FromFlow
    <2>2. Goes(r, next) /\ next \in Steps \ {"new", "code"}
          /\ UNCHANGED <<account, state, session, code, handed>>
      BY <1>0, <1>3 DEF LinkSaves, LinkInserts, Linked
    <2>3. link' = [link EXCEPT ![<<type, p>>] = row]
      BY <1>1, <1>3 DEF LinkSaves, LinkInserts
    <2>4. LinkSaves(r) => link[<<type, p>>].owner = user
      BY <1>1 DEF LinkSaves, At, GoodRequest, Owns
    <2>5. ~LinkSaves(r) => link[<<type, p>>].kept = "none"
      BY <1>1, <1>3 DEF LinkInserts
    <2>6. row \in Link /\ row.kept = "active" /\ row.owner = user
      BY <1>0, <1>1, <2>1, <2>4 DEF Link
    <2>7. /\ q \in Request /\ q.step = next /\ q.app = request[r].app /\ q.s = request[r].s
          /\ q.flow = request[r].flow /\ q.p = p /\ q.user = user /\ q.bind = request[r].bind
          /\ request' = [request EXCEPT ![r] = q]
      BY <2>2, Going
    <2>8. link'[<<type, p>>] = row
      BY <1>0, <1>1, <2>1, <2>3
    <2>9. request'[r] = q
      BY <1>0, <2>7
    <2> HIDE DEF q, row
    <2>10. GoodRequest(request[r])'
      <3>1. q.s # NoState => state'[q.s].kept = "spent" /\ q.bind = (state'[q.s].bind # NoUser)
        BY <1>1, <2>2, <2>7 DEF GoodRequest
      <3>2. FromFlow(q)
        BY <2>1, <2>7 DEF FromFlow
      <3>3. next = "enqueue" => ~q.bind /\ link'[<<q.app, q.p>>].owner = q.user /\ q.user # NoUser
        BY <1>0, <2>1, <2>6, <2>7, <2>8 DEF LinkType
      <3> HIDE DEF next
      <3>4. next \in {"done", "enqueue"}
        BY DEF next
      <3> QED
        BY <2>7, <2>9, <3>1, <3>2, <3>3, <3>4 DEF GoodRequest, FromFlow, Owns
    <2> HIDE DEF next, type, p, user
    <2>11. link[<<type, p>>].kept # "none" => row.owner = link[<<type, p>>].owner
      BY <2>4, <2>5, <2>6
    <2>12. row.owner # NoUser /\ row.kept # "none" /\ Entitled(row.owner, type, p)
      BY <1>0, <2>1, <2>6
    <2>13. type \in Types
      BY <1>1 DEF type
    <2> QED
      BY <1>1, <2>1, <2>2, <2>3, <2>6, <2>10, <2>11, <2>12, <2>13, LinkKeeps
  <1>4. CASE UnlinkRemoves(r)
    <2> DEFINE row == [link[<<"user", p>>] EXCEPT !.kept = "deleted"]
               q == [request[r] EXCEPT !.step = "done"]
    <2>1. p \in Identities /\ link[<<"user", p>>].owner # NoUser
      BY <1>1, <1>4 DEF GoodRequest, UnlinkRemoves, At
    <2>2. Goes(r, "done") /\ link' = [link EXCEPT ![<<"user", p>>] = row]
          /\ UNCHANGED <<account, state, session, code, handed>>
      BY <1>4 DEF UnlinkRemoves
    <2>3. row \in Link /\ row.kept = "deleted" /\ row.owner = link[<<"user", p>>].owner
      BY <1>0, <2>1 DEF Link
    <2>4. Entitled(row.owner, "user", p)
      BY <1>0, <2>1, <2>3 DEF SsoInv, LinkInv
    <2>5. /\ q \in Request /\ q.step = "done" /\ q.s = request[r].s /\ q.bind = request[r].bind
          /\ request' = [request EXCEPT ![r] = q]
      BY <1>0, <2>2, Going
    <2>6. request'[r] = q
      BY <1>0, <2>5
    <2> HIDE DEF q, row, p
    <2>7. GoodRequest(request[r])'
      BY <1>1, <2>2, <2>5, <2>6 DEF GoodRequest
    <2> QED
      BY <1>0, <1>1, <2>1, <2>2, <2>3, <2>4, <2>7, LinkKeeps
  <1> QED
    BY <1>3, <1>4

\* What is known of a session and of the request that opened it.
LEMMA OpenedFacts ==
    ASSUME SsoInv, NEW r \in Requests, session[r].opened # NoSession
    PROVE  /\ request[r] \in Request /\ GoodRequest(request[r])
           /\ FromFlow(request[r]) /\ ~request[r].bind /\ Owns(request[r], request[r].app)
           /\ session[r].opened.user = request[r].user /\ session[r].opened.app = request[r].app
           /\ session[r].opened.s = request[r].s /\ session[r].opened.flow = request[r].flow
           /\ session[r].opened.p = request[r].p
           /\ handed[r] \in Nat /\ handed[r] <= 1
  <1>1. GoodRequest(request[r]) /\ GoodSession(r)
    BY DEF SsoInv
  <1>2. request[r] \in Request /\ handed[r] \in Nat
    BY DEF SsoInv, TypeOK
  <1>3. /\ ~request[r].bind
        /\ FromFlow(request[r])
        /\ Owns(request[r], request[r].app)
        /\ session[r].opened = [user |-> request[r].user, app |-> request[r].app, s |-> request[r].s,
                                flow |-> request[r].flow, p |-> request[r].p]
    BY <1>1 DEF GoodSession
  <1>4. handed[r] <= (IF code[r] = "spent" THEN 1 ELSE 0)
    BY <1>1 DEF GoodSession
  <1>5. handed[r] <= 1
    BY <1>2, <1>4
  <1>6. /\ session[r].opened.user = request[r].user /\ session[r].opened.app = request[r].app
        /\ session[r].opened.s = request[r].s /\ session[r].opened.flow = request[r].flow
        /\ session[r].opened.p = request[r].p
    BY <1>3
  <1> QED
    BY <1>1, <1>2, <1>3, <1>5, <1>6

\* What a signed-in user has that is worth linking to.
LEMMA SignedInHasPassword ==
    ASSUME SsoInv, NEW u \in Users, SignedIn(u)
    PROVE  Credentialed(u)
  <1>1. CASE account[u].password = "chosen"
    BY <1>1 DEF Credentialed
  <1>2. ASSUME NEW r \in Requests, session[r].opened # NoSession, session[r].opened.user = u
        PROVE  Credentialed(u)
    <2>1. /\ request[r] \in Request /\ FromFlow(request[r]) /\ Owns(request[r], request[r].app)
          /\ request[r].user = u
      BY <1>2, OpenedFacts
    <2>2. Entitled(u, request[r].app, request[r].p)
      BY <2>1 DEF SsoInv, LinkInv, FromFlow, Owns, Request
    <2> QED
      BY <2>2, SsoAssumption DEF Entitled, Matched
  <1> QED
    BY <1>1, <1>2 DEF SignedIn

LEMMA ConsumeKeeps ==
    ASSUME SsoInv, NEW r \in Requests, NEW app \in Types, NEW s \in States, NEW flow \in States,
           NEW p \in Identities, ConsumeState(r, app, s, flow, p)
    PROVE  SsoInv'
  <1> DEFINE bound == state[s].bind # NoUser
             q == IF Redeems(s, flow, p)
                  THEN [Fresh EXCEPT !.step = IF bound THEN "link" ELSE "find",
                                     !.app = app, !.s = s, !.flow = flow, !.p = p,
                                     !.user = state[s].bind, !.bind = bound]
                  ELSE [Fresh EXCEPT !.step = "done"]
  <1>0. /\ request \in [Requests -> Request] /\ state \in [States -> State] /\ NoState \notin States
        /\ state[s].bind \in Users \cup {NoUser} /\ Users \subseteq Subjects
        /\ request[r] = Fresh /\ session[r].opened = NoSession
    BY NullAssumption, RequestFacts DEF SsoInv, TypeOK, State, Subjects, ConsumeState, At, GoodRequest
  <1>1. /\ q \in Request
        /\ \/ /\ Redeems(s, flow, p) /\ q.app = app /\ q.s = s /\ q.flow = flow /\ q.p = p
              /\ q.user = state[s].bind /\ q.bind = bound
              /\ q.step = IF bound THEN "link" ELSE "find"
           \/ q.step = "done" /\ q.s = NoState
    BY <1>0 DEF Request, Fresh, Steps, Types
  <1>2. /\ request' = [request EXCEPT ![r] = q]
        /\ state' = [state EXCEPT ![s].kept = "spent"] /\ state[s].kept = "issued"
        /\ UNCHANGED <<account, link, session, code, handed>>
    BY DEF ConsumeState
  <1>3. bound => Credentialed(state[s].bind)
    BY DEF SsoInv, StateInv
  <1>4. Redeems(s, flow, p) => FromFlow([s |-> s, flow |-> flow, p |-> p])
    BY DEF Redeems, FromFlow
  <1> HIDE DEF q
  <1>5. request' \in [Requests -> Request] /\ request'[r] = q
        /\ \A z \in Requests \ {r} : request'[z] = request[z]
    BY <1>0, <1>1, <1>2
  <1>6. /\ state' \in [States -> State] /\ state'[s].kept = "spent" /\ state'[s].bind = state[s].bind
        /\ \A z \in States \ {s} : state'[z] = state[z]
    BY <1>0, <1>2 DEF State
  <1>7. TypeOK'
    BY <1>2, <1>5, <1>6 DEF SsoInv, TypeOK
  <1>8. Grows
    BY <1>2, <1>6 DEF Grows
  <1>9. AccountInv' /\ LinkInv' /\ StateInv'
    BY <1>2, <1>6 DEF SsoInv, AccountInv, LinkInv, StateInv, Entitled, Matched, Credentialed
  <1>10. GoodRequest(request[r])'
    <2>1. CASE Redeems(s, flow, p) /\ q.s = s /\ q.step \in {"link", "find"}
      <3>1. FromFlow(q) /\ q.bind = bound /\ q.user = state[s].bind
            /\ q.step = IF bound THEN "link" ELSE "find"
        BY <1>0, <1>1, <2>1 DEF Redeems, FromFlow
      <3>3. bound = (state'[q.s].bind # NoUser)
        BY <1>6, <2>1
      <3> HIDE DEF bound
      <3>5. (q.step = "link" => account'[q.user].password # "none" /\ q.user \in Users)
        BY <1>2, <1>3, <3>1 DEF Credentialed
      <3> QED
        BY <1>5, <1>6, <2>1, <3>1, <3>3, <3>5
           DEF GoodRequest, FromFlow, Entitled, LinkType, Credentialed
    <2>2. CASE q.step = "done" /\ q.s = NoState
      BY <1>5, <2>2 DEF GoodRequest
    <2> QED
      BY <1>1, <2>1, <2>2
  <1>11. GoodSession(r)'
    <2>1. q.step # "code"
      BY <1>1
    <2> QED
      BY <1>0, <1>2, <1>5, <2>1 DEF SsoInv, GoodSession
  <1>12. q.s # NoState => \A z \in Requests : request[z].s # q.s
    <2> SUFFICES ASSUME q.s # NoState, NEW z \in Requests, request[z].s = q.s PROVE FALSE
      OBVIOUS
    <2>1. q.s = s
      BY <1>1
    <2>2. state[s].kept = "spent"
      BY <2>1 DEF SsoInv, GoodRequest
    <2> QED
      BY <1>2, <2>2
  <1> QED
    BY <1>2, <1>5, <1>7, <1>8, <1>9, <1>10, <1>11, <1>12, SsoFrame

LEMMA UnlinkReadsKeeps ==
    ASSUME SsoInv, NEW r \in Requests, NEW u \in Users, NEW p \in Identities, UnlinkReads(r, u, p)
    PROVE  SsoInv'
  <1> DEFINE q == [request[r] EXCEPT !.step = "unlink", !.user = u, !.p = p]
  <1>1. request[r] = Fresh /\ request[r] \in Request /\ session[r].opened = NoSession
    BY RequestFacts DEF UnlinkReads, At, GoodRequest
  <1>2. q \in Request /\ q.step = "unlink" /\ q.s = NoState /\ q.p = p
    <2>1. request[r].s = NoState
      BY <1>1 DEF Fresh
    <2>2. u \in Subjects
      BY DEF Subjects
    <2> QED
      BY <1>1, <2>1, <2>2 DEF Request, Steps
  <1>3. link[<<"user", p>>].owner # NoUser
    BY SsoAssumption, NullAssumption DEF UnlinkReads, ActiveLinks, TypeOf, Subjects
  <1>4. request' = [request EXCEPT ![r] = q] /\ UNCHANGED <<account, link, state, session, code, handed>>
    BY DEF UnlinkReads
  <1> HIDE DEF q
  <1>5. GoodRequest(q)
    BY <1>2, <1>3 DEF GoodRequest
  <1> QED
    BY <1>1, <1>2, <1>4, <1>5, RequestMoves

LEMMA EstablishKeeps ==
    ASSUME SsoInv, NEW r \in Requests, EstablishSession(r)
    PROVE  SsoInv'
  <1> DEFINE q == [request[r] EXCEPT !.step = "code"]
             new == [user |-> request[r].user, app |-> request[r].app, s |-> request[r].s,
                     flow |-> request[r].flow, p |-> request[r].p]
  <1>1. /\ request[r] \in Request /\ request[r].step = "session" /\ GoodRequest(request[r])
        /\ session[r].opened = NoSession /\ NoUser \notin Subjects /\ NoSession \notin Session
    BY RequestFacts, NullAssumption DEF EstablishSession, At
  <1>2. FromFlow(request[r]) /\ ~request[r].bind /\ Owns(request[r], request[r].app)
    BY <1>1 DEF GoodRequest
  <1>3. new \in Session
    BY <1>1, <1>2 DEF Session, Request, FromFlow, Owns
  <1>4. /\ q \in Request /\ q.step = "code" /\ q.app = request[r].app /\ q.s = request[r].s
        /\ q.flow = request[r].flow /\ q.p = request[r].p /\ q.user = request[r].user
        /\ q.bind = request[r].bind
    BY <1>1 DEF Request, Steps
  <1>5. request' = [request EXCEPT ![r] = q] /\ UNCHANGED <<account, link, state, code, handed>>
        /\ session' = [session EXCEPT ![r] = [opened |-> new]]
    BY DEF EstablishSession, Goes
  <1>6. code[r] = "none"
    BY <1>1 DEF SsoInv, TypeOK
  <1> HIDE DEF q
  <1>7. request' \in [Requests -> Request] /\ request'[r] = q
        /\ \A z \in Requests \ {r} : request'[z] = request[z]
    BY <1>4, <1>5 DEF SsoInv, TypeOK
  <1>8. DOMAIN session' = Requests /\ session'[r] = [opened |-> new] /\ session'[r].opened = new
        /\ \A z \in Requests \ {r} : session'[z] = session[z]
    BY <1>5 DEF SsoInv, TypeOK
  <1>9. TypeOK'
    <2>1. \A z \in Requests : session'[z] \in [opened : Session \cup {NoSession}]
      <3> HIDE DEF new
      <3> QED
        BY <1>3, <1>8 DEF SsoInv, TypeOK
    <2>2. \A z \in Requests : code'[z] # "none" => session'[z].opened # NoSession
      BY <1>5, <1>6, <1>8 DEF SsoInv, TypeOK
    <2> QED
      BY <1>5, <1>7, <1>8, <2>1, <2>2 DEF SsoInv, TypeOK
  <1>10. Grows
    BY <1>5 DEF Grows
  <1>11. AccountInv' /\ LinkInv' /\ StateInv'
    BY <1>5 DEF SsoInv, AccountInv, LinkInv, StateInv, Entitled, Matched, Credentialed
  <1>12. GoodRequest(q)
    BY <1>1, <1>2, <1>4 DEF GoodRequest, FromFlow, Owns
  <1>13. GoodRequest(request[r])'
    BY <1>4, <1>7, <1>10, <1>12, RequestStays DEF GoodRequest
  <1>14. GoodSession(r)'
    <2>1. handed[r] <= 0
      BY <1>6 DEF SsoInv, GoodSession
    <2>2. new # NoSession
      BY <1>1, <1>3
    <2> QED
      BY <1>2, <1>4, <1>5, <1>6, <1>7, <1>8, <2>1, <2>2 DEF GoodSession, FromFlow, Owns
  <1> QED
    BY <1>4, <1>5, <1>7, <1>8, <1>9, <1>10, <1>11, <1>13, <1>14, SsoFrame

LEMMA AroundKeeps ==
    ASSUME SsoInv,
           \/ \E s \in States : StateExpires(s) \/ \E bind \in Users \cup {NoUser} : Authorize(s, bind)
           \/ \E u \in Subjects : StatusChanges(u)
    PROVE  SsoInv'
  <1>1. ASSUME NEW s \in States, StateExpires(s) PROVE SsoInv'
    <2>1. /\ state' \in [States -> State] /\ state'[s].bind = state[s].bind /\ state[s].kept = "issued"
          /\ \A z \in States \ {s} : state'[z] = state[z]
          /\ UNCHANGED <<account, link, request, session, code, handed>>
      BY <1>1 DEF StateExpires, SsoInv, TypeOK, State
    <2>2. Grows
      BY <2>1 DEF Grows
    <2>3. TypeOK'
      BY <2>1 DEF SsoInv, TypeOK
    <2>4. AccountInv' /\ LinkInv' /\ StateInv'
      BY <2>1 DEF SsoInv, AccountInv, LinkInv, StateInv, Entitled, Matched, Credentialed
    <2> QED
      BY <2>1, <2>2, <2>3, <2>4, SsoAround
  <1>2. ASSUME NEW s \in States, NEW bind \in Users \cup {NoUser}, Authorize(s, bind) PROVE SsoInv'
    <2>1. /\ state' \in [States -> State] /\ state'[s].bind = bind /\ state[s].kept = "none"
          /\ \A z \in States \ {s} : state'[z] = state[z]
          /\ UNCHANGED <<account, link, request, session, code, handed>>
      BY <1>2 DEF Authorize, SsoInv, TypeOK, State
    <2>2. Grows
      BY <2>1 DEF Grows
    <2>3. TypeOK'
      BY <2>1 DEF SsoInv, TypeOK
    <2>4. bind # NoUser => Credentialed(bind)
      BY <1>2, SignedInHasPassword DEF Authorize
    <2>5. AccountInv' /\ LinkInv' /\ StateInv'
      BY <2>1, <2>4 DEF SsoInv, AccountInv, LinkInv, StateInv, Entitled, Matched, Credentialed
    <2> QED
      BY <2>1, <2>2, <2>3, <2>5, SsoAround
  <1>3. ASSUME NEW u \in Subjects, StatusChanges(u) PROVE SsoInv'
    <2>1. /\ account' \in [Subjects -> Account]
          /\ \A v \in Subjects : /\ account'[v].exists = account[v].exists
                                 /\ account'[v].email = account[v].email
                                 /\ account'[v].password = account[v].password
          /\ UNCHANGED <<link, state, request, session, code, handed>>
      <3> DEFINE row == [account[u] EXCEPT !.active = ~@]
      <3>1. account \in [Subjects -> Account] /\ account[u] \in Account
        BY DEF SsoInv, TypeOK
      <3>2. /\ row \in Account /\ row.exists = account[u].exists
            /\ row.email = account[u].email /\ row.password = account[u].password
        BY <3>1 DEF Account
      <3>3. account' = [account EXCEPT ![u] = row]
        BY <1>3 DEF StatusChanges
      <3> HIDE DEF row
      <3> QED
        BY <1>3, <3>1, <3>2, <3>3 DEF StatusChanges
    <2>2. Grows
      BY <2>1 DEF Grows, Subjects
    <2>3. TypeOK'
      BY <2>1 DEF SsoInv, TypeOK
    <2>4. AccountInv'
      BY <2>1 DEF SsoInv, AccountInv, Subjects
    <2>5. LinkInv' /\ StateInv'
      BY <2>1, <2>2, GrowingKeeps
    <2> QED
      BY <2>1, <2>2, <2>3, <2>4, <2>5, SsoAround
  <1> QED
    BY <1>1, <1>2, <1>3

LEMMA CodeKeeps ==
    ASSUME SsoInv, NEW r \in Requests, Exchange(r) \/ CodeExpires(r)
    PROVE  SsoInv'
  <1>1. /\ code' \in [Requests -> {"none", "issued", "spent"}] /\ code'[r] = "spent"
        /\ code[r] = "issued" /\ \A z \in Requests \ {r} : code'[z] = code[z]
        /\ handed' \in [Requests -> Nat] /\ handed'[r] \in {handed[r], handed[r] + 1}
        /\ \A z \in Requests \ {r} : handed'[z] = handed[z]
        /\ UNCHANGED <<account, link, state, request, session>>
    BY DEF Exchange, CodeExpires, SsoInv, TypeOK
  <1>2. handed[r] <= 0 /\ handed[r] \in Nat /\ request[r].step # "code"
    BY <1>1 DEF SsoInv, GoodSession, TypeOK
  <1>3. TypeOK'
    BY <1>1 DEF SsoInv, TypeOK
  <1>4. Grows
    BY <1>1 DEF Grows
  <1>5. AccountInv' /\ LinkInv' /\ StateInv'
    BY <1>1 DEF SsoInv, AccountInv, LinkInv, StateInv, Entitled, Matched, Credentialed
  <1>6. GoodRequest(request[r])'
    BY <1>1 DEF SsoInv, GoodRequest, FromFlow, Entitled, Matched, Credentialed, LinkType, Owns
  <1>7. GoodSession(r)'
    BY <1>1, <1>2 DEF SsoInv, GoodSession, FromFlow, Owns
  <1> QED
    BY <1>1, <1>3, <1>4, <1>5, <1>6, <1>7, SsoFrame

LEMMA SsoInit == Init => SsoInv
  <1> SUFFICES ASSUME Init PROVE SsoInv
    OBVIOUS
  <1>1. account \in [Subjects -> Account]
    <2> SUFFICES ASSUME NEW u \in Subjects PROVE account[u] \in Account
      BY DEF Init
    <2>1. CASE u \in Admins
      BY <2>1, SsoAssumption DEF Init, Account, Passwords
    <2>2. CASE u \notin Admins
      BY <2>2 DEF Init, Account, Passwords
    <2> QED
      BY <2>1, <2>2
  <1>2. link \in [Types \X Identities -> Link] /\ state \in [States -> State]
    BY DEF Init, Link, State
  <1>3. request \in [Requests -> Request]
    BY DEF Init, Fresh, Request, Steps, Types
  <1>4. TypeOK
    BY <1>1, <1>2, <1>3 DEF Init, TypeOK
  <1>5. AccountInv
    BY SsoAssumption DEF Init, AccountInv, Subjects
  <1>6. LinkInv /\ StateInv /\ OneRequestPerFlow
    BY DEF Init, LinkInv, StateInv, OneRequestPerFlow, Fresh
  <1>7. ASSUME NEW r \in Requests PROVE GoodRequest(request[r]) /\ GoodSession(r)
    BY DEF Init, GoodRequest, GoodSession, Fresh
  <1> QED
    BY <1>4, <1>5, <1>6, <1>7 DEF SsoInv

LEMMA SsoNext ==
    ASSUME SsoInv, [Next]_vars
    PROVE  SsoInv'
  <1>1. ASSUME NEW r \in Requests, CallbackStep(r) PROVE SsoInv'
    BY <1>1, ConsumeKeeps, CallbackFinds, LinkGoesOn, LinkWrites, EstablishKeeps, RequestOver
       DEF CallbackStep
  <1>2. ASSUME NEW r \in Requests, UnlinkStep(r) PROVE SsoInv'
    BY <1>2, UnlinkReadsKeeps, LinkWrites DEF UnlinkStep
  <1>3. CASE UNCHANGED vars
    BY <1>3 DEF vars, SsoInv, TypeOK, AccountInv, LinkInv, StateInv, OneRequestPerFlow,
                GoodRequest, GoodSession, FromFlow, Entitled, Matched, Credentialed, LinkType, Owns
  <1> QED
    BY <1>1, <1>2, <1>3, RegisterKeeps, RequestOver, AroundKeeps, CodeKeeps DEF Next

THEOREM SsoInductive == Spec => []SsoInv
  BY SsoInit, SsoNext, PTL DEF Spec

\* Types; a row of external_identities has an owner, and only sessions have codes.
THEOREM SsoType == Spec => []TypeOK
  <1>1. SsoInv => TypeOK
    BY DEF SsoInv
  <1> QED
    BY <1>1, SsoInductive, PTL

\* resolveUser, link: however callbacks, registrations and unlinks overlap and wherever they are
\* cut short, whoever is signed in owns the identity that signed in at the provider.
THEOREM SessionsBelongToOwners == Spec => []SessionsAreOfTheOwner
  <1>1. SsoInv => SessionsAreOfTheOwner
    BY OpenedFacts DEF Opened, Owns, SessionsAreOfTheOwner
  <1> QED
    BY <1>1, SsoInductive, PTL

\* resolveAdmin: whatever the providers say, an administrator is signed in to only over an e-mail
\* that is that administrator's and verified.
THEOREM AdminsNeedVerifiedEmail == Spec => []AdminsAreMatched
  <1>1. SsoInv => AdminsAreMatched
    <2> SUFFICES ASSUME SsoInv, NEW r \in Opened, session[r].opened.app = "admin"
                 PROVE  /\ session[r].opened.user \in Admins
                        /\ session[r].opened.p \in Verified
                        /\ EmailOf[session[r].opened.p] = account[session[r].opened.user].email
      BY DEF AdminsAreMatched
    <2>1. /\ request[r] \in Request /\ FromFlow(request[r]) /\ Owns(request[r], request[r].app)
          /\ session[r].opened.user = request[r].user /\ session[r].opened.p = request[r].p
          /\ request[r].app = "admin"
      BY OpenedFacts DEF Opened
    <2>2. Entitled(request[r].user, "admin", request[r].p)
      BY <2>1 DEF SsoInv, LinkInv, FromFlow, Owns, Types
    <2> QED
      BY <2>1, <2>2 DEF Entitled, Matched
  <1> QED
    BY <1>1, SsoInductive, PTL

\* SsoStateService.consume, SsoLoginCodeService.consume, verifyIdToken: one flow, one session,
\* whose tokens are given out once at most; a flow to link gives none.
THEOREM FlowsStayApart == Spec => []FlowsAreNotMixed
  <1>1. SsoInv => FlowsAreNotMixed
    <2> SUFFICES ASSUME SsoInv, NEW r \in Opened
                 PROVE  /\ state[session[r].opened.s].bind = NoUser
                        /\ session[r].opened.p \in Oidc => session[r].opened.flow = session[r].opened.s
                        /\ \A q \in Opened \ {r} : session[q].opened.s # session[r].opened.s
                        /\ handed[r] <= 1
      BY DEF FlowsAreNotMixed
    <2>1. \A q \in Opened : /\ q \in Requests /\ session[q].opened.s = request[q].s
                            /\ request[q].s \in States
      BY OpenedFacts DEF Opened, FromFlow
    <2>2. /\ FromFlow(request[r]) /\ ~request[r].bind /\ GoodRequest(request[r])
          /\ session[r].opened.p = request[r].p /\ session[r].opened.flow = request[r].flow
          /\ session[r].opened.s = request[r].s
          /\ handed[r] <= 1
      BY OpenedFacts DEF Opened
    <2>3. state[request[r].s].bind = NoUser
      BY <2>1, <2>2, NullAssumption DEF GoodRequest
    <2>4. \A q \in Opened \ {r} : request[q].s # request[r].s
      BY <2>1, NullAssumption DEF Opened, SsoInv, OneRequestPerFlow
    <2> QED
      BY <2>1, <2>2, <2>3, <2>4 DEF FromFlow
  <1> QED
    BY <1>1, SsoInductive, PTL

\* ExternalIdentityService.unlink and RegisterService: whatever unlink's count of what is left has
\* missed, a user with a linked identity has a password credential.
THEOREM LinkedUsersHavePasswords == Spec => []LinkedHaveCredential
  <1>1. SsoInv => LinkedHaveCredential
    <2> SUFFICES ASSUME SsoInv, NEW u \in Users, NEW p \in ActiveLinks(u)
                 PROVE  account[u].password # "none"
      BY DEF LinkedHaveCredential
    <2>1. p \in Identities /\ link[<<"user", p>>].owner = u /\ u # NoUser
      BY SsoAssumption, NullAssumption DEF ActiveLinks, TypeOf, Subjects
    <2> QED
      BY <2>1 DEF SsoInv, LinkInv, Entitled, Credentialed, Types
  <1> QED
    BY <1>1, SsoInductive, PTL
===============================================================================
