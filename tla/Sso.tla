--------------------------------- MODULE Sso ---------------------------------
(* Single sign-on: how an account at a provider becomes a session here.         *)
(*                                                                            *)
(* SsoAuthorizeService issues a state for a flow; the callback consumes it,     *)
(* fetches the profile, finds, registers or links an account and opens a        *)
(* session that the browser collects with a one-time code (SsoCallbackService,  *)
(* UserSsoService, AdminSsoService).  Beside it, users register with a password *)
(* and unlink what they have linked (RegisterService, ExternalIdentityService). *)
(* Every statement is a step; any request may be cut short after any of them.   *)
(* A request is used once.                                                      *)
EXTENDS Naturals, FiniteSets

CONSTANTS Users,       \* the accounts of end users, made by registration
          Admins,      \* the accounts of administrators
          Identities,  \* the accounts at the providers: provider and providerUserId
          Emails,
          EmailOf,     \* EmailOf[p]: the e-mail in the profile of p, if there is one
          AdminEmail,  \* AdminEmail[a]
          Verified,    \* the identities whose provider says email_verified
          Oidc,        \* the identities at OIDC providers
          States,      \* the random state tokens, one for each flow
          Requests,
          NoUser, NoEmail, NoIdentity, NoState, NoSession

ASSUME SsoAssumption ==
    /\ EmailOf \in [Identities -> Emails \cup {NoEmail}]
    /\ AdminEmail \in [Admins -> Emails]
    /\ Verified \subseteq Identities
    /\ Oidc \subseteq Identities
    /\ Users \cap Admins = {}
    /\ NoEmail \notin Emails

VARIABLES account,   \* account[u]: the rows of end_users, admin_users and user_credentials
          link,      \* link[t, p]: the row of external_identities, t is its subject_type
          state,     \* state[s]: the payload in Redis
          request,   \* request[r]: where it is, and its locals
          session,   \* session[r]: the session a callback has opened
          code,      \* code[r]: the login code for that session in Redis
          handed     \* handed[r]: how often its tokens have been given out

vars == <<account, link, state, request, session, code, handed>>

Types == {"user", "admin"}
TypeOf(u) == IF u \in Admins THEN "admin" ELSE "user"
Subjects == Users \cup Admins

\* A placeholder is a random password that nobody is told.
Passwords == {"none", "placeholder", "chosen"}

Account == [exists : BOOLEAN, email : Emails \cup {NoEmail}, password : Passwords, active : BOOLEAN]

Link == [kept : {"none", "active", "deleted"}, owner : Subjects \cup {NoUser}]

State == [kept : {"none", "issued", "spent"}, bind : Users \cup {NoUser}]

Steps == {"new", "find", "create", "credential", "profile", "link", "save", "insert", "enqueue",
          "gate", "session", "code", "unlink", "done"}

\* app: whose callback runs; s, flow: the state it consumed and the flow its code is from;
\* user: the account in hand; sso: whether the registration is part of a callback.
Request == [step : Steps, app : Types, s : States \cup {NoState}, flow : States \cup {NoState},
            p : Identities \cup {NoIdentity}, user : Subjects \cup {NoUser}, bind : BOOLEAN,
            sso : BOOLEAN]

Session == [user : Subjects, app : Types, s : States, flow : States, p : Identities]

ASSUME NullAssumption ==
    /\ NoUser \notin Subjects
    /\ NoState \notin States
    /\ NoSession \notin Session

\* A row of external_identities has an owner, and only sessions have codes.
TypeOK ==
    /\ account \in [Subjects -> Account]
    /\ link \in [Types \X Identities -> Link]
    /\ state \in [States -> State]
    /\ request \in [Requests -> Request]
    /\ DOMAIN session = Requests
    /\ \A r \in Requests : session[r] \in [opened : Session \cup {NoSession}]
    /\ code \in [Requests -> {"none", "issued", "spent"}]
    /\ handed \in [Requests -> Nat]
    /\ \A key \in Types \X Identities : (link[key].kept = "none") = (link[key].owner = NoUser)
    /\ \A r \in Requests : code[r] # "none" => session[r].opened # NoSession

Fresh == [step |-> "new", app |-> "user", s |-> NoState, flow |-> NoState, p |-> NoIdentity,
          user |-> NoUser, bind |-> FALSE, sso |-> FALSE]

Init ==
    /\ account = [u \in Subjects |->
                     IF u \in Admins
                     THEN [exists |-> TRUE, email |-> AdminEmail[u], password |-> "chosen",
                           active |-> TRUE]
                     ELSE [exists |-> FALSE, email |-> NoEmail,
                           password |-> "none", active |-> TRUE]]
    /\ link = [key \in Types \X Identities |-> [kept |-> "none", owner |-> NoUser]]
    /\ state = [s \in States |-> [kept |-> "none", bind |-> NoUser]]
    /\ request = [r \in Requests |-> Fresh]
    /\ session = [r \in Requests |-> [opened |-> NoSession]]
    /\ code = [r \in Requests |-> "none"]
    /\ handed = [r \in Requests |-> 0]

At(r, step) == request[r].step = step
Goes(r, step) == request' = [request EXCEPT ![r].step = step]

------------------------------------------------------------------------------
(* The state of a flow                                                         *)

\* Who can be signed in: nobody knows a placeholder.
SignedIn(u) == account[u].password = "chosen" \/ \E r \in Requests :
                   session[r].opened # NoSession /\ session[r].opened.user = u

\* buildAuthorizeRedirect, for a login or for a signed-in user who wants to link.
Authorize(s, bind) ==
    /\ state[s].kept = "none"
    /\ bind # NoUser => SignedIn(bind)
    /\ state' = [state EXCEPT ![s] = [kept |-> "issued", bind |-> bind]]
    /\ UNCHANGED <<account, link, request, session, code, handed>>

StateExpires(s) ==
    /\ state[s].kept = "issued"
    /\ state' = [state EXCEPT ![s].kept = "spent"]
    /\ UNCHANGED <<account, link, request, session, code, handed>>

\* Mutant: the code is redeemed without the flow's verifier and nonce.
RedeemsAny(s, flow, p) == TRUE

\* An OIDC provider redeems a code only with the code_verifier of its flow, or signs the nonce of
\* its flow, which verifyIdToken compares with the one kept under the state; another provider
\* redeems any code.
Redeems(s, flow, p) == p \in Oidc => s = flow

\* A callback of either application: getAndDel of the state, the exchange of the code that the
\* provider issued in some flow that has been started, and the profile of p.
ConsumeState(r, app, s, flow, p) ==
    /\ At(r, "new")
    /\ state[s].kept = "issued"
    /\ state[flow].kept # "none"
    /\ state' = [state EXCEPT ![s].kept = "spent"]
    /\ request' = [request EXCEPT ![r] =
           IF Redeems(s, flow, p)
           THEN [Fresh EXCEPT !.step = IF state[s].bind # NoUser THEN "link" ELSE "find",
                              !.app = app, !.s = s, !.flow = flow, !.p = p,
                              !.user = state[s].bind, !.bind = state[s].bind # NoUser]
           ELSE [Fresh EXCEPT !.step = "done"]]
    /\ UNCHANGED <<account, link, session, code, handed>>

------------------------------------------------------------------------------
(* From a profile to an account                                                *)

\* Mutant: the link of a user is good enough for the administrators' application.
AnyLinkKey(r) == <<"user", request[r].p>>

\* link[LinkKey(r)] is the row a callback looks for.
LinkKey(r) == <<IF request[r].bind THEN "user" ELSE request[r].app, request[r].p>>

\* resolveAdmin, resolveUser: findByProvider finds the row.
FindsIdentity(r) ==
    /\ At(r, "find")
    /\ link[LinkKey(r)].kept = "active"
    /\ request' = [request EXCEPT ![r].step = "enqueue", ![r].user = link[LinkKey(r)].owner]
    /\ UNCHANGED <<account, link, state, session, code, handed>>

AdminsNamed(p) == IF p \in Verified THEN {a \in Admins : account[a].email = EmailOf[p]} ELSE {}

\* resolveAdmin: an administrator with the verified e-mail.
MatchesAdmin(r) ==
    /\ At(r, "find")
    /\ request[r].app = "admin"
    /\ link[LinkKey(r)].kept # "active"
    /\ \E a \in AdminsNamed(request[r].p) :
           request' = [request EXCEPT ![r].step = "link", ![r].user = a]
    /\ UNCHANGED <<account, link, state, session, code, handed>>

\* SSO_ACCOUNT_NOT_FOUND; for a user, the policy of assertAutoRegisterAllowed says no.
Rejects(r) ==
    /\ At(r, "find")
    /\ request[r].app = "admin" => AdminsNamed(request[r].p) = {}
    /\ link[LinkKey(r)].kept # "active"
    /\ Goes(r, "done")
    /\ UNCHANGED <<account, link, state, session, code, handed>>

\* resolveUser: an account will be registered.
MayRegister(r) ==
    /\ At(r, "find")
    /\ request[r].app = "user"
    /\ link[LinkKey(r)].kept # "active"
    /\ request' = [request EXCEPT ![r].step = "create", ![r].sso = TRUE]
    /\ UNCHANGED <<account, link, state, session, code, handed>>

------------------------------------------------------------------------------
(* RegisterService.create                                                      *)

RegisterStarts(r) ==
    /\ At(r, "new")
    /\ request' = [request EXCEPT ![r].step = "create"]
    /\ UNCHANGED <<account, link, state, session, code, handed>>

\* end_users.email is unique, where it is not null; a derived username gets a random suffix.
EmailTaken(email) == email # NoEmail /\ \E u \in Users : account[u].exists /\ account[u].email = email

\* The policy accepts the password, and the INSERT finds the e-mail free.
CreateUser(r, u, email) ==
    /\ At(r, "create")
    /\ ~account[u].exists
    /\ request[r].sso => email = EmailOf[request[r].p]
    /\ ~EmailTaken(email)
    /\ account' = [account EXCEPT ![u] = [exists |-> TRUE, email |-> email, password |-> "none",
                                          active |-> TRUE]]
    /\ request' = [request EXCEPT ![r].step = "credential", ![r].user = u]
    /\ UNCHANGED <<link, state, session, code, handed>>

\* SEC_PASSWORD_TOO_WEAK, which a random placeholder may meet too, or USER_EMAIL_TAKEN.
RefusesUser(r) ==
    /\ At(r, "create")
    /\ Goes(r, "done")
    /\ UNCHANGED <<account, link, state, session, code, handed>>

\* Mutant: an account that is made in a callback gets no password.
SetCredentialIfChosen(r) ==
    /\ At(r, "credential")
    /\ account' = IF request[r].sso THEN account
                  ELSE [account EXCEPT ![request[r].user].password = "chosen"]
    /\ Goes(r, "profile")
    /\ UNCHANGED <<link, state, session, code, handed>>

\* setPassword.
SetCredential(r) ==
    /\ At(r, "credential")
    /\ account' = [account EXCEPT ![request[r].user].password =
                       IF request[r].sso THEN "placeholder" ELSE "chosen"]
    /\ Goes(r, "profile")
    /\ UNCHANGED <<link, state, session, code, handed>>

\* The profile's row and the job of the event; a password registration ends here.
SavesProfile(r) ==
    /\ At(r, "profile")
    /\ Goes(r, IF request[r].sso THEN "link" ELSE "done")
    /\ UNCHANGED <<account, link, state, session, code, handed>>

------------------------------------------------------------------------------
(* ExternalIdentityService                                                     *)

Linked(r) == IF request[r].bind THEN "done" ELSE "enqueue"

\* link: the row of another owner.
LinkRefuses(r) ==
    /\ At(r, "link")
    /\ link[LinkKey(r)].kept = "active"
    /\ link[LinkKey(r)].owner # request[r].user
    /\ Goes(r, "done")
    /\ UNCHANGED <<account, link, state, session, code, handed>>

\* Mutant: the row of another owner is as good as one's own.
LinkFindsAny(r) ==
    /\ At(r, "link")
    /\ link[LinkKey(r)].kept = "active"
    /\ Goes(r, "save")
    /\ UNCHANGED <<account, link, state, session, code, handed>>

\* link: the row is there already, and gets the nickname of the profile.
LinkFinds(r) ==
    /\ At(r, "link")
    /\ link[LinkKey(r)].kept = "active"
    /\ link[LinkKey(r)].owner = request[r].user
    /\ Goes(r, "save")
    /\ UNCHANGED <<account, link, state, session, code, handed>>

\* save() writes deleted_at too, as it was read: an unlink in between is undone.
LinkSaves(r) ==
    /\ At(r, "save")
    /\ link' = [link EXCEPT ![LinkKey(r)].kept = "active"]
    /\ Goes(r, Linked(r))
    /\ UNCHANGED <<account, state, session, code, handed>>

LinkMisses(r) ==
    /\ At(r, "link")
    /\ link[LinkKey(r)].kept # "active"
    /\ Goes(r, "insert")
    /\ UNCHANGED <<account, link, state, session, code, handed>>

\* The unique index has (subject_type, provider, provider_user_id) of soft-deleted rows too.
LinkInserts(r) ==
    /\ At(r, "insert")
    /\ link[LinkKey(r)].kept = "none"
    /\ link' = [link EXCEPT ![LinkKey(r)] = [kept |-> "active", owner |-> request[r].user]]
    /\ Goes(r, Linked(r))
    /\ UNCHANGED <<account, state, session, code, handed>>

\* SSO_IDENTITY_LINK_FAILED; what has been registered stays.
LinkFails(r) ==
    /\ At(r, "insert")
    /\ link[LinkKey(r)].kept # "none"
    /\ Goes(r, "done")
    /\ UNCHANGED <<account, link, state, session, code, handed>>

\* The links a user can sign in with.
ActiveLinks(u) == {p \in Identities : link[<<TypeOf(u), p>>] = [kept |-> "active", owner |-> u]}

\* unlink: the ownership, and what is left to sign in with.  The three reads are one step: a link
\* removed in between is no longer counted, or is removed once more, and a password once set stays.
UnlinkReads(r, u, p) ==
    /\ At(r, "new")
    /\ SignedIn(u)
    /\ p \in ActiveLinks(u)
    /\ account[u].password # "none" \/ Cardinality(ActiveLinks(u)) > 1
    /\ request' = [request EXCEPT ![r].step = "unlink", ![r].user = u, ![r].p = p]
    /\ UNCHANGED <<account, link, state, session, code, handed>>

\* softRemove.
UnlinkRemoves(r) ==
    /\ At(r, "unlink")
    /\ link' = [link EXCEPT ![<<"user", request[r].p>>].kept = "deleted"]
    /\ Goes(r, "done")
    /\ UNCHANGED <<account, state, session, code, handed>>

------------------------------------------------------------------------------
(* From an account to a session                                                *)

\* The job of SSO_SYNC is added, or the request fails.
EnqueuesSync(r) ==
    /\ At(r, "enqueue")
    /\ Goes(r, "gate")
    /\ UNCHANGED <<account, link, state, session, code, handed>>

\* The account is read again: it has to be active, and a user's lock over.
PassesGate(r) ==
    /\ At(r, "gate")
    /\ account[request[r].user].active
    /\ Goes(r, "session")
    /\ UNCHANGED <<account, link, state, session, code, handed>>

FailsGate(r) ==
    /\ At(r, "gate")
    /\ ~account[request[r].user].active
    /\ Goes(r, "done")
    /\ UNCHANGED <<account, link, state, session, code, handed>>

EstablishSession(r) ==
    /\ At(r, "session")
    /\ session' = [session EXCEPT ![r] = [opened |->
           [user |-> request[r].user, app |-> request[r].app, s |-> request[r].s,
            flow |-> request[r].flow, p |-> request[r].p]]]
    /\ Goes(r, "code")
    /\ UNCHANGED <<account, link, state, code, handed>>

IssueCode(r) ==
    /\ At(r, "code")
    /\ code' = [code EXCEPT ![r] = "issued"]
    /\ Goes(r, "done")
    /\ UNCHANGED <<account, link, state, session, handed>>

\* exchange: getAndDel of the login code.
Exchange(r) ==
    /\ code[r] = "issued"
    /\ code' = [code EXCEPT ![r] = "spent"]
    /\ handed' = [handed EXCEPT ![r] = @ + 1]
    /\ UNCHANGED <<account, link, state, request, session>>

CodeExpires(r) ==
    /\ code[r] = "issued"
    /\ code' = [code EXCEPT ![r] = "spent"]
    /\ UNCHANGED <<account, link, state, request, session, handed>>

------------------------------------------------------------------------------
\* The process dies, or a statement, the provider or the queue fails.
RequestDies(r) ==
    /\ request[r].step \notin {"new", "done"}
    /\ Goes(r, "done")
    /\ UNCHANGED <<account, link, state, session, code, handed>>

\* An administrator disables or enables the account, or it is locked or unlocked.
StatusChanges(u) ==
    /\ account[u].exists
    /\ account' = [account EXCEPT ![u].active = ~@]
    /\ UNCHANGED <<link, state, request, session, code, handed>>

CallbackStep(r) ==
    \/ \E app \in Types, s, flow \in States, p \in Identities : ConsumeState(r, app, s, flow, p)
    \/ FindsIdentity(r) \/ MatchesAdmin(r) \/ Rejects(r) \/ MayRegister(r)
    \/ LinkRefuses(r) \/ LinkFinds(r) \/ LinkSaves(r) \/ LinkMisses(r) \/ LinkInserts(r) \/ LinkFails(r)
    \/ EnqueuesSync(r) \/ PassesGate(r) \/ FailsGate(r) \/ EstablishSession(r) \/ IssueCode(r)

RegisterStep(r) ==
    \/ RegisterStarts(r)
    \/ \E u \in Users, email \in Emails \cup {NoEmail} : CreateUser(r, u, email)
    \/ RefusesUser(r) \/ SetCredential(r) \/ SavesProfile(r)

UnlinkStep(r) ==
    \/ \E u \in Users, p \in Identities : UnlinkReads(r, u, p)
    \/ UnlinkRemoves(r)

Next ==
    \/ \E s \in States : StateExpires(s) \/ \E bind \in Users \cup {NoUser} : Authorize(s, bind)
    \/ \E r \in Requests : CallbackStep(r) \/ RegisterStep(r) \/ UnlinkStep(r) \/ RequestDies(r)
    \/ \E r \in Requests : Exchange(r) \/ CodeExpires(r)
    \/ \E u \in Subjects : StatusChanges(u)

Spec == Init /\ [][Next]_vars

------------------------------------------------------------------------------
Opened == {r \in Requests : session[r].opened # NoSession}

\* Whoever gets a session is the owner of the identity that signed in at the provider, from its
\* first link on and also after it has been unlinked: of two callbacks that register an account
\* for one identity, and of one that dies between registering and linking, no account but the
\* linked one is ever signed in to (SsoCallbackService.resolveUser, link).
SessionsAreOfTheOwner ==
    \A r \in Opened :
        link[<<session[r].opened.app, session[r].opened.p>>].owner = session[r].opened.user

\* An administrator is signed in to only over an e-mail that the provider has verified and that
\* was that administrator's (resolveAdmin: no account is made, none matched by less).
AdminsAreMatched ==
    \A r \in Opened :
        LET opened == session[r].opened IN
        opened.app = "admin" =>
            /\ opened.user \in Admins
            /\ opened.p \in Verified
            /\ EmailOf[opened.p] = account[opened.user].email

\* One flow gives one session, whose tokens are given out at most once, and a flow to link gives
\* none; the code of an OIDC provider is of the same flow as the state (SsoStateService.consume,
\* SsoLoginCodeService.consume, verifyIdToken).
FlowsAreNotMixed ==
    \A r \in Opened :
        LET opened == session[r].opened IN
        /\ state[opened.s].bind = NoUser
        /\ opened.p \in Oidc => opened.flow = opened.s
        /\ \A q \in Opened \ {r} : session[q].opened.s # opened.s
        /\ handed[r] <= 1

\* Whoever has a linked identity has a password credential too, as register sets it before link:
\* unlink's count of what is left may be stale, and still no account is left without either
\* (ExternalIdentityService.unlink, CANNOT_UNLINK_LAST_LOGIN_METHOD).  Whether the user knows that
\* password is another matter: a placeholder counts.
LinkedHaveCredential == \A u \in Users : ActiveLinks(u) # {} => account[u].password # "none"
==============================================================================
