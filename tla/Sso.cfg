SPECIFICATION Spec
CONSTANTS
    p1 = p1
    p2 = p2
    e1 = e1
    a1 = a1
    Users = {u1, u2}
    Admins = {a1}
    Identities = {p1, p2}
    Emails = {e1}
    EmailOf <- EmailsForMC
    AdminEmail <- AdminForMC
    Verified = {p1}
    Oidc = {p1}
    States = {s1, s2}
    Requests = {r1, r2, r3}
    NoUser = NoUser
    NoEmail = NoEmail
    NoIdentity = NoIdentity
    NoState = NoState
    NoSession = NoSession
SYMMETRY Interchangeable
CHECK_DEADLOCK FALSE
INVARIANT SessionsAreOfTheOwner
INVARIANT AdminsAreMatched
INVARIANT FlowsAreNotMixed
INVARIANT LinkedHaveCredential
