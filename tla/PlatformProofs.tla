------------------------------ MODULE PlatformProofs ------------------------------
(***************************************************************************)
(* What is proved of the admin console and of what surrounds a request, one*)
(* part per module: the last super administrator, grants and cached codes  *)
(* (AccessControl), the menus a user is shown (Menus), the cached          *)
(* dictionaries (Dictionaries), the seeds (Seeding), the lock (Locks), the *)
(* context of a request (Context), the profile of an SSO flow (Providers), *)
(* what a client is told (Answers) and what is kept of it (Masking).       *)
(***************************************************************************)
EXTENDS AccessControl, Menus, Dictionaries, Seeding, Locks, Context, Providers, Masking, Answers, FiniteSetTheorems, TLAPS

(***************************************************************************)
(* AccessControl: the last super administrator, whatever overlaps one request*)
(* on bindings, for any number of administrators, roles and requests.      *)
(***************************************************************************)

Binding == {"createAdmin", "assignRoles"}

\* Of the requests that are active together, one at most changes bindings.
OneBinder ==
    \A c \in Profiles : \A x, y \in Requests : x # y => c[x] \cap Binding = {} \/ c[y] \cap Binding = {}

Fields(n) == n = [op |-> n.op, at |-> n.at, admins |-> n.admins, roles |-> n.roles, perms |-> n.perms,
                  enable |-> n.enable, changed |-> n.changed]

\* What a request that is under way holds.
ReqOK(x, n) ==
    n # NoRequest =>
        /\ Fields(n)
        /\ n.op \in clients[x] /\ n.roles \subseteq Roles
        /\ n.op \in {"updateRole", "removeRole"} => SuperAdmin \notin n.roles
        /\ n.op \in Binding /\ n.at \in {"count", "exists", "commit"} =>
               \E a \in Admins : n.admins = {a} /\ account[a] # "absent"
        /\ n.op \in Binding /\ n.at \in {"exists", "commit"} =>
               SuperAdmin \in n.roles \/ \E b \in Admins \ n.admins : IsSuper(b)

SuperInv ==
    /\ clients \in Profiles
    /\ role = [r \in Roles |-> role[r]] /\ role[SuperAdmin] = "enabled"
    /\ account = [a \in Admins |-> account[a]]
    /\ bindings \subseteq Admins \X Roles
    /\ \A a \in Admins, r \in Roles : <<a, r>> \in bindings => account[a] # "absent"
    /\ req = [x \in Requests |-> req[x]]
    /\ \A x \in Requests : ReqOK(x, req[x])
    /\ SomeoneIsSuperAdmin

LEMMA SuperIsBound ==
    ASSUME SuperInv PROVE \A a \in Admins : IsSuper(a) <=> <<a, SuperAdmin>> \in bindings
  BY AccessConstants DEF SuperInv, IsSuper, RolesOf

LEMMA SuperIsBoundNext ==
    ASSUME role'[SuperAdmin] = "enabled"
    PROVE  \A a \in Admins : IsSuper(a)' <=> <<a, SuperAdmin>> \in bindings'
  BY AccessConstants DEF IsSuper, RolesOf

\* A step that binds and unbinds nobody to or from the system role.
LEMMA Frame ==
    ASSUME SuperInv, clients' = clients, role' = [r \in Roles |-> role'[r]],
           role'[SuperAdmin] = "enabled",
           account' = [a \in Admins |-> account'[a]],
           \A a \in Admins : account[a] # "absent" => account'[a] # "absent",
           bindings' \subseteq bindings,
           \A a \in Admins : <<a, SuperAdmin>> \in bindings => <<a, SuperAdmin>> \in bindings',
           req' = [x \in Requests |-> req'[x]],
           \A x \in Requests : req'[x] = req[x] \/ ReqOK(x, req[x])'
    PROVE  SuperInv'
  <1>1. \A a \in Admins : IsSuper(a) => IsSuper(a)'
    BY SuperIsBound, SuperIsBoundNext
  <1>2. SomeoneIsSuperAdmin'
    BY <1>1 DEF SuperInv, SomeoneIsSuperAdmin
  <1>3. ASSUME NEW x \in Requests PROVE ReqOK(x, req[x])'
    <2>1. ReqOK(x, req[x])
      BY DEF SuperInv
    <2>2. CASE req'[x] = req[x]
      BY <1>1, <2>1, <2>2 DEF ReqOK, Fields
    <2> QED
      BY <2>2
  <1>4. bindings' \subseteq Admins \X Roles
        /\ \A a \in Admins, r \in Roles : <<a, r>> \in bindings' => account'[a] # "absent"
    BY DEF SuperInv
  <1> QED
    BY <1>2, <1>3, <1>4 DEF SuperInv

\* The same, for a step of one request.
LEMMA RequestFrame ==
    ASSUME SuperInv, clients' = clients, role' = [r \in Roles |-> role'[r]],
           role'[SuperAdmin] = "enabled",
           account' = [a \in Admins |-> account'[a]],
           \A a \in Admins : account[a] # "absent" => account'[a] # "absent",
           bindings' \subseteq bindings,
           \A a \in Admins : <<a, SuperAdmin>> \in bindings => <<a, SuperAdmin>> \in bindings',
           NEW x \in Requests, NEW n, req' = [req EXCEPT ![x] = n],
           ReqOK(x, n)
    PROVE  SuperInv'
  <1>1. req'[x] = n /\ (\A y \in Requests \ {x} : req'[y] = req[y]) /\ req' = [y \in Requests |-> req'[y]]
    BY DEF SuperInv
  <1>2. \A a \in Admins : IsSuper(a) => IsSuper(a)'
    BY SuperIsBound, SuperIsBoundNext
  <1>3. ReqOK(x, req[x])'
    BY <1>1, <1>2 DEF ReqOK, Fields
  <1> QED
    BY <1>1, <1>3, Frame

LEMMA QuietRequest ==
    ASSUME SuperInv, UNCHANGED tables, NEW x \in Requests, NEW n, req' = [req EXCEPT ![x] = n], ReqOK(x, n)
    PROVE  SuperInv'
  BY RequestFrame DEF SuperInv, tables

LEMMA Ending == ASSUME NEW x PROVE ReqOK(x, NoRequest)
  BY DEF ReqOK

LEMMA Starting ==
    ASSUME NEW x \in Requests, NEW op \in clients[x], NEW at, NEW A, NEW R, NEW P, NEW enable, NEW changed,
           R \subseteq Roles, op \in {"updateRole", "removeRole"} => SuperAdmin \notin R, op \notin Binding
    PROVE  ReqOK(x, [op |-> op, at |-> at, admins |-> A, roles |-> R, perms |-> P, enable |-> enable,
                     changed |-> changed])
  BY DEF ReqOK, Fields

LEMMA GoingOn ==
    ASSUME NEW x \in Requests, ReqOK(x, req[x]), req[x] # NoRequest, NEW step,
           req[x].op \in Binding /\ step \in {"count", "exists", "commit"} =>
               \E a \in Admins : req[x].admins = {a} /\ account[a] # "absent",
           req[x].op \in Binding /\ step \in {"exists", "commit"} =>
               SuperAdmin \in req[x].roles \/ \E b \in Admins \ req[x].admins : IsSuper(b)
    PROVE  ReqOK(x, [req[x] EXCEPT !.at = step])
  <1>1. PICK n : n = [req[x] EXCEPT !.at = step]
    OBVIOUS
  <1>2. /\ Fields(n) /\ n.op = req[x].op /\ n.at = step /\ n.admins = req[x].admins /\ n.roles = req[x].roles
    BY <1>1 DEF ReqOK, Fields
  <1> QED
    BY <1>1, <1>2 DEF ReqOK

LEMMA InvalidatingOn ==
    ASSUME NEW x \in Requests, ReqOK(x, req[x]), req[x] # NoRequest, NEW A
    PROVE  ReqOK(x, IF A = {} THEN NoRequest ELSE [req[x] EXCEPT !.at = "invalidate", !.admins = A])
  <1>1. PICK n : n = [req[x] EXCEPT !.at = "invalidate", !.admins = A]
    OBVIOUS
  <1>2. Fields(n) /\ n.op = req[x].op /\ n.at = "invalidate" /\ n.roles = req[x].roles
    BY <1>1 DEF ReqOK, Fields
  <1>3. ReqOK(x, n)
    BY <1>2 DEF ReqOK
  <1> QED
    BY <1>1, <1>3, Ending

\* Somebody other than the last one.
LEMMA AnotherOne ==
    ASSUME SuperInv, NEW a \in Admins, NotLastSuperAdmin(a)
    PROVE  \E b \in Admins \ {a} : IsSuper(b)
  <1>1. CASE ~IsSuper(a)
    BY <1>1 DEF SuperInv, SomeoneIsSuperAdmin
  <1>2. CASE IsSuper(a)
    <2> SUFFICES ASSUME \A b \in Admins \ {a} : ~IsSuper(b) PROVE FALSE
      OBVIOUS
    <2>1. {b \in Admins : IsSuper(b)} = {a}
      BY <1>2
    <2>2. CountSuperAdmins = 1
      BY <2>1, FS_Singleton DEF CountSuperAdmins
    <2> QED
      BY <1>2, <2>2 DEF NotLastSuperAdmin
  <1> QED
    BY <1>1, <1>2

LEMMA RoleSteps == ASSUME SuperInv, NEW x \in Requests, RoleStep(x) PROVE SuperInv'
  <1>0. /\ ReqOK(x, req[x]) /\ role = [r \in Roles |-> role[r]] /\ role[SuperAdmin] = "enabled"
        /\ account = [a \in Admins |-> account[a]] /\ bindings \subseteq Admins \X Roles
        /\ SuperAdmin \in Roles
    BY AccessConstants DEF SuperInv
  <1>1. ASSUME NEW r \in Roles, CreateRole(x, r) PROVE SuperInv'
    <2>1. role' = [q \in Roles |-> role'[q]] /\ role'[SuperAdmin] = "enabled"
          /\ UNCHANGED <<account, bindings, clients, req>>
      BY <1>0, <1>1 DEF CreateRole
    <2>2. req' = [y \in Requests |-> req'[y]] /\ \A y \in Requests : req'[y] = req[y]
      BY <2>1 DEF SuperInv
    <2> QED
      BY <1>0, <2>1, <2>2, Frame
  <1>2. ASSUME NEW r \in Roles, UpdateRoleReads(x, r) PROVE SuperInv'
    <2>1. PICK enable, changed : Starts(x, "updateRole", "save", {}, {r}, {}, enable, changed)
      BY <1>2 DEF UpdateRoleReads
    <2>2. "updateRole" \in clients[x] /\ SuperAdmin \notin {r} /\ UNCHANGED tables
      BY <1>2 DEF UpdateRoleReads, Idle
    <2>3. PICK n : n = [op |-> "updateRole", at |-> "save", admins |-> {}, roles |-> {r},
                        perms |-> {}, enable |-> enable, changed |-> changed]
      OBVIOUS
    <2>4. ReqOK(x, n)
      BY <2>2, <2>3, Starting DEF Binding
    <2> QED
      BY <2>1, <2>2, <2>3, <2>4, QuietRequest DEF Starts
  <1>3. ASSUME NEW r \in Roles, RemoveRoleReads(x, r) PROVE SuperInv'
    <2>1. PICK A : Starts(x, "removeRole", "commit", A, {r}, {}, FALSE, FALSE)
      BY <1>3 DEF RemoveRoleReads
    <2>2. "removeRole" \in clients[x] /\ SuperAdmin \notin {r} /\ UNCHANGED tables
      BY <1>3 DEF RemoveRoleReads, Idle
    <2>3. PICK n : n = [op |-> "removeRole", at |-> "commit", admins |-> A, roles |-> {r},
                        perms |-> {}, enable |-> FALSE, changed |-> FALSE]
      OBVIOUS
    <2>4. ReqOK(x, n)
      BY <2>2, <2>3, Starting DEF Binding
    <2> QED
      BY <2>1, <2>2, <2>3, <2>4, QuietRequest DEF Starts
  <1>4. ASSUME NEW r \in Roles, NEW P \in SUBSET Perms, AssignPermissionsReads(x, r, P) PROVE SuperInv'
    <2>1. PICK Q : Starts(x, "assignPermissions", "commit", {}, {r}, Q, FALSE, FALSE)
      BY <1>4 DEF AssignPermissionsReads
    <2>2. "assignPermissions" \in clients[x] /\ UNCHANGED tables
      BY <1>4 DEF AssignPermissionsReads, Idle
    <2>3. PICK n : n = [op |-> "assignPermissions", at |-> "commit", admins |-> {}, roles |-> {r},
                        perms |-> Q, enable |-> FALSE, changed |-> FALSE]
      OBVIOUS
    <2>4. ReqOK(x, n)
      BY <2>2, <2>3, Starting DEF Binding
    <2> QED
      BY <2>1, <2>2, <2>3, <2>4, QuietRequest DEF Starts
  <1>5. CASE UpdateRoleSaves(x)
    <2>1. req[x] # NoRequest /\ req[x].op = "updateRole" /\ SuperAdmin \notin req[x].roles
      BY <1>0, <1>5 DEF UpdateRoleSaves, At, ReqOK
    <2>2. role' = [q \in Roles |-> role'[q]] /\ role'[SuperAdmin] = "enabled"
          /\ UNCHANGED <<account, bindings, clients>>
      BY <1>0, <1>5, <2>1 DEF UpdateRoleSaves
    <2>3. PICK n : n \in {NoRequest, [req[x] EXCEPT !.at = "users"]} /\ req' = [req EXCEPT ![x] = n]
      BY <1>5 DEF UpdateRoleSaves, Ends, GoesOn
    <2>4. ReqOK(x, n)
      BY <1>0, <2>1, <2>3, Ending, GoingOn DEF Binding
    <2> QED
      BY <1>0, <2>2, <2>3, <2>4, RequestFrame
  <1>6. CASE RemoveRoleCommits(x)
    <2>1. req[x] # NoRequest /\ req[x].op = "removeRole" /\ SuperAdmin \notin req[x].roles
      BY <1>0, <1>6 DEF RemoveRoleCommits, At, ReqOK
    <2>2. PICK r \in req[x].roles : role' = [role EXCEPT ![r] = "deleted"]
                                    /\ bindings' = {b \in bindings : b[2] # r}
      BY <1>6 DEF RemoveRoleCommits
    <2>3. role' = [q \in Roles |-> role'[q]] /\ role'[SuperAdmin] = "enabled"
          /\ UNCHANGED <<account, clients>>
      BY <1>0, <1>6, <2>1, <2>2 DEF RemoveRoleCommits
    <2>4. bindings' \subseteq bindings /\ \A a \in Admins : <<a, SuperAdmin>> \in bindings => <<a, SuperAdmin>> \in bindings'
      BY <2>1, <2>2
    <2>5. PICK n : n = (IF req[x].admins = {} THEN NoRequest
                        ELSE [req[x] EXCEPT !.at = "invalidate", !.admins = req[x].admins])
                   /\ req' = [req EXCEPT ![x] = n]
      BY <1>6 DEF RemoveRoleCommits, GoesOnInvalidating
    <2>6. ReqOK(x, n)
      BY <1>0, <2>1, <2>5, InvalidatingOn
    <2> QED
      BY <1>0, <2>3, <2>4, <2>5, <2>6, RequestFrame DEF SuperInv
  <1>7. CASE AssignPermissionsCommits(x)
    <2>1. req[x] # NoRequest /\ req[x].op = "assignPermissions" /\ UNCHANGED <<role, account, bindings, clients>>
          /\ req' = [req EXCEPT ![x] = [req[x] EXCEPT !.at = "users"]]
      BY <1>7 DEF AssignPermissionsCommits, At, GoesOn
    <2>2. ReqOK(x, [req[x] EXCEPT !.at = "users"])
      BY <1>0, <2>1, GoingOn DEF Binding
    <2> QED
      BY <1>0, <2>1, <2>2, RequestFrame
  <1>8. CASE RoleUsersRead(x)
    <2>1. PICK A : GoesOnInvalidating(x, A)
      BY <1>8 DEF RoleUsersRead
    <2>2. req[x] # NoRequest /\ UNCHANGED tables
      BY <1>8 DEF RoleUsersRead, At
    <2> QED
      BY <1>0, <2>1, <2>2, InvalidatingOn, QuietRequest DEF GoesOnInvalidating
  <1>9. ASSUME NEW a \in Admins, InvalidateUserPerms(x, a) PROVE SuperInv'
    <2>1. PICK A : GoesOnInvalidating(x, A)
      BY <1>9 DEF InvalidateUserPerms
    <2>2. req[x] # NoRequest /\ UNCHANGED tables
      BY <1>9 DEF InvalidateUserPerms, At
    <2> QED
      BY <1>0, <2>1, <2>2, InvalidatingOn, QuietRequest DEF GoesOnInvalidating
  <1> QED
    BY <1>1, <1>2, <1>3, <1>4, <1>5, <1>6, <1>7, <1>8, <1>9 DEF RoleStep

\* Steps that leave roles, accounts, bindings and requests alone.
LEMMA Elsewhere ==
    ASSUME SuperInv, UNCHANGED <<role, account, bindings, clients, req>> PROVE SuperInv'
  <1>1. req' = [x \in Requests |-> req'[x]] /\ \A x \in Requests : req'[x] = req[x]
    BY DEF SuperInv
  <1> QED
    BY <1>1, Frame DEF SuperInv

LEMMA PermissionSteps == ASSUME SuperInv, NEW x \in Requests, PermissionStep(x) PROVE SuperInv'
  <1>1. ASSUME NEW p \in Perms, CreatePermission(x, p) \/ RemovePermission(x, p) PROVE SuperInv'
    BY <1>1, Elsewhere DEF CreatePermission, RemovePermission
  <1>2. ASSUME NEW p \in Perms, UpdatePermissionReads(x, p) PROVE SuperInv'
    <2>1. PICK n : n = [op |-> "updatePermission", at |-> "save", admins |-> {}, roles |-> {},
                        perms |-> {p}, enable |-> TRUE, changed |-> FALSE]
      OBVIOUS
    <2>2. req' = [req EXCEPT ![x] = n] /\ "updatePermission" \in clients[x] /\ UNCHANGED tables
      BY <1>2, <2>1 DEF UpdatePermissionReads, Starts, Idle
    <2>3. ReqOK(x, n)
      BY <2>1, <2>2, Starting DEF Binding
    <2> QED
      BY <2>2, <2>3, QuietRequest
  <1>3. CASE UpdatePermissionSaves(x)
    BY <1>3, Ending, RequestFrame DEF UpdatePermissionSaves, Ends, SuperInv
  <1> QED
    BY <1>1, <1>2, <1>3 DEF PermissionStep

LEMMA AdministratorSteps ==
    ASSUME OneBinder, SuperInv, NEW x \in Requests, AdministratorStep(x) PROVE SuperInv'
  <1>0. /\ ReqOK(x, req[x]) /\ role = [r \in Roles |-> role[r]] /\ role[SuperAdmin] = "enabled"
        /\ account = [a \in Admins |-> account[a]] /\ bindings \subseteq Admins \X Roles
        /\ SuperAdmin \in Roles /\ SomeoneIsSuperAdmin
        /\ \A a \in Admins, r \in Roles : <<a, r>> \in bindings => account[a] # "absent"
    BY AccessConstants DEF SuperInv
  <1>1. ASSUME NEW a \in Admins, NEW R \in SUBSET Roles, CreateAdmin(x, a, R) PROVE SuperInv'
    <2>1. /\ account' = [b \in Admins |-> account'[b]] /\ account'[a] = "active" /\ account[a] = "absent"
          /\ \A b \in Admins : account[b] # "absent" => account'[b] # "absent"
          /\ UNCHANGED <<role, bindings, clients>>
      BY <1>0, <1>1 DEF CreateAdmin
    <2>2. CASE R = {}
      <3>1. req' = [y \in Requests |-> req'[y]] /\ \A y \in Requests : req'[y] = req[y]
        BY <1>1, <2>2 DEF CreateAdmin, SuperInv
      <3> QED
        BY <1>0, <2>1, <3>1, Frame
    <2>3. CASE R # {}
      <3>1. PICK n : n = [op |-> "createAdmin", at |-> "exists", admins |-> {a}, roles |-> R, perms |-> {},
                          enable |-> FALSE, changed |-> FALSE]
        OBVIOUS
      <3>2. req' = [req EXCEPT ![x] = n] /\ "createAdmin" \in clients[x]
        BY <1>1, <2>3, <3>1 DEF CreateAdmin, Starts, Idle
      <3>3. \E b \in Admins \ {a} : IsSuper(b)
        BY <1>0, <2>1, SuperIsBound DEF SomeoneIsSuperAdmin
      <3>4. \A b \in Admins : IsSuper(b)' <=> IsSuper(b)
        BY <2>1, <1>0, SuperIsBound, SuperIsBoundNext
      <3>5. ReqOK(x, n)'
        BY <2>1, <3>1, <3>2, <3>3, <3>4 DEF ReqOK, Fields
      <3>6. req'[x] = n /\ req' = [y \in Requests |-> req'[y]] /\ \A y \in Requests \ {x} : req'[y] = req[y]
        BY <3>2 DEF SuperInv
      <3>7. ReqOK(x, req[x])'
        BY <3>5, <3>6 DEF ReqOK, Fields
      <3> QED
        BY <1>0, <2>1, <3>6, <3>7, Frame
    <2> QED
      BY <2>2, <2>3
  <1>2. ASSUME NEW a \in Admins, NEW R \in SUBSET Roles, AssignRolesStarts(x, a, R) PROVE SuperInv'
    <2>1. PICK step, n : /\ step = (IF IsSuper(a) /\ SuperAdmin \notin R THEN "count" ELSE "exists")
                         /\ n = [op |-> "assignRoles", at |-> step, admins |-> {a}, roles |-> R, perms |-> {},
                                 enable |-> FALSE, changed |-> FALSE]
      OBVIOUS
    <2>2. req' = [req EXCEPT ![x] = n] /\ "assignRoles" \in clients[x] /\ UNCHANGED tables /\ account[a] # "absent"
      BY <1>2, <2>1 DEF AssignRolesStarts, Starts, Idle
    <2>3. step = "exists" => SuperAdmin \in R \/ \E b \in Admins \ {a} : IsSuper(b)
      BY <1>0, <2>1 DEF SomeoneIsSuperAdmin
    <2>4. ReqOK(x, n)
      BY <2>1, <2>2, <2>3 DEF ReqOK, Fields
    <2> QED
      BY <2>2, <2>4, QuietRequest
  <1>3. ASSUME NEW a \in Admins, DisableStarts(x, a) PROVE SuperInv'
    <2>1. PICK n : n = [op |-> "disable", at |-> "count", admins |-> {a}, roles |-> {}, perms |-> {},
                        enable |-> FALSE, changed |-> FALSE]
      OBVIOUS
    <2>2. req' = [req EXCEPT ![x] = n] /\ "disable" \in clients[x] /\ UNCHANGED tables
      BY <1>3, <2>1 DEF DisableStarts, Starts, Idle
    <2>3. ReqOK(x, n)
      BY <2>1, <2>2, Starting DEF Binding
    <2> QED
      BY <2>2, <2>3, QuietRequest
  <1>4. ASSUME NEW a \in Admins, EnableAdmin(x, a) PROVE SuperInv'
    <2>1. /\ account' = [b \in Admins |-> account'[b]]
          /\ \A b \in Admins : account[b] # "absent" => account'[b] # "absent"
          /\ UNCHANGED <<role, bindings, clients, req>>
      BY <1>0, <1>4 DEF EnableAdmin
    <2>2. req' = [y \in Requests |-> req'[y]] /\ \A y \in Requests : req'[y] = req[y]
      BY <2>1 DEF SuperInv
    <2> QED
      BY <1>0, <2>1, <2>2, Frame
  <1>5. CASE CountsSuperAdmins(x)
    <2>1. req[x] # NoRequest /\ req[x].op \in {"assignRoles", "disable"} /\ req[x].at = "count" /\ UNCHANGED tables
      BY <1>5 DEF CountsSuperAdmins, At
    <2>2. CASE ~\A a \in req[x].admins : NotLastSuperAdmin(a)
      BY <1>5, <2>1, <2>2, Ending, QuietRequest DEF CountsSuperAdmins, Ends
    <2>3. CASE \A a \in req[x].admins : NotLastSuperAdmin(a)
      <3>1. PICK step : step \in {"save", "exists"} /\ (req[x].op # "disable" => step = "exists")
                        /\ req' = [req EXCEPT ![x] = [req[x] EXCEPT !.at = step]]
        BY <1>5, <2>1, <2>3 DEF CountsSuperAdmins, GoesOn
      <3>2. req[x].op = "assignRoles" =>
                \E a \in Admins : /\ req[x].admins = {a} /\ account[a] # "absent"
                                  /\ \E b \in Admins \ {a} : IsSuper(b)
        BY <1>0, <2>1, <2>3, AnotherOne DEF ReqOK, Binding
      <3>3. ReqOK(x, [req[x] EXCEPT !.at = step])
        BY <1>0, <2>1, <3>1, <3>2, GoingOn DEF Binding
      <3> QED
        BY <2>1, <3>1, <3>3, QuietRequest
    <2> QED
      BY <2>2, <2>3
  <1>6. CASE DisableSaves(x)
    <2>1. /\ account' = [b \in Admins |-> account'[b]]
          /\ \A b \in Admins : account[b] # "absent" => account'[b] # "absent"
          /\ UNCHANGED <<role, bindings, clients>> /\ req' = [req EXCEPT ![x] = NoRequest]
      BY <1>0, <1>6 DEF DisableSaves, Ends
    <2> QED
      BY <1>0, <2>1, Ending, RequestFrame
  <1>7. CASE RolesExist(x)
    <2>1. req[x] # NoRequest /\ req[x].op \in Binding /\ req[x].at = "exists" /\ UNCHANGED tables
      BY <1>7 DEF RolesExist, At, Binding
    <2>2. CASE req' = [req EXCEPT ![x] = NoRequest]
      BY <2>1, <2>2, Ending, QuietRequest
    <2>3. CASE req' = [req EXCEPT ![x] = [req[x] EXCEPT !.at = "commit"]]
      <3>1. ReqOK(x, [req[x] EXCEPT !.at = "commit"])
        BY <1>0, <2>1, GoingOn DEF ReqOK
      <3> QED
        BY <2>1, <2>3, <3>1, QuietRequest
    <2> QED
      BY <1>7, <2>2, <2>3 DEF RolesExist, Ends, GoesOn
  <1>8. CASE AssignRolesCommits(x)
    <2>1. /\ req[x] # NoRequest /\ req[x].op \in Binding /\ req[x].at = "commit"
          /\ UNCHANGED <<role, account, clients>>
          /\ bindings' = {b \in bindings : b[1] \notin req[x].admins} \cup (req[x].admins \X req[x].roles)
      BY <1>8 DEF AssignRolesCommits, At, Binding
    <2>2. PICK a \in Admins : req[x].admins = {a} /\ account[a] # "absent"
      BY <1>0, <2>1 DEF ReqOK
    <2>3. SuperAdmin \in req[x].roles \/ \E b \in Admins \ {a} : IsSuper(b)
      BY <1>0, <2>1, <2>2 DEF ReqOK
    <2>4. SomeoneIsSuperAdmin'
      <3>1. CASE SuperAdmin \in req[x].roles
        BY <1>0, <2>1, <2>2, <3>1, SuperIsBoundNext DEF SomeoneIsSuperAdmin
      <3>2. ASSUME NEW b \in Admins \ {a}, IsSuper(b) PROVE SomeoneIsSuperAdmin'
        <4>1. <<b, SuperAdmin>> \in bindings'
          BY <2>1, <2>2, <3>2, SuperIsBound
        <4> QED
          BY <1>0, <2>1, <4>1, SuperIsBoundNext DEF SomeoneIsSuperAdmin
      <3> QED
        BY <2>3, <3>1, <3>2
    <2>5. PICK n : n = (IF req[x].admins = {} THEN NoRequest
                        ELSE [req[x] EXCEPT !.at = "invalidate", !.admins = req[x].admins])
                   /\ req' = [req EXCEPT ![x] = n]
      BY <1>8 DEF AssignRolesCommits, GoesOnInvalidating
    <2>6. req'[x] = n /\ req' = [y \in Requests |-> req'[y]] /\ \A y \in Requests \ {x} : req'[y] = req[y]
      BY <2>5 DEF SuperInv
    <2>7. ASSUME NEW y \in Requests PROVE ReqOK(y, req[y])'
      <3>1. CASE y = x
        <4>1. PICK m : m = [req[x] EXCEPT !.at = "invalidate", !.admins = req[x].admins]
          OBVIOUS
        <4>2. Fields(m) /\ m.op = req[x].op /\ m.at = "invalidate" /\ m.roles = req[x].roles
          BY <1>0, <2>1, <4>1 DEF ReqOK, Fields
        <4> QED
          BY <1>0, <2>1, <2>5, <2>6, <3>1, <4>1, <4>2 DEF ReqOK, Fields
      <3>2. CASE y # x
        <4>1. ReqOK(y, req[y]) /\ req'[y] = req[y] /\ ReqOK(x, req[x])
          BY <2>6, <3>2 DEF SuperInv
        <4>2. req[y] # NoRequest => req[y].op \notin Binding
          BY <2>1, <3>2, <4>1 DEF OneBinder, ReqOK, SuperInv
        <4> QED
          BY <2>1, <4>1, <4>2 DEF ReqOK, Fields
      <3> QED
        BY <3>1, <3>2
    <2>8. req[x].roles \subseteq Roles
      BY <1>0, <2>1 DEF ReqOK
    <2>9. bindings' \subseteq Admins \X Roles
          /\ \A b \in Admins, r \in Roles : <<b, r>> \in bindings' => account'[b] # "absent"
      BY <1>0, <2>1, <2>2, <2>8
    <2> QED
      BY <1>0, <2>1, <2>4, <2>6, <2>7, <2>9 DEF SuperInv
  <1> QED
    BY <1>1, <1>2, <1>3, <1>4, <1>5, <1>6, <1>7, <1>8 DEF AdministratorStep

LEMMA SuperInvHolds == ASSUME OneBinder PROVE Spec => []SuperInv
  <1>1. Init => SuperInv
    <2> SUFFICES ASSUME Init PROVE SuperInv
      OBVIOUS
    <2>1. SomeoneIsSuperAdmin
      BY AccessConstants DEF Init, SomeoneIsSuperAdmin, IsSuper, RolesOf
    <2> QED
      BY <2>1, AccessConstants DEF Init, SuperInv, ReqOK
  <1>2. SuperInv /\ [Next]_vars => SuperInv'
    <2> SUFFICES ASSUME SuperInv, [Next]_vars PROVE SuperInv'
      OBVIOUS
    <2>1. ASSUME NEW c \in Checks, CheckStep(c) PROVE SuperInv'
      BY <2>1, Elsewhere
      DEF CheckStep, CheckReadsRoles, CheckReadsGrants, CheckReadsCodes, CheckStores, CheckDies, tables
    <2>2. ASSUME NEW x \in Requests, RoleStep(x) PROVE SuperInv'
      BY <2>2, RoleSteps
    <2>3. ASSUME NEW x \in Requests, PermissionStep(x) PROVE SuperInv'
      BY <2>3, PermissionSteps
    <2>4. ASSUME NEW x \in Requests, AdministratorStep(x) PROVE SuperInv'
      BY <2>4, AdministratorSteps
    <2>5. ASSUME NEW x \in Requests, RequestDies(x) PROVE SuperInv'
      BY <2>5, Ending, QuietRequest DEF RequestDies, Ends
    <2>6. ASSUME NEW a \in Admins, CacheExpires(a) PROVE SuperInv'
      BY <2>6, Elsewhere DEF CacheExpires, tables
    <2>7. CASE UNCHANGED vars
      BY <2>7, Elsewhere DEF vars
    <2> QED
      BY <2>1, <2>2, <2>3, <2>4, <2>5, <2>6, <2>7 DEF Next
  <1> QED
    BY <1>1, <1>2, PTL DEF Spec

\* Somebody stays bound to the enabled super administrator role as long as one request at a time
\* changes bindings, whatever else overlaps it and whichever request dies where
\* (AdministratorsService.assignRoles and RoleService).
THEOREM SuperAdminRemains == ASSUME OneBinder PROVE Spec => []SomeoneIsSuperAdmin
  BY SuperInvHolds, PTL DEF SuperInv

-------------------------------------------------------------------------------
(***************************************************************************)
(* AccessControl: grants and cached codes, for any number of administrators,*)
(* roles, permissions, checks and requests.                                *)
(***************************************************************************)

\* Of the requests that are active together, one assigns permissions only if no other one
\* removes a role or a permission.
GrantsApart ==
    \A c \in Profiles : \A x, y \in Requests :
        x # y => "assignPermissions" \notin c[x] \/ c[y] \cap {"removeRole", "removePermission"} = {}

\* A request is one that was asked for, and does not update or remove the system role.
RequestsOK ==
    \A x \in Requests : req[x] # NoRequest =>
        /\ req[x].op \in clients[x]
        /\ req[x].op \in {"updateRole", "removeRole"} => SuperAdmin \notin req[x].roles

\* Grants name rows that are there, and those about to be inserted do too.
GrantsInv ==
    /\ NoDanglingGrant
    /\ \A x \in Requests : At(x, {"assignPermissions"}, "commit") =>
           req[x].roles \subseteq ExistingRoles /\ req[x].perms \subseteq LivePerms

\* Grants, and what is about to be inserted, name rows that were there at some time.
KnownInv ==
    /\ \A r \in Roles, p \in Perms : <<r, p>> \in grants => role[r] # "absent" /\ perm[p] # "absent"
    /\ \A x \in Requests : At(x, {"assignPermissions"}, "commit") =>
           /\ \A r \in req[x].roles : role[r] # "absent"
           /\ \A p \in req[x].perms : perm[p] # "absent"

AccessInv ==
    /\ TypeOK
    /\ RequestsOK
    /\ GrantsApart => GrantsInv
    /\ KnownInv
    /\ CachedCodesAreCurrent
-------------------------------------------------------------------------------
\* What a step of request x does to the requests.
Moved(x) ==
    /\ req' \in [Requests -> Request \cup {NoRequest}]
    /\ \A y \in Requests \ {x} : req'[y] = req[y]

Ended(x) == Moved(x) /\ req'[x] = NoRequest

Became(x, op, step, A, R, P) ==
    /\ Moved(x) /\ req'[x] # NoRequest /\ req'[x].op = op /\ req'[x].at = step
    /\ req'[x].admins = A /\ req'[x].roles = R /\ req'[x].perms = P

LEMMA RequestsAreRecords ==
    ASSUME TypeOK, NEW x \in Requests
    PROVE  /\ req[x] = NoRequest \/ req[x] \in Request
           /\ req \in [Requests -> Request \cup {NoRequest}]
           /\ NoRequest \notin Request
  BY AccessConstants DEF TypeOK

LEMMA StartsIs ==
    ASSUME TypeOK, NEW x \in Requests, NEW op \in AdminOps, NEW step \in ReqSteps, NEW A \in SUBSET Admins,
           NEW R \in SUBSET Roles, NEW P \in SUBSET Perms, NEW enable \in BOOLEAN, NEW changed \in BOOLEAN,
           Starts(x, op, step, A, R, P, enable, changed)
    PROVE  Became(x, op, step, A, R, P) /\ req'[x].enable = enable /\ req'[x].changed = changed
  <1>1. PICK n : n = [op |-> op, at |-> step, admins |-> A, roles |-> R, perms |-> P, enable |-> enable,
                      changed |-> changed]
    OBVIOUS
  <1>2. n \in Request
    BY <1>1 DEF Request
  <1>3. req' = [req EXCEPT ![x] = n]
    BY <1>1 DEF Starts
  <1>4. req'[x] = n /\ n # NoRequest
    BY <1>2, <1>3, RequestsAreRecords
  <1>5. Moved(x)
    BY <1>2, <1>3, RequestsAreRecords DEF Moved
  <1> QED
    BY <1>1, <1>4, <1>5 DEF Became

LEMMA GoesOnIs ==
    ASSUME TypeOK, NEW x \in Requests, req[x] # NoRequest, NEW step \in ReqSteps, GoesOn(x, step)
    PROVE  Became(x, req[x].op, step, req[x].admins, req[x].roles, req[x].perms)
           /\ req'[x].enable = req[x].enable /\ req'[x].changed = req[x].changed
  <1>1. PICK n : n = [req[x] EXCEPT !.at = step]
    OBVIOUS
  <1>2. n \in Request /\ n.op = req[x].op /\ n.at = step /\ n.admins = req[x].admins /\ n.roles = req[x].roles
        /\ n.perms = req[x].perms /\ n.enable = req[x].enable /\ n.changed = req[x].changed
    BY <1>1, RequestsAreRecords DEF Request
  <1>3. req' = [req EXCEPT ![x] = n]
    BY <1>1 DEF GoesOn
  <1>4. req'[x] = n /\ n # NoRequest
    BY <1>2, <1>3, RequestsAreRecords
  <1>5. Moved(x)
    BY <1>2, <1>3, RequestsAreRecords DEF Moved
  <1> QED
    BY <1>2, <1>4, <1>5 DEF Became

LEMMA EndsIs ==
    ASSUME TypeOK, NEW x \in Requests, Ends(x) PROVE Ended(x)
  BY RequestsAreRecords DEF Ends, Ended, Moved

LEMMA InvalidatingIs ==
    ASSUME TypeOK, NEW x \in Requests, req[x] # NoRequest, NEW A \in SUBSET Admins, GoesOnInvalidating(x, A)
    PROVE  \/ A = {} /\ Ended(x)
           \/ A # {} /\ Became(x, req[x].op, "invalidate", A, req[x].roles, req[x].perms)
  <1>1. CASE A = {}
    BY <1>1, EndsIs DEF GoesOnInvalidating, Ends
  <1>2. CASE A # {}
    <2>1. PICK n : n = [req[x] EXCEPT !.at = "invalidate", !.admins = A]
      OBVIOUS
    <2>2. n \in Request /\ n.op = req[x].op /\ n.at = "invalidate" /\ n.admins = A /\ n.roles = req[x].roles
          /\ n.perms = req[x].perms
      BY <2>1, RequestsAreRecords DEF Request, ReqSteps
    <2>3. req' = [req EXCEPT ![x] = n]
      BY <1>2, <2>1 DEF GoesOnInvalidating
    <2>4. req'[x] = n /\ n # NoRequest
      BY <2>2, <2>3, RequestsAreRecords
    <2>5. Moved(x)
      BY <2>2, <2>3, RequestsAreRecords DEF Moved
    <2> QED
      BY <1>2, <2>2, <2>4, <2>5 DEF Became
  <1> QED
    BY <1>1, <1>2
-------------------------------------------------------------------------------
\* What one step of request x leaves of the parts of the invariant.
LEMMA RequestsFrame ==
    ASSUME RequestsOK, clients' = clients, NEW x \in Requests, Moved(x),
           req'[x] # NoRequest =>
               /\ req'[x].op \in clients[x]
               /\ req'[x].op \in {"updateRole", "removeRole"} => SuperAdmin \notin req'[x].roles
    PROVE  RequestsOK'
  BY DEF RequestsOK, Moved

LEMMA GrantsFrame ==
    ASSUME GrantsInv, grants' \subseteq grants, ExistingRoles \subseteq ExistingRoles', LivePerms \subseteq LivePerms',
           NEW x \in Requests, Moved(x),
           req'[x] = NoRequest \/ req'[x].op # "assignPermissions" \/ req'[x].at # "commit"
    PROVE  GrantsInv'
  BY DEF GrantsInv, NoDanglingGrant, Moved, At

LEMMA KnownFrame ==
    ASSUME KnownInv, TypeOK, grants' \subseteq grants,
           \A r \in Roles : role[r] # "absent" => role'[r] # "absent",
           \A p \in Perms : perm[p] # "absent" => perm'[p] # "absent",
           NEW x \in Requests, Moved(x),
           req'[x] = NoRequest \/ req'[x].op # "assignPermissions" \/ req'[x].at # "commit"
    PROVE  KnownInv'
  <1> SUFFICES ASSUME NEW y \in Requests, At(y, {"assignPermissions"}, "commit")'
               PROVE  /\ \A r \in req'[y].roles : role'[r] # "absent"
                      /\ \A p \in req'[y].perms : perm'[p] # "absent"
    BY DEF KnownInv
  <1>1. y # x /\ req'[y] = req[y]
    BY DEF Moved, At
  <1>2. req[y].roles \subseteq Roles /\ req[y].perms \subseteq Perms
    BY <1>1, RequestsAreRecords DEF Request, At
  <1> QED
    BY <1>1, <1>2 DEF KnownInv, At

\* The cached codes stay current if whoever's codes change, or loses a request that would have
\* deleted them, has none cached, is suspect, or has his deletion on its way.
LEMMA CodesFrame ==
    ASSUME CachedCodesAreCurrent,
           \A a \in Admins : \/ cache'[a] = NoCache
                             \/ cache'[a] = cache[a] /\ (a \in suspect => a \in suspect'),
           \A a \in Admins : cache'[a] # NoCache =>
               Codes(a)' = Codes(a) \/ a \in suspect' \/ \E y \in Requests : a \in ToInvalidate(y)',
           \A a \in Admins, y \in Requests : cache'[a] # NoCache /\ a \in ToInvalidate(y) =>
               a \in suspect' \/ \E z \in Requests : a \in ToInvalidate(z)'
    PROVE  CachedCodesAreCurrent'
  <1> SUFFICES ASSUME NEW a \in Admins, cache'[a] # NoCache, a \notin suspect',
                      ~\E y \in Requests : a \in ToInvalidate(y)'
               PROVE  cache'[a].codes = Codes(a)'
    BY DEF CachedCodesAreCurrent
  <1>1. cache'[a] = cache[a] /\ a \notin suspect /\ Codes(a)' = Codes(a)
    OBVIOUS
  <1>2. ~\E y \in Requests : a \in ToInvalidate(y)
    OBVIOUS
  <1> QED
    BY <1>1, <1>2 DEF CachedCodesAreCurrent

LEMMA OthersWait ==
    ASSUME NEW x \in Requests, Moved(x), bindings' = bindings, NEW y \in Requests, y # x
    PROVE  ToInvalidate(y)' = ToInvalidate(y)
  <1>1. req'[y] = req[y]
    BY DEF Moved
  <1>2. \A r : UsersOf(r)' = UsersOf(r)
    BY DEF UsersOf
  <1>3. UNION {UsersOf(r)' : r \in req[y].roles} = UNION {UsersOf(r) : r \in req[y].roles}
    BY <1>2
  <1> QED
    BY <1>1, <1>3 DEF ToInvalidate, At

\* What is on its way for whom.
LEMMA Waiting ==
    ASSUME TypeOK, NEW x \in Requests
    PROVE  /\ req[x] = NoRequest => ToInvalidate(x) = {}
           /\ req[x] # NoRequest /\ req[x].at \notin {"users", "invalidate"} => ToInvalidate(x) = {}
           /\ req[x] # NoRequest /\ req[x].at = "invalidate" => ToInvalidate(x) = req[x].admins
           /\ req[x] # NoRequest /\ req[x].at = "users" => ToInvalidate(x) = UNION {UsersOf(r) : r \in req[x].roles}
  BY RequestsAreRecords DEF ToInvalidate, At, Request

LEMMA WaitingNext ==
    ASSUME NEW x \in Requests, Moved(x), NoRequest \notin Request
    PROVE  /\ req'[x] # NoRequest /\ req'[x].at = "invalidate" => ToInvalidate(x)' = req'[x].admins
           /\ req'[x] # NoRequest /\ req'[x].at = "users" => ToInvalidate(x)' = UNION {UsersOf(r)' : r \in req'[x].roles}
  <1>1. req'[x] # NoRequest => req'[x].op \in AdminOps
    BY DEF Moved, Request
  <1> QED
    BY <1>1 DEF ToInvalidate, At

\* A step of a request that deletes nobody's codes and changes nobody's.
LEMMA CodesQuiet ==
    ASSUME TypeOK, CachedCodesAreCurrent, NEW x \in Requests, Moved(x), UNCHANGED <<bindings, cache, suspect>>,
           \A a \in Admins : Codes(a)' = Codes(a), ToInvalidate(x) = {}
    PROVE  CachedCodesAreCurrent'
  <1>1. \A a \in Admins, y \in Requests : a \in ToInvalidate(y) => a \in ToInvalidate(y)'
    BY OthersWait
  <1> QED
    BY <1>1, CodesFrame
-------------------------------------------------------------------------------
\* A step of a request that changes accounts at most, and ends, starts or goes on with the request.
LEMMA RequestOnly ==
    ASSUME AccessInv, UNCHANGED <<role, perm, grants, bindings, clients, cache, check, suspect>>,
           account' \in [Admins -> AccountStates], NEW x \in Requests, Moved(x), ToInvalidate(x) = {},
           req'[x] # NoRequest =>
               /\ req'[x].op \in clients[x]
               /\ req'[x].op \in {"updateRole", "removeRole"} => SuperAdmin \notin req'[x].roles
               /\ req'[x].op = "assignPermissions" => req'[x].at # "commit"
    PROVE  AccessInv'
  <1>1. TypeOK'
    BY DEF AccessInv, TypeOK, Moved
  <1>2. RequestsOK'
    BY RequestsFrame DEF AccessInv
  <1>3. ExistingRoles' = ExistingRoles /\ LivePerms' = LivePerms
    BY DEF ExistingRoles, LivePerms
  <1>4. ASSUME GrantsInv PROVE GrantsInv'
    BY <1>3, <1>4, GrantsFrame
  <1>5. ASSUME KnownInv PROVE KnownInv'
    BY <1>5, KnownFrame DEF AccessInv
  <1>6. ASSUME CachedCodesAreCurrent PROVE CachedCodesAreCurrent'
    <2>1. \A a \in Admins : Codes(a)' = Codes(a)
      BY <1>3 DEF Codes, RolesOf
    <2> QED
      BY <1>6, <2>1, CodesQuiet DEF AccessInv
  <1> QED
    BY <1>1, <1>2, <1>4, <1>5, <1>6 DEF AccessInv

\* A step that leaves the requests and whatever the codes depend on alone.
LEMMA TablesOnly ==
    ASSUME AccessInv, UNCHANGED <<tables, req>>, TypeOK',
           \A a \in Admins : \/ cache'[a] = NoCache
                             \/ cache'[a] = cache[a] /\ (a \in suspect => a \in suspect')
                             \/ cache'[a].codes = Codes(a) \/ a \in suspect'
    PROVE  AccessInv'
  <1>1. RequestsOK'
    BY DEF AccessInv, RequestsOK, tables
  <1>2. GrantsInv => GrantsInv'
    BY DEF GrantsInv, NoDanglingGrant, At, ExistingRoles, LivePerms, tables
  <1>3. KnownInv => KnownInv'
    BY DEF KnownInv, At, tables
  <1>4. \A a \in Admins : Codes(a)' = Codes(a)
    BY DEF tables, Codes, RolesOf, LivePerms
  <1>5. \A y \in Requests : ToInvalidate(y)' = ToInvalidate(y)
    BY DEF tables, ToInvalidate, At, UsersOf
  <1>6. CachedCodesAreCurrent => CachedCodesAreCurrent'
    BY <1>4, <1>5 DEF CachedCodesAreCurrent
  <1> QED
    BY <1>1, <1>2, <1>3, <1>6 DEF AccessInv

\* The guard checks, and the time to live of what is cached.
LEMMA AccessCheckStep ==
    ASSUME AccessInv, NEW c \in Checks, CheckStep(c)
    PROVE  AccessInv'
  <1>0. TypeOK /\ (check[c] # NoCheck => check[c] \in Check)
    BY DEF AccessInv, TypeOK
  <1>1. ASSUME NEW n \in Check \cup {NoCheck}, check' = [check EXCEPT ![c] = n], UNCHANGED <<tables, cache, req, suspect>>
        PROVE  AccessInv'
    <2>1. TypeOK'
      BY <1>0, <1>1 DEF TypeOK, tables
    <2> QED
      BY <1>1, <2>1, TablesOnly
  <1>2. ASSUME NEW a \in Admins, CheckReadsRoles(c, a)
        PROVE  AccessInv'
    <2>1. PICK n : n = [admin |-> a, roles |-> RolesOf(a), perms |-> {},
                        at |-> IF RolesOf(a) = {} THEN "store" ELSE "grants"]
      OBVIOUS
    <2>2. n \in Check
      BY <2>1 DEF Check, RolesOf
    <2> QED
      BY <1>1, <1>2, <2>1, <2>2 DEF CheckReadsRoles
  <1>3. CASE CheckReadsGrants(c)
    <2>1. PICK found \in SUBSET Perms :
              check' = [check EXCEPT ![c] = [check[c] EXCEPT !.perms = found, !.roles = {},
                                                  !.at = IF found = {} THEN "store" ELSE "codes"]]
      <3>1. PICK found : /\ found = {p \in Perms : \E r \in check[c].roles : <<r, p>> \in grants}
                           /\ check' = [check EXCEPT ![c].perms = found, ![c].roles = {},
                                                     ![c].at = IF found = {} THEN "store" ELSE "codes"]
        BY <1>3 DEF CheckReadsGrants
      <3>2. found \in SUBSET Perms
        BY <3>1
      <3>3. check' = [check EXCEPT ![c] = [check[c] EXCEPT !.perms = found, !.roles = {},
                                                        !.at = IF found = {} THEN "store" ELSE "codes"]]
        BY <3>1, <1>0 DEF TypeOK
      <3> QED
        BY <3>2, <3>3
    <2>2. PICK n : n = [check[c] EXCEPT !.perms = found, !.roles = {}, !.at = IF found = {} THEN "store" ELSE "codes"]
      OBVIOUS
    <2>3. n \in Check
      BY <1>0, <1>3, <2>2 DEF Check, CheckReadsGrants
    <2> QED
      BY <1>1, <1>3, <2>1, <2>2, <2>3 DEF CheckReadsGrants
  <1>4. CASE CheckReadsCodes(c)
    <2>1. PICK n : n = [check[c] EXCEPT !.perms = check[c].perms \cap LivePerms, !.at = "store"]
      OBVIOUS
    <2>2. check' = [check EXCEPT ![c] = n]
      BY <1>0, <1>4, <2>1 DEF CheckReadsCodes, TypeOK
    <2>3. n \in Check
      BY <1>0, <1>4, <2>1 DEF Check, CheckReadsCodes
    <2> QED
      BY <1>1, <1>4, <2>2, <2>3 DEF CheckReadsCodes
  <1>5. CASE CheckStores(c)
    <2>1. PICK a \in Admins, P \in SUBSET Perms : a = check[c].admin /\ P = check[c].perms
      BY <1>0, <1>5 DEF CheckStores, Check
    <2>2. /\ cache' = [cache EXCEPT ![a] = [codes |-> P]]
          /\ suspect' = IF P = Codes(a) THEN suspect \ {a} ELSE suspect \cup {a}
          /\ check' = [check EXCEPT ![c] = NoCheck] /\ UNCHANGED <<tables, req>>
      BY <1>5, <2>1 DEF CheckStores
    <2>3. PICK entry : entry = [codes |-> P] /\ entry \in Entry /\ entry.codes = P /\ entry # NoCache
      <3>1. [codes |-> P] \in Entry
        BY DEF Entry
      <3>2. [codes |-> P] # NoCache
        BY <3>1, AccessConstants
      <3> QED
        BY <3>1, <3>2
    <2>4. cache' \in [Admins -> Entry \cup {NoCache}] /\ cache'[a] = entry /\ \A b \in Admins \ {a} : cache'[b] = cache[b]
      BY <1>0, <2>2, <2>3 DEF TypeOK
    <2>5. check' \in [Checks -> Check \cup {NoCheck}]
      BY <1>0, <2>2 DEF TypeOK
    <2>6. suspect' \subseteq {b \in Admins : cache'[b] # NoCache}
      BY <1>0, <2>2, <2>3, <2>4 DEF TypeOK
    <2>7. TypeOK'
      BY <1>0, <2>2, <2>4, <2>5, <2>6 DEF TypeOK, tables
    <2>8. \A b \in Admins : \/ cache'[b] = cache[b] /\ (b \in suspect => b \in suspect')
                            \/ cache'[b].codes = Codes(b) \/ b \in suspect'
      BY <2>2, <2>3, <2>4
    <2> QED
      BY <2>2, <2>7, <2>8, TablesOnly
  <1>6. CASE CheckDies(c)
    BY <1>1, <1>6 DEF CheckDies
  <1> QED
    BY <1>2, <1>3, <1>4, <1>5, <1>6 DEF CheckStep

LEMMA AccessCacheExpires ==
    ASSUME AccessInv, NEW a \in Admins, CacheExpires(a)
    PROVE  AccessInv'
  <1>1. cache' \in [Admins -> Entry \cup {NoCache}] /\ cache'[a] = NoCache /\ \A b \in Admins \ {a} : cache'[b] = cache[b]
    BY DEF CacheExpires, AccessInv, TypeOK
  <1>2. TypeOK'
    BY <1>1 DEF CacheExpires, AccessInv, TypeOK, tables
  <1> QED
    BY <1>1, <1>2, TablesOnly DEF CacheExpires
-------------------------------------------------------------------------------
\* Nobody's codes depend on a row that no grant names.
LEMMA SameCodes ==
    ASSUME UNCHANGED <<grants, bindings>>,
           \A r \in Roles, p \in Perms : <<r, p>> \in grants =>
               /\ role'[r] = "enabled" <=> role[r] = "enabled"
               /\ perm'[p] = "live" <=> perm[p] = "live"
    PROVE  \A a \in Admins : Codes(a)' = Codes(a)
  BY DEF Codes, RolesOf, LivePerms

\* What is about to happen to a request that has not committed is nobody's deletion.
LEMMA NotYet ==
    ASSUME TypeOK, NEW x \in Requests, NEW ops, NEW step \in ReqSteps \ {"users", "invalidate"}, At(x, ops, step)
    PROVE  ToInvalidate(x) = {}
  BY Waiting DEF At

LEMMA IdleIs ==
    ASSUME NEW x \in Requests, NEW op, Idle(x, op), TypeOK
    PROVE  req[x] = NoRequest /\ op \in clients[x] /\ ToInvalidate(x) = {} /\ (req' = req => Moved(x))
  BY Waiting DEF Idle, Moved, TypeOK

LEMMA AccessCreateRole ==
    ASSUME AccessInv, NEW x \in Requests, NEW r \in Roles, CreateRole(x, r)
    PROVE  AccessInv'
  <1>0. TypeOK /\ RequestsOK /\ role[r] = "absent" /\ req[x] = NoRequest /\ req' = req /\ Moved(x) /\ ToInvalidate(x) = {}
    BY IdleIs DEF AccessInv, CreateRole, RoleCodeTaken
  <1>1. UNCHANGED <<perm, account, grants, bindings, cache, check, suspect, clients>>
        /\ role'[r] = "enabled" /\ \A q \in Roles \ {r} : role'[q] = role[q]
    BY <1>0 DEF CreateRole, TypeOK
  <1>2. TypeOK'
    BY <1>0, AccessConstants DEF CreateRole, TypeOK, RoleStates
  <1>3. RequestsOK'
    BY <1>0, <1>1, RequestsFrame
  <1>4. ExistingRoles \subseteq ExistingRoles' /\ LivePerms' = LivePerms
    BY <1>0, <1>1 DEF ExistingRoles, LivePerms
  <1>5. ASSUME GrantsInv PROVE GrantsInv'
    BY <1>0, <1>1, <1>4, <1>5, GrantsFrame
  <1>6. ASSUME KnownInv PROVE KnownInv'
    <2>1. \A q \in Roles : role[q] # "absent" => role'[q] # "absent"
      BY <1>0, <1>1
    <2> QED
      BY <1>0, <1>1, <1>6, <2>1, KnownFrame
  <1>7. ASSUME KnownInv, CachedCodesAreCurrent PROVE CachedCodesAreCurrent'
    <2>1. \A q \in Roles, p \in Perms : <<q, p>> \in grants => role'[q] = role[q] /\ perm'[p] = perm[p]
      BY <1>0, <1>1, <1>7 DEF KnownInv
    <2>2. \A a \in Admins : Codes(a)' = Codes(a)
      BY <1>1, <2>1, SameCodes
    <2> QED
      BY <1>0, <1>1, <1>7, <2>2, CodesQuiet
  <1> QED
    BY <1>2, <1>3, <1>5, <1>6, <1>7 DEF AccessInv

LEMMA AccessUpdateRoleReads ==
    ASSUME AccessInv, NEW x \in Requests, NEW r \in Roles, UpdateRoleReads(x, r)
    PROVE  AccessInv'
  <1>0. TypeOK /\ RequestsOK /\ "updateRole" \in clients[x] /\ ToInvalidate(x) = {}
        /\ r \in ExistingRoles /\ r # SuperAdmin
    BY IdleIs DEF AccessInv, UpdateRoleReads
  <1>1. UNCHANGED <<role, perm, account, grants, bindings, clients, cache, check, suspect>>
    BY DEF UpdateRoleReads, tables
  <1>2. PICK enable \in BOOLEAN :
            /\ Became(x, "updateRole", "save", {}, {r}, {})
            /\ req'[x].enable = enable /\ req'[x].changed = (enable # (role[r] = "enabled"))
    <2>1. PICK enable \in BOOLEAN :
              Starts(x, "updateRole", "save", {}, {r}, {}, enable, enable # (role[r] = "enabled"))
      BY DEF UpdateRoleReads
    <2>2. PICK changed \in BOOLEAN : changed = (enable # (role[r] = "enabled"))
      OBVIOUS
    <2>3. Starts(x, "updateRole", "save", {}, {r}, {}, enable, changed)
      BY <2>1, <2>2
    <2>4. "updateRole" \in AdminOps /\ "save" \in ReqSteps
      BY DEF AdminOps, ReqSteps
    <2>5. Became(x, "updateRole", "save", {}, {r}, {}) /\ req'[x].enable = enable /\ req'[x].changed = changed
      BY <1>0, <2>3, <2>4, StartsIs
    <2> QED
      BY <2>2, <2>5
  <1>3. Moved(x) /\ req'[x].op = "updateRole" /\ req'[x].at = "save" /\ req'[x].roles = {r}
    BY <1>2 DEF Became
  <1> QED
    BY <1>0, <1>1, <1>3, RequestOnly DEF TypeOK

LEMMA AccessUpdateRoleSaves ==
    ASSUME AccessInv, NEW x \in Requests, UpdateRoleSaves(x)
    PROVE  AccessInv'
  <1> DEFINE R == req[x].roles
  <1>0. /\ TypeOK /\ RequestsOK /\ req[x] # NoRequest /\ req[x].op = "updateRole" /\ req[x].at = "save"
        /\ R \subseteq Roles /\ SuperAdmin \notin R /\ "updateRole" \in clients[x] /\ ToInvalidate(x) = {}
    <2>1. TypeOK /\ RequestsOK /\ req[x] # NoRequest /\ req[x].op = "updateRole" /\ req[x].at = "save"
      BY DEF AccessInv, UpdateRoleSaves, At
    <2>2. R \subseteq Roles
      BY <2>1, RequestsAreRecords DEF Request
    <2>3. ToInvalidate(x) = {}
      BY <2>1, Waiting
    <2> QED
      BY <2>1, <2>2, <2>3 DEF RequestsOK
  <1>1. /\ UNCHANGED <<perm, account, grants, bindings, cache, check, clients>>
        /\ role' = [r \in Roles |-> IF r \notin R THEN role[r] ELSE IF req[x].enable THEN "enabled" ELSE "disabled"]
    BY DEF UpdateRoleSaves
  <1>s. suspect' = suspect \cup {a \in Admins : /\ cache[a] # NoCache /\ ~req[x].changed
                                              /\ \E r \in R : a \in UsersOf(r) /\ role'[r] # role[r]}
    BY DEF UpdateRoleSaves
  <1>2. \/ req[x].changed /\ Became(x, "updateRole", "users", req[x].admins, R, req[x].perms)
        \/ ~req[x].changed /\ Ended(x)
    <2>1. CASE req[x].changed
      <3>1. GoesOn(x, "users")
        BY <2>1 DEF UpdateRoleSaves
      <3> QED
        BY <1>0, <2>1, <3>1, GoesOnIs DEF ReqSteps
    <2>2. CASE ~req[x].changed
      BY <1>0, <2>2, EndsIs DEF UpdateRoleSaves
    <2> QED
      BY <2>1, <2>2
  <1>3. Moved(x) /\ (req'[x] # NoRequest => req'[x].op = "updateRole" /\ req'[x].at = "users" /\ req'[x].roles = R)
    BY <1>2 DEF Became, Ended
  <1>4. TypeOK'
    <2>1. role' \in [Roles -> RoleStates] /\ role'[SuperAdmin] = "enabled"
      BY <1>0, <1>1, AccessConstants DEF TypeOK, RoleStates
    <2>2. suspect' \subseteq {a \in Admins : cache'[a] # NoCache}
      BY <1>0, <1>1, <1>s DEF TypeOK
    <2> QED
      BY <1>0, <1>1, <1>3, <2>1, <2>2 DEF TypeOK, Moved
  <1>5. RequestsOK'
    BY <1>0, <1>1, <1>3, RequestsFrame
  <1>6. ExistingRoles \subseteq ExistingRoles' /\ LivePerms' = LivePerms
    BY <1>1 DEF ExistingRoles, LivePerms
  <1>7. ASSUME GrantsInv PROVE GrantsInv'
    BY <1>1, <1>3, <1>6, <1>7, GrantsFrame
  <1>8. ASSUME KnownInv PROVE KnownInv'
    <2>1. \A r \in Roles : role[r] # "absent" => role'[r] # "absent"
      BY <1>1
    <2> QED
      BY <1>0, <1>1, <1>3, <1>8, <2>1, KnownFrame
  <1>9. ASSUME CachedCodesAreCurrent PROVE CachedCodesAreCurrent'
    <2>1. ASSUME NEW a \in Admins, ~\E r \in R : <<a, r>> \in bindings /\ role'[r] # role[r]
          PROVE  Codes(a)' = Codes(a)
      <3>1. RolesOf(a)' = RolesOf(a)
        BY <1>1, <2>1 DEF RolesOf
      <3> QED
        BY <1>1, <3>1 DEF Codes, LivePerms
    <2>2. ASSUME NEW a \in Admins, cache'[a] # NoCache, NEW r \in R, <<a, r>> \in bindings, role'[r] # role[r]
          PROVE  a \in suspect' \/ a \in ToInvalidate(x)'
      <3>1. CASE ~req[x].changed
        BY <1>1, <1>s, <2>2, <3>1 DEF UsersOf
      <3>2. CASE req[x].changed
        <4>1. req'[x] # NoRequest /\ req'[x].at = "users" /\ req'[x].roles = R
          BY <1>2, <3>2 DEF Became
        <4>2. ToInvalidate(x)' = UNION {UsersOf(q)' : q \in R}
          BY <1>3, <4>1, WaitingNext, AccessConstants
        <4> QED
          BY <1>1, <2>2, <4>2 DEF UsersOf
      <3> QED
        BY <3>1, <3>2
    <2>3. \A a \in Admins, y \in Requests : a \in ToInvalidate(y) => \E z \in Requests : a \in ToInvalidate(z)'
      BY <1>0, <1>1, <1>3, OthersWait
    <2>4. \A a \in Admins : cache'[a] = cache[a] /\ (a \in suspect => a \in suspect')
      BY <1>1, <1>s
    <2> QED
      BY <1>9, <2>1, <2>2, <2>3, <2>4, CodesFrame
  <1> QED
    BY <1>4, <1>5, <1>7, <1>8, <1>9 DEF AccessInv

LEMMA AccessRemoveRoleReads ==
    ASSUME AccessInv, NEW x \in Requests, NEW r \in Roles, RemoveRoleReads(x, r)
    PROVE  AccessInv'
  <1>1. TypeOK /\ "removeRole" \in clients[x] /\ ToInvalidate(x) = {} /\ r # SuperAdmin /\ UsersOf(r) \subseteq Admins
    BY IdleIs DEF AccessInv, RemoveRoleReads, UsersOf
  <1>2. "removeRole" \in AdminOps /\ "commit" \in ReqSteps
    BY DEF AdminOps, ReqSteps
  <1>3. Became(x, "removeRole", "commit", UsersOf(r), {r}, {})
    <2>1. Starts(x, "removeRole", "commit", UsersOf(r), {r}, {}, FALSE, FALSE)
      BY DEF RemoveRoleReads
    <2> QED
      BY <1>1, <1>2, <2>1, StartsIs
  <1> QED
    BY <1>1, <1>3, RequestOnly DEF Became, RemoveRoleReads, tables, TypeOK

LEMMA AccessRemoveRoleCommits ==
    ASSUME AccessInv, NEW x \in Requests, RemoveRoleCommits(x)
    PROVE  AccessInv'
  <1> DEFINE A == req[x].admins
  <1>0. /\ TypeOK /\ RequestsOK /\ req[x] # NoRequest /\ req[x].op = "removeRole" /\ "removeRole" \in clients[x]
        /\ SuperAdmin \notin req[x].roles /\ req[x].roles \subseteq Roles /\ A \subseteq Admins /\ ToInvalidate(x) = {}
    <2>1. TypeOK /\ RequestsOK /\ req[x] # NoRequest /\ req[x].op = "removeRole" /\ req[x].at = "commit"
      BY DEF AccessInv, RemoveRoleCommits, At
    <2>2. req[x].roles \subseteq Roles /\ A \subseteq Admins
      BY <2>1, RequestsAreRecords DEF Request
    <2>3. ToInvalidate(x) = {}
      BY <2>1, Waiting
    <2> QED
      BY <2>1, <2>2, <2>3 DEF RequestsOK
  <1>1. PICK r \in req[x].roles :
            /\ role' = [role EXCEPT ![r] = "deleted"]
            /\ bindings' = {b \in bindings : b[2] # r}
            /\ grants' = {g \in grants : g[1] # r}
            /\ suspect' = suspect \cup {a \in UsersOf(r) \ A : cache[a] # NoCache}
    BY DEF RemoveRoleCommits
  <1>2. UNCHANGED <<perm, account, cache, check, clients>>
    BY DEF RemoveRoleCommits
  <1>3. \/ A = {} /\ Ended(x)
        \/ A # {} /\ Became(x, "removeRole", "invalidate", A, req[x].roles, req[x].perms)
    BY <1>0, InvalidatingIs DEF RemoveRoleCommits
  <1>4. Moved(x) /\ (req'[x] # NoRequest => req'[x].op = "removeRole" /\ req'[x].roles = req[x].roles)
    BY <1>3 DEF Became, Ended
  <1>5. role'[r] = "deleted" /\ r # SuperAdmin /\ r \in Roles /\ \A q \in Roles \ {r} : role'[q] = role[q]
    BY <1>0, <1>1 DEF TypeOK
  <1>6. TypeOK'
    <2>1. role' \in [Roles -> RoleStates] /\ role'[SuperAdmin] = "enabled"
      BY <1>0, <1>1, <1>5, AccessConstants DEF TypeOK, RoleStates
    <2>2. grants' \subseteq grants /\ bindings' \subseteq bindings
      BY <1>1
    <2>3. suspect' \subseteq {a \in Admins : cache'[a] # NoCache}
      BY <1>0, <1>1, <1>2 DEF TypeOK, UsersOf
    <2> QED
      BY <1>0, <1>2, <1>4, <2>1, <2>2, <2>3 DEF TypeOK, Moved
  <1>7. RequestsOK'
    BY <1>0, <1>2, <1>4, RequestsFrame
  <1>8. ASSUME GrantsApart, GrantsInv PROVE GrantsInv'
    <2>1. NoDanglingGrant'
      <3> SUFFICES ASSUME NEW g \in grants' PROVE g[1] \in ExistingRoles' /\ g[2] \in LivePerms'
        BY DEF NoDanglingGrant
      <3>1. g[1] # r /\ g[1] \in ExistingRoles /\ g[2] \in LivePerms
        BY <1>1, <1>8 DEF GrantsInv, NoDanglingGrant
      <3> QED
        BY <1>2, <1>5, <3>1 DEF ExistingRoles, LivePerms
    <2>2. ASSUME NEW y \in Requests, At(y, {"assignPermissions"}, "commit")' PROVE FALSE
      <3>1. y # x /\ req'[y] = req[y] /\ req[y] # NoRequest /\ req[y].op = "assignPermissions"
        BY <1>4, <2>2 DEF Moved, At
      <3>2. "assignPermissions" \in clients[y] /\ clients \in Profiles
        BY <1>0, <3>1 DEF RequestsOK, TypeOK
      <3> QED
        BY <1>0, <1>8, <3>1, <3>2 DEF GrantsApart
    <2> QED
      BY <2>1, <2>2 DEF GrantsInv
  <1>9. ASSUME KnownInv PROVE KnownInv'
    <2>1. \A q \in Roles : role[q] # "absent" => role'[q] # "absent"
      BY <1>5
    <2>2. grants' \subseteq grants
      BY <1>1
    <2> QED
      BY <1>0, <1>2, <1>4, <1>9, <2>1, <2>2, KnownFrame
  <1>10. ASSUME CachedCodesAreCurrent PROVE CachedCodesAreCurrent'
    <2>1. ASSUME NEW a \in Admins, a \in UsersOf(r), cache'[a] # NoCache
          PROVE  a \in suspect' \/ a \in ToInvalidate(x)'
      <3>1. CASE a \in A
        <4>1. req'[x] # NoRequest /\ req'[x].at = "invalidate" /\ req'[x].admins = A
          BY <1>3, <3>1 DEF Became
        <4> QED
          BY <1>4, <3>1, <4>1, WaitingNext, AccessConstants
      <3>2. CASE a \notin A
        BY <1>1, <1>2, <2>1, <3>2
      <3> QED
        BY <3>1, <3>2
    <2>2. ASSUME NEW a \in Admins, a \notin UsersOf(r) PROVE Codes(a)' = Codes(a)
      <3>1. RolesOf(a)' = RolesOf(a) /\ r \notin RolesOf(a)
        BY <1>1, <1>5, <2>2 DEF RolesOf, UsersOf
      <3>2. LivePerms' = LivePerms
        BY <1>2 DEF LivePerms
      <3> QED
        BY <1>1, <3>1, <3>2 DEF Codes
    <2>3. ASSUME NEW a \in Admins, NEW y \in Requests, a \in ToInvalidate(y), a \notin UsersOf(r)
          PROVE  a \in ToInvalidate(y)'
      <3>1. y # x /\ req'[y] = req[y]
        BY <1>0, <1>4, <2>3 DEF Moved
      <3>2. \A q : a \in UsersOf(q) => a \in UsersOf(q)'
        <4> SUFFICES ASSUME NEW q, a \in UsersOf(q) PROVE a \in UsersOf(q)'
          OBVIOUS
        <4>1. q # r /\ <<a, q>> \in bindings
          BY <2>3 DEF UsersOf
        <4>2. <<a, q>> \in bindings'
          BY <1>1, <4>1
        <4> QED
          BY <4>2 DEF UsersOf
      <3>3. a \in UNION {UsersOf(q) : q \in req[y].roles} => a \in UNION {UsersOf(q)' : q \in req[y].roles}
        BY <3>2
      <3> QED
        BY <2>3, <3>1, <3>3 DEF ToInvalidate, At
    <2>4. \A a \in Admins : \/ cache'[a] = NoCache
                            \/ cache'[a] = cache[a] /\ (a \in suspect => a \in suspect')
      BY <1>1, <1>2
    <2> QED
      BY <1>10, <2>1, <2>2, <2>3, <2>4, CodesFrame
  <1> QED
    BY <1>6, <1>7, <1>8, <1>9, <1>10 DEF AccessInv

LEMMA AccessAssignPermissionsReads ==
    ASSUME AccessInv, NEW x \in Requests, NEW r \in Roles, NEW P \in SUBSET Perms, AssignPermissionsReads(x, r, P)
    PROVE  AccessInv'
  <1>0. TypeOK /\ RequestsOK /\ "assignPermissions" \in clients[x] /\ ToInvalidate(x) = {} /\ r \in ExistingRoles
    BY IdleIs DEF AccessInv, AssignPermissionsReads
  <1>1. UNCHANGED <<role, perm, account, grants, bindings, clients, cache, check, suspect>>
    BY DEF AssignPermissionsReads, tables
  <1>2. Became(x, "assignPermissions", "commit", {}, {r}, P \cap LivePerms)
    <2>1. Starts(x, "assignPermissions", "commit", {}, {r}, P \cap LivePerms, FALSE, FALSE)
      BY DEF AssignPermissionsReads
    <2>2. "assignPermissions" \in AdminOps /\ "commit" \in ReqSteps /\ P \cap LivePerms \in SUBSET Perms
      BY DEF AdminOps, ReqSteps
    <2> QED
      BY <1>0, <2>1, <2>2, StartsIs
  <1>3. /\ Moved(x) /\ req'[x].op = "assignPermissions" /\ req'[x].roles = {r} /\ req'[x].perms \subseteq LivePerms
    BY <1>2 DEF Became
  <1>4. TypeOK'
    BY <1>0, <1>1, <1>3 DEF TypeOK, Moved
  <1>5. RequestsOK'
    BY <1>0, <1>1, <1>3, RequestsFrame
  <1>6. ExistingRoles' = ExistingRoles /\ LivePerms' = LivePerms
    BY <1>1 DEF ExistingRoles, LivePerms
  <1>7. ASSUME GrantsInv PROVE GrantsInv'
    <2>1. NoDanglingGrant'
      BY <1>1, <1>6, <1>7 DEF GrantsInv, NoDanglingGrant
    <2>2. ASSUME NEW y \in Requests, At(y, {"assignPermissions"}, "commit")'
          PROVE  req'[y].roles \subseteq ExistingRoles /\ req'[y].perms \subseteq LivePerms
      <3>1. CASE y = x
        BY <1>0, <1>3, <3>1
      <3>2. CASE y # x
        BY <1>3, <1>7, <2>2, <3>2 DEF GrantsInv, Moved, At
      <3> QED
        BY <3>1, <3>2
    <2> QED
      BY <1>6, <2>1, <2>2 DEF GrantsInv
  <1>8. ASSUME KnownInv PROVE KnownInv'
    <2>1. \A q \in req'[x].roles : role'[q] # "absent"
      BY <1>0, <1>1, <1>3 DEF ExistingRoles
    <2>2. \A p \in req'[x].perms : perm'[p] # "absent"
      BY <1>1, <1>3 DEF LivePerms
    <2>3. ASSUME NEW y \in Requests, y # x, At(y, {"assignPermissions"}, "commit")'
          PROVE  /\ \A q \in req'[y].roles : role'[q] # "absent"
                 /\ \A p \in req'[y].perms : perm'[p] # "absent"
      BY <1>1, <1>3, <1>8, <2>3 DEF KnownInv, Moved, At
    <2> QED
      BY <1>1, <1>8, <2>1, <2>2, <2>3 DEF KnownInv
  <1>9. ASSUME CachedCodesAreCurrent PROVE CachedCodesAreCurrent'
    <2>1. \A a \in Admins : Codes(a)' = Codes(a)
      BY <1>1, SameCodes
    <2> QED
      BY <1>0, <1>1, <1>3, <1>9, <2>1, CodesQuiet
  <1> QED
    BY <1>4, <1>5, <1>7, <1>8, <1>9 DEF AccessInv

LEMMA AccessAssignPermissionsCommits ==
    ASSUME AccessInv, NEW x \in Requests, AssignPermissionsCommits(x)
    PROVE  AccessInv'
  <1> DEFINE R == req[x].roles  P == req[x].perms
  <1>0. /\ TypeOK /\ RequestsOK /\ req[x] # NoRequest /\ req[x].op = "assignPermissions"
        /\ "assignPermissions" \in clients[x] /\ R \subseteq Roles /\ P \subseteq Perms /\ ToInvalidate(x) = {}
        /\ (GrantsInv => R \subseteq ExistingRoles /\ P \subseteq LivePerms)
    <2>1. TypeOK /\ RequestsOK /\ req[x] # NoRequest /\ req[x].op = "assignPermissions" /\ req[x].at = "commit"
      BY DEF AccessInv, AssignPermissionsCommits, At
    <2>2. R \subseteq Roles /\ P \subseteq Perms
      BY <2>1, RequestsAreRecords DEF Request
    <2>3. ToInvalidate(x) = {}
      BY <2>1, Waiting
    <2> QED
      BY <2>1, <2>2, <2>3 DEF RequestsOK, GrantsInv, At
  <1>1. /\ UNCHANGED <<role, perm, account, bindings, cache, check, suspect, clients>>
        /\ grants' = {g \in grants : g[1] \notin R} \cup (R \X P)
    BY DEF AssignPermissionsCommits
  <1>2. Became(x, "assignPermissions", "users", req[x].admins, R, P)
    BY <1>0, GoesOnIs DEF AssignPermissionsCommits, ReqSteps
  <1>3. Moved(x) /\ req'[x] # NoRequest /\ req'[x].op = "assignPermissions" /\ req'[x].at = "users" /\ req'[x].roles = R
    BY <1>2 DEF Became
  <1>4. TypeOK'
    <2>1. grants' \subseteq Roles \X Perms
      BY <1>0, <1>1 DEF TypeOK
    <2> QED
      BY <1>0, <1>1, <1>3, <2>1 DEF TypeOK, Moved
  <1>5. RequestsOK'
    BY <1>0, <1>1, <1>3, RequestsFrame
  <1>6. ExistingRoles' = ExistingRoles /\ LivePerms' = LivePerms
    BY <1>1 DEF ExistingRoles, LivePerms
  <1>7. ASSUME GrantsInv PROVE GrantsInv'
    <2>1. NoDanglingGrant'
      BY <1>0, <1>1, <1>6, <1>7 DEF GrantsInv, NoDanglingGrant
    <2> QED
      BY <1>3, <1>6, <1>7, <2>1 DEF GrantsInv, Moved, At
  <1>8. ASSUME KnownInv PROVE KnownInv'
    <2>1. (\A r \in R : role[r] # "absent") /\ (\A p \in P : perm[p] # "absent")
      BY <1>8 DEF KnownInv, AssignPermissionsCommits
    <2>2. \A r \in Roles, p \in Perms : <<r, p>> \in grants' => role'[r] # "absent" /\ perm'[p] # "absent"
      BY <1>1, <1>8, <2>1 DEF KnownInv
    <2> QED
      BY <1>1, <1>3, <1>8, <2>2 DEF KnownInv, Moved, At
  <1>9. ASSUME CachedCodesAreCurrent PROVE CachedCodesAreCurrent'
    <2>1. ToInvalidate(x)' = UNION {UsersOf(r)' : r \in R}
      BY <1>3, WaitingNext, AccessConstants
    <2>2. ASSUME NEW a \in Admins PROVE Codes(a)' = Codes(a) \/ a \in ToInvalidate(x)'
      <3>1. CASE \E r \in R : <<a, r>> \in bindings
        BY <1>1, <2>1, <3>1 DEF UsersOf
      <3>2. CASE ~\E r \in R : <<a, r>> \in bindings
        <4>1. RolesOf(a)' = RolesOf(a) /\ RolesOf(a) \cap R = {}
          BY <1>1, <3>2 DEF RolesOf
        <4>2. \A r \in RolesOf(a), p \in Perms : <<r, p>> \in grants' <=> <<r, p>> \in grants
          BY <1>1, <4>1
        <4> QED
          BY <1>6, <4>1, <4>2 DEF Codes, LivePerms
      <3> QED
        BY <3>1, <3>2
    <2>3. \A a \in Admins, y \in Requests : a \in ToInvalidate(y) => \E z \in Requests : a \in ToInvalidate(z)'
      BY <1>0, <1>1, <1>3, OthersWait
    <2> QED
      BY <1>1, <1>9, <2>2, <2>3, CodesFrame
  <1> QED
    BY <1>4, <1>5, <1>7, <1>8, <1>9 DEF AccessInv

\* A step that changes no row and no grant, and that ends a request or deletes cached codes of it.
LEMMA RequestOnward ==
    ASSUME AccessInv, UNCHANGED tables, TypeOK', NEW x \in Requests, Moved(x),
           req'[x] # NoRequest => req'[x].at = "invalidate" /\ req'[x].op = req[x].op /\ req'[x].roles = req[x].roles,
           req[x] # NoRequest,
           \A a \in Admins : \/ cache'[a] = NoCache
                             \/ cache'[a] = cache[a] /\ (a \in suspect => a \in suspect'),
           \A a \in Admins : cache'[a] # NoCache /\ a \in ToInvalidate(x) => a \in suspect' \/ a \in ToInvalidate(x)'
    PROVE  AccessInv'
  <1>0. TypeOK /\ RequestsOK
    BY DEF AccessInv
  <1>1. UNCHANGED <<role, perm, grants, bindings, clients>> /\ ExistingRoles' = ExistingRoles /\ LivePerms' = LivePerms
    BY DEF tables, ExistingRoles, LivePerms
  <1>2. RequestsOK'
    BY <1>0, <1>1, RequestsFrame DEF RequestsOK
  <1>3. ASSUME GrantsInv PROVE GrantsInv'
    BY <1>1, <1>3, GrantsFrame
  <1>4. ASSUME KnownInv PROVE KnownInv'
    BY <1>0, <1>1, <1>4, KnownFrame
  <1>5. ASSUME CachedCodesAreCurrent PROVE CachedCodesAreCurrent'
    <2>1. \A a \in Admins : Codes(a)' = Codes(a)
      BY <1>1, SameCodes
    <2>2. \A a \in Admins, y \in Requests : cache'[a] # NoCache /\ a \in ToInvalidate(y) =>
              a \in suspect' \/ \E z \in Requests : a \in ToInvalidate(z)'
      BY <1>1, OthersWait
    <2> QED
      BY <1>5, <2>1, <2>2, CodesFrame
  <1> QED
    BY <1>2, <1>3, <1>4, <1>5 DEF AccessInv

LEMMA AccessRoleUsersRead ==
    ASSUME AccessInv, NEW x \in Requests, RoleUsersRead(x)
    PROVE  AccessInv'
  <1> DEFINE U == UNION {UsersOf(r) : r \in req[x].roles}
  <1>1. TypeOK /\ req[x] # NoRequest /\ req[x].at = "users" /\ U \subseteq Admins /\ ToInvalidate(x) = U
    <2>1. TypeOK /\ req[x] # NoRequest /\ req[x].at = "users" /\ U \subseteq Admins
      BY DEF AccessInv, RoleUsersRead, At, UsersOf
    <2> QED
      BY <2>1, Waiting
  <1>2. UNCHANGED <<tables, cache, check, suspect>> /\ GoesOnInvalidating(x, U)
    BY DEF RoleUsersRead
  <1> HIDE DEF U
  <1>3. \/ U = {} /\ Ended(x)
        \/ U # {} /\ Became(x, req[x].op, "invalidate", U, req[x].roles, req[x].perms)
    BY <1>1, <1>2, InvalidatingIs
  <1>4. /\ Moved(x)
        /\ req'[x] # NoRequest => req'[x].at = "invalidate" /\ req'[x].op = req[x].op /\ req'[x].roles = req[x].roles
    BY <1>3 DEF Became, Ended
  <1>5. TypeOK'
    BY <1>1, <1>2, <1>4 DEF TypeOK, Moved, tables
  <1>6. U # {} => ToInvalidate(x)' = U
    BY <1>3, <1>4, WaitingNext, AccessConstants DEF Became
  <1> QED
    BY <1>1, <1>2, <1>4, <1>5, <1>6, RequestOnward

LEMMA AccessInvalidateUserPerms ==
    ASSUME AccessInv, NEW x \in Requests, NEW a \in Admins, InvalidateUserPerms(x, a)
    PROVE  AccessInv'
  <1> DEFINE A == req[x].admins
  <1>1. TypeOK /\ req[x] # NoRequest /\ req[x].at = "invalidate" /\ A \subseteq Admins /\ ToInvalidate(x) = A
    <2>1. TypeOK /\ req[x] # NoRequest /\ req[x].at = "invalidate"
      BY DEF AccessInv, InvalidateUserPerms, At
    <2>2. A \subseteq Admins
      BY <2>1, RequestsAreRecords DEF Request
    <2> QED
      BY <2>1, <2>2, Waiting
  <1>2. UNCHANGED <<tables, check>> /\ GoesOnInvalidating(x, A \ {a}) /\ suspect' = suspect \ {a}
        /\ cache' = [cache EXCEPT ![a] = NoCache]
    BY DEF InvalidateUserPerms
  <1>3. \/ A \ {a} = {} /\ Ended(x)
        \/ A \ {a} # {} /\ Became(x, req[x].op, "invalidate", A \ {a}, req[x].roles, req[x].perms)
    BY <1>1, <1>2, InvalidatingIs
  <1>4. /\ Moved(x)
        /\ req'[x] # NoRequest => req'[x].at = "invalidate" /\ req'[x].op = req[x].op /\ req'[x].roles = req[x].roles
    BY <1>3 DEF Became, Ended
  <1>5. /\ cache' \in [Admins -> Entry \cup {NoCache}] /\ cache'[a] = NoCache
        /\ \A b \in Admins \ {a} : cache'[b] = cache[b]
    BY <1>1, <1>2 DEF TypeOK
  <1>6. TypeOK'
    BY <1>1, <1>2, <1>4, <1>5 DEF TypeOK, Moved, tables
  <1>7. A \ {a} # {} => ToInvalidate(x)' = A \ {a}
    BY <1>3, <1>4, WaitingNext, AccessConstants DEF Became
  <1>8. \A b \in Admins : cache'[b] # NoCache /\ b \in ToInvalidate(x) => b \in ToInvalidate(x)'
    BY <1>1, <1>5, <1>7
  <1>9. \A b \in Admins : \/ cache'[b] = NoCache
                          \/ cache'[b] = cache[b] /\ (b \in suspect => b \in suspect')
    BY <1>2, <1>5
  <1> HIDE DEF A
  <1> QED
    BY <1>1, <1>2, <1>4, <1>6, <1>8, <1>9, RequestOnward

LEMMA AccessRequestDies ==
    ASSUME AccessInv, NEW x \in Requests, RequestDies(x)
    PROVE  AccessInv'
  <1>1. TypeOK /\ req[x] # NoRequest /\ UNCHANGED <<tables, cache, check>> /\ Ended(x)
        /\ suspect' = suspect \cup {a \in ToInvalidate(x) : cache[a] # NoCache}
    BY EndsIs DEF AccessInv, RequestDies
  <1>2. ToInvalidate(x) \subseteq Admins
    <2>1. CASE req[x].at = "invalidate"
      <3>1. req[x].admins \subseteq Admins
        BY <1>1, RequestsAreRecords DEF Request
      <3> QED
        BY <1>1, <2>1, <3>1, Waiting
    <2>2. CASE req[x].at = "users"
      <3>1. ToInvalidate(x) = UNION {UsersOf(r) : r \in req[x].roles}
        BY <1>1, <2>2, Waiting
      <3>2. \A r : UsersOf(r) \subseteq Admins
        BY DEF UsersOf
      <3> QED
        BY <3>1, <3>2
    <2>3. CASE req[x].at \notin {"users", "invalidate"}
      BY <1>1, <2>3, Waiting
    <2> QED
      BY <2>1, <2>2, <2>3
  <1>3. Moved(x) /\ req'[x] = NoRequest
    BY <1>1 DEF Ended
  <1>4. TypeOK'
    BY <1>1, <1>2, <1>3 DEF TypeOK, Moved, tables
  <1> QED
    BY <1>1, <1>3, <1>4, RequestOnward
-------------------------------------------------------------------------------
LEMMA AccessCreatePermission ==
    ASSUME AccessInv, NEW x \in Requests, NEW p \in Perms, CreatePermission(x, p)
    PROVE  AccessInv'
  <1>0. TypeOK /\ RequestsOK /\ perm[p] = "absent" /\ req[x] = NoRequest /\ req' = req /\ Moved(x) /\ ToInvalidate(x) = {}
    BY IdleIs DEF AccessInv, CreatePermission, PermCodeTaken
  <1>1. UNCHANGED <<role, account, grants, bindings, cache, check, suspect, clients>>
        /\ perm'[p] = "live" /\ \A q \in Perms \ {p} : perm'[q] = perm[q]
    BY <1>0 DEF CreatePermission, TypeOK
  <1>2. TypeOK'
    BY <1>0 DEF CreatePermission, TypeOK, PermStates
  <1>3. RequestsOK'
    BY <1>0, <1>1, RequestsFrame
  <1>4. ExistingRoles' = ExistingRoles /\ LivePerms \subseteq LivePerms'
    BY <1>0, <1>1 DEF ExistingRoles, LivePerms
  <1>5. ASSUME GrantsInv PROVE GrantsInv'
    BY <1>0, <1>1, <1>4, <1>5, GrantsFrame
  <1>6. ASSUME KnownInv PROVE KnownInv'
    <2>1. \A q \in Perms : perm[q] # "absent" => perm'[q] # "absent"
      BY <1>0, <1>1
    <2> QED
      BY <1>0, <1>1, <1>6, <2>1, KnownFrame
  <1>7. ASSUME KnownInv, CachedCodesAreCurrent PROVE CachedCodesAreCurrent'
    <2>1. \A r \in Roles, q \in Perms : <<r, q>> \in grants => role'[r] = role[r] /\ perm'[q] = perm[q]
      BY <1>0, <1>1, <1>7 DEF KnownInv
    <2>2. \A a \in Admins : Codes(a)' = Codes(a)
      BY <1>1, <2>1, SameCodes
    <2> QED
      BY <1>0, <1>1, <1>7, <2>2, CodesQuiet
  <1> QED
    BY <1>2, <1>3, <1>5, <1>6, <1>7 DEF AccessInv

LEMMA AccessUpdatePermissionReads ==
    ASSUME AccessInv, NEW x \in Requests, NEW p \in Perms, UpdatePermissionReads(x, p)
    PROVE  AccessInv'
  <1>1. TypeOK /\ "updatePermission" \in clients[x] /\ ToInvalidate(x) = {}
    BY IdleIs DEF AccessInv, UpdatePermissionReads
  <1>2. Became(x, "updatePermission", "save", {}, {}, {p})
    <2>1. Starts(x, "updatePermission", "save", {}, {}, {p}, TRUE, FALSE)
      BY DEF UpdatePermissionReads
    <2>2. "updatePermission" \in AdminOps /\ "save" \in ReqSteps
      BY DEF AdminOps, ReqSteps
    <2> QED
      BY <1>1, <2>1, <2>2, StartsIs
  <1> QED
    BY <1>1, <1>2, RequestOnly DEF Became, UpdatePermissionReads, tables, TypeOK

LEMMA AccessUpdatePermissionSaves ==
    ASSUME AccessInv, NEW x \in Requests, UpdatePermissionSaves(x)
    PROVE  AccessInv'
  <1> DEFINE P == req[x].perms
  <1>0. TypeOK /\ RequestsOK /\ req[x] # NoRequest /\ Ended(x) /\ ToInvalidate(x) = {}
    BY EndsIs, NotYet DEF AccessInv, UpdatePermissionSaves, At, ReqSteps
  <1>1. UNCHANGED <<role, account, grants, bindings, cache, check, clients>>
        /\ perm' = [p \in Perms |-> IF p \in P THEN "live" ELSE perm[p]]
        /\ suspect' = suspect \cup {a \in Admins : /\ cache[a] # NoCache
                                                  /\ \E p \in P \ LivePerms, r \in RolesOf(a) : <<r, p>> \in grants}
    BY DEF UpdatePermissionSaves
  <1>2. Moved(x) /\ req'[x] = NoRequest
    BY <1>0 DEF Ended
  <1>3. TypeOK'
    <2>1. perm' \in [Perms -> PermStates] /\ suspect' \subseteq {a \in Admins : cache'[a] # NoCache}
      BY <1>0, <1>1 DEF TypeOK, PermStates
    <2> QED
      BY <1>0, <1>1, <1>2, <2>1 DEF TypeOK, Moved
  <1>4. RequestsOK'
    BY <1>0, <1>1, <1>2, RequestsFrame
  <1>5. ExistingRoles' = ExistingRoles /\ LivePerms' = LivePerms \cup (P \cap Perms)
    BY <1>1 DEF ExistingRoles, LivePerms
  <1>6. ASSUME GrantsInv PROVE GrantsInv'
    BY <1>1, <1>2, <1>5, <1>6, GrantsFrame
  <1>7. ASSUME KnownInv PROVE KnownInv'
    <2>1. \A p \in Perms : perm[p] # "absent" => perm'[p] # "absent"
      BY <1>1
    <2> QED
      BY <1>0, <1>1, <1>2, <1>7, <2>1, KnownFrame
  <1>8. ASSUME CachedCodesAreCurrent PROVE CachedCodesAreCurrent'
    <2>1. \A a \in Admins : RolesOf(a)' = RolesOf(a)
      BY <1>1 DEF RolesOf
    <2>2. ASSUME NEW a \in Admins, cache'[a] # NoCache, a \notin suspect' PROVE Codes(a)' = Codes(a)
      <3>1. ~\E p \in P \ LivePerms, r \in RolesOf(a) : <<r, p>> \in grants
        BY <1>1, <2>2
      <3> QED
        BY <1>1, <1>5, <2>1, <3>1 DEF Codes
    <2>3. \A a \in Admins, y \in Requests : a \in ToInvalidate(y) => \E z \in Requests : a \in ToInvalidate(z)'
      BY <1>0, <1>1, <1>2, OthersWait
    <2>4. \A a \in Admins : cache'[a] = cache[a] /\ (a \in suspect => a \in suspect')
      BY <1>1
    <2> QED
      BY <1>8, <2>2, <2>3, <2>4, CodesFrame
  <1> QED
    BY <1>3, <1>4, <1>6, <1>7, <1>8 DEF AccessInv

LEMMA AccessRemovePermission ==
    ASSUME AccessInv, NEW x \in Requests, NEW p \in Perms, RemovePermission(x, p)
    PROVE  AccessInv'
  <1>0. TypeOK /\ RequestsOK /\ req[x] = NoRequest /\ req' = req /\ Moved(x) /\ "removePermission" \in clients[x]
    BY IdleIs DEF AccessInv, RemovePermission
  <1>1. /\ UNCHANGED <<role, account, bindings, cache, check, clients>>
        /\ perm' = [perm EXCEPT ![p] = "deleted"]
        /\ grants' = {g \in grants : g[2] # p}
        /\ suspect' = suspect \cup {a \in Admins : cache[a] # NoCache /\ p \in cache[a].codes}
    BY DEF RemovePermission
  <1>2. LivePerms' = LivePerms \ {p} /\ ExistingRoles' = ExistingRoles
    BY <1>0, <1>1 DEF LivePerms, ExistingRoles, TypeOK
  <1>3. TypeOK'
    BY <1>0, <1>1 DEF TypeOK, PermStates
  <1>4. RequestsOK'
    BY <1>0, <1>1, RequestsFrame
  <1>5. ASSUME GrantsApart, GrantsInv PROVE GrantsInv'
    <2>1. NoDanglingGrant'
      BY <1>1, <1>2, <1>5 DEF GrantsInv, NoDanglingGrant
    <2>2. ASSUME NEW y \in Requests, At(y, {"assignPermissions"}, "commit")' PROVE FALSE
      <3>1. y # x /\ req[y] # NoRequest /\ req[y].op = "assignPermissions"
        BY <1>0, <2>2 DEF At
      <3>2. "assignPermissions" \in clients[y] /\ clients \in Profiles
        BY <1>0, <3>1 DEF RequestsOK, TypeOK
      <3> QED
        BY <1>0, <1>5, <3>1, <3>2 DEF GrantsApart
    <2> QED
      BY <2>1, <2>2 DEF GrantsInv
  <1>6. ASSUME KnownInv PROVE KnownInv'
    <2>1. grants' \subseteq grants /\ \A q \in Perms : perm[q] # "absent" => perm'[q] # "absent"
      BY <1>0, <1>1 DEF TypeOK
    <2> QED
      BY <1>0, <1>1, <1>6, <2>1, KnownFrame
  <1>7. ASSUME CachedCodesAreCurrent PROVE CachedCodesAreCurrent'
    <2>1. \A y \in Requests : ToInvalidate(y)' = ToInvalidate(y)
      BY <1>0, <1>1 DEF ToInvalidate, At, UsersOf
    <2>2. ASSUME NEW a \in Admins, cache[a] # NoCache, a \notin suspect', ~\E y \in Requests : a \in ToInvalidate(y)
          PROVE  Codes(a)' = Codes(a)
      <3>1. p \notin Codes(a)
        BY <1>1, <1>7, <2>2 DEF CachedCodesAreCurrent
      <3>2. RolesOf(a)' = RolesOf(a)
        BY <1>1 DEF RolesOf
      <3>3. Codes(a)' = Codes(a) \ {p}
        BY <1>1, <1>2, <3>2 DEF Codes
      <3> QED
        BY <3>1, <3>3
    <2> QED
      BY <1>1, <1>7, <2>1, <2>2, CodesFrame
  <1> QED
    BY <1>3, <1>4, <1>5, <1>6, <1>7 DEF AccessInv
-------------------------------------------------------------------------------
LEMMA AccessCreateAdmin ==
    ASSUME AccessInv, NEW x \in Requests, NEW a \in Admins, NEW R \in SUBSET Roles, CreateAdmin(x, a, R)
    PROVE  AccessInv'
  <1>1. TypeOK /\ req[x] = NoRequest /\ "createAdmin" \in clients[x] /\ ToInvalidate(x) = {} /\ (req' = req => Moved(x))
    BY IdleIs DEF AccessInv, CreateAdmin
  <1>2. UNCHANGED <<role, perm, grants, bindings, clients, cache, check, suspect>>
        /\ account' \in [Admins -> AccountStates]
    BY <1>1 DEF CreateAdmin, TypeOK, AccountStates
  <1>3. CASE R = {}
    <2>1. req' = req
      BY <1>3 DEF CreateAdmin
    <2> QED
      BY <1>1, <1>2, <2>1, RequestOnly
  <1>4. CASE R # {}
    <2>1. "createAdmin" \in AdminOps /\ "exists" \in ReqSteps
      BY DEF AdminOps, ReqSteps
    <2>2. Became(x, "createAdmin", "exists", {a}, R, {})
      <3>1. Starts(x, "createAdmin", "exists", {a}, R, {}, FALSE, FALSE)
        BY <1>4 DEF CreateAdmin
      <3> QED
        BY <1>1, <2>1, <3>1, StartsIs
    <2> QED
      BY <1>1, <1>2, <2>2, RequestOnly DEF Became
  <1> QED
    BY <1>3, <1>4

LEMMA AccessAssignRolesStarts ==
    ASSUME AccessInv, NEW x \in Requests, NEW a \in Admins, NEW R \in SUBSET Roles, AssignRolesStarts(x, a, R)
    PROVE  AccessInv'
  <1>1. TypeOK /\ "assignRoles" \in clients[x] /\ ToInvalidate(x) = {}
    BY IdleIs DEF AccessInv, AssignRolesStarts
  <1>2. PICK step \in {"count", "exists"} : Starts(x, "assignRoles", step, {a}, R, {}, FALSE, FALSE)
    BY DEF AssignRolesStarts
  <1>3. "assignRoles" \in AdminOps /\ step \in ReqSteps
    BY DEF AdminOps, ReqSteps
  <1>4. Became(x, "assignRoles", step, {a}, R, {})
    BY <1>1, <1>2, <1>3, StartsIs
  <1> QED
    BY <1>1, <1>4, RequestOnly DEF Became, AssignRolesStarts, tables, TypeOK

LEMMA AccessDisableStarts ==
    ASSUME AccessInv, NEW x \in Requests, NEW a \in Admins, DisableStarts(x, a)
    PROVE  AccessInv'
  <1>1. TypeOK /\ "disable" \in clients[x] /\ ToInvalidate(x) = {}
    BY IdleIs DEF AccessInv, DisableStarts
  <1>2. "disable" \in AdminOps /\ "count" \in ReqSteps
    BY DEF AdminOps, ReqSteps
  <1>3. Became(x, "disable", "count", {a}, {}, {})
    <2>1. Starts(x, "disable", "count", {a}, {}, {}, FALSE, FALSE)
      BY DEF DisableStarts
    <2> QED
      BY <1>1, <1>2, <2>1, StartsIs
  <1> QED
    BY <1>1, <1>3, RequestOnly DEF Became, DisableStarts, tables, TypeOK

LEMMA AccessEnableAdmin ==
    ASSUME AccessInv, NEW x \in Requests, NEW a \in Admins, EnableAdmin(x, a)
    PROVE  AccessInv'
  <1>1. TypeOK /\ req[x] = NoRequest /\ req' = req /\ Moved(x) /\ ToInvalidate(x) = {}
    BY IdleIs DEF AccessInv, EnableAdmin
  <1>2. account' \in [Admins -> AccountStates]
    BY <1>1 DEF EnableAdmin, TypeOK, AccountStates
  <1> QED
    BY <1>1, <1>2, RequestOnly DEF EnableAdmin

\* A request that changes nothing but itself.
LEMMA AccessGoesOn ==
    ASSUME AccessInv, NEW x \in Requests, req[x] # NoRequest, ToInvalidate(x) = {},
           req[x].op \in {"createAdmin", "assignRoles", "disable"},
           UNCHANGED <<tables, cache, check, suspect>>,
           Ends(x) \/ \E step \in ReqSteps : GoesOn(x, step)
    PROVE  AccessInv'
  <1>1. TypeOK /\ req[x].op \in clients[x]
    BY DEF AccessInv, RequestsOK
  <1>2. Ended(x) \/ \E step \in ReqSteps : Became(x, req[x].op, step, req[x].admins, req[x].roles, req[x].perms)
    BY <1>1, EndsIs, GoesOnIs
  <1>3. Moved(x) /\ (req'[x] # NoRequest => req'[x].op = req[x].op)
    BY <1>2 DEF Became, Ended
  <1>4. UNCHANGED <<role, perm, grants, bindings, clients>> /\ account' \in [Admins -> AccountStates]
    BY <1>1 DEF tables, TypeOK
  <1>5. req'[x] # NoRequest =>
            /\ req'[x].op \in clients[x]
            /\ req'[x].op \notin {"updateRole", "removeRole", "assignPermissions"}
    BY <1>1, <1>3
  <1> QED
    BY <1>3, <1>4, <1>5, RequestOnly

LEMMA AccessCountsSuperAdmins ==
    ASSUME AccessInv, NEW x \in Requests, CountsSuperAdmins(x)
    PROVE  AccessInv'
  <1>1. req[x] # NoRequest /\ req[x].op \in {"assignRoles", "disable"} /\ ToInvalidate(x) = {}
    BY NotYet DEF AccessInv, CountsSuperAdmins, At, ReqSteps
  <1>2. Ends(x) \/ GoesOn(x, "save") \/ GoesOn(x, "exists")
    BY DEF CountsSuperAdmins
  <1>3. Ends(x) \/ \E step \in ReqSteps : GoesOn(x, step)
    BY <1>2 DEF ReqSteps
  <1> QED
    BY <1>1, <1>3, AccessGoesOn DEF CountsSuperAdmins

LEMMA AccessRolesExist ==
    ASSUME AccessInv, NEW x \in Requests, RolesExist(x)
    PROVE  AccessInv'
  <1>1. req[x] # NoRequest /\ req[x].op \in {"createAdmin", "assignRoles"} /\ ToInvalidate(x) = {}
    BY NotYet DEF AccessInv, RolesExist, At, ReqSteps
  <1>2. Ends(x) \/ \E step \in ReqSteps : GoesOn(x, step)
    BY DEF RolesExist, ReqSteps
  <1> QED
    BY <1>1, <1>2, AccessGoesOn DEF RolesExist

LEMMA AccessDisableSaves ==
    ASSUME AccessInv, NEW x \in Requests, DisableSaves(x)
    PROVE  AccessInv'
  <1>1. TypeOK /\ req[x] # NoRequest /\ Ended(x) /\ ToInvalidate(x) = {}
    BY EndsIs, NotYet DEF AccessInv, DisableSaves, At, ReqSteps
  <1>2. account' \in [Admins -> AccountStates]
    BY <1>1 DEF DisableSaves, TypeOK, AccountStates
  <1> QED
    BY <1>1, <1>2, RequestOnly DEF DisableSaves, Ended

LEMMA AccessAssignRolesCommits ==
    ASSUME AccessInv, NEW x \in Requests, AssignRolesCommits(x)
    PROVE  AccessInv'
  <1> DEFINE A == req[x].admins  R == req[x].roles
  <1>0. /\ TypeOK /\ RequestsOK /\ req[x] # NoRequest /\ req[x].op \in {"createAdmin", "assignRoles"}
        /\ req[x].op \in clients[x] /\ A \subseteq Admins /\ R \subseteq Roles /\ ToInvalidate(x) = {}
    <2>1. TypeOK /\ RequestsOK /\ req[x] # NoRequest /\ req[x].op \in {"createAdmin", "assignRoles"}
          /\ req[x].at = "commit"
      BY DEF AccessInv, AssignRolesCommits, At
    <2>2. A \subseteq Admins /\ R \subseteq Roles
      BY <2>1, RequestsAreRecords DEF Request
    <2>3. ToInvalidate(x) = {}
      BY <2>1, Waiting
    <2> QED
      BY <2>1, <2>2, <2>3 DEF RequestsOK
  <1>1. /\ UNCHANGED <<role, perm, account, grants, cache, check, suspect, clients>>
        /\ bindings' = {b \in bindings : b[1] \notin A} \cup (A \X R)
    BY DEF AssignRolesCommits
  <1>2. \/ A = {} /\ Ended(x)
        \/ A # {} /\ Became(x, req[x].op, "invalidate", A, R, req[x].perms)
    BY <1>0, InvalidatingIs DEF AssignRolesCommits
  <1>3. Moved(x) /\ (req'[x] # NoRequest => req'[x].op = req[x].op /\ req'[x].at = "invalidate")
    BY <1>2 DEF Became, Ended
  <1>4. TypeOK'
    <2>1. bindings' \subseteq Admins \X Roles
      BY <1>0, <1>1 DEF TypeOK
    <2> QED
      BY <1>0, <1>1, <1>3, <2>1 DEF TypeOK, Moved
  <1>5. RequestsOK'
    BY <1>0, <1>1, <1>3, RequestsFrame
  <1>6. ExistingRoles' = ExistingRoles /\ LivePerms' = LivePerms
    BY <1>1 DEF ExistingRoles, LivePerms
  <1>7. ASSUME GrantsInv PROVE GrantsInv'
    BY <1>1, <1>3, <1>6, <1>7, GrantsFrame
  <1>8. ASSUME KnownInv PROVE KnownInv'
    BY <1>0, <1>1, <1>3, <1>8, KnownFrame
  <1>9. ASSUME CachedCodesAreCurrent PROVE CachedCodesAreCurrent'
    <2>1. ASSUME NEW a \in A PROVE a \in ToInvalidate(x)'
      <3>1. req'[x] # NoRequest /\ req'[x].at = "invalidate" /\ req'[x].admins = A
        BY <1>2, <2>1 DEF Became
      <3> QED
        BY <1>3, <2>1, <3>1, WaitingNext, AccessConstants
    <2>2. ASSUME NEW a \in Admins \ A PROVE \A r : <<a, r>> \in bindings' <=> <<a, r>> \in bindings
      BY <1>1, <2>2
    <2>3. ASSUME NEW a \in Admins \ A PROVE Codes(a)' = Codes(a)
      <3>1. RolesOf(a)' = RolesOf(a)
        BY <1>1, <2>2 DEF RolesOf
      <3> QED
        BY <1>1, <1>6, <3>1 DEF Codes
    <2>4. ASSUME NEW a \in Admins \ A, NEW y \in Requests, a \in ToInvalidate(y) PROVE a \in ToInvalidate(y)'
      <3>1. y # x /\ req'[y] = req[y]
        BY <1>0, <1>3, <2>4 DEF Moved
      <3>2. \A r : a \in UsersOf(r) => a \in UsersOf(r)'
        BY <2>2 DEF UsersOf
      <3>3. a \in UNION {UsersOf(r) : r \in req[y].roles} => a \in UNION {UsersOf(r)' : r \in req[y].roles}
        BY <3>2
      <3> QED
        BY <2>4, <3>1, <3>3 DEF ToInvalidate, At
    <2> QED
      BY <1>1, <1>9, <2>1, <2>3, <2>4, CodesFrame
  <1> QED
    BY <1>4, <1>5, <1>7, <1>8, <1>9 DEF AccessInv
-------------------------------------------------------------------------------
\* Whatever overlaps what: the types hold, requests are those that were asked for, grants name rows
\* that were there at some time, and the cached codes are in order; and grants name rows that are
\* there as long as assignments and removals do not overlap.
THEOREM AccessInductive == Spec => []AccessInv
  <1>1. Init => AccessInv
    <2> SUFFICES ASSUME Init PROVE AccessInv
      OBVIOUS
    <2>1. TypeOK
      BY AccessConstants DEF Init, TypeOK, RoleStates, PermStates, AccountStates
    <2>2. \A x \in Requests : req[x] = NoRequest
      BY DEF Init
    <2>3. GrantsInv
      BY <2>2, AccessConstants DEF Init, GrantsInv, NoDanglingGrant, ExistingRoles, LivePerms, At
    <2>4. KnownInv /\ CachedCodesAreCurrent
      BY <2>2, AccessConstants DEF Init, KnownInv, CachedCodesAreCurrent, At
    <2> QED
      BY <2>1, <2>2, <2>3, <2>4 DEF AccessInv, RequestsOK
  <1>2. AccessInv /\ [Next]_vars => AccessInv'
    <2> SUFFICES ASSUME AccessInv, [Next]_vars PROVE AccessInv'
      OBVIOUS
    <2>1. ASSUME NEW c \in Checks, CheckStep(c) PROVE AccessInv'
      BY <2>1, AccessCheckStep
    <2>2. ASSUME NEW x \in Requests, RoleStep(x) PROVE AccessInv'
      BY <2>2, AccessCreateRole, AccessUpdateRoleReads, AccessUpdateRoleSaves, AccessRemoveRoleReads,
         AccessRemoveRoleCommits, AccessAssignPermissionsReads, AccessAssignPermissionsCommits,
         AccessRoleUsersRead, AccessInvalidateUserPerms DEF RoleStep
    <2>3. ASSUME NEW x \in Requests, PermissionStep(x) PROVE AccessInv'
      BY <2>3, AccessCreatePermission, AccessUpdatePermissionReads, AccessUpdatePermissionSaves,
         AccessRemovePermission DEF PermissionStep
    <2>4. ASSUME NEW x \in Requests, AdministratorStep(x) PROVE AccessInv'
      BY <2>4, AccessCreateAdmin, AccessAssignRolesStarts, AccessDisableStarts, AccessEnableAdmin,
         AccessCountsSuperAdmins, AccessDisableSaves, AccessRolesExist, AccessAssignRolesCommits
      DEF AdministratorStep
    <2>5. ASSUME NEW x \in Requests, RequestDies(x) PROVE AccessInv'
      BY <2>5, AccessRequestDies
    <2>6. ASSUME NEW a \in Admins, CacheExpires(a) PROVE AccessInv'
      BY <2>6, AccessCacheExpires
    <2>7. CASE UNCHANGED vars
      <3>1. TypeOK' /\ UNCHANGED <<tables, req>>
        BY <2>7 DEF vars, tables, AccessInv, TypeOK
      <3> QED
        BY <2>7, <3>1, TablesOnly DEF vars
    <2> QED
      BY <2>1, <2>2, <2>3, <2>4, <2>5, <2>6, <2>7 DEF Next
  <1> QED
    BY <1>1, <1>2, PTL DEF Spec

\* The types of the tables, the cache and of the requests under way; the system role stays
\* enabled (RoleService refuses to update and to remove it).
THEOREM AccessType == Spec => []TypeOK
  BY AccessInductive, PTL DEF AccessInv

\* No grant names a role or a permission that is gone as long as no assignPermissions
\* overlaps a removal, whatever else overlaps and whichever request dies where (RoleService.remove,
\* PermissionService.remove).
THEOREM GrantsDoNotDangle == ASSUME GrantsApart PROVE Spec => []NoDanglingGrant
  <1>1. AccessInv => NoDanglingGrant
    BY DEF AccessInv, GrantsInv
  <1> QED
    BY <1>1, AccessInductive, PTL

\* Cached codes are current, about to be deleted or known to be outdated, whatever overlaps and
\* whichever request or check dies where (AccessCheckService, RoleService, PermissionService).
THEOREM CachedCodesHold == Spec => []CachedCodesAreCurrent
  <1>1. AccessInv => CachedCodesAreCurrent
    BY DEF AccessInv
  <1> QED
    BY <1>1, AccessInductive, PTL

-------------------------------------------------------------------------------
(***************************************************************************)
(* Menus: what a user is shown, for any number of menus, grants and editors.*)
(***************************************************************************)

\* What of a step of the walk concerns the walk.
ViewTypeOK ==
    view # NoView =>
        /\ view = [step |-> view.step, granted |-> view.granted, todo |-> view.todo, cursor |-> view.cursor,
                   visible |-> view.visible]
        /\ view.step \in {"menus", "walk", "tree"} /\ view.granted \subseteq MenuIds
        /\ view.todo \subseteq view.granted

\* Before the loop: all is still to be walked.
FreshInv ==
    view # NoView /\ view.step = "menus" => view.todo = view.granted /\ view.cursor = Top /\ view.visible = {}

\* In the loop and after it: what is visible exists; a grant is visible, or at the cursor, or still to
\* be walked, or does not exist; only the parent of what was visited last may be missing; and
\* whoever holds the ancestors of the grants holds what is visible, and what the cursor is at.
WalkInv ==
    Walking =>
        /\ view.visible \subseteq LiveMenus
        /\ view.granted \cap LiveMenus \subseteq view.visible \cup view.todo \cup {view.cursor}
        /\ \A m \in view.visible : parent[m] \in LiveMenus => parent[m] \in view.visible \cup {view.cursor}
        /\ \A S \in SUBSET LiveMenus : HoldsAncestors(view.granted, S) =>
               view.visible \subseteq S /\ (view.cursor \in LiveMenus => view.cursor \in S)
        /\ view.step = "tree" => view.todo = {} /\ view.cursor = Top

MenuInv ==
    /\ granted \subseteq MenuIds
    /\ ViewTypeOK
    /\ FreshInv
    /\ WalkInv

\* What buildTree leaves out hangs below what it leaves out.
LEMMA LeftOutBelowLeftOut ==
    ASSUME NEW M, NEW m \in M \ ShownIn(M)
    PROVE  parent[m] \in M \ ShownIn(M)
  <1>1. PICK S \in SUBSET M : /\ RootsIn(M) \subseteq S
                              /\ \A c \in M : parent[c] \in S => c \in S
                              /\ m \notin S
    BY DEF ShownIn
  <1>2. parent[m] \in M
    BY <1>1 DEF RootsIn
  <1>3. parent[m] \notin S
    BY <1>1
  <1> QED
    BY <1>1, <1>2, <1>3 DEF ShownIn

\* Edits wait for the end of a walk.
LEMMA EditsKeep == ASSUME MenuInv, EditStep PROVE MenuInv'
  <1>1. view' = view /\ ~Walking
    BY DEF EditStep, CreateMenu, UpdateMenuReads, RemoveMenuCounts, UpdateMenuSaves, RemoveMenuCommits, AssignMenus
  <1>2. granted' \subseteq MenuIds
    BY DEF MenuInv, EditStep, CreateMenu, UpdateMenuReads, RemoveMenuCounts, UpdateMenuSaves, RemoveMenuCommits,
           AssignMenus
  <1> QED
    BY <1>1, <1>2 DEF MenuInv, ViewTypeOK, FreshInv, WalkInv, Walking

LEMMA StartsAWalk == ASSUME MenuInv, ViewReadsGrants \/ ViewReadsMenus PROVE MenuInv'
  <1>1. CASE ViewReadsGrants
    <2>1. /\ view' = [step |-> "menus", granted |-> granted, todo |-> granted, cursor |-> Top, visible |-> {}]
          /\ granted' = granted
      BY <1>1 DEF ViewReadsGrants
    <2> QED
      BY <2>1 DEF MenuInv, ViewTypeOK, FreshInv, WalkInv, Walking
  <1>2. CASE ViewReadsMenus
    <2>1. UNCHANGED <<menu, parent, granted>> /\ view # NoView /\ view.step = "menus"
      BY <1>2 DEF ViewReadsMenus
    <2>2. view' = [step |-> "walk", granted |-> view.granted, todo |-> view.todo, cursor |-> view.cursor,
                   visible |-> view.visible]
      BY <1>2, <2>1 DEF ViewReadsMenus, MenuInv, ViewTypeOK
    <2>3. view.todo = view.granted /\ view.cursor = Top /\ view.visible = {}
      BY <2>1 DEF MenuInv, FreshInv
    <2>4. LiveMenus' = LiveMenus /\ Top \notin LiveMenus
      BY <2>1, MenuConstants DEF LiveMenus
    <2>5. WalkInv'
      BY <2>2, <2>3, <2>4 DEF WalkInv
    <2> QED
      BY <2>1, <2>2, <2>3, <2>5 DEF MenuInv, ViewTypeOK, FreshInv
  <1> QED
    BY <1>1, <1>2

\* The next grant; if it does not exist nobody need hold it.
LEMMA TakesAGrant == ASSUME MenuInv, NEW m \in MenuIds, WalkTakesGrant(m) PROVE MenuInv'
  <1>1. UNCHANGED <<menu, parent, granted>> /\ view # NoView /\ view.step = "walk" /\ view.cursor = Top /\ m \in view.todo
    BY DEF WalkTakesGrant
  <1>2. view' = [step |-> "walk", granted |-> view.granted, todo |-> view.todo \ {m}, cursor |-> m,
                 visible |-> view.visible]
    BY <1>1 DEF WalkTakesGrant, MenuInv, ViewTypeOK
  <1>3. LiveMenus' = LiveMenus /\ Top \notin LiveMenus /\ m \in view.granted
    BY <1>1, MenuConstants DEF LiveMenus, MenuInv, ViewTypeOK
  <1>4. \A S : HoldsAncestors(view.granted, S)' = HoldsAncestors(view.granted, S)
    BY <1>1, <1>2, <1>3 DEF HoldsAncestors
  <1>5. WalkInv'
    <2>1. \A S \in SUBSET LiveMenus : HoldsAncestors(view.granted, S) => view.visible \subseteq S /\ (m \in LiveMenus => m \in S)
      BY <1>1, <1>3 DEF MenuInv, WalkInv, Walking, HoldsAncestors
    <2> QED
      BY <1>1, <1>2, <1>3, <1>4, <2>1 DEF MenuInv, WalkInv, Walking
  <1> QED
    BY <1>1, <1>2, <1>5 DEF MenuInv, ViewTypeOK, FreshInv

\* One turn of the inner loop.
LEMMA Climbs == ASSUME MenuInv, WalkClimbs PROVE MenuInv'
  <1> DEFINE c == view.cursor
  <1>1. UNCHANGED <<menu, parent, granted>> /\ view # NoView /\ view.step = "walk" /\ c # Top
    BY DEF WalkClimbs
  <1>2. LiveMenus' = LiveMenus /\ Top \notin LiveMenus
    BY <1>1, MenuConstants DEF LiveMenus
  <1>3. WalkInv /\ Walking
    BY <1>1 DEF MenuInv, Walking
  <1>4. CASE c \in view.visible \/ c \notin LiveMenus
    <2>1. view' = [step |-> "walk", granted |-> view.granted, todo |-> view.todo, cursor |-> Top,
                   visible |-> view.visible]
      BY <1>1, <1>4 DEF WalkClimbs, MenuInv, ViewTypeOK
    <2>2. \A S : HoldsAncestors(view.granted, S)' = HoldsAncestors(view.granted, S)
      BY <1>1, <1>2, <2>1 DEF HoldsAncestors
    <2>3. WalkInv'
      BY <1>1, <1>2, <1>3, <1>4, <2>1, <2>2 DEF WalkInv
    <2> QED
      BY <1>1, <2>1, <2>3 DEF MenuInv, ViewTypeOK, FreshInv
  <1>5. CASE c \notin view.visible /\ c \in LiveMenus
    <2>1. view' = [step |-> "walk", granted |-> view.granted, todo |-> view.todo, cursor |-> parent[c],
                   visible |-> view.visible \cup {c}]
      BY <1>1, <1>5 DEF WalkClimbs, MenuInv, ViewTypeOK
    <2>2. \A S : HoldsAncestors(view.granted, S)' = HoldsAncestors(view.granted, S)
      BY <1>1, <1>2, <2>1 DEF HoldsAncestors
    <2>3. \A S \in SUBSET LiveMenus : HoldsAncestors(view.granted, S) =>
              view.visible \cup {c} \subseteq S /\ (parent[c] \in LiveMenus => parent[c] \in S)
      BY <1>3, <1>5 DEF WalkInv, HoldsAncestors
    <2>4. WalkInv'
      BY <1>1, <1>2, <1>3, <1>5, <2>1, <2>2, <2>3 DEF WalkInv
    <2> QED
      BY <1>1, <2>1, <2>4 DEF MenuInv, ViewTypeOK, FreshInv
  <1> QED
    BY <1>4, <1>5

LEMMA EndsAWalk == ASSUME MenuInv, WalkEnds \/ ViewEnds PROVE MenuInv'
  <1>1. CASE WalkEnds
    <2>1. UNCHANGED <<menu, parent, granted>> /\ view # NoView /\ view.step = "walk" /\ view.todo = {} /\ view.cursor = Top
      BY <1>1 DEF WalkEnds
    <2>2. view' = [step |-> "tree", granted |-> view.granted, todo |-> view.todo, cursor |-> view.cursor,
                   visible |-> view.visible]
      BY <1>1, <2>1 DEF WalkEnds, MenuInv, ViewTypeOK
    <2>3. LiveMenus' = LiveMenus
      BY <2>1 DEF LiveMenus
    <2>4. \A S : HoldsAncestors(view.granted, S)' = HoldsAncestors(view.granted, S)
      BY <2>1, <2>2, <2>3 DEF HoldsAncestors
    <2>5. WalkInv'
      BY <2>1, <2>2, <2>3, <2>4 DEF MenuInv, WalkInv, Walking
    <2> QED
      BY <2>1, <2>2, <2>5 DEF MenuInv, ViewTypeOK, FreshInv
  <1>2. CASE ViewEnds
    BY <1>2 DEF ViewEnds, MenuInv, ViewTypeOK, FreshInv, WalkInv, Walking
  <1> QED
    BY <1>1, <1>2

\* For any number of menus, with parents that are missing or in loops, in whatever order the grants
\* are walked and whatever was edited between the two reads: a user is shown the granted menus and
\* their ancestors and no others, but for those whose chain of parents never ends (menusForUser,
\* buildTree).
THEOREM TreesShowGrants == MenuInit /\ [][MenuNext]_menuVars => []TreeShowsWhatIsGranted
  <1>1. MenuInit => MenuInv
    BY DEF MenuInit, MenuInv, ViewTypeOK, FreshInv, WalkInv, Walking
  <1>2. ASSUME MenuInv, [MenuNext]_menuVars PROVE MenuInv'
    <2>1. CASE UNCHANGED menuVars
      BY <1>2, <2>1 DEF menuVars, MenuInv, ViewTypeOK, FreshInv, WalkInv, Walking, LiveMenus, HoldsAncestors
    <2> QED
      BY <1>2, <2>1, EditsKeep, StartsAWalk, TakesAGrant, Climbs, EndsAWalk DEF MenuNext, ViewStep
  <1>3. MenuInv => TreeShowsWhatIsGranted
    <2> SUFFICES ASSUME MenuInv, view # NoView, view.step = "tree" PROVE TreeShowsWhatIsGranted
      BY DEF TreeShowsWhatIsGranted
    <2>1. WalkInv /\ Walking /\ view.todo = {} /\ view.cursor = Top /\ Top \notin LiveMenus
      BY MenuConstants DEF MenuInv, WalkInv, Walking, LiveMenus
    <2>2. view.visible \subseteq LiveMenus /\ HoldsAncestors(view.granted, view.visible)
      BY <2>1 DEF WalkInv, HoldsAncestors
    <2>3. \A S \in SUBSET LiveMenus : HoldsAncestors(view.granted, S) => view.visible \subseteq S
      BY <2>1 DEF WalkInv
    <2>4. \A m \in view.visible \ ShownIn(view.visible) : parent[m] \in view.visible \ ShownIn(view.visible)
      BY LeftOutBelowLeftOut
    <2> QED
      BY <2>2, <2>3, <2>4 DEF TreeShowsWhatIsGranted
  <1> QED
    BY <1>1, <1>2, <1>3, PTL

-------------------------------------------------------------------------------
(***************************************************************************)
(* Dictionaries: what the cached list of a dictionary is worth, for any number*)
(* of items, readers and editors.                                          *)
(***************************************************************************)

Invalidating == \E e \in DictEditors : editing[e].step = "invalidate"

\* As much of the types as the proof needs: a request that is about to save has a row to save.
Typed ==
    /\ item \in [Items -> Item]
    /\ loading \in [DictReaders -> [list : SUBSET Lists, overtaken : BOOLEAN]]
    /\ editing = [e \in DictEditors |-> editing[e]]
    /\ \A e \in DictEditors :
           editing[e].step = "write" => editing[e].item \in Items /\ editing[e].to \in Item

\* What is not current is about to be deleted, or is known to have missed that: the list in Redis,
\* and one on its way there, which is overtaken by every deletion that comes before it.
CacheInv ==
    /\ served \subseteq {EnabledItems} \/ doubtful \/ Invalidating
    /\ \A r \in DictReaders :
           loading[r].list \subseteq {EnabledItems} \/ loading[r].overtaken \/ Invalidating

UniqueInv == \A i, j \in Rows : item[i].value = item[j].value => i = j

DictInv == Typed /\ CacheInv /\ UniqueInv

\* A deletion, or the lack of one, lets nothing pass that was loaded before it.
LEMMA DictOvertakes ==
    ASSUME Typed, DictOvertaken
    PROVE  \A r \in DictReaders :
             /\ loading'[r] \in [list : SUBSET Lists, overtaken : BOOLEAN]
             /\ loading'[r].list = {} \/ loading'[r].overtaken
  <1> SUFFICES ASSUME NEW r \in DictReaders
               PROVE  /\ loading'[r] \in [list : SUBSET Lists, overtaken : BOOLEAN]
                      /\ loading'[r].list = {} \/ loading'[r].overtaken
    BY Zenon
  <1>1. loading[r] \in [list : SUBSET Lists, overtaken : BOOLEAN]
    BY DEF Typed
  <1>2. loading'[r] = [loading[r] EXCEPT !.overtaken = loading[r].overtaken \/ loading[r].list # {}]
    BY DEF DictOvertaken
  <1> QED
    BY <1>1, <1>2

LEMMA DictStep == DictInv /\ [DictNext]_dictVars => DictInv'
  <1> SUFFICES ASSUME DictInv, [DictNext]_dictVars
               PROVE  DictInv'
    OBVIOUS
  <1> USE DEF DictInv
  <1>1. CASE CreateDict
    BY <1>1 DEF CreateDict, Typed, CacheInv, UniqueInv, EnabledItems, Rows, Invalidating
  <1>2. CASE ListExpires
    BY <1>2 DEF ListExpires, Typed, CacheInv, UniqueInv, EnabledItems, Rows, Invalidating
  <1>3. ASSUME NEW e \in DictEditors, NEW i \in Items, NEW to \in Item, EditReads(e, i, to)
        PROVE  DictInv'
    <2>1. Typed'
      BY <1>3 DEF EditReads, Typed
    <2>2. Invalidating => Invalidating'
      BY <1>3 DEF EditReads, Typed, Invalidating, NoEditing
    <2> QED
      BY <1>3, <2>1, <2>2 DEF EditReads, CacheInv, UniqueInv, EnabledItems, Rows
  <1>4. ASSUME NEW e \in DictEditors, EditSaves(e)
        PROVE  DictInv'
    <2>1. Typed' /\ Invalidating'
      BY <1>4 DEF EditSaves, Typed, Invalidating
    <2>2. UniqueInv'
      <3> DEFINE k == editing[e].item
      <3>1. k \in Items /\ item' = [item EXCEPT ![k] = editing[e].to]
        BY <1>4 DEF EditSaves, Typed
      <3>2. \A i \in Rows \ {k} : item[i].value # editing[e].to.value
        BY <1>4 DEF EditSaves, ValueTaken, Rows
      <3>3. item'[k] = editing[e].to /\ \A i \in Items \ {k} : item'[i] = item[i]
        BY <3>1 DEF Typed
      <3>4. Rows' \ {k} \subseteq Rows /\ Rows' \subseteq Items
        BY <3>3 DEF Rows
      <3> QED
        BY <3>2, <3>3, <3>4 DEF UniqueInv
    <2> QED
      BY <2>1, <2>2 DEF CacheInv
  <1>5. ASSUME NEW e \in DictEditors, EditFails(e)
        PROVE  DictInv'
    <2>1. Typed'
      BY <1>5 DEF EditFails, Typed, NoEditing
    <2>2. Invalidating => Invalidating'
      BY <1>5 DEF EditFails, Typed, Invalidating
    <2> QED
      BY <1>5, <2>1, <2>2 DEF EditFails, CacheInv, UniqueInv, EnabledItems, Rows
  <1>6. ASSUME NEW e \in DictEditors, UpdateDict(e)
        PROVE  DictInv'
    <2>1. Typed' /\ Invalidating'
      BY <1>6 DEF UpdateDict, Typed, Invalidating
    <2> QED
      BY <1>6, <2>1 DEF UpdateDict, CacheInv, UniqueInv, Rows
  <1>7. ASSUME NEW e \in DictEditors, InvalidateCode(e) \/ InvalidateCodeFails(e)
        PROVE  DictInv'
    <2>1. DictOvertaken /\ item' = item /\ editing' = [editing EXCEPT ![e] = NoEditing]
      BY <1>7 DEF InvalidateCode, InvalidateCodeFails
    <2>2. Typed'
      <3>1. loading' = [r \in DictReaders |-> loading'[r]]
        BY <2>1 DEF DictOvertaken
      <3>2. \A r \in DictReaders : loading'[r] \in [list : SUBSET Lists, overtaken : BOOLEAN]
        BY <2>1, DictOvertakes
      <3> QED
        BY <2>1, <3>1, <3>2 DEF Typed, NoEditing
    <2>3. served' \subseteq {EnabledItems'} \/ doubtful'
      BY <1>7 DEF InvalidateCode, InvalidateCodeFails
    <2>4. CacheInv'
      BY <2>1, <2>3, DictOvertakes DEF CacheInv
    <2> QED
      BY <2>1, <2>2, <2>4 DEF UniqueInv, Rows
  <1>8. ASSUME NEW r \in DictReaders, ListLoads(r)
        PROVE  DictInv'
    <2>1. loading' = [loading EXCEPT ![r] = [list |-> {EnabledItems}, overtaken |-> FALSE]]
      BY <1>8 DEF ListLoads
    <2>2. EnabledItems \in Lists
      BY DEF EnabledItems, Lists, Typed, Item
    <2>3. Typed'
      BY <1>8, <2>1, <2>2 DEF ListLoads, Typed
    <2>4. EnabledItems' = EnabledItems /\ Rows' = Rows /\ item' = item /\ served' = served
          /\ doubtful' = doubtful /\ Invalidating' = Invalidating
      BY <1>8 DEF ListLoads, EnabledItems, Rows, Invalidating
    <2>5. \A q \in DictReaders \ {r} : loading'[q] = loading[q]
      BY <2>1 DEF Typed
    <2>6. loading'[r].list = {EnabledItems}
      BY <2>1 DEF Typed
    <2> QED
      BY <2>3, <2>4, <2>5, <2>6 DEF CacheInv, UniqueInv
  <1>9. ASSUME NEW r \in DictReaders, ListStores(r)
        PROVE  DictInv'
    <2>1. loading' = [loading EXCEPT ![r] = NoLoading]
      BY <1>9 DEF ListStores
    <2>2. Typed'
      BY <1>9, <2>1 DEF ListStores, Typed, NoLoading
    <2>3. EnabledItems' = EnabledItems /\ Rows' = Rows /\ item' = item
          /\ served' = loading[r].list /\ doubtful' = loading[r].overtaken
          /\ Invalidating' = Invalidating
      BY <1>9 DEF ListStores, EnabledItems, Rows, Invalidating
    <2>4. loading'[r].list = {} /\ \A q \in DictReaders \ {r} : loading'[q] = loading[q]
      BY <2>1 DEF Typed, NoLoading
    <2> QED
      BY <2>2, <2>3, <2>4 DEF CacheInv, UniqueInv
  <1>10. CASE UNCHANGED dictVars
    BY <1>10 DEF dictVars, Typed, CacheInv, UniqueInv, EnabledItems, Rows, Invalidating
  <1> QED
    BY <1>1, <1>2, <1>3, <1>4, <1>5, <1>6, <1>7, <1>8, <1>9, <1>10 DEF DictNext

\* However readers and editors overlap, the list that is served is the enabled items', unless its
\* deletion is on its way, was lost or was overtaken; and no value is twice among them
\* (DictionaryService, CacheService.getOrSet).
THEOREM ServedListHolds == DictSpec => []ServedListIsCurrent
  <1>1. DictInit => DictInv
    <2>1. DictInit => Typed
      BY DictAssumption DEF DictInit, Typed, NoLoading, NoEditing, Item
    <2>2. DictInit => CacheInv /\ UniqueInv
      BY DEF DictInit, CacheInv, UniqueInv, Rows, NoLoading
    <2> QED
      BY <2>1, <2>2 DEF DictInv
  <1>2. DictInv => ServedListIsCurrent
    BY DEF DictInv, CacheInv, UniqueInv, Invalidating, ServedListIsCurrent
  <1> QED
    BY <1>1, <1>2, DictStep, PTL DEF DictSpec

-------------------------------------------------------------------------------
(***************************************************************************)
(* Seeding: a run of the seeds that comes to its end leaves nothing out, for*)
(* any sequence of seeds and any number of runs beside it.                 *)
(***************************************************************************)

\* A run is at a seed, and what it has passed since it began is there unless somebody has removed
\* something meanwhile.
PassedInv ==
    \A x \in Runs : run[x].step # "off" =>
        /\ run[x].at \in Places
        /\ run[x].calm => \A i \in Places : i < run[x].at => seeded[i] = "live"

SeedInv == SeedTypeOK /\ PassedInv /\ FinishedSeedIsWhole

LEMMA PlacesAreNumbers == Places = 1..Len(Seeds) /\ Len(Seeds) \in Nat \ {0}
  BY SeedsAssumption DEF Places

\* Getting past a seed that is there.
LEMMA Passing ==
    ASSUME SeedInv, NEW x \in Runs, run[x].step # "off", NextSeed(x),
           seeded' \in [Places -> {"absent", "live", "deleted"}], seeded'[run[x].at] = "live",
           \A i \in Places : seeded[i] = "live" => seeded'[i] = "live"
    PROVE  SeedInv'
  <1> DEFINE n == run[x].at
  <1>1. n \in Places /\ n \in Nat /\ n <= Len(Seeds)
    BY PlacesAreNumbers DEF SeedInv, PassedInv
  <1>2. run' = [run EXCEPT ![x].at = n + 1, ![x].step = IF n < Len(Seeds) THEN "find" ELSE "off"]
    BY DEF NextSeed
  <1>3. /\ run'[x].at = n + 1 /\ run'[x].calm = run[x].calm
        /\ run'[x].step = IF n < Len(Seeds) THEN "find" ELSE "off"
        /\ \A y \in Runs \ {x} : run'[y] = run[y]
    BY <1>2 DEF SeedInv, SeedTypeOK
  <1>4. run[x].calm => \A i \in Places : i < n + 1 => seeded'[i] = "live"
    <2> SUFFICES ASSUME run[x].calm, NEW i \in Places, i < n + 1
                 PROVE  seeded'[i] = "live"
      OBVIOUS
    <2>1. i = n \/ i < n
      BY <1>1, PlacesAreNumbers
    <2> QED
      BY <2>1 DEF SeedInv, PassedInv
  <1>5. SeedTypeOK'
    <2>1. run' \in [Runs -> [at : 1..Len(Seeds) + 1, step : {"off", "find", "insert"},
                             calm : BOOLEAN]]
      <3>1. n + 1 \in 1..Len(Seeds) + 1
        BY <1>1, PlacesAreNumbers
      <3>2. \A y \in Runs : run[y] \in [at : 1..Len(Seeds) + 1, step : {"off", "find", "insert"},
                                        calm : BOOLEAN]
        BY DEF SeedInv, SeedTypeOK
      <3> HIDE DEF n
      <3>3. [run[x] EXCEPT !.at = n + 1, !.step = IF n < Len(Seeds) THEN "find" ELSE "off"]
              \in [at : 1..Len(Seeds) + 1, step : {"off", "find", "insert"}, calm : BOOLEAN]
        BY <3>1, <3>2
      <3>4. run' = [run EXCEPT ![x] =
                      [run[x] EXCEPT !.at = n + 1, !.step = IF n < Len(Seeds) THEN "find" ELSE "off"]]
        BY <1>2, <3>2 DEF SeedInv, SeedTypeOK
      <3> QED
        BY <3>2, <3>3, <3>4 DEF SeedInv, SeedTypeOK
    <2>2. whole' \in BOOLEAN
      BY DEF NextSeed
    <2> QED
      BY <2>1, <2>2 DEF SeedTypeOK
  <1>6. PassedInv'
    <2> SUFFICES ASSUME NEW y \in Runs, run'[y].step # "off"
                 PROVE  /\ run'[y].at \in Places
                        /\ run'[y].calm => \A i \in Places : i < run'[y].at => seeded'[i] = "live"
      BY DEF PassedInv, Places
    <2>1. CASE y = x
      <3>1. n < Len(Seeds)
        BY <1>3, <2>1
      <3> QED
        BY <1>1, <1>3, <1>4, <2>1, <3>1, PlacesAreNumbers
    <2>2. CASE y # x
      BY <1>3, <2>2 DEF SeedInv, PassedInv
    <2> QED
      BY <2>1, <2>2
  <1>7. FinishedSeedIsWhole'
    <2>1. CASE whole
      BY <2>1 DEF SeedInv, FinishedSeedIsWhole, Places
    <2>2. CASE n = Len(Seeds) /\ run[x].calm
      BY <1>4, <2>2, PlacesAreNumbers DEF FinishedSeedIsWhole, Places
    <2> QED
      BY <2>1, <2>2 DEF NextSeed, FinishedSeedIsWhole
  <1> QED
    BY <1>5, <1>6, <1>7 DEF SeedInv

LEMMA SeedStep == SeedInv /\ [SeedNext]_seedVars => SeedInv'
  <1> SUFFICES ASSUME SeedInv, [SeedNext]_seedVars
               PROVE  SeedInv'
    OBVIOUS
  <1> USE DEF Places
  <1>1. ASSUME NEW x \in Runs, SeedStarts(x)
        PROVE  SeedInv'
    <2>1. run' = [run EXCEPT ![x] = [at |-> 1, step |-> "find", calm |-> TRUE]]
      BY <1>1 DEF SeedStarts
    <2>2. SeedTypeOK'
      BY <1>1, <2>1, PlacesAreNumbers DEF SeedInv, SeedTypeOK, SeedStarts
    <2>3. PassedInv'
      BY <1>1, <2>1, PlacesAreNumbers DEF SeedInv, SeedTypeOK, PassedInv, SeedStarts
    <2> QED
      BY <1>1, <2>2, <2>3 DEF SeedInv, FinishedSeedIsWhole, SeedStarts
  <1>2. ASSUME NEW x \in Runs, SeedFinds(x)
        PROVE  SeedInv'
    BY <1>2, Passing DEF SeedFinds, SeedInv, SeedTypeOK
  <1>3. ASSUME NEW x \in Runs, SeedMisses(x)
        PROVE  SeedInv'
    BY <1>3 DEF SeedMisses, SeedInv, SeedTypeOK, PassedInv, FinishedSeedIsWhole
  <1>4. ASSUME NEW x \in Runs, SeedInserts(x)
        PROVE  SeedInv'
    <2>1. run[x].at \in Places
      BY <1>4 DEF SeedInserts, SeedInv, PassedInv
    <2>2. seeded' = [seeded EXCEPT ![run[x].at] = "live"]
      BY <1>4 DEF SeedInserts
    <2> QED
      BY <1>4, <2>1, <2>2, Passing DEF SeedInserts, SeedInv, SeedTypeOK
  <1>5. ASSUME NEW x \in Runs, SeedStops(x)
        PROVE  SeedInv'
    BY <1>5 DEF SeedStops, SeedInv, SeedTypeOK, PassedInv, FinishedSeedIsWhole
  <1>6. ASSUME NEW i \in Places, RowRemoved(i)
        PROVE  SeedInv'
    <2>1. /\ run' = [x \in Runs |-> [run[x] EXCEPT !.calm = FALSE]]
          /\ ~whole'
          /\ seeded' = [seeded EXCEPT ![i] = IF Seeds[i] = "binding" THEN "absent" ELSE "deleted"]
          /\ whole' \in BOOLEAN
      BY <1>6 DEF RowRemoved
    <2>2. SeedTypeOK'
      BY <2>1 DEF SeedInv, SeedTypeOK
    <2>3. PassedInv'
      BY <2>1 DEF SeedInv, SeedTypeOK, PassedInv
    <2> QED
      BY <2>1, <2>2, <2>3 DEF SeedInv, FinishedSeedIsWhole
  <1>7. CASE UNCHANGED seedVars
    BY <1>7 DEF seedVars, SeedInv, SeedTypeOK, PassedInv, FinishedSeedIsWhole
  <1> QED
    BY <1>1, <1>2, <1>3, <1>4, <1>5, <1>6, <1>7 DEF SeedNext

\* Whatever runs beside a run of the seeds or was cut short before it, its end means that every
\* seeded row is there, until one is removed (runSeeds).
THEOREM SeedsAreWhole == SeedSpec => []FinishedSeedIsWhole
  <1>1. SeedInit => SeedInv
    <2>1. [at |-> 1, step |-> "off", calm |-> TRUE]
            \in [at : 1..Len(Seeds) + 1, step : {"off", "find", "insert"}, calm : BOOLEAN]
      <3>1. 1 \in 1..Len(Seeds) + 1
        BY PlacesAreNumbers
      <3> QED
        BY <3>1
    <2>2. SeedInit => SeedTypeOK
      BY <2>1 DEF SeedInit, SeedTypeOK
    <2>3. SeedInit => PassedInv /\ FinishedSeedIsWhole
      BY DEF SeedInit, PassedInv, FinishedSeedIsWhole
    <2> QED
      BY <2>2, <2>3 DEF SeedInv
  <1>2. SeedInv => FinishedSeedIsWhole
    BY DEF SeedInv
  <1> QED
    BY <1>1, <1>2, SeedStep, PTL DEF SeedSpec

-------------------------------------------------------------------------------
(***************************************************************************)
(* Locks: a lock is its holder's for as long as its time lasts, for any number*)
(* of callers and any time, whoever is late, dies or is refused.           *)
(***************************************************************************)

LocksTypeOK ==
    /\ key \in [token : Lockers \cup {NoLocker}, ttl : 0..LockTtl]
    /\ key = NoKey \/ key.ttl > 0
    /\ call \in [Lockers -> [step : {"new", "inside", "leaving", "done"}, left : 0..LockTtl]]

\* A call inside that has time left is the one whose token the key has, and the key outlives it.
HolderInv ==
    \A l \in Lockers : call[l].step = "inside" /\ call[l].left > 0
                       => key.token = l /\ call[l].left <= key.ttl

LocksInv == LocksTypeOK /\ HolderInv

\* The key is somebody's or nobody's: with no call left inside, setting it harms nobody.
LEMMA NobodyHolds ==
    ASSUME LocksInv, key = NoKey
    PROVE  \A l \in Lockers : ~(call[l].step = "inside" /\ call[l].left > 0)
  BY LockAssumption DEF LocksInv, HolderInv, NoKey

\* Every step of a call of withLock, and every second that passes, keeps the holder alone.
LEMMA LocksStep == LocksInv /\ [LocksNext]_lockVars => LocksInv'
  <1> SUFFICES ASSUME LocksInv, [LocksNext]_lockVars
               PROVE  LocksInv'
    OBVIOUS
  <1> USE LockAssumption DEF LocksInv, LocksTypeOK
  <1>1. ASSUME NEW l \in Lockers, Acquires(l)
        PROVE  LocksInv'
    <2>1. key' = [token |-> l, ttl |-> LockTtl]
      BY <1>1 DEF Acquires, SetNX
    <2>2. call' = [call EXCEPT ![l] = [step |-> "inside", left |-> LockTtl]]
      BY <1>1 DEF Acquires
    <2>3. \A m \in Lockers \ {l} : ~(call'[m].step = "inside" /\ call'[m].left > 0)
      BY <1>1, <2>2, NobodyHolds DEF Acquires
    <2>4. HolderInv'
      BY <2>1, <2>2, <2>3 DEF HolderInv
    <2> QED
      BY <2>1, <2>2, <2>4
  <1>2. ASSUME NEW l \in Lockers, FindsItBusy(l)
        PROVE  LocksInv'
    <2>1. key' = key
      BY <1>2 DEF FindsItBusy, SetNX
    <2>2. PICK again \in {"new", "done"} : call' = [call EXCEPT ![l].step = again]
      BY <1>2 DEF FindsItBusy
    <2> QED
      BY <2>1, <2>2 DEF HolderInv
  <1>3. ASSUME NEW l \in Lockers, Returns(l)
        PROVE  LocksInv'
    BY <1>3 DEF Returns, HolderInv
  <1>4. ASSUME NEW l \in Lockers, Releases(l)
        PROVE  LocksInv'
    <2>1. call' = [call EXCEPT ![l] = [step |-> "done", left |-> 0]]
      BY <1>4 DEF Releases
    <2>2. CASE key.token = l
      <3>1. \A m \in Lockers : ~(call'[m].step = "inside" /\ call'[m].left > 0)
        BY <1>4, <2>1, <2>2 DEF HolderInv, Releases
      <3>2. key' = NoKey
        BY <1>4, <2>2 DEF Releases, ReleasedByToken
      <3> QED
        BY <2>1, <3>1, <3>2 DEF HolderInv, NoKey
    <2>3. CASE key.token # l
      BY <1>4, <2>1, <2>3 DEF HolderInv, Releases, ReleasedByToken
    <2> QED
      BY <2>2, <2>3
  <1>5. ASSUME NEW l \in Lockers, Dies(l)
        PROVE  LocksInv'
    BY <1>5 DEF Dies, HolderInv
  <1>6. ASSUME SecondPasses
        PROVE  LocksInv'
    <2>1. call' = [l \in Lockers |-> [call[l] EXCEPT !.left = IF @ > 0 THEN @ - 1 ELSE 0]]
      BY <1>6 DEF SecondPasses
    <2>2. \A l \in Lockers : /\ call'[l].step = call[l].step
                             /\ call'[l].left = IF call[l].left > 0 THEN call[l].left - 1 ELSE 0
      BY <2>1
    <2>3. call' \in [Lockers -> [step : {"new", "inside", "leaving", "done"}, left : 0..LockTtl]]
      BY <2>1
    <2>4. CASE key.ttl = 1
      <3>1. key' = NoKey
        BY <1>6, <2>4 DEF SecondPasses
      <3>2. \A l \in Lockers : ~(call'[l].step = "inside" /\ call'[l].left > 0)
        BY <2>2, <2>4 DEF HolderInv
      <3> QED
        BY <2>3, <3>1, <3>2 DEF HolderInv, NoKey
    <2>5. CASE key.ttl # 1
      <3>1. key' = [key EXCEPT !.ttl = @ - 1]
        BY <1>6, <2>5 DEF SecondPasses
      <3>2. key.ttl > 1
        BY <1>6, <2>5 DEF SecondPasses
      <3>3. /\ key'.token = key.token /\ key'.ttl = key.ttl - 1 /\ key'.ttl > 0
            /\ key' \in [token : Lockers \cup {NoLocker}, ttl : 0..LockTtl]
        BY <3>1, <3>2
      <3>4. HolderInv'
        BY <2>2, <3>3 DEF HolderInv
      <3> QED
        BY <2>3, <3>3, <3>4
    <2> QED
      BY <2>4, <2>5
  <1>7. CASE UNCHANGED lockVars
    BY <1>7 DEF lockVars, HolderInv
  <1> QED
    BY <1>1, <1>2, <1>3, <1>4, <1>5, <1>6, <1>7 DEF LocksNext

\* Whatever the callers of withLock do and however long they take, one whose time has not run out
\* is the owner of the key (CacheService.acquireLock and releaseLock).
THEOREM LockHolds == LocksSpec => []LockIsNotTakenAway
  <1>1. LocksInit => LocksInv
    BY LockAssumption DEF LocksInit, LocksInv, LocksTypeOK, HolderInv, NoKey
  <1>2. LocksInv => LockIsNotTakenAway
    BY DEF LocksInv, HolderInv, LockIsNotTakenAway
  <1> QED
    BY <1>1, <1>2, LocksStep, PTL DEF LocksSpec

-------------------------------------------------------------------------------
(***************************************************************************)
(* Context: the context of a request, for any number of requests, users and*)
(* ids.                                                                    *)
(***************************************************************************)

CtxUsers == Subs \cup {NoSub}
CtxIds   == HeaderIds \cup {NoId} \cup {<<n>> : n \in Nat}
Stamps   == [createdBy : CtxUsers, updatedBy : CtxUsers]

FlowRecord == [step : {"sent", "guarded", "handler", "loaded", "replies", "done"}, user : CtxUsers,
               named : CtxIds, answer : CtxIds, loaded : Stamps]
TaskRecord == [by : {"none", "request", "dispatcher"}, data : CtxIds, runs : Seq(CtxIds),
               state : {"none", "waiting", "active", "completed", "failed"}]

CtxTypes ==
    /\ flow \in [Flows -> FlowRecord]
    /\ store \in [Flows -> [requestId : CtxIds, sub : CtxUsers]]
    /\ entity \in [exists : BOOLEAN, stamps : Stamps]
    /\ author \in Stamps
    /\ task \in [Flows -> TaskRecord]
    /\ dead \in [Flows -> SUBSET CtxIds]
    /\ uuids \in Nat

\* Whoever stamps a row is the user of its request, and an entity that is about to be saved was
\* made by whoever made the row.
ActorInv ==
    /\ \A f \in Flows :
          /\ flow[f].step \in {"sent", "guarded"} => store[f].sub = NoSub
          /\ flow[f].step \in {"handler", "loaded"} => store[f].sub = flow[f].user
          /\ flow[f].step = "loaded" => entity.exists /\ flow[f].loaded.createdBy = author.createdBy
    /\ ActorIsRecorded

\* A request that has not come in has no id, no answer and no job; afterwards it has an id, the
\* one in the header x-request-id if there is one, and its job has it too.
TraceOf(f) ==
    /\ flow[f].step = "sent" => flow[f].answer = NoId /\ flow[f].named = NoId /\ task[f].state = "none"
    /\ flow[f].step # "sent" => store[f].requestId # NoId /\ flow[f].named \in {NoId, store[f].requestId}
    /\ flow[f].answer \in {NoId, store[f].requestId}
    /\ task[f].state = "none" => task[f] = NoTask /\ dead[f] = {}
    /\ task[f].by = "request" =>
          /\ task[f].data = store[f].requestId
          /\ \A i \in DOMAIN task[f].runs : task[f].runs[i] = store[f].requestId
          /\ dead[f] \subseteq {store[f].requestId}

TraceInv == \A f \in Flows : TraceOf(f)

ContextInv == CtxTypes /\ ActorInv /\ TraceInv
-------------------------------------------------------------------------------
LEMMA GeneratedIsAnId == ASSUME uuids \in Nat PROVE Generated \in CtxIds /\ Generated # NoId
  <1>1. uuids + 1 \in Nat
    OBVIOUS
  <1>2. Generated \in CtxIds
    BY <1>1 DEF Generated, CtxIds
  <1>3. Generated \in Seq(Nat)
    BY <1>1 DEF Generated
  <1> QED
    BY <1>2, <1>3, ContextAssumption

\* What holds of the other requests in a step of request f.
LEMMA OtherTraces ==
    ASSUME TraceInv, NEW f \in Flows, TraceOf(f)',
           \A g \in Flows \ {f} : flow'[g] = flow[g] /\ store'[g] = store[g] /\ task'[g] = task[g] /\ dead'[g] = dead[g]
    PROVE  TraceInv'
  BY DEF TraceInv, TraceOf, NoTask

\* A step that stamps no row.
LEMMA SameRow ==
    ASSUME ActorInv, UNCHANGED <<entity, author>>, NEW f \in Flows,
           \A g \in Flows \ {f} : flow'[g] = flow[g] /\ store'[g] = store[g],
           /\ flow'[f].step \in {"sent", "guarded"} => store'[f].sub = NoSub
           /\ flow'[f].step \in {"handler", "loaded"} => store'[f].sub = flow'[f].user
           /\ flow'[f].step = "loaded" => entity.exists /\ flow'[f].loaded.createdBy = author.createdBy
    PROVE  ActorInv'
  BY DEF ActorInv, ActorIsRecorded

LEMMA EntersStep == ASSUME ContextInv, NEW f \in Flows, Enters(f) PROVE ContextInv'
  <1>0. CtxTypes /\ ActorInv /\ TraceInv /\ flow[f].step = "sent" /\ UNCHANGED <<entity, author, task, dead>>
    BY DEF ContextInv, Enters, In
  <1>1. PICK named \in HeaderIds \cup {NoId}, other \in HeaderIds \cup {NoId} :
            /\ store' = [store EXCEPT ![f].requestId = RequestIdOf(named, other)]
            /\ uuids' = (IF RequestIdOf(named, other) = Generated THEN uuids + 1 ELSE uuids)
            /\ flow' = [flow EXCEPT ![f].step = "guarded", ![f].named = named]
    BY Zenon DEF Enters
  <1> DEFINE id == RequestIdOf(named, other)
  <1>2. id \in CtxIds /\ id # NoId /\ named \in {NoId, id} /\ named \in CtxIds
    <2>1. Generated \in CtxIds /\ Generated # NoId
      BY <1>0, GeneratedIsAnId DEF CtxTypes
    <2> QED
      BY <2>1 DEF RequestIdOf, CtxIds
  <1> HIDE DEF id
  <1>3. flow[f] \in FlowRecord /\ store[f] \in [requestId : CtxIds, sub : CtxUsers]
    BY <1>0 DEF CtxTypes
  <1>id. store' = [store EXCEPT ![f].requestId = id] /\ uuids' \in Nat
    BY <1>0, <1>1 DEF id, CtxTypes
  <1>4. /\ flow'[f] = [flow[f] EXCEPT !.step = "guarded", !.named = named]
        /\ store'[f] = [store[f] EXCEPT !.requestId = id]
        /\ \A g \in Flows \ {f} : flow'[g] = flow[g] /\ store'[g] = store[g]
    BY <1>0, <1>1, <1>id DEF CtxTypes
  <1>5. flow'[f] \in FlowRecord /\ store'[f] \in [requestId : CtxIds, sub : CtxUsers]
    BY <1>2, <1>3, <1>4 DEF FlowRecord
  <1>6. /\ flow'[f].step = "guarded" /\ flow'[f].named = named /\ flow'[f].answer = flow[f].answer
        /\ store'[f].requestId = id /\ store'[f].sub = store[f].sub
    BY <1>3, <1>4 DEF FlowRecord
  <1>7. flow' \in [Flows -> FlowRecord] /\ store' \in [Flows -> [requestId : CtxIds, sub : CtxUsers]] /\ uuids' \in Nat
    BY <1>0, <1>1, <1>id, <1>4, <1>5 DEF CtxTypes
  <1>8. CtxTypes'
    BY <1>0, <1>7 DEF CtxTypes
  <1>9. ActorInv'
    <2>1. store'[f].sub = NoSub
      BY <1>0, <1>6 DEF ActorInv
    <2> QED
      BY <1>0, <1>4, <1>6, <2>1, SameRow
  <1>10. TraceOf(f)'
    <2>1. flow[f].answer = NoId /\ task[f].state = "none" /\ task[f] = NoTask /\ dead[f] = {}
      BY <1>0 DEF TraceInv, TraceOf
    <2>2. task'[f] = NoTask /\ dead'[f] = {} /\ NoTask.by = "none" /\ NoTask.state = "none"
      BY <1>0, <2>1 DEF NoTask
    <2> QED
      BY <1>2, <1>6, <2>1, <2>2 DEF TraceOf, NoTask
  <1> QED
    BY <1>0, <1>4, <1>8, <1>9, <1>10, OtherTraces DEF ContextInv

\* A step of a request that is in, that changes neither its id nor its jobs.
LEMMA FlowMoves ==
    ASSUME ContextInv, NEW f \in Flows, NEW n \in FlowRecord, flow' = [flow EXCEPT ![f] = n],
           flow[f].step # "sent", n.step # "sent", n.named = flow[f].named,
           n.answer \in {NoId, store[f].requestId},
           store' = store \/ \E s \in CtxUsers : store' = [store EXCEPT ![f].sub = s],
           UNCHANGED <<task, dead, uuids>>, entity' \in [exists : BOOLEAN, stamps : Stamps], author' \in Stamps,
           ActorInv'
    PROVE  ContextInv'
  <1>0. CtxTypes /\ TraceInv
    BY DEF ContextInv
  <1>1. /\ store' \in [Flows -> [requestId : CtxIds, sub : CtxUsers]] /\ store'[f].requestId = store[f].requestId
        /\ \A g \in Flows \ {f} : store'[g] = store[g]
    BY <1>0 DEF CtxTypes
  <1>2. flow' \in [Flows -> FlowRecord] /\ flow'[f] = n /\ \A g \in Flows \ {f} : flow'[g] = flow[g]
    BY <1>0 DEF CtxTypes
  <1>3. CtxTypes'
    BY <1>0, <1>1, <1>2 DEF CtxTypes
  <1>4. TraceOf(f)'
    <2>1. TraceOf(f)
      BY <1>0 DEF TraceInv
    <2> QED
      BY <1>1, <1>2, <2>1 DEF TraceOf, NoTask
  <1> QED
    BY <1>0, <1>1, <1>2, <1>3, <1>4, OtherTraces DEF ContextInv

LEMMA FlowSteps == ASSUME ContextInv, NEW f \in Flows, FlowStep(f) PROVE ContextInv'
  <1>0. CtxTypes /\ ActorInv /\ TraceInv /\ flow[f] \in FlowRecord /\ store[f] \in [requestId : CtxIds, sub : CtxUsers]
        /\ entity \in [exists : BOOLEAN, stamps : Stamps] /\ author \in Stamps
    BY DEF ContextInv, CtxTypes
  <1>m. ASSUME NEW step \in {"guarded", "handler", "loaded", "replies", "done"}, Moves(f, step)
        PROVE  \E n \in FlowRecord : /\ flow' = [flow EXCEPT ![f] = n]
                                     /\ n.step = step /\ n.named = flow[f].named /\ n.answer = flow[f].answer
    <2>1. PICK n : n = [flow[f] EXCEPT !.step = step]
      OBVIOUS
    <2>2. n \in FlowRecord /\ n.step = step /\ n.named = flow[f].named /\ n.answer = flow[f].answer
      BY <1>0, <2>1 DEF FlowRecord
    <2>3. flow' = [flow EXCEPT ![f] = n]
      BY <1>m, <2>1 DEF Moves
    <2> QED
      BY <2>2, <2>3
  <1>a. flow[f].answer \in {NoId, store[f].requestId}
    BY <1>0 DEF TraceInv, TraceOf
  <1>1. CASE Enters(f)
    BY <1>1, EntersStep
  <1>2. CASE UserIsSet(f)
    <2>1. PICK user \in CtxUsers :
              /\ store' = [store EXCEPT ![f] = IF user # NoSub THEN SetUser(store[f], user) ELSE store[f]]
              /\ flow' = [flow EXCEPT ![f].step = "handler", ![f].user = user]
      BY <1>0, <1>2 DEF UserIsSet, CtxUsers, CtxTypes
    <2>2. PICK n : n = [flow[f] EXCEPT !.step = "handler", !.user = user]
      OBVIOUS
    <2>3. n \in FlowRecord /\ n.step = "handler" /\ n.named = flow[f].named /\ n.answer = flow[f].answer /\ n.user = user
      BY <1>0, <2>2 DEF FlowRecord
    <2>4. flow' = [flow EXCEPT ![f] = n] /\ flow'[f] = n /\ \A g \in Flows \ {f} : flow'[g] = flow[g]
      BY <1>0, <2>1, <2>2 DEF CtxTypes
    <2>5. store[f].sub = NoSub /\ flow[f].step = "guarded" /\ UNCHANGED <<entity, author, task, dead, uuids>>
      BY <1>0, <1>2 DEF UserIsSet, In, ActorInv
    <2>6. store' = [store EXCEPT ![f].sub = user]
      <3>1. CASE user = NoSub
        <4>1. store' = store
          BY <1>0, <2>1, <3>1 DEF CtxTypes
        <4>2. [store[f] EXCEPT !.sub = user] = store[f]
          BY <1>0, <2>5, <3>1
        <4>3. [store EXCEPT ![f].sub = user] = store
          BY <1>0, <4>2 DEF CtxTypes
        <4> QED
          BY <4>1, <4>3
      <3>2. CASE user # NoSub
        BY <2>1, <3>2 DEF SetUser
      <3> QED
        BY <3>1, <3>2
    <2>7. store'[f].sub = user /\ \A g \in Flows \ {f} : store'[g] = store[g]
      BY <1>0, <2>6 DEF CtxTypes
    <2>8. ActorInv'
      BY <1>0, <2>3, <2>4, <2>5, <2>7, SameRow
    <2> QED
      BY <1>0, <1>a, <2>3, <2>4, <2>5, <2>6, <2>8, FlowMoves
  <1>3. CASE CreatesRow(f)
    <2>1. /\ flow[f].step = "handler" /\ ~entity.exists /\ UNCHANGED <<store, task, dead, uuids>>
          /\ entity' = [exists |-> TRUE, stamps |-> BeforeInsert(Unstamped, store[f].sub)]
          /\ author' = [createdBy |-> flow[f].user, updatedBy |-> flow[f].user]
      BY <1>3 DEF CreatesRow, In
    <2>2. PICK n \in FlowRecord : flow' = [flow EXCEPT ![f] = n] /\ n.step = "replies" /\ n.named = flow[f].named
                                  /\ n.answer = flow[f].answer
      BY <1>3, <1>m DEF CreatesRow
    <2>3. store[f].sub = flow[f].user /\ flow[f].user \in CtxUsers
      BY <1>0, <2>1 DEF ActorInv, FlowRecord
    <2>4. BeforeInsert(Unstamped, store[f].sub) = [createdBy |-> flow[f].user, updatedBy |-> flow[f].user]
      BY <2>3 DEF BeforeInsert, Unstamped
    <2>5. author' \in Stamps /\ entity' \in [exists : BOOLEAN, stamps : Stamps] /\ entity'.stamps = author'
      BY <2>1, <2>3, <2>4 DEF Stamps
    <2>6. ActorInv'
      <3>1. \A g \in Flows : flow[g].step # "loaded"
        BY <1>0, <2>1 DEF ActorInv
      <3>2. flow'[f].step = "replies" /\ \A g \in Flows \ {f} : flow'[g] = flow[g]
        BY <1>0, <2>2 DEF CtxTypes
      <3> QED
        BY <1>0, <2>1, <2>5, <3>1, <3>2 DEF ActorInv, ActorIsRecorded
    <2> QED
      BY <1>0, <1>a, <2>1, <2>2, <2>5, <2>6, FlowMoves
  <1>4. CASE Loads(f)
    <2>1. flow[f].step = "handler" /\ entity.exists /\ UNCHANGED <<store, entity, author, task, dead, uuids>>
      BY <1>4 DEF Loads, In
    <2>2. PICK n : n = [flow[f] EXCEPT !.step = "loaded", !.loaded = entity.stamps]
      OBVIOUS
    <2>3. n \in FlowRecord /\ n.step = "loaded" /\ n.named = flow[f].named /\ n.answer = flow[f].answer
          /\ n.user = flow[f].user /\ n.loaded = entity.stamps
      BY <1>0, <2>2 DEF FlowRecord
    <2>4. flow' = [flow EXCEPT ![f] = n] /\ flow'[f] = n /\ \A g \in Flows \ {f} : flow'[g] = flow[g]
      BY <1>0, <1>4, <2>2 DEF Loads, CtxTypes
    <2>5. entity.stamps = author /\ store[f].sub = flow[f].user
      BY <1>0, <2>1 DEF ActorInv, ActorIsRecorded
    <2>6. ActorInv'
      BY <1>0, <2>1, <2>3, <2>4, <2>5, SameRow
    <2> QED
      BY <1>0, <1>a, <2>1, <2>3, <2>4, <2>6, FlowMoves
  <1>5. CASE Saves(f)
    <2>1. /\ flow[f].step = "loaded" /\ flow[f].user # NoSub /\ UNCHANGED <<store, task, dead, uuids>>
          /\ entity' = [entity EXCEPT !.stamps = BeforeUpdate(flow[f].loaded, store[f].sub)]
          /\ author' = [author EXCEPT !.updatedBy = flow[f].user]
      BY <1>5 DEF Saves, In
    <2>2. PICK n \in FlowRecord : flow' = [flow EXCEPT ![f] = n] /\ n.step = "replies" /\ n.named = flow[f].named
                                  /\ n.answer = flow[f].answer
      BY <1>5, <1>m DEF Saves
    <2>3. /\ store[f].sub = flow[f].user /\ flow[f].user \in CtxUsers /\ entity.exists
          /\ flow[f].loaded \in Stamps /\ flow[f].loaded.createdBy = author.createdBy
      BY <1>0, <2>1 DEF ActorInv, FlowRecord
    <2>4. BeforeUpdate(flow[f].loaded, store[f].sub) = [author EXCEPT !.updatedBy = flow[f].user]
      BY <1>0, <2>1, <2>3 DEF BeforeUpdate, Stamps
    <2>5. author' \in Stamps /\ author'.createdBy = author.createdBy
      BY <1>0, <2>1, <2>3 DEF Stamps
    <2>6. entity' \in [exists : BOOLEAN, stamps : Stamps] /\ entity'.stamps = author' /\ entity'.exists
      BY <1>0, <2>1, <2>3, <2>4, <2>5
    <2>7. ActorInv'
      <3>1. flow'[f].step = "replies" /\ \A g \in Flows \ {f} : flow'[g] = flow[g]
        BY <1>0, <2>2 DEF CtxTypes
      <3> QED
        BY <1>0, <2>1, <2>5, <2>6, <3>1 DEF ActorInv, ActorIsRecorded
    <2> QED
      BY <1>0, <1>a, <2>1, <2>2, <2>5, <2>6, <2>7, FlowMoves
  <1>6. CASE UpdatesByCriteria(f)
    <2>1. /\ flow[f].step \in {"handler", "loaded"} /\ entity.exists /\ UNCHANGED <<store, task, dead, uuids>>
          /\ entity' = [entity EXCEPT !.stamps = BeforeUpdate(entity.stamps, store[f].sub)]
          /\ author' = IF flow[f].user # NoSub THEN [author EXCEPT !.updatedBy = flow[f].user] ELSE author
      BY <1>6 DEF UpdatesByCriteria
    <2>2. PICK n \in FlowRecord : flow' = [flow EXCEPT ![f] = n] /\ n.step = "replies" /\ n.named = flow[f].named
                                  /\ n.answer = flow[f].answer
      BY <1>6, <1>m DEF UpdatesByCriteria
    <2>3. store[f].sub = flow[f].user /\ flow[f].user \in CtxUsers /\ entity.stamps = author
      BY <1>0, <2>1 DEF ActorInv, ActorIsRecorded, FlowRecord
    <2>4. BeforeUpdate(entity.stamps, store[f].sub) = author'
      BY <2>1, <2>3 DEF BeforeUpdate
    <2>5. author' \in Stamps /\ author'.createdBy = author.createdBy
      BY <1>0, <2>1, <2>3 DEF Stamps
    <2>6. entity' \in [exists : BOOLEAN, stamps : Stamps] /\ entity'.stamps = author' /\ entity'.exists
      BY <1>0, <2>1, <2>4, <2>5
    <2>7. ActorInv'
      <3>1. flow'[f].step = "replies" /\ \A g \in Flows \ {f} : flow'[g] = flow[g]
        BY <1>0, <2>2 DEF CtxTypes
      <3> QED
        BY <1>0, <2>1, <2>5, <2>6, <3>1 DEF ActorInv, ActorIsRecorded
    <2> QED
      BY <1>0, <1>a, <2>1, <2>2, <2>5, <2>6, <2>7, FlowMoves
  <1>7. CASE Answers(f)
    <2>1. flow[f].step \in {"guarded", "handler", "loaded", "replies"} /\ UNCHANGED <<store, entity, author, task, dead, uuids>>
      BY <1>7 DEF Answers
    <2>2. PICK id : id = (IF flow[f].named # NoId THEN flow[f].named ELSE store[f].requestId)
      OBVIOUS
    <2>3. id = store[f].requestId /\ id \in CtxIds
      <3>1. flow[f].named \in {NoId, store[f].requestId}
        BY <1>0, <2>1 DEF TraceInv, TraceOf
      <3> QED
        BY <1>0, <2>2, <3>1
    <2>4. PICK n : n = [flow[f] EXCEPT !.step = "done", !.answer = id]
      OBVIOUS
    <2>5. n \in FlowRecord /\ n.step = "done" /\ n.named = flow[f].named /\ n.answer = id
      BY <1>0, <2>3, <2>4 DEF FlowRecord
    <2>6. flow' = [flow EXCEPT ![f] = n] /\ flow'[f] = n /\ \A g \in Flows \ {f} : flow'[g] = flow[g]
      BY <1>0, <1>7, <2>2, <2>4 DEF Answers, CtxTypes
    <2>7. ActorInv'
      BY <1>0, <2>1, <2>5, <2>6, SameRow
    <2> QED
      BY <1>0, <2>1, <2>3, <2>5, <2>6, <2>7, FlowMoves
  <1> QED
    BY <1>1, <1>2, <1>3, <1>4, <1>5, <1>6, <1>7 DEF FlowStep

\* A step that changes the job of request f, whether it adds an id to its runs or not.
LEMMA JobMoves ==
    ASSUME ContextInv, NEW f \in Flows, NEW n \in TaskRecord, task' = [task EXCEPT ![f] = n],
           UNCHANGED <<store, entity, author>>, uuids' \in Nat,
           flow' = flow \/ \E m \in FlowRecord : /\ flow' = [flow EXCEPT ![f] = m] /\ m.step = "replies"
                                                /\ m.named = flow[f].named /\ m.answer = flow[f].answer,
           flow[f].step # "sent", n.state # "none",
           NEW D \in SUBSET CtxIds, dead' = [dead EXCEPT ![f] = D],
           n.by = "request" =>
               /\ n.data = store[f].requestId /\ D \subseteq {store[f].requestId}
               /\ \A i \in DOMAIN n.runs : n.runs[i] = store[f].requestId
    PROVE  ContextInv'
  <1>0. CtxTypes /\ ActorInv /\ TraceInv
    BY DEF ContextInv
  <1>1. /\ task' \in [Flows -> TaskRecord] /\ task'[f] = n /\ \A g \in Flows \ {f} : task'[g] = task[g]
        /\ dead' \in [Flows -> SUBSET CtxIds] /\ dead'[f] = D /\ \A g \in Flows \ {f} : dead'[g] = dead[g]
    BY <1>0 DEF CtxTypes
  <1>2. /\ flow' \in [Flows -> FlowRecord] /\ \A g \in Flows \ {f} : flow'[g] = flow[g]
        /\ flow'[f].step # "sent" /\ flow'[f].named = flow[f].named /\ flow'[f].answer = flow[f].answer
        /\ (flow'[f].step = "replies" \/ flow'[f] = flow[f])
    BY <1>0 DEF CtxTypes
  <1>3. CtxTypes'
    BY <1>0, <1>1, <1>2 DEF CtxTypes
  <1>4. ActorInv'
    BY <1>0, <1>2, SameRow DEF ActorInv
  <1>5. TraceOf(f)'
    <2>1. TraceOf(f)
      BY <1>0 DEF TraceInv
    <2> QED
      BY <1>1, <1>2, <2>1 DEF TraceOf
  <1> QED
    BY <1>0, <1>1, <1>2, <1>3, <1>4, <1>5, OtherTraces DEF ContextInv

LEMMA JobSteps == ASSUME ContextInv, NEW f \in Flows, JobStep(f) PROVE ContextInv'
  <1>0. /\ CtxTypes /\ ActorInv /\ TraceInv /\ flow[f] \in FlowRecord /\ task[f] \in TaskRecord
        /\ store[f].requestId \in CtxIds /\ dead[f] \in SUBSET CtxIds /\ uuids \in Nat
        /\ dead = [dead EXCEPT ![f] = dead[f]] /\ TraceOf(f)
    BY DEF ContextInv, CtxTypes, TraceInv
  <1>1. CASE AddsTask(f)
    <2>1. flow[f].step = "handler" /\ task[f].state = "none" /\ UNCHANGED <<store, entity, author, dead, uuids>>
          /\ task' = [task EXCEPT ![f].by = "request", ![f].state = "waiting",
                                  ![f].data = WithContext(NoId, store[f].requestId)]
          /\ flow' = [flow EXCEPT ![f].step = "replies"]
      BY <1>1 DEF AddsTask, In, Moves
    <2>2. PICK n : n = [task[f] EXCEPT !.by = "request", !.state = "waiting", !.data = store[f].requestId]
      OBVIOUS
    <2>3. task' = [task EXCEPT ![f] = n]
      BY <2>1, <2>2 DEF WithContext
    <2>4. n \in TaskRecord /\ n.state = "waiting" /\ n.by = "request" /\ n.data = store[f].requestId /\ n.runs = task[f].runs
      BY <1>0, <2>2 DEF TaskRecord
    <2>5. task[f].runs = <<>> /\ dead[f] = {}
      BY <1>0, <2>1 DEF TraceOf, NoTask
    <2>6. PICK m : m = [flow[f] EXCEPT !.step = "replies"]
      OBVIOUS
    <2>7. m \in FlowRecord /\ m.step = "replies" /\ m.named = flow[f].named /\ m.answer = flow[f].answer
          /\ flow' = [flow EXCEPT ![f] = m]
      BY <1>0, <2>1, <2>6 DEF FlowRecord
    <2>8. \A i \in DOMAIN n.runs : n.runs[i] = store[f].requestId
      BY <2>4, <2>5
    <2>9. \E k \in FlowRecord : /\ flow' = [flow EXCEPT ![f] = k] /\ k.step = "replies"
                                /\ k.named = flow[f].named /\ k.answer = flow[f].answer
      BY <2>7
    <2>10. dead' = [dead EXCEPT ![f] = dead[f]] /\ dead[f] \subseteq {store[f].requestId}
           /\ UNCHANGED <<store, entity, author>> /\ uuids' \in Nat /\ flow[f].step # "sent" /\ n.state # "none"
      BY <1>0, <2>1, <2>4, <2>5
    <2> QED
      BY <1>0, <2>3, <2>4, <2>8, <2>9, <2>10, JobMoves
  <1>2. CASE DispatchesTask(f)
    <2>1. flow[f].step = "done" /\ UNCHANGED <<flow, store, entity, author, dead, uuids>>
          /\ task' = [task EXCEPT ![f].by = "dispatcher", ![f].state = "waiting"]
      BY <1>2 DEF DispatchesTask, In
    <2>2. PICK n : n = [task[f] EXCEPT !.by = "dispatcher", !.state = "waiting"]
      OBVIOUS
    <2>3. n \in TaskRecord /\ n.state = "waiting" /\ n.by = "dispatcher" /\ task' = [task EXCEPT ![f] = n]
      BY <1>0, <2>1, <2>2 DEF TaskRecord
    <2> QED
      BY <1>0, <2>1, <2>3, JobMoves
  <1>3. ASSUME task[f].state # "none" PROVE flow[f].step # "sent"
    BY <1>0, <1>3 DEF TraceOf
  <1>4. CASE RunsJob(f)
    <2>1. task[f].state = "waiting" /\ UNCHANGED <<flow, store, entity, author, dead>>
          /\ task' = [task EXCEPT ![f].state = "active", ![f].runs = Append(task[f].runs, JobContext(f))]
          /\ uuids' \in Nat
      BY <1>0, <1>4 DEF RunsJob, CtxTypes
    <2>2. PICK id : id = JobContext(f)
      OBVIOUS
    <2>3. id \in CtxIds /\ (task[f].by = "request" => id = store[f].requestId)
      <3>1. task[f].by = "request" => task[f].data = store[f].requestId /\ store[f].requestId # NoId
        BY <1>0, <1>3, <2>1 DEF TraceOf
      <3> QED
        BY <1>0, <2>2, <3>1, GeneratedIsAnId DEF JobContext, TaskRecord
    <2>4. PICK n : n = [task[f] EXCEPT !.state = "active", !.runs = Append(task[f].runs, id)]
      OBVIOUS
    <2>5. task[f].runs \in Seq(CtxIds)
      BY <1>0 DEF TaskRecord
    <2>6. n \in TaskRecord /\ n.state = "active" /\ n.by = task[f].by /\ n.data = task[f].data
          /\ n.runs = Append(task[f].runs, id)
      <3>1. Append(task[f].runs, id) \in Seq(CtxIds)
        BY <2>3, <2>5
      <3> QED
        BY <1>0, <2>4, <3>1 DEF TaskRecord
    <2>7. task' = [task EXCEPT ![f] = n]
      BY <1>0, <2>1, <2>2, <2>4 DEF CtxTypes
    <2>8. ASSUME n.by = "request" PROVE \A i \in DOMAIN n.runs : n.runs[i] = store[f].requestId
      <3>1. \A i \in DOMAIN task[f].runs : task[f].runs[i] = store[f].requestId
        BY <1>0, <2>6, <2>8 DEF TraceOf
      <3> QED
        BY <2>3, <2>5, <2>6, <2>8, <3>1
    <2>9. n.by = "request" => n.data = store[f].requestId /\ dead[f] \subseteq {store[f].requestId}
      BY <1>0, <2>6 DEF TraceOf
    <2> QED
      BY <1>0, <1>3, <2>1, <2>6, <2>7, <2>8, <2>9, JobMoves
  <1>5. CASE EndsJob(f)
    <2>1. task[f].state = "active" /\ UNCHANGED <<flow, store, entity, author, dead, uuids>>
          /\ task' = [task EXCEPT ![f].state = "completed"]
      BY <1>5 DEF EndsJob
    <2>2. PICK n : n = [task[f] EXCEPT !.state = "completed"]
      OBVIOUS
    <2>3. n \in TaskRecord /\ n.state = "completed" /\ n.by = task[f].by /\ n.data = task[f].data
          /\ n.runs = task[f].runs /\ task' = [task EXCEPT ![f] = n]
      BY <1>0, <2>1, <2>2 DEF TaskRecord
    <2>4. n.by = "request" =>
              /\ n.data = store[f].requestId /\ dead[f] \subseteq {store[f].requestId}
              /\ \A i \in DOMAIN n.runs : n.runs[i] = store[f].requestId
      BY <1>0, <2>3 DEF TraceOf
    <2> QED
      BY <1>0, <1>3, <2>1, <2>3, <2>4, JobMoves
  <1>6. CASE FailsJob(f)
    <2>1. PICK state \in {"failed", "waiting"}, D \in {dead[f], {task[f].data}} :
              /\ task' = [task EXCEPT ![f].state = state]
              /\ dead' = [dead EXCEPT ![f] = D]
      BY <1>0, <1>6 DEF FailsJob
    <2>2. task[f].state = "active" /\ UNCHANGED <<flow, store, entity, author, uuids>>
      BY <1>6 DEF FailsJob
    <2>3. PICK n : n = [task[f] EXCEPT !.state = state]
      OBVIOUS
    <2>4. n \in TaskRecord /\ n.state = state /\ n.by = task[f].by /\ n.data = task[f].data
          /\ n.runs = task[f].runs /\ task' = [task EXCEPT ![f] = n]
      BY <1>0, <2>1, <2>3 DEF TaskRecord
    <2>5. D \in SUBSET CtxIds
      BY <1>0, <2>1 DEF TaskRecord
    <2>6. n.by = "request" =>
              /\ n.data = store[f].requestId /\ D \subseteq {store[f].requestId}
              /\ \A i \in DOMAIN n.runs : n.runs[i] = store[f].requestId
      BY <1>0, <2>1, <2>4 DEF TraceOf
    <2> QED
      BY <1>0, <1>3, <2>1, <2>2, <2>4, <2>5, <2>6, JobMoves
  <1> QED
    BY <1>1, <1>2, <1>4, <1>5, <1>6 DEF JobStep

\* The actor of a row and the id of a request, for every interleaving of requests and jobs.
THEOREM ContextInductive == ContextInit /\ [][ContextNext]_ctxVars => []ContextInv
  <1>1. ContextInit => ContextInv
    <2> SUFFICES ASSUME ContextInit PROVE ContextInv
      OBVIOUS
    <2>1. NoId \in CtxIds /\ NoSub \in CtxUsers
      BY DEF CtxIds, CtxUsers
    <2>2. Unstamped \in Stamps
      BY <2>1 DEF Unstamped, Stamps
    <2>3. NoTask \in TaskRecord
      BY <2>1 DEF NoTask, TaskRecord
    <2>4. CtxTypes
      BY <2>1, <2>2, <2>3 DEF ContextInit, CtxTypes, FlowRecord, NoStore
    <2>5. ActorInv
      BY DEF ContextInit, ActorInv, ActorIsRecorded, NoStore
    <2>6. TraceInv
      BY DEF ContextInit, TraceInv, TraceOf, NoTask
    <2> QED
      BY <2>4, <2>5, <2>6 DEF ContextInv
  <1>2. ContextInv /\ [ContextNext]_ctxVars => ContextInv'
    <2> SUFFICES ASSUME ContextInv, [ContextNext]_ctxVars PROVE ContextInv'
      OBVIOUS
    <2>1. CASE ContextNext
      BY <2>1, FlowSteps, JobSteps DEF ContextNext
    <2>2. CASE UNCHANGED ctxVars
      BY <2>2 DEF ctxVars, ContextInv, CtxTypes, ActorInv, ActorIsRecorded, TraceInv, TraceOf, NoTask
    <2> QED
      BY <2>1, <2>2
  <1> QED
    BY <1>1, <1>2, PTL

\* An audited row names whoever created it and the user who saved or updated it last, for any number
\* of requests that interleave at any step (AuditFieldsSubscriber, AsyncLocalStorage).
THEOREM ActorsAreRecorded == ContextInit /\ [][ContextNext]_ctxVars => []ActorIsRecorded
  BY ContextInductive, PTL DEF ContextInv, ActorInv

\* The answer to a request, every run of its job and the record of a job that has failed for good
\* carry its id (QueueProducer.withContext, bullJobToRequestContext).
THEOREM TracesFollow == ContextInit /\ [][ContextNext]_ctxVars => []TraceFollows
  <1>1. ContextInv => TraceFollows
    BY DEF ContextInv, TraceInv, TraceOf, TraceFollows
  <1> QED
    BY <1>1, ContextInductive, PTL

-------------------------------------------------------------------------------
(***************************************************************************)
(* Providers: from an authorization code to a profile, for every           *)
(* configuration.                                                          *)
(***************************************************************************)

Beyond == {"redeemed", "verified", "fetched", "profile"}

\* An application that has started has no callback in the clear in production; the flow is at a
\* provider that is configured; an OIDC provider's tokens are for the code that was redeemed, and
\* are checked before anything is made of them; and only an OIDC provider speaks of verified mail.
AppInv == app.started = "yes" => app.callback \in [Names -> Callbacks] /\ ~InsecureAt(app.env, app.callback)

ExchangeInv ==
    /\ exchange.provider \in Names
    /\ exchange.step \in Beyond \cup {"sent"} => exchange.provider \in Registered
    /\ exchange.step = "redeemed" /\ exchange.provider \in OidcNames => exchange.idToken \in IdTokens(exchange.code)
    /\ exchange.step \in {"verified", "fetched", "profile"} /\ exchange.provider \in OidcNames => exchange.code = "own"
    /\ exchange.step \in {"fetched", "profile"} =>
           IF exchange.provider = "microsoft" THEN \E me \in Me : exchange.claims = FromMe(me)
                                              ELSE exchange.claims \in Userinfo
    /\ exchange.step = "profile" =>
           /\ exchange.profile.user = "subject"
           /\ exchange.profile.verified => exchange.claims.email_verified \in {"true", "'true'"}
    /\ exchange = [step |-> exchange.step, provider |-> exchange.provider, verifier |-> exchange.verifier,
                   code |-> exchange.code, idToken |-> exchange.idToken, claims |-> exchange.claims,
                   profile |-> exchange.profile]

ProfileInv == AppInv /\ ExchangeInv

LEMMA SomethingIsAToken == \A code : NoToken \notin IdTokens(code)
  BY DEF NoToken, IdTokens, Undefined

LEMMA ProvidersStep == ProfileInv /\ [ProvidersNext]_providerVars => ProfileInv'
  <1> SUFFICES ASSUME ProfileInv, [ProvidersNext]_providerVars PROVE ProfileInv'
    OBVIOUS
  <1> DEFINE step == exchange.step  p == exchange.provider
  <1>s. app' = app => Registered' = Registered /\ AppInv'
    BY DEF ProfileInv, Registered, AppInv, InsecureAt
  <1>1. CASE Boots
    <2>1. exchange' = exchange /\ exchange.step \notin Beyond \cup {"sent"}
      BY <1>1 DEF Boots, ProfileInv, ExchangeInv, Registered
    <2>2. AppInv'
      BY <1>1 DEF Boots, AppInv, InsecureAt
    <2> QED
      BY <2>1, <2>2 DEF ProfileInv, ExchangeInv, Beyond
  <1>2. CASE Authorizes
    <2>1. PICK q \in Registered : exchange' = [exchange EXCEPT !.step = "sent", !.provider = q, !.verifier = UsesPkce(q)]
      BY <1>2 DEF Authorizes
    <2>2. exchange'.step = "sent" /\ exchange'.provider = q /\ q \in Names /\ app' = app
      BY <1>2, <2>1 DEF ProfileInv, ExchangeInv, Registered, Authorizes
    <2> QED
      BY <1>s, <2>1, <2>2 DEF ProfileInv, ExchangeInv, Beyond
  <1>3. CASE IsUnknown
    BY <1>3, <1>s DEF IsUnknown, ProfileInv, ExchangeInv, Beyond
  <1>4. CASE TradesCode
    <2>1. PICK code, token :
              /\ p \in OidcNames => token \in IdTokens(code)
              /\ exchange' = [exchange EXCEPT !.step = "redeemed", !.code = code, !.idToken = token]
      BY <1>4 DEF TradesCode, Scope
    <2>2. exchange'.step = "redeemed" /\ exchange'.provider = p /\ exchange'.code = code /\ exchange'.idToken = token
      BY <2>1 DEF ProfileInv, ExchangeInv
    <2> QED
      BY <1>4, <1>s, <2>1, <2>2 DEF TradesCode, ProfileInv, ExchangeInv, Beyond
  <1>5. CASE Fails
    BY <1>5, <1>s DEF Fails, ProfileInv, ExchangeInv, Beyond
  <1>6. CASE ChecksToken
    <2>1. PICK next \in {"refused", "verified"} :
              /\ exchange' = [exchange EXCEPT !.step = next]
              /\ next = "verified" => exchange.idToken = NoToken \/ Verifies(exchange.idToken)
      BY <1>6 DEF ChecksToken
    <2>2. next = "verified" /\ p \in OidcNames => exchange.code = "own"
      BY <1>6, <2>1, SomethingIsAToken DEF ProfileInv, ExchangeInv, ChecksToken, IdTokens, Verifies
    <2> QED
      BY <1>6, <1>s, <2>1, <2>2 DEF ChecksToken, ProfileInv, ExchangeInv, Beyond
  <1>7. CASE FetchesUserInfo
    <2>1. PICK claims : /\ IF p = "microsoft" THEN \E me \in Me : claims = FromMe(me) ELSE claims \in Userinfo
                        /\ exchange' = [exchange EXCEPT !.step = "fetched", !.claims = claims]
      BY <1>7 DEF FetchesUserInfo
    <2>2. exchange'.step = "fetched" /\ exchange'.provider = p /\ exchange'.code = exchange.code /\ exchange'.claims = claims
      BY <2>1 DEF ProfileInv, ExchangeInv
    <2> QED
      BY <1>7, <1>s, <2>1, <2>2 DEF FetchesUserInfo, ProfileInv, ExchangeInv, Beyond
  <1>8. CASE Normalizes
    <2> DEFINE claims == exchange.claims  user == Or(claims.sub, Or(claims.id, claims.user_id))
    <2>1. step = "fetched" /\ app' = app
      BY <1>8 DEF Normalizes
    <2>2. CASE user \in {Undefined, ""}
      <3>1. exchange' = [exchange EXCEPT !.step = "refused"]
        BY <1>8, <2>2 DEF Normalizes
      <3> QED
        BY <1>s, <2>1, <3>1 DEF ProfileInv, ExchangeInv, Beyond
    <2>3. CASE user \notin {Undefined, ""}
      <3>1. PICK profile : /\ profile = [user |-> user, email |-> AsString(claims.email),
                                         verified |-> claims.email_verified \in {"true", "'true'"}]
                           /\ exchange' = [exchange EXCEPT !.step = "profile", !.profile = profile]
        BY <1>8, <2>3 DEF Normalizes
      <3>2. user = "subject"
        <4>1. CASE p = "microsoft"
          <5>1. PICK me \in Me : claims = FromMe(me)
            BY <2>1, <4>1 DEF ProfileInv, ExchangeInv
          <5>2. FromMe(me).sub = me.id /\ me.id = "subject"
            BY DEF FromMe, Me
          <5>3. claims.sub = "subject"
            BY <5>1, <5>2
          <5> QED
            BY <5>3 DEF Or, Undefined
        <4>2. CASE p # "microsoft"
          BY <2>1, <2>3, <4>2 DEF ProfileInv, ExchangeInv, Userinfo, Or, Undefined
        <4> QED
          BY <4>1, <4>2
      <3> HIDE DEF user
      <3>3. profile.user = "subject" /\ profile.verified = (claims.email_verified \in {"true", "'true'"})
        BY <3>1, <3>2
      <3>4. exchange'.step = "profile" /\ exchange'.profile = profile /\ exchange'.provider = p
            /\ exchange'.code = exchange.code /\ exchange'.claims = exchange.claims
        BY <3>1 DEF ProfileInv, ExchangeInv
      <3> QED
        BY <1>s, <2>1, <3>1, <3>3, <3>4 DEF ProfileInv, ExchangeInv, Beyond
    <2> QED
      BY <2>2, <2>3
  <1>9. CASE UNCHANGED providerVars
    BY <1>9, <1>s DEF providerVars, ProfileInv, ExchangeInv, Beyond
  <1> QED
    BY <1>1, <1>2, <1>3, <1>4, <1>5, <1>6, <1>7, <1>8, <1>9 DEF ProvidersNext

\* A profile names somebody, comes from a provider that may be called back, from an OIDC provider
\* for a code of this very flow, and with a verified e-mail only where the provider says so
\* (OidcSsoProvider, ProviderProfileNormalizerService).
THEOREM ProfilesAreOfTheFlow == ProvidersInit /\ [][ProvidersNext]_providerVars => []ProfileIsOfTheFlow
  <1>1. ProvidersInit => ProfileInv
    BY DEF ProvidersInit, ProfileInv, ExchangeInv, AppInv, NoExchange, Names, Beyond, InsecureAt, OidcNames
  <1>2. ProfileInv => ProfileIsOfTheFlow
    <2> SUFFICES ASSUME ProfileInv, exchange.step = "profile" PROVE ProfileIsOfTheFlow
      BY DEF ProfileIsOfTheFlow
    <2> DEFINE p == exchange.provider
    <2>1. p \in Names /\ p \in Registered
      BY DEF ProfileInv, ExchangeInv, Beyond
    <2>2. app.env = "production" => app.callback[p] = "https"
      <3>1. app.callback[p] \in Callbacks /\ app.callback[p] # "off"
        BY <2>1 DEF ProfileInv, AppInv, Registered
      <3>2. app.env = "production" => app.callback[p] # "http"
        BY <2>1 DEF ProfileInv, AppInv, Registered, InsecureAt
      <3> QED
        BY <3>1, <3>2 DEF Callbacks
    <2>3. p \in OidcNames => exchange.code = "own"
      BY DEF ProfileInv, ExchangeInv
    <2>4. exchange.profile.user = "subject"
      BY DEF ProfileInv, ExchangeInv
    <2>5. exchange.profile.verified => exchange.claims.email_verified \in {"true", "'true'"}
      BY DEF ProfileInv, ExchangeInv
    <2>6. p \notin OidcNames => exchange.claims.email_verified = Undefined
      <3>1. p \notin OidcNames => p = "microsoft"
        BY <2>1 DEF Names, OidcNames
      <3>2. \A me \in Me : FromMe(me).email_verified = Undefined
        BY DEF FromMe
      <3> QED
        BY <3>1, <3>2 DEF ProfileInv, ExchangeInv
    <2> QED
      BY <2>2, <2>3, <2>4, <2>5, <2>6 DEF ProfileIsOfTheFlow, Undefined
  <1> QED
    BY <1>1, <1>2, ProvidersStep, PTL

(***************************************************************************)
(* Answers.  The registry says of a code what one of the tables does, and   *)
(* knows each code that may be thrown.                                      *)
(***************************************************************************)

RegistryInv ==
    /\ registry \subseteq UNION Tables
    /\ Thrown \subseteq AllOf(registry)

AnswersInv == RegistryInv /\ CodeTellsStatus

LEMMA LibrariesHaveTables ==
    /\ BaseCodes \in Tables /\ CommonCodes \in Tables
    /\ \A lib \in Libraries : CodesOf(lib) \in Tables
  BY DEF Tables

\* The tables do not contradict each other: a code that two of them declare has one status in both.
LEMMA TablesAgree == \A e, f \in UNION Tables : e[2] = f[2] => e[1] = f[1]
  <1> DEFINE Everything == BaseCodes \cup CommonCodes \cup AuthCodes \cup SecurityCodes \cup IdentityCodes
                             \cup AccessCodes \cup SsoCodes \cup SystemCodes \cup TaskCodes \cup AuditCodes
  <1>1. \A e \in UNION Tables : e \in Everything
    BY DEF Tables, CodesOf, Libraries
  <1>2. \A e, f \in Everything : e[2] = f[2] => e[1] = f[1]
    BY SMTT(60) DEF BaseCodes, CommonCodes, AuthCodes, SecurityCodes, IdentityCodes, AccessCodes, SsoCodes,
       SystemCodes, TaskCodes, AuditCodes
  <1> QED
    BY <1>1, <1>2

\* The codes that the filter gives by itself.
LEMMA FilterCodes ==
    /\ <<404, "RES_NOT_FOUND">> \in BaseCodes
    /\ <<409, "RES_ALREADY_EXISTS">> \in BaseCodes
    /\ <<500, "SYS_DB_ERROR">> \in BaseCodes
    /\ <<500, "SYS_UNKNOWN">> \in BaseCodes
  BY DEF BaseCodes

\* What a table assigns is all there, and of the rest nothing is lost.
LEMMA Assigns ==
    ASSUME NEW old, NEW mapping
    PROVE  /\ Assigned(old, mapping) \subseteq old \cup mapping
           /\ AllOf(Assigned(old, mapping)) = AllOf(old) \cup AllOf(mapping)
  BY DEF Assigned, AllOf

LEMMA AnswersStart == AnswersInit => AnswersInv
  <1> SUFFICES ASSUME AnswersInit PROVE AnswersInv
    OBVIOUS
  <1>1. registry \subseteq UNION Tables
    BY LibrariesHaveTables, Assigns DEF AnswersInit
  <1>2. AllOf(registry) = AllOf(BaseCodes) \cup AllOf(CommonCodes)
    BY Assigns DEF AnswersInit
  <1>3. Thrown = AllOf(BaseCodes) \cup AllOf(CommonCodes)
    BY DEF Thrown, AnswersInit
  <1> QED
    BY <1>1, <1>2, <1>3 DEF AnswersInit, AnswersInv, RegistryInv, CodeTellsStatus, NoOutcome

\* Whoever has loaded a library may throw its codes, and the registry has them.
LEMMA LoadsKeeps ==
    ASSUME AnswersInv, NEW lib \in Libraries, LoadsLibrary(lib)
    PROVE  AnswersInv'
  <1>1. registry' \subseteq UNION Tables
    BY LibrariesHaveTables, Assigns DEF AnswersInv, RegistryInv, LoadsLibrary
  <1>2. AllOf(registry') = AllOf(registry) \cup AllOf(CodesOf(lib))
    BY Assigns DEF LoadsLibrary
  <1>3. Thrown' = Thrown \cup AllOf(CodesOf(lib))
    BY DEF Thrown, LoadsLibrary
  <1> QED
    BY <1>1, <1>2, <1>3 DEF AnswersInv, RegistryInv, LoadsLibrary, CodeTellsStatus, NoOutcome

\* The status of a code that is thrown is that of every table that has the code.
LEMMA StatusIsDeclared ==
    ASSUME RegistryInv, NEW code \in Thrown
    PROVE  \A entry \in UNION Tables : entry[2] = code => StatusOf(code) = entry[1]
  <1> DEFINE known == {entry \in registry : entry[2] = code}
             chosen == CHOOSE entry \in known : TRUE
  <1>1. known # {}
    BY DEF RegistryInv, AllOf
  <1>2. chosen \in known
    BY <1>1
  <1>3. StatusOf(code) = chosen[1]
    BY <1>1 DEF StatusOf
  <1>4. chosen \in UNION Tables /\ chosen[2] = code
    BY <1>2 DEF RegistryInv
  <1> HIDE DEF chosen
  <1> QED
    BY <1>3, <1>4, TablesAgree

LEMMA EndsKeeps ==
    ASSUME AnswersInv,
           NEW e \in BusinessExceptions \cup HttpExceptions \cup DatabaseErrors \cup Errors, EndsIn(e)
    PROVE  AnswersInv'
  <1> DEFINE a == Caught(e)
             Agrees == \A entry \in UNION Tables : a.code = entry[2] /\ e.class # "http" => a.status = entry[1]
             Told == /\ e.class = "business" => AuditedCode(e) = a.code /\ a.details = "its own"
                     /\ a.status >= 500 /\ e.class # "business" => a.details = "none"
  <1>0. UNCHANGED <<registry, loaded>>
    BY DEF EndsIn
  <1>1. RegistryInv'
    BY <1>0 DEF AnswersInv, RegistryInv, Thrown
  <1>2. /\ outcome'.step = "answered" /\ outcome'.exception = e
        /\ outcome'.answer = a /\ outcome'.audited = AuditedCode(e)
    BY DEF EndsIn
  <1>f. /\ <<404, "RES_NOT_FOUND">> \in UNION Tables
        /\ <<409, "RES_ALREADY_EXISTS">> \in UNION Tables
        /\ <<500, "SYS_DB_ERROR">> \in UNION Tables
        /\ <<500, "SYS_UNKNOWN">> \in UNION Tables
    BY FilterCodes, LibrariesHaveTables
  <1>t. \A entry \in UNION Tables :
          /\ entry[2] = "RES_NOT_FOUND" => entry[1] = 404
          /\ entry[2] = "RES_ALREADY_EXISTS" => entry[1] = 409
          /\ entry[2] \in {"SYS_DB_ERROR", "SYS_UNKNOWN"} => entry[1] = 500
    BY <1>f, TablesAgree
  <1>3. ASSUME Agrees, Told PROVE AnswersInv'
    <2> HIDE DEF a
    <2>1. CodeTellsStatus'
      BY <1>2, <1>3 DEF CodeTellsStatus
    <2> QED
      BY <1>1, <2>1 DEF AnswersInv
  <1>4. CASE e \in BusinessExceptions
    <2>1. PICK code \in Thrown :
            e = [class |-> "business", status |-> StatusOf(code), code |-> code, response |-> "coded"]
      BY <1>4 DEF BusinessExceptions
    <2>2. a.status = StatusOf(code) /\ a.code = code /\ a.details = "its own" /\ AuditedCode(e) = code
      BY <2>1 DEF Caught, AnswerBusiness, Answer, AuditedCode
    <2>3. e.class = "business"
      BY <2>1
    <2> HIDE DEF a
    <2>4. Agrees
      BY <2>2, StatusIsDeclared DEF AnswersInv
    <2> QED
      BY <1>3, <2>2, <2>3, <2>4
  <1>5. CASE e \in HttpExceptions
    <2>1. e.class = "http" /\ e.status \in {400, 401, 404, 413, 500, 503} /\ e.response \in {"text", "messages", "object"}
      BY <1>5 DEF HttpExceptions
    <2>2. a.status >= 500 => a.details = "none"
      BY <2>1 DEF Caught, AnswerHttp, Answer
    <2> HIDE DEF a
    <2> QED
      BY <1>3, <2>1, <2>2
  <1>6. CASE e \in DatabaseErrors \cup Errors
    <2>1. e.class \in {"database", "error", "no error"}
      <3>1. CASE e \in DatabaseErrors
        <4>1. PICK r \in {"EntityNotFoundError", "ER_DUP_ENTRY", "other"} :
                e = [class |-> "database", status |-> 0, code |-> "none", response |-> r]
          BY <3>1 DEF DatabaseErrors
        <4> QED
          BY <4>1
      <3>2. CASE e \in Errors
        <4>1. PICK c \in {"error", "no error"} : e = [class |-> c, status |-> 0, code |-> "none", response |-> "none"]
          BY <3>2 DEF Errors
        <4> QED
          BY <4>1
      <3> QED
        BY <1>6, <3>1, <3>2
    <2>2. a \in {Answer(404, "RES_NOT_FOUND", "none"), Answer(409, "RES_ALREADY_EXISTS", "none"),
                 Answer(500, "SYS_DB_ERROR", "none"), Answer(500, "SYS_UNKNOWN", "none")}
      <3>1. a = AnswerDatabase(e) \/ a = Answer(500, "SYS_UNKNOWN", "none")
        BY <2>1 DEF Caught
      <3> QED
        BY <3>1 DEF AnswerDatabase
    <2> HIDE DEF a
    <2>3. Agrees
      BY <1>t, <2>2 DEF Answer
    <2>4. a.details = "none"
      BY <2>2 DEF Answer
    <2> QED
      BY <1>3, <2>1, <2>3, <2>4
  <1> QED
    BY <1>4, <1>5, <1>6

\* Whichever libraries are loaded, in any order, and whatever a request ends in: the code of an
\* answer and its status agree with every table, and the log's code with the answer's
\* (AllExceptionsFilter, registerErrorCodeHttpStatus).
THEOREM CodesTellStatuses == AnswersInit /\ [][AnswersNext]_answerVars => []CodeTellsStatus
  <1>1. ASSUME AnswersInv, [AnswersNext]_answerVars PROVE AnswersInv'
    <2>1. CASE Succeeds
      <3>1. outcome'.step = "succeeded" /\ UNCHANGED <<registry, loaded>>
        <4>1. PICK code : outcome' = [step |-> "succeeded", answer |-> Answer(200, code, "data")]
          BY <2>1 DEF Succeeds
        <4> QED
          BY <2>1, <4>1 DEF Succeeds
      <3> QED
        BY <1>1, <3>1 DEF AnswersInv, RegistryInv, Thrown, CodeTellsStatus
    <2>2. CASE UNCHANGED answerVars
      BY <1>1, <2>2 DEF answerVars, AnswersInv, RegistryInv, Thrown, CodeTellsStatus
    <2> QED
      BY <1>1, <2>1, <2>2, LoadsKeeps, EndsKeeps DEF AnswersNext
  <1>2. AnswersInv => CodeTellsStatus
    BY DEF AnswersInv
  <1> QED
    BY <1>1, <1>2, AnswersStart, PTL

(***************************************************************************)
(* Masking: whatever value is logged, however deep, and in whatever order  *)
(* redactSensitiveKeys comes to what is inside it.                         *)
(***************************************************************************)

\* What is at a path is masked as its own key wants.
Masked(v, p) ==
    /\ LastKind(p) = "secret" => v[p] = "***REDACTED***"
    /\ LastKind(p) = "ip" => v[p] \notin Texts
    /\ LastKind(p) = "email" => v[p] # "mail"
    /\ LastKind(p) = "plain" /\ v[Holder(p)] = "object" => v[p] # "token"

Retains(v, given) == \A p \in DOMAIN given : Harmless(given, p) => p \in DOMAIN v /\ v[p] = given[p]

\* A call that remains is one on an object or an array, if an earlier call left it, and whatever
\* is not yet masked is inside one of them.
MaskingInv ==
    /\ record = [step |-> record.step, to |-> record.to, value |-> record.value,
                 given |-> record.given, todo |-> record.todo]
    /\ IsValue(record.value)
    /\ \A t \in record.todo :
          /\ t \in Seq(Keys) /\ (t # <<>> => LastKind(t) # "secret")
          /\ t \in DOMAIN record.value => record.value[t] \in Containers
    /\ record.step = "given" => record.todo = {} /\ record.value = record.given
    /\ record.step # "given" =>
          /\ \A p \in DOMAIN record.value \ {<<>>} :
                Masked(record.value, p) \/ \E t \in record.todo : Inside(p, t)
          /\ record.value = Truncated \/ Retains(record.value, record.given)

LEMMA Beginnings ==
    ASSUME NEW p \in Seq(Keys), NEW n \in 0 .. Len(p)
    PROVE  /\ SubSeq(p, 1, n) \in Seq(Keys) /\ Len(SubSeq(p, 1, n)) = n
           /\ \A i \in 1 .. n : SubSeq(p, 1, n)[i] = p[i]
  OBVIOUS

LEMMA TheBeginning ==
    ASSUME NEW p \in Seq(Keys), NEW q \in Seq(Keys), Len(q) <= Len(p), \A i \in 1 .. Len(q) : p[i] = q[i]
    PROVE  q = SubSeq(p, 1, Len(q))
  <1>1. Len(q) \in 0 .. Len(p)
    OBVIOUS
  <1> QED
    BY <1>1, Beginnings

\* An item of what is at a path is right inside it.
LEMMA EntriesAre ==
    ASSUME NEW v, IsValue(v), NEW c, NEW q \in Entries(v, c)
    PROVE  /\ q \in DOMAIN v /\ q # <<>> /\ q \in Seq(Keys) /\ c \in Seq(Keys)
           /\ Len(q) = Len(c) + 1 /\ Inside(q, c) /\ Holder(q) = c /\ LastKind(q) \in KeyKinds
  <1>1. q \in Seq(Keys) /\ q # <<>> /\ q \in DOMAIN v /\ c = Holder(q)
    BY DEF Entries, IsValue
  <1>2. Len(q) \in Nat /\ Len(q) # 0 /\ Len(q) - 1 \in 0 .. Len(q)
    BY <1>1
  <1>3. c = SubSeq(q, 1, Len(q) - 1)
    BY <1>1 DEF Holder
  <1>4. c \in Seq(Keys) /\ Len(c) = Len(q) - 1 /\ \A i \in 1 .. Len(c) : c[i] = q[i]
    <2>1. PICK n \in 0 .. Len(q) : n = Len(q) - 1
      BY <1>2
    <2>2. c = SubSeq(q, 1, n)
      BY <1>3, <2>1
    <2> QED
      BY <1>1, <2>1, <2>2, Beginnings
  <1>5. q[Len(q)] \in Keys
    BY <1>1, <1>2
  <1> QED
    BY <1>1, <1>2, <1>4, <1>5, MaskingConstants DEF Inside, LastKind

\* What is inside something is one of its items or inside one that is an object or an array.
LEMMA OnTheWay ==
    ASSUME NEW v, IsValue(v), NEW c \in Seq(Keys), NEW p \in DOMAIN v, Inside(p, c)
    PROVE  \E q \in Entries(v, c) :
              /\ \A i \in 1 .. Len(q) : q[i] = p[i]
              /\ p = q \/ (Inside(p, q) /\ v[q] \in Containers)
  <1> DEFINE q == SubSeq(p, 1, Len(c) + 1)
  <1>1. p \in Seq(Keys) /\ Len(c) \in Nat /\ Len(p) \in Nat /\ Len(c) < Len(p)
    BY DEF IsValue, Inside
  <1>2. Len(c) + 1 \in 0 .. Len(p)
    BY <1>1
  <1>3. q \in Seq(Keys) /\ Len(q) = Len(c) + 1 /\ \A i \in 1 .. Len(q) : q[i] = p[i]
    BY <1>1, <1>2, Beginnings
  <1>4. CASE Len(p) = Len(c) + 1
    <2>1. p = q
      BY <1>1, <1>3, <1>4, TheBeginning
    <2>2. c = SubSeq(p, 1, Len(c))
      BY <1>1, TheBeginning DEF Inside
    <2>3. Holder(p) = c /\ p # <<>>
      BY <1>1, <1>4, <2>2 DEF Holder
    <2>4. p \in Entries(v, c)
      BY <2>3 DEF Entries
    <2> HIDE DEF q
    <2> QED
      BY <1>3, <2>1, <2>4
  <1>5. CASE Len(p) # Len(c) + 1
    <2>1. Len(c) + 1 \in 0 .. Len(p) - 1
      BY <1>1, <1>5
    <2>2. q \in DOMAIN v /\ v[q] \in Containers
      BY <2>1 DEF IsValue
    <2>3. Inside(p, q)
      BY <1>1, <1>3, <1>5 DEF Inside
    <2>4. c = SubSeq(q, 1, Len(c))
      BY <1>1, <1>3, TheBeginning DEF Inside
    <2>5. Holder(q) = c /\ q # <<>>
      BY <1>1, <1>3, <2>4 DEF Holder
    <2>6. q \in Entries(v, c)
      BY <2>2, <2>5 DEF Entries
    <2> HIDE DEF q
    <2> QED
      BY <1>3, <2>2, <2>3, <2>6
  <1> QED
    BY <1>4, <1>5

LEMMA InsideInside ==
    ASSUME NEW p \in Seq(Keys), NEW q \in Seq(Keys), NEW r \in Seq(Keys), Inside(p, q), Inside(q, r)
    PROVE  Inside(p, r)
  BY DEF Inside

\* What the branches for a key do to what the key has.
LEMMA Values ==
    ASSUME NEW kind \in KeyKinds, NEW x \in Containers \cup Strings \cup {"number"}
    PROVE  /\ RedactValue(kind, x) \in Containers \cup Strings \cup {"number"}
           /\ kind = "secret" => RedactValue(kind, x) = "***REDACTED***"
           /\ kind = "ip" => RedactValue(kind, x) \notin Texts
           /\ kind = "email" => RedactValue(kind, x) # "mail"
           /\ kind = "plain" => RedactValue(kind, x) # "token"
           /\ kind # "secret" /\ x \in Containers => RedactValue(kind, x) = x
           /\ kind # "secret" /\ RedactValue(kind, x) \in Containers => x = RedactValue(kind, x)
           /\ kind # "secret" /\ x = "number" => RedactValue(kind, x) = x
           /\ kind \notin {"secret", "ip"} /\ x = "text" => RedactValue(kind, x) = x
  <1>1. kind \in {"secret", "ip", "email", "plain"}
    BY DEF KeyKinds
  <1>2. CASE kind = "secret"
    BY <1>2 DEF RedactValue, Strings
  <1>3. CASE kind = "ip"
    BY <1>3 DEF RedactValue, Strings, Texts, Containers, MaskIp
  <1>4. CASE kind = "email"
    BY <1>4 DEF RedactValue, Strings, Texts, Containers, MaskEmail
  <1>5. CASE kind = "plain"
    BY <1>5 DEF RedactValue, Strings, Texts, Containers, RedactSecrets
  <1> QED
    BY <1>1, <1>2, <1>3, <1>4, <1>5

LEMMA RedactedIs ==
    ASSUME NEW v, NEW c
    PROVE  /\ \A p : p \in DOMAIN Redacted(v, c) <=>
                        /\ p \in DOMAIN v
                        /\ \A s \in Entries(v, c) : LastKind(s) = "secret" => ~Inside(p, s)
           /\ \A p \in DOMAIN Redacted(v, c) :
                 /\ p = c => Redacted(v, c)[p] = "object"
                 /\ p # c /\ p \in Entries(v, c) => Redacted(v, c)[p] = RedactValue(LastKind(p), v[p])
                 /\ p # c /\ p \notin Entries(v, c) => Redacted(v, c)[p] = v[p]
  BY DEF Redacted

\* What something kept is in is kept, and stays as it is or turns from an array into an object.
LEMMA HoldersStay ==
    ASSUME NEW v, IsValue(v), NEW c \in Seq(Keys), c \in DOMAIN v => v[c] \in Containers,
           NEW p \in DOMAIN Redacted(v, c), NEW n \in 0 .. Len(p) - 1
    PROVE  LET u == SubSeq(p, 1, n) IN
           /\ u \in DOMAIN v /\ v[u] \in Containers /\ u \in DOMAIN Redacted(v, c)
           /\ Redacted(v, c)[u] = IF u = c THEN "object" ELSE v[u]
  <1> DEFINE u == SubSeq(p, 1, n)
             w == Redacted(v, c)
  <1>1. /\ p \in DOMAIN v /\ p \in Seq(Keys) /\ n \in 0 .. Len(p) /\ n < Len(p)
        /\ \A s \in Entries(v, c) : LastKind(s) = "secret" => ~Inside(p, s)
    BY RedactedIs DEF IsValue
  <1>2. u \in Seq(Keys) /\ Len(u) = n /\ \A i \in 1 .. n : u[i] = p[i]
    BY <1>1, Beginnings
  <1>3. u \in DOMAIN v /\ v[u] \in Containers
    BY <1>1 DEF IsValue
  <1>4. Inside(p, u)
    BY <1>1, <1>2 DEF Inside
  <1> HIDE DEF u, w
  <1>5. \A s \in Entries(v, c) : LastKind(s) = "secret" => ~Inside(u, s)
    BY <1>1, <1>2, <1>4, InsideInside, EntriesAre
  <1>6. u \in DOMAIN w
    BY <1>3, <1>5, RedactedIs DEF w
  <1>7. u # c /\ u \in Entries(v, c) => RedactValue(LastKind(u), v[u]) = v[u]
    <2>1. SUFFICES ASSUME u \in Entries(v, c) PROVE RedactValue(LastKind(u), v[u]) = v[u]
      OBVIOUS
    <2>2. LastKind(u) # "secret" /\ LastKind(u) \in KeyKinds
      BY <1>1, <1>4, <2>1, EntriesAre
    <2> QED
      BY <1>3, <2>2, Values
  <1>8. w[u] = IF u = c THEN "object" ELSE v[u]
    BY <1>6, <1>7, RedactedIs DEF w
  <1> QED
    BY <1>3, <1>6, <1>8 DEF u, w

LEMMA RedactedIsAValue ==
    ASSUME NEW v, IsValue(v), NEW c \in Seq(Keys), c \in DOMAIN v => v[c] \in Containers
    PROVE  IsValue(Redacted(v, c))
  <1> DEFINE w == Redacted(v, c)
  <1>1. DOMAIN w \subseteq DOMAIN v
    BY RedactedIs
  <1>2. <<>> \in DOMAIN w /\ w[<<>>] \in Containers
    <2>1. <<>> \in DOMAIN v /\ v[<<>>] \in Containers /\ <<>> \notin Entries(v, c)
      BY DEF IsValue, Entries
    <2>2. \A s \in Entries(v, c) : ~Inside(<<>>, s)
      BY EntriesAre DEF Inside
    <2>3. <<>> \in DOMAIN w
      BY <2>1, <2>2, RedactedIs
    <2> QED
      BY <2>1, <2>3, RedactedIs DEF Containers
  <1>3. ASSUME NEW p \in DOMAIN w PROVE w[p] \in Containers \cup Strings \cup {"number"}
    <2>1. v[p] \in Containers \cup Strings \cup {"number"}
      BY <1>1 DEF IsValue
    <2>2. p \in Entries(v, c) => LastKind(p) \in KeyKinds
      BY EntriesAre
    <2>3. p # c /\ p \in Entries(v, c) => w[p] \in Containers \cup Strings \cup {"number"}
      BY <2>1, <2>2, Values, RedactedIs
    <2>4. (p # c /\ p \notin Entries(v, c) => w[p] = v[p]) /\ (p = c => w[p] = "object")
      BY RedactedIs
    <2> HIDE DEF w
    <2> QED
      BY <2>1, <2>3, <2>4 DEF Containers
  <1>4. ASSUME NEW p \in DOMAIN w, NEW n \in 0 .. Len(p) - 1
        PROVE  SubSeq(p, 1, n) \in DOMAIN w /\ w[SubSeq(p, 1, n)] \in Containers
    BY HoldersStay DEF Containers
  <1>5. ASSUME NEW p \in DOMAIN w, p # <<>>, w[Holder(p)] = "array" PROVE LastKind(p) = "plain"
    <2>1. p \in Seq(Keys) /\ p \in DOMAIN v
      BY <1>1 DEF IsValue
    <2>2. PICK n \in 0 .. Len(p) - 1 : n = Len(p) - 1
      BY <1>5, <2>1
    <2>3. Holder(p) = SubSeq(p, 1, n)
      BY <2>2 DEF Holder
    <2>4. v[Holder(p)] = "array"
      BY <1>5, <2>3, HoldersStay
    <2> QED
      BY <1>5, <2>1, <2>4 DEF IsValue
  <1> HIDE DEF w
  <1>6. DOMAIN w \subseteq Seq(Keys)
    BY <1>1 DEF IsValue
  <1>7. IsValue(w)
    BY <1>2, <1>3, <1>4, <1>5, <1>6 DEF IsValue
  <1> QED
    BY <1>7 DEF w

\* A call changes nothing outside what it is on, but that this is an object now.
LEMMA StaysMasked ==
    ASSUME NEW v, IsValue(v), NEW c \in Seq(Keys), c \in DOMAIN v => v[c] \in Containers,
           NEW p \in DOMAIN Redacted(v, c), p # <<>>, ~Inside(p, c), Masked(v, p)
    PROVE  Masked(Redacted(v, c), p)
  <1> DEFINE w == Redacted(v, c)
  <1>1. p \in DOMAIN v /\ p \in Seq(Keys)
    BY RedactedIs DEF IsValue
  <1>2. p \notin Entries(v, c)
    BY EntriesAre
  <1>3. w[p] = IF p = c THEN "object" ELSE v[p]
    BY <1>2, RedactedIs
  <1>4. PICK n \in 0 .. Len(p) - 1 : n = Len(p) - 1
    BY <1>1
  <1>5. Holder(p) = SubSeq(p, 1, n)
    BY <1>4 DEF Holder
  <1>6. w[Holder(p)] = v[Holder(p)]
    <2>1. Holder(p) \in Seq(Keys) /\ Inside(p, Holder(p))
      BY <1>1, <1>4, <1>5, Beginnings DEF Inside
    <2>2. Holder(p) # c
      BY <2>1
    <2> QED
      BY <1>5, <2>2, HoldersStay
  <1> HIDE DEF w
  <1>7. CASE p = c
    <2>1. w[p] = "object" /\ v[p] \in Containers
      BY <1>1, <1>3, <1>7
    <2>2. LastKind(p) # "secret"
      BY <2>1 DEF Masked, Containers
    <2>3. Masked(w, p)
      BY <2>1, <2>2 DEF Masked, Texts
    <2> QED
      BY <2>3 DEF w
  <1>8. CASE p # c
    <2>1. Masked(w, p)
      BY <1>3, <1>6, <1>8 DEF Masked
    <2> QED
      BY <2>1 DEF w
  <1> QED
    BY <1>7, <1>8

\* A call masks the items of what it is on, and leaves whatever is further inside to calls on it.
LEMMA BecomesMasked ==
    ASSUME NEW v, IsValue(v), NEW c \in Seq(Keys),
           NEW p \in DOMAIN Redacted(v, c), p # <<>>, Inside(p, c)
    PROVE  Masked(Redacted(v, c), p) \/ \E t \in Calls(v, c) : Inside(p, t)
  <1> DEFINE w == Redacted(v, c)
  <1>1. /\ p \in DOMAIN v /\ p \in Seq(Keys)
        /\ \A s \in Entries(v, c) : LastKind(s) = "secret" => ~Inside(p, s)
    BY RedactedIs DEF IsValue
  <1>2. PICK q \in Entries(v, c) : p = q \/ (Inside(p, q) /\ v[q] \in Containers)
    BY <1>1, OnTheWay
  <1>3. p # c
    BY DEF Inside
  <1>4. CASE p = q
    <2>1. LastKind(p) \in KeyKinds /\ v[p] \in Containers \cup Strings \cup {"number"} /\ p \in Entries(v, c)
      BY <1>1, <1>2, <1>4, EntriesAre DEF IsValue
    <2>2. w[p] = RedactValue(LastKind(p), v[p])
      BY <1>3, <2>1, RedactedIs
    <2> HIDE DEF w
    <2>3. Masked(w, p)
      BY <2>1, <2>2, Values DEF Masked
    <2> QED
      BY <2>3 DEF w
  <1>5. CASE p # q
    <2>1. Inside(p, q) /\ v[q] \in Containers /\ LastKind(q) # "secret" /\ q \in Seq(Keys) /\ q \in DOMAIN v
      BY <1>1, <1>2, <1>5, EntriesAre
    <2>2. CASE v[q] = "object"
      BY <1>2, <2>1, <2>2 DEF Calls
    <2>3. CASE v[q] = "array"
      <3>1. PICK r \in Entries(v, q) : p = r \/ (Inside(p, r) /\ v[r] \in Containers)
        BY <1>1, <2>1, OnTheWay
      <3>2. CASE p = r
        <4>1. Holder(p) = q
          BY <3>1, <3>2 DEF Entries
        <4>2. LastKind(p) = "plain"
          BY <1>1, <2>3, <4>1 DEF IsValue
        <4>3. w[Holder(p)] = "array"
          <5>1. q \in DOMAIN w
            <6>1. \A s \in Entries(v, c) : LastKind(s) = "secret" => ~Inside(q, s)
              BY <1>1, <2>1, InsideInside, EntriesAre
            <6> QED
              BY <2>1, <6>1, RedactedIs
          <5>2. q # c
            BY <1>2, EntriesAre
          <5>3. LastKind(q) \in KeyKinds
            BY <1>2, EntriesAre
          <5>4. w[q] = RedactValue(LastKind(q), v[q])
            BY <1>2, <5>1, <5>2, RedactedIs
          <5> HIDE DEF w
          <5>5. w[q] = "array"
            BY <2>1, <2>3, <5>3, <5>4, Values DEF Containers
          <5> QED
            BY <4>1, <5>5
        <4> HIDE DEF w
        <4>4. Masked(w, p)
          BY <4>2, <4>3 DEF Masked
        <4> QED
          BY <4>4 DEF w
      <3>3. CASE p # r
        <4>1. r \in Calls(v, c)
          BY <1>2, <2>1, <2>3, <3>1, <3>3, EntriesAre DEF Calls
        <4> QED
          BY <3>1, <3>3, <4>1
      <3> QED
        BY <3>2, <3>3
    <2> QED
      BY <2>1, <2>2, <2>3 DEF Containers
  <1> QED
    BY <1>4, <1>5

\* Whatever a call takes away or replaces had something to hide.
LEMMA HarmlessStays ==
    ASSUME NEW v, IsValue(v), NEW c \in Seq(Keys), c \in DOMAIN v => v[c] \in Containers,
           NEW p \in DOMAIN v, Harmless(v, p)
    PROVE  p \in DOMAIN Redacted(v, c) /\ Redacted(v, c)[p] = v[p]
  <1>1. p \in Seq(Keys) /\ v[p] \notin Containers
    BY DEF IsValue, Harmless, Containers
  <1>2. \A s \in Entries(v, c) : LastKind(s) = "secret" => ~Inside(p, s)
    <2>1. SUFFICES ASSUME NEW s \in Entries(v, c), Inside(p, s) PROVE LastKind(s) # "secret"
      OBVIOUS
    <2>2. Len(s) \in 1 .. Len(p) /\ p[Len(s)] = s[Len(s)]
      BY <1>1, <2>1, EntriesAre DEF Inside
    <2> QED
      BY <2>2 DEF Harmless, LastKind
  <1>3. p \in DOMAIN Redacted(v, c) /\ p # c
    BY <1>1, <1>2, RedactedIs
  <1>4. CASE p \in Entries(v, c)
    <2>1. LastKind(p) \in KeyKinds /\ Len(p) \in 1 .. Len(p)
      BY <1>1, <1>4, EntriesAre
    <2>2. LastKind(p) \notin {"secret", "ip"} /\ v[p] \in {"text", "number"}
      BY <2>1 DEF Harmless, LastKind
    <2>3. v[p] \in Containers \cup Strings \cup {"number"}
      BY DEF IsValue
    <2>4. RedactValue(LastKind(p), v[p]) = v[p]
      BY <2>1, <2>2, <2>3, Values
    <2> QED
      BY <1>3, <1>4, <2>4, RedactedIs
  <1>5. CASE p \notin Entries(v, c)
    BY <1>3, <1>5, RedactedIs
  <1> QED
    BY <1>4, <1>5

\* What a function calls itself on is kept, and an object or an array.
LEMMA CallsAre ==
    ASSUME NEW v, IsValue(v), NEW c \in Seq(Keys), NEW t \in Calls(v, c)
    PROVE  t \in DOMAIN v /\ t \in Seq(Keys) /\ v[t] \in Containers /\ LastKind(t) # "secret"
  <1>1. CASE \E a \in Entries(v, c) : LastKind(a) # "secret" /\ v[a] = "array" /\ t \in Entries(v, a)
    <2>1. PICK a : t \in Entries(v, a) /\ v[a] = "array"
      BY <1>1
    <2>2. Holder(t) = a /\ t # <<>> /\ t \in DOMAIN v
      BY <2>1, EntriesAre
    <2>3. LastKind(t) = "plain"
      BY <2>1, <2>2 DEF IsValue
    <2>4. v[t] \in Containers
      <3>1. v[t] = "object" \/ v[t] \in Containers
        BY DEF Calls
      <3> QED
        BY <3>1 DEF Containers
    <2> QED
      BY <2>1, <2>3, <2>4, EntriesAre
  <1>2. CASE t \in Entries(v, c) /\ LastKind(t) # "secret" /\ v[t] = "object"
    BY <1>2, EntriesAre DEF Containers
  <1> QED
    BY <1>1, <1>2 DEF Calls

LEMMA TruncatedIs ==
    /\ IsValue(Truncated) /\ Truncated[<<>>] = "object" /\ Truncated[<<SizeKey>>] = "number"
    /\ DOMAIN Truncated = {<<>>, <<SizeKey>>} /\ LastKind(<<SizeKey>>) = "plain"
  <1>1. DOMAIN Truncated = {<<>>, <<SizeKey>>} /\ LastKind(<<SizeKey>>) = "plain" /\ <<SizeKey>> \in Seq(Keys)
    BY MaskingConstants DEF Truncated, LastKind
  <1>2. Truncated[<<>>] = "object" /\ Truncated[<<SizeKey>>] = "number"
    <2>1. <<SizeKey>> # <<>>
      OBVIOUS
    <2> QED
      BY <2>1 DEF Truncated
  <1>3. ASSUME NEW p \in DOMAIN Truncated, NEW n \in 0 .. Len(p) - 1 PROVE SubSeq(p, 1, n) = <<>>
    <2>1. p # <<>>
      <3>1. p = <<>> => Len(p) = 0
        OBVIOUS
      <3> QED
        BY <3>1
    <2>2. p = <<SizeKey>>
      BY <1>1, <2>1
    <2>3. Len(p) = 1
      BY <2>2
    <2>4. p = <<SizeKey>> /\ n = 0
      BY <2>2, <2>3
    <2>5. Len(SubSeq(p, 1, n)) = 0 /\ SubSeq(p, 1, n) \in Seq(Keys)
      BY <1>1, <2>4, Beginnings
    <2> QED
      BY <2>5
  <1>4. ASSUME NEW p \in DOMAIN Truncated, p # <<>> PROVE LastKind(p) = "plain"
    BY <1>1, <1>4
  <1>5. \A p \in DOMAIN Truncated : Truncated[p] \in Containers \cup Strings \cup {"number"}
    BY <1>1, <1>2 DEF Containers
  <1>6. DOMAIN Truncated \subseteq Seq(Keys) /\ <<>> \in DOMAIN Truncated /\ Truncated[<<>>] \in Containers
    BY <1>1, <1>2 DEF Containers
  <1>7. IsValue(Truncated)
    BY <1>3, <1>4, <1>5, <1>6 DEF IsValue
  <1> QED
    BY <1>1, <1>2, <1>7

LEMMA TruncatedStays ==
    ASSUME NEW c \in Seq(Keys), c \in DOMAIN Truncated => Truncated[c] \in Containers
    PROVE  Redacted(Truncated, c) = Truncated
  <1> DEFINE w == Redacted(Truncated, c)
             v == Truncated
  <1>1. \A s \in Entries(v, c) : s = <<SizeKey>>
    BY TruncatedIs, EntriesAre
  <1>2. DOMAIN w = DOMAIN v
    <2>1. \A s \in Entries(v, c) : LastKind(s) # "secret"
      BY <1>1, TruncatedIs
    <2> QED
      BY <2>1 DEF Redacted
  <1>3. w[<<>>] = v[<<>>]
    <2>1. <<>> \notin Entries(v, c) /\ <<>> \in DOMAIN w
      BY <1>2, TruncatedIs, EntriesAre
    <2> QED
      BY <2>1, RedactedIs, TruncatedIs
  <1>4. w[<<SizeKey>>] = v[<<SizeKey>>]
    <2>1. <<SizeKey>> # c /\ <<SizeKey>> \in DOMAIN w
      BY <1>2, TruncatedIs DEF Containers
    <2>2. RedactValue("plain", "number") = "number"
      BY DEF RedactValue, Strings, Texts
    <2>3. <<SizeKey>> \in Entries(v, c) => w[<<SizeKey>>] = RedactValue("plain", "number")
      BY <2>1, RedactedIs, TruncatedIs
    <2> QED
      BY <2>1, <2>2, <2>3, RedactedIs, TruncatedIs
  <1>5. w = [p \in DOMAIN w |-> w[p]] /\ v = [p \in DOMAIN v |-> v[p]]
    BY DEF Redacted, Truncated
  <1>6. \A p \in DOMAIN v : w[p] = v[p]
    BY <1>3, <1>4, TruncatedIs
  <1> HIDE DEF w, v
  <1>7. w = v
    BY <1>2, <1>5, <1>6
  <1> QED
    BY <1>7 DEF w, v

LEMMA CallKeeps == ASSUME MaskingInv, NEW c \in record.todo, RedactSensitiveKeys(c) PROVE MaskingInv'
  <1> DEFINE v == record.value
             w == Redacted(v, c)
             rest == record.todo \ {c}
  <1>1. /\ IsValue(v) /\ c \in Seq(Keys) /\ (c \in DOMAIN v => v[c] \in Containers)
        /\ record.step # "given"
    BY DEF MaskingInv
  <1>2. /\ record' = [step |-> record.step, to |-> record.to, value |-> w, given |-> record.given,
                      todo |-> rest \cup Calls(v, c)]
        /\ \A t \in rest : /\ t # c /\ t \in Seq(Keys) /\ (t # <<>> => LastKind(t) # "secret")
                           /\ t \in DOMAIN v => v[t] \in Containers
        /\ \A p \in DOMAIN v \ {<<>>} : Masked(v, p) \/ \E t \in record.todo : Inside(p, t)
        /\ v = Truncated \/ Retains(v, record.given)
    BY <1>1 DEF MaskingInv, RedactSensitiveKeys
  <1> HIDE DEF rest, v, w
  <1>3. IsValue(w)
    BY <1>1, RedactedIsAValue DEF w
  <1>4. ASSUME NEW t \in rest \cup Calls(v, c)
        PROVE  t \in Seq(Keys) /\ (t # <<>> => LastKind(t) # "secret") /\ (t \in DOMAIN w => w[t] \in Containers)
    <2>1. t \in Seq(Keys) /\ (t # <<>> => LastKind(t) # "secret") /\ (t \in DOMAIN v => v[t] \in Containers)
      BY <1>1, <1>2, CallsAre
    <2>2. ASSUME t \in DOMAIN w PROVE w[t] \in Containers
      <3>1. t \in DOMAIN v /\ v[t] \in Containers
        BY <2>1, <2>2, RedactedIs DEF w
      <3>2. t \in Entries(v, c) => RedactValue(LastKind(t), v[t]) = v[t]
        BY <1>1, <2>1, <3>1, EntriesAre, Values
      <3> QED
        BY <2>2, <3>1, <3>2, RedactedIs DEF w, Containers
    <2> QED
      BY <2>1, <2>2
  <1>5. ASSUME NEW p \in DOMAIN w \ {<<>>}
        PROVE  Masked(w, p) \/ \E t \in rest \cup Calls(v, c) : Inside(p, t)
    <2>1. CASE Inside(p, c)
      BY <1>1, <2>1, BecomesMasked DEF w
    <2>2. CASE ~Inside(p, c)
      <3>1. p \in DOMAIN v
        BY RedactedIs DEF w
      <3>2. CASE Masked(v, p)
        BY <1>1, <2>2, <3>2, StaysMasked DEF w
      <3>3. CASE \E t \in record.todo : Inside(p, t)
        BY <2>2, <3>3 DEF rest
      <3> QED
        BY <1>2, <3>1, <3>2, <3>3
    <2> QED
      BY <2>1, <2>2
  <1>6. w = Truncated \/ Retains(w, record.given)
    <2>1. CASE v = Truncated
      BY <1>1, <2>1, TruncatedStays DEF w
    <2>2. CASE Retains(v, record.given)
      <3>1. ASSUME NEW p \in DOMAIN record.given, Harmless(record.given, p)
            PROVE  p \in DOMAIN w /\ w[p] = record.given[p]
        <4>1. p \in DOMAIN v /\ v[p] = record.given[p]
          BY <2>2, <3>1 DEF Retains
        <4>2. Harmless(v, p)
          BY <3>1, <4>1 DEF Harmless
        <4> QED
          BY <1>1, <4>1, <4>2, HarmlessStays DEF w
      <3> QED
        BY <3>1 DEF Retains
    <2> QED
      BY <1>2, <2>1, <2>2
  <1>7. /\ record'.step = record.step /\ record'.to = record.to /\ record'.value = w
        /\ record'.given = record.given /\ record'.todo = rest \cup Calls(v, c)
        /\ record' = [step |-> record'.step, to |-> record'.to, value |-> record'.value,
                      given |-> record'.given, todo |-> record'.todo]
    BY <1>2
  <1> QED
    BY <1>1, <1>3, <1>4, <1>5, <1>6, <1>7 DEF MaskingInv

LEMMA NothingIsAValue == IsValue(Nothing)
  <1>1. DOMAIN Nothing = {<<>>} /\ Nothing[<<>>] = "object" /\ <<>> \in Seq(Keys) /\ Len(<<>>) = 0
    BY DEF Nothing
  <1>2. \A p \in DOMAIN Nothing : 0 .. Len(p) - 1 = {}
    BY <1>1
  <1> HIDE DEF Nothing
  <1> QED
    BY <1>1, <1>2 DEF IsValue, Containers

LEMMA MaskingStarts == MaskingInit => MaskingInv
  BY NothingIsAValue DEF MaskingInit, MaskingInv

\* A caller that has the whole value masked: everything is inside it.
LEMMA StartKeeps ==
    ASSUME MaskingInv, NEW to, NEW step, NEW next, next # "given", StartsMasking(to, step, next)
    PROVE  MaskingInv'
  <1>1. /\ record' = [step |-> next, to |-> record.to, value |-> record.value, given |-> record.given,
                      todo |-> {<<>>}]
        /\ record.todo = {} /\ IsValue(record.value)
    BY DEF StartsMasking, MaskingInv
  <1>2. <<>> \in Seq(Keys) /\ record.value[<<>>] \in Containers
    BY <1>1 DEF IsValue
  <1>3. \A p \in DOMAIN record.value \ {<<>>} : Inside(p, <<>>)
    <2>1. SUFFICES ASSUME NEW p \in DOMAIN record.value, p # <<>> PROVE Inside(p, <<>>)
      OBVIOUS
    <2>2. p \in Seq(Keys)
      BY <1>1 DEF IsValue
    <2> QED
      BY <2>1, <2>2 DEF Inside
  <1>4. record.value = Truncated \/ Retains(record.value, record.given)
    BY DEF MaskingInv, Retains
  <1>5. /\ record'.step = next /\ record'.to = record.to /\ record'.value = record.value
        /\ record'.given = record.given /\ record'.todo = {<<>>}
        /\ record' = [step |-> record'.step, to |-> record'.to, value |-> record'.value,
                      given |-> record'.given, todo |-> record'.todo]
    BY <1>1
  <1> QED
    BY <1>1, <1>2, <1>3, <1>4, <1>5 DEF MaskingInv

LEMMA MaskingStep == MaskingInv /\ [MaskingNext]_record => MaskingInv'
  <1> SUFFICES ASSUME MaskingInv, [MaskingNext]_record PROVE MaskingInv'
    OBVIOUS
  <1>1. CASE Receives
    <2>1. PICK to \in {"params", "result", "manual", "log", "error"}, v \in Given :
              record' = [record EXCEPT !.to = to, !.value = v, !.given = v]
      BY <1>1 DEF Receives
    <2>2. record' = [step |-> "given", to |-> to, value |-> v, given |-> v, todo |-> {}]
      BY <1>1, <2>1 DEF Receives, MaskingInv
    <2>3. IsValue(v)
      BY MaskingConstants
    <2> QED
      BY <2>2, <2>3 DEF MaskingInv
  <1>2. CASE Truncates
    <2>1. record' = [step |-> "kept", to |-> record.to, value |-> Truncated, given |-> record.given, todo |-> {}]
      BY <1>2 DEF Truncates, MaskingInv
    <2>2. \A p \in DOMAIN Truncated \ {<<>>} : Masked(Truncated, p)
      BY TruncatedIs DEF Masked
    <2> QED
      BY <2>1, <2>2, TruncatedIs DEF MaskingInv
  <1>3. CASE SanitizesParams \/ MasksJson \/ Shows \/ Logs \/ StartsMasking({"result"}, "given", "kept")
    BY <1>3, StartKeeps DEF SanitizesParams, MasksJson, Shows, Logs
  <1>4. ASSUME NEW c \in record.todo, RedactSensitiveKeys(c) PROVE MaskingInv'
    BY <1>4, CallKeeps
  <1>5. CASE UNCHANGED record
    BY <1>5 DEF MaskingInv
  <1> QED
    BY <1>1, <1>2, <1>3, <1>4, <1>5 DEF MaskingNext, SanitizesResult

\* Whatever is logged or audited, of any depth and width, and in whatever order the function comes
\* to what is inside: no secret is kept, and what has nothing to hide is (redactSensitiveKeys,
\* sanitizeParams, sanitizeResult, maskJson, createLogObject).
THEOREM NoSecretsAreKept == MaskingInit /\ [][MaskingNext]_record => []NoSecretIsKept
  <1>1. ASSUME MaskingInv, record.step # "given", record.todo = {}
        PROVE  NoSecretIsKept
    <2> DEFINE v == record.value
    <2>1. IsValue(v) /\ (\A p \in DOMAIN v \ {<<>>} : Masked(v, p))
          /\ (v = Truncated \/ Retains(v, record.given))
      BY <1>1 DEF MaskingInv
    <2>2. ASSUME NEW p \in DOMAIN v \ {<<>>}, NEW i \in 1 .. Len(p), KindOf[p[i]] = "secret"
          PROVE  i = Len(p) /\ v[p] = "***REDACTED***"
      <3>1. p \in Seq(Keys) /\ Masked(v, p)
        BY <2>1 DEF IsValue
      <3>2. CASE i = Len(p)
        BY <2>2, <3>1, <3>2 DEF Masked, LastKind
      <3>3. CASE i # Len(p)
        <4> DEFINE q == SubSeq(p, 1, i)
        <4>1. i \in 0 .. Len(p) - 1 /\ i \in 0 .. Len(p)
          BY <3>1, <3>3
        <4>2. q \in DOMAIN v /\ v[q] \in Containers
          BY <2>1, <4>1 DEF IsValue
        <4>3. Len(q) = i /\ q[i] = p[i]
          BY <3>1, <4>1, Beginnings
        <4> HIDE DEF q, v
        <4>4. LastKind(q) = "secret" /\ q # <<>>
          BY <2>2, <4>3 DEF LastKind
        <4>5. v[q] = "***REDACTED***"
          BY <2>1, <4>2, <4>4 DEF Masked
        <4> QED
          BY <4>2, <4>5 DEF Containers
      <3> QED
        BY <3>2, <3>3
    <2> HIDE DEF v
    <2>3. \A p \in DOMAIN v \ {<<>>} :
             /\ \A i \in 1 .. Len(p) : KindOf[p[i]] = "secret" => i = Len(p) /\ v[p] = "***REDACTED***"
             /\ LastKind(p) = "ip" => v[p] \notin Texts
             /\ LastKind(p) = "email" => v[p] # "mail"
             /\ LastKind(p) = "plain" /\ v[Holder(p)] = "object" => v[p] # "token"
      BY <2>1, <2>2 DEF Masked
    <2>4. v # Truncated => \A p \in DOMAIN record.given :
              Harmless(record.given, p) => p \in DOMAIN v /\ v[p] = record.given[p]
      BY <2>1 DEF Retains
    <2> QED
      BY <2>3, <2>4 DEF NoSecretIsKept, v
  <1>2. MaskingInv => NoSecretIsKept
    BY <1>1 DEF NoSecretIsKept
  <1> QED
    BY <1>2, MaskingStarts, MaskingStep, PTL
===============================================================================
