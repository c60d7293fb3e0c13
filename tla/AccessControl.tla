---------------------------- MODULE AccessControl ----------------------------
(***************************************************************************)
(* Roles, permissions and administrators: RoleService, PermissionService   *)
(* and AccessCheckService of libs/domains/access-control, with             *)
(* AdministratorsService of the admin API, which binds roles to accounts   *)
(* and protects the last super administrator.                              *)
(*                                                                         *)
(* The permission codes of an administrator are cached in Redis. A guard   *)
(* check fills the cache in three reads and a store; a change commits its  *)
(* transaction first and deletes the cached codes afterwards. Both run as  *)
(* steps that interleave, and either may die between two of them.          *)
(***************************************************************************)
EXTENDS Naturals, FiniteSets

CONSTANTS
    Admins, Seeded,     \* accounts; the one seed-admin creates
    Roles, SuperAdmin,  \* roles; the system role SUPER_ADMIN
    Perms, Manage,      \* permissions; the seeded one, which stands for every rbac:* code
    Checks,             \* slots for guard checks in flight
    Requests,           \* slots for administrative requests in flight
    Profiles,           \* which operations each slot is asked for: SUBSET [Requests ->
                        \* SUBSET AdminOps]; a behaviour keeps to one of them
    NoCache, NoCheck, NoRequest

AdminOps == {"createRole", "updateRole", "removeRole", "assignPermissions",
             "createPermission", "updatePermission", "removePermission",
             "createAdmin", "assignRoles", "disable", "enable"}

VARIABLES
    role,      \* [Roles -> RoleStates]
    perm,      \* [Perms -> PermStates]
    account,   \* [Admins -> AccountStates]
    grants,    \* role_permissions
    bindings,  \* user_roles
    cache,     \* [Admins -> Entry \cup {NoCache}]: rbac:user-perms:<uid>
    check,     \* [Checks -> Check \cup {NoCheck}]
    req,       \* [Requests -> Request \cup {NoRequest}]
    clients,   \* \in Profiles: what the requests of this behaviour may be
    suspect    \* history: administrators whose cached codes were outdated by something
               \* the code does not invalidate them for

vars == <<role, perm, account, grants, bindings, cache, check, req, clients, suspect>>
tables == <<role, perm, account, grants, bindings, clients>>
-------------------------------------------------------------------------------
RoleStates    == {"absent", "enabled", "disabled", "deleted"}
PermStates    == {"absent", "live", "deleted"}
AccountStates == {"absent", "active", "disabled"}

\* What is cached.
Entry == [codes : SUBSET Perms]

\* A check is about to read the grants of the roles it found, the codes of the
\* permissions it found, or to store the codes.
Check == [admin : Admins, at : {"grants", "codes", "store"}, roles : SUBSET Roles,
          perms : SUBSET Perms]

\* The statement a request is about to make, and what it has read for it.
ReqSteps == {"super", "count", "exists", "commit", "save", "users", "invalidate"}
Request  == [op : AdminOps, at : ReqSteps, admins : SUBSET Admins, roles : SUBSET Roles,
             perms : SUBSET Perms, enable : BOOLEAN, changed : BOOLEAN]

ASSUME AccessConstants ==
    /\ Seeded \in Admins /\ SuperAdmin \in Roles /\ Manage \in Perms
    /\ Profiles \subseteq [Requests -> SUBSET AdminOps]
    /\ NoCache \notin Entry
    /\ NoCheck \notin Check
    /\ NoRequest \notin Request

ExistingRoles == {r \in Roles : role[r] \in {"enabled", "disabled"}}
LivePerms     == {p \in Perms : perm[p] = "live"}

\* The unique indexes on the codes also hold the rows that are deleted.
RoleCodeTaken(r) == role[r] # "absent"
PermCodeTaken(p) == perm[p] # "absent"

\* getRoleUidsForUser: bound, enabled and not deleted.
RolesOf(a) == {r \in Roles : <<a, r>> \in bindings /\ role[r] = "enabled"}

\* isSuperAdmin
IsSuper(a) == SuperAdmin \in RolesOf(a)

\* countEnabledSuperAdmins: the accounts bound, whatever their status.
CountSuperAdmins == Cardinality({a \in Admins : IsSuper(a)})

\* The codes that the factory of getPermissionCodesForUser would find now.
Codes(a) == {p \in LivePerms : \E r \in RolesOf(a) : <<r, p>> \in grants}

UsersOf(r) == {a \in Admins : <<a, r>> \in bindings}

\* hasPermissions: the super administrator passes, everybody else by the cached codes.
HasPermission(a, p) ==
    \/ IsSuper(a)
    \/ p \in (IF cache[a] = NoCache THEN Codes(a) ELSE cache[a].codes)

\* PermissionsGuard behind the JWT guard: who may call the administrative endpoints.
MayCall(a) == account[a] = "active" /\ HasPermission(a, Manage)

Someone == \E a \in Admins : MayCall(a)

\* assertNotLastSuperAdmin; its two queries are taken as one.
NotLastSuperAdmin(a) == IsSuper(a) => CountSuperAdmins > 1

\* Control flow of a request.
Idle(x, op) == req[x] = NoRequest /\ op \in clients[x]

Starts(x, op, step, A, R, P, enable, changed) ==
    req' = [req EXCEPT ![x] = [op |-> op, at |-> step, admins |-> A, roles |-> R,
                               perms |-> P, enable |-> enable, changed |-> changed]]

At(x, ops, step) == req[x] # NoRequest /\ req[x].op \in ops /\ req[x].at = step
GoesOn(x, step)  == req' = [req EXCEPT ![x].at = step]
Ends(x)          == req' = [req EXCEPT ![x] = NoRequest]

\* Deletes the cached codes of A, one after another; with none it is done.
GoesOnInvalidating(x, A) ==
    req' = [req EXCEPT ![x] = IF A = {} THEN NoRequest
                              ELSE [req[x] EXCEPT !.at = "invalidate", !.admins = A]]
-------------------------------------------------------------------------------
\* What seedPermissions and seedAdmin leave: the system role with every permission,
\* bound to the first administrator.
Init ==
    /\ role = [r \in Roles |-> IF r = SuperAdmin THEN "enabled" ELSE "absent"]
    /\ perm = [p \in Perms |-> IF p = Manage THEN "live" ELSE "absent"]
    /\ account = [a \in Admins |-> IF a = Seeded THEN "active" ELSE "absent"]
    /\ grants = {<<SuperAdmin, Manage>>}
    /\ bindings = {<<Seeded, SuperAdmin>>}
    /\ cache = [a \in Admins |-> NoCache]
    /\ check = [c \in Checks |-> NoCheck]
    /\ req = [x \in Requests |-> NoRequest]
    /\ clients \in Profiles
    /\ suspect = {}

(***************************************************************************)
(* A guard check that has to fill the cache.                               *)
(***************************************************************************)

\* isSuperAdmin says no and the cache misses; then getRoleUidsForUser. Without roles
\* the codes are known.  Three reads are one step, as of the moment of the last: only a check whose
\* first two said no comes to the third, and what is stored is computed from the roles that one reads.
\* Left out is one who is made a super administrator between the first and the third.
CheckReadsRoles(c, a) ==
    /\ check[c] = NoCheck
    /\ account[a] = "active" /\ ~IsSuper(a) /\ cache[a] = NoCache
    /\ check' = [check EXCEPT ![c] = [admin |-> a, roles |-> RolesOf(a), perms |-> {},
                     at |-> IF RolesOf(a) = {} THEN "store" ELSE "grants"]]
    /\ UNCHANGED <<tables, cache, req, suspect>>

\* The find of role_permissions; without any the codes are known.
CheckReadsGrants(c) ==
    /\ check[c] # NoCheck /\ check[c].at = "grants"
    /\ LET granted == {p \in Perms : \E r \in check[c].roles : <<r, p>> \in grants} IN
       check' = [check EXCEPT ![c].perms = granted, ![c].roles = {},
                              ![c].at = IF granted = {} THEN "store" ELSE "codes"]
    /\ UNCHANGED <<tables, cache, req, suspect>>

\* resolveUidsToIds: the permissions that are not deleted.
CheckReadsCodes(c) ==
    /\ check[c] # NoCheck /\ check[c].at = "codes"
    /\ check' = [check EXCEPT ![c].perms = @ \cap LivePerms, ![c].at = "store"]
    /\ UNCHANGED <<tables, cache, req, suspect>>

\* getOrSet stores whatever it has read, an empty list too.
CheckStores(c) ==
    /\ check[c] # NoCheck /\ check[c].at = "store"
    /\ LET a == check[c].admin IN
       /\ cache' = [cache EXCEPT ![a] = [codes |-> check[c].perms]]
       /\ suspect' = IF check[c].perms = Codes(a) THEN suspect \ {a} ELSE suspect \cup {a}
    /\ check' = [check EXCEPT ![c] = NoCheck]
    /\ UNCHANGED <<tables, req>>

CheckDies(c) ==
    /\ check[c] # NoCheck
    /\ check' = [check EXCEPT ![c] = NoCheck]
    /\ UNCHANGED <<tables, cache, req, suspect>>

\* USER_PERMS_TTL passes.
CacheExpires(a) ==
    /\ cache[a] # NoCache
    /\ cache' = [cache EXCEPT ![a] = NoCache]
    /\ suspect' = suspect \ {a}
    /\ UNCHANGED <<tables, check, req>>

(***************************************************************************)
(* Roles.                                                                  *)
(***************************************************************************)

\* create: the check hides a deleted role, the unique index on the code does not.
CreateRole(x, r) ==
    /\ Idle(x, "createRole") /\ Someone
    /\ ~RoleCodeTaken(r)
    /\ role' = [role EXCEPT ![r] = "enabled"]
    /\ UNCHANGED <<perm, account, grants, bindings, cache, check, req, suspect, clients>>

\* update, findByUid: the system role is refused.
UpdateRoleReads(x, r) ==
    /\ Idle(x, "updateRole") /\ Someone
    /\ r \in ExistingRoles \ {SuperAdmin}
    /\ \E enable \in BOOLEAN :
        Starts(x, "updateRole", "save", {}, {r}, {}, enable, enable # (role[r] = "enabled"))
    /\ UNCHANGED <<tables, cache, check, suspect>>

\* update, save(role): every column that differs from the row now is written, deleted_at
\* too; then the users of the role if this update meant to switch it on or off. One that
\* did not, and writes back what another update or a removal has changed, invalidates nobody.
UpdateRoleSaves(x) ==
    /\ At(x, {"updateRole"}, "save")
    /\ role' = [r \in Roles |-> IF r \notin req[x].roles THEN role[r]
                                ELSE IF req[x].enable THEN "enabled" ELSE "disabled"]
    /\ suspect' = suspect \cup {a \in Admins : /\ cache[a] # NoCache /\ ~req[x].changed
                                              /\ \E r \in req[x].roles : a \in UsersOf(r) /\ role'[r] # role[r]}
    /\ IF req[x].changed THEN GoesOn(x, "users") ELSE Ends(x)
    /\ UNCHANGED <<perm, account, grants, bindings, cache, check, clients>>

\* remove, findByUid and the users the role has at this moment.
RemoveRoleReads(x, r) ==
    /\ Idle(x, "removeRole") /\ Someone
    /\ r \in ExistingRoles \ {SuperAdmin}
    /\ Starts(x, "removeRole", "commit", UsersOf(r), {r}, {}, FALSE, FALSE)
    /\ UNCHANGED <<tables, cache, check, suspect>>

\* remove, the transaction. A user bound since the list was read loses the role too,
\* and nobody will delete his codes.
RemoveRoleCommits(x) ==
    /\ At(x, {"removeRole"}, "commit")
    /\ \E r \in req[x].roles :
        /\ role' = [role EXCEPT ![r] = "deleted"]
        /\ bindings' = {b \in bindings : b[2] # r}
        /\ grants' = {g \in grants : g[1] # r}
        /\ suspect' = suspect \cup {a \in UsersOf(r) \ req[x].admins : cache[a] # NoCache}
    /\ GoesOnInvalidating(x, req[x].admins)
    /\ UNCHANGED <<perm, account, cache, check, clients>>

\* assignPermissions: findByUid and resolveUidsToIds, which drops the unknown ones.
AssignPermissionsReads(x, r, P) ==
    /\ Idle(x, "assignPermissions") /\ Someone
    /\ r \in ExistingRoles
    /\ Starts(x, "assignPermissions", "commit", {}, {r}, P \cap LivePerms, FALSE, FALSE)
    /\ UNCHANGED <<tables, cache, check, suspect>>

\* Its transaction: all old rows out, the new ones in.
AssignPermissionsCommits(x) ==
    /\ At(x, {"assignPermissions"}, "commit")
    /\ grants' = {g \in grants : g[1] \notin req[x].roles} \cup (req[x].roles \X req[x].perms)
    /\ GoesOn(x, "users")
    /\ UNCHANGED <<role, perm, account, bindings, cache, check, suspect, clients>>

\* Mutant: the role is invalidated for nobody.
RoleUsersForgotten(x) ==
    /\ At(x, {"updateRole", "assignPermissions"}, "users")
    /\ Ends(x)
    /\ UNCHANGED <<tables, cache, check, suspect>>

\* invalidateRolePerms, the users of the role after the commit.
RoleUsersRead(x) ==
    /\ At(x, {"updateRole", "assignPermissions"}, "users")
    /\ GoesOnInvalidating(x, UNION {UsersOf(r) : r \in req[x].roles})
    /\ UNCHANGED <<tables, cache, check, suspect>>

\* invalidateUserPerms
InvalidateUserPerms(x, a) ==
    /\ At(x, AdminOps, "invalidate")
    /\ a \in req[x].admins
    /\ cache' = [cache EXCEPT ![a] = NoCache]
    /\ suspect' = suspect \ {a}
    /\ GoesOnInvalidating(x, req[x].admins \ {a})
    /\ UNCHANGED <<tables, check>>

(***************************************************************************)
(* Permissions.                                                            *)
(***************************************************************************)

CreatePermission(x, p) ==
    /\ Idle(x, "createPermission") /\ Someone
    /\ ~PermCodeTaken(p)
    /\ perm' = [perm EXCEPT ![p] = "live"]
    /\ UNCHANGED <<role, account, grants, bindings, cache, check, req, suspect, clients>>

\* update, findByUid, and then its save(permission), which writes deleted_at back as well: a
\* grant inserted behind the removal counts again.
UpdatePermissionReads(x, p) ==
    /\ Idle(x, "updatePermission") /\ Someone
    /\ p \in LivePerms
    /\ Starts(x, "updatePermission", "save", {}, {}, {p}, TRUE, FALSE)
    /\ UNCHANGED <<tables, cache, check, suspect>>

UpdatePermissionSaves(x) ==
    /\ At(x, {"updatePermission"}, "save")
    /\ perm' = [p \in Perms |-> IF p \in req[x].perms THEN "live" ELSE perm[p]]
    /\ suspect' = suspect \cup {a \in Admins : /\ cache[a] # NoCache
                                              /\ \E p \in req[x].perms \ LivePerms, r \in RolesOf(a) : <<r, p>> \in grants}
    /\ Ends(x)
    /\ UNCHANGED <<role, account, grants, bindings, cache, check, clients>>

\* Mutant: the grants of the permission stay.
RemovePermissionOnly(x, p) ==
    /\ Idle(x, "removePermission") /\ Someone
    /\ p \in LivePerms
    /\ perm' = [perm EXCEPT ![p] = "deleted"]
    /\ suspect' = suspect \cup {a \in Admins : cache[a] # NoCache /\ p \in cache[a].codes}
    /\ UNCHANGED <<role, account, grants, bindings, cache, check, req, clients>>

\* remove: the transaction; cached codes are left to their TTL.
RemovePermission(x, p) ==
    /\ Idle(x, "removePermission") /\ Someone
    /\ p \in LivePerms
    /\ perm' = [perm EXCEPT ![p] = "deleted"]
    /\ grants' = {g \in grants : g[2] # p}
    /\ suspect' = suspect \cup {a \in Admins : cache[a] # NoCache /\ p \in cache[a].codes}
    /\ UNCHANGED <<role, account, bindings, cache, check, req, clients>>

(***************************************************************************)
(* Administrators.                                                         *)
(***************************************************************************)

\* create: the account and its password, then its roles if any are given.
CreateAdmin(x, a, R) ==
    /\ Idle(x, "createAdmin") /\ Someone
    /\ account[a] = "absent"
    /\ account' = [account EXCEPT ![a] = "active"]
    /\ IF R = {} THEN UNCHANGED req
       ELSE Starts(x, "createAdmin", "exists", {a}, R, {}, FALSE, FALSE)
    /\ UNCHANGED <<role, perm, grants, bindings, cache, check, suspect, clients>>

\* assignRoles by somebody else; isSuperAdmin and the roles that were named decide
\* whether the last super administrator is looked after.
AssignRolesStarts(x, a, R) ==
    /\ Idle(x, "assignRoles")
    /\ account[a] # "absent"
    /\ \E by \in Admins \ {a} : MayCall(by)
    /\ Starts(x, "assignRoles",
              IF IsSuper(a) /\ SuperAdmin \notin R THEN "count" ELSE "exists",
              {a}, R, {}, FALSE, FALSE)
    /\ UNCHANGED <<tables, cache, check, suspect>>

\* update with another status than ACTIVE, by somebody else.
DisableStarts(x, a) ==
    /\ Idle(x, "disable")
    /\ account[a] # "absent"
    /\ \E by \in Admins \ {a} : MayCall(by)
    /\ Starts(x, "disable", "count", {a}, {}, {}, FALSE, FALSE)
    /\ UNCHANGED <<tables, cache, check, suspect>>

\* Mutant: the last one counts as one of several.
CountsSuperAdminsLoosely(x) ==
    /\ At(x, {"assignRoles", "disable"}, "count")
    /\ IF \A a \in req[x].admins : IsSuper(a) => CountSuperAdmins >= 1
       THEN GoesOn(x, IF req[x].op = "disable" THEN "save" ELSE "exists")
       ELSE Ends(x)
    /\ UNCHANGED <<tables, cache, check, suspect>>

CountsSuperAdmins(x) ==
    /\ At(x, {"assignRoles", "disable"}, "count")
    /\ IF \A a \in req[x].admins : NotLastSuperAdmin(a)
       THEN GoesOn(x, IF req[x].op = "disable" THEN "save" ELSE "exists")
       ELSE Ends(x)
    /\ UNCHANGED <<tables, cache, check, suspect>>

\* adminUserService.update with the new status.
DisableSaves(x) ==
    /\ At(x, {"disable"}, "save")
    /\ account' = [a \in Admins |-> IF a \in req[x].admins THEN "disabled" ELSE account[a]]
    /\ Ends(x)
    /\ UNCHANGED <<role, perm, grants, bindings, cache, check, suspect, clients>>

EnableAdmin(x, a) ==
    /\ Idle(x, "enable") /\ Someone
    /\ account[a] = "disabled"
    /\ account' = [account EXCEPT ![a] = "active"]
    /\ UNCHANGED <<role, perm, grants, bindings, cache, check, req, suspect, clients>>

\* assignRolesToUser: every role named exists, disabled ones included.
RolesExist(x) ==
    /\ At(x, {"createAdmin", "assignRoles"}, "exists")
    /\ IF req[x].roles \subseteq ExistingRoles THEN GoesOn(x, "commit") ELSE Ends(x)
    /\ UNCHANGED <<tables, cache, check, suspect>>

\* assignRolesToUser, the transaction: all old bindings out, the new ones in.
AssignRolesCommits(x) ==
    /\ At(x, {"createAdmin", "assignRoles"}, "commit")
    /\ bindings' = {b \in bindings : b[1] \notin req[x].admins}
                       \cup (req[x].admins \X req[x].roles)
    /\ GoesOnInvalidating(x, req[x].admins)
    /\ UNCHANGED <<role, perm, account, grants, cache, check, suspect, clients>>

\* Whose codes request x has still to delete from the cache.
ToInvalidate(x) ==
    IF At(x, AdminOps, "invalidate") THEN req[x].admins
    ELSE IF At(x, AdminOps, "users") THEN UNION {UsersOf(r) : r \in req[x].roles}
    ELSE {}

\* The process dies, or Redis or the database does not answer: the rest is not done.
RequestDies(x) ==
    /\ req[x] # NoRequest
    /\ suspect' = suspect \cup {a \in ToInvalidate(x) : cache[a] # NoCache}
    /\ Ends(x)
    /\ UNCHANGED <<tables, cache, check>>
-------------------------------------------------------------------------------
CheckStep(c) ==
    \/ \E a \in Admins : CheckReadsRoles(c, a)
    \/ CheckReadsGrants(c) \/ CheckReadsCodes(c) \/ CheckStores(c) \/ CheckDies(c)

RoleStep(x) ==
    \/ \E r \in Roles : CreateRole(x, r) \/ UpdateRoleReads(x, r) \/ RemoveRoleReads(x, r)
    \/ \E r \in Roles, P \in SUBSET Perms : AssignPermissionsReads(x, r, P)
    \/ UpdateRoleSaves(x) \/ RemoveRoleCommits(x) \/ AssignPermissionsCommits(x)
    \/ RoleUsersRead(x)
    \/ \E a \in Admins : InvalidateUserPerms(x, a)

PermissionStep(x) ==
    \/ \E p \in Perms : CreatePermission(x, p) \/ UpdatePermissionReads(x, p)
                        \/ RemovePermission(x, p)
    \/ UpdatePermissionSaves(x)

AdministratorStep(x) ==
    \/ \E a \in Admins, R \in SUBSET Roles : CreateAdmin(x, a, R) \/ AssignRolesStarts(x, a, R)
    \/ \E a \in Admins : DisableStarts(x, a) \/ EnableAdmin(x, a)
    \/ CountsSuperAdmins(x) \/ DisableSaves(x) \/ RolesExist(x) \/ AssignRolesCommits(x)

Next ==
    \/ \E c \in Checks : CheckStep(c)
    \/ \E x \in Requests : RoleStep(x) \/ PermissionStep(x) \/ AdministratorStep(x)
                           \/ RequestDies(x)
    \/ \E a \in Admins : CacheExpires(a)

Spec == Init /\ [][Next]_vars
-------------------------------------------------------------------------------
(***************************************************************************)
(* Properties.                                                             *)
(***************************************************************************)

\* Types; the system role stays enabled, and only cached codes are suspect.
TypeOK ==
    /\ role \in [Roles -> RoleStates] /\ role[SuperAdmin] = "enabled"
    /\ perm \in [Perms -> PermStates]
    /\ account \in [Admins -> AccountStates]
    /\ grants \subseteq Roles \X Perms /\ bindings \subseteq Admins \X Roles
    /\ cache \in [Admins -> Entry \cup {NoCache}]
    /\ check \in [Checks -> Check \cup {NoCheck}]
    /\ req \in [Requests -> Request \cup {NoRequest}]
    /\ clients \in Profiles
    /\ suspect \subseteq {a \in Admins : cache[a] # NoCache}

\* Whatever overlaps, cached codes are the administrator's codes now, unless their deletion is on
\* its way or one of the known gaps has outdated them (AccessCheckService, invalidateRolePerms): a
\* fill that read before a commit and stored after its deletion, a permission removed, a role
\* removed from somebody bound after the list was read, an update of a role or a permission that
\* writes back what another one or a removal has changed since it read, a request that died.
CachedCodesAreCurrent ==
    \A a \in Admins : \/ cache[a] = NoCache \/ cache[a].codes = Codes(a)
                      \/ a \in suspect
                      \/ \E x \in Requests : a \in ToInvalidate(x)

\* The comment of AdministratorsService.assignRoles: as long as one request at a time changes
\* bindings, somebody is bound to the enabled super administrator role, whatever else overlaps it.
\* (Of two that overlap, each counts the other's account and both may commit.)
SomeoneIsSuperAdmin == \E a \in Admins : IsSuper(a)

\* The comments of remove (roles and permissions): no grant is left that names a row which is gone,
\* whatever request dies where, as long as no assignPermissions overlaps a removal. (One that has
\* looked its rows up before the removal commits inserts a grant of what is gone.)
NoDanglingGrant ==
    \A g \in grants : g[1] \in ExistingRoles /\ g[2] \in LivePerms

\* The comment of AdministratorsService.update: disabling is refused if only this one
\* enabled super administrator is left; so one that is active always remains.
ActiveSuperAdminRemains ==
    \E a \in Admins : IsSuper(a) /\ account[a] = "active"
===============================================================================
