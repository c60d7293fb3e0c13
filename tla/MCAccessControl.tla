---------------------------- MODULE MCAccessControl ----------------------------
(***************************************************************************)
(* AccessControl for TLC: what the two slots for requests are asked for.   *)
(***************************************************************************)
EXTENDS AccessControl, TLC

CONSTANTS x1, x2

AccountOps    == {"createAdmin", "assignRoles", "disable", "enable"}
BindingOps    == {"createAdmin", "assignRoles"}
GrantOps      == {"createRole", "assignPermissions"}
PermissionOps == {"createPermission", "updatePermission", "removePermission"}

\* Everything on roles and bindings, one request at a time; bindings change while a role is removed;
\* an administrator is created while grants are changed; a role is switched on and off, by two at
\* once; accounts are disabled while roles are granted; the catalogue of permissions changes, and a
\* permission is updated while it is removed.
Overlapping ==
    { x1 :> BindingOps \cup GrantOps \cup {"removeRole"} @@ x2 :> {},
      x1 :> BindingOps @@ x2 :> {"createRole", "removeRole"},
      x1 :> {"createAdmin"} @@ x2 :> {"createRole", "removeRole", "assignPermissions"},
      x1 :> {"createAdmin", "updateRole"} @@ x2 :> {"createRole", "updateRole", "assignPermissions"},
      x1 :> AccountOps @@ x2 :> {"createRole"},
      x1 :> {"createAdmin", "updatePermission"} @@ x2 :> PermissionOps \cup GrantOps }

OneAtATime == { x1 :> AdminOps }
===============================================================================
