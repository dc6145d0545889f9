------------------------------ MODULE Permissions ------------------------------
(***************************************************************************)
(* Roles, their ranks (apps/users/constants.py) and the permission classes *)
(* of core/permissions/roles.py.  IsOwnerOrAdmin guards no view.           *)
(***************************************************************************)
EXTENDS Naturals

\* ROLE_HIERARCHY.index
Rank == [customer |-> 0, accounts |-> 1, sales_person |-> 2,
         manager |-> 3, admin |-> 4, super_admin |-> 5]
UserRole == DOMAIN Rank

\* allowed_roles of each class.  They are lists of their own, not cuts of the hierarchy.
AllowedRoles ==
    [IsSuperAdmin      |-> {"super_admin"},
     IsAdmin           |-> {"admin"},
     IsAdminOrAbove    |-> {"super_admin", "admin"},
     IsManagerOrAbove  |-> {"super_admin", "admin", "manager"},
     IsSalesPerson     |-> {"sales_person"},
     IsSalesOrAbove    |-> {"super_admin", "admin", "manager", "sales_person"},
     IsAccounts        |-> {"accounts"},
     IsAccountsOrAbove |-> {"super_admin", "admin", "manager", "accounts"},
     IsCustomer        |-> {"customer"},
     IsStaffMember     |-> {"super_admin", "admin", "manager", "sales_person", "accounts"}]
Classes == DOMAIN AllowedRoles

\* has_permission of an authenticated user: of a HasRole(*roles), of a RolePermission.
HasRole(role, roles)       == role \in roles
HasPermission(role, class) == HasRole(role, AllowedRoles[class])
==============================================================================
