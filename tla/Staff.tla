-------------------------------- MODULE Staff --------------------------------
(***************************************************************************)
(* Who may change whom: update_role, update_status, soft_delete_user and   *)
(* update_profile of apps/users/services.py behind their views and         *)
(* permission classes.                                                     *)
(*                                                                         *)
(* The actor is read once, when the token is authenticated, and judged on  *)
(* that copy; the target is read later, and one column of it is written.   *)
(* Nothing is locked, so the actor may have lost its role, its account or  *)
(* both when its request saves.                                            *)
(***************************************************************************)
EXTENDS Permissions

CONSTANTS
    Users,
    Requests,    \* the threads that serve requests
    Roles,       \* UserRole: those that occur
    Status,      \* UserStatus: no decision of this module looks at it
    None,        \* not a user
    MaxSaves     \* bound: requests that go through

ASSUME RolesAssumption == "customer" \in Roles /\ Roles \subseteq UserRole
ASSUME StatusAssumption == "active" \in Status
ASSUME NoneAssumption == None \notin Users

VARIABLES
    row,     \* the committed columns role, status and is_active
    pc, req, \* where a request is, and what it holds
    saves,   \* bound
    first    \* history: the roles that create_user and create_superuser gave

vars == <<row, pc, req, saves, first>>

\* The permission class of each view; everybody may change its own profile.
Guard == [role |-> "IsAdminOrAbove", status |-> "IsAdminOrAbove", delete |-> "IsSuperAdmin"]

Profile == [kind |-> "profile", value |-> "-"]
Asks == [kind : {"role"}, value : Roles] \cup [kind : {"status"}, value : Status]
        \cup [kind : {"delete"}, value : {"-"}]

Row  == [role : Roles, status : Status, active : BOOLEAN]
Held == [actor : Users \cup {None}, role : Roles, target : Users \cup {None},
         ask : Asks \cup {Profile}, copy : Row]

NewRow(role) == [role |-> role, status |-> "active", active |-> TRUE]
Nothing == [actor |-> None, role |-> "customer", target |-> None,
            ask |-> [kind |-> "delete", value |-> "-"], copy |-> NewRow("customer")]

Init == /\ first \in [Users -> Roles]
        /\ row = [u \in Users |-> NewRow(first[u])]
        /\ pc = [r \in Requests |-> "idle"]
        /\ req = [r \in Requests |-> Nothing]
        /\ saves = 0

------------------------------------------------------------------------------
\* JWTAuthentication reads the actor, the permission class and the serializer
\* judge it: only a super admin may name the role super_admin.
Admit(r, a, ask) ==
    /\ pc[r] = "idle"
    /\ row[a].active
    /\ HasPermission(row[a].role, Guard[ask.kind])
    /\ ask.value = "super_admin" => row[a].role = "super_admin"
    /\ pc' = [pc EXCEPT ![r] = "admitted"]
    /\ req' = [req EXCEPT ![r] = [@ EXCEPT !.actor = a, !.role = row[a].role,
                                           !.ask = ask]]
    /\ UNCHANGED <<row, saves, first>>

\* MeView: names, phone and address of the user that the token names, on the very
\* instance that was authenticated.
AdmitProfile(r, a) ==
    /\ pc[r] = "idle"
    /\ row[a].active
    /\ pc' = [pc EXCEPT ![r] = "save"]
    /\ req' = [req EXCEPT ![r] = [@ EXCEPT !.actor = a, !.role = row[a].role, !.ask = Profile,
                                           !.target = a, !.copy = row[a]]]
    /\ UNCHANGED <<row, saves, first>>

\* Mutants: a role as high as one's own; oneself.
MayChangeEqual(q, t) ==
    /\ t # q.actor
    /\ q.ask.kind = "role" => Rank[q.ask.value] <= Rank[q.role] \/ q.role = "super_admin"
MayChangeSelf(q, t) ==
    q.ask.kind = "role" => Rank[q.ask.value] < Rank[q.role] \/ q.role = "super_admin"

\* Nobody changes its own row, and nobody but a super admin gives a role that is
\* not below its own.  What the target is at the moment is not asked.
MayChange(q, t) ==
    /\ t # q.actor
    /\ q.ask.kind = "role" => Rank[q.ask.value] < Rank[q.role] \/ q.role = "super_admin"

\* get_user_or_404 for the user the URL names, then the rules of the service.
Load(r, t) == /\ pc[r] = "admitted" /\ MayChange(req[r], t)
              /\ pc' = [pc EXCEPT ![r] = "save"]
              /\ req' = [req EXCEPT ![r].target = t, ![r].copy = row[t]]
              /\ UNCHANGED <<row, saves, first>>

End(r) == pc' = [pc EXCEPT ![r] = "idle"] /\ req' = [req EXCEPT ![r] = Nothing]

\* Mutant: whatever is asked goes into the role.
AssignedRole(u, ask) == [u EXCEPT !.role = IF ask.kind \in {"role", "status"} THEN ask.value ELSE @,
                                  !.active = ask.kind # "delete" /\ @]

\* setattr on the loaded instance; a profile is none of these columns.
Assigned(u, ask) == [role   |-> IF ask.kind = "role" THEN ask.value ELSE u.role,
                     status |-> IF ask.kind = "status" THEN ask.value ELSE u.status,
                     active |-> ask.kind # "delete" /\ u.active]

\* Mutant: save without update_fields.
WrittenFully(u, q) == Assigned(q.copy, q.ask)

\* UserRepository.update: save(update_fields=...) leaves the other columns of the
\* committed row u alone.
Written(u, q) == Assigned(u, q.ask)

Save(r) == /\ pc[r] = "save" /\ saves < MaxSaves
           /\ row' = [row EXCEPT ![req[r].target] = Written(@, req[r])]
           /\ saves' = saves + 1
           /\ End(r)
           /\ UNCHANGED first

\* The service refuses, or the request dies.
Abort(r) == /\ pc[r] # "idle"
            /\ End(r)
            /\ UNCHANGED <<row, saves, first>>

Next == \E r \in Requests :
            \/ \E a \in Users, ask \in Asks : Admit(r, a, ask)
            \/ \E a \in Users : AdmitProfile(r, a)
            \/ \E t \in Users : Load(r, t)
            \/ Save(r) \/ Abort(r)

Spec == Init /\ [][Next]_vars

------------------------------------------------------------------------------
TypeOK == /\ row \in [Users -> Row]
          /\ pc \in [Requests -> {"idle", "admitted", "save"}]
          /\ req \in [Requests -> Held]
          /\ saves \in Nat
          /\ first \in [Users -> Roles]

\* Roles come from above: whoever has another role than it began with, up or down,
\* has it because somebody began above that role, or as a super admin.  No chain
\* of promotions, demotions and overtaken requests lifts anyone to the top.
Above(role) == \E v \in Users : Rank[first[v]] > Rank[role] \/ first[v] = "super_admin"
RanksFromAbove == \A u \in Users : row[u].role # first[u] => Above(row[u].role)

\* Nobody can be locked out of the administration by requests of people in charge:
\* the last one who is can fall only to a request that outlived its actor's own
\* role or account.
InCharge(u) == row[u].active /\ row[u].role \in {"admin", "super_admin"}
SomeoneStays == [][(\E u \in Users : InCharge(u)) /\ ~(\E u \in Users : InCharge(u))'
                      => \E r \in Requests : pc[r] = "save" /\ ~InCharge(req[r].actor)]_vars

\* A deactivated account stays deactivated, and what an unlocked request writes to
\* one column never brings back the other column that somebody changed meanwhile,
\* be it the user itself that saves its profile.
OneColumnAtATime ==
    [][\A u \in Users :
          /\ row'[u].active => row[u].active
          /\ row'[u].role # row[u].role => row'[u].status = row[u].status]_vars
==============================================================================
