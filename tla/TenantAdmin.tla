----------------------------- MODULE TenantAdmin -----------------------------
(***************************************************************************)
(* A tenant and its users: register(), create_user() and                   *)
(* update_user_role() of services/operations.py on PostgreSQL under READ   *)
(* COMMITTED.  Each handler reads in its transaction and commits later;    *)
(* only changes of a role lock the tenant's row.  Of the roles, "admin"    *)
(* and the others are told apart.  Nobody is deactivated by the program.   *)
(***************************************************************************)
EXTENDS FiniteSets, Integers

CONSTANTS Requests,   \* requests in progress
          Users       \* email addresses

VARIABLES tenant,     \* the tenant's row exists
          users,      \* email -> role, "none" without a row
          adm         \* request -> what its handler holds

adminVars == <<tenant, users, adm>>

-----------------------------------------------------------------------------
Roles == {"admin", "member"}
AdminIdle == [st |-> "idle"]
Handler == {AdminIdle}
           \cup [st : {"registering", "creating", "waiting", "locked", "checked"},
                 user : Users, role : Roles]

AdminTypeOK ==
    /\ tenant \in BOOLEAN
    /\ users \in [Users -> Roles \cup {"none"}]
    /\ adm \in [Requests -> Handler]

AdminInit ==
    /\ tenant = FALSE
    /\ users = [u \in Users |-> "none"]
    /\ adm = [x \in Requests |-> AdminIdle]

Admins == {u \in Users : users[u] = "admin"}

To(x, stage) == adm' = [adm EXCEPT ![x].st = stage]
AdminEnds(x) == adm' = [adm EXCEPT ![x] = AdminIdle]
AdminBegins(x, stage, u, r) ==
    /\ adm[x] = AdminIdle
    /\ adm' = [adm EXCEPT ![x] = [st |-> stage, user |-> u, role |-> r]]
    /\ UNCHANGED <<tenant, users>>

-----------------------------------------------------------------------------
\* register(): there was no such tenant when it looked.
Register(x, u) == ~tenant /\ AdminBegins(x, "registering", u, "admin")

\* The commit, or a conflict on the primary key of the tenant: 409.
RegisterCommit(x) ==
    /\ adm[x].st = "registering"
    /\ AdminEnds(x)
    /\ IF tenant THEN UNCHANGED <<tenant, users>>
       ELSE tenant' = TRUE /\ users' = [users EXCEPT ![adm[x].user] = "admin"]

\* create_user(): there was no such account when it looked.
CreateUser(x, u, r) == tenant /\ users[u] = "none" /\ AdminBegins(x, "creating", u, r)

\* The commit, or a conflict on (tenant_id, email): 409.
CreateCommit(x) ==
    /\ adm[x].st = "creating"
    /\ AdminEnds(x)
    /\ users' = IF users[adm[x].user] = "none"
                THEN [users EXCEPT ![adm[x].user] = adm[x].role] ELSE users
    /\ UNCHANGED tenant

\* update_user_role() is called.
UpdateRole(x, u, r) == tenant /\ AdminBegins(x, "waiting", u, r)

\* Mutant: the tenant's row is read without FOR UPDATE.
RowFreeAnyway(x) == TRUE

\* Nobody else has locked the tenant's row.
RowFree(x) == \A y \in Requests \ {x} : adm[y].st \notin {"locked", "checked"}

LockTenant(x) ==
    /\ adm[x].st = "waiting" /\ RowFree(x)
    /\ To(x, "locked")
    /\ UNCHANGED <<tenant, users>>

\* The final administrator is not demoted; a user who does not exist, nobody.
Refused(x) ==
    LET u == adm[x].user
    IN  \/ users[u] = "none"
        \/ users[u] = "admin" /\ adm[x].role # "admin" /\ Cardinality(Admins) <= 1

\* The user and the administrators are read.
CheckAdmins(x) ==
    /\ adm[x].st = "locked"
    /\ IF Refused(x) THEN AdminEnds(x) ELSE To(x, "checked")
    /\ UNCHANGED <<tenant, users>>

RoleCommit(x) ==
    /\ adm[x].st = "checked"
    /\ AdminEnds(x)
    /\ users' = [users EXCEPT ![adm[x].user] = adm[x].role]
    /\ UNCHANGED tenant

\* The database or the process fails before the commit.
AdminFails(x) ==
    /\ adm[x] # AdminIdle
    /\ AdminEnds(x)
    /\ UNCHANGED <<tenant, users>>

AdminGoesOn(x) == \/ RegisterCommit(x) \/ CreateCommit(x) \/ LockTenant(x) \/ CheckAdmins(x)
                  \/ RoleCommit(x) \/ AdminFails(x)

AdminStarts(x) == \E u \in Users, r \in Roles : CreateUser(x, u, r) \/ UpdateRole(x, u, r)

AdminNext == \E x \in Requests : \/ AdminGoesOn(x) \/ AdminStarts(x)
                                 \/ \E u \in Users : Register(x, u)

AdminSpec == AdminInit /\ [][AdminNext]_adminVars

-----------------------------------------------------------------------------
\* operations.py:99: however many role changes overlap, a tenant that was registered
\* keeps an administrator.
AdminRemains == tenant => Admins # {}
=============================================================================
