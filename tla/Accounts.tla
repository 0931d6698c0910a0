------------------------------ MODULE Accounts -------------------------------
(***************************************************************************)
(* Accounts, their sign-in budget and their browser sessions together:     *)
(* the handlers of api/v1/routes.py and api/v1/platform.py over            *)
(* TenantAdmin, LoginGuard and BrowserSessions.  A request runs one        *)
(* handler at a time; signing in and registering end in a new session, and *)
(* administration needs the session of an administrator.                   *)
(***************************************************************************)
EXTENDS TenantAdmin, Sequences

CONSTANTS
    Families,            \* sign-ins
    Threshold, Window,   \* of LoginGuard
    Life, MaxRecords     \* of BrowserSessions

ASSUME AccountsAssumption ==
    /\ Threshold \in Nat \ {0} /\ Window \in Nat \ {0}
    /\ Life \in Nat \ {0} /\ MaxRecords \in Nat

VARIABLES budget, att, age, records, ses, life, closed, missed,
          owner   \* family -> the user who signed in

INSTANCE LoginGuard
INSTANCE BrowserSessions

administration == <<tenant, users, adm>>
signIn == <<budget, att, age>>
browsing == <<records, ses, life, closed, missed>>
vars == <<administration, signIn, browsing, owner>>

-----------------------------------------------------------------------------
Nobody == "nobody"
TypeOK == /\ AdminTypeOK /\ GuardTypeOK /\ SessionTypeOK
          /\ owner \in [Families -> Users \cup {Nobody}]

Init == /\ AdminInit /\ GuardInit /\ SessionInit
        /\ owner = [f \in Families |-> Nobody]

IdleRequest(x) == adm[x] = AdminIdle /\ att[x] = NoAttempt /\ ses[x] = SesIdle

\* validate_active_token() and require_role(ADMIN): the role is read from the row.
AdminSignedIn == \E f \in Issued : Usable(f) # {} /\ owner[f] \in Admins

SignIn(f, u) == Issue(f) /\ owner' = [owner EXCEPT ![f] = u]

-----------------------------------------------------------------------------
Administer(x) ==
    /\ \/ AdminGoesOn(x)
       \/ IdleRequest(x) /\ AdminSignedIn /\ AdminStarts(x)
       \/ IdleRequest(x) /\ \E u \in Users : Register(x, u)
    /\ UNCHANGED <<signIn, browsing, owner>>

\* POST /auth/login: the budget, the password, the budget again.
LogIn(x) ==
    /\ \/ IdleRequest(x) /\ \E u \in Users : Reserve(x, u)
       \/ \E right \in BOOLEAN :
            Authenticate(x, right) /\ (right => users[att[x].user] # "none")
       \/ FinishSuccess(x)
       \/ AttemptEnds(x)
    /\ UNCHANGED <<administration, browsing, owner>>

\* ... and the session of a user who is welcome.
Welcome(x) ==
    /\ att[x].st = "welcome"
    /\ \E f \in Families : SignIn(f, att[x].user)
    /\ AttemptEnds(x)
    /\ UNCHANGED administration

\* POST /auth/refresh and /auth/logout
UseSession(x) ==
    /\ SessionGoesOn(x) \/ (IdleRequest(x) /\ SessionStarts(x))
    /\ UNCHANGED <<administration, signIn, owner>>

Tick == GuardTick /\ SessionTick /\ UNCHANGED <<administration, att, owner>>

Next ==
    \/ \E x \in Requests : Administer(x) \/ LogIn(x) \/ Welcome(x) \/ UseSession(x)
    \/ Tick

Spec == Init /\ [][Next]_vars

\* Browser sessions of accounts that sign in, refresh, sign out and change roles at the
\* same time: one record replaces another until the family is
\* closed or its seven days are over.
SessionsSafe == TypeOK /\ OneUsable /\ ClosedStays /\ FamilyEnds
=============================================================================
