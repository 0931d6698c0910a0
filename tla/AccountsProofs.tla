---------------------------- MODULE AccountsProofs ---------------------------
(***************************************************************************)
(* What holds of Accounts and of its three parts for every set of          *)
(* requests, of users and of families, the infinite ones included, and for *)
(* every threshold, window, lifetime and number of records.                *)
(***************************************************************************)
EXTENDS Accounts, FiniteSetTheorems, SequenceTheorems, TLAPS

-----------------------------------------------------------------------------
(* The tenant and its administrators *)

\* A request that changes a role has found its tenant.
FoundTenant == \A x \in Requests : adm[x].st \in {"waiting", "locked", "checked"} => tenant

\* One request at a time has locked the tenant's row.
OneLock ==
    \A x, y \in Requests :
        adm[x].st \in {"locked", "checked"} /\ adm[y].st \in {"locked", "checked"} => x = y

\* Whoever is about to take a role away leaves another administrator: what was read
\* under the lock is still so at the commit.
CheckedSafe ==
    \A x \in Requests :
        adm[x].st = "checked" /\ adm[x].role # "admin"
            => \E v \in Users : users[v] = "admin" /\ v # adm[x].user

AdminInv == AdminTypeOK /\ FoundTenant /\ OneLock /\ CheckedSafe /\ AdminRemains

-----------------------------------------------------------------------------
\* One administrator is not the only one if the count says that there are more.
LEMMA AnotherAdmin ==
    ASSUME NEW u \in Users, users[u] = "admin", ~(Cardinality(Admins) <= 1)
    PROVE  \E v \in Users : users[v] = "admin" /\ v # u
  <1>1. Admins # {u}
    BY FS_Singleton
  <1>2. u \in Admins
    BY DEF Admins
  <1> QED
    BY <1>1, <1>2 DEF Admins

\* A handler that is not idle has a user and a role.
LEMMA HandlerStage ==
    ASSUME AdminTypeOK, NEW x \in Requests, adm[x].st # "idle"
    PROVE  /\ adm[x].user \in Users
           /\ adm[x].role \in Roles
           /\ \A s : [adm[x] EXCEPT !.st = s]
                       = [st |-> s, user |-> adm[x].user, role |-> adm[x].role]
  <1> DEFINE Stages == {"registering", "creating", "waiting", "locked", "checked"}
  <1>1. adm[x] \in Handler
    BY DEF AdminTypeOK
  <1>2. adm[x] # AdminIdle
    BY DEF AdminIdle
  <1>3. adm[x] \in [st : Stages, user : Users, role : Roles]
    BY <1>1, <1>2 DEF Handler
  <1> QED BY <1>3

\* What a handler that begins or ends leaves true: it holds neither the lock nor a
\* role it has checked.
LEMMA BeginsOrEnds ==
    ASSUME AdminInv, UNCHANGED <<tenant, users>>, NEW x \in Requests, NEW h \in Handler,
           h.st \notin {"locked", "checked"}, h.st = "waiting" => tenant,
           adm' = [adm EXCEPT ![x] = h]
    PROVE  AdminInv'
  BY DEF AdminInv, AdminTypeOK, FoundTenant, OneLock, CheckedSafe, AdminRemains, Admins

LEMMA AdminInitInv ==
    ASSUME AdminInit
    PROVE  AdminInv
  <1>1. AdminIdle \in Handler /\ AdminIdle.st = "idle"
    BY DEF AdminIdle, Handler
  <1>2. AdminTypeOK
    BY <1>1 DEF AdminInit, AdminTypeOK
  <1>3. \A x \in Requests : adm[x].st = "idle"
    BY <1>1 DEF AdminInit
  <1> QED
    BY <1>2, <1>3 DEF AdminInit, AdminInv, FoundTenant, OneLock, CheckedSafe, AdminRemains

LEMMA AdminNextInv ==
    ASSUME AdminInv, [AdminNext]_adminVars
    PROVE  AdminInv'
  <1>1. CASE UNCHANGED adminVars
    BY <1>1 DEF adminVars, AdminInv, AdminTypeOK, FoundTenant, OneLock, CheckedSafe,
                AdminRemains, Admins
  <1> SUFFICES ASSUME NEW x \in Requests,
                      \/ AdminGoesOn(x) \/ AdminStarts(x)
                      \/ \E u \in Users : Register(x, u)
               PROVE  AdminInv'
    BY <1>1 DEF AdminNext
  <1>idle. AdminIdle \in Handler /\ AdminIdle.st = "idle"
    BY DEF AdminIdle, Handler
  <1>2. ASSUME NEW u \in Users, Register(x, u)
        PROVE  AdminInv'
    <2> DEFINE h == [st |-> "registering", user |-> u, role |-> "admin"]
    <2>1. h \in Handler /\ h.st = "registering"
      BY DEF Handler, Roles
    <2>2. adm' = [adm EXCEPT ![x] = h] /\ UNCHANGED <<tenant, users>>
      BY <1>2 DEF Register, AdminBegins
    <2> HIDE DEF h
    <2> QED BY <2>1, <2>2, BeginsOrEnds
  <1>3. CASE AdminStarts(x)
    <2>1. PICK u \in Users, r \in Roles : CreateUser(x, u, r) \/ UpdateRole(x, u, r)
      BY <1>3 DEF AdminStarts
    <2>2. PICK s \in {"creating", "waiting"} :
              tenant /\ AdminBegins(x, s, u, r)
      BY <2>1 DEF CreateUser, UpdateRole
    <2> DEFINE h == [st |-> s, user |-> u, role |-> r]
    <2>3. h \in Handler /\ h.st = s
      BY DEF Handler
    <2>4. adm' = [adm EXCEPT ![x] = h] /\ UNCHANGED <<tenant, users>>
      BY <2>2 DEF AdminBegins
    <2> HIDE DEF h
    <2> QED BY <2>2, <2>3, <2>4, BeginsOrEnds
  <1>4. CASE AdminFails(x)
    BY <1>4, <1>idle, BeginsOrEnds DEF AdminFails, AdminEnds
  <1>5. CASE RegisterCommit(x)
    <2>1. CASE tenant
      BY <1>5, <2>1, <1>idle, BeginsOrEnds DEF RegisterCommit, AdminEnds
    <2> SUFFICES ASSUME ~tenant PROVE AdminInv'
      BY <2>1
    <2>2. adm[x].user \in Users
      BY <1>5, HandlerStage DEF RegisterCommit, AdminInv
    <2>3. /\ tenant'
          /\ users' = [users EXCEPT ![adm[x].user] = "admin"]
          /\ adm' = [adm EXCEPT ![x] = AdminIdle]
      BY <1>5 DEF RegisterCommit, AdminEnds
    <2>4. AdminTypeOK'
      BY <2>2, <2>3, <1>idle DEF AdminInv, AdminTypeOK, Roles
    <2>5. \A y \in Requests : adm'[y].st \notin {"locked", "checked"}
      BY <2>3, <1>idle DEF AdminInv, AdminTypeOK, FoundTenant
    <2>6. AdminRemains'
      BY <2>2, <2>3 DEF AdminInv, AdminTypeOK, AdminRemains, Admins
    <2> QED BY <2>3, <2>4, <2>5, <2>6 DEF AdminInv, FoundTenant, OneLock, CheckedSafe
  <1>6. CASE CreateCommit(x)
    <2> DEFINE u == adm[x].user
               r == adm[x].role
    <2>1. u \in Users /\ r \in Roles
      BY <1>6, HandlerStage DEF CreateCommit, AdminInv
    <2>2. /\ tenant' = tenant
          /\ adm' = [adm EXCEPT ![x] = AdminIdle]
          /\ users' = IF users[u] = "none" THEN [users EXCEPT ![u] = r] ELSE users
      BY <1>6 DEF CreateCommit, AdminEnds
    <2>3. AdminTypeOK'
      BY <2>1, <2>2, <1>idle DEF AdminInv, AdminTypeOK
    <2>4. \A v \in Users : users[v] = "admin" => users'[v] = "admin"
      BY <2>1, <2>2 DEF AdminInv, AdminTypeOK
    <2>5. FoundTenant' /\ OneLock'
      BY <2>2, <1>idle DEF AdminInv, AdminTypeOK, FoundTenant, OneLock
    <2>6. AdminRemains'
      BY <2>2, <2>4 DEF AdminInv, AdminRemains, Admins
    <2>7. CheckedSafe'
      BY <2>2, <2>4, <1>idle DEF AdminInv, AdminTypeOK, CheckedSafe
    <2> QED BY <2>3, <2>5, <2>6, <2>7 DEF AdminInv
  <1>7. CASE LockTenant(x)
    <2>1. /\ adm[x].st = "waiting"
          /\ \A y \in Requests \ {x} : adm[y].st \notin {"locked", "checked"}
          /\ adm' = [adm EXCEPT ![x].st = "locked"]
          /\ UNCHANGED <<tenant, users>>
      BY <1>7 DEF LockTenant, RowFree, To
    <2>2. /\ adm' = [adm EXCEPT ![x] = [adm[x] EXCEPT !.st = "locked"]]
          /\ [adm[x] EXCEPT !.st = "locked"] \in Handler
          /\ [adm[x] EXCEPT !.st = "locked"].st = "locked"
      BY <2>1, HandlerStage DEF AdminInv, AdminTypeOK, Handler
    <2>3. tenant
      BY <2>1 DEF AdminInv, FoundTenant
    <2> QED
      BY <2>1, <2>2, <2>3 DEF AdminInv, AdminTypeOK, FoundTenant, OneLock, CheckedSafe,
                              AdminRemains, Admins
  <1>8. CASE CheckAdmins(x)
    <2>1. CASE Refused(x)
      BY <1>8, <2>1, <1>idle, BeginsOrEnds DEF CheckAdmins, AdminEnds
    <2> SUFFICES ASSUME ~Refused(x) PROVE AdminInv'
      BY <2>1
    <2> DEFINE h == [st |-> "checked", user |-> adm[x].user, role |-> adm[x].role]
    <2>2. /\ adm[x].st = "locked" /\ adm[x].user \in Users /\ adm[x].role \in Roles
          /\ adm' = [adm EXCEPT ![x] = h]
          /\ UNCHANGED <<tenant, users>>
      BY <1>8, HandlerStage DEF CheckAdmins, To, AdminInv, AdminTypeOK
    <2>3. /\ h \in Handler /\ h.st = "checked"
          /\ h.user = adm[x].user /\ h.role = adm[x].role
      BY <2>2 DEF Handler
    <2>4. tenant
      BY <2>2 DEF AdminInv, FoundTenant
    <2>5. h.role # "admin" => \E v \in Users : users[v] = "admin" /\ v # h.user
      <3>1. CASE users[adm[x].user] = "admin"
        BY <2>2, <2>3, <3>1, AnotherAdmin DEF Refused
      <3>2. CASE users[adm[x].user] # "admin"
        BY <2>3, <2>4, <3>2 DEF AdminInv, AdminRemains, Admins
      <3> QED BY <3>1, <3>2
    <2> HIDE DEF h
    <2>6. AdminTypeOK' /\ FoundTenant' /\ AdminRemains'
      BY <2>2, <2>3, <2>4 DEF AdminInv, AdminTypeOK, FoundTenant, AdminRemains, Admins
    <2>7. OneLock'
      BY <2>2, <2>3 DEF AdminInv, AdminTypeOK, OneLock
    <2>8. CheckedSafe'
      BY <2>2, <2>3, <2>5 DEF AdminInv, AdminTypeOK, CheckedSafe
    <2> QED BY <2>6, <2>7, <2>8 DEF AdminInv
  <1>9. CASE RoleCommit(x)
    <2> DEFINE u == adm[x].user
               r == adm[x].role
    <2>1. adm[x].st = "checked" /\ u \in Users /\ r \in Roles
      BY <1>9, HandlerStage DEF RoleCommit, AdminInv
    <2>2. /\ tenant' = tenant
          /\ adm' = [adm EXCEPT ![x] = AdminIdle]
          /\ users' = [users EXCEPT ![u] = r]
      BY <1>9 DEF RoleCommit, AdminEnds
    <2>3. AdminTypeOK'
      BY <2>1, <2>2, <1>idle DEF AdminInv, AdminTypeOK
    <2>4. \A y \in Requests : adm'[y].st \notin {"locked", "checked"}
      BY <2>1, <2>2, <1>idle DEF AdminInv, AdminTypeOK, OneLock
    <2>5. FoundTenant'
      BY <2>2, <1>idle DEF AdminInv, AdminTypeOK, FoundTenant
    <2>6. AdminRemains'
      <3>1. PICK v \in Users : users'[v] = "admin"
        BY <2>1, <2>2 DEF AdminInv, AdminTypeOK, CheckedSafe, Roles
      <3> QED BY <3>1 DEF AdminRemains, Admins
    <2> QED BY <2>3, <2>4, <2>5, <2>6 DEF AdminInv, OneLock, CheckedSafe
  <1> QED
    BY <1>2, <1>3, <1>4, <1>5, <1>6, <1>7, <1>8, <1>9 DEF AdminGoesOn

-----------------------------------------------------------------------------
LEMMA AdminInvariant == AdminSpec => []AdminInv
  BY AdminInitInv, AdminNextInv, PTL DEF AdminSpec

\* What the other parts do is nothing to the tenant: Accounts implements TenantAdmin.
THEOREM AdministrationAlone == Spec => AdminSpec
  <1>1. Init => AdminInit
    BY DEF Init
  <1>2. [Next]_vars => [AdminNext]_adminVars
    BY DEF Next, vars, adminVars, administration, Administer, LogIn, Welcome, UseSession, Tick,
           AdminNext
  <1> QED BY <1>1, <1>2, PTL DEF Spec, AdminSpec

\* operations.py:99: however many requests register, create users, change roles and sign in
\* at once, a tenant that was registered keeps an administrator.
THEOREM AdministratorRemains == Spec => []AdminRemains
  <1>1. AdminInv => AdminRemains
    BY DEF AdminInv
  <1> QED BY <1>1, AdminInvariant, AdministrationAlone, PTL

-----------------------------------------------------------------------------
(* The sign-in budget *)

\* A counter is as old as the ticks it has lost, and an account without one is not locked.
AgeInv ==
    \A u \in Users : \/ budget[u] = NoKey /\ age[u] = 0
                     \/ /\ budget[u].n >= 1 /\ budget[u].left >= 1
                        /\ age[u] + budget[u].left = Window

GuardInv == GuardTypeOK /\ AgeInv

LEMMA AttemptStage ==
    ASSUME GuardTypeOK, NEW x \in Requests, att[x] # NoAttempt
    PROVE  /\ att[x].user \in Users
           /\ \A s \in {"reserved", "right", "wrong", "welcome"} :
                 [att EXCEPT ![x].st = s] \in [Requests -> Attempt]
  <1>1. att[x] \in [st : {"reserved", "right", "wrong", "welcome"}, user : Users]
    BY DEF GuardTypeOK, Attempt
  <1>2. ASSUME NEW s \in {"reserved", "right", "wrong", "welcome"}
        PROVE  [att EXCEPT ![x].st = s] \in [Requests -> Attempt]
    <2>1. [att[x] EXCEPT !.st = s] \in Attempt
      BY <1>1 DEF Attempt
    <2> QED BY <2>1 DEF GuardTypeOK
  <1> QED BY <1>1, <1>2

\* One account's counter is counted up or deleted.
LEMMA CounterInv ==
    ASSUME GuardInv, NEW u \in Users,
           NEW k \in [n : 0..(Threshold + 1), left : 0..Window], NEW a \in Nat,
           budget' = [budget EXCEPT ![u] = k], age' = [age EXCEPT ![u] = a],
           att' \in [Requests -> Attempt],
           \/ k = NoKey /\ a = 0
           \/ k.n >= 1 /\ k.left >= 1 /\ a + k.left = Window
    PROVE  GuardInv'
  BY DEF GuardInv, GuardTypeOK, AgeInv

LEMMA GuardInitInv ==
    ASSUME GuardInit
    PROVE  GuardInv
  <1>1. NoKey \in [n : 0..(Threshold + 1), left : 0..Window] /\ NoAttempt \in Attempt
    BY AccountsAssumption DEF NoKey, Attempt
  <1> QED BY <1>1 DEF GuardInit, GuardInv, GuardTypeOK, AgeInv

LEMMA ReserveInv ==
    ASSUME GuardInv, NEW x \in Requests, NEW u \in Users, Reserve(x, u)
    PROVE  GuardInv'
  <1> DEFINE k == Counted(budget[u])
  <1>1. /\ budget' = [budget EXCEPT ![u] = k] /\ age' = [age EXCEPT ![u] = age[u]]
        /\ att' \in {att, [att EXCEPT ![x] = [st |-> "reserved", user |-> u]]}
    BY DEF Reserve, GuardInv, GuardTypeOK
  <1>2. att' \in [Requests -> Attempt]
    BY <1>1 DEF GuardInv, GuardTypeOK, Attempt
  <1>3. /\ budget[u].n \in 0..(Threshold + 1) /\ budget[u].left \in 0..Window
        /\ age[u] \in Nat
    BY DEF GuardInv, GuardTypeOK
  <1> DEFINE n == IF budget[u].n > Threshold THEN budget[u].n ELSE budget[u].n + 1
             left == Span(budget[u])
  <1>4. n \in 1..(Threshold + 1)
    BY <1>3, AccountsAssumption
  <1>5. left \in 1..Window /\ age[u] + left = Window
    BY <1>3, AccountsAssumption DEF Span, GuardInv, AgeInv, NoKey
  <1>6. k = [n |-> n, left |-> left]
    BY DEF Counted
  <1> HIDE DEF n, left, k
  <1>7. k \in [n : 0..(Threshold + 1), left : 0..Window] /\ k.n >= 1 /\ k.left >= 1
        /\ age[u] + k.left = Window
    BY <1>4, <1>5, <1>6, AccountsAssumption
  <1> QED BY <1>1, <1>2, <1>3, <1>7, CounterInv

LEMMA GuardTickInv ==
    ASSUME GuardInv, GuardTick, UNCHANGED att
    PROVE  GuardInv'
  <1> SUFFICES ASSUME NEW u \in Users
               PROVE  /\ budget'[u] \in [n : 0..(Threshold + 1), left : 0..Window]
                      /\ age'[u] \in Nat
                      /\ \/ budget'[u] = NoKey /\ age'[u] = 0
                         \/ /\ budget'[u].n >= 1 /\ budget'[u].left >= 1
                            /\ age'[u] + budget'[u].left = Window
    <2>1. /\ budget' = [u \in Users |-> budget'[u]]
          /\ age' = [u \in Users |-> age'[u]]
      BY DEF GuardTick
    <2> QED BY <2>1 DEF GuardInv, GuardTypeOK, AgeInv
  <1>1. /\ budget'[u] = Aged(budget[u])
        /\ age'[u] = IF budget'[u] = NoKey THEN 0 ELSE age[u] + 1
    BY DEF GuardTick
  <1>2. NoKey \in [n : 0..(Threshold + 1), left : 0..Window] /\ NoKey.n = 0
    BY AccountsAssumption DEF NoKey
  <1>3. /\ budget[u] \in [n : 0..(Threshold + 1), left : 0..Window] /\ age[u] \in Nat
    BY DEF GuardInv, GuardTypeOK
  <1>4. CASE budget[u].left <= 1
    BY <1>1, <1>2, <1>4 DEF Aged
  <1>5. CASE ~(budget[u].left <= 1)
    <2> DEFINE n == budget[u].left - 1
    <2>1. n \in 1..Window
      BY <1>3, <1>5, AccountsAssumption
    <2>2. budget[u].n >= 1 /\ age[u] + budget[u].left = Window
      BY <1>5 DEF GuardInv, AgeInv, NoKey
    <2>3. budget'[u] = [budget[u] EXCEPT !.left = n]
      BY <1>1, <1>5 DEF Aged
    <2>4. age[u] + 1 + n = Window
      BY <1>3, <2>2
    <2> HIDE DEF n
    <2>5. budget'[u].n = budget[u].n /\ budget'[u].left = n
      BY <1>3, <2>3
    <2>6. budget'[u] # NoKey
      BY <1>2, <2>2, <2>5, <1>3
    <2>7. age'[u] = age[u] + 1
      BY <1>1, <2>6
    <2> QED BY <1>3, <2>1, <2>2, <2>3, <2>4, <2>5, <2>7, AccountsAssumption
  <1> QED BY <1>4, <1>5

LEMMA GuardNextInv ==
    ASSUME GuardInv, [Next]_vars
    PROVE  GuardInv'
  <1>1. CASE UNCHANGED signIn
    BY <1>1 DEF signIn, GuardInv, GuardTypeOK, AgeInv
  <1>2. ASSUME NEW x \in Requests, AttemptEnds(x)
        PROVE  GuardInv'
    BY <1>2 DEF AttemptEnds, GuardInv, GuardTypeOK, AgeInv, Attempt
  <1>3. ASSUME NEW x \in Requests, NEW right \in BOOLEAN, Authenticate(x, right)
        PROVE  GuardInv'
    <2>1. att[x] # NoAttempt
      BY <1>3 DEF Authenticate, NoAttempt
    <2>2. att' \in [Requests -> Attempt]
      BY <1>3, <2>1, AttemptStage DEF Authenticate, GuardInv
    <2> QED BY <1>3, <2>2 DEF Authenticate, GuardInv, GuardTypeOK, AgeInv
  <1>4. ASSUME NEW x \in Requests, FinishSuccess(x)
        PROVE  GuardInv'
    <2>1. att[x] # NoAttempt
      BY <1>4 DEF FinishSuccess, NoAttempt
    <2>2. /\ att[x].user \in Users /\ att' \in [Requests -> Attempt]
          /\ budget' = [budget EXCEPT ![att[x].user] = NoKey]
          /\ age' = [age EXCEPT ![att[x].user] = 0]
      BY <1>4, <2>1, AttemptStage DEF FinishSuccess, GuardInv
    <2>3. NoKey \in [n : 0..(Threshold + 1), left : 0..Window]
      BY AccountsAssumption DEF NoKey
    <2> QED BY <2>2, <2>3, CounterInv
  <1>5. CASE Tick
    BY <1>5, GuardTickInv DEF Tick
  <1> QED
    BY <1>1, <1>2, <1>3, <1>4, <1>5, ReserveInv
       DEF Next, Administer, LogIn, Welcome, UseSession, vars, signIn

LEMMA GuardInvariant == Spec => []GuardInv
  <1>1. Init => GuardInv
    BY GuardInitInv DEF Init
  <1> QED BY <1>1, GuardNextInv, PTL DEF Spec

\* login_guard.py:31, for every threshold and window: no account is locked for longer than
\* a window, however its attempts, successes and failures are interleaved.
THEOREM LockoutIsBounded == Spec => []LockoutEnds
  <1>1. GuardInv => LockoutEnds
    BY AccountsAssumption DEF GuardInv, GuardTypeOK, AgeInv, LockoutEnds
  <1> QED BY <1>1, GuardInvariant, PTL

-----------------------------------------------------------------------------
(* Browser sessions *)

Record == [family : Families, revoked : BOOLEAN, left : 0..Life]
N == Len(records)
Fam(i) == records[i].family

\* A handler knows a record that exists and, when it closes a family, its records.
HeldRows ==
    \A x \in Requests :
        ses[x].st # "idle" =>
            /\ ses[x].row \in 1..N
            /\ ses[x].st \in {"reused", "revoking"} => ses[x].rows \subseteq Rows(Fam(ses[x].row))

\* The record that is being replaced is locked: nobody has revoked it meanwhile.
LockedUnrevoked ==
    \A x \in Requests : ses[x].st = "rotating" => ~records[ses[x].row].revoked
LocksApart ==
    \A x, y \in Requests :
        ses[x].st = "rotating" /\ ses[y].st = "rotating" /\ ses[x].row = ses[y].row => x = y

\* A record lives as long as its family;
SameSpan == \A i \in 1..N : records[i].left = life[Fam(i)]

\* one of a family's records has not been revoked, unless the family was closed,
Single ==
    \A i, j \in 1..N : Fam(i) = Fam(j) /\ ~records[i].revoked /\ ~records[j].revoked => i = j
OpenHasOne ==
    \A i \in 1..N : Fam(i) \notin closed => \E j \in 1..N : Fam(j) = Fam(i) /\ ~records[j].revoked

\* and then none, unless the closing missed it.
ClosedIssued == \A f \in closed : \E i \in 1..N : Fam(i) = f
ClosedRevoked == \A i \in 1..N : Fam(i) \in closed \ missed => records[i].revoked

SessionInv ==
    /\ SessionTypeOK /\ HeldRows /\ LockedUnrevoked /\ LocksApart /\ SameSpan /\ Single
    /\ OpenHasOne /\ ClosedIssued /\ ClosedRevoked

-----------------------------------------------------------------------------
\* A function on an interval from 1 is a sequence.
LEMMA MapIsSeq ==
    ASSUME NEW S, NEW n \in Nat, NEW f \in [1..n -> S]
    PROVE  f \in Seq(S) /\ Len(f) = n
  OBVIOUS

LEMMA RowFacts ==
    ASSUME SessionTypeOK
    PROVE  /\ N \in Nat /\ records \in [1..N -> Record]
           /\ \A i \in 1..N : records[i] \in Record
  <1>1. records \in Seq(Record)
    BY DEF SessionTypeOK, Record
  <1> QED BY <1>1, LenProperties DEF N

LEMMA SesStage ==
    ASSUME SessionTypeOK, NEW x \in Requests
    PROVE  /\ ses[x] = SesIdle <=> ses[x].st = "idle"
           /\ ses[x].st # "idle" => /\ ses[x].st \in {"rotating", "reused", "revoking"}
                                    /\ ses[x].row \in Indices
           /\ ses[x].st \in {"reused", "revoking"} => ses[x].rows \in SUBSET Indices
  <1>1. ses[x] \in Ses
    BY DEF SessionTypeOK
  <1> QED BY <1>1 DEF Ses, SesIdle

LEMMA SessionInitInv ==
    ASSUME SessionInit
    PROVE  SessionInv
  <1>1. N = 0 /\ records \in Seq(Record)
    BY EmptySeq DEF SessionInit, N
  <1>2. SesIdle \in Ses /\ SesIdle.st = "idle"
    BY DEF Ses, SesIdle
  <1>3. SessionTypeOK
    BY <1>1, <1>2, AccountsAssumption DEF SessionInit, SessionTypeOK, Record, N
  <1> QED
    BY <1>1, <1>2, <1>3 DEF SessionInit, SessionInv, HeldRows, LockedUnrevoked, LocksApart,
       SameSpan, Single, OpenHasOne, ClosedIssued, ClosedRevoked

\* A handler begins or ends and no record changes.
LEMMA HandlerInv ==
    ASSUME SessionInv, NEW x \in Requests, NEW s \in Ses,
           ses' = [ses EXCEPT ![x] = s], UNCHANGED <<records, life, closed, missed>>,
           s.st # "idle" =>
              /\ s.row \in 1..N
              /\ s.st \in {"reused", "revoking"} => s.rows \subseteq Rows(Fam(s.row)),
           s.st = "rotating" =>
              /\ ~records[s.row].revoked
              /\ \A y \in Requests \ {x} : ses[y].st = "rotating" => ses[y].row # s.row
    PROVE  SessionInv'
  <1>1. N' = N /\ \A i \in 1..N : Fam(i)' = Fam(i)
    BY DEF N, Fam
  <1>2. ses' \in [Requests -> Ses] /\ ses'[x] = s /\ \A y \in Requests \ {x} : ses'[y] = ses[y]
    BY DEF SessionInv, SessionTypeOK
  <1>3. SessionTypeOK'
    BY <1>2 DEF SessionInv, SessionTypeOK
  <1>4. HeldRows'
    BY <1>1, <1>2 DEF SessionInv, HeldRows, Rows, Fam
  <1>5. LockedUnrevoked' /\ LocksApart'
    BY <1>2 DEF SessionInv, LockedUnrevoked, LocksApart
  <1>6. SameSpan' /\ Single' /\ OpenHasOne' /\ ClosedIssued' /\ ClosedRevoked'
    BY DEF SessionInv, SameSpan, Single, OpenHasOne, ClosedIssued, ClosedRevoked, N, Fam
  <1> QED BY <1>3, <1>4, <1>5, <1>6 DEF SessionInv

LEMMA IssueInv ==
    ASSUME SessionInv, NEW f \in Families, Issue(f)
    PROVE  SessionInv'
  <1> DEFINE new == [family |-> f, revoked |-> FALSE, left |-> Life]
  <1>0. PICK n \in Nat : n = N
    BY RowFacts DEF SessionInv
  <1>1. /\ \A i \in 1..n : Fam(i) # f
        /\ records' = Append(records, new) /\ N < MaxRecords
        /\ life' = [life EXCEPT ![f] = Life]
        /\ UNCHANGED <<ses, closed, missed>>
    BY <1>0 DEF Issue, Issued, N, Fam
  <1>2. new \in Record /\ new.family = f /\ ~new.revoked /\ new.left = Life
    BY AccountsAssumption DEF Record
  <1> HIDE DEF new
  <1>3. N \in Nat /\ records \in Seq(Record) /\ \A i \in 1..n : records[i] \in Record
    BY <1>0, RowFacts DEF SessionInv, SessionTypeOK, Record
  <1>4. /\ records' \in Seq(Record) /\ N' = n + 1 /\ records'[n + 1] = new
        /\ \A i \in 1..n : records'[i] = records[i]
    BY <1>0, <1>1, <1>2, <1>3, AppendProperties DEF N
  <1>5. /\ \A i \in 1..n : Fam(i)' = Fam(i)
        /\ Fam(n + 1)' = f /\ f \notin closed
        /\ \A i \in 1..n : life'[Fam(i)] = life[Fam(i)]
        /\ life'[f] = Life
    <2>1. \A i \in 1..n : Fam(i)' = Fam(i) /\ Fam(i) \in Families
      BY <1>0, <1>3, <1>4 DEF Fam, Record
    <2>2. Fam(n + 1)' = f
      BY <1>0, <1>2, <1>4 DEF Fam
    <2>3. f \notin closed
      BY <1>0, <1>1 DEF SessionInv, ClosedIssued
    <2> QED BY <1>0, <1>1, <2>1, <2>2, <2>3 DEF SessionInv, SessionTypeOK
  <1>6. \A i \in 1..(n + 1) : i \in 1..n \/ i = n + 1
    BY <1>0, <1>3
  <1>7. 1..n \subseteq 1..(n + 1) /\ n + 1 \in 1..(n + 1)
    BY <1>0, <1>3
  <1>8. SessionTypeOK'
    <2>1. life' \in [Families -> 0..Life]
      BY <1>0, <1>1, AccountsAssumption DEF SessionInv, SessionTypeOK
    <2>2. Len(records') <= MaxRecords
      BY <1>0, <1>1, <1>3, <1>4, AccountsAssumption DEF N
    <2> QED BY <1>0, <1>1, <1>4, <2>1, <2>2 DEF SessionInv, SessionTypeOK, Record
  <1>9. HeldRows'
    BY <1>0, <1>1, <1>4, <1>5, <1>7 DEF SessionInv, HeldRows, Rows, Fam, N
  <1>10. LockedUnrevoked' /\ LocksApart'
    BY <1>0, <1>1, <1>4 DEF SessionInv, HeldRows, LockedUnrevoked, LocksApart
  <1>11. SameSpan'
    <2> SUFFICES ASSUME NEW i \in 1..(n + 1)
                 PROVE  records'[i].left = life'[Fam(i)']
      BY <1>0, <1>4 DEF SameSpan
    <2>1. CASE i = n + 1
      BY <1>0, <1>2, <1>4, <1>5, <2>1
    <2>2. CASE i \in 1..n
      BY <1>0, <1>4, <1>5, <2>2 DEF SessionInv, SameSpan
    <2> QED BY <1>0, <1>6, <2>1, <2>2
  <1>12. Single'
    <2> SUFFICES ASSUME NEW i \in 1..(n + 1), NEW j \in 1..(n + 1), Fam(i)' = Fam(j)',
                        ~records'[i].revoked, ~records'[j].revoked
                 PROVE  i = j
      BY <1>0, <1>4 DEF Single
    <2>1. CASE i \in 1..n /\ j \in 1..n
      BY <1>0, <1>4, <1>5, <2>1 DEF SessionInv, Single
    <2>2. CASE i = n + 1 /\ j \in 1..n
      BY <1>0, <1>1, <1>5, <2>2
    <2>3. CASE i \in 1..n /\ j = n + 1
      BY <1>0, <1>1, <1>5, <2>3
    <2> QED BY <1>0, <1>6, <2>1, <2>2, <2>3
  <1>13. OpenHasOne'
    <2> SUFFICES ASSUME NEW i \in 1..(n + 1), Fam(i)' \notin closed
                 PROVE  \E j \in 1..(n + 1) : Fam(j)' = Fam(i)' /\ ~records'[j].revoked
      BY <1>0, <1>1, <1>4 DEF OpenHasOne
    <2>1. CASE i = n + 1
      BY <1>0, <1>2, <1>4, <1>7, <2>1
    <2>2. CASE i \in 1..n
      <3>1. PICK j \in 1..n : Fam(j) = Fam(i) /\ ~records[j].revoked
        BY <1>0, <1>5, <2>2 DEF SessionInv, OpenHasOne
      <3> QED BY <1>0, <1>4, <1>5, <1>7, <2>2, <3>1
    <2> QED BY <1>0, <1>6, <2>1, <2>2
  <1>14. ClosedIssued'
    BY <1>0, <1>1, <1>4, <1>5, <1>7 DEF SessionInv, ClosedIssued
  <1>15. ClosedRevoked'
    <2> SUFFICES ASSUME NEW i \in 1..(n + 1), Fam(i)' \in closed \ missed
                 PROVE  records'[i].revoked
      BY <1>0, <1>1, <1>4 DEF ClosedRevoked
    <2>1. i \in 1..n
      BY <1>0, <1>5, <1>6
    <2> QED BY <1>0, <1>4, <1>5, <2>1 DEF SessionInv, ClosedRevoked
  <1> QED
    BY <1>0, <1>8, <1>9, <1>10, <1>11, <1>12, <1>13, <1>14, <1>15 DEF SessionInv

LEMMA RotateInv ==
    ASSUME SessionInv, NEW x \in Requests, NEW i \in 1..N, Rotate(x, i)
    PROVE  SessionInv'
  <1>1. N \in Nat /\ N <= MaxRecords /\ i \in Indices /\ Rows(Fam(i)) \in SUBSET Indices
    BY RowFacts, AccountsAssumption DEF SessionInv, SessionTypeOK, N, Indices, Rows
  <1>2. /\ i \notin LockedRows(x) /\ UNCHANGED <<records, life, closed, missed>>
        /\ ses' = [ses EXCEPT ![x] = IF Reused(i)
                                     THEN [st |-> "reused", row |-> i, rows |-> Rows(Fam(i))]
                                     ELSE [st |-> "rotating", row |-> i]]
    BY DEF Rotate, Fam
  <1>3. CASE Reused(i)
    <2> DEFINE s == [st |-> "reused", row |-> i, rows |-> Rows(Fam(i))]
    <2>1. s \in Ses /\ s.st = "reused" /\ s.row = i /\ s.rows = Rows(Fam(i))
      BY <1>1 DEF Ses
    <2>2. ses' = [ses EXCEPT ![x] = s]
      BY <1>2, <1>3
    <2> HIDE DEF s
    <2> QED BY <1>2, <2>1, <2>2, HandlerInv
  <1>4. CASE ~Reused(i)
    <2> DEFINE s == [st |-> "rotating", row |-> i]
    <2>1. s \in Ses /\ s.st = "rotating" /\ s.row = i
      BY <1>1 DEF Ses
    <2>2. ses' = [ses EXCEPT ![x] = s]
      BY <1>2, <1>4
    <2>3. \A y \in Requests \ {x} : ses[y].st = "rotating" => ses[y].row # i
      BY <1>2 DEF LockedRows
    <2>4. ~records[i].revoked
      BY <1>4 DEF Reused
    <2> HIDE DEF s
    <2> QED BY <1>2, <2>1, <2>2, <2>3, <2>4, HandlerInv
  <1> QED BY <1>3, <1>4

LEMMA RevokeInv ==
    ASSUME SessionInv, NEW x \in Requests, NEW i \in 1..N, Revoke(x, i)
    PROVE  SessionInv'
  <1> DEFINE s == [st |-> "revoking", row |-> i, rows |-> Rows(Fam(i))]
  <1>1. i \in Indices /\ Rows(Fam(i)) \in SUBSET Indices
    BY RowFacts, AccountsAssumption DEF SessionInv, SessionTypeOK, N, Indices, Rows
  <1>2. s \in Ses /\ s.st = "revoking" /\ s.row = i /\ s.rows = Rows(Fam(i))
    BY <1>1 DEF Ses
  <1>3. ses' = [ses EXCEPT ![x] = s] /\ UNCHANGED <<records, life, closed, missed>>
    BY DEF Revoke, Fam
  <1> HIDE DEF s
  <1> QED BY <1>2, <1>3, HandlerInv

LEMMA SessionFailsInv ==
    ASSUME SessionInv, NEW x \in Requests, SessionFails(x)
    PROVE  SessionInv'
  <1>1. SesIdle \in Ses /\ SesIdle.st = "idle"
    BY DEF Ses, SesIdle
  <1> QED BY <1>1, HandlerInv DEF SessionFails, SessionEnds

LEMMA SessionTickInv ==
    ASSUME SessionInv, SessionTick
    PROVE  SessionInv'
  <1> DEFINE Less(n) == IF n = 0 THEN 0 ELSE n - 1
  <1>1. /\ records' = [i \in 1..N |-> [records[i] EXCEPT !.left = Less(@)]]
        /\ life' = [f \in Families |-> Less(life[f])]
        /\ UNCHANGED <<ses, closed, missed>>
    BY DEF SessionTick, N
  <1>2. N \in Nat /\ N <= MaxRecords /\ \A i \in 1..N : records[i] \in Record
    BY RowFacts DEF SessionInv, SessionTypeOK, N
  <1>3. \A n \in 0..Life : Less(n) \in 0..Life
    BY AccountsAssumption
  <1> HIDE DEF Less
  <1>4. ASSUME NEW i \in 1..N
        PROVE  /\ records'[i] \in Record
               /\ records'[i].family = Fam(i) /\ records'[i].revoked = records[i].revoked
               /\ records'[i].left = Less(records[i].left)
    <2>1. records'[i] = [records[i] EXCEPT !.left = Less(records[i].left)] /\ records[i] \in Record
      BY <1>1, <1>2
    <2>2. Less(records[i].left) \in 0..Life
      BY <1>3, <2>1 DEF Record
    <2> QED BY <2>1, <2>2 DEF Record, Fam
  <1>5. records' \in Seq(Record) /\ N' = N
    <2>1. records' \in [1..N -> Record]
      BY <1>1, <1>4
    <2> QED BY <1>2, <2>1, MapIsSeq DEF N
  <1>6. \A i \in 1..N : Fam(i)' = Fam(i) /\ Fam(i) \in Families
    BY <1>2, <1>4 DEF Fam, Record
  <1>7. SessionTypeOK'
    <2>1. life' \in [Families -> 0..Life]
      BY <1>1, <1>3 DEF SessionInv, SessionTypeOK
    <2> QED BY <1>1, <1>2, <1>5, <2>1 DEF SessionInv, SessionTypeOK, Record, N
  <1>8. HeldRows'
    BY <1>1, <1>5, <1>6 DEF SessionInv, HeldRows, Rows, Fam, N
  <1>9. LockedUnrevoked' /\ LocksApart'
    BY <1>1, <1>4 DEF SessionInv, HeldRows, LockedUnrevoked, LocksApart
  <1>10. SameSpan'
    BY <1>1, <1>4, <1>5, <1>6 DEF SessionInv, SameSpan
  <1>11. Single' /\ OpenHasOne' /\ ClosedIssued' /\ ClosedRevoked'
    BY <1>1, <1>4, <1>5, <1>6
       DEF SessionInv, Single, OpenHasOne, ClosedIssued, ClosedRevoked
  <1> QED BY <1>7, <1>8, <1>9, <1>10, <1>11 DEF SessionInv

\* One record for another: i is the only one of its family that is not revoked, and the
\* new one takes its place.
LEMMA RotateCommitInv ==
    ASSUME SessionInv, NEW x \in Requests, RotateCommit(x)
    PROVE  SessionInv'
  <1>0. PICK n \in Nat : n = N
    BY RowFacts DEF SessionInv
  <1>1. PICK i \in 1..n : ses[x].st = "rotating" /\ i = ses[x].row
    BY <1>0 DEF RotateCommit, SessionInv, HeldRows
  <1> DEFINE new == [family |-> Fam(i), revoked |-> FALSE, left |-> records[i].left]
             old == [records[i] EXCEPT !.revoked = TRUE]
  <1>2. /\ records' = Append([records EXCEPT ![i] = old], new) /\ n < MaxRecords
        /\ ses' = [ses EXCEPT ![x] = SesIdle]
        /\ UNCHANGED <<life, closed, missed>>
    BY <1>0, <1>1 DEF RotateCommit, SessionEnds, SpanOf, Fam, N
  <1>3. records \in Seq(Record) /\ \A j \in 1..n : records[j] \in Record
    BY <1>0, RowFacts DEF SessionInv, SessionTypeOK, Record
  <1>4. /\ new \in Record /\ new.family = Fam(i) /\ ~new.revoked /\ new.left = records[i].left
        /\ old \in Record /\ old.family = Fam(i) /\ old.revoked /\ old.left = records[i].left
    BY <1>3 DEF Record, Fam
  <1> HIDE DEF new, old
  <1>5. /\ records' \in Seq(Record) /\ N' = n + 1 /\ records'[n + 1] = new
        /\ records'[i] = old
        /\ \A j \in 1..n : j # i => records'[j] = records[j]
    <2> DEFINE base == [records EXCEPT ![i] = old]
    <2>1. base \in Seq(Record) /\ Len(base) = n
          /\ \A j \in 1..n : base[j] = IF j = i THEN old ELSE records[j]
      BY <1>0, <1>3, <1>4, ExceptSeq DEF N
    <2>2. records' = Append(base, new)
      BY <1>2
    <2> HIDE DEF base
    <2> QED BY <1>4, <2>1, <2>2, AppendProperties DEF N
  <1>6. /\ \A j \in 1..n : Fam(j)' = Fam(j) /\ Fam(j) \in Families
        /\ Fam(n + 1)' = Fam(i)
    BY <1>3, <1>4, <1>5 DEF Fam, Record
  <1>7. /\ \A j \in 1..(n + 1) : j \in 1..n \/ j = n + 1
        /\ 1..n \subseteq 1..(n + 1) /\ n + 1 \in 1..(n + 1)
    OBVIOUS
  <1>8. SesIdle \in Ses /\ SesIdle.st = "idle"
    BY DEF Ses, SesIdle
  <1>9. ses'[x] = SesIdle /\ \A y \in Requests \ {x} : ses'[y] = ses[y]
    BY <1>2 DEF SessionInv, SessionTypeOK
  <1>10. ~records[i].revoked
    BY <1>1 DEF SessionInv, LockedUnrevoked
  <1>11. SessionTypeOK'
    <2>1. Len(records') <= MaxRecords
      BY <1>2, <1>5, AccountsAssumption DEF N
    <2> QED BY <1>2, <1>5, <1>8, <2>1 DEF SessionInv, SessionTypeOK, Record
  <1>12. HeldRows'
    <2> SUFFICES ASSUME NEW y \in Requests, y # x, ses[y].st # "idle"
                 PROVE  /\ ses[y].row \in 1..(n + 1)
                        /\ ses[y].st \in {"reused", "revoking"} =>
                              \A j \in ses[y].rows :
                                  j \in 1..(n + 1) /\ Fam(j)' = Fam(ses[y].row)'
      BY <1>5, <1>8, <1>9 DEF HeldRows, Rows, Fam, N
    <2>1. PICK k \in 1..n : k = ses[y].row
      BY <1>0 DEF SessionInv, HeldRows
    <2>2. ses[y].st \in {"reused", "revoking"} =>
              \A j \in ses[y].rows : j \in 1..n /\ Fam(j) = Fam(k)
      BY <1>0, <2>1 DEF SessionInv, HeldRows, Rows, Fam, N
    <2>3. ses'[y] = ses[y] /\ Fam(ses[y].row)' = Fam(k)'
      BY <1>9, <2>1
    <2> QED BY <1>6, <1>7, <2>1, <2>2, <2>3
  <1>13. LockedUnrevoked' /\ LocksApart'
    <2>1. \A y \in Requests : ses'[y].st = "rotating" =>
             /\ y # x /\ ses'[y] = ses[y] /\ ses[y].row # i /\ ses[y].row \in 1..n
      BY <1>0, <1>1, <1>8, <1>9 DEF SessionInv, LocksApart, HeldRows
    <2> QED BY <1>5, <2>1 DEF SessionInv, LockedUnrevoked, LocksApart
  <1>14. SameSpan'
    <2> SUFFICES ASSUME NEW j \in 1..(n + 1)
                 PROVE  records'[j].left = life[Fam(j)']
      BY <1>2, <1>5 DEF SameSpan
    <2>1. \A k \in 1..n : records[k].left = life[Fam(k)]
      BY <1>0 DEF SessionInv, SameSpan
    <2> QED BY <1>4, <1>5, <1>6, <1>7, <2>1
  <1>15. Single'
    <2> SUFFICES ASSUME NEW j \in 1..(n + 1), NEW k \in 1..(n + 1), Fam(j)' = Fam(k)',
                        ~records'[j].revoked, ~records'[k].revoked
                 PROVE  j = k
      BY <1>5 DEF Single
    <2>1. \A l \in 1..n : Fam(l) = Fam(i) /\ ~records[l].revoked => l = i
      BY <1>0, <1>10 DEF SessionInv, Single
    <2>2. j # i /\ k # i
      BY <1>4, <1>5
    <2>3. CASE j \in 1..n /\ k \in 1..n
      BY <1>0, <1>5, <1>6, <2>2, <2>3 DEF SessionInv, Single
    <2>4. CASE j = n + 1 /\ k \in 1..n
      BY <1>5, <1>6, <2>1, <2>2, <2>4
    <2>5. CASE j \in 1..n /\ k = n + 1
      BY <1>5, <1>6, <2>1, <2>2, <2>5
    <2> QED BY <1>7, <2>3, <2>4, <2>5
  <1>16. OpenHasOne'
    <2> SUFFICES ASSUME NEW j \in 1..(n + 1), Fam(j)' \notin closed
                 PROVE  \E k \in 1..(n + 1) : Fam(k)' = Fam(j)' /\ ~records'[k].revoked
      BY <1>2, <1>5 DEF OpenHasOne
    <2>1. CASE Fam(j)' = Fam(i)
      BY <1>4, <1>5, <1>6, <1>7, <2>1
    <2>2. CASE Fam(j)' # Fam(i)
      <3>1. j \in 1..n /\ Fam(j) = Fam(j)'
        BY <1>6, <1>7, <2>2
      <3>2. PICK k \in 1..n : Fam(k) = Fam(j) /\ ~records[k].revoked
        BY <1>0, <3>1 DEF SessionInv, OpenHasOne
      <3>3. k # i
        BY <2>2, <3>1, <3>2
      <3> QED BY <1>5, <1>6, <1>7, <3>1, <3>2, <3>3
    <2> QED BY <2>1, <2>2
  <1>17. ClosedIssued'
    <2>1. \A f \in closed : \E j \in 1..n : Fam(j) = f
      BY <1>0 DEF SessionInv, ClosedIssued
    <2> QED BY <1>2, <1>5, <1>6, <1>7, <2>1 DEF ClosedIssued
  <1>18. ClosedRevoked'
    <2> SUFFICES ASSUME NEW j \in 1..(n + 1), Fam(j)' \in closed \ missed
                 PROVE  records'[j].revoked
      BY <1>2, <1>5 DEF ClosedRevoked
    <2>1. \A k \in 1..n : Fam(k) \in closed \ missed => records[k].revoked
      BY <1>0 DEF SessionInv, ClosedRevoked
    <2>2. Fam(i) \notin closed \ missed
      BY <1>10, <2>1
    <2>3. j \in 1..n /\ j # i
      BY <1>6, <1>7, <2>2
    <2> QED BY <1>5, <1>6, <2>1, <2>3
  <1> QED
    BY <1>11, <1>12, <1>13, <1>14, <1>15, <1>16, <1>17, <1>18 DEF SessionInv

\* The records of one family are revoked, and none that is being replaced; what the UPDATE
\* did not see is noted.
LEMMA RevokeCommitInv ==
    ASSUME SessionInv, NEW x \in Requests, RevokeCommit(x)
    PROVE  SessionInv'
  <1>0. PICK n \in Nat : n = N
    BY RowFacts DEF SessionInv
  <1> DEFINE closing == ses[x].rows
  <1>1. PICK c \in 1..n, rows \in SUBSET (1..n) :
            /\ ses[x].st \in {"reused", "revoking"} /\ c = ses[x].row /\ rows = ses[x].rows
            /\ \A j \in rows : Fam(j) = Fam(c)
    <2>1. ses[x].row \in 1..n /\ ses[x].rows \subseteq Rows(Fam(ses[x].row))
      BY <1>0 DEF RevokeCommit, SessionInv, HeldRows
    <2> QED BY <1>0, <2>1 DEF RevokeCommit, Rows, Fam, N
  <1>2. PICK f : f = Fam(c)
    OBVIOUS
  <1>3. /\ records' = [j \in 1..n |-> IF j \in rows THEN [records[j] EXCEPT !.revoked = TRUE]
                                      ELSE records[j]]
        /\ closed' = closed \cup {f}
        /\ missed' = IF Rows(f) = rows THEN missed \ {f} ELSE missed \cup {f}
        /\ ses' = [ses EXCEPT ![x] = SesIdle]
        /\ UNCHANGED life
        /\ rows \cap LockedRows(x) = {}
    BY <1>0, <1>1, <1>2 DEF RevokeCommit, SessionEnds, Fam, N
  <1>4. \A j \in 1..n : records[j] \in Record
    BY <1>0, RowFacts DEF SessionInv
  <1>5. ASSUME NEW j \in 1..n
        PROVE  /\ records'[j] \in Record /\ Fam(j) \in Families
               /\ records'[j].family = Fam(j) /\ records'[j].left = records[j].left
               /\ j \in rows => records'[j].revoked
               /\ j \notin rows => records'[j] = records[j]
    BY <1>3, <1>4 DEF Record, Fam
  <1>6. records' \in Seq(Record) /\ N' = n
    <2>1. records' \in [1..n -> Record]
      BY <1>3, <1>5
    <2> QED BY <2>1, MapIsSeq DEF N
  <1>7. \A j \in 1..n : Fam(j)' = Fam(j)
    BY <1>5 DEF Fam
  <1>8. SesIdle \in Ses /\ SesIdle.st = "idle"
    BY DEF Ses, SesIdle
  <1>9. ses'[x] = SesIdle /\ \A y \in Requests \ {x} : ses'[y] = ses[y]
    BY <1>3 DEF SessionInv, SessionTypeOK
  <1>10. f \in Families
    BY <1>2, <1>5
  <1>11. SessionTypeOK'
    <2>1. n <= MaxRecords
      BY <1>0 DEF SessionInv, SessionTypeOK, N
    <2> QED BY <1>3, <1>6, <1>8, <1>10, <2>1 DEF SessionInv, SessionTypeOK, Record, N
  <1>12. HeldRows'
    <2> SUFFICES ASSUME NEW y \in Requests, y # x, ses[y].st # "idle"
                 PROVE  /\ ses[y].row \in 1..n
                        /\ ses[y].st \in {"reused", "revoking"} =>
                              \A j \in ses[y].rows : j \in 1..n /\ Fam(j)' = Fam(ses[y].row)'
      BY <1>6, <1>8, <1>9 DEF HeldRows, Rows, Fam, N
    <2>1. PICK k \in 1..n : k = ses[y].row
      BY <1>0 DEF SessionInv, HeldRows
    <2>2. ses[y].st \in {"reused", "revoking"} =>
              \A j \in ses[y].rows : j \in 1..n /\ Fam(j) = Fam(k)
      BY <1>0, <2>1 DEF SessionInv, HeldRows, Rows, Fam, N
    <2>3. ses'[y] = ses[y] /\ Fam(ses[y].row)' = Fam(k)'
      BY <1>9, <2>1
    <2> QED BY <1>7, <2>1, <2>2, <2>3
  <1>13. LockedUnrevoked' /\ LocksApart'
    <2>1. \A y \in Requests : ses'[y].st = "rotating" =>
             /\ y # x /\ ses'[y] = ses[y] /\ ses[y].row \in LockedRows(x)
             /\ ses[y].row \in 1..n
      BY <1>0, <1>8, <1>9 DEF SessionInv, HeldRows, LockedRows
    <2> QED BY <1>3, <1>5, <2>1 DEF SessionInv, LockedUnrevoked, LocksApart
  <1>14. SameSpan'
    <2>1. \A j \in 1..n : records[j].left = life[Fam(j)]
      BY <1>0 DEF SessionInv, SameSpan
    <2> QED BY <1>3, <1>5, <1>6, <1>7, <2>1 DEF SameSpan
  <1>15. Single'
    <2>1. \A j \in 1..n : ~records'[j].revoked => ~records[j].revoked
      BY <1>5
    <2>2. \A j, k \in 1..n :
              Fam(j) = Fam(k) /\ ~records[j].revoked /\ ~records[k].revoked => j = k
      BY <1>0 DEF SessionInv, Single
    <2> QED BY <1>6, <1>7, <2>1, <2>2 DEF Single
  <1>16. OpenHasOne'
    <2> SUFFICES ASSUME NEW j \in 1..n, Fam(j) \notin closed, Fam(j) # f
                 PROVE  \E k \in 1..n : Fam(k) = Fam(j) /\ ~records'[k].revoked
      BY <1>3, <1>6, <1>7 DEF OpenHasOne
    <2>1. PICK k \in 1..n : Fam(k) = Fam(j) /\ ~records[k].revoked
      BY <1>0 DEF SessionInv, OpenHasOne
    <2>2. k \notin rows
      BY <1>1, <1>2, <2>1
    <2> QED BY <1>5, <2>1, <2>2
  <1>17. ClosedIssued'
    <2>1. \A g \in closed : \E j \in 1..n : Fam(j) = g
      BY <1>0 DEF SessionInv, ClosedIssued
    <2> QED BY <1>2, <1>3, <1>6, <1>7, <2>1 DEF ClosedIssued
  <1>18. ClosedRevoked'
    <2> SUFFICES ASSUME NEW j \in 1..n, Fam(j) \in closed' \ missed'
                 PROVE  records'[j].revoked
      BY <1>6, <1>7 DEF ClosedRevoked
    <2>1. CASE Fam(j) = f
      <3>1. Rows(f) = rows
        BY <1>3, <2>1
      <3> QED BY <1>0, <1>5, <2>1, <3>1 DEF Rows, Fam, N
    <2>2. CASE Fam(j) # f
      <3>1. Fam(j) \in closed \ missed
        BY <1>3, <2>2
      <3>2. records[j].revoked
        BY <1>0, <3>1 DEF SessionInv, ClosedRevoked
      <3> QED BY <1>1, <1>2, <1>5, <2>2, <3>2
    <2> QED BY <2>1, <2>2
  <1> QED
    BY <1>11, <1>12, <1>13, <1>14, <1>15, <1>16, <1>17, <1>18 DEF SessionInv

LEMMA SessionNextInv ==
    ASSUME SessionInv, [Next]_vars
    PROVE  SessionInv'
  <1>1. CASE UNCHANGED browsing
    BY <1>1 DEF browsing, SessionInv, SessionTypeOK, HeldRows, LockedUnrevoked, LocksApart,
       SameSpan, Single, OpenHasOne, ClosedIssued, ClosedRevoked, N, Fam, Rows
  <1>2. ASSUME NEW x \in Requests, SessionStarts(x)
        PROVE  SessionInv'
    BY <1>2, RotateInv, RevokeInv DEF SessionStarts, N
  <1> QED
    BY <1>1, <1>2, IssueInv, RotateCommitInv, RevokeCommitInv, SessionFailsInv, SessionTickInv
       DEF Next, Administer, LogIn, Welcome, SignIn, UseSession, SessionGoesOn, Tick, vars,
           browsing

LEMMA SessionInvariant == Spec => []SessionInv
  <1>1. Init => SessionInv
    BY SessionInitInv DEF Init
  <1> QED BY <1>1, SessionNextInv, PTL DEF Spec

-----------------------------------------------------------------------------
(* Together *)

OwnerTypeOK == owner \in [Families -> Users \cup {Nobody}]

LEMMA OwnerType ==
    ASSUME GuardInv, OwnerTypeOK, [Next]_vars
    PROVE  OwnerTypeOK'
  <1>1. CASE UNCHANGED owner
    BY <1>1 DEF OwnerTypeOK
  <1>2. ASSUME NEW x \in Requests, Welcome(x)
        PROVE  OwnerTypeOK'
    <2>1. att[x].user \in Users
      <3>1. att[x] # NoAttempt
        BY <1>2 DEF Welcome, NoAttempt
      <3> QED BY <3>1, AttemptStage DEF GuardInv
    <2> QED BY <1>2, <2>1 DEF Welcome, SignIn, OwnerTypeOK
  <1> QED BY <1>1, <1>2 DEF Next, Administer, LogIn, UseSession, Tick, vars

LEMMA OwnerInvariant == Spec => []OwnerTypeOK
  <1>1. Init => OwnerTypeOK
    BY DEF Init, OwnerTypeOK
  <1> QED BY <1>1, OwnerType, GuardInvariant, PTL DEF Spec

\* What the invariant says of the records a request may still use.
LEMMA SessionsHold ==
    ASSUME SessionInv
    PROVE  OneUsable /\ ClosedStays /\ FamilyEnds
  <1>0. N \in Nat
    BY RowFacts DEF SessionInv
  <1>1. \A f : Usable(f) = {i \in 1..N : Fam(i) = f /\ ~records[i].revoked /\ records[i].left > 0}
    BY DEF Usable, Rows, N, Fam
  <1>2. FamilyEnds
    BY <1>1 DEF FamilyEnds, SessionInv, SameSpan
  <1>3. ClosedStays
    BY <1>1 DEF ClosedStays, SessionInv, ClosedRevoked
  <1>4. OneUsable
    <2> SUFFICES ASSUME NEW f \in Issued
                 PROVE  /\ Cardinality(Usable(f)) <= 1
                        /\ f \notin closed /\ life[f] > 0 => Usable(f) # {}
      BY DEF OneUsable
    <2>1. Cardinality(Usable(f)) <= 1
      <3>1. CASE Usable(f) = {}
        BY <3>1, FS_EmptySet
      <3>2. ASSUME NEW i \in Usable(f) PROVE Cardinality(Usable(f)) <= 1
        <4>1. Usable(f) = {i}
          BY <1>1, <3>2 DEF SessionInv, Single
        <4> QED BY <4>1, FS_Singleton
      <3> QED BY <3>1, <3>2
    <2>2. ASSUME f \notin closed, life[f] > 0
          PROVE  Usable(f) # {}
      <3>1. PICK i \in 1..N : Fam(i) = f
        BY DEF Issued, N, Fam
      <3>2. PICK j \in 1..N : Fam(j) = f /\ ~records[j].revoked
        BY <2>2, <3>1 DEF SessionInv, OpenHasOne
      <3>3. records[j].left > 0
        BY <2>2, <3>2 DEF SessionInv, SameSpan
      <3> QED BY <1>1, <3>2, <3>3
    <2> QED BY <2>1, <2>2
  <1> QED BY <1>2, <1>3, <1>4

\* browser_sessions.py, for any number of tabs that refresh and sign out at once: a family
\* has at most one usable record and exactly one while it lives, stays closed once it was
\* closed, unless the closing missed a record, and ends with its seven days.  The first
\* conjunct is type correctness, of the tenant and of the sign-in budget too.
THEOREM SessionsAreSafe == Spec => []SessionsSafe
  <1>1. /\ AdminInv => AdminTypeOK
        /\ GuardInv => GuardTypeOK
        /\ SessionInv => SessionTypeOK /\ OneUsable /\ ClosedStays /\ FamilyEnds
    BY SessionsHold DEF AdminInv, GuardInv, SessionInv
  <1>2. Spec => []AdminInv
    BY AdminInvariant, AdministrationAlone, PTL
  <1>3. AdminInv /\ GuardInv /\ SessionInv /\ OwnerTypeOK
          => SessionsSafe
    BY <1>1 DEF SessionsSafe, TypeOK, OwnerTypeOK
  <1> QED BY <1>2, <1>3, GuardInvariant, SessionInvariant, OwnerInvariant, PTL
=============================================================================
