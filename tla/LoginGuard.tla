----------------------------- MODULE LoginGuard ------------------------------
(***************************************************************************)
(* The sign-in budget: services/login_guard.py around authenticate() in    *)
(* POST /auth/login (api/v1/routes.py).  One Redis counter per account,    *)
(* shared by all replicas, counts attempts before the password is looked   *)
(* at; its first attempt gives it its time to live, and a success deletes  *)
(* it.  Redis may fail around every call: the request answers 503.         *)
(***************************************************************************)
EXTENDS Integers

CONSTANTS Requests, Users,
          Threshold,   \* attempts a window allows (8)
          Window       \* ticks a counter lives (900 s)

VARIABLES budget,      \* account -> attempts counted and ticks left
          att,         \* request -> its attempt
          age          \* history: account -> ticks since its counter began

-----------------------------------------------------------------------------
NoKey == [n |-> 0, left |-> 0]
NoAttempt == [st |-> "idle"]
Attempt == {NoAttempt} \cup [st : {"reserved", "right", "wrong", "welcome"}, user : Users]

\* A counter above the threshold is one more than it, for good.
GuardTypeOK ==
    /\ budget \in [Users -> [n : 0..(Threshold + 1), left : 0..Window]]
    /\ att \in [Requests -> Attempt]
    /\ age \in [Users -> Nat]

GuardInit ==
    /\ budget = [u \in Users |-> NoKey]
    /\ att = [x \in Requests |-> NoAttempt]
    /\ age = [u \in Users |-> 0]

\* Mutant: every attempt sets the time to live.
SpanRenewed(k) == Window

\* if n == 1 then EXPIRE
Span(k) == IF k.n = 0 THEN Window ELSE k.left

\* INCR; the script is one step of Redis.
Counted(k) == [n |-> IF k.n > Threshold THEN k.n ELSE k.n + 1, left |-> Span(k)]

Locked(u) == budget[u].n > Threshold

\* reserve(): 429 above the threshold, else a short sleep.
Reserve(x, u) ==
    LET k == Counted(budget[u])
    IN  /\ att[x] = NoAttempt
        /\ budget' = [budget EXCEPT ![u] = k]
        /\ att' = IF k.n > Threshold THEN att
                  ELSE [att EXCEPT ![x] = [st |-> "reserved", user |-> u]]
        /\ UNCHANGED age

\* authenticate()
Authenticate(x, right) ==
    /\ att[x].st = "reserved"
    /\ att' = [att EXCEPT ![x].st = IF right THEN "right" ELSE "wrong"]
    /\ UNCHANGED <<budget, age>>

\* finish(): a success deletes the counter, whoever was counted meanwhile.
FinishSuccess(x) ==
    /\ att[x].st = "right"
    /\ budget' = [budget EXCEPT ![att[x].user] = NoKey]
    /\ age' = [age EXCEPT ![att[x].user] = 0]
    /\ att' = [att EXCEPT ![x].st = "welcome"]

\* 401, 503, or the end of a request that was welcome.
AttemptEnds(x) ==
    /\ att[x] # NoAttempt
    /\ att' = [att EXCEPT ![x] = NoAttempt]
    /\ UNCHANGED <<budget, age>>

\* Counters expire.
Aged(k) == IF k.left <= 1 THEN NoKey ELSE [k EXCEPT !.left = @ - 1]
GuardTick ==
    /\ budget' = [u \in Users |-> Aged(budget[u])]
    /\ age' = [u \in Users |-> IF budget'[u] = NoKey THEN 0 ELSE age[u] + 1]

GuardGoesOn(x) == (\E right \in BOOLEAN : Authenticate(x, right)) \/ FinishSuccess(x)

-----------------------------------------------------------------------------
\* login_guard.py:31 "retry later": an account is never locked for longer than a window,
\* even when somebody goes on trying.
LockoutEnds == \A u \in Users : age[u] < Window
=============================================================================
