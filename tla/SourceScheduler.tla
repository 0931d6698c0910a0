--------------------------- MODULE SourceScheduler ---------------------------
(***************************************************************************)
(* Recurring crawls: services/scheduler.py in every API replica, on the    *)
(* source rows of one database, with the connection state of               *)
(* storage/database.py and the start and stop of main.py.                  *)
(*                                                                         *)
(* A cycle reads the clock, locks the rows no other transaction has locked *)
(* (FOR UPDATE SKIP LOCKED), moves next_scheduled_at of the due ones,      *)
(* commits, and only then crawls them one after the other.  The crawl is   *)
(* module SourceCrawl; here a slot is served once crawl() was called.      *)
(***************************************************************************)
EXTENDS Integers, FiniteSets

CONSTANTS
    Replicas,   \* API processes, each with a scheduler
    Sources,    \* source rows
    Policies,   \* crawl policies other than "manual"
    Period,     \* policy -> minutes between two crawls
    Configs,    \* the policies and positions of the switch that operators choose
    Skew,       \* replica -> how far its clock is ahead
    MaxSkew,    \* the largest difference of two clocks
    MaxTime,    \* bound: the modelled period ends
    MaxFaults   \* bound: crashes, shutdowns, outages, lost answers, row locks of requests

AllPolicies == Policies \cup {"manual"}

ASSUME SchedulerAssumption ==
    /\ Period \in [Policies -> Nat]
    /\ MaxSkew \in Nat /\ Skew \in [Replicas -> 0..MaxSkew]
    /\ Configs \subseteq AllPolicies \X BOOLEAN
    /\ MaxTime \in Nat /\ MaxFaults \in Nat
    /\ "manual" \notin Policies

VARIABLES
    now,     \* real time
    row,     \* source -> policy, enabled, next_scheduled_at
    held,    \* rows a request's transaction has locked
    proc,    \* replica -> where its _loop() stands
    ready,   \* replica -> database.ready
    dbUp,    \* PostgreSQL answers
    faults,  \* history: faults so far
    last,    \* history: source -> the latest claim, its time and period
    owed     \* history: source -> slots claimed, neither crawled nor lost

history == <<last, owed>>
vars == <<now, row, held, proc, ready, dbUp, faults, history>>

-----------------------------------------------------------------------------
Row == [policy : AllPolicies, enabled : BOOLEAN, next : Nat]
Stages == {"down", "cycle", "read", "locked", "crawling", "waiting"}
Proc == [st : Stages, wake : Nat, rows : SUBSET Sources, due : SUBSET Sources,
         stop : BOOLEAN]

\* The query of run_once(): "enabled" says that the source and its tenant are; a row that
\* was never scheduled has "next = 0".
Eligible(s) == row[s].enabled /\ row[s].policy # "manual"

\* Line 37: the minutes of a policy, 0 for one the table does not name.
Minutes(p) == IF p \in Policies THEN Period[p] ELSE 0
Due(s, t) == Eligible(s) /\ row[s].next <= t /\ Minutes(row[s].policy) > 0

Clock(r, t) == t + Skew[r]

\* Mutant: without FOR UPDATE.
LockedForNobody(r) == held

\* SKIP LOCKED passes over these.
LockedFor(r) == held \cup UNION {proc[q].rows : q \in Replicas \ {r}}
Locked == held \cup UNION {proc[q].rows : q \in Replicas}

Add(n, S) == [s \in Sources |-> IF s \in S THEN owed[s] + n ELSE owed[s]]

\* The slots a replica has claimed and not crawled yet.
Claims(r) == IF proc[r].st = "crawling" THEN proc[r].due ELSE {}

Asleep == [st |-> "down", wake |-> 0, rows |-> {}, due |-> {}, stop |-> FALSE]

TypeOK ==
    /\ now \in 0..MaxTime
    /\ row \in [Sources -> Row]
    /\ held \in SUBSET Sources
    /\ proc \in [Replicas -> Proc]
    /\ ready \in [Replicas -> BOOLEAN] /\ dbUp \in BOOLEAN
    /\ faults \in 0..MaxFaults
    /\ last \in [Sources -> [wake : Nat, period : Nat]]
    /\ owed \in [Sources -> Int]

Init ==
    /\ now = 0
    /\ row \in [Sources -> {[policy |-> c[1], enabled |-> c[2], next |-> 0] : c \in Configs}]
    /\ held = {}
    /\ proc = [r \in Replicas |-> Asleep]
    /\ ready = [r \in Replicas |-> FALSE] /\ dbUp = TRUE
    /\ faults = 0
    /\ last = [s \in Sources |-> [wake |-> 0, period |-> 0]]
    /\ owed = [s \in Sources |-> 0]

-----------------------------------------------------------------------------
(* The scheduler of a replica. *)

\* lifespan: connect the database, start the scheduler's task.
Start(r) ==
    /\ proc[r].st = "down"
    /\ proc' = [proc EXCEPT ![r] = [Asleep EXCEPT !.st = "cycle"]]
    /\ ready' = [ready EXCEPT ![r] = dbUp]
    /\ UNCHANGED <<now, row, held, dbUp, faults, history>>

\* Mutant: the loop leaves reconnecting to the probes.
NeverReconnected(r) == ready[r]

\* connect() when not ready yet.
Connected(r) == ready[r] \/ dbUp

\* _loop: reconnect unless ready, and enter run_once whatever came of it.
Wake(r) ==
    /\ proc[r].st = "cycle"
    /\ ready' = [ready EXCEPT ![r] = Connected(r)]
    /\ proc' = [proc EXCEPT ![r].st = "read", ![r].wake = now]
    /\ UNCHANGED <<now, row, held, dbUp, faults, history>>

\* The SELECT and the loop over what it returned: the rows of the query that no other
\* transaction has locked, and the due ones among them as they were read.
Select(r) ==
    LET rows == {s \in Sources : Eligible(s)} \ LockedFor(r)
    IN  /\ proc[r].st = "read" /\ dbUp
        /\ proc' = [proc EXCEPT ![r].st = "locked", ![r].rows = rows,
                                ![r].due = {s \in rows : Due(s, Clock(r, proc[r].wake))}]
        /\ UNCHANGED <<now, row, held, ready, dbUp, faults, history>>

\* The slot a claim at time t leaves behind.
NextSlot(s, t) == t + Minutes(row[s].policy)

\* The commit happens in the database: the due rows have their next slots.
Committed(r) ==
    LET D == proc[r].due
    IN  /\ proc[r].st = "locked" /\ dbUp
        /\ row' = [s \in Sources |->
                     IF s \in D THEN [row[s] EXCEPT !.next = NextSlot(s, Clock(r, proc[r].wake))]
                     ELSE row[s]]
        /\ last' = [s \in Sources |->
                      IF s \in D THEN [wake |-> proc[r].wake, period |-> Minutes(row[s].policy)]
                      ELSE last[s]]

\* It is answered: the replica has the slots of the due rows to crawl.
CommitClaims(r) ==
    /\ Committed(r)
    /\ owed' = Add(1, proc[r].due)
    /\ proc' = [proc EXCEPT ![r].st = "crawling", ![r].rows = {}]
    /\ UNCHANGED <<now, held, ready, dbUp, faults>>

\* Without a database the session raises: nothing was written, the cycle is over.
CycleFails(r) ==
    /\ proc[r].st \in {"read", "locked"} /\ ~dbUp
    /\ proc' = [proc EXCEPT ![r].st = "waiting", ![r].rows = {}, ![r].due = {}]
    /\ UNCHANGED <<now, row, held, ready, dbUp, faults, history>>

\* Mutant: an exception leaves the loop.
RemainingUnlessRaised(due, s, ok) == IF ok THEN due \ {s} ELSE {}

\* What is left to crawl after a crawl that succeeded or raised.
Remaining(due, s, ok) == due \ {s}

\* crawl(): "One source must not stop the scheduler."
Crawl(r, s, ok) ==
    /\ proc[r].st = "crawling" /\ s \in proc[r].due
    /\ proc' = [proc EXCEPT ![r].due = Remaining(@, s, ok)]
    /\ owed' = Add(-1, {s})
    /\ UNCHANGED <<now, row, held, ready, dbUp, faults, last>>

\* run_once returns; the wait for the stop event begins.
EndCycle(r) ==
    /\ proc[r].st = "crawling" /\ proc[r].due = {}
    /\ proc' = [proc EXCEPT ![r].st = "waiting"]
    /\ UNCHANGED <<now, row, held, ready, dbUp, faults, history>>

\* Mutant: the wait has no timeout.
WaitForStop(r) ==
    /\ proc[r].st = "waiting" /\ proc[r].stop
    /\ proc' = [proc EXCEPT ![r] = Asleep]
    /\ UNCHANGED <<now, row, held, ready, dbUp, faults, history>>

\* The interval is over, or the stop event ended the wait and with it the task.
WaitEnds(r) ==
    /\ proc[r].st = "waiting"
    /\ proc' = [proc EXCEPT ![r] = IF @.stop THEN Asleep ELSE [@ EXCEPT !.st = "cycle"]]
    /\ UNCHANGED <<now, row, held, ready, dbUp, faults, history>>

\* GET /ready reconnects, within three seconds, and says what it found.
Probe(r) ==
    /\ proc[r].st # "down"
    /\ ready' = [ready EXCEPT ![r] = dbUp]
    /\ UNCHANGED <<now, row, held, proc, dbUp, faults, history>>

-----------------------------------------------------------------------------
(* Operators and faults. *)

\* source_management update() and set_enabled(): next_scheduled_at stays as it is.
Edit(s, p, e) ==
    /\ s \notin Locked
    /\ row' = [row EXCEPT ![s] = [@ EXCEPT !.policy = p, !.enabled = e]]
    /\ UNCHANGED <<now, held, proc, ready, dbUp, faults, history>>

Tick ==
    /\ now < MaxTime
    /\ now' = now + 1
    /\ UNCHANGED <<row, held, proc, ready, dbUp, faults, history>>

Fault == faults < MaxFaults /\ faults' = faults + 1

\* lifespan after yield: stop() sets the event and awaits the task.
Shutdown(r) ==
    /\ Fault /\ proc[r].st # "down" /\ ~proc[r].stop
    /\ proc' = [proc EXCEPT ![r].stop = TRUE]
    /\ UNCHANGED <<now, row, held, ready, dbUp, history>>

\* The connection breaks before the commit is answered: the session raises, the cycle is
\* over, and the slots, which are claimed, are crawled by nobody.
CommitUnanswered(r) ==
    /\ Fault /\ Committed(r)
    /\ proc' = [proc EXCEPT ![r].st = "waiting", ![r].rows = {}, ![r].due = {}]
    /\ UNCHANGED <<now, held, ready, dbUp, owed>>

Crash(r) ==
    /\ Fault /\ proc[r].st # "down"
    /\ proc' = [proc EXCEPT ![r] = Asleep]
    /\ owed' = Add(-1, Claims(r))
    /\ UNCHANGED <<now, row, held, ready, dbUp, last>>

DatabaseFails ==
    /\ Fault /\ dbUp
    /\ dbUp' = FALSE
    /\ UNCHANGED <<now, row, held, proc, ready, history>>

DatabaseRecovers ==
    /\ ~dbUp
    /\ dbUp' = TRUE
    /\ UNCHANGED <<now, row, held, proc, ready, faults, history>>

\* A request's transaction holds the row for a while: a crawl that stores its result.
Hold(s) ==
    /\ Fault /\ s \notin Locked
    /\ held' = held \cup {s}
    /\ UNCHANGED <<now, row, proc, ready, dbUp, history>>

Release(s) ==
    /\ s \in held
    /\ held' = held \ {s}
    /\ UNCHANGED <<now, row, proc, ready, dbUp, faults, history>>

Cycle(r) == \/ Wake(r) \/ Select(r) \/ CommitClaims(r) \/ CycleFails(r)
            \/ EndCycle(r) \/ WaitEnds(r)
            \/ \E s \in Sources, ok \in BOOLEAN : Crawl(r, s, ok)

Next ==
    \/ \E r \in Replicas : Start(r) \/ Cycle(r) \/ Probe(r) \/ Shutdown(r)
                           \/ CommitUnanswered(r) \/ Crash(r)
    \/ \E s \in Sources : Hold(s) \/ Release(s)
    \/ \E s \in Sources, c \in Configs : Edit(s, c[1], c[2])
    \/ Tick \/ DatabaseFails \/ DatabaseRecovers

\* A task runs on, a replica is started again, an outage and a transaction end.
Fairness ==
    /\ \A r \in Replicas : WF_vars(Start(r)) /\ WF_vars(Cycle(r))
    /\ \A s \in Sources : WF_vars(Release(s))
    /\ WF_vars(Tick) /\ WF_vars(DatabaseRecovers)

Spec == Init /\ [][Next]_vars /\ Fairness

-----------------------------------------------------------------------------
(* Properties. *)

\* However many replicas wake together, a source is claimed for a crawl no sooner after
\* its last claim, a lost one included, than the period of that one, less what the clocks
\* differ by.
SlotsApart ==
    [][\A s \in Sources : owed'[s] > owed[s] =>
         last'[s].wake + MaxSkew >= last[s].wake + last[s].period]_vars

Pending(s) == {r \in Replicas : s \in Claims(r)}

\* A claimed slot is crawled, waits in a replica that lives, or was lost with a replica
\* that crashed or a commit that was not answered: a source that raises takes no other
\* one with it.
SlotsAccounted == TypeOK /\ \A s \in Sources : owed[s] = Cardinality(Pending(s))

\* A source that is due does not stay due: outages, crashes, shutdowns and rows
\* skipped because they were locked only delay its claim.
DueIsClaimed == \A s \in Sources : (now = MaxTime /\ Due(s, MaxTime)) ~> ~Due(s, MaxTime)

\* A replica that found no database at start-up or in a probe comes back by itself.
ReadyRecovers == \A r \in Replicas : (~ready[r] /\ proc[r].st # "down") ~> (ready[r] \/ proc[r].st = "down")

\* The scheduler needs nobody to restart it: after outages, crashes and locked rows slots
\* are claimed again, and a replica says again that it is ready.
SchedulerRecovers == DueIsClaimed /\ ReadyRecovers
=============================================================================
