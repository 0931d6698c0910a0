--------------------------- MODULE DeliveryQueue ---------------------------
(***************************************************************************)
(* The outgoing queue: services/delivery_worker.py with the rows that      *)
(* services/webhooks.py (register, remove, dispatch) and                   *)
(* services/report_schedules.py (create, remove) feed it with.             *)
(*                                                                         *)
(* Every API replica runs a DeliveryWorker.  A worker takes one job under  *)
(* SELECT ... FOR UPDATE SKIP LOCKED and holds that row lock, in an open   *)
(* transaction, across the network call; the outcome is known to others    *)
(* only if the commit succeeds.  When the connection to the database       *)
(* breaks during the call the row is free again, and the worker, which     *)
(* learns of it at its commit, goes on sending.  A job is identified by    *)
(* its dedupe_key: an event and a subscription, or a minute and a report   *)
(* schedule.                                                               *)
(***************************************************************************)
EXTENDS Integers, FiniteSets

CONSTANTS
    Workers,        \* the delivery workers of the replicas
    Events,         \* identities dispatch() draws for alerts
    Subscriptions,  \* webhook subscription rows
    Schedules,      \* report schedule rows
    Together,       \* bound: the sets of targets that are registered in one behaviour
    Minutes,        \* bound: the minutes of the modelled period, 0 .. n
    DueAt,          \* schedule -> minutes at which its cron expression is due
    Bodies,         \* renderings of a report: no two are alike
    NoBody,         \* job.result has no body
    NoKey,          \* an idle worker has no job
    MaxAttempts,    \* attempts before a job is given up, 5
    MaxRollbacks    \* bound: how many transactions of workers are lost

Targets == Subscriptions \cup Schedules
Keys == (Events \X Subscriptions) \cup (Minutes \X Schedules)
Target(k) == k[2]
IsReport(k) == k[2] \in Schedules

ASSUME QueueAssumption ==
    /\ Subscriptions \cap Schedules = {}
    /\ NoKey \notin Keys
    /\ NoBody \notin Bodies
    /\ Minutes \subseteq Nat /\ 0 \in Minutes
    /\ DueAt \in [Schedules -> SUBSET Minutes]
    /\ MaxAttempts \in Nat \ {0}
    /\ MaxRollbacks \in Nat

VARIABLES
    jobs,        \* delivery_jobs rows
    targets,     \* subscription and schedule rows
    tenantActive,\* TenantRecord.active
    smtp,        \* settings: smtp_host and smtp_sender are set
    minute,      \* wall clock
    pc,          \* worker -> where it stands in its cycle
    cur,         \* worker -> job it has loaded, and has locked unless it is "unlocked"
    outcome,     \* worker -> what it will write when it commits
    body,        \* worker -> rendering it has loaded, or will store
    session,     \* worker -> delivery_status of the schedules it loaded, and when
    copies,      \* history: how often the receiver got a job
    mailed,      \* history: the renderings a report was mailed with
    rolledBack,  \* history: job -> transactions lost while they held it
    failedSince  \* history: subscription -> attempts failed since its last delivery

rows == <<jobs, targets, tenantActive>>
world == <<tenantActive, smtp, minute>>
workerVars == <<pc, cur, outcome, body, session>>
history == <<copies, mailed, rolledBack, failedSince>>
vars == <<rows, smtp, minute, workerVars, history>>

-----------------------------------------------------------------------------
Open == {"pending", "retry"}
Final == {"delivered", "failed", "cancelled"}
JobRow == [status : {"none"} \cup Open \cup Final, attempts : 0..MaxAttempts,
           due : BOOLEAN, body : Bodies \cup {NoBody}]
Stages == {"idle", "enqueueing", "rendering", "sending", "unlocked", "recording"}
Outcomes == {"none", "cancelled", "rendered", "delivered", "error"}
DeliveryStatus == {"pending_external_delivery", "queued", "delivered", "smtp_unavailable"}
TargetRow == [life : {"new", "live", "removed"}, status : DeliveryStatus,
              failures : Nat]
Session == [minute : Minutes, status : UNION {[C -> DeliveryStatus] : C \in SUBSET Schedules}]

\* What a session holds of the schedules in C: the status each had when it was read.
Loaded(C) == [minute |-> minute, status |-> [c \in C |-> targets[c].status]]
Nothing == [minute |-> 0, status |-> [c \in {} |-> "queued"]]

NoJobRow == [status |-> "none", attempts |-> 0, due |-> FALSE, body |-> NoBody]
NewJobRow == [status |-> "pending", attempts |-> 0, due |-> TRUE, body |-> NoBody]

Live(t) == targets[t].life = "live"
LockHolders(k) == {w \in Workers : cur[w] = k /\ pc[w] # "unlocked"}

TypeOK ==
    /\ jobs \in [Keys -> JobRow]
    /\ targets \in [Targets -> TargetRow]
    /\ tenantActive \in BOOLEAN /\ smtp \in BOOLEAN
    /\ minute \in Minutes
    /\ pc \in [Workers -> Stages]
    /\ cur \in [Workers -> Keys \cup {NoKey}]
    /\ outcome \in [Workers -> Outcomes]
    /\ body \in [Workers -> Bodies \cup {NoBody}]
    /\ session \in [Workers -> Session]
    /\ copies \in [Keys -> Nat]
    /\ mailed \in [Keys -> SUBSET Bodies]
    /\ rolledBack \in [Keys -> Nat]
    /\ failedSince \in [Subscriptions -> Nat]

Init ==
    /\ jobs = [k \in Keys |-> NoJobRow]
    /\ targets = [t \in Targets |-> [life |-> "new", failures |-> 0,
                                     status |-> "pending_external_delivery"]]
    /\ tenantActive = TRUE
    /\ smtp = FALSE
    /\ minute = 0
    /\ pc = [w \in Workers |-> "idle"]
    /\ cur = [w \in Workers |-> NoKey]
    /\ outcome = [w \in Workers |-> "none"]
    /\ body = [w \in Workers |-> NoBody]
    /\ session = [w \in Workers |-> Nothing]
    /\ copies = [k \in Keys |-> 0]
    /\ mailed = [k \in Keys |-> {}]
    /\ rolledBack = [k \in Keys |-> 0]
    /\ failedSince = [s \in Subscriptions |-> 0]

-----------------------------------------------------------------------------
(* Operators and the outside world. *)

\* webhooks.register, report_schedules.create.
Register(t) ==
    /\ targets[t].life = "new"
    /\ \E T \in Together : {u \in Targets : targets[u].life # "new" \/ u = t} \subseteq T
    /\ targets' = [targets EXCEPT ![t].life = "live"]
    /\ UNCHANGED <<jobs, world, workerVars, history>>

\* webhooks.remove, report_schedules.remove: the row is deleted, its jobs are not.
RemoveTarget(t) ==
    /\ Live(t)
    /\ targets' = [targets EXCEPT ![t].life = "removed"]
    /\ UNCHANGED <<jobs, world, workerVars, history>>

\* No code of the API changes TenantRecord.active: it is done in the database.
Suspend ==
    /\ tenantActive
    /\ tenantActive' = FALSE
    /\ UNCHANGED <<jobs, targets, smtp, minute, workerVars, history>>

\* A deployment with or without SMTP settings: every worker starts anew.
Configure ==
    /\ \A w \in Workers : pc[w] = "idle"
    /\ smtp' = ~smtp
    /\ UNCHANGED <<rows, minute, workerVars, history>>

\* webhooks.dispatch, after the alert was committed: one job per subscription whose
\* filter the alert passes.
Dispatch(e, S) ==
    /\ S # {} /\ \A s \in S : Live(s)
    /\ \A s \in Subscriptions : jobs[<<e, s>>].status = "none"
    /\ jobs' = [k \in Keys |-> IF k \in {e} \X S THEN NewJobRow ELSE jobs[k]]
    /\ UNCHANGED <<targets, world, workerVars, history>>

NextMinute ==
    /\ minute + 1 \in Minutes
    /\ minute' = minute + 1
    /\ UNCHANGED <<rows, smtp, workerVars, history>>

\* next_attempt_at has come.
BackoffEnds(k) ==
    /\ jobs[k].status \in Open /\ ~jobs[k].due
    /\ jobs' = [jobs EXCEPT ![k].due = TRUE]
    /\ UNCHANGED <<targets, world, workerVars, history>>

-----------------------------------------------------------------------------
(* DeliveryWorker.enqueue_reports: the schedules are read, then written back. *)

EnqueueRead(w) ==
    /\ pc[w] = "idle"
    /\ session' = [session EXCEPT
                     ![w] = Loaded({c \in Schedules : Live(c) /\ tenantActive})]
    /\ pc' = [pc EXCEPT ![w] = "enqueueing"]
    /\ UNCHANGED <<rows, smtp, minute, cur, outcome, body, history>>

\* Schedules the transaction touches, and the delivery_status it sets.
Planned(w) ==
    {c \in DOMAIN session[w].status : smtp => session[w].minute \in DueAt[c]}
PlannedStatus == IF smtp THEN "queued" ELSE "smtp_unavailable"

\* A session writes a column only if its value differs from the one it loaded.
Written(w) == {c \in Planned(w) : session[w].status[c] # PlannedStatus}

\* ON CONFLICT DO NOTHING: a key another worker or cycle inserted is kept.
NewReports(w) ==
    {k \in {session[w].minute} \X Planned(w) : smtp /\ jobs[k].status = "none"}

EnqueueCommit(w) ==
    /\ pc[w] = "enqueueing"
    /\ \A c \in Written(w) : Live(c)
    /\ jobs' = [k \in Keys |-> IF k \in NewReports(w) THEN NewJobRow ELSE jobs[k]]
    /\ targets' = [t \in Targets |-> IF t \in Written(w)
                                    THEN [targets[t] EXCEPT !.status = PlannedStatus]
                                    ELSE targets[t]]
    /\ pc' = [pc EXCEPT ![w] = "idle"]
    /\ session' = [session EXCEPT ![w] = Nothing]
    /\ UNCHANGED <<world, cur, outcome, body, history>>

\* A schedule deleted since it was read matches no row: StaleDataError, and the whole
\* transaction, the jobs of other schedules included, is rolled back.  So it is when
\* the replica or its connection dies.
EnqueueLost(w) ==
    /\ pc[w] = "enqueueing"
    /\ pc' = [pc EXCEPT ![w] = "idle"]
    /\ session' = [session EXCEPT ![w] = Nothing]
    /\ UNCHANGED <<rows, smtp, minute, cur, outcome, body, history>>

-----------------------------------------------------------------------------
(* DeliveryWorker.process_one. *)

\* The stage a claimed job enters; "cancelled" is decided without a network call.
Branch(k) ==
    IF ~tenantActive \/ ~Live(Target(k)) THEN "recording"
    ELSE IF IsReport(k) /\ jobs[k].body = NoBody THEN "rendering"
    ELSE "sending"

\* What a worker holds once it has locked the row of k and read its tenant and target.
Locked(w, k) ==
    /\ cur' = [cur EXCEPT ![w] = k]
    /\ pc' = [pc EXCEPT ![w] = Branch(k)]
    /\ outcome' = [outcome EXCEPT ![w] =
                     IF Branch(k) = "recording" THEN "cancelled" ELSE "none"]
    /\ body' = [body EXCEPT ![w] = jobs[k].body]
    /\ session' = [session EXCEPT ![w] = Loaded({Target(k)} \cap Schedules)]
    /\ UNCHANGED <<rows, smtp, minute, history>>

\* Mutant: without FOR UPDATE.
ClaimUnlocked(w, k) ==
    /\ pc[w] = "idle"
    /\ jobs[k].status \in Open /\ jobs[k].due
    /\ Locked(w, k)

\* Mutant: without the condition on the status.
ClaimSettled(w, k) ==
    /\ pc[w] = "idle"
    /\ jobs[k].status # "none" /\ jobs[k].attempts < MaxAttempts
    /\ LockHolders(k) = {}
    /\ Locked(w, k)

\* SELECT ... WHERE status IN (pending, retry) AND next_attempt_at <= now
\* FOR UPDATE SKIP LOCKED LIMIT 1.  Which of the due jobs comes first is left open.
Claim(w, k) ==
    /\ pc[w] = "idle"
    /\ jobs[k].status \in Open /\ jobs[k].due
    /\ LockHolders(k) = {}
    /\ Locked(w, k)

Concludes(w, o) ==
    /\ outcome' = [outcome EXCEPT ![w] = o]
    /\ pc' = [pc EXCEPT ![w] = "recording"]
    /\ UNCHANGED <<rows, smtp, minute, cur, session, rolledBack, failedSince>>

\* generate_report: the artifact is to be stored, nothing is sent in this step.
Render(w) ==
    /\ pc[w] = "rendering"
    /\ \/ /\ \E b \in Bodies : body' = [body EXCEPT ![w] = b]
          /\ Concludes(w, "rendered")
       \/ /\ UNCHANGED body
          /\ Concludes(w, "error")
    /\ UNCHANGED <<copies, mailed>>

\* The request reached the receiver, who has now one more copy: of a report, the
\* rendering the worker has loaded.  Nothing is mailed without SMTP.
Received(w) ==
    /\ IsReport(cur[w]) => smtp
    /\ copies' = [copies EXCEPT ![cur[w]] = @ + 1]
    /\ mailed' = [mailed EXCEPT ![cur[w]] =
                    IF IsReport(cur[w]) THEN @ \cup {body[w]} ELSE @]

\* Mutant: whatever the receiver answers, and even no answer, is a success.
SendUnchecked(w) ==
    /\ pc[w] = "sending"
    /\ \/ Received(w)
       \/ UNCHANGED <<copies, mailed>>
    /\ Concludes(w, "delivered")
    /\ UNCHANGED body

\* webhook_service.deliver or send_report: the receiver got it and says so, got it
\* but the answer is lost or bad, or did not get it.
Send(w) ==
    /\ pc[w] = "sending"
    /\ \/ /\ Received(w)
          /\ \E o \in {"delivered", "error"} : Concludes(w, o)
       \/ Concludes(w, "error") /\ UNCHANGED <<copies, mailed>>
    /\ UNCHANGED body

Unlock(w) ==
    /\ pc' = [pc EXCEPT ![w] = "idle"]
    /\ cur' = [cur EXCEPT ![w] = NoKey]
    /\ outcome' = [outcome EXCEPT ![w] = "none"]
    /\ body' = [body EXCEPT ![w] = NoBody]
    /\ session' = [session EXCEPT ![w] = Nothing]
    /\ UNCHANGED world

Failed(n) == IF n >= MaxAttempts THEN "failed" ELSE "retry"

\* Mutant: a failed attempt is not counted.
RetriedForever(row) == [row EXCEPT !.status = "retry", !.due = FALSE]

\* Mutant: the artifact goes with the failed attempt.
RetriedAfresh(row) ==
    [row EXCEPT !.status = Failed(row.attempts + 1), !.attempts = @ + 1,
                !.due = FALSE, !.body = NoBody]

\* The except clause of an attempt.
Retried(row) ==
    [row EXCEPT !.status = Failed(row.attempts + 1), !.attempts = @ + 1, !.due = FALSE]

\* What the step came to.  Storing an artifact is not an attempt.
Outcome(w, row) ==
    CASE outcome[w] = "rendered" -> [row EXCEPT !.status = "pending", !.body = body[w]]
      [] outcome[w] = "error"    -> Retried(row)
      [] OTHER -> [row EXCEPT !.status = outcome[w], !.attempts = @ + 1]

\* A delivery is also noted in the row of its target; a status the session had
\* already loaded as delivered is not written again.
Noted(w, t) ==
    IF t \in Subscriptions THEN [targets[t] EXCEPT !.failures = 0]
    ELSE IF session[w].status[t] = "delivered" THEN targets[t]
    ELSE [targets[t] EXCEPT !.status = "delivered"]

\* The commit.
Record(w) ==
    LET k == cur[w] IN
    /\ pc[w] = "recording"
    /\ outcome[w] = "delivered" => Live(Target(k))
    /\ jobs' = [jobs EXCEPT ![k] = Outcome(w, @)]
    /\ targets' = IF outcome[w] = "delivered"
                  THEN [targets EXCEPT ![Target(k)] = Noted(w, Target(k))] ELSE targets
    /\ failedSince' = IF IsReport(k) THEN failedSince
                      ELSE [failedSince EXCEPT ![Target(k)] =
                              CASE outcome[w] = "delivered" -> 0
                                [] outcome[w] = "error" -> @ + 1
                                [] OTHER -> @]
    /\ Unlock(w)
    /\ UNCHANGED <<copies, mailed, rolledBack>>

\* The transaction is lost and with it everything the step did to the tables.
Rollback(w) ==
    /\ rolledBack' = [rolledBack EXCEPT ![cur[w]] = @ + 1]
    /\ Unlock(w)
    /\ UNCHANGED <<jobs, targets, copies, mailed, failedSince>>

\* Delivered, but the row of the target is gone: StaleDataError at the commit.
StaleTarget(w) ==
    /\ pc[w] = "recording"
    /\ outcome[w] = "delivered" /\ ~Live(Target(cur[w]))
    /\ Rollback(w)

\* The replica dies, or its connection to the database breaks before the call or
\* after it.  A request that is on its way as the replica dies is left to
\* LoseConnection and SendUnlocked.
LoseTransaction(w) ==
    /\ cur[w] # NoKey /\ pc[w] # "unlocked"
    /\ rolledBack[cur[w]] < MaxRollbacks
    /\ Rollback(w)

\* The connection breaks during the call: the transaction and its row lock are gone,
\* and the worker goes on sending what it has loaded.
LoseConnection(w) ==
    /\ pc[w] = "sending"
    /\ rolledBack[cur[w]] < MaxRollbacks
    /\ pc' = [pc EXCEPT ![w] = "unlocked"]
    /\ rolledBack' = [rolledBack EXCEPT ![cur[w]] = @ + 1]
    /\ UNCHANGED <<rows, smtp, minute, cur, outcome, body, session,
                   copies, mailed, failedSince>>

\* Its call ends, whatever others made of the job meanwhile, and its commit fails; or
\* its replica dies.
SendUnlocked(w) ==
    /\ pc[w] = "unlocked"
    /\ \/ Received(w)
       \/ UNCHANGED <<copies, mailed>>
    /\ Unlock(w)
    /\ UNCHANGED <<jobs, targets, rolledBack, failedSince>>

Process(w) == Render(w) \/ Send(w) \/ SendUnlocked(w) \/ Record(w) \/ StaleTarget(w)

Next ==
    \/ \E t \in Targets : Register(t) \/ RemoveTarget(t)
    \/ \E e \in Events, S \in SUBSET Subscriptions : Dispatch(e, S)
    \/ Suspend \/ Configure \/ NextMinute
    \/ \E k \in Keys : BackoffEnds(k)
    \/ \E w \in Workers : EnqueueRead(w) \/ EnqueueCommit(w) \/ EnqueueLost(w)
    \/ \E w \in Workers, k \in Keys : Claim(w, k)
    \/ \E w \in Workers : Process(w) \/ LoseTransaction(w) \/ LoseConnection(w)

Spec == Init /\ [][Next]_vars

\* The loop of every worker goes on, network calls time out, backoffs end, and the
\* query's ORDER BY next_attempt_at comes to every due job: a job that keeps being
\* claimable is claimed.
Fairness ==
    /\ \A w \in Workers : WF_vars(EnqueueCommit(w) \/ EnqueueLost(w)) /\ WF_vars(Process(w))
    /\ \A k \in Keys : WF_vars(BackoffEnds(k))
    /\ \A k \in Keys : SF_vars(\E w \in Workers : Claim(w, k))

FairSpec == Spec /\ Fairness

-----------------------------------------------------------------------------
(* Correctness. *)

Known(status) == IF status \in Open THEN "open" ELSE status

\* The network calls under way: of the workers that hold their row, and of those that
\* have lost it.
Calling == {w \in Workers : pc[w] \in {"sending", "unlocked"}}

Promise == INSTANCE AtLeastOnce
             WITH Callers <- Workers,
                  state <- [k \in Keys |-> Known(jobs[k].status)],
                  calls <- {<<w, cur[w]>> : w \in Calling}

\* "Durable, at-least-once delivery": what the docstring of the worker promises of
\* the queue, whatever transaction or lock is lost and whichever workers interleave.
\* A worker that lost its lock may send after another has settled the job; no call is
\* begun for a settled job, and none is called delivered that nobody received.
ImplementsAtLeastOnce == Promise!Spec

\* Every job that was queued is delivered, given up or cancelled in the end.
EveryJobSettles == Promise!EverySettles

\* The receiver gets a job once per counted attempt, plus once per transaction that
\* was lost during the network call or after it: nothing else duplicates a delivery.
\* Two workers send one job at the same time only if the first has lost its
\* transaction, which pays for its copy, however late that copy arrives.
DuplicatesAccounted ==
    \A k \in Keys :
        LET uncounted == IF \E w \in LockHolders(k) : pc[w] = "recording" THEN 1 ELSE 0
        IN  copies[k] <= jobs[k].attempts + rolledBack[k] + uncounted

\* A report that has to be mailed again is mailed as it was: the artifact is stored
\* in a step of its own before the first mail.
OneArtifactPerReport == \A k \in Keys : Cardinality(mailed[k]) <= 1

\* "no report is claimed as sent without that service" (docs/SECURITY.md): a
\* schedule that shows delivered has had a report mailed.
DeliveredMeansMailed ==
    \A c \in Schedules :
        targets[c].status = "delivered" => \E m \in Minutes : copies[<<m, c>>] > 0

\* "failures are counted for operator review" (docs/SECURITY.md): the failure_count
\* of a subscription reflects the attempts that failed since its last delivery.
FailuresCounted ==
    \A s \in Subscriptions : targets[s].failures = failedSince[s]
=============================================================================
