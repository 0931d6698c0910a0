---------------------------- MODULE SourceCrawl ----------------------------
(***************************************************************************)
(* The crawl of a source: services/source_management.py (crawl, _crawl,    *)
(* validate, set_enabled, remove) under services/crawl_lock.py.            *)
(*                                                                         *)
(* A crawl is a task of some API replica.  It takes a Redis lease on the   *)
(* source, is cancelled CrawlTimeout after it took it, opens a crawl job   *)
(* row in PostgreSQL, fetches, and closes the row in a last transaction.   *)
(* Two guards keep crawls of one source apart: the lease, and the look at  *)
(* the job table before a row is inserted.  The replicas may crash, Redis  *)
(* may forget a lease, a database call may raise an error no handler       *)
(* catches, the cancellation may come late and the replicas' clocks differ.*)
(*                                                                         *)
(* One action is one transaction, one Redis command or one network call.   *)
(***************************************************************************)
EXTENDS Integers, FiniteSets

CONSTANTS
    Sources,       \* source rows of the tenants
    HtmlSources,   \* those whose parser_type is "html": robots.txt is read first
    Workers,       \* crawl tasks, of requests and of schedulers on any replica
    Jobs,          \* identities of crawl job rows
    NoOne,         \* the lease key does not exist
    Orphan,        \* the lease key holds a token no running task knows
    NoJob,         \* no job row
    NoSource,      \* target of an idle task, source of a row never inserted
    CrawlTimeout,  \* asyncio.timeout(240)
    Grace,         \* how late the event loop may deliver that cancellation
    LeaseTTL,      \* the expiry of the Redis key, 300 s
    JobLease,      \* the age at which a running row is taken for dead, 300 s
    Skew,          \* bound on the difference of two replicas' clocks
    MaxFailures,   \* the model's cap on failure_count, which only saturates it
    MaxLosses      \* bound: how often Redis may forget the lease of a source

MaxAttempts == 3
OfflineThreshold == 3

\* Latest moment, counted from the lease, at which a crawl is still running.
Deadline == CrawlTimeout + Grace

ASSUME ConstantsAssumption ==
    /\ HtmlSources \subseteq Sources
    /\ NoOne \notin Workers /\ Orphan \notin Workers /\ NoOne # Orphan
    /\ NoJob \notin Jobs /\ NoSource \notin Sources
    /\ CrawlTimeout \in Nat \ {0} /\ Grace \in Nat /\ Skew \in Nat
    /\ LeaseTTL \in Nat /\ JobLease \in Nat
    /\ MaxFailures \in Nat /\ MaxFailures >= OfflineThreshold
    /\ MaxLosses \in Nat

\* 240 + Grace < 300: a crawl is over before its lease key expires.
ASSUME LeaseAssumption == Deadline < LeaseTTL

\* 240 + Grace + Skew < 300: no replica sees the row of a running crawl as stale.
ASSUME ReaperAssumption == Deadline + Skew < JobLease

VARIABLES
    lease,    \* Redis: source -> holder of the key and its remaining life
    pc,       \* task -> where it stands in crawl()
    target,   \* task -> source it crawls
    myJob,    \* task -> job row it inserted
    seen,     \* task -> stale row its job query returned
    attempt,  \* task -> loop variable of the fetch loop
    elapsed,  \* task -> time since it took the lease
    jobs,     \* PostgreSQL: crawl job rows
    sources,  \* PostgreSQL: the columns of a source row the protocol uses
    lost      \* history: how often Redis forgot the lease of a source

taskVars == <<pc, target, myJob, seen, attempt, elapsed>>
vars == <<lease, pc, target, myJob, seen, attempt, elapsed, jobs, sources, lost>>

-----------------------------------------------------------------------------
JobStages == {"robots", "fetching", "storing", "failing"}
Body == {"loading", "resolving", "checking", "inserting"} \cup JobStages
Stages == {"idle", "releasing"} \cup Body

JobStatus == {"none", "running", "completed", "failed"}
Health == {"UNTESTED", "DISABLED", "HEALTHY", "DEGRADED", "OFFLINE"}

Free == [holder |-> NoOne, ttl |-> 0]
\* Mutant: the key expires with the timeout instead of after it.
HeldTooShort(h) == [holder |-> h, ttl |-> CrawlTimeout]

Held(h) == [holder |-> h, ttl |-> LeaseTTL]

\* Mutant: SET without EX.
NeverAged(key) == key

\* EX: the key vanishes by itself.
Aged(key) == IF key.ttl <= 1 THEN Free ELSE [key EXCEPT !.ttl = @ - 1]

InBody(w, s) == pc[w] \in Body /\ target[w] = s
RunningJobs(s) == {j \in Jobs : jobs[j].status = "running" /\ jobs[j].source = s}

\* A row can be given out: it is not in use (uuid4 in the code).  A finished row
\* that no task refers to may be given out again, for nobody will look at it.
Fresh(j) ==
    /\ jobs[j].status # "running"
    /\ \A v \in Workers : myJob[v] # j /\ seen[v] # j

Bump(n) == IF n < MaxFailures THEN n + 1 ELSE n

LeaseKey == [holder : Workers \cup {NoOne, Orphan}, ttl : 0..LeaseTTL]
JobRow == [status : JobStatus, source : Sources \cup {NoSource},
           age : 0..(JobLease + Skew)]
SourceRow == [enabled : BOOLEAN, health : Health, failures : 0..MaxFailures]

TasksOK ==
    /\ pc \in [Workers -> Stages]
    /\ target \in [Workers -> Sources \cup {NoSource}]
    /\ myJob \in [Workers -> Jobs \cup {NoJob}]
    /\ seen \in [Workers -> Jobs \cup {NoJob}]
    /\ attempt \in [Workers -> 0..(MaxAttempts - 1)]
    /\ elapsed \in [Workers -> 0..Deadline]

TypeOK ==
    /\ TasksOK
    /\ lease \in [Sources -> LeaseKey]
    /\ jobs \in [Jobs -> JobRow]
    /\ sources \in [Sources -> SourceRow]
    /\ lost \in [Sources -> 0..MaxLosses]

\* Source rows as create() leaves them: disabled and untested.
Init ==
    /\ lease = [s \in Sources |-> Free]
    /\ pc = [w \in Workers |-> "idle"]
    /\ target = [w \in Workers |-> NoSource]
    /\ myJob = [w \in Workers |-> NoJob]
    /\ seen = [w \in Workers |-> NoJob]
    /\ attempt = [w \in Workers |-> 0]
    /\ elapsed = [w \in Workers |-> 0]
    /\ jobs = [j \in Jobs |-> [status |-> "none", source |-> NoSource, age |-> 0]]
    /\ sources = [s \in Sources |->
                    [enabled |-> FALSE, health |-> "UNTESTED", failures |-> 0]]
    /\ lost = [s \in Sources |-> 0]
-----------------------------------------------------------------------------
(* The lease: crawl_lock.source_lock. *)

\* Mutant: SET without NX.
AcquireAnyway(w, s) ==
    /\ pc[w] = "idle"
    /\ lease' = [lease EXCEPT ![s] = Held(w)]
    /\ pc' = [pc EXCEPT ![w] = "loading"]
    /\ target' = [target EXCEPT ![w] = s]
    /\ UNCHANGED <<myJob, seen, attempt, elapsed, jobs, sources, lost>>

\* SET key token NX EX 300.  A key that exists answers 409 and changes nothing.
\* asyncio.timeout(240) starts with it.
Acquire(w, s) ==
    /\ pc[w] = "idle"
    /\ lease[s] = Free
    /\ lease' = [lease EXCEPT ![s] = Held(w)]
    /\ pc' = [pc EXCEPT ![w] = "loading"]
    /\ target' = [target EXCEPT ![w] = s]
    /\ UNCHANGED <<myJob, seen, attempt, elapsed, jobs, sources, lost>>

\* The SET is done but its answer is lost: 503, and since `acquired` is still
\* False the key stays until it expires.
AcquireUnanswered(s) ==
    /\ lease[s] = Free
    /\ lease' = [lease EXCEPT ![s] = Held(Orphan)]
    /\ UNCHANGED <<taskVars, jobs, sources, lost>>

\* The task is over; what it leaves in the job table stays as it is.
BackToIdle(w) ==
    /\ pc' = [pc EXCEPT ![w] = "idle"]
    /\ target' = [target EXCEPT ![w] = NoSource]
    /\ myJob' = [myJob EXCEPT ![w] = NoJob]
    /\ seen' = [seen EXCEPT ![w] = NoJob]
    /\ attempt' = [attempt EXCEPT ![w] = 0]
    /\ elapsed' = [elapsed EXCEPT ![w] = 0]

\* The body ended, by return or by exception: the finally clause is next.
Leave(w) ==
    /\ pc' = [pc EXCEPT ![w] = "releasing"]
    /\ myJob' = [myJob EXCEPT ![w] = NoJob]
    /\ seen' = [seen EXCEPT ![w] = NoJob]
    /\ attempt' = [attempt EXCEPT ![w] = 0]
    /\ elapsed' = [elapsed EXCEPT ![w] = 0]
    /\ UNCHANGED target

\* Mutant: DEL without the comparison.
ReleaseAnyHolder(w) ==
    /\ pc[w] = "releasing"
    /\ lease' = [lease EXCEPT ![target[w]] = Free]
    /\ BackToIdle(w)
    /\ UNCHANGED <<jobs, sources, lost>>

\* The script deletes the key only if it still holds this crawl's token.
Release(w) ==
    /\ pc[w] = "releasing"
    /\ lease' = IF lease[target[w]].holder = w
                THEN [lease EXCEPT ![target[w]] = Free]
                ELSE lease
    /\ BackToIdle(w)
    /\ UNCHANGED <<jobs, sources, lost>>

\* The key outlives the task: it now holds a token nobody has.
Abandoned(w) ==
    IF target[w] \in Sources /\ lease[target[w]].holder = w
    THEN [lease EXCEPT ![target[w]].holder = Orphan]
    ELSE lease

\* Redis does not answer the script: RedisError out of the finally clause.
ReleaseFails(w) ==
    /\ pc[w] = "releasing"
    /\ lease' = Abandoned(w)
    /\ BackToIdle(w)
    /\ UNCHANGED <<jobs, sources, lost>>

\* The replica that runs the task dies.
Crash(w) ==
    /\ pc[w] # "idle"
    /\ lease' = Abandoned(w)
    /\ BackToIdle(w)
    /\ UNCHANGED <<jobs, sources, lost>>

\* Redis restarts without its last writes, or evicts the key.
LoseLease(s) ==
    /\ lease[s] # Free
    /\ lost[s] < MaxLosses
    /\ lease' = [lease EXCEPT ![s] = Free]
    /\ lost' = [lost EXCEPT ![s] = @ + 1]
    /\ UNCHANGED <<taskVars, jobs, sources>>

-----------------------------------------------------------------------------
(* The body of the crawl: SourceManagementService._crawl. *)

Goto(w, stage) ==
    /\ pc' = [pc EXCEPT ![w] = stage]
    /\ UNCHANGED <<lease, target, myJob, seen, elapsed, lost>>

\* get(), then `if not row.enabled`.
Load(w) ==
    /\ pc[w] = "loading"
    /\ IF sources[target[w]].enabled
       THEN Goto(w, "resolving") /\ UNCHANGED attempt
       ELSE Leave(w) /\ UNCHANGED <<lease, lost>>
    /\ UNCHANGED <<jobs, sources>>

\* public_host_check awaits a DNS answer; a private or unknown host raises before
\* there is a job row, so no failure is counted.
Resolve(w) ==
    /\ pc[w] = "resolving"
    /\ \/ Goto(w, "checking") /\ UNCHANGED attempt
       \/ Leave(w) /\ UNCHANGED <<lease, lost>>
    /\ UNCHANGED <<jobs, sources>>

\* Mutant: any running row is taken for dead.
AlwaysStale(j) == jobs[j].status = "running"

\* What started_at > now - 300 s may say on a replica whose clock is off by Skew.
MaySeemYoung(j) == jobs[j].age < JobLease + Skew
MaySeemStale(j) == jobs[j].age + Skew >= JobLease

\* The query for a running row returns one of them, if there is any.
CheckJobs(w) ==
    /\ pc[w] = "checking"
    /\ \/ /\ RunningJobs(target[w]) = {}
          /\ Goto(w, "inserting")
          /\ UNCHANGED attempt
       \/ /\ \E j \in RunningJobs(target[w]) : MaySeemYoung(j)
          /\ Leave(w)
          /\ UNCHANGED <<lease, lost>>
       \/ \E j \in RunningJobs(target[w]) :
            /\ MaySeemStale(j)
            /\ seen' = [seen EXCEPT ![w] = j]
            /\ pc' = [pc EXCEPT ![w] = "inserting"]
            /\ UNCHANGED <<lease, target, myJob, attempt, elapsed, lost>>
    /\ UNCHANGED <<jobs, sources>>

\* A row that is no longer running; its age does not matter any more.
Ended(row, status) == [status |-> status, source |-> row.source, age |-> 0]

\* 'Worker lease expired before completion'
Reaped(rows, j) ==
    IF j = NoJob THEN rows
    ELSE [rows EXCEPT ![j] = Ended(@, "failed")]

\* The commit of the same transaction: the stale row fails, the new one appears.
InsertJob(w, j) ==
    /\ pc[w] = "inserting"
    /\ Fresh(j)
    /\ jobs' = [Reaped(jobs, seen[w]) EXCEPT
                  ![j] = [status |-> "running", source |-> target[w], age |-> 0]]
    /\ myJob' = [myJob EXCEPT ![w] = j]
    /\ seen' = [seen EXCEPT ![w] = NoJob]
    /\ pc' = [pc EXCEPT ![w] = IF target[w] \in HtmlSources
                               THEN "robots" ELSE "fetching"]
    /\ UNCHANGED <<lease, target, attempt, elapsed, sources, lost>>

\* robots.txt was read and permits the crawl.
RobotsAllow(w) ==
    /\ pc[w] = "robots"
    /\ Goto(w, "fetching")
    /\ UNCHANGED <<attempt, jobs, sources>>

FetchOk(w) ==
    /\ pc[w] = "fetching"
    /\ Goto(w, "storing")
    /\ attempt' = [attempt EXCEPT ![w] = 0]
    /\ UNCHANGED <<jobs, sources>>

\* A retryable error before the last attempt: retry_count, sleep, once more.
FetchRetry(w) ==
    /\ pc[w] = "fetching"
    /\ attempt[w] < MaxAttempts - 1
    /\ attempt' = [attempt EXCEPT ![w] = @ + 1]
    /\ Goto(w, "fetching")
    /\ UNCHANGED <<jobs, sources>>

\* httpx.HTTPError, ValueError or TimeoutError inside the try: robots.txt forbids,
\* the last attempt failed, the content type or the text is unusable.
CaughtFailure(w) ==
    /\ pc[w] \in {"robots", "fetching", "storing"}
    /\ Goto(w, "failing")
    /\ attempt' = [attempt EXCEPT ![w] = 0]
    /\ UNCHANGED <<jobs, sources>>

\* The columns a crawl or a probe writes.
WithHealth(row, health, failures) ==
    [enabled |-> row.enabled, health |-> health, failures |-> failures]

Finish(w, status) == [jobs EXCEPT ![myJob[w]] = Ended(@, status)]

\* The last transaction: documents and alerts are in CrawlPipeline, here the row
\* is completed and the source healthy, whatever happened to the source meanwhile.
Complete(w) ==
    /\ pc[w] = "storing"
    /\ jobs' = Finish(w, "completed")
    /\ sources' = [sources EXCEPT ![target[w]] =
                     WithHealth(@, "HEALTHY", 0)]
    /\ Leave(w)
    /\ UNCHANGED <<lease, lost>>

\* The except clause: its own transaction, then the exception goes on.
RecordFailure(w) ==
    LET n == Bump(sources[target[w]].failures) IN
    /\ pc[w] = "failing"
    /\ jobs' = Finish(w, "failed")
    /\ sources' = [sources EXCEPT ![target[w]] =
                     WithHealth(@, IF n >= OfflineThreshold
                                   THEN "OFFLINE" ELSE "DEGRADED", n)]
    /\ Leave(w)
    /\ UNCHANGED <<lease, lost>>

\* Mutant: the timeout is put around the fetches only.
CancelFetchOnly(w) ==
    /\ pc[w] = "fetching"
    /\ elapsed[w] >= CrawlTimeout
    /\ Leave(w)
    /\ UNCHANGED <<lease, jobs, sources, lost>>

\* asyncio.timeout: a CancelledError goes through the body, no clause of which
\* catches it.  A row that was inserted stays "running".
Cancel(w) ==
    /\ pc[w] \in Body
    /\ elapsed[w] >= CrawlTimeout
    /\ Leave(w)
    /\ UNCHANGED <<lease, jobs, sources, lost>>

\* An error of the database (a broken connection, a unique key another crawl of
\* the tenant took first) is caught by no clause of the body either.
DatabaseError(w) ==
    /\ pc[w] \in Body
    /\ Leave(w)
    /\ UNCHANGED <<lease, jobs, sources, lost>>

-----------------------------------------------------------------------------
(* The other operations on a source, each one transaction under its row lock. *)

Switched(row, enabled, health) ==
    [enabled |-> enabled, health |-> health, failures |-> row.failures]

SetEnabled(s, enabled) ==
    /\ sources' = [sources EXCEPT ![s] =
                     Switched(@, enabled, IF enabled THEN "UNTESTED" ELSE "DISABLED")]
    /\ UNCHANGED <<lease, taskVars, jobs, lost>>

\* The archive: the row is kept.
Remove(s) ==
    /\ sources' = [sources EXCEPT ![s] =
                     Switched(@, FALSE, "DISABLED")]
    /\ UNCHANGED <<lease, taskVars, jobs, lost>>

\* Mutant: a good probe does not reset failure_count.
ValidateKeepsCount(s, valid) ==
    /\ sources' = [sources EXCEPT ![s] =
                     WithHealth(@, IF valid THEN "HEALTHY" ELSE "DEGRADED", @.failures)]
    /\ UNCHANGED <<lease, taskVars, jobs, lost>>

\* validate() carries nothing but the verdict of its probe to the row it locks.
Validate(s, valid) ==
    /\ sources' = [sources EXCEPT ![s] =
                     IF valid THEN WithHealth(@, "HEALTHY", 0)
                              ELSE WithHealth(@, "DEGRADED", @.failures)]
    /\ UNCHANGED <<lease, taskVars, jobs, lost>>

\* Time passes for keys, rows and tasks alike; no task outlives its deadline.
Tick ==
    /\ \A w \in Workers : pc[w] \in Body => elapsed[w] < Deadline
    /\ lease' = [s \in Sources |-> Aged(lease[s])]
    /\ elapsed' = [w \in Workers |->
                     IF pc[w] \in Body THEN elapsed[w] + 1 ELSE elapsed[w]]
    /\ jobs' = [j \in Jobs |->
                  IF jobs[j].status = "running" /\ jobs[j].age < JobLease + Skew
                  THEN [jobs[j] EXCEPT !.age = @ + 1] ELSE jobs[j]]
    /\ UNCHANGED <<pc, target, myJob, seen, attempt, sources, lost>>

Step(w) ==
    \/ Release(w) \/ ReleaseFails(w) \/ Crash(w)
    \/ Load(w) \/ Resolve(w) \/ CheckJobs(w)
    \/ RobotsAllow(w) \/ FetchOk(w) \/ FetchRetry(w) \/ CaughtFailure(w)
    \/ Complete(w) \/ RecordFailure(w) \/ Cancel(w) \/ DatabaseError(w)

Next ==
    \/ \E w \in Workers : Step(w)
    \/ \E w \in Workers, s \in Sources : Acquire(w, s)
    \/ \E w \in Workers, j \in Jobs : InsertJob(w, j)
    \/ \E s \in Sources : AcquireUnanswered(s) \/ LoseLease(s) \/ Remove(s)
    \/ \E s \in Sources, b \in BOOLEAN : SetEnabled(s, b) \/ Validate(s, b)
    \/ Tick

Spec == Init /\ [][Next]_vars

\* Time passes, the event loop delivers the cancellation and runs the finally
\* clause; nothing is assumed of the network, of users or of the database.
Fairness ==
    /\ WF_vars(Tick)
    /\ \A w \in Workers : WF_vars(Cancel(w)) /\ WF_vars(Release(w) \/ ReleaseFails(w))

FairSpec == Spec /\ Fairness

-----------------------------------------------------------------------------
(* Correctness. *)

\* At most one task crawls a source, as long as Redis has not forgotten a lease
\* of that source: the 409 of source_lock together with 240 + Grace < 300.
MutualExclusion ==
    \A v, w \in Workers, s \in Sources :
        lost[s] = 0 /\ InBody(v, s) /\ InBody(w, s) => v = w

\* Each forgotten lease lets at most one more task in and at most one more row
\* run: the compare-and-delete never frees the lease of another crawl, and the
\* look at the job table keeps orphan rows from piling up.
OverlapBoundedByLosses ==
    \A s \in Sources :
        /\ Cardinality({w \in Workers : InBody(w, s)}) <= 1 + lost[s]
        /\ Cardinality(RunningJobs(s)) <= 1 + lost[s]

\* The row of a crawl that still runs is never taken for dead by another crawl,
\* even when leases are lost: 'Worker lease expired' is only written of a worker
\* that is gone, so no crawl completes a row that was failed behind its back.
LiveJobNotReaped ==
    \A w \in Workers :
        pc[w] \in JobStages =>
            /\ myJob[w] \in RunningJobs(target[w])
            /\ \A v \in Workers : v # w => myJob[v] # myJob[w] /\ seen[v] # myJob[w]

\* Three failed crawls in a row stand behind OFFLINE, and HEALTHY has no failure
\* behind it, however crawls, probes and operators interleave.
HealthMatchesFailures ==
    \A s \in Sources :
        /\ sources[s].health = "OFFLINE" => sources[s].failures >= OfflineThreshold
        /\ sources[s].health = "HEALTHY" => sources[s].failures = 0

KeepsLease ==
    \A w \in Workers, s \in Sources :
        InBody(w, s) /\ InBody(w, s)' /\ lease[s].holder = w
            => lease'[s].holder = w \/ lost'[s] > lost[s]

\* A crawl in its body keeps the lease it took: it is not released by another
\* task, does not expire and is not granted twice, unless Redis forgets it.
LeaseKeptWhileCrawling == [][KeepsLease]_vars

\* A crawl ends: fetch retries, a server that never answers and a database that
\* hangs are all cut by the timeout.
CrawlTerminates == \A w \in Workers : pc[w] # "idle" ~> pc[w] = "idle"

\* A lease does not block its source for ever, not even the lease of a dead
\* replica or one whose release Redis did not answer.
LeaseFreed == \A s \in Sources : lease[s] # Free ~> lease[s] = Free

\* Nothing blocks a source for good: neither its crawl nor a lease nobody will release.
NothingBlocks == CrawlTerminates /\ LeaseFreed
=============================================================================
