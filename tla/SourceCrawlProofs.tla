------------------------- MODULE SourceCrawlProofs -------------------------
(***************************************************************************)
(* What holds of SourceCrawl for every number of sources, tasks and rows   *)
(* and for all durations that satisfy the assumptions of that module.      *)
(***************************************************************************)
EXTENDS SourceCrawl, FiniteSetTheorems, TLAPS

\* A task in its body holds the lease of its source unless Redis forgot one, and
\* the key and the task that holds it age together.
LeaseInv ==
    \A w \in Workers :
        pc[w] \in Body =>
            /\ target[w] \in Sources
            /\ lost[target[w]] = 0 => lease[target[w]].holder = w
            /\ lease[target[w]].holder = w =>
                 lease[target[w]].ttl + elapsed[w] = LeaseTTL

\* A task waiting to release has a source; elsewhere it has neither row nor time.
RestInv ==
    \A w \in Workers :
        /\ pc[w] = "releasing" => target[w] \in Sources
        /\ pc[w] \notin JobStages => myJob[w] = NoJob
        /\ pc[w] # "inserting" => seen[w] = NoJob
        /\ pc[w] \notin Body => elapsed[w] = 0

\* The row of a task that has one is running, of its source, and not older than
\* the task.
JobInv ==
    \A w \in Workers :
        pc[w] \in JobStages =>
            /\ myJob[w] \in Jobs
            /\ jobs[myJob[w]].status = "running"
            /\ jobs[myJob[w]].source = target[w]
            /\ jobs[myJob[w]].age <= elapsed[w]

\* No two tasks share a row.
OwnInv ==
    \A v, w \in Workers :
        pc[v] \in JobStages /\ pc[w] \in JobStages /\ v # w => myJob[v] # myJob[w]

\* A row a task is about to reap is old and of its source, unless somebody has ended it since.
SeenInv ==
    \A w \in Workers :
        seen[w] # NoJob =>
            /\ seen[w] \in Jobs
            /\ jobs[seen[w]].status = "running" =>
                 jobs[seen[w]].age + Skew >= JobLease /\ jobs[seen[w]].source = target[w]

IInv == TypeOK /\ LeaseInv /\ RestInv /\ JobInv /\ OwnInv /\ SeenInv

-----------------------------------------------------------------------------
LEMMA StagesFacts ==
    /\ JobStages \subseteq Body
    /\ Body \subseteq Stages
    /\ "idle" \in Stages /\ "idle" \notin Body
    /\ "releasing" \in Stages /\ "releasing" \notin Body
    /\ "inserting" \in Body /\ "inserting" \notin JobStages
  BY DEF JobStages, Body, Stages

LEMMA DeadlineType == Deadline \in Nat /\ Deadline > 0
  BY ConstantsAssumption DEF Deadline

\* The two assumptions, with the definitions they use unfolded once.
LEMMA Durations ==
    /\ LeaseTTL \in Nat /\ JobLease \in Nat /\ Skew \in Nat
    /\ Deadline < LeaseTTL
    /\ Deadline + Skew < JobLease
  BY ConstantsAssumption, LeaseAssumption, ReaperAssumption

LEMMA LeaveType ==
    ASSUME TasksOK, NEW w \in Workers, Leave(w)
    PROVE  TasksOK'
  BY DeadlineType DEF TasksOK, Leave, Stages, MaxAttempts

LEMMA IdleType ==
    ASSUME TasksOK, NEW w \in Workers, BackToIdle(w)
    PROVE  TasksOK'
  BY DeadlineType DEF TasksOK, BackToIdle, Stages, MaxAttempts

\* A row keeps its shape when its crawl or a reaper ends it, and as it ages.
LEMMA RowTypes ==
    ASSUME NEW row \in JobRow
    PROVE  /\ \A status \in JobStatus : Ended(row, status) \in JobRow
           /\ row.age < JobLease + Skew => [row EXCEPT !.age = @ + 1] \in JobRow
  BY ConstantsAssumption DEF JobRow, Ended

LEMMA FinishType ==
    ASSUME TypeOK, NEW w \in Workers, NEW status \in JobStatus
    PROVE  Finish(w, status) \in [Jobs -> JobRow]
  BY RowTypes DEF TypeOK, Finish

LEMMA ReapedType ==
    ASSUME TypeOK, NEW j \in Jobs \cup {NoJob}
    PROVE  Reaped(jobs, j) \in [Jobs -> JobRow]
  BY RowTypes DEF TypeOK, Reaped, JobStatus

LEMMA HealthTypes ==
    ASSUME NEW row \in SourceRow, NEW h \in Health
    PROVE  /\ row.failures \in 0..MaxFailures
           /\ \A n \in 0..MaxFailures : WithHealth(row, h, n) \in SourceRow
           /\ WithHealth(row, h, 0) \in SourceRow
           /\ WithHealth(row, h, row.failures) \in SourceRow
           /\ \A b \in BOOLEAN : Switched(row, b, h) \in SourceRow
  <1>1. row.enabled \in BOOLEAN /\ row.failures \in 0..MaxFailures
    BY Zenon DEF SourceRow
  <1>2. 0 \in 0..MaxFailures
    BY ConstantsAssumption
  <1> QED
    BY <1>1, <1>2, Zenon DEF SourceRow, WithHealth, Switched

LEMMA BumpType ==
    ASSUME NEW n \in 0..MaxFailures PROVE Bump(n) \in 0..MaxFailures
  BY ConstantsAssumption DEF Bump

LEMMA KeyTypes ==
    /\ Free \in LeaseKey
    /\ \A h \in Workers \cup {NoOne, Orphan} : Held(h) \in LeaseKey
    /\ \A k \in LeaseKey : /\ [k EXCEPT !.holder = Orphan] \in LeaseKey
                           /\ k.ttl > 1 => [k EXCEPT !.ttl = @ - 1] \in LeaseKey
  BY ConstantsAssumption DEF LeaseKey, Free, Held

LEMMA TypeStep == ASSUME IInv, [Next]_vars PROVE TypeOK'
  <1> USE ConstantsAssumption, DeadlineType DEF IInv, TypeOK, TasksOK, JobStages, Body,
     Stages, JobStatus, Health, MaxAttempts, OfflineThreshold
  <1>1. ASSUME NEW w \in Workers, NEW s \in Sources, Acquire(w, s) PROVE TypeOK'
    BY <1>1, KeyTypes DEF Acquire
  <1>2. ASSUME NEW w \in Workers, NEW j \in Jobs, InsertJob(w, j) PROVE TypeOK'
    <2>1. Reaped(jobs, seen[w]) \in [Jobs -> JobRow]
      BY ReapedType
    <2>2. [status |-> "running", source |-> target[w], age |-> 0] \in JobRow
      BY DEF JobRow
    <2> QED
      BY <1>2, <2>1, <2>2 DEF InsertJob
  <1>3. ASSUME NEW w \in Workers, Release(w) PROVE TypeOK'
    BY <1>3, IdleType, KeyTypes DEF Release
  <1>4. ASSUME NEW w \in Workers, ReleaseFails(w) PROVE TypeOK'
    BY <1>4, IdleType, KeyTypes DEF ReleaseFails, Abandoned
  <1>5. ASSUME NEW w \in Workers, Crash(w) PROVE TypeOK'
    BY <1>5, IdleType, KeyTypes DEF Crash, Abandoned
  <1>6. ASSUME NEW w \in Workers, Load(w) PROVE TypeOK'
    BY <1>6, LeaveType DEF Load, Goto
  <1>7. ASSUME NEW w \in Workers, Resolve(w) PROVE TypeOK'
    BY <1>7, LeaveType DEF Resolve, Goto
  <1>8. ASSUME NEW w \in Workers, CheckJobs(w) PROVE TypeOK'
    BY <1>8, LeaveType DEF CheckJobs, Goto, RunningJobs
  <1>9. ASSUME NEW w \in Workers, RobotsAllow(w) PROVE TypeOK'
    BY <1>9 DEF RobotsAllow, Goto
  <1>10. ASSUME NEW w \in Workers, FetchOk(w) PROVE TypeOK'
    BY <1>10 DEF FetchOk, Goto
  <1>11. ASSUME NEW w \in Workers, FetchRetry(w) PROVE TypeOK'
    BY <1>11 DEF FetchRetry, Goto
  <1>12. ASSUME NEW w \in Workers, CaughtFailure(w) PROVE TypeOK'
    BY <1>12 DEF CaughtFailure, Goto
  <1>13. ASSUME NEW w \in Workers, Complete(w) PROVE TypeOK'
    BY <1>13, LeaveType, FinishType, HealthTypes DEF Complete
  <1>14. ASSUME NEW w \in Workers, RecordFailure(w) PROVE TypeOK'
    <2>1. TasksOK' /\ jobs' \in [Jobs -> JobRow]
      BY <1>14, LeaveType, FinishType DEF RecordFailure
    <2>2. sources' \in [Sources -> SourceRow]
      BY <1>14, HealthTypes, BumpType DEF RecordFailure
    <2> QED
      BY <1>14, <2>1, <2>2 DEF RecordFailure
  <1>15. ASSUME NEW w \in Workers, Cancel(w) PROVE TypeOK'
    BY <1>15, LeaveType DEF Cancel
  <1>16. ASSUME NEW w \in Workers, DatabaseError(w) PROVE TypeOK'
    BY <1>16, LeaveType DEF DatabaseError
  <1>17. ASSUME NEW s \in Sources, AcquireUnanswered(s) PROVE TypeOK'
    BY <1>17, KeyTypes DEF AcquireUnanswered, taskVars
  <1>18. ASSUME NEW s \in Sources, LoseLease(s) PROVE TypeOK'
    BY <1>18, KeyTypes DEF LoseLease, taskVars
  <1>19. ASSUME NEW s \in Sources, Remove(s) PROVE TypeOK'
    BY <1>19, HealthTypes DEF Remove, taskVars
  <1>20. ASSUME NEW s \in Sources, NEW b \in BOOLEAN, SetEnabled(s, b) PROVE TypeOK'
    BY <1>20, HealthTypes DEF SetEnabled, taskVars
  <1>21. ASSUME NEW s \in Sources, NEW b \in BOOLEAN, Validate(s, b) PROVE TypeOK'
    <2>1. CASE b
      BY <1>21, <2>1, HealthTypes DEF Validate, taskVars
    <2>2. CASE ~b
      BY <1>21, <2>2, HealthTypes DEF Validate, taskVars
    <2> QED
      BY <2>1, <2>2
  <1>22. ASSUME Tick PROVE TypeOK'
    <2>1. lease' \in [Sources -> LeaseKey]
      BY <1>22, KeyTypes DEF Tick, Aged, LeaseKey
    <2>2. jobs' \in [Jobs -> JobRow]
      BY <1>22, RowTypes DEF Tick, Aged
    <2>3. elapsed' \in [Workers -> 0..Deadline]
      BY <1>22 DEF Tick
    <2> QED
      BY <1>22, <2>1, <2>2, <2>3 DEF Tick
  <1>23. CASE UNCHANGED vars
    BY <1>23 DEF vars
  <1> QED
    BY <1>1, <1>2, <1>3, <1>4, <1>5, <1>6, <1>7, <1>8, <1>9, <1>10, <1>11, <1>12, <1>13,
       <1>14, <1>15, <1>16, <1>17, <1>18, <1>19, <1>20, <1>21, <1>22, <1>23 DEF Next, Step

LEMMA LeaseStep == ASSUME IInv, [Next]_vars PROVE LeaseInv'
  <1> USE ConstantsAssumption, Durations, DeadlineType DEF IInv, TypeOK, TasksOK,
     LeaseKey, JobRow, SourceRow, JobStages, Body, Stages, LeaseInv, RestInv, Held, Free
  <1>1. ASSUME NEW w \in Workers, NEW s \in Sources, Acquire(w, s) PROVE LeaseInv'
    BY <1>1 DEF Acquire
  <1>2. ASSUME NEW w \in Workers, NEW j \in Jobs, InsertJob(w, j) PROVE LeaseInv'
    BY <1>2 DEF InsertJob, Reaped
  <1>3. ASSUME NEW w \in Workers, Release(w) PROVE LeaseInv'
    BY <1>3 DEF Release, BackToIdle
  <1>4. ASSUME NEW w \in Workers, ReleaseFails(w) PROVE LeaseInv'
    BY <1>4 DEF ReleaseFails, Abandoned, BackToIdle
  <1>5. ASSUME NEW w \in Workers, Crash(w) PROVE LeaseInv'
    BY <1>5 DEF Crash, Abandoned, BackToIdle
  <1>6. ASSUME NEW w \in Workers, Load(w) PROVE LeaseInv'
    BY <1>6 DEF Load, Goto, Leave
  <1>7. ASSUME NEW w \in Workers, Resolve(w) PROVE LeaseInv'
    BY <1>7 DEF Resolve, Goto, Leave
  <1>8. ASSUME NEW w \in Workers, CheckJobs(w) PROVE LeaseInv'
    <2>1. UNCHANGED <<lease, lost, target, elapsed>> \/ pc'[w] = "releasing"
      BY <1>8 DEF CheckJobs, Goto, Leave
    <2>2. UNCHANGED <<lease, lost, target>>
      BY <1>8 DEF CheckJobs, Goto, Leave
    <2>3. \A v \in Workers : v # w => pc'[v] = pc[v] /\ elapsed'[v] = elapsed[v]
      BY <1>8 DEF CheckJobs, Goto, Leave
    <2>4. pc[w] \in Body
      BY <1>8 DEF CheckJobs
    <2> QED
      BY <2>1, <2>2, <2>3, <2>4
  <1>9. ASSUME NEW w \in Workers, RobotsAllow(w) PROVE LeaseInv'
    BY <1>9 DEF RobotsAllow, Goto
  <1>10. ASSUME NEW w \in Workers, FetchOk(w) PROVE LeaseInv'
    BY <1>10 DEF FetchOk, Goto
  <1>11. ASSUME NEW w \in Workers, FetchRetry(w) PROVE LeaseInv'
    BY <1>11 DEF FetchRetry, Goto
  <1>12. ASSUME NEW w \in Workers, CaughtFailure(w) PROVE LeaseInv'
    BY <1>12 DEF CaughtFailure, Goto
  <1>13. ASSUME NEW w \in Workers, Complete(w) PROVE LeaseInv'
    BY <1>13 DEF Complete, Finish, Leave
  <1>14. ASSUME NEW w \in Workers, RecordFailure(w) PROVE LeaseInv'
    BY <1>14 DEF RecordFailure, Finish, Bump, Leave
  <1>15. ASSUME NEW w \in Workers, Cancel(w) PROVE LeaseInv'
    BY <1>15 DEF Cancel, Leave
  <1>16. ASSUME NEW w \in Workers, DatabaseError(w) PROVE LeaseInv'
    BY <1>16 DEF DatabaseError, Leave
  <1>17. ASSUME NEW s \in Sources, AcquireUnanswered(s) PROVE LeaseInv'
    BY <1>17 DEF AcquireUnanswered, taskVars
  <1>18. ASSUME NEW s \in Sources, LoseLease(s) PROVE LeaseInv'
    BY <1>18 DEF LoseLease, taskVars
  <1>19. ASSUME NEW s \in Sources, Remove(s) PROVE LeaseInv'
    BY <1>19 DEF Remove, taskVars
  <1>20. ASSUME NEW s \in Sources, NEW b \in BOOLEAN, SetEnabled(s, b) PROVE LeaseInv'
    BY <1>20 DEF SetEnabled, taskVars
  <1>21. ASSUME NEW s \in Sources, NEW b \in BOOLEAN, Validate(s, b) PROVE LeaseInv'
    BY <1>21 DEF Validate, taskVars
  <1>22. ASSUME Tick PROVE LeaseInv'
    <2> SUFFICES ASSUME NEW w \in Workers, pc[w] \in Body
                 PROVE  /\ target[w] \in Sources
                        /\ lost[target[w]] = 0 => lease'[target[w]].holder = w
                        /\ lease'[target[w]].holder = w =>
                             lease'[target[w]].ttl + elapsed'[w] = LeaseTTL
      BY <1>22 DEF Tick
    <2>1. target[w] \in Sources
      OBVIOUS
    <2>2. elapsed[w] < Deadline /\ elapsed'[w] = elapsed[w] + 1
      BY <1>22 DEF Tick
    <2>3. ASSUME lease[target[w]].holder = w
          PROVE  /\ lease'[target[w]].holder = w
                 /\ lease'[target[w]].ttl + elapsed'[w] = LeaseTTL
      <3>1. lease[target[w]].ttl + elapsed[w] = LeaseTTL
        BY <2>3
      <3>2. lease[target[w]].ttl > 1
        BY <2>1, <2>2, <3>1
      <3>3. lease'[target[w]] = [lease[target[w]] EXCEPT !.ttl = @ - 1]
        BY <1>22, <2>1, <3>2 DEF Tick, Aged
      <3> QED
        BY <2>1, <2>2, <2>3, <3>1, <3>2, <3>3
    <2>4. ASSUME lease'[target[w]].holder = w
          PROVE  lease[target[w]].holder = w
      BY <1>22, <2>1, <2>4 DEF Tick, Aged
    <2> QED
      BY <2>1, <2>3, <2>4
  <1>23. CASE UNCHANGED vars
    BY <1>23 DEF vars
  <1> QED
    BY <1>1, <1>2, <1>3, <1>4, <1>5, <1>6, <1>7, <1>8, <1>9, <1>10, <1>11, <1>12, <1>13,
       <1>14, <1>15, <1>16, <1>17, <1>18, <1>19, <1>20, <1>21, <1>22, <1>23 DEF Next, Step

LEMMA RestStep == ASSUME IInv, [Next]_vars PROVE RestInv'
  <1> USE ConstantsAssumption DEF IInv, TypeOK, TasksOK, LeaseKey, JobRow, SourceRow,
     JobStages, Body, Stages, LeaseInv, RestInv
  <1>1. ASSUME NEW w \in Workers, NEW s \in Sources, Acquire(w, s) PROVE RestInv'
    BY <1>1 DEF Acquire
  <1>2. ASSUME NEW w \in Workers, NEW j \in Jobs, InsertJob(w, j) PROVE RestInv'
    BY <1>2 DEF InsertJob, Reaped
  <1>3. ASSUME NEW w \in Workers, Release(w) PROVE RestInv'
    BY <1>3 DEF Release, BackToIdle
  <1>4. ASSUME NEW w \in Workers, ReleaseFails(w) PROVE RestInv'
    BY <1>4 DEF ReleaseFails, Abandoned, BackToIdle
  <1>5. ASSUME NEW w \in Workers, Crash(w) PROVE RestInv'
    BY <1>5 DEF Crash, Abandoned, BackToIdle
  <1>6. ASSUME NEW w \in Workers, Load(w) PROVE RestInv'
    BY <1>6 DEF Load, Goto, Leave
  <1>7. ASSUME NEW w \in Workers, Resolve(w) PROVE RestInv'
    BY <1>7 DEF Resolve, Goto, Leave
  <1>8. ASSUME NEW w \in Workers, CheckJobs(w) PROVE RestInv'
    BY <1>8 DEF CheckJobs, Goto, Leave, RunningJobs, MaySeemYoung, MaySeemStale
  <1>9. ASSUME NEW w \in Workers, RobotsAllow(w) PROVE RestInv'
    BY <1>9 DEF RobotsAllow, Goto
  <1>10. ASSUME NEW w \in Workers, FetchOk(w) PROVE RestInv'
    BY <1>10 DEF FetchOk, Goto
  <1>11. ASSUME NEW w \in Workers, FetchRetry(w) PROVE RestInv'
    BY <1>11 DEF FetchRetry, Goto
  <1>12. ASSUME NEW w \in Workers, CaughtFailure(w) PROVE RestInv'
    BY <1>12 DEF CaughtFailure, Goto
  <1>13. ASSUME NEW w \in Workers, Complete(w) PROVE RestInv'
    BY <1>13 DEF Complete, Finish, Leave
  <1>14. ASSUME NEW w \in Workers, RecordFailure(w) PROVE RestInv'
    BY <1>14 DEF RecordFailure, Finish, Bump, Leave
  <1>15. ASSUME NEW w \in Workers, Cancel(w) PROVE RestInv'
    BY <1>15 DEF Cancel, Leave
  <1>16. ASSUME NEW w \in Workers, DatabaseError(w) PROVE RestInv'
    BY <1>16 DEF DatabaseError, Leave
  <1>17. ASSUME NEW s \in Sources, AcquireUnanswered(s) PROVE RestInv'
    BY <1>17 DEF AcquireUnanswered, taskVars
  <1>18. ASSUME NEW s \in Sources, LoseLease(s) PROVE RestInv'
    BY <1>18 DEF LoseLease, taskVars
  <1>19. ASSUME NEW s \in Sources, Remove(s) PROVE RestInv'
    BY <1>19 DEF Remove, taskVars
  <1>20. ASSUME NEW s \in Sources, NEW b \in BOOLEAN, SetEnabled(s, b) PROVE RestInv'
    BY <1>20 DEF SetEnabled, taskVars
  <1>21. ASSUME NEW s \in Sources, NEW b \in BOOLEAN, Validate(s, b) PROVE RestInv'
    BY <1>21 DEF Validate, taskVars
  <1>22. ASSUME Tick PROVE RestInv'
    BY <1>22 DEF Tick
  <1>23. CASE UNCHANGED vars
    BY <1>23 DEF vars
  <1> QED
    BY <1>1, <1>2, <1>3, <1>4, <1>5, <1>6, <1>7, <1>8, <1>9, <1>10, <1>11, <1>12, <1>13,
       <1>14, <1>15, <1>16, <1>17, <1>18, <1>19, <1>20, <1>21, <1>22, <1>23 DEF Next, Step

LEMMA JobStep == ASSUME IInv, [Next]_vars PROVE JobInv'
  <1> USE ConstantsAssumption, Durations, DeadlineType DEF IInv, TypeOK, TasksOK,
     LeaseKey, JobRow, SourceRow, JobStages, Body, Stages, LeaseInv, RestInv, JobInv,
     OwnInv, SeenInv, Fresh
  <1>1. ASSUME NEW w \in Workers, NEW s \in Sources, Acquire(w, s) PROVE JobInv'
    BY <1>1 DEF Acquire
  <1>2. ASSUME NEW w \in Workers, NEW j \in Jobs, InsertJob(w, j) PROVE JobInv'
    <2> SUFFICES ASSUME NEW v \in Workers, pc'[v] \in JobStages
                 PROVE  /\ myJob'[v] \in Jobs
                        /\ jobs'[myJob'[v]].status = "running"
                        /\ jobs'[myJob'[v]].source = target'[v]
                        /\ jobs'[myJob'[v]].age <= elapsed'[v]
      OBVIOUS
    <2>1. UNCHANGED <<target, elapsed>>
      BY <1>2 DEF InsertJob
    <2>2. CASE v = w
      <3>1. myJob'[w] = j
        BY <1>2 DEF InsertJob
      <3>2. jobs'[j] = [status |-> "running", source |-> target[w], age |-> 0]
        BY <1>2 DEF InsertJob, Reaped
      <3> QED
        BY <2>1, <2>2, <3>1, <3>2
    <2>3. CASE v # w
      <3>1. pc[v] \in JobStages /\ myJob'[v] = myJob[v]
        BY <1>2, <2>3 DEF InsertJob
      <3>2. myJob[v] \in Jobs /\ myJob[v] # j
        BY <1>2, <3>1 DEF InsertJob
      <3>3. jobs[myJob[v]].status = "running" /\ jobs[myJob[v]].age + Skew < JobLease
        BY <3>1
      <3>4. myJob[v] # seen[w]
        BY <3>2, <3>3
      <3>5. jobs'[myJob[v]] = jobs[myJob[v]]
        BY <1>2, <3>2, <3>4 DEF InsertJob, Reaped
      <3> QED
        BY <2>1, <3>1, <3>5
    <2> QED
      BY <2>2, <2>3
  <1>3. ASSUME NEW w \in Workers, Release(w) PROVE JobInv'
    BY <1>3 DEF Release, BackToIdle
  <1>4. ASSUME NEW w \in Workers, ReleaseFails(w) PROVE JobInv'
    BY <1>4 DEF ReleaseFails, Abandoned, BackToIdle
  <1>5. ASSUME NEW w \in Workers, Crash(w) PROVE JobInv'
    BY <1>5 DEF Crash, Abandoned, BackToIdle
  <1>6. ASSUME NEW w \in Workers, Load(w) PROVE JobInv'
    BY <1>6 DEF Load, Goto, Leave
  <1>7. ASSUME NEW w \in Workers, Resolve(w) PROVE JobInv'
    BY <1>7 DEF Resolve, Goto, Leave
  <1>8. ASSUME NEW w \in Workers, CheckJobs(w) PROVE JobInv'
    BY <1>8 DEF CheckJobs, Goto, Leave, RunningJobs, MaySeemYoung, MaySeemStale
  <1>9. ASSUME NEW w \in Workers, RobotsAllow(w) PROVE JobInv'
    BY <1>9 DEF RobotsAllow, Goto
  <1>10. ASSUME NEW w \in Workers, FetchOk(w) PROVE JobInv'
    BY <1>10 DEF FetchOk, Goto
  <1>11. ASSUME NEW w \in Workers, FetchRetry(w) PROVE JobInv'
    BY <1>11 DEF FetchRetry, Goto
  <1>12. ASSUME NEW w \in Workers, CaughtFailure(w) PROVE JobInv'
    BY <1>12 DEF CaughtFailure, Goto
  <1>13. ASSUME NEW w \in Workers, Complete(w) PROVE JobInv'
    BY <1>13 DEF Complete, Finish, Leave
  <1>14. ASSUME NEW w \in Workers, RecordFailure(w) PROVE JobInv'
    BY <1>14 DEF RecordFailure, Finish, Bump, Leave
  <1>15. ASSUME NEW w \in Workers, Cancel(w) PROVE JobInv'
    BY <1>15 DEF Cancel, Leave
  <1>16. ASSUME NEW w \in Workers, DatabaseError(w) PROVE JobInv'
    BY <1>16 DEF DatabaseError, Leave
  <1>17. ASSUME NEW s \in Sources, AcquireUnanswered(s) PROVE JobInv'
    BY <1>17 DEF AcquireUnanswered, taskVars
  <1>18. ASSUME NEW s \in Sources, LoseLease(s) PROVE JobInv'
    BY <1>18 DEF LoseLease, taskVars
  <1>19. ASSUME NEW s \in Sources, Remove(s) PROVE JobInv'
    BY <1>19 DEF Remove, taskVars
  <1>20. ASSUME NEW s \in Sources, NEW b \in BOOLEAN, SetEnabled(s, b) PROVE JobInv'
    BY <1>20 DEF SetEnabled, taskVars
  <1>21. ASSUME NEW s \in Sources, NEW b \in BOOLEAN, Validate(s, b) PROVE JobInv'
    BY <1>21 DEF Validate, taskVars
  <1>22. ASSUME Tick PROVE JobInv'
    BY <1>22 DEF Tick
  <1>23. CASE UNCHANGED vars
    BY <1>23 DEF vars
  <1> QED
    BY <1>1, <1>2, <1>3, <1>4, <1>5, <1>6, <1>7, <1>8, <1>9, <1>10, <1>11, <1>12, <1>13,
       <1>14, <1>15, <1>16, <1>17, <1>18, <1>19, <1>20, <1>21, <1>22, <1>23 DEF Next, Step

LEMMA OwnStep == ASSUME IInv, [Next]_vars PROVE OwnInv'
  <1> USE ConstantsAssumption DEF IInv, TypeOK, TasksOK, LeaseKey, JobRow, SourceRow,
     JobStages, Body, Stages, RestInv, JobInv, OwnInv, Fresh
  <1>1. ASSUME NEW w \in Workers, NEW s \in Sources, Acquire(w, s) PROVE OwnInv'
    BY <1>1 DEF Acquire
  <1>2. ASSUME NEW w \in Workers, NEW j \in Jobs, InsertJob(w, j) PROVE OwnInv'
    BY <1>2 DEF InsertJob, Reaped
  <1>3. ASSUME NEW w \in Workers, Release(w) PROVE OwnInv'
    BY <1>3 DEF Release, BackToIdle
  <1>4. ASSUME NEW w \in Workers, ReleaseFails(w) PROVE OwnInv'
    BY <1>4 DEF ReleaseFails, Abandoned, BackToIdle
  <1>5. ASSUME NEW w \in Workers, Crash(w) PROVE OwnInv'
    BY <1>5 DEF Crash, Abandoned, BackToIdle
  <1>6. ASSUME NEW w \in Workers, Load(w) PROVE OwnInv'
    BY <1>6 DEF Load, Goto, Leave
  <1>7. ASSUME NEW w \in Workers, Resolve(w) PROVE OwnInv'
    BY <1>7 DEF Resolve, Goto, Leave
  <1>8. ASSUME NEW w \in Workers, CheckJobs(w) PROVE OwnInv'
    BY <1>8 DEF CheckJobs, Goto, Leave, RunningJobs, MaySeemYoung, MaySeemStale
  <1>9. ASSUME NEW w \in Workers, RobotsAllow(w) PROVE OwnInv'
    BY <1>9 DEF RobotsAllow, Goto
  <1>10. ASSUME NEW w \in Workers, FetchOk(w) PROVE OwnInv'
    BY <1>10 DEF FetchOk, Goto
  <1>11. ASSUME NEW w \in Workers, FetchRetry(w) PROVE OwnInv'
    BY <1>11 DEF FetchRetry, Goto
  <1>12. ASSUME NEW w \in Workers, CaughtFailure(w) PROVE OwnInv'
    BY <1>12 DEF CaughtFailure, Goto
  <1>13. ASSUME NEW w \in Workers, Complete(w) PROVE OwnInv'
    BY <1>13 DEF Complete, Finish, Leave
  <1>14. ASSUME NEW w \in Workers, RecordFailure(w) PROVE OwnInv'
    BY <1>14 DEF RecordFailure, Finish, Bump, Leave
  <1>15. ASSUME NEW w \in Workers, Cancel(w) PROVE OwnInv'
    BY <1>15 DEF Cancel, Leave
  <1>16. ASSUME NEW w \in Workers, DatabaseError(w) PROVE OwnInv'
    BY <1>16 DEF DatabaseError, Leave
  <1>17. ASSUME NEW s \in Sources, AcquireUnanswered(s) PROVE OwnInv'
    BY <1>17 DEF AcquireUnanswered, taskVars
  <1>18. ASSUME NEW s \in Sources, LoseLease(s) PROVE OwnInv'
    BY <1>18 DEF LoseLease, taskVars
  <1>19. ASSUME NEW s \in Sources, Remove(s) PROVE OwnInv'
    BY <1>19 DEF Remove, taskVars
  <1>20. ASSUME NEW s \in Sources, NEW b \in BOOLEAN, SetEnabled(s, b) PROVE OwnInv'
    BY <1>20 DEF SetEnabled, taskVars
  <1>21. ASSUME NEW s \in Sources, NEW b \in BOOLEAN, Validate(s, b) PROVE OwnInv'
    BY <1>21 DEF Validate, taskVars
  <1>22. ASSUME Tick PROVE OwnInv'
    BY <1>22 DEF Tick
  <1>23. CASE UNCHANGED vars
    BY <1>23 DEF vars
  <1> QED
    BY <1>1, <1>2, <1>3, <1>4, <1>5, <1>6, <1>7, <1>8, <1>9, <1>10, <1>11, <1>12, <1>13,
       <1>14, <1>15, <1>16, <1>17, <1>18, <1>19, <1>20, <1>21, <1>22, <1>23 DEF Next, Step

LEMMA SeenStep == ASSUME IInv, [Next]_vars PROVE SeenInv'
  <1> USE ConstantsAssumption, Durations, DeadlineType DEF IInv, TypeOK, TasksOK,
     LeaseKey, JobRow, SourceRow, JobStages, Body, Stages, RestInv, SeenInv, Ended,
     JobStatus, Fresh, RunningJobs, MaySeemStale
  <1>1. ASSUME NEW w \in Workers, NEW s \in Sources, Acquire(w, s) PROVE SeenInv'
    BY <1>1 DEF Acquire
  <1>2. ASSUME NEW w \in Workers, NEW j \in Jobs, InsertJob(w, j) PROVE SeenInv'
    <2> SUFFICES ASSUME NEW v \in Workers, seen'[v] # NoJob
                 PROVE  /\ seen'[v] \in Jobs
                        /\ jobs'[seen'[v]].status = "running"
                             => /\ jobs'[seen'[v]].age + Skew >= JobLease
                                /\ jobs'[seen'[v]].source = target'[v]
      OBVIOUS
    <2>1. seen'[v] = seen[v] /\ v # w /\ target' = target
      BY <1>2 DEF InsertJob
    <2>2. seen[v] \in Jobs /\ seen[v] # j
      BY <1>2, <2>1 DEF InsertJob
    <2>3. CASE seen[w] = seen[v]
      <3>1. jobs'[seen[v]].status = "failed"
        BY <1>2, <2>1, <2>2, <2>3 DEF InsertJob, Reaped, Ended
      <3> QED
        BY <2>1, <2>2, <3>1
    <2>4. CASE seen[w] # seen[v]
      <3>1. jobs'[seen[v]] = jobs[seen[v]]
        BY <1>2, <2>2, <2>4 DEF InsertJob, Reaped
      <3> QED
        BY <2>1, <2>2, <3>1
    <2> QED
      BY <2>3, <2>4
  <1>3. ASSUME NEW w \in Workers, Release(w) PROVE SeenInv'
    BY <1>3 DEF Release, BackToIdle
  <1>4. ASSUME NEW w \in Workers, ReleaseFails(w) PROVE SeenInv'
    BY <1>4 DEF ReleaseFails, Abandoned, BackToIdle
  <1>5. ASSUME NEW w \in Workers, Crash(w) PROVE SeenInv'
    BY <1>5 DEF Crash, Abandoned, BackToIdle
  <1>6. ASSUME NEW w \in Workers, Load(w) PROVE SeenInv'
    BY <1>6 DEF Load, Goto, Leave
  <1>7. ASSUME NEW w \in Workers, Resolve(w) PROVE SeenInv'
    BY <1>7 DEF Resolve, Goto, Leave
  <1>8. ASSUME NEW w \in Workers, CheckJobs(w) PROVE SeenInv'
    BY <1>8 DEF CheckJobs, Goto, Leave, RunningJobs, MaySeemYoung, MaySeemStale
  <1>9. ASSUME NEW w \in Workers, RobotsAllow(w) PROVE SeenInv'
    BY <1>9 DEF RobotsAllow, Goto
  <1>10. ASSUME NEW w \in Workers, FetchOk(w) PROVE SeenInv'
    BY <1>10 DEF FetchOk, Goto
  <1>11. ASSUME NEW w \in Workers, FetchRetry(w) PROVE SeenInv'
    BY <1>11 DEF FetchRetry, Goto
  <1>12. ASSUME NEW w \in Workers, CaughtFailure(w) PROVE SeenInv'
    BY <1>12 DEF CaughtFailure, Goto
  <1>13. ASSUME NEW w \in Workers, Complete(w) PROVE SeenInv'
    BY <1>13 DEF Complete, Finish, Leave
  <1>14. ASSUME NEW w \in Workers, RecordFailure(w) PROVE SeenInv'
    BY <1>14 DEF RecordFailure, Finish, Bump, Leave
  <1>15. ASSUME NEW w \in Workers, Cancel(w) PROVE SeenInv'
    BY <1>15 DEF Cancel, Leave
  <1>16. ASSUME NEW w \in Workers, DatabaseError(w) PROVE SeenInv'
    BY <1>16 DEF DatabaseError, Leave
  <1>17. ASSUME NEW s \in Sources, AcquireUnanswered(s) PROVE SeenInv'
    BY <1>17 DEF AcquireUnanswered, taskVars
  <1>18. ASSUME NEW s \in Sources, LoseLease(s) PROVE SeenInv'
    BY <1>18 DEF LoseLease, taskVars
  <1>19. ASSUME NEW s \in Sources, Remove(s) PROVE SeenInv'
    BY <1>19 DEF Remove, taskVars
  <1>20. ASSUME NEW s \in Sources, NEW b \in BOOLEAN, SetEnabled(s, b) PROVE SeenInv'
    BY <1>20 DEF SetEnabled, taskVars
  <1>21. ASSUME NEW s \in Sources, NEW b \in BOOLEAN, Validate(s, b) PROVE SeenInv'
    BY <1>21 DEF Validate, taskVars
  <1>22. ASSUME Tick PROVE SeenInv'
    BY <1>22 DEF Tick
  <1>23. CASE UNCHANGED vars
    BY <1>23 DEF vars
  <1> QED
    BY <1>1, <1>2, <1>3, <1>4, <1>5, <1>6, <1>7, <1>8, <1>9, <1>10, <1>11, <1>12, <1>13,
       <1>14, <1>15, <1>16, <1>17, <1>18, <1>19, <1>20, <1>21, <1>22, <1>23 DEF Next, Step

LEMMA KeepStep ==
    ASSUME IInv, [Next]_vars, NEW v \in Workers, NEW r \in Sources,
           InBody(v, r), InBody(v, r)', lease[r].holder = v
    PROVE  lease'[r].holder = v \/ lost'[r] > lost[r]
  <1> USE ConstantsAssumption, DeadlineType, Durations DEF IInv, TypeOK, TasksOK,
     LeaseKey, LeaseInv, InBody, JobStages, Body, Free, Held
  <1>1. ASSUME NEW w \in Workers, NEW s \in Sources, Acquire(w, s)
        PROVE lease'[r].holder = v \/ lost'[r] > lost[r]
    BY <1>1 DEF Acquire
  <1>2. ASSUME NEW w \in Workers, NEW j \in Jobs, InsertJob(w, j)
        PROVE lease'[r].holder = v \/ lost'[r] > lost[r]
    BY <1>2 DEF InsertJob, Reaped
  <1>3. ASSUME NEW w \in Workers, Release(w)
        PROVE lease'[r].holder = v \/ lost'[r] > lost[r]
    BY <1>3 DEF Release, BackToIdle
  <1>4. ASSUME NEW w \in Workers, ReleaseFails(w)
        PROVE lease'[r].holder = v \/ lost'[r] > lost[r]
    BY <1>4 DEF ReleaseFails, Abandoned, BackToIdle
  <1>5. ASSUME NEW w \in Workers, Crash(w) PROVE lease'[r].holder = v \/ lost'[r] > lost[r]
    BY <1>5 DEF Crash, Abandoned, BackToIdle
  <1>6. ASSUME NEW w \in Workers, Load(w) PROVE lease'[r].holder = v \/ lost'[r] > lost[r]
    BY <1>6 DEF Load, Goto, Leave
  <1>7. ASSUME NEW w \in Workers, Resolve(w)
        PROVE lease'[r].holder = v \/ lost'[r] > lost[r]
    BY <1>7 DEF Resolve, Goto, Leave
  <1>8. ASSUME NEW w \in Workers, CheckJobs(w)
        PROVE lease'[r].holder = v \/ lost'[r] > lost[r]
    BY <1>8 DEF CheckJobs, Goto, Leave, RunningJobs, MaySeemYoung, MaySeemStale
  <1>9. ASSUME NEW w \in Workers, RobotsAllow(w)
        PROVE lease'[r].holder = v \/ lost'[r] > lost[r]
    BY <1>9 DEF RobotsAllow, Goto
  <1>10. ASSUME NEW w \in Workers, FetchOk(w)
         PROVE lease'[r].holder = v \/ lost'[r] > lost[r]
    BY <1>10 DEF FetchOk, Goto
  <1>11. ASSUME NEW w \in Workers, FetchRetry(w)
         PROVE lease'[r].holder = v \/ lost'[r] > lost[r]
    BY <1>11 DEF FetchRetry, Goto
  <1>12. ASSUME NEW w \in Workers, CaughtFailure(w)
         PROVE lease'[r].holder = v \/ lost'[r] > lost[r]
    BY <1>12 DEF CaughtFailure, Goto
  <1>13. ASSUME NEW w \in Workers, Complete(w)
         PROVE lease'[r].holder = v \/ lost'[r] > lost[r]
    BY <1>13 DEF Complete, Finish, Leave
  <1>14. ASSUME NEW w \in Workers, RecordFailure(w)
         PROVE lease'[r].holder = v \/ lost'[r] > lost[r]
    BY <1>14 DEF RecordFailure, Finish, Bump, Leave
  <1>15. ASSUME NEW w \in Workers, Cancel(w)
         PROVE lease'[r].holder = v \/ lost'[r] > lost[r]
    BY <1>15 DEF Cancel, Leave
  <1>16. ASSUME NEW w \in Workers, DatabaseError(w)
         PROVE lease'[r].holder = v \/ lost'[r] > lost[r]
    BY <1>16 DEF DatabaseError, Leave
  <1>17. ASSUME NEW s \in Sources, AcquireUnanswered(s)
         PROVE lease'[r].holder = v \/ lost'[r] > lost[r]
    BY <1>17 DEF AcquireUnanswered, taskVars
  <1>18. ASSUME NEW s \in Sources, LoseLease(s)
         PROVE lease'[r].holder = v \/ lost'[r] > lost[r]
    BY <1>18 DEF LoseLease, taskVars
  <1>19. ASSUME NEW s \in Sources, Remove(s)
         PROVE lease'[r].holder = v \/ lost'[r] > lost[r]
    BY <1>19 DEF Remove, taskVars
  <1>20. ASSUME NEW s \in Sources, NEW b \in BOOLEAN, SetEnabled(s, b)
         PROVE lease'[r].holder = v \/ lost'[r] > lost[r]
    BY <1>20 DEF SetEnabled, taskVars
  <1>21. ASSUME NEW s \in Sources, NEW b \in BOOLEAN, Validate(s, b)
         PROVE lease'[r].holder = v \/ lost'[r] > lost[r]
    BY <1>21 DEF Validate, taskVars
  <1>22. ASSUME Tick PROVE lease'[r].holder = v \/ lost'[r] > lost[r]
    BY <1>22 DEF Tick, Aged
  <1>23. CASE UNCHANGED vars
    BY <1>23 DEF vars
  <1> QED
    BY <1>1, <1>2, <1>3, <1>4, <1>5, <1>6, <1>7, <1>8, <1>9, <1>10, <1>11, <1>12, <1>13,
       <1>14, <1>15, <1>16, <1>17, <1>18, <1>19, <1>20, <1>21, <1>22, <1>23 DEF Next, Step

LEMMA Live == IInv => LiveJobNotReaped
  <1> SUFFICES ASSUME IInv, NEW w \in Workers, pc[w] \in JobStages
               PROVE  /\ myJob[w] \in RunningJobs(target[w])
                      /\ \A v \in Workers : v # w =>
                           myJob[v] # myJob[w] /\ seen[v] # myJob[w]
    BY DEF LiveJobNotReaped
  <1>1. myJob[w] \in RunningJobs(target[w])
    BY DEF IInv, JobInv, RunningJobs
  <1>2. ASSUME NEW v \in Workers, v # w PROVE myJob[v] # myJob[w]
    <2>1. CASE pc[v] \in JobStages
      BY <1>2, <2>1 DEF IInv, OwnInv
    <2>2. CASE pc[v] \notin JobStages
      BY <2>2, ConstantsAssumption DEF IInv, RestInv, JobInv
    <2> QED
      BY <2>1, <2>2
  <1>3. jobs[myJob[w]].age + Skew < JobLease
    BY Durations, DeadlineType DEF IInv, TypeOK, TasksOK, JobRow, JobInv
  <1>4. ASSUME NEW v \in Workers, seen[v] = myJob[w] PROVE FALSE
    <2>1. myJob[w] \in Jobs /\ jobs[myJob[w]].status = "running"
      BY DEF IInv, JobInv
    <2>2. jobs[myJob[w]].age + Skew >= JobLease
      BY <1>4, <2>1, ConstantsAssumption DEF IInv, SeenInv
    <2>3. jobs[myJob[w]].age \in Int /\ Skew \in Int /\ JobLease \in Int
      BY <2>1, Durations, ConstantsAssumption DEF IInv, TypeOK, JobRow
    <2> QED
      BY <1>3, <2>2, <2>3
  <1> QED
    BY <1>1, <1>2, <1>4

-----------------------------------------------------------------------------
LEMMA Invariance == Spec => []IInv
  <1>1. Init => IInv
    BY ConstantsAssumption, DeadlineType
    DEF Init, IInv, TypeOK, TasksOK, LeaseInv, RestInv, JobInv, OwnInv, SeenInv, LeaseKey,
        JobRow, SourceRow, JobStages, Body, Stages, JobStatus, Health, Free, MaxAttempts
  <1>2. IInv /\ [Next]_vars => IInv'
    <2> SUFFICES ASSUME IInv, [Next]_vars PROVE IInv'
      OBVIOUS
    <2> QED
      BY TypeStep, LeaseStep, RestStep, JobStep, OwnStep, SeenStep DEF IInv
  <1> QED
    BY <1>1, <1>2, PTL DEF Spec

\* Every variable keeps its type: the fetch loop stays within its three attempts
\* and no crawl outlives its deadline.
THEOREM TypeCorrect == Spec => []TypeOK
  BY Invariance, PTL DEF IInv

\* One crawl per source: source_lock excludes a second one as long as Redis keeps
\* the leases of that source, whatever crashes, times out or goes unanswered.
THEOREM Exclusion == Spec => []MutualExclusion
  <1>1. IInv => MutualExclusion
    BY DEF IInv, LeaseInv, MutualExclusion, InBody
  <1> QED
    BY <1>1, Invariance, PTL

\* The reaper of _crawl only ends rows of crawls that are over, even when Redis
\* loses leases: the bound on the age of a row protects the live ones.
THEOREM ReaperSafe == Spec => []LiveJobNotReaped
  BY Live, Invariance, PTL

\* A crawl keeps its lease to the end of its body: no other task's release, no
\* expiry and no second grant takes it away.
THEOREM LeaseKept == Spec => LeaseKeptWhileCrawling
  <1>1. IInv /\ [Next]_vars => [KeepsLease]_vars
    <2> SUFFICES ASSUME IInv, [Next]_vars, NEW w \in Workers, NEW s \in Sources,
                        InBody(w, s), InBody(w, s)', lease[s].holder = w
                 PROVE  lease'[s].holder = w \/ lost'[s] > lost[s]
      BY DEF KeepsLease
    <2> QED
      BY KeepStep
  <1> QED
    BY <1>1, Invariance, PTL DEF Spec, LeaseKeptWhileCrawling

\* OFFLINE is never shown of a source with fewer than three failures since its last
\* success, nor HEALTHY of one with any.
THEOREM HealthCoherent == Spec => []HealthMatchesFailures
  <1>1. Init => HealthMatchesFailures
    BY DEF Init, HealthMatchesFailures
  <1>2. IInv /\ HealthMatchesFailures /\ [Next]_vars => HealthMatchesFailures'
    <2> SUFFICES ASSUME IInv, HealthMatchesFailures, [Next]_vars
                 PROVE  HealthMatchesFailures'
      OBVIOUS
    <2> USE DEF IInv, TypeOK, HealthMatchesFailures
    <2>1. ASSUME NEW w \in Workers, Complete(w) PROVE HealthMatchesFailures'
      BY <2>1 DEF Complete, WithHealth
    <2>2. ASSUME NEW w \in Workers, RecordFailure(w) PROVE HealthMatchesFailures'
      BY <2>2 DEF RecordFailure, WithHealth
    <2>3. ASSUME NEW s \in Sources, Remove(s) PROVE HealthMatchesFailures'
      BY <2>3 DEF Remove, Switched
    <2>4. ASSUME NEW s \in Sources, NEW b \in BOOLEAN, SetEnabled(s, b)
          PROVE  HealthMatchesFailures'
      BY <2>4 DEF SetEnabled, Switched
    <2>5. ASSUME NEW s \in Sources, NEW b \in BOOLEAN, Validate(s, b)
          PROVE  HealthMatchesFailures'
      BY <2>5 DEF Validate, WithHealth
    <2>6. CASE UNCHANGED sources
      BY <2>6
    <2>7. ASSUME NEW w \in Workers, Step(w), ~Complete(w), ~RecordFailure(w)
          PROVE  UNCHANGED sources
      BY <2>7 DEF Step, Release, ReleaseFails, Crash, Load, Resolve, CheckJobs, RobotsAllow,
                  FetchOk, FetchRetry, CaughtFailure, Cancel, DatabaseError
    <2>8. (\E w \in Workers, s \in Sources : Acquire(w, s)) => UNCHANGED sources
      BY DEF Acquire
    <2>9. (\E w \in Workers, j \in Jobs : InsertJob(w, j)) => UNCHANGED sources
      BY DEF InsertJob
    <2>10. (\E s \in Sources : AcquireUnanswered(s) \/ LoseLease(s)) => UNCHANGED sources
      BY DEF AcquireUnanswered, LoseLease
    <2>11. Tick \/ UNCHANGED vars => UNCHANGED sources
      BY DEF Tick, vars
    <2> QED
      BY <2>1, <2>2, <2>3, <2>4, <2>5, <2>6, <2>7, <2>8, <2>9, <2>10, <2>11 DEF Next
  <1> QED
    BY <1>1, <1>2, Invariance, PTL DEF Spec

-----------------------------------------------------------------------------
(* How many crawls and rows a source has at a time *)

Before == {"loading", "resolving", "checking", "inserting"}

\* Crawls of a source that go on although they do not hold its lease.
Unleased(s) == {w \in Workers : InBody(w, s) /\ lease[s].holder # w}

\* Crawls that may still make the running rows more: those without the lease, and the one
\* that has it once it has looked and found no row, or one that has ended since.
Adders(s) ==
    {w \in Workers :
        /\ pc[w] \in Before /\ target[w] = s
        /\ \/ lease[s].holder # w
           \/ pc[w] = "inserting" /\ (seen[w] = NoJob \/ jobs[seen[w]].status # "running")}

\* What a source may still have is counted with what it has: each forgotten lease pays for
\* one crawl without it, and that crawl for one row.
Counted(s) ==
    /\ IsFiniteSet(Unleased(s)) /\ IsFiniteSet(RunningJobs(s)) /\ IsFiniteSet(Adders(s))
    /\ Cardinality(Unleased(s)) <= lost[s]
    /\ Cardinality(RunningJobs(s)) + Cardinality(Adders(s)) <= 1 + lost[s]

CrowdInv == \A s \in Sources : Counted(s)

LEMMA Fewer ==
    ASSUME NEW S, NEW T, IsFiniteSet(S), T \subseteq S
    PROVE  IsFiniteSet(T) /\ Cardinality(T) <= Cardinality(S)
           /\ Cardinality(S) \in Nat /\ Cardinality(T) \in Nat
  BY FS_Subset, FS_CardinalityType

LEMMA OneMore ==
    ASSUME NEW S, NEW T, NEW x, IsFiniteSet(S), T \subseteq S \cup {x}
    PROVE  IsFiniteSet(T) /\ Cardinality(T) <= Cardinality(S) + 1
           /\ Cardinality(S) \in Nat /\ Cardinality(T) \in Nat
  <1>1. /\ IsFiniteSet(S \cup {x}) /\ Cardinality(S) \in Nat
        /\ Cardinality(S \cup {x}) <= Cardinality(S) + 1
    <2>1. Cardinality(S) \in Nat
      BY FS_CardinalityType
    <2>2. CASE x \in S
      BY <2>1, <2>2, FS_AddElement
    <2>3. CASE x \notin S
      <3>1. IsFiniteSet(S \cup {x}) /\ x \in S \cup {x} /\ (S \cup {x}) \ {x} = S
        BY <2>3, FS_AddElement
      <3>2. Cardinality(S) = Cardinality(S \cup {x}) - 1
        BY <3>1, FS_RemoveElement
      <3>3. Cardinality(S \cup {x}) \in Nat
        BY <3>1, FS_CardinalityType
      <3> QED BY <2>1, <3>1, <3>2, <3>3
    <2> QED BY <2>1, <2>2, <2>3
  <1>2. IsFiniteSet(T) /\ Cardinality(T) <= Cardinality(S \cup {x})
        /\ Cardinality(T) \in Nat /\ Cardinality(S \cup {x}) \in Nat
    BY <1>1, Fewer
  <1> QED BY <1>1, <1>2

LEMMA OneLess ==
    ASSUME NEW S, NEW T, NEW x \in S, IsFiniteSet(S), T \subseteq S \ {x}
    PROVE  IsFiniteSet(T) /\ Cardinality(T) <= Cardinality(S) - 1
           /\ Cardinality(S) \in Nat /\ Cardinality(T) \in Nat
  <1>1. /\ IsFiniteSet(S \ {x}) /\ Cardinality(S) \in Nat
        /\ Cardinality(S \ {x}) = Cardinality(S) - 1
    BY FS_RemoveElement, FS_CardinalityType
  <1>2. IsFiniteSet(T) /\ Cardinality(T) <= Cardinality(S \ {x}) /\ Cardinality(T) \in Nat
    BY <1>1, Fewer
  <1> QED BY <1>1, <1>2

LEMMA Exchanged ==
    ASSUME NEW S, NEW T, NEW x \in S, NEW y, IsFiniteSet(S), T \subseteq (S \ {x}) \cup {y}
    PROVE  IsFiniteSet(T) /\ Cardinality(T) <= Cardinality(S)
           /\ Cardinality(S) \in Nat /\ Cardinality(T) \in Nat
  <1>1. /\ IsFiniteSet(S \ {x}) /\ Cardinality(S) \in Nat
        /\ Cardinality(S \ {x}) = Cardinality(S) - 1
    BY FS_RemoveElement, FS_CardinalityType
  <1>2. IsFiniteSet(T) /\ Cardinality(T) <= Cardinality(S \ {x}) + 1 /\ Cardinality(T) \in Nat
    BY <1>1, OneMore
  <1> QED BY <1>1, <1>2

LEMMA NoneMore ==
    ASSUME TypeOK, CrowdInv, NEW s \in Sources, lost'[s] = lost[s],
           Unleased(s)' \subseteq Unleased(s), RunningJobs(s)' \subseteq RunningJobs(s),
           Adders(s)' \subseteq Adders(s)
    PROVE  Counted(s)'
  <1>1. Counted(s) /\ lost[s] \in Nat
    BY ConstantsAssumption DEF CrowdInv, TypeOK
  <1>2. IsFiniteSet(Unleased(s)') /\ Cardinality(Unleased(s)') <= Cardinality(Unleased(s))
        /\ Cardinality(Unleased(s)) \in Nat /\ Cardinality(Unleased(s)') \in Nat
    BY <1>1, Fewer DEF Counted
  <1>3. IsFiniteSet(RunningJobs(s)')
        /\ Cardinality(RunningJobs(s)') <= Cardinality(RunningJobs(s))
        /\ Cardinality(RunningJobs(s)) \in Nat /\ Cardinality(RunningJobs(s)') \in Nat
    BY <1>1, Fewer DEF Counted
  <1>4. IsFiniteSet(Adders(s)') /\ Cardinality(Adders(s)') <= Cardinality(Adders(s))
        /\ Cardinality(Adders(s)) \in Nat /\ Cardinality(Adders(s)') \in Nat
    BY <1>1, Fewer DEF Counted
  <1> QED BY <1>1, <1>2, <1>3, <1>4 DEF Counted

\* The steps that let nobody in and insert no row.
LEMMA QuietStep ==
    ASSUME IInv, CrowdInv, NEW w \in Workers,
           \/ Release(w) \/ ReleaseFails(w) \/ Crash(w) \/ Load(w) \/ Resolve(w)
           \/ RobotsAllow(w) \/ FetchOk(w) \/ FetchRetry(w) \/ CaughtFailure(w)
           \/ Complete(w) \/ RecordFailure(w) \/ Cancel(w) \/ DatabaseError(w)
    PROVE  CrowdInv'
  <1> SUFFICES ASSUME NEW s \in Sources PROVE Counted(s)'
    BY DEF CrowdInv
  <1>1. \A v \in Workers \ {w} : pc'[v] = pc[v] /\ target'[v] = target[v] /\ seen'[v] = seen[v]
    BY DEF IInv, TypeOK, TasksOK, Release, ReleaseFails, Crash, Load, Resolve, RobotsAllow,
           FetchOk, FetchRetry, CaughtFailure, Complete, RecordFailure, Cancel, DatabaseError,
           Goto, Leave, BackToIdle
  <1>2. /\ lost' = lost
        /\ pc'[w] \in Body => pc[w] \in Body /\ target'[w] = target[w] /\ lease' = lease
        /\ pc'[w] \in Before => pc[w] \in Before /\ pc'[w] # "inserting"
    BY DEF IInv, TypeOK, TasksOK, Release, ReleaseFails, Crash, Load, Resolve, RobotsAllow,
           FetchOk, FetchRetry, CaughtFailure, Complete, RecordFailure, Cancel, DatabaseError,
           Goto, Leave, BackToIdle, Body, JobStages, Before
  <1>3. \A v \in Workers \ {w} : lease[s].holder = v => lease'[s].holder = v
    BY DEF IInv, TypeOK, LeaseKey, Release, ReleaseFails, Crash, Load, Resolve, RobotsAllow,
           FetchOk, FetchRetry, CaughtFailure, Complete, RecordFailure, Cancel, DatabaseError,
           Goto, Leave, Abandoned
  <1>4. \A j \in Jobs :
           \/ jobs'[j] = jobs[j]
           \/ jobs'[j].status # "running" /\ pc[w] \in JobStages /\ j = myJob[w]
    <2>1. CASE Complete(w) \/ RecordFailure(w)
      <3>1. PICK status \in {"completed", "failed"} : jobs' = Finish(w, status)
        BY <2>1 DEF Complete, RecordFailure
      <3>2. pc[w] \in JobStages
        BY <2>1 DEF Complete, RecordFailure, JobStages
      <3>3. myJob[w] \in Jobs /\ jobs \in [Jobs -> JobRow]
        BY <3>2 DEF IInv, JobInv, TypeOK
      <3>4. /\ jobs'[myJob[w]].status = status /\ status # "running"
            /\ \A j \in Jobs \ {myJob[w]} : jobs'[j] = jobs[j]
        BY <3>1, <3>3 DEF Finish, Ended
      <3> QED BY <3>2, <3>4
    <2>2. CASE ~(Complete(w) \/ RecordFailure(w))
      <3>1. UNCHANGED jobs
        BY <2>2 DEF Release, ReleaseFails, Crash, Load, Resolve, RobotsAllow, FetchOk, FetchRetry,
                    CaughtFailure, Cancel, DatabaseError
      <3> QED BY <3>1
    <2> QED BY <2>1, <2>2
  <1>5. Unleased(s)' \subseteq Unleased(s)
    <2> SUFFICES ASSUME NEW v \in Workers, InBody(v, s)', lease'[s].holder # v
                 PROVE  InBody(v, s) /\ lease[s].holder # v
      BY DEF Unleased
    <2> QED BY <1>1, <1>2, <1>3 DEF InBody
  <1>6. RunningJobs(s)' \subseteq RunningJobs(s)
    BY <1>4 DEF RunningJobs
  <1>7. Adders(s)' \subseteq Adders(s)
    <2> SUFFICES ASSUME NEW v \in Workers, v \in Adders(s)' PROVE v \in Adders(s)
      BY DEF Adders
    <2>1. /\ pc'[v] \in Before /\ target'[v] = s
          /\ \/ lease'[s].holder # v
             \/ pc'[v] = "inserting" /\ (seen'[v] = NoJob \/ jobs'[seen'[v]].status # "running")
      BY DEF Adders
    <2>2. CASE v = w
      BY <1>2, <2>1, <2>2 DEF Adders, Before, Body
    <2>3. CASE v # w
      <3>1. pc[v] \in Before /\ target[v] = s
        BY <1>1, <2>1, <2>3
      <3>2. CASE lease'[s].holder # v
        BY <1>3, <2>3, <3>1, <3>2 DEF Adders
      <3>3. CASE pc'[v] = "inserting" /\ (seen'[v] = NoJob \/ jobs'[seen'[v]].status # "running")
        <4>1. pc[v] = "inserting" /\ seen[v] = seen'[v]
          BY <1>1, <2>3, <3>3
        <4>2. seen[v] # NoJob => seen[v] \in Jobs /\ ~(pc[w] \in JobStages /\ seen[v] = myJob[w])
          BY <2>3, Live DEF IInv, SeenInv, LiveJobNotReaped
        <4> QED BY <1>4, <3>1, <3>3, <4>1, <4>2 DEF Adders
      <3> QED BY <2>1, <3>2, <3>3
    <2> QED BY <2>2, <2>3
  <1> QED BY <1>2, <1>5, <1>6, <1>7, NoneMore DEF IInv

\* So does what happens to the source, to its lease but for Redis forgetting it, and to time.
LEMMA OutsideStep ==
    ASSUME IInv, CrowdInv,
           \/ \E w \in Workers, s \in Sources : Acquire(w, s)
           \/ \E s \in Sources : AcquireUnanswered(s) \/ Remove(s)
           \/ \E s \in Sources, b \in BOOLEAN : SetEnabled(s, b) \/ Validate(s, b)
           \/ Tick \/ UNCHANGED vars
    PROVE  CrowdInv'
  <1> SUFFICES ASSUME NEW s \in Sources PROVE Counted(s)'
    BY DEF CrowdInv
  <1>1. ASSUME NEW w \in Workers, NEW r \in Sources, Acquire(w, r) PROVE Counted(s)'
    <2>1. /\ pc[w] = "idle" /\ pc'[w] = "loading" /\ target'[w] = r
          /\ \A v \in Workers \ {w} : pc'[v] = pc[v] /\ target'[v] = target[v]
          /\ lease[r].holder = NoOne /\ lease'[r].holder = w
          /\ \A q \in Sources \ {r} : lease'[q] = lease[q]
          /\ UNCHANGED <<seen, jobs, lost>>
      BY <1>1 DEF IInv, TypeOK, TasksOK, Acquire, Free, Held
    <2>2. \A v \in Workers \ {w} : lease[s].holder = v => lease'[s].holder = v
      BY <2>1, ConstantsAssumption
    <2>3. Unleased(s)' \subseteq Unleased(s)
      <3> SUFFICES ASSUME NEW v \in Workers, InBody(v, s)', lease'[s].holder # v
                   PROVE  InBody(v, s) /\ lease[s].holder # v
        BY DEF Unleased
      <3> QED BY <2>1, <2>2 DEF InBody
    <2>4. Adders(s)' \subseteq Adders(s)
      BY <2>1, <2>2 DEF Adders
    <2>5. RunningJobs(s)' \subseteq RunningJobs(s) /\ lost'[s] = lost[s]
      BY <2>1 DEF RunningJobs
    <2> QED BY <2>3, <2>4, <2>5, NoneMore DEF IInv
  <1>2. ASSUME UNCHANGED <<pc, target, seen, jobs, lost>>,
               \A v \in Workers : lease[s].holder = v => lease'[s].holder = v
        PROVE  Counted(s)'
    <2>1. Unleased(s)' \subseteq Unleased(s) /\ Adders(s)' \subseteq Adders(s)
      BY <1>2 DEF Unleased, Adders, InBody
    <2>2. RunningJobs(s)' \subseteq RunningJobs(s) /\ lost'[s] = lost[s]
      BY <1>2 DEF RunningJobs
    <2> QED BY <2>1, <2>2, NoneMore DEF IInv
  <1>3. ASSUME NEW r \in Sources, AcquireUnanswered(r) PROVE Counted(s)'
    <2>1. /\ lease[r].holder = NoOne /\ \A q \in Sources \ {r} : lease'[q] = lease[q]
          /\ UNCHANGED <<pc, target, seen, jobs, lost>>
      BY <1>3 DEF AcquireUnanswered, Free, taskVars, IInv, TypeOK
    <2> QED BY <1>2, <2>1, ConstantsAssumption
  <1>4. CASE \/ \E r \in Sources : Remove(r)
             \/ \E r \in Sources, b \in BOOLEAN : SetEnabled(r, b) \/ Validate(r, b)
             \/ UNCHANGED vars
    <2>1. UNCHANGED <<lease, pc, target, seen, jobs, lost>>
      BY <1>4 DEF Remove, SetEnabled, Validate, taskVars, vars
    <2> QED BY <1>2, <2>1
  <1>5. CASE Tick
    <2>1. /\ UNCHANGED <<pc, target, seen, lost>> /\ lease'[s] = Aged(lease[s])
          /\ \A j \in Jobs : jobs'[j].status = jobs[j].status /\ jobs'[j].source = jobs[j].source
      BY <1>5 DEF Tick, IInv, TypeOK, JobRow
    <2>2. \A v \in Workers : InBody(v, s) /\ lease[s].holder = v => lease'[s].holder = v
      <3> SUFFICES ASSUME NEW v \in Workers, InBody(v, s), lease[s].holder = v
                   PROVE  lease'[s].holder = v
        OBVIOUS
      <3>1. lease[s].ttl + elapsed[v] = LeaseTTL /\ elapsed[v] < Deadline
        BY <1>5 DEF IInv, LeaseInv, InBody, Tick
      <3>2. lease[s].ttl > 1
        BY <3>1, Durations, DeadlineType DEF IInv, TypeOK, TasksOK, LeaseKey
      <3>3. Aged(lease[s]) = [lease[s] EXCEPT !.ttl = lease[s].ttl - 1]
        BY <3>2 DEF Aged, IInv, TypeOK, LeaseKey
      <3> QED BY <2>1, <3>3 DEF IInv, TypeOK, LeaseKey
    <2>3. Unleased(s)' \subseteq Unleased(s)
      <3> SUFFICES ASSUME NEW v \in Workers, InBody(v, s)', lease'[s].holder # v
                   PROVE  InBody(v, s) /\ lease[s].holder # v
        BY DEF Unleased
      <3> QED BY <2>1, <2>2 DEF InBody
    <2>4. Adders(s)' \subseteq Adders(s)
      <3> SUFFICES ASSUME NEW v \in Workers, v \in Adders(s)' PROVE v \in Adders(s)
        BY DEF Adders
      <3>1. /\ pc[v] \in Before /\ target[v] = s /\ InBody(v, s)
            /\ \/ lease'[s].holder # v
               \/ pc[v] = "inserting" /\ (seen[v] = NoJob \/ jobs'[seen[v]].status # "running")
        BY <2>1 DEF Adders, InBody, Before, Body
      <3>2. seen[v] # NoJob => seen[v] \in Jobs
        BY DEF IInv, SeenInv
      <3> QED BY <2>1, <2>2, <3>1, <3>2 DEF Adders
    <2>5. RunningJobs(s)' \subseteq RunningJobs(s) /\ lost'[s] = lost[s]
      BY <2>1 DEF RunningJobs
    <2> QED BY <2>3, <2>4, <2>5, NoneMore DEF IInv
  <1> QED BY <1>1, <1>3, <1>4, <1>5

\* A forgotten lease: who held it goes on without, and that much more is allowed.
LEMMA LossStep ==
    ASSUME IInv, CrowdInv, NEW r \in Sources, LoseLease(r)
    PROVE  CrowdInv'
  <1> SUFFICES ASSUME NEW s \in Sources PROVE Counted(s)'
    BY DEF CrowdInv
  <1>1. /\ UNCHANGED <<pc, target, seen, jobs>>
        /\ \A q \in Sources \ {r} : lease'[q] = lease[q] /\ lost'[q] = lost[q]
        /\ lost'[r] = lost[r] + 1
    BY DEF LoseLease, taskVars, IInv, TypeOK
  <1>2. RunningJobs(s)' = RunningJobs(s)
    BY <1>1 DEF RunningJobs
  <1>3. CASE s # r
    <2>1. Unleased(s)' \subseteq Unleased(s) /\ Adders(s)' \subseteq Adders(s)
      BY <1>1, <1>3 DEF Unleased, Adders, InBody
    <2> QED BY <1>1, <1>2, <1>3, <2>1, NoneMore DEF IInv
  <1>4. CASE s = r
    <2> DEFINE h == lease[s].holder
    <2>1. Unleased(s)' \subseteq Unleased(s) \cup {h} /\ Adders(s)' \subseteq Adders(s) \cup {h}
      BY <1>1 DEF Unleased, Adders, InBody
    <2>2. Counted(s) /\ lost[s] \in Nat /\ lost'[s] = lost[s] + 1
      BY <1>1, <1>4, ConstantsAssumption DEF CrowdInv, IInv, TypeOK
    <2> HIDE DEF h
    <2>3. IsFiniteSet(Unleased(s)') /\ Cardinality(Unleased(s)') <= Cardinality(Unleased(s)) + 1
          /\ Cardinality(Unleased(s)) \in Nat /\ Cardinality(Unleased(s)') \in Nat
      BY <2>1, <2>2, OneMore DEF Counted
    <2>4. IsFiniteSet(Adders(s)') /\ Cardinality(Adders(s)') <= Cardinality(Adders(s)) + 1
          /\ Cardinality(Adders(s)) \in Nat /\ Cardinality(Adders(s)') \in Nat
      BY <2>1, <2>2, OneMore DEF Counted
    <2>5. Cardinality(RunningJobs(s)) \in Nat
      BY <2>2, Fewer DEF Counted
    <2> QED BY <1>2, <2>2, <2>3, <2>4, <2>5 DEF Counted
  <1> QED BY <1>3, <1>4

\* The look at the job table: whoever has the lease and finds no row is one more who adds.
LEMMA CheckStep ==
    ASSUME IInv, CrowdInv, NEW w \in Workers, CheckJobs(w)
    PROVE  CrowdInv'
  <1> SUFFICES ASSUME NEW s \in Sources PROVE Counted(s)'
    BY DEF CrowdInv
  <1>1. /\ pc[w] = "checking" /\ seen[w] = NoJob /\ UNCHANGED <<lease, target, jobs, lost>>
        /\ \A v \in Workers \ {w} : pc'[v] = pc[v] /\ seen'[v] = seen[v]
        /\ pc'[w] \in {"inserting", "releasing"}
    BY DEF CheckJobs, Goto, Leave, IInv, TypeOK, TasksOK, RestInv
  <1>2. Unleased(s)' \subseteq Unleased(s)
    BY <1>1 DEF Unleased, InBody, Body
  <1>3. RunningJobs(s)' = RunningJobs(s)
    BY <1>1 DEF RunningJobs
  <1>4. Adders(s)' \subseteq Adders(s) \cup {w}
    BY <1>1 DEF Adders
  <1>5. CASE RunningJobs(s) = {} /\ lease[s].holder = w
    <2>1. Adders(s)' \subseteq Unleased(s) \cup {w}
      <3> SUFFICES ASSUME NEW v \in Workers, v # w, v \in Adders(s)'
                   PROVE  v \in Unleased(s)
        BY DEF Adders
      <3> QED BY <1>1, <1>5 DEF Adders, Unleased, InBody, Before, Body
    <2>2. Counted(s) /\ lost[s] \in Nat /\ lost'[s] = lost[s]
      BY <1>1, ConstantsAssumption DEF CrowdInv, IInv, TypeOK
    <2>3. IsFiniteSet(Adders(s)') /\ Cardinality(Adders(s)') <= Cardinality(Unleased(s)) + 1
          /\ Cardinality(Unleased(s)) \in Nat /\ Cardinality(Adders(s)') \in Nat
      BY <2>1, <2>2, OneMore DEF Counted
    <2>4. IsFiniteSet(Unleased(s)') /\ Cardinality(Unleased(s)') <= Cardinality(Unleased(s))
          /\ Cardinality(Unleased(s)') \in Nat
      BY <1>2, <2>2, Fewer DEF Counted
    <2>5. IsFiniteSet(RunningJobs(s)') /\ Cardinality(RunningJobs(s)') = 0
      BY <1>3, <1>5, FS_EmptySet
    <2> QED BY <2>2, <2>3, <2>4, <2>5 DEF Counted
  <1>6. CASE RunningJobs(s) # {} \/ lease[s].holder # w
    <2>1. ASSUME w \in Adders(s)' PROVE w \in Adders(s)
      <3>1. target[w] = s /\ pc'[w] = "inserting"
        BY <1>1, <2>1 DEF Adders, Before
      <3>2. CASE lease[s].holder # w
        BY <1>1, <3>1, <3>2 DEF Adders, Before
      <3>3. CASE RunningJobs(s) # {}
        <4>1. PICK j \in RunningJobs(s) : seen'[w] = j
          BY <1>1, <3>1, <3>3 DEF CheckJobs, Goto, Leave, IInv, TypeOK, TasksOK
        <4>2. seen'[w] # NoJob /\ jobs'[seen'[w]].status = "running"
          BY <1>1, <4>1, ConstantsAssumption DEF RunningJobs
        <4> QED BY <1>1, <2>1, <3>1, <4>2 DEF Adders, Before
      <3> QED BY <1>6, <3>2, <3>3
    <2> QED BY <1>1, <1>2, <1>3, <1>4, <2>1, NoneMore DEF IInv
  <1> QED BY <1>5, <1>6

\* The commit: who did not see a running row was counted, who did ends that row.
LEMMA InsertStep ==
    ASSUME IInv, CrowdInv, NEW w \in Workers, NEW j \in Jobs, InsertJob(w, j)
    PROVE  CrowdInv'
  <1> SUFFICES ASSUME NEW s \in Sources PROVE Counted(s)'
    BY DEF CrowdInv
  <1> DEFINE i == seen[w]
             live == i # NoJob /\ jobs[i].status = "running"
  <1>1. /\ pc[w] = "inserting" /\ pc'[w] \in JobStages /\ target[w] \in Sources
        /\ \A v \in Workers \ {w} : pc'[v] = pc[v] /\ seen'[v] = seen[v]
        /\ UNCHANGED <<lease, target, lost>>
    BY DEF InsertJob, IInv, TypeOK, TasksOK, LeaseInv, JobStages, Body
  <1>2. /\ \A v \in Workers : seen[v] # j
        /\ jobs[j].status # "running"
        /\ i # NoJob => i \in Jobs
        /\ live => jobs[i].source = target[w]
    BY DEF InsertJob, Fresh, IInv, SeenInv
  <1>3. /\ jobs'[j].status = "running" /\ jobs'[j].source = target[w]
        /\ i # NoJob => jobs'[i].status # "running"
        /\ \A k \in Jobs \ {i, j} : jobs'[k] = jobs[k]
    BY <1>2 DEF InsertJob, Reaped, Ended, IInv, TypeOK
  <1>4. Unleased(s)' \subseteq Unleased(s)
    BY <1>1 DEF Unleased, InBody, Body, JobStages
  <1> HIDE DEF i
  <1>5. \A v \in Workers : seen[v] # NoJob =>
            seen[v] \in Jobs /\ (jobs[seen[v]].status = "running" =>
                                   jobs[seen[v]].source = target[v])
    BY DEF IInv, SeenInv
  \* Only who was about to reap the same row begins to add.
  <1>6. ASSUME NEW v \in Workers, v \in Adders(s)', v \notin Adders(s)
        PROVE  v # w /\ target[v] = s /\ seen[v] = i /\ live /\ lease[s].holder = v
    <2>1. v # w /\ pc[v] \in Before /\ target[v] = s /\ lease[s].holder = v /\ pc[v] = "inserting"
          /\ seen[v] # NoJob /\ jobs[seen[v]].status = "running"
          /\ jobs'[seen[v]].status # "running"
      BY <1>1, <1>6 DEF Adders, Before, JobStages
    <2>2. seen[v] = i
      BY <1>2, <1>3, <1>5, <2>1
    <2> QED BY <2>1, <2>2
  <1>7. CASE target[w] # s
    <2>1. RunningJobs(s)' \subseteq RunningJobs(s)
      BY <1>2, <1>3, <1>7, ConstantsAssumption DEF RunningJobs
    <2>2. Adders(s)' \subseteq Adders(s)
      <3> SUFFICES ASSUME NEW v \in Workers, v \in Adders(s)', v \notin Adders(s) PROVE FALSE
        BY DEF Adders
      <3> QED BY <1>2, <1>5, <1>6, <1>7
    <2> QED BY <1>1, <1>4, <2>1, <2>2, NoneMore DEF IInv
  <1>8. CASE target[w] = s
    <2>1. Counted(s) /\ lost[s] \in Nat /\ lost'[s] = lost[s]
      BY <1>1, ConstantsAssumption DEF CrowdInv, IInv, TypeOK
    <2>2. IsFiniteSet(Unleased(s)') /\ Cardinality(Unleased(s)') <= Cardinality(Unleased(s))
          /\ Cardinality(Unleased(s)) \in Nat /\ Cardinality(Unleased(s)') \in Nat
      BY <1>4, <2>1, Fewer DEF Counted
    <2>3. w \notin Adders(s)'
      BY <1>1 DEF Adders, Before, JobStages
    <2>4. CASE live
      <3>1. i \in RunningJobs(s) /\ RunningJobs(s)' \subseteq (RunningJobs(s) \ {i}) \cup {j}
        BY <1>2, <1>3, <1>8, <2>4 DEF RunningJobs
      <3>2. IsFiniteSet(RunningJobs(s)')
            /\ Cardinality(RunningJobs(s)') <= Cardinality(RunningJobs(s))
            /\ Cardinality(RunningJobs(s)) \in Nat /\ Cardinality(RunningJobs(s)') \in Nat
        BY <2>1, <3>1, Exchanged DEF Counted
      <3>3. IsFiniteSet(Adders(s)') /\ Cardinality(Adders(s)') <= Cardinality(Adders(s))
            /\ Cardinality(Adders(s)) \in Nat /\ Cardinality(Adders(s)') \in Nat
        <4>1. CASE w \in Adders(s)
          <5>1. Adders(s)' \subseteq (Adders(s) \ {w}) \cup {lease[s].holder}
            BY <1>6, <2>3 DEF Adders
          <5> QED BY <2>1, <4>1, <5>1, Exchanged DEF Counted
        <4>2. CASE w \notin Adders(s)
          <5>1. lease[s].holder = w
            BY <1>1, <1>8, <4>2 DEF Adders, Before
          <5>2. Adders(s)' \subseteq Adders(s)
            <6> SUFFICES ASSUME NEW v \in Workers, v \in Adders(s)', v \notin Adders(s)
                         PROVE  FALSE
              BY DEF Adders
            <6> QED BY <1>6, <5>1
          <5> QED BY <2>1, <5>2, Fewer DEF Counted
        <4> QED BY <4>1, <4>2
      <3> QED BY <2>1, <2>2, <3>2, <3>3 DEF Counted
    <2>5. CASE ~live
      <3>1. w \in Adders(s) /\ Adders(s)' \subseteq Adders(s) \ {w}
        <4>1. w \in Adders(s)
          BY <1>1, <1>8, <2>5 DEF Adders, Before, i
        <4>2. \A v \in Workers : v \in Adders(s)' => v \in Adders(s) /\ v # w
          BY <1>6, <2>3, <2>5
        <4> QED BY <4>1, <4>2 DEF Adders
      <3>2. IsFiniteSet(Adders(s)') /\ Cardinality(Adders(s)') <= Cardinality(Adders(s)) - 1
            /\ Cardinality(Adders(s)) \in Nat /\ Cardinality(Adders(s)') \in Nat
        BY <2>1, <3>1, OneLess DEF Counted
      <3>3. RunningJobs(s)' \subseteq RunningJobs(s) \cup {j}
        BY <1>2, <1>3, ConstantsAssumption DEF RunningJobs
      <3>4. IsFiniteSet(RunningJobs(s)')
            /\ Cardinality(RunningJobs(s)') <= Cardinality(RunningJobs(s)) + 1
            /\ Cardinality(RunningJobs(s)) \in Nat /\ Cardinality(RunningJobs(s)') \in Nat
        BY <2>1, <3>3, OneMore DEF Counted
      <3> QED BY <2>1, <2>2, <3>2, <3>4 DEF Counted
    <2> QED BY <2>4, <2>5
  <1> QED BY <1>7, <1>8

\* Each forgotten lease lets at most one more task in and at most one more row
\* run: the compare-and-delete never frees the lease of another crawl, and the
\* look at the job table keeps orphan rows from piling up.
THEOREM Overlap == Spec => []OverlapBoundedByLosses
  <1>1. Init => CrowdInv
    <2> SUFFICES ASSUME Init, NEW s \in Sources PROVE Counted(s)
      BY DEF CrowdInv
    <2>1. Unleased(s) = {} /\ RunningJobs(s) = {} /\ Adders(s) = {} /\ lost[s] = 0
      BY DEF Init, Unleased, RunningJobs, Adders, InBody, Body, JobStages, Before
    <2> QED BY <2>1, FS_EmptySet DEF Counted
  <1>2. IInv /\ CrowdInv /\ [Next]_vars => CrowdInv'
    <2> SUFFICES ASSUME IInv, CrowdInv, [Next]_vars PROVE CrowdInv'
      OBVIOUS
    <2>1. CASE \E w \in Workers : Step(w)
      BY <2>1, QuietStep, CheckStep DEF Step
    <2>2. CASE \E w \in Workers, j \in Jobs : InsertJob(w, j)
      BY <2>2, InsertStep
    <2>3. CASE \E r \in Sources : LoseLease(r)
      BY <2>3, LossStep
    <2> QED BY <2>1, <2>2, <2>3, OutsideStep DEF Next
  <1>3. IInv /\ CrowdInv => OverlapBoundedByLosses
    <2> SUFFICES ASSUME IInv, CrowdInv, NEW s \in Sources
                 PROVE  /\ Cardinality({w \in Workers : InBody(w, s)}) <= 1 + lost[s]
                        /\ Cardinality(RunningJobs(s)) <= 1 + lost[s]
      BY DEF OverlapBoundedByLosses
    <2>1. Counted(s) /\ lost[s] \in Nat
      BY ConstantsAssumption DEF CrowdInv, IInv, TypeOK
    <2> DEFINE crawling == {w \in Workers : InBody(w, s)}
    <2>2. crawling \subseteq Unleased(s) \cup {lease[s].holder}
      BY DEF Unleased
    <2> HIDE DEF crawling
    <2>3. Cardinality(crawling) <= Cardinality(Unleased(s)) + 1
          /\ Cardinality(Unleased(s)) \in Nat /\ Cardinality(crawling) \in Nat
      BY <2>1, <2>2, OneMore DEF Counted
    <2>4. Cardinality(Adders(s)) \in Nat /\ Cardinality(RunningJobs(s)) \in Nat
      BY <2>1, Fewer DEF Counted
    <2> QED BY <2>1, <2>3, <2>4 DEF Counted, crawling
  <1> QED
    BY <1>1, <1>2, <1>3, Invariance, PTL DEF Spec
=============================================================================
