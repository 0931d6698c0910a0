--------------------------- MODULE DeliveryProofs ---------------------------
(***************************************************************************)
(* What holds of DeliveryQueue for every number of workers, events,        *)
(* targets, attempts and lost transactions: its invariants, and that it    *)
(* implements AtLeastOnce.                                                 *)
(***************************************************************************)
EXTENDS DeliveryQueue, FiniteSetTheorems, TLAPS

Busy == {"rendering", "sending", "recording"}
Engaged == Busy \cup {"unlocked"}
Conclusions == {"cancelled", "rendered", "delivered", "error"}

\* A busy worker has locked a row, which is locked once and open until the worker
\* commits; one that sends without a lock has a job and nothing more.
LockInv ==
    \A w \in Workers :
        /\ pc[w] \in Engaged <=> cur[w] # NoKey
        /\ pc[w] \in Busy => jobs[cur[w]].status \in Open
        /\ pc[w] = "recording" => outcome[w] \in Conclusions
        /\ \A v \in Workers :
             pc[v] \in Busy /\ pc[w] \in Busy /\ cur[v] = cur[w] => v = w

\* An open job has an attempt left; a job nobody queued has no row.
AttemptInv ==
    \A k \in Keys :
        /\ jobs[k].status \in Open => jobs[k].attempts < MaxAttempts
        /\ jobs[k].status = "none" => jobs[k] = NoJobRow

\* What is about to be recorded as delivered has been received, and so has a report
\* of every schedule that shows delivered.
SentInv ==
    /\ DeliveredMeansMailed
    /\ \A w \in Workers :
         pc[w] = "recording" /\ outcome[w] = "delivered" => copies[cur[w]] > 0

\* Somebody is about to record an attempt at k: storing an artifact is none.
Recording(k) ==
    \E w \in Workers : cur[w] = k /\ pc[w] = "recording" /\ outcome[w] # "rendered"

\* Those who send k without its lock: their copies are yet to come.
Late(k) == {w \in Workers : pc[w] = "unlocked" /\ cur[w] = k}

\* DuplicatesAccounted, without the worker that only stores an artifact, and with the
\* copies that lost transactions have paid for already.
CopiesInv ==
    \A k \in Keys :
        /\ IsFiniteSet(Late(k))
        /\ copies[k] + Cardinality(Late(k)) <=
             jobs[k].attempts + rolledBack[k] + (IF Recording(k) THEN 1 ELSE 0)

\* Whoever renders found no artifact, whoever mails has loaded the one in the row,
\* and nothing else was mailed.
ArtifactInv ==
    /\ \A k \in Keys : mailed[k] \subseteq {jobs[k].body} \ {NoBody}
    /\ \A w \in Workers :
         /\ pc[w] = "rendering" => jobs[cur[w]].body = NoBody
         /\ pc[w] = "recording" /\ outcome[w] = "rendered" =>
              jobs[cur[w]].body = NoBody /\ body[w] \in Bodies
         /\ pc[w] \in {"sending", "unlocked"} /\ IsReport(cur[w]) =>
              jobs[cur[w]].body # NoBody /\ body[w] = jobs[cur[w]].body

Safe == LockInv /\ AttemptInv /\ SentInv /\ CopiesInv /\ ArtifactInv
Inv == TypeOK /\ Safe

-----------------------------------------------------------------------------
(* Keys, rows, and what a commit makes of a row. *)

LEMMA KeyFacts ==
    ASSUME NEW k \in Keys
    PROVE  /\ k # NoKey
           /\ Target(k) \in Targets
           /\ IsReport(k) => \E m \in Minutes : k = <<m, Target(k)>>
           /\ IsReport(k) <=> Target(k) \in Schedules
           /\ IsReport(k) <=> Target(k) \notin Subscriptions
  <1>1. CASE k \in Events \X Subscriptions
    <2>1. k[2] \in Subscriptions /\ k[2] \notin Schedules
      BY <1>1, QueueAssumption
    <2> QED
      BY <2>1, QueueAssumption DEF Target, Targets, IsReport
  <1>2. CASE k \in Minutes \X Schedules
    <2>1. PICK m \in Minutes, c \in Schedules : k = <<m, c>>
      BY <1>2
    <2>2. k[2] = c
      BY <2>1
    <2> QED
      BY <2>1, <2>2, QueueAssumption DEF Target, Targets, IsReport
  <1> QED
    BY <1>1, <1>2 DEF Keys

LEMMA RowFacts ==
    /\ NoJobRow \in JobRow /\ NewJobRow \in JobRow
    /\ \A row \in JobRow : /\ row.attempts \in 0..MaxAttempts
                           /\ [row EXCEPT !.due = TRUE] \in JobRow
  <1>1. 0 \in 0..MaxAttempts
    BY QueueAssumption
  <1> QED
    BY <1>1 DEF NoJobRow, NewJobRow, JobRow, Open, Final

LEMMA AttemptsNat ==
    ASSUME NEW row \in JobRow
    PROVE  row.attempts \in Nat
  <1>1. row.attempts \in 0..MaxAttempts
    BY DEF JobRow
  <1> QED
    BY <1>1

\* What a commit makes of the row of an open job that had an attempt left.
LEMMA OutcomeFacts ==
    ASSUME NEW w \in Workers, NEW row \in JobRow,
           row.status \in Open, row.attempts < MaxAttempts,
           outcome[w] \in Conclusions, body[w] \in Bodies \cup {NoBody},
           NEW r, r = Outcome(w, row)
    PROVE  /\ r \in JobRow
           /\ r.status # "none"
           /\ r.status \in Open => r.attempts < MaxAttempts
           /\ outcome[w] = "rendered" =>
                /\ r.status \in Open
                /\ r.attempts = row.attempts
                /\ r.body = body[w]
           /\ outcome[w] # "rendered" =>
                /\ r.attempts = row.attempts + 1
                /\ r.body = row.body
           /\ outcome[w] = "error" => r.status \in {"retry", "failed"}
           /\ outcome[w] \in {"delivered", "cancelled"} =>
                r.status = outcome[w]
  <1>a. row.attempts \in 0..MaxAttempts
    BY DEF JobRow
  <1>0. row.attempts \in Nat /\ row.attempts + 1 \in 0..MaxAttempts /\ MaxAttempts \in Nat
    BY <1>a, QueueAssumption
  <1>1. CASE outcome[w] = "rendered"
    <2>1. r = [row EXCEPT !.status = "pending", !.body = body[w]]
      BY <1>1 DEF Outcome
    <2> QED
      BY <1>0, <1>1, <2>1 DEF JobRow, Open
  <1>2. CASE outcome[w] = "error"
    <2>1. r = [row EXCEPT !.status = Failed(row.attempts + 1),
                          !.attempts = row.attempts + 1, !.due = FALSE]
      BY <1>2 DEF Outcome, Retried
    <2>2. /\ Failed(row.attempts + 1) \in {"retry", "failed"}
          /\ Failed(row.attempts + 1) = "retry" => row.attempts + 1 < MaxAttempts
      BY <1>0 DEF Failed
    <2> HIDE DEF Failed
    <2>3. r \in JobRow /\ r.status \in {"retry", "failed"}
      BY <1>0, <2>1, <2>2 DEF JobRow, Open, Final
    <2>4. r.attempts = row.attempts + 1 /\ r.body = row.body
      BY <2>1 DEF JobRow
    <2>5. r.status \in Open => r.attempts < MaxAttempts
      BY <2>1, <2>2, <2>4 DEF JobRow, Open
    <2> QED
      BY <1>2, <2>3, <2>4, <2>5
  <1>3. CASE outcome[w] \in {"delivered", "cancelled"}
    <2>1. r = [row EXCEPT !.status = outcome[w], !.attempts = row.attempts + 1]
      BY <1>3 DEF Outcome
    <2> QED
      BY <1>0, <1>3, <2>1 DEF JobRow, Open, Final
  <1> QED
    BY <1>1, <1>2, <1>3 DEF Conclusions

-----------------------------------------------------------------------------
(* Every step keeps the types. *)

\* What the operators, the outside world and the enqueueing of reports do.
QuietNext ==
    \/ \E t \in Targets : Register(t) \/ RemoveTarget(t)
    \/ \E e \in Events, S \in SUBSET Subscriptions : Dispatch(e, S)
    \/ Suspend \/ Configure \/ NextMinute
    \/ \E k \in Keys : BackoffEnds(k)
    \/ \E w \in Workers : EnqueueRead(w) \/ EnqueueCommit(w) \/ EnqueueLost(w)

LEMMA LoadedType ==
    ASSUME TypeOK, NEW C \in SUBSET Schedules
    PROVE  Loaded(C) \in Session
  <1>1. \A c \in C : targets[c].status \in DeliveryStatus
    BY DEF TypeOK, TargetRow, Targets
  <1>2. [c \in C |-> targets[c].status] \in [C -> DeliveryStatus]
    BY <1>1
  <1> QED
    BY <1>2 DEF Loaded, Session, TypeOK

LEMMA NothingType == Nothing \in Session
  <1>1. [c \in {} |-> "queued"] \in [{} -> DeliveryStatus]
    OBVIOUS
  <1> QED
    BY <1>1, QueueAssumption DEF Nothing, Session

LEMMA QuietType ==
    ASSUME TypeOK, QuietNext \/ UNCHANGED vars
    PROVE  TypeOK'
  <1> USE DEF TypeOK
  <1>1. ASSUME NEW t \in Targets, Register(t) \/ RemoveTarget(t) PROVE TypeOK'
    BY <1>1 DEF Register, RemoveTarget, TargetRow, workerVars, history, world
  <1>2. ASSUME NEW e \in Events, NEW S \in SUBSET Subscriptions, Dispatch(e, S)
        PROVE  TypeOK'
    <2>1. jobs' \in [Keys -> JobRow]
      BY <1>2, RowFacts DEF Dispatch
    <2> QED
      BY <1>2, <2>1 DEF Dispatch, workerVars, history, world
  <1>3. CASE Suspend \/ Configure \/ NextMinute \/ UNCHANGED vars
    BY <1>3 DEF Suspend, Configure, NextMinute, vars, rows, workerVars, history
  <1>4. ASSUME NEW k \in Keys, BackoffEnds(k) PROVE TypeOK'
    <2>1. jobs' \in [Keys -> JobRow]
      BY <1>4, RowFacts DEF BackoffEnds
    <2> QED
      BY <1>4, <2>1 DEF BackoffEnds, workerVars, history, world
  <1>5. ASSUME NEW w \in Workers, EnqueueRead(w) PROVE TypeOK'
    <2>1. session' \in [Workers -> Session]
      BY <1>5, LoadedType DEF EnqueueRead
    <2> QED
      BY <1>5, <2>1 DEF EnqueueRead, Stages, rows, history
  <1>6. ASSUME NEW w \in Workers, EnqueueCommit(w) PROVE TypeOK'
    <2>1. jobs' \in [Keys -> JobRow]
      BY <1>6, RowFacts DEF EnqueueCommit
    <2>2. targets' \in [Targets -> TargetRow]
      BY <1>6 DEF EnqueueCommit, TargetRow, PlannedStatus, DeliveryStatus
    <2> QED
      BY <1>6, <2>1, <2>2, NothingType DEF EnqueueCommit, Stages, world, history
  <1>7. ASSUME NEW w \in Workers, EnqueueLost(w) PROVE TypeOK'
    BY <1>7, NothingType DEF EnqueueLost, Stages, rows, history
  <1> QED
    BY <1>1, <1>2, <1>3, <1>4, <1>5, <1>6, <1>7, Zenon DEF QuietNext

LEMMA UnlockType ==
    ASSUME TypeOK, NEW w \in Workers, Unlock(w)
    PROVE  /\ pc' \in [Workers -> Stages] /\ cur' \in [Workers -> Keys \cup {NoKey}]
           /\ outcome' \in [Workers -> Outcomes]
           /\ body' \in [Workers -> Bodies \cup {NoBody}]
           /\ session' \in [Workers -> Session]
  BY NothingType DEF TypeOK, Unlock, Stages, Outcomes

-----------------------------------------------------------------------------
(* The steps that are not of a worker who holds a row. *)

\* Such a step changes no job but to queue or to wake it, and calls none delivered.
Quiet ==
    /\ UNCHANGED <<cur, outcome, body, history>>
    /\ \A w \in Workers : \/ pc'[w] = pc[w]
                          \/ pc[w] \notin Engaged /\ pc'[w] \notin Engaged
    /\ \A k \in Keys :
         \/ jobs'[k] = jobs[k]
         \/ jobs[k].status = "none" /\ jobs'[k] = NewJobRow
         \/ jobs[k].status \in Open /\ jobs'[k] = [jobs[k] EXCEPT !.due = TRUE]
    /\ \A c \in Schedules :
         targets'[c].status = "delivered" => targets[c].status = "delivered"

LEMMA QuietSteps ==
    ASSUME TypeOK, QuietNext \/ UNCHANGED vars
    PROVE  Quiet
  <1> USE DEF TypeOK, Quiet, Targets
  <1>1. ASSUME NEW t \in Targets, Register(t) \/ RemoveTarget(t) PROVE Quiet
    BY <1>1 DEF Register, RemoveTarget, TargetRow, workerVars
  <1>2. ASSUME NEW e \in Events, NEW S \in SUBSET Subscriptions, Dispatch(e, S)
        PROVE  Quiet
    <2>1. ASSUME NEW k \in {e} \X S PROVE jobs[k].status = "none"
      <3>1. PICK s \in S : k = <<e, s>>
        BY <2>1
      <3> QED
        BY <1>2, <3>1 DEF Dispatch
    <2> QED
      BY <1>2, <2>1 DEF Dispatch, workerVars
  <1>3. CASE Suspend \/ Configure \/ NextMinute \/ UNCHANGED vars
    BY <1>3 DEF Suspend, Configure, NextMinute, vars, rows, workerVars
  <1>4. ASSUME NEW k \in Keys, BackoffEnds(k) PROVE Quiet
    BY <1>4 DEF BackoffEnds, workerVars
  <1>5. ASSUME NEW w \in Workers, EnqueueRead(w) PROVE Quiet
    BY <1>5 DEF EnqueueRead, Engaged, Busy, rows
  <1>6. ASSUME NEW w \in Workers, EnqueueCommit(w) PROVE Quiet
    <2>1. ASSUME NEW k \in Keys
          PROVE  jobs'[k] = jobs[k] \/ (jobs[k].status = "none" /\ jobs'[k] = NewJobRow)
      <3>1. k \in NewReports(w) => jobs[k].status = "none"
        BY DEF NewReports
      <3>2. jobs'[k] = IF k \in NewReports(w) THEN NewJobRow ELSE jobs[k]
        BY <1>6, Zenon DEF EnqueueCommit
      <3> HIDE DEF TypeOK, Quiet
      <3> QED
        BY <3>1, <3>2
    <2>2. \A c \in Schedules :
            targets'[c].status = "delivered" => targets[c].status = "delivered"
      BY <1>6 DEF EnqueueCommit, PlannedStatus, TargetRow
    <2> QED
      BY <1>6, <2>1, <2>2 DEF EnqueueCommit, Engaged, Busy
  <1>7. ASSUME NEW w \in Workers, EnqueueLost(w) PROVE Quiet
    BY <1>7 DEF EnqueueLost, Engaged, Busy, rows
  <1> QED
    BY <1>1, <1>2, <1>3, <1>4, <1>5, <1>6, <1>7, Zenon DEF QuietNext

\* The parts of a row the invariants speak of.
LEMMA QuietRows ==
    ASSUME TypeOK, Quiet, NEW k \in Keys
    PROVE  /\ jobs[k].status \in Open => jobs'[k].status \in Open
           /\ jobs[k].status \in Open \/ jobs'[k] = jobs[k] \/
                (jobs[k].status = "none" /\ jobs'[k] = NewJobRow)
           /\ jobs[k].status # "none" =>
                jobs'[k].attempts = jobs[k].attempts /\ jobs'[k].body = jobs[k].body
           /\ jobs'[k].status = "none" => jobs'[k] = jobs[k]
  <1>1. jobs[k] \in JobRow
    BY DEF TypeOK
  <1>2. CASE jobs'[k] = jobs[k]
    BY <1>2
  <1>3. CASE jobs[k].status = "none" /\ jobs'[k] = NewJobRow
    BY <1>3 DEF NewJobRow, Open
  <1>4. CASE jobs[k].status \in Open /\ jobs'[k] = [jobs[k] EXCEPT !.due = TRUE]
    BY <1>1, <1>4 DEF JobRow, Open
  <1> QED
    BY <1>2, <1>3, <1>4 DEF Quiet

LEMMA QuietSafe ==
    ASSUME Inv, Quiet
    PROVE  Safe'
  <1> USE DEF Inv, Safe
  <1>0. \A k \in Keys : jobs[k].status = "none" =>
                          jobs[k].attempts = 0 /\ jobs[k].body = NoBody
    BY DEF AttemptInv, NoJobRow
  <1>1. \A w \in Workers :
          /\ cur[w] # NoKey => cur[w] \in Keys
          /\ pc[w] \in Busy => cur[w] # NoKey /\ jobs[cur[w]].status # "none"
    BY DEF TypeOK, LockInv, Engaged, Open
  <1>2. ASSUME NEW k \in Keys
        PROVE  jobs'[k].attempts = jobs[k].attempts /\ jobs'[k].body = jobs[k].body
    <2>1. CASE jobs[k].status # "none"
      BY <2>1, QuietRows
    <2>2. CASE jobs[k].status = "none"
      BY <1>0, <2>2, QuietRows DEF NewJobRow, Open
    <2> QED
      BY <2>1, <2>2
  <1>3. LockInv'
    BY <1>1, QuietRows DEF Quiet, LockInv, Engaged, Busy
  <1>4. AttemptInv'
    <2> SUFFICES ASSUME NEW k \in Keys
                 PROVE  /\ jobs'[k].status \in Open => jobs'[k].attempts < MaxAttempts
                        /\ jobs'[k].status = "none" => jobs'[k] = NoJobRow
      BY DEF AttemptInv
    <2>1. CASE jobs[k].status \in Open \/ jobs'[k] = jobs[k]
      BY <1>2, <2>1, QuietRows DEF AttemptInv, Open
    <2>2. CASE jobs[k].status = "none" /\ jobs'[k] = NewJobRow
      BY <2>2, QueueAssumption DEF NewJobRow
    <2> QED
      BY <2>1, <2>2, QuietRows
  <1>5. SentInv'
    BY DEF SentInv, DeliveredMeansMailed, Quiet, Engaged, Busy, history
  <1>6. CopiesInv'
    <2>1. \A k \in Keys : Recording(k)' <=> Recording(k)
      BY DEF Recording, Quiet, Engaged, Busy
    <2>2. \A k \in Keys : Late(k)' = Late(k)
      BY DEF Late, Quiet, Engaged
    <2> QED
      BY <1>2, <2>1, <2>2 DEF CopiesInv, Quiet, history
  <1>7. ArtifactInv'
    <2>1. \A k \in Keys : mailed'[k] \subseteq {jobs'[k].body} \ {NoBody}
      BY <1>2 DEF ArtifactInv, Quiet, history
    <2>2. ASSUME NEW w \in Workers, pc'[w] \in Engaged
          PROVE  /\ pc'[w] = pc[w] /\ cur'[w] = cur[w] /\ cur[w] \in Keys
                 /\ outcome'[w] = outcome[w] /\ body'[w] = body[w]
      BY <1>1, <2>2 DEF Quiet, LockInv
    <2> QED
      BY <1>2, <2>1, <2>2 DEF ArtifactInv, Engaged, Busy, IsReport
  <1> QED
    BY <1>3, <1>4, <1>5, <1>6, <1>7

-----------------------------------------------------------------------------
(* The steps of a worker on the row it holds. *)

\* The other workers are where they were.
Alone(w) ==
    \A v \in Workers \ {w} : /\ pc'[v] = pc[v] /\ cur'[v] = cur[v]
                             /\ outcome'[v] = outcome[v] /\ body'[v] = body[v]

\* A busy worker has the row of a job that is open, and has it alone.
LEMMA Holder ==
    ASSUME Inv, NEW w \in Workers, pc[w] \in Busy
    PROVE  /\ cur[w] \in Keys
           /\ jobs[cur[w]].status \in Open /\ jobs[cur[w]] \in JobRow
           /\ jobs[cur[w]].attempts \in Nat /\ jobs[cur[w]].attempts < MaxAttempts
           /\ \A v \in Workers \ {w} : pc[v] \in Busy => cur[v] # cur[w]
  <1>1. cur[w] # NoKey
    BY DEF Inv, Safe, LockInv, Engaged
  <1>2. cur[w] \in Keys /\ jobs[cur[w]] \in JobRow
    BY <1>1 DEF Inv, TypeOK
  <1>3. jobs[cur[w]].attempts \in Nat
    BY <1>2, AttemptsNat
  <1> QED
    BY <1>1, <1>2, <1>3 DEF Inv, Safe, LockInv, AttemptInv

\* What a job's copies are balanced against.
LEMMA Balance ==
    ASSUME TypeOK, CopiesInv, NEW j \in Keys
    PROVE  /\ jobs[j].attempts \in Nat /\ rolledBack[j] \in Nat /\ copies[j] \in Nat
           /\ IsFiniteSet(Late(j)) /\ Cardinality(Late(j)) \in Nat
           /\ copies[j] + Cardinality(Late(j)) <=
                jobs[j].attempts + rolledBack[j] + (IF Recording(j) THEN 1 ELSE 0)
  <1>1. IsFiniteSet(Late(j))
    BY DEF CopiesInv
  <1>2. Cardinality(Late(j)) \in Nat
    BY <1>1, FS_CardinalityType
  <1> QED
    BY <1>1, <1>2, AttemptsNat DEF TypeOK, CopiesInv

\* A worker that neither loses its lock nor sends without one leaves Late as it is.
LEMMA LateSame ==
    ASSUME NEW w \in Workers, pc[w] # "unlocked", pc'[w] # "unlocked", Alone(w)
    PROVE  \A k : Late(k)' = Late(k)
  BY DEF Late, Alone

LEMMA CopiesKept ==
    ASSUME TypeOK, CopiesInv, UNCHANGED <<jobs, copies, rolledBack>>,
           \A j \in Keys : (Recording(j) => Recording(j)') /\ Late(j)' = Late(j)
    PROVE  CopiesInv'
  <1> SUFFICES ASSUME NEW j \in Keys
               PROVE  copies[j] + Cardinality(Late(j)) <=
                        jobs[j].attempts + rolledBack[j]
                          + (IF Recording(j)' THEN 1 ELSE 0)
    BY DEF CopiesInv
  <1>1. /\ jobs[j].attempts \in Nat /\ rolledBack[j] \in Nat /\ copies[j] \in Nat
        /\ Cardinality(Late(j)) \in Nat
    BY Balance
  <1>2. copies[j] + Cardinality(Late(j)) <=
          jobs[j].attempts + rolledBack[j] + (IF Recording(j) THEN 1 ELSE 0)
    BY Balance
  <1> HIDE DEF Recording, Late
  <1>3. CASE Recording(j)
    BY <1>1, <1>2, <1>3
  <1>4. CASE ~Recording(j)
    BY <1>1, <1>2, <1>4
  <1> QED
    BY <1>3, <1>4

LEMMA ClaimStep ==
    ASSUME Inv, NEW w \in Workers, NEW k \in Keys, Claim(w, k)
    PROVE  Inv'
  <1> USE DEF Inv, Safe
  <1>1. TypeOK'
    <2>1. {Target(k)} \cap Schedules \in SUBSET Schedules
      OBVIOUS
    <2>2. session' \in [Workers -> Session]
      BY <2>1, LoadedType DEF Claim, Locked, TypeOK
    <2>3. jobs[k].body \in Bodies \cup {NoBody}
      BY DEF TypeOK, JobRow
    <2> QED
      BY <2>2, <2>3 DEF Claim, Locked, Branch, TypeOK, Stages, Outcomes, rows, history
  <1>2. /\ Alone(w) /\ cur'[w] = k /\ pc'[w] = Branch(k) /\ body'[w] = jobs[k].body
        /\ outcome'[w] = IF Branch(k) = "recording" THEN "cancelled" ELSE "none"
        /\ UNCHANGED <<jobs, targets, history>>
    BY DEF Claim, Locked, Alone, TypeOK, rows
  <1>3. /\ Branch(k) \in Busy
        /\ Branch(k) = "rendering" => jobs[k].body = NoBody
        /\ Branch(k) = "sending" /\ IsReport(k) => jobs[k].body # NoBody
    BY DEF Branch, Busy
  <1>4. /\ pc[w] = "idle" /\ cur[w] = NoKey
        /\ \A v \in Workers : pc[v] \in Busy => cur[v] # k
    BY DEF Claim, LockHolders, LockInv, Engaged, Busy
  <1>5. LockInv'
    BY <1>2, <1>3, <1>4, KeyFacts DEF Claim, LockInv, Alone, Conclusions, Engaged
  <1>6. AttemptInv'
    BY <1>2 DEF AttemptInv
  <1>7. SentInv'
    BY <1>2 DEF SentInv, DeliveredMeansMailed, Alone, history
  <1>8. CopiesInv'
    <2>1. \A j \in Keys : Recording(j) => Recording(j)'
      <3> SUFFICES ASSUME NEW j \in Keys, NEW v \in Workers,
                          cur[v] = j, pc[v] = "recording", outcome[v] # "rendered"
                   PROVE  Recording(j)'
        BY DEF Recording
      <3>1. v # w
        BY <1>4, KeyFacts
      <3> QED
        BY <1>2, <3>1 DEF Recording, Alone
    <2>2. \A j \in Keys : Late(j)' = Late(j)
      BY <1>2, <1>3, <1>4, LateSame DEF Busy
    <2> QED
      BY <1>2, <2>1, <2>2, CopiesKept DEF history
  <1>9. ArtifactInv'
    BY <1>2, <1>3 DEF ArtifactInv, Alone, history, IsReport, Busy
  <1> QED
    BY <1>1, <1>5, <1>6, <1>7, <1>8, <1>9

LEMMA RenderStep ==
    ASSUME Inv, NEW w \in Workers, Render(w)
    PROVE  Inv'
  <1> USE DEF Inv, Safe
  <1>1. TypeOK'
    BY DEF Render, Concludes, TypeOK, Stages, Outcomes, rows
  <1>2. /\ Alone(w) /\ cur' = cur /\ pc'[w] = "recording"
        /\ \/ outcome'[w] = "rendered" /\ body'[w] \in Bodies
           \/ outcome'[w] = "error"
        /\ UNCHANGED <<jobs, targets, history>>
    BY DEF Render, Concludes, Alone, TypeOK, rows, history
  <1>3. pc[w] = "rendering" /\ cur[w] \in Keys /\ jobs[cur[w]].body = NoBody
    BY Holder DEF Render, Busy, ArtifactInv
  <1>4. LockInv'
    BY <1>2, <1>3 DEF LockInv, Alone, Engaged, Busy, Conclusions
  <1>5. AttemptInv'
    BY <1>2 DEF AttemptInv
  <1>6. SentInv'
    BY <1>2 DEF SentInv, DeliveredMeansMailed, Alone, history
  <1>7. CopiesInv'
    <2>1. \A j \in Keys : Recording(j) => Recording(j)'
      BY <1>2, <1>3 DEF Recording, Alone
    <2>2. \A j \in Keys : Late(j)' = Late(j)
      BY <1>2, <1>3, LateSame
    <2> QED
      BY <1>2, <2>1, <2>2, CopiesKept DEF history
  <1>8. ArtifactInv'
    BY <1>2, <1>3 DEF ArtifactInv, Alone, history, IsReport
  <1> QED
    BY <1>1, <1>4, <1>5, <1>6, <1>7, <1>8

LEMMA SendStep ==
    ASSUME Inv, NEW w \in Workers, Send(w)
    PROVE  Inv'
  <1> USE DEF Inv, Safe
  <1> DEFINE k == cur[w]
  <1>1. /\ pc[w] = "sending" /\ k \in Keys
        /\ \A v \in Workers \ {w} : pc[v] \in Busy => cur[v] # k
    BY Holder DEF Send, Busy
  <1>2. /\ Alone(w) /\ cur' = cur /\ body' = body /\ pc'[w] = "recording"
        /\ outcome'[w] \in {"delivered", "error"}
        /\ UNCHANGED <<jobs, targets, rolledBack>>
    BY DEF Send, Concludes, Alone, TypeOK, rows
  <1>3. \/ /\ outcome'[w] = "error"
           /\ UNCHANGED <<copies, mailed>>
        \/ Received(w)
    BY DEF Send, Concludes, TypeOK
  <1>4. Received(w) => /\ copies' = [copies EXCEPT ![k] = copies[k] + 1]
                       /\ mailed' = [mailed EXCEPT ![k] = IF IsReport(k)
                                       THEN mailed[k] \cup {jobs[k].body} ELSE mailed[k]]
    BY <1>1 DEF Received, ArtifactInv
  <1>5. jobs[k] \in JobRow /\ (IsReport(k) => jobs[k].body \in Bodies)
    BY <1>1 DEF ArtifactInv, TypeOK, JobRow
  <1>6. TypeOK'
    <2>1. copies' \in [Keys -> Nat] /\ mailed' \in [Keys -> SUBSET Bodies]
      BY <1>1, <1>3, <1>4, <1>5 DEF TypeOK
    <2> QED
      BY <2>1 DEF Send, Concludes, TypeOK, Stages, Outcomes, rows
  <1>7. LockInv'
    BY <1>1, <1>2 DEF LockInv, Alone, Engaged, Busy, Conclusions
  <1>8. AttemptInv'
    BY <1>2 DEF AttemptInv
  <1>9. SentInv'
    <2>1. \A j \in Keys : copies[j] > 0 => copies'[j] > 0
      BY <1>1, <1>3, <1>4 DEF TypeOK
    <2>2. outcome'[w] = "delivered" => copies'[k] > 0
      BY <1>1, <1>3, <1>4 DEF TypeOK
    <2>3. \A v \in Workers \ {w} : pc[v] = "recording" => cur[v] \in Keys
      BY Holder DEF Busy
    <2>4. \A c \in Schedules, m \in Minutes : <<m, c>> \in Keys
      BY DEF Keys
    <2>5. DeliveredMeansMailed'
      BY <1>2, <2>1, <2>4 DEF SentInv, DeliveredMeansMailed
    <2> QED
      BY <1>1, <1>2, <2>1, <2>2, <2>3, <2>5 DEF SentInv, Alone
  <1>10. CopiesInv'
    <2>0. \A j \in Keys : Late(j)' = Late(j)
      BY <1>1, <1>2, LateSame
    <2> SUFFICES ASSUME NEW j \in Keys
                 PROVE  copies'[j] + Cardinality(Late(j)) <=
                          jobs[j].attempts + rolledBack[j]
                            + (IF Recording(j)' THEN 1 ELSE 0)
      BY <1>2, <2>0 DEF CopiesInv
    <2>1. /\ jobs[j].attempts \in Nat /\ rolledBack[j] \in Nat /\ copies[j] \in Nat
          /\ Cardinality(Late(j)) \in Nat
      BY Balance
    <2>2. copies[j] + Cardinality(Late(j)) <=
            jobs[j].attempts + rolledBack[j] + (IF Recording(j) THEN 1 ELSE 0)
      BY Balance
    <2>3. CASE j = k
      <3>1. ~Recording(j) /\ Recording(j)'
        BY <1>1, <1>2, <2>3 DEF Recording, Busy
      <3>2. copies'[j] <= copies[j] + 1
        BY <1>3, <1>4, <2>1, <2>3 DEF TypeOK
      <3>3. copies'[j] \in Nat
        BY <1>6 DEF TypeOK
      <3> HIDE DEF Recording, Late, k
      <3> QED
        BY <2>1, <2>2, <3>1, <3>2, <3>3
    <2>4. CASE j # k
      <3>1. Recording(j) => Recording(j)'
        BY <1>1, <1>2, <2>4 DEF Recording, Alone
      <3>2. copies'[j] = copies[j]
        BY <1>3, <1>4, <2>4 DEF TypeOK
      <3> HIDE DEF Recording, Late, k
      <3> QED
        BY <2>1, <2>2, <3>1, <3>2
    <2> QED
      BY <2>3, <2>4
  <1>11. ArtifactInv'
    <2>1. \A j \in Keys : mailed'[j] \subseteq {jobs[j].body} \ {NoBody}
      BY <1>1, <1>3, <1>4, <1>5, QueueAssumption DEF ArtifactInv, TypeOK
    <2> QED
      BY <1>2, <2>1 DEF ArtifactInv, Alone, IsReport
  <1> QED
    BY <1>6, <1>7, <1>8, <1>9, <1>10, <1>11

\* A worker lets go of its row, which alone may have changed; an artifact stays.
Released(w) ==
    /\ Unlock(w)
    /\ \A k \in Keys : k # cur[w] => jobs'[k] = jobs[k]
    /\ jobs[cur[w]].body # NoBody => jobs'[cur[w]].body = jobs[cur[w]].body
    /\ UNCHANGED <<copies, mailed>>

LEMMA ReleaseKeeps ==
    ASSUME Inv, NEW w \in Workers, pc[w] \in Busy, Released(w)
    PROVE  /\ LockInv'
           /\ \A v \in Workers : pc'[v] = "recording" => v # w
           /\ \A v \in Workers :
                /\ pc'[v] = "recording" /\ outcome'[v] = "delivered" => copies'[cur'[v]] > 0
                /\ pc'[v] = "rendering" => jobs'[cur'[v]].body = NoBody
                /\ pc'[v] = "recording" /\ outcome'[v] = "rendered" =>
                     jobs'[cur'[v]].body = NoBody /\ body'[v] \in Bodies
                /\ pc'[v] \in {"sending", "unlocked"} /\ IsReport(cur'[v]) =>
                     jobs'[cur'[v]].body # NoBody /\ body'[v] = jobs'[cur'[v]].body
           /\ \A k \in Keys : Late(k)' = Late(k)
           /\ \A k \in Keys : IF k = cur[w] THEN ~Recording(k)'
                             ELSE Recording(k) => Recording(k)'
  <1> USE DEF Inv, Safe
  <1>1. Alone(w) /\ pc'[w] = "idle" /\ cur'[w] = NoKey
    BY DEF Released, Unlock, Alone, TypeOK
  <1>2. ASSUME NEW v \in Workers \ {w}, pc[v] \in Busy
        PROVE  cur[v] \in Keys /\ cur[v] # cur[w] /\ jobs'[cur[v]] = jobs[cur[v]]
    BY <1>2, Holder DEF Released
  <1>3. ASSUME NEW v \in Workers \ {w}, pc[v] = "unlocked", jobs[cur[v]].body # NoBody
        PROVE  cur[v] \in Keys /\ jobs'[cur[v]].body = jobs[cur[v]].body
    BY <1>3 DEF Released, LockInv, Engaged, TypeOK
  <1>4. LockInv'
    BY <1>1, <1>2 DEF LockInv, Alone, Engaged, Busy
  <1>5. ASSUME NEW v \in Workers
        PROVE  /\ pc'[v] = "recording" /\ outcome'[v] = "delivered" => copies'[cur'[v]] > 0
               /\ pc'[v] = "rendering" => jobs'[cur'[v]].body = NoBody
               /\ pc'[v] = "recording" /\ outcome'[v] = "rendered" =>
                    jobs'[cur'[v]].body = NoBody /\ body'[v] \in Bodies
               /\ pc'[v] \in {"sending", "unlocked"} /\ IsReport(cur'[v]) =>
                    jobs'[cur'[v]].body # NoBody /\ body'[v] = jobs'[cur'[v]].body
    BY <1>1, <1>2, <1>3 DEF Released, SentInv, ArtifactInv, Alone, Busy
  <1>6. ASSUME NEW k \in Keys, k = cur[w] PROVE ~Recording(k)'
    BY <1>1, <1>2, <1>6 DEF Recording, Alone, Busy
  <1>7. ASSUME NEW k \in Keys, k # cur[w], Recording(k) PROVE Recording(k)'
    BY <1>1, <1>7 DEF Recording, Alone
  <1>8. \A k \in Keys : Late(k)' = Late(k)
    BY <1>1, LateSame DEF Busy
  <1> QED
    BY <1>1, <1>4, <1>5, <1>6, <1>7, <1>8

LEMMA LostStep ==
    ASSUME Inv, NEW w \in Workers, StaleTarget(w) \/ LoseTransaction(w)
    PROVE  Inv'
  <1> USE DEF Inv, Safe
  <1> DEFINE k == cur[w]
  <1>0. pc[w] \in Busy
    BY DEF StaleTarget, LoseTransaction, Engaged, Busy, LockInv
  <1>1. k \in Keys
    BY <1>0, Holder
  <1>2. /\ Released(w) /\ UNCHANGED <<jobs, targets, world, failedSince>>
        /\ rolledBack' = [rolledBack EXCEPT ![k] = rolledBack[k] + 1]
    BY DEF StaleTarget, LoseTransaction, Rollback, Released, Unlock
  <1>3. TypeOK'
    BY <1>1, <1>2, UnlockType DEF Released, TypeOK, world
  <1>4. LockInv'
    BY <1>0, <1>2, ReleaseKeeps
  <1>5. AttemptInv'
    BY <1>2 DEF AttemptInv
  <1>6. SentInv'
    BY <1>0, <1>2, ReleaseKeeps DEF Released, SentInv, DeliveredMeansMailed
  <1>7. CopiesInv'
    <2>0. \A j \in Keys : Late(j)' = Late(j)
      BY <1>0, <1>2, ReleaseKeeps
    <2> SUFFICES ASSUME NEW j \in Keys
                 PROVE  copies[j] + Cardinality(Late(j)) <=
                          jobs[j].attempts + rolledBack'[j]
                            + (IF Recording(j)' THEN 1 ELSE 0)
      BY <1>2, <2>0 DEF CopiesInv, Released
    <2>1. /\ jobs[j].attempts \in Nat /\ rolledBack[j] \in Nat /\ copies[j] \in Nat
          /\ Cardinality(Late(j)) \in Nat
      BY Balance
    <2>2. copies[j] + Cardinality(Late(j)) <=
            jobs[j].attempts + rolledBack[j] + (IF Recording(j) THEN 1 ELSE 0)
      BY Balance
    <2>3. IF j = k THEN rolledBack'[j] = rolledBack[j] + 1
          ELSE rolledBack'[j] = rolledBack[j] /\ (Recording(j) => Recording(j)')
      BY <1>0, <1>1, <1>2, ReleaseKeeps DEF TypeOK
    <2> HIDE DEF Recording, Late
    <2>4. CASE j = k
      BY <2>1, <2>2, <2>3, <2>4
    <2>5. CASE j # k
      BY <2>1, <2>2, <2>3, <2>5
    <2> QED
      BY <2>4, <2>5
  <1>8. ArtifactInv'
    <2>1. \A j \in Keys : mailed'[j] \subseteq {jobs'[j].body} \ {NoBody}
      BY <1>2 DEF ArtifactInv, Released
    <2> QED
      BY <1>0, <1>2, <2>1, ReleaseKeeps DEF ArtifactInv
  <1> QED
    BY <1>3, <1>4, <1>5, <1>6, <1>7, <1>8

\* The lock is lost and the call goes on.
LEMMA ConnectionStep ==
    ASSUME Inv, NEW w \in Workers, LoseConnection(w)
    PROVE  Inv'
  <1> USE DEF Inv, Safe
  <1> DEFINE k == cur[w]
  <1>1. pc[w] = "sending" /\ k \in Keys
    BY Holder DEF LoseConnection, Busy
  <1>2. /\ Alone(w) /\ pc'[w] = "unlocked"
        /\ UNCHANGED <<jobs, targets, cur, outcome, body, session, copies, mailed>>
        /\ rolledBack' = [rolledBack EXCEPT ![k] = rolledBack[k] + 1]
    BY DEF LoseConnection, Alone, TypeOK, rows
  <1>3. TypeOK'
    BY <1>1, <1>2 DEF LoseConnection, TypeOK, Stages, rows
  <1>4. LockInv'
    BY <1>1, <1>2 DEF LockInv, Alone, Engaged, Busy
  <1>5. AttemptInv'
    BY <1>2 DEF AttemptInv
  <1>6. SentInv'
    BY <1>2 DEF SentInv, DeliveredMeansMailed, Alone
  <1>7. CopiesInv'
    <2> SUFFICES ASSUME NEW j \in Keys
                 PROVE  /\ IsFiniteSet(Late(j)')
                        /\ copies[j] + Cardinality(Late(j)') <=
                             jobs[j].attempts + rolledBack'[j]
                               + (IF Recording(j)' THEN 1 ELSE 0)
      BY <1>2 DEF CopiesInv
    <2>1. /\ jobs[j].attempts \in Nat /\ rolledBack[j] \in Nat /\ copies[j] \in Nat
          /\ IsFiniteSet(Late(j)) /\ Cardinality(Late(j)) \in Nat
      BY Balance
    <2>2. copies[j] + Cardinality(Late(j)) <=
            jobs[j].attempts + rolledBack[j] + (IF Recording(j) THEN 1 ELSE 0)
      BY Balance
    <2>3. Recording(j)' <=> Recording(j)
      BY <1>1, <1>2 DEF Recording, Alone
    <2>4. CASE j = k
      <3>1. w \notin Late(j) /\ Late(j)' = Late(j) \cup {w}
        BY <1>1, <1>2, <2>4 DEF Late, Alone
      <3>2. /\ IsFiniteSet(Late(j)')
            /\ Cardinality(Late(j)') = Cardinality(Late(j)) + 1
        BY <2>1, <3>1, FS_AddElement
      <3>3. rolledBack'[j] = rolledBack[j] + 1
        BY <1>1, <1>2, <2>4 DEF TypeOK
      <3> HIDE DEF Recording, Late
      <3> QED
        BY <2>1, <2>2, <2>3, <3>2, <3>3
    <2>5. CASE j # k
      <3>1. Late(j)' = Late(j) /\ rolledBack'[j] = rolledBack[j]
        BY <1>1, <1>2, <2>5 DEF Late, Alone, TypeOK
      <3> HIDE DEF Recording, Late
      <3> QED
        BY <2>1, <2>2, <2>3, <3>1
    <2> QED
      BY <2>4, <2>5
  <1>8. ArtifactInv'
    BY <1>1, <1>2 DEF ArtifactInv, Alone
  <1> QED
    BY <1>3, <1>4, <1>5, <1>6, <1>7, <1>8

\* A call without a lock ends: its copy is paid for by the transaction that was lost.
LEMMA UnlockedStep ==
    ASSUME Inv, NEW w \in Workers, SendUnlocked(w)
    PROVE  Inv'
  <1> USE DEF Inv, Safe
  <1> DEFINE k == cur[w]
  <1>1. pc[w] = "unlocked" /\ k # NoKey /\ k \in Keys
    BY DEF SendUnlocked, LockInv, Engaged, TypeOK
  <1>2. /\ Alone(w) /\ pc'[w] = "idle" /\ cur'[w] = NoKey
        /\ UNCHANGED <<jobs, targets, rolledBack>>
    BY DEF SendUnlocked, Unlock, Alone, TypeOK
  <1>3. jobs[k] \in JobRow /\ (IsReport(k) => jobs[k].body \in Bodies)
    BY <1>1 DEF ArtifactInv, TypeOK, JobRow
  <1>4. \/ UNCHANGED <<copies, mailed>>
        \/ /\ copies' = [copies EXCEPT ![k] = copies[k] + 1]
           /\ mailed' = [mailed EXCEPT ![k] = IF IsReport(k)
                           THEN mailed[k] \cup {jobs[k].body} ELSE mailed[k]]
    BY <1>1 DEF SendUnlocked, Received, ArtifactInv
  <1>5. TypeOK'
    <2>1. copies' \in [Keys -> Nat] /\ mailed' \in [Keys -> SUBSET Bodies]
      BY <1>1, <1>3, <1>4 DEF TypeOK
    <2> QED
      BY <2>1, UnlockType DEF SendUnlocked, Unlock, TypeOK, world
  <1>6. LockInv'
    BY <1>1, <1>2 DEF LockInv, Alone, Engaged, Busy
  <1>7. AttemptInv'
    BY <1>2 DEF AttemptInv
  <1>8. SentInv'
    <2>1. \A j \in Keys : copies[j] > 0 => copies'[j] > 0
      BY <1>1, <1>4 DEF TypeOK
    <2>2. \A v \in Workers : pc[v] = "recording" => cur[v] \in Keys
      BY Holder DEF Busy
    <2>3. \A c \in Schedules, m \in Minutes : <<m, c>> \in Keys
      BY DEF Keys
    <2> QED
      BY <1>2, <2>1, <2>2, <2>3 DEF SentInv, DeliveredMeansMailed, Alone
  <1>9. CopiesInv'
    <2> SUFFICES ASSUME NEW j \in Keys
                 PROVE  /\ IsFiniteSet(Late(j)')
                        /\ copies'[j] + Cardinality(Late(j)') <=
                             jobs[j].attempts + rolledBack[j]
                               + (IF Recording(j)' THEN 1 ELSE 0)
      BY <1>2 DEF CopiesInv
    <2>1. /\ jobs[j].attempts \in Nat /\ rolledBack[j] \in Nat /\ copies[j] \in Nat
          /\ IsFiniteSet(Late(j)) /\ Cardinality(Late(j)) \in Nat
      BY Balance
    <2>2. copies[j] + Cardinality(Late(j)) <=
            jobs[j].attempts + rolledBack[j] + (IF Recording(j) THEN 1 ELSE 0)
      BY Balance
    <2>3. Recording(j)' <=> Recording(j)
      BY <1>1, <1>2 DEF Recording, Alone
    <2>4. CASE j = k
      <3>1. w \in Late(j) /\ Late(j)' = Late(j) \ {w}
        BY <1>1, <1>2, <2>4, KeyFacts DEF Late, Alone
      <3>2. /\ IsFiniteSet(Late(j)')
            /\ Cardinality(Late(j)') = Cardinality(Late(j)) - 1
        BY <2>1, <3>1, FS_RemoveElement
      <3>3. copies'[j] \in Nat /\ copies'[j] <= copies[j] + 1
        BY <1>1, <1>4, <2>1, <2>4 DEF TypeOK
      <3> HIDE DEF Recording, Late
      <3> QED
        BY <2>1, <2>2, <2>3, <3>2, <3>3
    <2>5. CASE j # k
      <3>1. Late(j)' = Late(j) /\ copies'[j] = copies[j]
        BY <1>1, <1>2, <1>4, <2>5, KeyFacts DEF Late, Alone, TypeOK
      <3> HIDE DEF Recording, Late
      <3> QED
        BY <2>1, <2>2, <2>3, <3>1
    <2> QED
      BY <2>4, <2>5
  <1>10. ArtifactInv'
    <2>1. \A j \in Keys : mailed'[j] \subseteq {jobs[j].body} \ {NoBody}
      BY <1>1, <1>3, <1>4, QueueAssumption DEF ArtifactInv, TypeOK
    <2> QED
      BY <1>2, <2>1 DEF ArtifactInv, Alone, IsReport
  <1> QED
    BY <1>5, <1>6, <1>7, <1>8, <1>9, <1>10

LEMMA RecordStep ==
    ASSUME Inv, NEW w \in Workers, Record(w)
    PROVE  Inv'
  <1> USE DEF Inv, Safe
  <1> DEFINE k == cur[w]
  <1> DEFINE row == Outcome(w, jobs[k])
  <1>1. /\ pc[w] = "recording" /\ pc[w] \in Busy /\ k \in Keys
        /\ jobs[k] \in JobRow /\ jobs[k].status \in Open
        /\ jobs[k].attempts \in Nat /\ jobs[k].attempts < MaxAttempts
    BY Holder DEF Record, Busy
  <1>2. outcome[w] \in Conclusions /\ body[w] \in Bodies \cup {NoBody}
    BY <1>1 DEF LockInv, TypeOK
  <1>3. /\ row \in JobRow /\ row.status # "none"
        /\ row.status \in Open => row.attempts < MaxAttempts
        /\ outcome[w] = "rendered" =>
             row.attempts = jobs[k].attempts /\ row.body = body[w]
        /\ outcome[w] # "rendered" =>
             row.attempts = jobs[k].attempts + 1 /\ row.body = jobs[k].body
    BY <1>1, <1>2, OutcomeFacts
  <1>4. jobs' = [jobs EXCEPT ![k] = row] /\ UNCHANGED <<copies, mailed, rolledBack, world>>
    BY DEF Record, Unlock
  <1>5. Released(w)
    BY <1>1, <1>2, <1>3, <1>4 DEF Record, Released, TypeOK, ArtifactInv
  <1> HIDE DEF row
  <1>6. /\ jobs'[k] = row /\ \A j \in Keys : j # k => jobs'[j] = jobs[j]
    BY <1>1, <1>4 DEF TypeOK
  <1>7. TypeOK'
    <2>1. jobs' \in [Keys -> JobRow]
      BY <1>3, <1>4 DEF TypeOK
    <2>2. Noted(w, Target(k)) \in TargetRow
      <3>1. targets[Target(k)] \in TargetRow
        BY <1>1, KeyFacts DEF TypeOK
      <3> QED
        BY <3>1 DEF Noted, TargetRow, DeliveryStatus
    <2>3. targets' \in [Targets -> TargetRow]
      BY <2>2 DEF Record, TypeOK
    <2>4. failedSince' \in [Subscriptions -> Nat]
      <3> DEFINE n == CASE outcome[w] = "delivered" -> 0
                        [] outcome[w] = "error" -> failedSince[Target(k)] + 1
                        [] OTHER -> failedSince[Target(k)]
      <3>1. CASE IsReport(k)
        BY <3>1 DEF Record, TypeOK
      <3>2. CASE ~IsReport(k)
        <4>1. failedSince[Target(k)] \in Nat
          BY <1>1, <3>2, KeyFacts DEF TypeOK
        <4>2. n \in Nat
          BY <4>1
        <4>3. failedSince' = [failedSince EXCEPT ![Target(k)] = n]
          BY <3>2 DEF Record
        <4> QED
          BY <4>2, <4>3 DEF TypeOK
      <3> QED
        BY <3>1, <3>2
    <2> QED
      BY <1>4, <1>5, <2>1, <2>3, <2>4, UnlockType DEF Released, TypeOK, world
  <1>8. LockInv'
    BY <1>1, <1>5, ReleaseKeeps
  <1>9. AttemptInv'
    BY <1>3, <1>6 DEF AttemptInv
  <1>10. SentInv'
    <2>1. ASSUME NEW c \in Schedules, targets'[c].status = "delivered"
          PROVE  \E m \in Minutes : copies[<<m, c>>] > 0
      <3>1. CASE targets[c].status = "delivered"
        BY <3>1 DEF SentInv, DeliveredMeansMailed
      <3>2. CASE targets[c].status # "delivered"
        <4>1. outcome[w] = "delivered" /\ c = Target(k)
          BY <2>1, <3>2 DEF Record, TypeOK, Targets
        <4>2. copies[k] > 0 /\ IsReport(k)
          BY <1>1, <4>1, KeyFacts DEF SentInv
        <4> QED
          BY <1>1, <4>1, <4>2, KeyFacts
      <3> QED
        BY <3>1, <3>2
    <2>2. DeliveredMeansMailed'
      BY <1>4, <2>1 DEF DeliveredMeansMailed
    <2> QED
      BY <1>1, <1>5, <2>2, ReleaseKeeps DEF SentInv
  <1>11. CopiesInv'
    <2>0. \A j \in Keys : Late(j)' = Late(j)
      BY <1>1, <1>5, ReleaseKeeps
    <2> SUFFICES ASSUME NEW j \in Keys
                 PROVE  copies[j] + Cardinality(Late(j)) <=
                          jobs'[j].attempts + rolledBack[j]
                            + (IF Recording(j)' THEN 1 ELSE 0)
      BY <1>4, <2>0 DEF CopiesInv
    <2>1. /\ jobs[j].attempts \in Nat /\ rolledBack[j] \in Nat /\ copies[j] \in Nat
          /\ Cardinality(Late(j)) \in Nat
      BY Balance
    <2>2. copies[j] + Cardinality(Late(j)) <=
            jobs[j].attempts + rolledBack[j] + (IF Recording(j) THEN 1 ELSE 0)
      BY Balance
    <2>3. CASE j = k
      <3>1. Recording(j) => outcome[w] # "rendered"
        BY <1>1, <2>3 DEF Recording, LockInv, Busy
      <3>2. jobs'[j].attempts = IF outcome[w] = "rendered" THEN jobs[j].attempts
                                ELSE jobs[j].attempts + 1
        BY <1>3, <1>6, <2>3
      <3>3. copies[j] + Cardinality(Late(j)) <= jobs'[j].attempts + rolledBack[j]
        BY <2>1, <2>2, <3>1, <3>2
      <3>4. jobs'[j].attempts \in Nat
        BY <1>7, AttemptsNat DEF TypeOK
      <3> HIDE DEF Recording, Late
      <3> QED
        BY <2>1, <3>3, <3>4
    <2>4. CASE j # k
      <3>1. jobs'[j] = jobs[j] /\ (Recording(j) => Recording(j)')
        BY <1>1, <1>5, <1>6, <2>4, ReleaseKeeps
      <3> HIDE DEF Recording, Late
      <3> QED
        BY <2>1, <2>2, <3>1
    <2> QED
      BY <2>3, <2>4
  <1>12. ArtifactInv'
    <2>1. ASSUME NEW j \in Keys PROVE mailed'[j] \subseteq {jobs'[j].body} \ {NoBody}
      <3>1. CASE j = k /\ outcome[w] = "rendered"
        <4>1. mailed[j] = {}
          BY <1>1, <3>1 DEF ArtifactInv
        <4> QED
          BY <1>4, <4>1
      <3>2. CASE j # k \/ outcome[w] # "rendered"
        BY <1>3, <1>4, <1>6, <3>2 DEF ArtifactInv
      <3> QED
        BY <3>1, <3>2
    <2> QED
      BY <1>1, <1>5, <2>1, ReleaseKeeps DEF ArtifactInv
  <1> QED
    BY <1>7, <1>8, <1>9, <1>10, <1>11, <1>12

-----------------------------------------------------------------------------
(* The invariants. *)

LEMMA InvInit == Init => Inv
  <1> SUFFICES ASSUME Init PROVE Inv
    OBVIOUS
  <1>1. TypeOK
    <2>1. \A t \in Targets : targets[t] \in TargetRow
      BY DEF Init, TargetRow, DeliveryStatus
    <2>2. jobs \in [Keys -> JobRow] /\ session \in [Workers -> Session]
      BY RowFacts, NothingType DEF Init
    <2> QED
      BY <2>1, <2>2, QueueAssumption DEF Init, TypeOK, Stages, Outcomes
  <1>2. LockInv /\ AttemptInv
    BY DEF Init, LockInv, AttemptInv, Engaged, Busy, NoJobRow, Open
  <1>3. SentInv
    BY DEF Init, SentInv, DeliveredMeansMailed, Targets
  <1>4. CopiesInv
    <2>1. \A k \in Keys : ~Recording(k)
      BY DEF Init, Recording
    <2>2. \A k \in Keys : Late(k) = {}
      BY DEF Init, Late
    <2>3. \A k \in Keys : IsFiniteSet(Late(k)) /\ Cardinality(Late(k)) = 0
      BY <2>2, FS_EmptySet, Zenon
    <2>4. \A k \in Keys : copies[k] = 0 /\ jobs[k].attempts = 0 /\ rolledBack[k] = 0
      BY DEF Init, NoJobRow
    <2> HIDE DEF Recording, Late
    <2> QED
      BY <2>1, <2>3, <2>4 DEF CopiesInv
  <1>5. ArtifactInv
    BY DEF Init, ArtifactInv
  <1> QED
    BY <1>1, <1>2, <1>3, <1>4, <1>5 DEF Inv, Safe

LEMMA InvNext ==
    ASSUME Inv, [Next]_vars
    PROVE  Inv'
  <1>1. CASE QuietNext \/ UNCHANGED vars
    BY <1>1, QuietType, QuietSteps, QuietSafe DEF Inv
  <1>2. ASSUME NEW w \in Workers, NEW k \in Keys, Claim(w, k) PROVE Inv'
    BY <1>2, ClaimStep
  <1>3. ASSUME NEW w \in Workers, Process(w) \/ LoseTransaction(w) \/ LoseConnection(w)
        PROVE  Inv'
    BY <1>3, RenderStep, SendStep, UnlockedStep, RecordStep, LostStep, ConnectionStep,
       Zenon DEF Process
  <1> QED
    BY <1>1, <1>2, <1>3, Zenon DEF Next, QuietNext

\* The rows, the locks and the history stay consistent through every interleaving and
\* loss: the inductive invariant the other theorems rest on.
THEOREM Invariance == Spec => []Inv
  BY InvInit, InvNext, PTL DEF Spec

\* Every variable keeps its type: a job never gets past MaxAttempts attempts.
THEOREM TypeCorrect == Spec => []TypeOK
  <1>1. Inv => TypeOK
    BY DEF Inv
  <1> QED
    BY <1>1, Invariance, PTL

\* However many workers interleave, and whichever of their transactions are lost, a
\* receiver gets a job at most once per counted attempt, once per transaction lost
\* during the network call or after it, and once for the call not recorded yet.
THEOREM DuplicatesBounded == Spec => []DuplicatesAccounted
  <1>1. ASSUME Inv PROVE DuplicatesAccounted
    <2> SUFFICES ASSUME NEW k \in Keys
                 PROVE  copies[k] <= jobs[k].attempts + rolledBack[k] +
                          (IF \E w \in LockHolders(k) : pc[w] = "recording"
                           THEN 1 ELSE 0)
      BY DEF DuplicatesAccounted
    <2> DEFINE atIt == \E w \in LockHolders(k) : pc[w] = "recording"
    <2>1. Recording(k) => atIt
      BY DEF Recording, LockHolders
    <2>2. /\ jobs[k].attempts \in Nat /\ rolledBack[k] \in Nat /\ copies[k] \in Nat
          /\ Cardinality(Late(k)) \in Nat
      BY <1>1, Balance DEF Inv, Safe
    <2>3. copies[k] + Cardinality(Late(k)) <=
            jobs[k].attempts + rolledBack[k] + (IF Recording(k) THEN 1 ELSE 0)
      BY <1>1, Balance DEF Inv, Safe
    <2> HIDE DEF atIt, Recording, Late
    <2>4. copies[k] <= jobs[k].attempts + rolledBack[k] + (IF atIt THEN 1 ELSE 0)
      BY <2>1, <2>2, <2>3
    <2> QED
      BY <2>4 DEF atIt
  <1> QED
    BY <1>1, Invariance, PTL

\* A report is mailed with one rendering, however often it is mailed.
THEOREM OneArtifact == Spec => []OneArtifactPerReport
  <1>1. ASSUME Inv PROVE OneArtifactPerReport
    <2> SUFFICES ASSUME NEW k \in Keys PROVE Cardinality(mailed[k]) <= 1
      BY DEF OneArtifactPerReport
    <2>1. mailed[k] \subseteq {jobs[k].body}
      BY <1>1 DEF Inv, Safe, ArtifactInv
    <2>2. /\ IsFiniteSet({jobs[k].body}) /\ Cardinality({jobs[k].body}) = 1
      BY FS_Singleton
    <2>3. Cardinality(mailed[k]) <= Cardinality({jobs[k].body})
      BY <2>1, <2>2, FS_Subset
    <2> QED
      BY <2>2, <2>3
  <1> QED
    BY <1>1, Invariance, PTL

\* A schedule that shows delivered has had a report mailed, whatever was lost.
THEOREM NoFalseDelivery == Spec => []DeliveredMeansMailed
  <1>1. Inv => DeliveredMeansMailed
    BY DEF Inv, Safe, SentInv
  <1> QED
    BY <1>1, Invariance, PTL

-----------------------------------------------------------------------------
(* The queue implements AtLeastOnce. *)

promised == [k \in Keys |-> Known(jobs[k].status)]
underWay == {<<w, cur[w]>> : w \in Calling}

\* What is promised of a job changes only as its row's status does.
LEMMA PromisedSame ==
    ASSUME NEW k \in Keys, \A j \in Keys : j # k => jobs'[j] = jobs[j],
           Known(jobs'[k].status) = Known(jobs[k].status)
    PROVE  promised' = promised
  BY DEF promised, Known

LEMMA CallsSame ==
    ASSUME NEW w \in Workers, Alone(w), w \in Calling <=> w \in Calling',
           w \in Calling => cur'[w] = cur[w]
    PROVE  underWay' = underWay
  <1>1. Calling' = Calling /\ \A v \in Calling : cur'[v] = cur[v]
    BY DEF Alone, Calling
  <1> QED
    BY <1>1 DEF underWay

\* A worker that was calling and is not: its call was under way and has ended.
LEMMA EndRefines ==
    ASSUME Inv, NEW w \in Workers, Alone(w), w \in Calling, w \notin Calling',
           promised' = promised,
           copies' = copies \/ copies' = [copies EXCEPT ![cur[w]] = copies[cur[w]] + 1]
    PROVE  Promise!Next
  <1>1. cur[w] \in Keys
    BY DEF Inv, Safe, LockInv, TypeOK, Calling, Engaged, Busy
  <1>2. PICK k \in Keys : k = cur[w]
    BY <1>1
  <1>3. <<w, k>> \in underWay
    BY <1>2 DEF underWay
  <1>4. Calling' = Calling \ {w} /\ \A v \in Calling' : cur'[v] = cur[v]
    BY DEF Alone, Calling
  <1>5. underWay' = underWay \ {<<w, k>>}
    BY <1>2, <1>4 DEF underWay
  <1>6. Promise!End(w, k)
    BY <1>2, <1>3, <1>5 DEF Promise!End, promised, underWay
  <1> QED
    BY <1>6 DEF Promise!Next

LEMMA ClaimRefines ==
    ASSUME Inv, NEW w \in Workers, NEW k \in Keys, Claim(w, k)
    PROVE  Promise!Next \/ UNCHANGED <<promised, copies, underWay>>
  <1>1. /\ Alone(w) /\ w \notin Calling /\ cur'[w] = k /\ pc'[w] = Branch(k)
        /\ UNCHANGED <<jobs, copies>>
    BY DEF Claim, Locked, Alone, Calling, Inv, TypeOK, rows, history
  <1>2. promised' = promised
    BY <1>1 DEF promised
  <1>3. CASE Branch(k) = "sending"
    <2>1. Calling' = Calling \cup {w} /\ \A v \in Calling : cur'[v] = cur[v]
      BY <1>1, <1>3 DEF Alone, Calling
    <2>2. underWay' = underWay \cup {<<w, k>>}
      BY <1>1, <2>1 DEF underWay
    <2>3. promised[k] = "open"
      BY DEF Claim, promised, Known
    <2>4. Promise!Begin(w, k)
      BY <1>1, <1>2, <2>2, <2>3 DEF Promise!Begin, promised, underWay
    <2> QED
      BY <2>4 DEF Promise!Next
  <1>4. CASE Branch(k) # "sending"
    <2>1. w \notin Calling'
      BY <1>1, <1>4 DEF Branch, Calling
    <2> QED
      BY <1>1, <1>2, <2>1, CallsSame
  <1> QED
    BY <1>3, <1>4

LEMMA QuietRefines ==
    ASSUME Inv, Quiet
    PROVE  Promise!Next
  <1> DEFINE K == {k \in Keys : jobs[k].status = "none" /\ jobs'[k].status # "none"}
  <1>1. \A k \in K : promised[k] = "none"
    BY DEF promised, Known, Open
  <1>2. ASSUME NEW k \in Keys
        PROVE  promised'[k] = IF k \in K THEN "open" ELSE promised[k]
    <2>1. CASE jobs[k].status \in Open
      BY <2>1, QuietRows DEF Inv, promised, Known, Open
    <2>2. CASE jobs'[k] = jobs[k]
      BY <2>2 DEF promised, Known
    <2>3. CASE jobs[k].status = "none" /\ jobs'[k] = NewJobRow
      BY <2>3 DEF promised, Known, NewJobRow, Open
    <2> QED
      BY <2>1, <2>2, <2>3, QuietRows DEF Inv
  <1>3. promised' = [k \in Keys |-> IF k \in K THEN "open" ELSE promised[k]]
    BY <1>2 DEF promised
  <1>a. Calling' = Calling /\ underWay' = underWay
    BY DEF Quiet, Calling, Engaged, Busy, underWay
  <1>4. Promise!Accept(K)
    BY <1>1, <1>3, <1>a DEF Promise!Accept, promised, Quiet, history, underWay
  <1>5. K \in SUBSET Keys
    OBVIOUS
  <1> QED
    BY <1>4, <1>5 DEF Promise!Next

LEMMA SendRefines ==
    ASSUME Inv, NEW w \in Workers, Send(w) \/ SendUnlocked(w)
    PROVE  Promise!Next
  <1>1. /\ Alone(w) /\ w \in Calling /\ w \notin Calling' /\ jobs' = jobs
    BY DEF Send, SendUnlocked, Concludes, Unlock, Alone, Calling, Inv, TypeOK, rows
  <1>2. promised' = promised
    BY <1>1 DEF promised
  <1>3. copies' = copies \/ copies' = [copies EXCEPT ![cur[w]] = copies[cur[w]] + 1]
    BY DEF Send, SendUnlocked, Received
  <1> QED
    BY <1>1, <1>2, <1>3, EndRefines

\* The transaction is lost: with it a call that has not arrived, or none.
LEMMA LossRefines ==
    ASSUME Inv, NEW w \in Workers,
           StaleTarget(w) \/ LoseTransaction(w) \/ LoseConnection(w)
    PROVE  Promise!Next \/ UNCHANGED <<promised, copies, underWay>>
  <1>1. Alone(w) /\ UNCHANGED <<jobs, copies>>
    BY DEF StaleTarget, LoseTransaction, LoseConnection, Rollback, Unlock, Alone,
           Inv, TypeOK, rows
  <1>2. promised' = promised
    BY <1>1 DEF promised
  <1>3. CASE LoseConnection(w)
    <2>1. w \in Calling /\ w \in Calling' /\ cur' = cur
      BY <1>3 DEF LoseConnection, Calling, Inv, TypeOK
    <2> QED
      BY <1>1, <1>2, <2>1, CallsSame
  <1>4. CASE StaleTarget(w) \/ LoseTransaction(w)
    <2>1. w \notin Calling'
      BY <1>4 DEF StaleTarget, LoseTransaction, Rollback, Unlock, Calling, Inv, TypeOK
    <2>2. CASE w \in Calling
      BY <1>1, <1>2, <2>1, <2>2, EndRefines
    <2>3. CASE w \notin Calling
      BY <1>1, <1>2, <2>1, <2>3, CallsSame
    <2> QED
      BY <2>2, <2>3
  <1> QED
    BY <1>3, <1>4

LEMMA RecordRefines ==
    ASSUME Inv, NEW w \in Workers, Record(w)
    PROVE  Promise!Next \/ UNCHANGED <<promised, copies, underWay>>
  <1> DEFINE k == cur[w]
  <1> DEFINE row == Outcome(w, jobs[k])
  <1>1. /\ pc[w] = "recording" /\ k \in Keys
        /\ jobs[k] \in JobRow /\ jobs[k].status \in Open
        /\ jobs[k].attempts < MaxAttempts
    BY Holder DEF Record, Busy
  <1>2. outcome[w] \in Conclusions /\ body[w] \in Bodies \cup {NoBody}
    BY <1>1 DEF Inv, Safe, LockInv, TypeOK
  <1>3. /\ outcome[w] = "rendered" => row.status \in Open
        /\ outcome[w] = "error" => row.status \in {"retry", "failed"}
        /\ outcome[w] \in {"delivered", "cancelled"} => row.status = outcome[w]
    BY <1>1, <1>2, OutcomeFacts
  <1>4. jobs' = [jobs EXCEPT ![k] = row] /\ UNCHANGED copies
    BY DEF Record
  <1>a. underWay' = underWay
    <2>1. Alone(w) /\ w \notin Calling /\ w \notin Calling'
      BY DEF Record, Unlock, Alone, Calling, Inv, TypeOK
    <2> QED
      BY <2>1, CallsSame
  <1> HIDE DEF row
  <1>5. jobs'[k] = row /\ \A j \in Keys : j # k => jobs'[j] = jobs[j]
    BY <1>1, <1>4 DEF Inv, TypeOK
  <1>6. CASE row.status \in Open
    BY <1>1, <1>4, <1>5, <1>6, <1>a, PromisedSame DEF Known
  <1>7. CASE row.status \in Final
    <2>1. promised[k] = "open"
      BY <1>1 DEF promised, Known
    <2>2. row.status = "delivered" => copies[k] > 0
      BY <1>1, <1>2, <1>3 DEF Inv, Safe, SentInv, Conclusions, Open
    <2>3. promised' = [promised EXCEPT ![k] = row.status]
      BY <1>1, <1>5, <1>7 DEF promised, Known, Open, Final
    <2>4. Promise!Settle(k, row.status)
      BY <1>4, <1>a, <2>1, <2>2, <2>3 DEF Promise!Settle, promised, underWay
    <2>5. row.status \in Promise!Settled
      BY <1>7 DEF Promise!Settled, Final
    <2> QED
      BY <1>1, <2>4, <2>5 DEF Promise!Next
  <1> QED
    BY <1>2, <1>3, <1>6, <1>7 DEF Conclusions, Open, Final

LEMMA NextRefines ==
    ASSUME Inv, [Next]_vars
    PROVE  Promise!Next \/ UNCHANGED <<promised, copies, underWay>>
  <1>1. CASE QuietNext \/ UNCHANGED vars
    BY <1>1, QuietSteps, QuietRefines DEF Inv
  <1>2. ASSUME NEW w \in Workers, Render(w)
        PROVE  UNCHANGED <<promised, copies, underWay>>
    <2>1. /\ Alone(w) /\ w \notin Calling /\ w \notin Calling'
          /\ UNCHANGED <<jobs, copies>>
      BY <1>2 DEF Render, Concludes, Alone, Calling, Inv, TypeOK, rows
    <2> QED
      BY <2>1, CallsSame DEF promised
  <1> QED
    BY <1>1, <1>2, ClaimRefines, SendRefines, RecordRefines, LossRefines, Zenon
    DEF Next, QuietNext, Process

\* "Durable, at-least-once delivery": for any number of workers, lost transactions,
\* lost locks and jobs, what the queue does is a behaviour of AtLeastOnce.
THEOREM Durable == Spec => ImplementsAtLeastOnce
  <1>1. Init => Promise!Init
    <2>1. Init => underWay = {}
      BY DEF Init, underWay, Calling
    <2> QED
      BY <2>1 DEF Init, Promise!Init, Known, NoJobRow, Open, underWay
  <1>2. Inv /\ [Next]_vars =>
          [Promise!Next]_<<[k \in Keys |-> Known(jobs[k].status)], copies,
                           {<<w, cur[w]>> : w \in Calling}>>
    BY NextRefines DEF promised, underWay
  <1> QED
    BY <1>1, <1>2, Invariance, PTL DEF Spec, ImplementsAtLeastOnce, Promise!Spec
=============================================================================
