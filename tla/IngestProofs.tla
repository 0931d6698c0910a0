---------------------------- MODULE IngestProofs -----------------------------
(***************************************************************************)
(* What holds of AlertIngest for every set of requests, tenants, events,   *)
(* catalogue entries, items and monitors: first of the alerts, whatever    *)
(* the detector finds among the events it is given, then of what the       *)
(* detector finds, whatever the events are.                                *)
(***************************************************************************)
EXTENDS AlertIngest, FiniteSetTheorems, SequenceTheorems, TLAPS

-----------------------------------------------------------------------------
(* The invariant *)

\* The way of a handler: what it holds at each stage.
StageOf(q) ==
    /\ q.st \in {"stored", "analysed"} => q.kind = "telemetry"
    /\ q.st = "matching" => q.kind \in {"kev", "exposure"}
    /\ q.kind = "telemetry" => q.batch \subseteq telemetry \cap EventsOf(q.tenant)
    /\ q.kind = "telemetry" /\ q.st \in {"analysed", "dispatching"} =>
          q.batch \subseteq q.snap /\ q.snap \subseteq telemetry \cap EventsOf(q.tenant)
    /\ q.kind = "kev" => q.batch \subseteq Entries
    /\ q.kind = "exposure" => q.batch \subseteq Items
    /\ q.queue # {} => q.st = "dispatching"

\* Whoever dispatches has stored what it found,
AnsweredOf(q) ==
    /\ q.kind = "telemetry" /\ q.st = "dispatching" =>
          \E A \in Anomalies(q.snap) : \A e \in A : Exists(<<q.tenant, e>>)
    /\ q.kind = "kev" /\ q.st = "dispatching" =>
          \A e \in q.batch, m \in q.mons : <<e, m>> \in Matches => Exists(<<e, m>>)

\* and what an ingestion of the catalogue has read of the alerts stays so,
SeenOf(q) ==
    q.kind = "kev" /\ q.st = "matching" =>
        \A k \in q.batch \X q.mons : k \in q.seen <=> Exists(k)

Good(q) == StageOf(q) /\ AnsweredOf(q) /\ SeenOf(q)
RequestsInv == \A r \in Requests : Good(req[r])

\* because one ingestion at a time is in its transaction.
InTransaction(q) == q.kind = "kev" /\ q.st = "matching"
OneKev == \A r, q \in Requests : InTransaction(req[r]) /\ InTransaction(req[q]) => r = q

\* An alert is announced, abandoned or in one queue, and only if it exists.
OnceOf(k) ==
    LET waiting(r) == k \in req[r].queue
        nobody == \A r \in Requests : ~waiting(r)
        one == \E r \in Requests : waiting(r) /\ \A q \in Requests : waiting(q) => q = r
    IN  \/ ~Exists(k) /\ dispatched[k] = 0 /\ k \notin abandoned /\ nobody
        \/ Exists(k) /\ dispatched[k] = 1 /\ k \notin abandoned /\ nobody
        \/ Exists(k) /\ dispatched[k] = 0 /\ k \in abandoned /\ nobody
        \/ Exists(k) /\ dispatched[k] = 0 /\ k \notin abandoned /\ one
Once == \A k \in Keys : OnceOf(k)

IInv == Typed /\ RequestsInv /\ OneKev /\ Once /\ TriageSurvives /\ KevSerialised

-----------------------------------------------------------------------------
(* Lemmas *)

\* The detector reports events it was given.
LEMMA AnomaliesAmong ==
    ASSUME NEW S, NEW A \in Anomalies(S)
    PROVE  A \subseteq S
  BY DEF Anomalies, Found

LEMMA KeysApart ==
    /\ \A e \in Entries, i \in Items, m, n \in Monitors : <<e, m>> # <<i, n>>
    /\ \A k \in AnomalyKeys, e \in Entries \cup Items, m \in Monitors : k # <<e, m>>
  <1>1. \A e \in Events : Owner[e] \in Tenants
    BY IngestAssumption
  <1> QED BY <1>1, IngestAssumption DEF AnomalyKeys

LEMMA StatusType == "none" \in Status /\ "open" \in Status /\ Triage \subseteq Status
                    /\ "none" \notin Triage
  BY IngestAssumption DEF Status

LEMMA IdleType == /\ Idle \in Request /\ Idle.st = "idle" /\ Idle.kind = "idle"
                  /\ Idle.queue = {}
  BY DEF Idle, Request, Kinds

\* What is stored stays, so what a handler holds goes on being so, unless it is an
\* ingestion of the catalogue one of whose alerts somebody else has created.
LEMMA GoodStays ==
    ASSUME IInv, NEW q \in Request, Good(q), telemetry \subseteq telemetry',
           \A k \in Keys : Exists(k) => Exists(k)',
           q.kind = "kev" /\ q.st = "matching" =>
              \A k \in q.batch \X Monitors : Exists(k)' => Exists(k)
    PROVE  Good(q)'
  <1>1. StageOf(q)'
    BY DEF Good, StageOf, EventsOf
  <1>2. AnsweredOf(q)'
    <2>1. ASSUME q.kind = "telemetry", q.st = "dispatching"
          PROVE  \E A \in Anomalies(q.snap) : \A e \in A : Exists(<<q.tenant, e>>)'
      <3>1. PICK A \in Anomalies(q.snap) : \A e \in A : Exists(<<q.tenant, e>>)
        BY <2>1 DEF Good, AnsweredOf
      <3>2. A \subseteq EventsOf(q.tenant)
        BY <2>1, AnomaliesAmong DEF Good, StageOf
      <3>3. \A e \in A : <<q.tenant, e>> \in Keys
        BY <3>2 DEF EventsOf, Keys, AnomalyKeys
      <3> QED BY <3>1, <3>3
    <2>2. ASSUME q.kind = "kev", q.st = "dispatching", NEW e \in q.batch, NEW m \in q.mons,
                 <<e, m>> \in Matches
          PROVE  Exists(<<e, m>>)'
      <3>1. <<e, m>> \in Keys
        BY <2>2 DEF Good, StageOf, Request, Keys, MatchKeys
      <3> QED BY <2>2, <3>1 DEF Good, AnsweredOf
    <2> QED BY <2>1, <2>2 DEF AnsweredOf
  <1>3. SeenOf(q)'
    <2> SUFFICES ASSUME q.kind = "kev", q.st = "matching", NEW k \in q.batch \X q.mons
                 PROVE  k \in q.seen <=> Exists(k)'
      BY DEF SeenOf
    <2>1. k \in Keys /\ k \in q.batch \X Monitors
      BY DEF Good, StageOf, Request, Keys, MatchKeys
    <2> QED BY <2>1 DEF Good, SeenOf
  <1> QED BY <1>1, <1>2, <1>3 DEF Good

LEMMA InitInv ==
    ASSUME Init
    PROVE  IInv
  <1>1. Typed
    BY IdleType, StatusType DEF Init, Typed
  <1>2. \A r \in Requests : req[r] = Idle
    BY DEF Init
  <1>3. RequestsInv /\ OneKev
    BY <1>2, IdleType DEF RequestsInv, OneKev, InTransaction, Good, StageOf, AnsweredOf, SeenOf,
       Idle
  <1>4. Once
    BY <1>2, IdleType DEF Init, Once, OnceOf, Exists
  <1> QED BY <1>1, <1>3, <1>4 DEF Init, IInv, TriageSurvives, KevSerialised

\* A handler begins, goes on or answers; no alert is written or announced.
LEMMA GoesOnInv ==
    ASSUME IInv, NEW r \in Requests, NEW q \in Request,
           req' = [req EXCEPT ![r] = q], req[r].queue = {}, q.queue = {},
           telemetry \subseteq telemetry', telemetry' \subseteq Events,
           UNCHANGED <<feed, monitors, alerts, assigned, dispatched, abandoned, conflicts>>,
           Good(q)',
           InTransaction(q) => \A p \in Requests \ {r} : ~InTransaction(req[p])
    PROVE  IInv'
  <1>1. req'[r] = q /\ \A p \in Requests \ {r} : req'[p] = req[p]
    BY DEF IInv, Typed
  <1>2. Typed'
    BY DEF IInv, Typed
  <1>3. \A k : Exists(k)' = Exists(k)
    BY DEF Exists
  <1>4. RequestsInv'
    <2> SUFFICES ASSUME NEW p \in Requests, p # r PROVE Good(req[p])'
      BY <1>1 DEF RequestsInv
    <2>1. PICK o \in Request : o = req[p]
      BY DEF IInv, Typed
    <2>2. Good(o)'
      BY <1>3, <2>1, GoodStays DEF IInv, RequestsInv
    <2> QED BY <1>1, <2>1, <2>2
  <1>5. OneKev'
    <2>1. \A p, o \in Requests : InTransaction(req'[p]) /\ InTransaction(req'[o]) => p = o
      BY <1>1 DEF IInv, OneKev
    <2> QED BY <2>1 DEF OneKev, InTransaction
  <1>6. Once'
    <2> SUFFICES ASSUME NEW k \in Keys PROVE OnceOf(k)'
      BY DEF Once
    <2>1. \A p \in Requests : k \in req'[p].queue <=> k \in req[p].queue
      BY <1>1
    <2> QED BY <1>3, <2>1 DEF IInv, Once, OnceOf
  <1>7. TriageSurvives' /\ KevSerialised'
    BY DEF IInv, TriageSurvives, KevSerialised
  <1> QED BY <1>2, <1>4, <1>5, <1>6, <1>7 DEF IInv

\* The commit of an alert transaction: what it creates is in its queue and in no other,
\* and what existed is as it was.
LEMMA StoreStep ==
    ASSUME IInv, NEW r \in Requests, NEW K \in SUBSET Keys, Store(r, K),
           req[r].queue = {}, UNCHANGED <<assigned, dispatched, abandoned>>
    PROVE  /\ alerts' \in [Keys -> Status] /\ req' \in [Requests -> Request]
           /\ \A k \in Keys : Exists(k)' <=> Exists(k) \/ k \in K
           /\ \A p \in Requests \ {r} : req'[p] = req[p]
           /\ req'[r] = [req[r] EXCEPT !.st = "dispatching", !.queue = Created(K)]
           /\ Once' /\ TriageSurvives'
  <1> DEFINE q == [req[r] EXCEPT !.st = "dispatching", !.queue = Created(K)]
  <1>1. req' = [req EXCEPT ![r] = q] /\ alerts' = Written(K)
    BY DEF Store, IInv, Typed
  <1>2. q \in Request /\ q.queue = Created(K) /\ Created(K) \subseteq K
    <2>1. Created(K) \subseteq Keys /\ req[r] \in Request
      BY DEF Created, IInv, Typed
    <2> QED BY <2>1 DEF Request, Created
  <1> HIDE DEF q
  <1>3. /\ req' \in [Requests -> Request] /\ req'[r] = q
        /\ \A p \in Requests \ {r} : req'[p] = req[p]
    BY <1>1, <1>2 DEF IInv, Typed
  <1>4. ASSUME NEW k \in Keys
        PROVE  /\ alerts'[k] = IF k \in K /\ ~Exists(k) THEN "open" ELSE alerts[k]
               /\ alerts'[k] \in Status
               /\ Exists(k)' <=> Exists(k) \/ k \in K
    <2>1. alerts'[k] = IF k \in K /\ ~Exists(k) THEN "open" ELSE alerts[k]
      BY <1>1 DEF Written
    <2> QED BY <2>1, StatusType DEF IInv, Typed, Exists
  <1>5. alerts' \in [Keys -> Status]
    BY <1>1, <1>4 DEF Written
  <1>6. Once'
    <2> SUFFICES ASSUME NEW k \in Keys PROVE OnceOf(k)'
      BY DEF Once
    <2>1. OnceOf(k)
      BY DEF IInv, Once
    <2>2. CASE k \in K /\ ~Exists(k)
      <3>1. k \in req'[r].queue /\ Exists(k)'
        BY <1>2, <1>3, <1>4, <2>2 DEF Created
      <3>2. dispatched[k] = 0 /\ k \notin abandoned /\ \A p \in Requests : k \notin req[p].queue
        BY <2>1, <2>2 DEF OnceOf
      <3>3. \A p \in Requests : k \in req'[p].queue <=> p = r
        BY <1>3, <3>1, <3>2
      <3> QED BY <3>1, <3>2, <3>3 DEF OnceOf
    <2>3. CASE ~(k \in K /\ ~Exists(k))
      <3>1. Exists(k)' <=> Exists(k)
        BY <1>4, <2>3
      <3>2. k \notin req'[r].queue
        BY <1>2, <1>3, <2>3 DEF Created
      <3>3. \A p \in Requests : k \in req'[p].queue <=> k \in req[p].queue
        BY <1>3, <3>2
      <3> QED BY <2>1, <3>1, <3>3 DEF OnceOf
    <2> QED BY <2>2, <2>3
  <1>7. TriageSurvives'
    BY <1>4 DEF IInv, TriageSurvives, Exists
  <1> QED BY <1>1, <1>3, <1>4, <1>5, <1>6, <1>7 DEF q

\* After the commit of r the other handlers are as they were, if r created nothing an
\* ingestion of the catalogue was about to create.
LEMMA StoreInv ==
    ASSUME IInv, NEW r \in Requests, NEW K \in SUBSET Keys, Store(r, K),
           req[r].queue = {}, UNCHANGED <<telemetry, monitors, assigned, dispatched, abandoned>>,
           feed' \in SUBSET Entries, conflicts' = conflicts,
           \A p \in Requests \ {r} : InTransaction(req[p]) =>
              \A k \in req[p].batch \X Monitors : k \notin K,
           NEW q \in Request, q = [req[r] EXCEPT !.st = "dispatching", !.queue = Created(K)],
           Good(q)'
    PROVE  IInv'
  <1>1. /\ alerts' \in [Keys -> Status] /\ req' \in [Requests -> Request]
        /\ \A k \in Keys : Exists(k)' <=> Exists(k) \/ k \in K
        /\ \A p \in Requests \ {r} : req'[p] = req[p]
        /\ req'[r] = q
        /\ Once' /\ TriageSurvives'
    BY StoreStep
  <1>2. Typed'
    BY <1>1 DEF IInv, Typed
  <1>3. RequestsInv'
    <2> SUFFICES ASSUME NEW p \in Requests, p # r PROVE Good(req[p])'
      BY <1>1 DEF RequestsInv
    <2>1. PICK o \in Request : o = req[p]
      BY DEF IInv, Typed
    <2>2. Good(o)
      BY <2>1 DEF IInv, RequestsInv
    <2>3. ASSUME o.kind = "kev", o.st = "matching"
          PROVE  \A k \in o.batch \X Monitors : Exists(k)' => Exists(k)
      <3> SUFFICES ASSUME NEW k \in o.batch \X Monitors PROVE k \in Keys /\ k \notin K
        BY <1>1
      <3>1. k \in Keys
        BY <2>2, <2>3 DEF Good, StageOf, Keys, MatchKeys
      <3> QED BY <2>1, <2>3, <3>1 DEF InTransaction
    <2>4. Good(o)'
      BY <1>1, <2>2, <2>3, GoodStays
    <2> QED BY <1>1, <2>1, <2>4
  <1>4. OneKev'
    <2>1. q.st = "dispatching"
      BY DEF Request, IInv, Typed
    <2>2. \A p, o \in Requests : InTransaction(req'[p]) /\ InTransaction(req'[o]) => p = o
      BY <1>1, <2>1 DEF IInv, OneKev, InTransaction
    <2> QED BY <2>2 DEF OneKev, InTransaction
  <1>5. KevSerialised'
    BY DEF IInv, KevSerialised
  <1> QED BY <1>1, <1>2, <1>3, <1>4, <1>5 DEF IInv

-----------------------------------------------------------------------------
(* The steps *)

\* Nothing waits in the queue of a handler that is not dispatching.
LEMMA NoQueue ==
    ASSUME IInv, NEW r \in Requests, req[r].st # "dispatching"
    PROVE  req[r].queue = {}
  BY DEF IInv, RequestsInv, Good, StageOf

LEMMA PostTelemetryInv ==
    ASSUME IInv, NEW r \in Requests, NEW t \in Tenants, NEW B \in SUBSET EventsOf(t),
           PostTelemetry(r, t, B)
    PROVE  IInv'
  <1>1. PICK q : q = [Idle EXCEPT !.kind = "telemetry", !.tenant = t, !.batch = B,
                                  !.st = "stored"]
    OBVIOUS
  <1>2. /\ q \in Request /\ q.kind = "telemetry" /\ q.st = "stored" /\ q.batch = B
        /\ q.tenant = t /\ q.queue = {}
    BY <1>1 DEF Idle, Request, Kinds, EventsOf
  <1>3. /\ req[r].st = "idle" /\ req' = [req EXCEPT ![r] = q]
        /\ telemetry' = telemetry \cup B
        /\ UNCHANGED <<feed, monitors, alerts, assigned, dispatched, abandoned, conflicts>>
    BY <1>1 DEF PostTelemetry, AfterInsert
  <1>4. telemetry \subseteq telemetry' /\ telemetry' \subseteq Events
    BY <1>3 DEF IInv, Typed, EventsOf
  <1>5. Good(q)'
    BY <1>2, <1>3 DEF Good, StageOf, AnsweredOf, SeenOf, EventsOf
  <1> QED BY <1>2, <1>3, <1>4, <1>5, NoQueue, GoesOnInv DEF InTransaction

LEMMA SnapshotInv ==
    ASSUME IInv, NEW r \in Requests, Snapshot(r)
    PROVE  IInv'
  <1>1. PICK snap : snap = telemetry \cap EventsOf(req[r].tenant)
    OBVIOUS
  <1>2. PICK o \in Request : o = req[r]
    BY DEF IInv, Typed
  <1>3. PICK q : q = [o EXCEPT !.st = "analysed", !.snap = snap]
    OBVIOUS
  <1>4. /\ o.st = "stored" /\ Good(o) /\ req' = [req EXCEPT ![r] = q]
        /\ UNCHANGED <<rows, history>>
    BY <1>1, <1>2, <1>3 DEF Snapshot, Read, IInv, RequestsInv, Typed
  <1>5. snap \in SUBSET Events
    BY <1>1 DEF EventsOf
  <1>6. /\ q \in Request /\ q.st = "analysed" /\ q.snap = snap /\ q.kind = o.kind
        /\ q.batch = o.batch /\ q.tenant = o.tenant /\ q.queue = o.queue
    BY <1>3, <1>5 DEF Request
  <1>7. o.kind = "telemetry" /\ o.batch \subseteq snap /\ o.queue = {}
    BY <1>1, <1>2, <1>4 DEF Good, StageOf
  <1>8. Good(q)'
    BY <1>1, <1>2, <1>4, <1>6, <1>7 DEF Good, StageOf, AnsweredOf, SeenOf, EventsOf, rows
  <1>9. telemetry \subseteq telemetry' /\ telemetry' \subseteq Events
    BY <1>4 DEF IInv, Typed, rows
  <1> QED
    BY <1>2, <1>4, <1>6, <1>7, <1>8, <1>9, GoesOnInv DEF InTransaction, rows, history

LEMMA StoreAnomaliesInv ==
    ASSUME IInv, NEW r \in Requests, StoreAnomalies(r)
    PROVE  IInv'
  <1>1. PICK o \in Request : o = req[r]
    BY DEF IInv, Typed
  <1>2. o.st = "analysed" /\ o.kind = "telemetry" /\ Good(o) /\ o.queue = {}
    BY <1>1 DEF StoreAnomalies, IInv, RequestsInv, Good, StageOf
  <1>3. PICK A \in Anomalies(o.snap) : Store(r, {o.tenant} \X A)
    BY <1>1 DEF StoreAnomalies
  <1> DEFINE K == {o.tenant} \X A
  <1>4. o.batch \subseteq o.snap /\ o.snap \subseteq telemetry \cap EventsOf(o.tenant)
    BY <1>2 DEF Good, StageOf
  <1>5. A \subseteq EventsOf(o.tenant)
    BY <1>3, <1>4, AnomaliesAmong
  <1>6. K \in SUBSET AnomalyKeys /\ K \in SUBSET Keys
    BY <1>5 DEF AnomalyKeys, Keys, EventsOf
  <1>7. UNCHANGED <<telemetry, feed, monitors, history>>
    BY DEF StoreAnomalies
  <1>8. PICK q : q = [o EXCEPT !.st = "dispatching", !.queue = Created(K)]
    OBVIOUS
  <1>9. /\ q \in Request /\ q.st = "dispatching" /\ q.kind = o.kind /\ q.batch = o.batch
        /\ q.tenant = o.tenant /\ q.snap = o.snap
    BY <1>6, <1>8 DEF Request, Created
  <1>10. \A k \in K : Exists(k)'
    BY <1>1, <1>2, <1>3, <1>6, <1>7, StoreStep DEF history
  <1>11. Good(q)'
    <2>1. \A e \in A : Exists(<<q.tenant, e>>)'
      BY <1>9, <1>10
    <2>2. AnsweredOf(q)'
      BY <1>2, <1>3, <1>9, <2>1 DEF AnsweredOf
    <2>3. StageOf(q)'
      BY <1>2, <1>4, <1>7, <1>9 DEF StageOf, EventsOf
    <2> QED BY <1>9, <2>2, <2>3 DEF Good, SeenOf
  <1>12. ASSUME NEW p \in Requests, InTransaction(req[p])
         PROVE  \A k \in req[p].batch \X Monitors : k \notin K
    <2>1. req[p].batch \subseteq Entries
      BY <1>12 DEF InTransaction, IInv, RequestsInv, Good, StageOf
    <2> QED BY <1>6, <2>1, KeysApart
  <1>13. feed' \in SUBSET Entries
    BY <1>7 DEF IInv, Typed
  <1> HIDE DEF K
  <1> QED
    BY <1>1, <1>2, <1>3, <1>6, <1>7, <1>8, <1>9, <1>11, <1>12, <1>13, StoreInv DEF history, K

\* Under the advisory lock there is no other ingestion of the catalogue.
LEMMA KevBeginInv ==
    ASSUME IInv, NEW r \in Requests, NEW t \in Tenants, NEW C \in SUBSET Entries,
           KevBegin(r, t, C)
    PROVE  IInv'
  <1>1. PICK seen : seen = {k \in C \X LiveOf(t) : Exists(k)}
    OBVIOUS
  <1>2. PICK mons : mons = LiveOf(t)
    OBVIOUS
  <1>3. PICK q : q = [Idle EXCEPT !.kind = "kev", !.st = "matching", !.tenant = t, !.batch = C,
                                  !.mons = mons, !.seen = seen]
    OBVIOUS
  <1>4. /\ req[r].st = "idle" /\ req' = [req EXCEPT ![r] = q] /\ LockFree(r)
        /\ UNCHANGED <<rows, history>>
    BY <1>1, <1>2, <1>3 DEF KevBegin
  <1>5. seen \in SUBSET MatchKeys /\ mons \in SUBSET Monitors
    BY <1>1, <1>2 DEF MatchKeys, LiveOf
  <1>6. /\ q \in Request /\ q.kind = "kev" /\ q.st = "matching" /\ q.batch = C
        /\ q.mons = mons /\ q.seen = seen /\ q.queue = {}
    BY <1>3, <1>5 DEF Idle, Request, Kinds
  <1>7. \A k : Exists(k)' = Exists(k)
    BY <1>4 DEF Exists, rows
  <1>8. Good(q)'
    BY <1>1, <1>2, <1>6, <1>7 DEF Good, StageOf, AnsweredOf, SeenOf
  <1>9. telemetry \subseteq telemetry' /\ telemetry' \subseteq Events
    BY <1>4 DEF IInv, Typed, rows
  <1>10. \A p \in Requests \ {r} : ~InTransaction(req[p])
    BY <1>4 DEF LockFree, InTransaction
  <1> QED BY <1>4, <1>6, <1>8, <1>9, <1>10, NoQueue, GoesOnInv DEF rows, history

LEMMA ExposureBeginInv ==
    ASSUME IInv, NEW r \in Requests, NEW t \in Tenants, NEW B \in SUBSET Items,
           ExposureBegin(r, t, B)
    PROVE  IInv'
  <1>1. PICK mons : mons = LiveOf(t)
    OBVIOUS
  <1>2. PICK q : q = [Idle EXCEPT !.kind = "exposure", !.st = "matching", !.tenant = t,
                                  !.batch = B, !.mons = mons]
    OBVIOUS
  <1>3. /\ req[r].st = "idle" /\ req' = [req EXCEPT ![r] = q] /\ UNCHANGED <<rows, history>>
    BY <1>1, <1>2 DEF ExposureBegin
  <1>4. /\ q \in Request /\ q.kind = "exposure" /\ q.st = "matching" /\ q.batch = B
        /\ q.queue = {}
    BY <1>1, <1>2 DEF Idle, Request, Kinds, LiveOf
  <1>5. Good(q)'
    BY <1>4 DEF Good, StageOf, AnsweredOf, SeenOf
  <1>6. telemetry \subseteq telemetry' /\ telemetry' \subseteq Events
    BY <1>3 DEF IInv, Typed, rows
  <1> QED BY <1>3, <1>4, <1>5, <1>6, NoQueue, GoesOnInv DEF rows, history, InTransaction

\* What was read is still so: the plain INSERTs meet none of their keys.
LEMMA KevCommitInv ==
    ASSUME IInv, NEW r \in Requests, KevCommit(r)
    PROVE  IInv'
  <1>1. PICK o \in Request : o = req[r]
    BY DEF IInv, Typed
  <1>2. /\ o.kind = "kev" /\ o.st = "matching" /\ Good(o) /\ o.queue = {}
        /\ o.batch \subseteq Entries
    BY <1>1 DEF KevCommit, IInv, RequestsInv, Good, StageOf
  <1>3. PICK K : K = KevMatching(r) \ req[r].seen
    OBVIOUS
  <1>4. Matching(r) = {k \in o.batch \X o.mons : k \in Matches} /\ o.mons \subseteq Monitors
    BY <1>1 DEF Matching, Request
  <1>5. K \in SUBSET Keys /\ \A k \in K : ~Exists(k)
    <2>1. K \subseteq o.batch \X o.mons /\ \A k \in K : k \notin o.seen
      BY <1>1, <1>3, <1>4 DEF KevMatching
    <2> QED BY <1>2, <1>4, <2>1 DEF Good, SeenOf, Keys, MatchKeys
  <1>6. /\ Store(r, K) /\ feed' = feed \cup o.batch
        /\ UNCHANGED <<conflicts, telemetry, monitors, assigned, dispatched, abandoned>>
    BY <1>1, <1>3, <1>5 DEF KevCommit
  <1>7. PICK q : q = [o EXCEPT !.st = "dispatching", !.queue = Created(K)]
    OBVIOUS
  <1>8. /\ q \in Request /\ q.st = "dispatching" /\ q.kind = "kev" /\ q.batch = o.batch
        /\ q.mons = o.mons
    BY <1>2, <1>5, <1>7 DEF Request, Created
  <1>9. \A k \in Keys : Exists(k)' <=> Exists(k) \/ k \in K
    BY <1>1, <1>2, <1>5, <1>6, StoreStep
  <1>10. Good(q)'
    <2>1. ASSUME NEW e \in o.batch, NEW m \in o.mons, <<e, m>> \in Matches
          PROVE  Exists(<<e, m>>)'
      <3>1. <<e, m>> \in Keys /\ <<e, m>> \in o.batch \X o.mons
        BY <1>2, <1>4 DEF Keys, MatchKeys
      <3>2. <<e, m>> \in K \/ <<e, m>> \in o.seen
        BY <1>1, <1>3, <1>4, <2>1 DEF KevMatching
      <3>3. <<e, m>> \in o.seen => Exists(<<e, m>>)
        BY <1>2, <3>1 DEF Good, SeenOf
      <3> QED BY <1>9, <3>1, <3>2, <3>3
    <2>2. AnsweredOf(q)'
      BY <1>8, <2>1 DEF AnsweredOf
    <2>3. StageOf(q)'
      BY <1>2, <1>8 DEF StageOf
    <2> QED BY <1>8, <2>2, <2>3 DEF Good, SeenOf
  <1>11. \A p \in Requests \ {r} : ~InTransaction(req[p])
    BY <1>1, <1>2 DEF IInv, OneKev, InTransaction
  <1>12. feed' \in SUBSET Entries
    BY <1>2, <1>6 DEF IInv, Typed
  <1> QED
    BY <1>1, <1>2, <1>5, <1>6, <1>7, <1>8, <1>10, <1>11, <1>12, StoreInv

LEMMA ExposureCommitInv ==
    ASSUME IInv, NEW r \in Requests, ExposureCommit(r)
    PROVE  IInv'
  <1>1. PICK o \in Request : o = req[r]
    BY DEF IInv, Typed
  <1>2. /\ o.kind = "exposure" /\ o.st = "matching" /\ Good(o) /\ o.queue = {}
        /\ o.batch \subseteq Items
    BY <1>1 DEF ExposureCommit, IInv, RequestsInv, Good, StageOf
  <1>3. PICK K : K = Matching(r)
    OBVIOUS
  <1>4. K \subseteq Items \X Monitors /\ K \in SUBSET Keys
    BY <1>1, <1>2, <1>3 DEF Matching, Request, Keys, MatchKeys
  <1>5. Store(r, K) /\ UNCHANGED <<telemetry, feed, monitors, history>>
    BY <1>3 DEF ExposureCommit
  <1>6. PICK q : q = [o EXCEPT !.st = "dispatching", !.queue = Created(K)]
    OBVIOUS
  <1>7. q \in Request /\ q.st = "dispatching" /\ q.kind = "exposure" /\ q.batch = o.batch
    BY <1>2, <1>4, <1>6 DEF Request, Created
  <1>8. Good(q)'
    BY <1>2, <1>7 DEF Good, StageOf, AnsweredOf, SeenOf
  <1>9. ASSUME NEW p \in Requests, InTransaction(req[p])
        PROVE  \A k \in req[p].batch \X Monitors : k \notin K
    <2>1. req[p].batch \subseteq Entries
      BY <1>9 DEF InTransaction, IInv, RequestsInv, Good, StageOf
    <2> QED BY <1>4, <2>1, KeysApart
  <1>10. feed' \in SUBSET Entries
    BY <1>5 DEF IInv, Typed
  <1> QED
    BY <1>1, <1>2, <1>4, <1>5, <1>6, <1>7, <1>8, <1>9, <1>10, StoreInv DEF history

\* An alert leaves the only queue it is in: it is announced.
LEMMA DispatchInv ==
    ASSUME IInv, NEW r \in Requests, NEW k \in Keys, Dispatch(r, k)
    PROVE  IInv'
  <1>1. PICK o \in Request : o = req[r]
    BY DEF IInv, Typed
  <1>2. PICK q : q = [o EXCEPT !.queue = o.queue \ {k}]
    OBVIOUS
  <1>3. /\ k \in o.queue /\ req' = [req EXCEPT ![r] = q]
        /\ dispatched' = [dispatched EXCEPT ![k] = dispatched[k] + 1]
        /\ UNCHANGED <<rows, assigned, abandoned, conflicts>>
    BY <1>1, <1>2 DEF Dispatch
  <1>4. /\ q \in Request /\ q.queue = o.queue \ {k} /\ q.st = o.st /\ q.kind = o.kind
        /\ q.batch = o.batch /\ q.tenant = o.tenant /\ q.snap = o.snap /\ q.mons = o.mons
        /\ q.seen = o.seen
    BY <1>2 DEF Request
  <1>5. req'[r] = q /\ \A p \in Requests \ {r} : req'[p] = req[p]
    BY <1>3 DEF IInv, Typed
  <1>6. \A l : Exists(l)' = Exists(l)
    BY <1>3 DEF Exists, rows
  <1>7. OnceOf(k) /\ Exists(k) /\ dispatched[k] = 0 /\ k \notin abandoned
    BY <1>1, <1>3 DEF IInv, Once, OnceOf
  <1>8. \A p \in Requests : k \in req[p].queue => p = r
    BY <1>1, <1>3, <1>7 DEF OnceOf
  <1>9. Typed'
    <2>1. dispatched' \in [Keys -> 0..1]
      BY <1>3, <1>7 DEF IInv, Typed
    <2> QED BY <1>3, <1>4, <2>1 DEF IInv, Typed, rows
  <1>10. Once'
    <2> SUFFICES ASSUME NEW l \in Keys PROVE OnceOf(l)'
      BY DEF Once
    <2>1. CASE l = k
      <3>1. dispatched'[k] = 1
        BY <1>3, <1>7 DEF IInv, Typed
      <3>2. \A p \in Requests : k \notin req'[p].queue
        BY <1>4, <1>5, <1>8
      <3> QED BY <1>3, <1>6, <1>7, <2>1, <3>1, <3>2 DEF OnceOf
    <2>2. CASE l # k
      <3>1. dispatched'[l] = dispatched[l]
        BY <1>3, <2>2 DEF IInv, Typed
      <3>2. \A p \in Requests : l \in req'[p].queue <=> l \in req[p].queue
        BY <1>1, <1>4, <1>5, <2>2
      <3> QED BY <1>3, <1>6, <3>1, <3>2 DEF OnceOf, IInv, Once
    <2> QED BY <2>1, <2>2
  <1>11. RequestsInv'
    <2> SUFFICES ASSUME NEW p \in Requests PROVE Good(req[p])'
      BY DEF RequestsInv
    <2>1. PICK u \in Request : u = req'[p]
      BY <1>9 DEF Typed
    <2>2. Good(u)
      <3>1. CASE p = r
        <4>1. u = q /\ Good(o)
          BY <1>1, <1>5, <2>1, <3>1 DEF IInv, RequestsInv
        <4> QED BY <1>3, <1>4, <4>1 DEF Good, StageOf, AnsweredOf, SeenOf
      <3>2. CASE p # r
        BY <1>5, <2>1, <3>2 DEF IInv, RequestsInv
      <3> QED BY <3>1, <3>2
    <2>3. Good(u)'
      BY <1>3, <1>6, <2>2, GoodStays DEF rows
    <2> QED BY <2>1, <2>3
  <1>12. OneKev'
    <2>1. \A p, u \in Requests : InTransaction(req'[p]) /\ InTransaction(req'[u]) => p = u
      BY <1>1, <1>4, <1>5 DEF IInv, OneKev, InTransaction
    <2> QED BY <2>1 DEF OneKev, InTransaction
  <1>13. TriageSurvives' /\ KevSerialised'
    BY <1>3 DEF IInv, TriageSurvives, KevSerialised, rows
  <1> QED BY <1>9, <1>10, <1>11, <1>12, <1>13 DEF IInv

\* What is left in the queue of a handler that dies is in no other queue: it is abandoned.
LEMMA DieInv ==
    ASSUME IInv, NEW r \in Requests, Die(r)
    PROVE  IInv'
  <1>1. PICK o \in Request : o = req[r]
    BY DEF IInv, Typed
  <1>2. PICK q \in Request : q = Idle
    BY IdleType
  <1>3. /\ req' = [req EXCEPT ![r] = q] /\ abandoned' = abandoned \cup o.queue
        /\ UNCHANGED <<rows, assigned, dispatched, conflicts>>
    BY <1>1, <1>2 DEF Die
  <1>4. q.st = "idle" /\ q.kind = "idle" /\ q.queue = {}
    BY <1>2, IdleType
  <1>5. req'[r] = q /\ \A p \in Requests \ {r} : req'[p] = req[p]
    BY <1>3 DEF IInv, Typed
  <1>6. \A l : Exists(l)' = Exists(l)
    BY <1>3 DEF Exists, rows
  <1>7. Typed'
    <2>1. o.queue \subseteq Keys
      BY DEF Request
    <2> QED BY <1>3, <2>1 DEF IInv, Typed, rows
  <1>8. Once'
    <2> SUFFICES ASSUME NEW k \in Keys PROVE OnceOf(k)'
      BY DEF Once
    <2>1. OnceOf(k)
      BY DEF IInv, Once
    <2>2. CASE k \in o.queue
      <3>1. /\ Exists(k) /\ dispatched[k] = 0
            /\ \A p \in Requests : k \in req[p].queue => p = r
        BY <1>1, <2>1, <2>2 DEF OnceOf
      <3>2. \A p \in Requests : k \notin req'[p].queue
        BY <1>4, <1>5, <3>1
      <3> QED BY <1>3, <1>6, <2>2, <3>1, <3>2 DEF OnceOf
    <2>3. CASE k \notin o.queue
      <3>1. \A p \in Requests : k \in req'[p].queue <=> k \in req[p].queue
        BY <1>1, <1>4, <1>5, <2>3
      <3>2. k \in abandoned' <=> k \in abandoned
        BY <1>3, <2>3
      <3> QED BY <1>3, <1>6, <2>1, <3>1, <3>2 DEF OnceOf
    <2> QED BY <2>2, <2>3
  <1>9. RequestsInv'
    <2> SUFFICES ASSUME NEW p \in Requests PROVE Good(req[p])'
      BY DEF RequestsInv
    <2>1. PICK u \in Request : u = req'[p]
      BY <1>7 DEF Typed
    <2>2. Good(u)
      <3>1. CASE p = r
        <4>1. u.st = "idle" /\ u.kind = "idle" /\ u.queue = {}
          BY <1>4, <1>5, <2>1, <3>1
        <4> QED BY <4>1 DEF Good, StageOf, AnsweredOf, SeenOf
      <3>2. CASE p # r
        BY <1>5, <2>1, <3>2 DEF IInv, RequestsInv
      <3> QED BY <3>1, <3>2
    <2>3. Good(u)'
      BY <1>3, <1>6, <2>2, GoodStays DEF rows
    <2> QED BY <2>1, <2>3
  <1>10. OneKev'
    <2>1. \A p, u \in Requests : InTransaction(req'[p]) /\ InTransaction(req'[u]) => p = u
      BY <1>4, <1>5 DEF IInv, OneKev, InTransaction
    <2> QED BY <2>1 DEF OneKev, InTransaction
  <1>11. TriageSurvives' /\ KevSerialised'
    BY <1>3 DEF IInv, TriageSurvives, KevSerialised, rows
  <1> QED BY <1>7, <1>8, <1>9, <1>10, <1>11 DEF IInv

\* An answer leaves nothing behind.
LEMMA RespondInv ==
    ASSUME IInv, NEW r \in Requests, Respond(r)
    PROVE  IInv'
  <1>1. Die(r)
    BY DEF Respond, Die, rows, history
  <1> QED BY <1>1, DieInv

\* The alerts that exist, and everything else the handlers hold on to, are as they were.
LEMMA AnalystInv ==
    ASSUME IInv, UNCHANGED <<telemetry, feed, req, dispatched, abandoned, conflicts>>,
           monitors' \in [Monitors -> {"new", "live", "deleted"}],
           alerts' \in [Keys -> Status], assigned' \in [Keys -> Status],
           \A k \in Keys : Exists(k)' <=> Exists(k),
           TriageSurvives'
    PROVE  IInv'
  <1>1. Typed'
    BY DEF IInv, Typed
  <1>2. RequestsInv'
    <2> SUFFICES ASSUME NEW p \in Requests PROVE Good(req[p])'
      BY DEF RequestsInv
    <2>1. PICK o \in Request : o = req[p]
      BY DEF IInv, Typed
    <2>2. Good(o)
      BY <2>1 DEF IInv, RequestsInv
    <2>3. ASSUME o.kind = "kev" /\ o.st = "matching"
          PROVE  \A k \in o.batch \X Monitors : Exists(k)' => Exists(k)
      BY <2>2, <2>3 DEF Good, StageOf, Keys, MatchKeys
    <2>4. Good(o)'
      BY <2>2, <2>3, GoodStays
    <2> QED BY <2>1, <2>4
  <1>3. OneKev'
    BY DEF IInv, OneKev, InTransaction
  <1>4. Once'
    <2> SUFFICES ASSUME NEW k \in Keys PROVE OnceOf(k)'
      BY DEF Once
    <2> QED BY DEF IInv, Once, OnceOf
  <1> QED BY <1>1, <1>2, <1>3, <1>4 DEF IInv, KevSerialised

LEMMA UpdateAlertInv ==
    ASSUME IInv, NEW k \in Keys, NEW s \in Triage, UpdateAlert(k, s)
    PROVE  IInv'
  <1>1. alerts' = [alerts EXCEPT ![k] = s] /\ assigned' = [assigned EXCEPT ![k] = s]
    BY DEF UpdateAlert
  <1>2. alerts' \in [Keys -> Status] /\ assigned' \in [Keys -> Status]
    BY <1>1, StatusType DEF IInv, Typed
  <1>3. ASSUME NEW l \in Keys
        PROVE  alerts'[l] = (IF l = k THEN s ELSE alerts[l])
               /\ assigned'[l] = (IF l = k THEN s ELSE assigned[l])
    BY <1>1 DEF IInv, Typed
  <1>4. \A l \in Keys : Exists(l)' <=> Exists(l)
    BY <1>3, StatusType DEF UpdateAlert, Exists
  <1>5. TriageSurvives'
    BY <1>3 DEF IInv, TriageSurvives
  <1> QED BY <1>2, <1>4, <1>5, AnalystInv DEF UpdateAlert, IInv, Typed

LEMMA MonitorsInv ==
    ASSUME IInv, NEW m \in Monitors, CreateMonitor(m) \/ DeleteMonitor(m)
    PROVE  IInv'
  <1>1. monitors' \in [Monitors -> {"new", "live", "deleted"}]
    BY DEF CreateMonitor, DeleteMonitor, IInv, Typed
  <1>2. UNCHANGED <<telemetry, feed, alerts, req, history>>
    BY DEF CreateMonitor, DeleteMonitor
  <1>3. (\A k \in Keys : Exists(k)' <=> Exists(k)) /\ TriageSurvives'
    BY <1>2 DEF Exists, TriageSurvives, history, IInv
  <1> QED BY <1>1, <1>2, <1>3, AnalystInv DEF history, IInv, Typed

LEMMA NextInv ==
    ASSUME IInv, [Next]_vars
    PROVE  IInv'
  <1>1. ASSUME NEW r \in Requests, NEW t \in Tenants, Begin(r, t)
        PROVE  IInv'
    BY <1>1, PostTelemetryInv, KevBeginInv, ExposureBeginInv DEF Begin, ItemsOf
  <1>2. ASSUME NEW r \in Requests, Snapshot(r) \/ StoreAnomalies(r)
        PROVE  IInv'
    BY <1>2, SnapshotInv, StoreAnomaliesInv
  <1>3. ASSUME NEW r \in Requests, KevCommit(r) \/ ExposureCommit(r)
        PROVE  IInv'
    BY <1>3, KevCommitInv, ExposureCommitInv
  <1>4. ASSUME NEW r \in Requests, Respond(r) \/ Die(r) \/ \E k \in Keys : Dispatch(r, k)
        PROVE  IInv'
    BY <1>4, RespondInv, DieInv, DispatchInv
  <1>5. ASSUME NEW k \in Keys, NEW s \in Triage, UpdateAlert(k, s)
        PROVE  IInv'
    BY <1>5, UpdateAlertInv
  <1>6. ASSUME NEW m \in Monitors, CreateMonitor(m) \/ DeleteMonitor(m)
        PROVE  IInv'
    BY <1>6, MonitorsInv
  <1>7. CASE UNCHANGED vars
    <2>1. UNCHANGED <<rows, req, history>>
      BY <1>7 DEF vars
    <2>2. (\A k \in Keys : Exists(k)' <=> Exists(k)) /\ TriageSurvives'
      BY <2>1 DEF Exists, TriageSurvives, rows, history, IInv
    <2> QED BY <2>1, <2>2, AnalystInv DEF rows, history, IInv, Typed
  <1> QED BY <1>1, <1>2, <1>3, <1>4, <1>5, <1>6, <1>7 DEF Next

LEMMA Invariant == Spec => []IInv
  <1>1. Init => IInv
    BY InitInv
  <1>2. IInv /\ [Next]_vars => IInv'
    BY NextInv
  <1> QED BY <1>1, <1>2, PTL DEF Spec

-----------------------------------------------------------------------------
(* What the telemetry has been *)

\* What a handler is going to read, and what it has read, is what its tenant's telemetry
\* has been at one moment since the handler's batch was stored.
SinceInv ==
    /\ since \in [Requests -> SUBSET (SUBSET Events)]
    /\ \A r \in Requests : req[r].kind = "telemetry" =>
          /\ req[r].st = "stored" => Read(r) \in since[r]
          /\ req[r].st \in {"analysed", "dispatching"} => req[r].snap \in since[r]

\* The other handlers go on as they were, and r holds what SinceInv asks of it.
LEMMA SinceGoesOn ==
    ASSUME IInv, SinceInv, NEW r \in Requests, UNCHANGED <<telemetry, since>>,
           \A p \in Requests \ {r} : req'[p] = req[p],
           req'[r].kind = "telemetry" =>
              /\ req'[r].st = "stored" => Read(r)' \in since[r]
              /\ req'[r].st \in {"analysed", "dispatching"} => req'[r].snap \in since[r]
    PROVE  SinceInv'
  BY DEF SinceInv, Read, EventsOf

\* Every other handler under way sees the telemetry grow.
LEMMA PostTelemetrySince ==
    ASSUME IInv, SinceInv, NEW r \in Requests, NEW t \in Tenants, NEW B \in SUBSET EventsOf(t),
           PostTelemetry(r, t, B)
    PROVE  SinceInv'
  <1>1. PICK q : q = [Idle EXCEPT !.kind = "telemetry", !.tenant = t, !.batch = B,
                                  !.st = "stored"]
    OBVIOUS
  <1>2. q.st = "stored" /\ q.tenant = t
    BY <1>1 DEF Idle
  <1>3. req' = [req EXCEPT ![r] = q] /\ telemetry' = telemetry \cup B
    BY <1>1 DEF PostTelemetry, AfterInsert
  <1>4. req'[r] = q /\ \A p \in Requests \ {r} : req'[p] = req[p]
    BY <1>3 DEF IInv, Typed
  <1>5. telemetry' \subseteq Events
    BY <1>3 DEF IInv, Typed, EventsOf
  <1> DEFINE now(p) == telemetry' \cap EventsOf(req[p].tenant)
  <1>6. ASSUME NEW p \in Requests, p # r
        PROVE  since'[p] = IF req[p].st \in {"stored", "analysed"} THEN since[p] \cup {now(p)}
                           ELSE since[p]
    BY <1>6 DEF PostTelemetry
  <1>7. since'[r] = {telemetry' \cap EventsOf(t)}
    BY DEF PostTelemetry
  <1>8. \A p \in Requests : now(p) \in SUBSET Events
    BY <1>5
  <1>9. since' \in [Requests -> SUBSET (SUBSET Events)]
    <2>1. since' = [p \in Requests |-> since'[p]]
      BY DEF PostTelemetry
    <2>2. \A p \in Requests : since'[p] \in SUBSET (SUBSET Events)
      <3> SUFFICES ASSUME NEW p \in Requests PROVE since'[p] \in SUBSET (SUBSET Events)
        OBVIOUS
      <3>1. CASE p = r
        BY <1>5, <1>7, <3>1
      <3>2. CASE p # r
        <4>1. since[p] \in SUBSET (SUBSET Events) /\ now(p) \in SUBSET Events
          BY <1>8 DEF SinceInv
        <4> HIDE DEF now
        <4> QED BY <1>6, <3>2, <4>1
      <3> QED BY <3>1, <3>2
    <2> QED BY <2>1, <2>2
  <1>10. ASSUME NEW p \in Requests, req'[p].kind = "telemetry"
         PROVE  /\ req'[p].st = "stored" => Read(p)' \in since'[p]
                /\ req'[p].st \in {"analysed", "dispatching"} => req'[p].snap \in since'[p]
    <2>1. CASE p = r
      BY <1>2, <1>4, <1>7, <2>1 DEF Read, EventsOf
    <2>2. CASE p # r
      <3>1. req'[p] = req[p] /\ Read(p)' = now(p)
        BY <1>4, <2>2 DEF Read, EventsOf
      <3>2. req[p].st = "analysed" => req[p].snap \in since[p]
        BY <1>10, <3>1 DEF SinceInv
      <3>3. req[p].st = "dispatching" => req[p].snap \in since[p]
        BY <1>10, <3>1 DEF SinceInv
      <3> HIDE DEF now
      <3> QED BY <1>6, <2>2, <3>1, <3>2, <3>3
    <2> QED BY <2>1, <2>2
  <1> QED BY <1>9, <1>10 DEF SinceInv

\* The detector reads the store.
LEMMA SnapshotSince ==
    ASSUME IInv, SinceInv, NEW r \in Requests, Snapshot(r)
    PROVE  SinceInv'
  <1>1. PICK o \in Request : o = req[r]
    BY DEF IInv, Typed
  <1>2. PICK q : q = [o EXCEPT !.st = "analysed", !.snap = Read(r)]
    OBVIOUS
  <1>3. /\ o.st = "stored" /\ o.kind = "telemetry" /\ req' = [req EXCEPT ![r] = q]
        /\ UNCHANGED <<telemetry, since>>
    BY <1>1, <1>2 DEF Snapshot, IInv, RequestsInv, Good, StageOf, rows, history, Typed
  <1>4. q.st = "analysed" /\ q.snap = Read(r)
    BY <1>2 DEF Request
  <1>5. req'[r] = q /\ \A p \in Requests \ {r} : req'[p] = req[p]
    BY <1>3 DEF IInv, Typed
  <1>6. Read(r) \in since[r]
    BY <1>1, <1>3 DEF SinceInv
  <1> QED BY <1>3, <1>4, <1>5, <1>6, SinceGoesOn

\* A commit leaves what was read as it is.
LEMMA StoreSince ==
    ASSUME IInv, SinceInv, NEW r \in Requests, NEW K, Store(r, K),
           req[r].st \in {"analysed", "matching"}, UNCHANGED <<telemetry, since>>
    PROVE  SinceInv'
  <1>1. PICK o \in Request : o = req[r]
    BY DEF IInv, Typed
  <1>2. PICK q : q = [o EXCEPT !.st = "dispatching", !.queue = Created(K)]
    OBVIOUS
  <1>3. req' = [req EXCEPT ![r] = q]
    BY <1>1, <1>2 DEF Store, IInv, Typed
  <1>4. q.st = "dispatching" /\ q.kind = o.kind /\ q.snap = o.snap
    BY <1>2 DEF Request
  <1>5. req'[r] = q /\ \A p \in Requests \ {r} : req'[p] = req[p]
    BY <1>3 DEF IInv, Typed
  <1>6. o.kind = "telemetry" => o.st = "analysed"
    BY <1>1 DEF IInv, RequestsInv, Good, StageOf
  <1>7. o.kind = "telemetry" => o.snap \in since[r]
    BY <1>1, <1>6 DEF SinceInv
  <1> QED BY <1>4, <1>5, <1>7, SinceGoesOn

\* A handler that is idle holds nothing.
LEMMA IdleSince ==
    ASSUME IInv, SinceInv, NEW r \in Requests, req' = [req EXCEPT ![r] = Idle],
           UNCHANGED telemetry, since' = since \/ since' = [since EXCEPT ![r] = {}]
    PROVE  SinceInv'
  <1>1. req'[r].kind = "idle" /\ \A p \in Requests \ {r} : req'[p] = req[p]
    BY IdleType DEF IInv, Typed
  <1>2. \A p \in Requests \ {r} : since'[p] = since[p]
    BY DEF SinceInv
  <1>3. since' \in [Requests -> SUBSET (SUBSET Events)]
    BY DEF SinceInv
  <1> QED BY <1>1, <1>2, <1>3 DEF SinceInv, Read, EventsOf

LEMMA BeginSince ==
    ASSUME IInv, SinceInv, NEW r \in Requests, NEW t \in Tenants, Begin(r, t)
    PROVE  SinceInv'
  <1>1. ASSUME NEW C \in SUBSET Entries, KevBegin(r, t, C)
        PROVE  SinceInv'
    <2>1. PICK q : q = [Idle EXCEPT !.kind = "kev", !.st = "matching", !.tenant = t,
                                    !.batch = C, !.mons = LiveOf(t),
                                    !.seen = {k \in C \X LiveOf(t) : Exists(k)}]
      OBVIOUS
    <2>2. q.kind = "kev" /\ req' = [req EXCEPT ![r] = q] /\ UNCHANGED <<telemetry, since>>
      BY <1>1, <2>1 DEF KevBegin, Idle, rows, history
    <2>3. req'[r] = q /\ \A p \in Requests \ {r} : req'[p] = req[p]
      BY <2>2 DEF IInv, Typed
    <2> QED BY <2>2, <2>3, SinceGoesOn
  <1>2. ASSUME NEW B \in SUBSET Items, ExposureBegin(r, t, B)
        PROVE  SinceInv'
    <2>1. PICK q : q = [Idle EXCEPT !.kind = "exposure", !.st = "matching", !.tenant = t,
                                    !.batch = B, !.mons = LiveOf(t)]
      OBVIOUS
    <2>2. q.kind = "exposure" /\ req' = [req EXCEPT ![r] = q] /\ UNCHANGED <<telemetry, since>>
      BY <1>2, <2>1 DEF ExposureBegin, Idle, rows, history
    <2>3. req'[r] = q /\ \A p \in Requests \ {r} : req'[p] = req[p]
      BY <2>2 DEF IInv, Typed
    <2> QED BY <2>2, <2>3, SinceGoesOn
  <1> QED BY <1>1, <1>2, PostTelemetrySince DEF Begin, ItemsOf

LEMMA CommitsSince ==
    ASSUME IInv, SinceInv, NEW r \in Requests,
           StoreAnomalies(r) \/ KevCommit(r) \/ ExposureCommit(r)
    PROVE  SinceInv'
  <1>1. ASSUME StoreAnomalies(r)
        PROVE  SinceInv'
    BY <1>1, StoreSince DEF StoreAnomalies, history
  <1>2. ASSUME ExposureCommit(r)
        PROVE  SinceInv'
    BY <1>2, StoreSince DEF ExposureCommit, history
  <1>3. ASSUME KevCommit(r)
        PROVE  SinceInv'
    <2>1. req[r].st = "matching" /\ UNCHANGED <<telemetry, since>>
      BY <1>3 DEF KevCommit
    <2>2. req' = [req EXCEPT ![r] = Idle] \/ Store(r, KevMatching(r) \ req[r].seen)
      BY <1>3 DEF KevCommit
    <2> QED BY <2>1, <2>2, StoreSince, IdleSince
  <1> QED BY <1>1, <1>2, <1>3

LEMMA DispatchSince ==
    ASSUME IInv, SinceInv, NEW r \in Requests, NEW k \in Keys, Dispatch(r, k)
    PROVE  SinceInv'
  <1>1. PICK o \in Request : o = req[r]
    BY DEF IInv, Typed
  <1>2. PICK q : q = [o EXCEPT !.queue = o.queue \ {k}]
    OBVIOUS
  <1>3. req' = [req EXCEPT ![r] = q] /\ UNCHANGED <<telemetry, since>>
    BY <1>1, <1>2 DEF Dispatch, rows
  <1>4. q.st = o.st /\ q.kind = o.kind /\ q.tenant = o.tenant /\ q.snap = o.snap
    BY <1>2 DEF Request
  <1>5. req'[r] = q /\ \A p \in Requests \ {r} : req'[p] = req[p]
    BY <1>3 DEF IInv, Typed
  <1> QED BY <1>1, <1>3, <1>4, <1>5, SinceGoesOn DEF SinceInv, Read, EventsOf

LEMMA NextSince ==
    ASSUME IInv, SinceInv, [Next]_vars
    PROVE  SinceInv'
  <1>1. ASSUME NEW r \in Requests, Respond(r) \/ Die(r)
        PROVE  SinceInv'
    BY <1>1, IdleSince DEF Respond, Die, rows
  <1>2. ASSUME UNCHANGED <<telemetry, req, since>>
        PROVE  SinceInv'
    BY <1>2 DEF SinceInv, Read, EventsOf
  <1>3. ASSUME NEW k \in Keys, NEW s \in Triage, UpdateAlert(k, s)
        PROVE  SinceInv'
    BY <1>2, <1>3 DEF UpdateAlert
  <1>4. ASSUME NEW m \in Monitors, CreateMonitor(m) \/ DeleteMonitor(m)
        PROVE  SinceInv'
    BY <1>2, <1>4 DEF CreateMonitor, DeleteMonitor, history
  <1>5. CASE UNCHANGED vars
    BY <1>2, <1>5 DEF vars, rows, history
  <1>6. ASSUME NEW r \in Requests, NEW k \in Keys, Dispatch(r, k)
        PROVE  SinceInv'
    BY <1>6, DispatchSince
  <1>7. ASSUME NEW r \in Requests, StoreAnomalies(r) \/ KevCommit(r) \/ ExposureCommit(r)
        PROVE  SinceInv'
    BY <1>7, CommitsSince
  <1> QED BY <1>1, <1>3, <1>4, <1>5, <1>6, <1>7, BeginSince, SnapshotSince DEF Next

LEMMA ReadsWhatWas == Spec => []SinceInv
  <1>1. Init => SinceInv
    BY IdleType DEF Init, SinceInv
  <1>2. IInv /\ SinceInv /\ [Next]_vars => SinceInv'
    BY NextSince
  <1> QED BY Invariant, <1>1, <1>2, PTL DEF Spec

-----------------------------------------------------------------------------
(* The theorems *)

LEMMA OnceAnnounced ==
    ASSUME IInv
    PROVE  AnnouncedOnce
  <1> SUFFICES ASSUME NEW k \in Keys
               PROVE  LET waiting == {r \in Requests : k \in req[r].queue}
                          gone == IF k \in abandoned THEN 1 ELSE 0
                      IN  dispatched[k] + Cardinality(waiting) + gone =
                             IF Exists(k) THEN 1 ELSE 0
    BY DEF AnnouncedOnce
  <1> DEFINE waiting == {r \in Requests : k \in req[r].queue}
  <1>1. OnceOf(k)
    BY DEF IInv, Once
  <1>2. CASE \A r \in Requests : k \notin req[r].queue
    <2>1. waiting = {}
      BY <1>2
    <2>2. Cardinality(waiting) = 0
      BY <2>1, FS_EmptySet
    <2> QED BY <1>1, <1>2, <2>2 DEF OnceOf
  <1>3. CASE \E r \in Requests : k \in req[r].queue
    <2>1. PICK r \in Requests : /\ k \in req[r].queue
                                /\ \A q \in Requests : k \in req[q].queue => q = r
      BY <1>1, <1>3 DEF OnceOf
    <2>2. waiting = {r}
      BY <2>1
    <2>3. Cardinality(waiting) = 1
      BY <2>2, FS_Singleton
    <2> QED BY <1>1, <1>3, <2>3 DEF OnceOf
  <1> QED BY <1>2, <1>3

\* Whichever handlers race for an alert or die on the way, it is announced at most once,
\* never without its row, and never forgotten but by the handler that died holding it: the
\* RETURNING of the one INSERT that made the row decides who calls dispatch().
THEOREM AlertsAnnouncedOnce == Spec => []AnnouncedOnce
  BY Invariant, OnceAnnounced, PTL

\* Replayed telemetry, an ingested catalogue or exposure batch never reopens or closes what
\* an analyst has moved on.
THEOREM DecisionsSurvive == Spec => []TriageSurvives
  <1>1. IInv => TriageSurvives
    BY DEF IInv
  <1> QED BY Invariant, <1>1, PTL

\* Whoever answers has completed what was begun: a replayed batch has the alerts of all its
\* tenant had stored at one moment since, whoever stored it or died over it, every tenant its alerts of a catalogue
\* others have stored, and no ingestion of the catalogue fails on another's rows.
THEOREM IngestionsAnswer == Spec => []IngestionsComplete
  <1>1. IInv /\ SinceInv => ReplayRepairs
    BY DEF IInv, RequestsInv, Good, AnsweredOf, SinceInv, ReplayRepairs
  <1>2. IInv => EveryTenantMatched
    BY DEF IInv, RequestsInv, Good, AnsweredOf, EveryTenantMatched
  <1>3. IInv /\ SinceInv => IngestionsComplete
    BY <1>1, <1>2 DEF IInv, SinceInv, TypeOK, IngestionsComplete
  <1> QED BY Invariant, ReadsWhatWas, <1>3, PTL

-----------------------------------------------------------------------------
(* The life of an alert *)

Waiting == UNION {req[r].queue : r \in Requests}
Announced == {k \in Keys : dispatched[k] > 0}
lifeVars == <<alerts, assigned, Waiting, Announced, abandoned>>

\* What waits after one handler has gone on with queue Q.
LEMMA WaitingAfter ==
    ASSUME NEW r \in Requests, NEW Q, req'[r].queue = Q,
           \A p \in Requests \ {r} : req'[p] = req[p]
    PROVE  \A k : k \in Waiting' <=>
              k \in Q \/ \E p \in Requests \ {r} : k \in req[p].queue
  BY DEF Waiting

\* A handler goes on with the queue it had, and nothing else is written.
LEMMA QuietLife ==
    ASSUME IInv, NEW r \in Requests, NEW q, req' = [req EXCEPT ![r] = q],
           q.queue = req[r].queue,
           UNCHANGED <<alerts, assigned, dispatched, abandoned>>
    PROVE  UNCHANGED lifeVars
  <1>1. req'[r] = q /\ \A p \in Requests \ {r} : req'[p] = req[p]
    BY DEF IInv, Typed
  <1>2. Waiting' = Waiting
    BY <1>1 DEF Waiting
  <1>3. Announced' = Announced
    BY DEF Announced
  <1> QED BY <1>2, <1>3 DEF lifeVars

\* The commit of an alert transaction creates what its INSERT returned.
LEMMA StoreCreates ==
    ASSUME IInv, NEW r \in Requests, NEW K \in SUBSET Keys, Store(r, K),
           req[r].queue = {}, UNCHANGED <<assigned, dispatched, abandoned>>
    PROVE  Life!Next
  <1>1. Created(K) \in SUBSET Keys /\ \A k \in Created(K) : alerts[k] = "none"
    BY DEF Created, Exists
  <1>2. alerts' = [k \in Keys |-> IF k \in Created(K) THEN "open" ELSE alerts[k]]
    BY DEF Store, Written, Created
  <1>3. /\ \A p \in Requests \ {r} : req'[p] = req[p]
        /\ req'[r] = [req[r] EXCEPT !.st = "dispatching", !.queue = Created(K)]
    BY StoreStep
  <1>4. req'[r].queue = Created(K)
    BY <1>3 DEF IInv, Typed, Request
  <1>5. Waiting' = Waiting \cup Created(K)
    <2>1. \A k : k \in Waiting' <=> k \in Created(K) \/ \E p \in Requests \ {r} : k \in req[p].queue
      BY <1>3, <1>4, WaitingAfter
    <2>2. \A k : k \in Waiting <=> \E p \in Requests \ {r} : k \in req[p].queue
      BY DEF Waiting
    <2> QED BY <2>1, <2>2
  <1>6. Announced' = Announced
    BY DEF Announced
  <1>7. PICK L \in SUBSET Keys : L = Created(K)
    BY <1>1
  <1>8. Life!Create(L)
    BY <1>1, <1>2, <1>5, <1>6, <1>7 DEF Life!Create, Waiting, Announced
  <1> QED BY <1>8 DEF Life!Next

\* An alert is in one queue: when it leaves that one, it no longer waits.
LEMMA OneQueue ==
    ASSUME IInv, NEW r \in Requests, NEW k \in req[r].queue
    PROVE  /\ k \in Keys /\ k \in Waiting /\ dispatched[k] = 0
           /\ \A p \in Requests \ {r} : k \notin req[p].queue
  <1>1. k \in Keys
    BY DEF IInv, Typed, Request
  <1> QED BY <1>1 DEF IInv, Once, OnceOf, Waiting

LEMMA DispatchAnnounces ==
    ASSUME IInv, NEW r \in Requests, NEW k \in Keys, Dispatch(r, k)
    PROVE  Life!Next
  <1>1. /\ k \in req[r].queue /\ dispatched' = [dispatched EXCEPT ![k] = dispatched[k] + 1]
        /\ req' = [req EXCEPT ![r].queue = req[r].queue \ {k}]
        /\ UNCHANGED <<alerts, assigned, abandoned>>
    BY DEF Dispatch, rows
  <1>2. /\ req'[r].queue = req[r].queue \ {k}
        /\ \A p \in Requests \ {r} : req'[p] = req[p]
    BY <1>1 DEF IInv, Typed, Request
  <1>3. k \in Waiting /\ dispatched[k] = 0 /\ \A p \in Requests \ {r} : k \notin req[p].queue
    BY <1>1, OneQueue
  <1>4. Waiting' = Waiting \ {k}
    <2>1. \A l : l \in Waiting' <=>
             l \in req[r].queue \ {k} \/ \E p \in Requests \ {r} : l \in req[p].queue
      BY <1>2, WaitingAfter
    <2>2. \A l : l \in Waiting <=>
             l \in req[r].queue \/ \E p \in Requests \ {r} : l \in req[p].queue
      BY DEF Waiting
    <2> QED BY <1>3, <2>1, <2>2
  <1>5. Announced' = Announced \cup {k}
    <2>1. \A l \in Keys : dispatched'[l] = IF l = k THEN 1 ELSE dispatched[l]
      BY <1>1, <1>3 DEF IInv, Typed
    <2> QED BY <2>1 DEF Announced
  <1>6. Life!Announce(k)
    BY <1>1, <1>3, <1>4, <1>5 DEF Life!Announce, Waiting, Announced
  <1> QED BY <1>6 DEF Life!Next

LEMMA DieLoses ==
    ASSUME IInv, NEW r \in Requests, Die(r)
    PROVE  Life!Next
  <1>1. /\ req' = [req EXCEPT ![r] = Idle] /\ abandoned' = abandoned \cup req[r].queue
        /\ UNCHANGED <<alerts, assigned, dispatched>>
    BY DEF Die, rows
  <1>2. req'[r].queue = {} /\ \A p \in Requests \ {r} : req'[p] = req[p]
    BY <1>1, IdleType DEF IInv, Typed
  <1>3. req[r].queue \in SUBSET Keys /\ req[r].queue \subseteq Waiting
    BY OneQueue
  <1>4. Waiting' = Waiting \ req[r].queue
    <2>1. \A l : l \in Waiting' <=> \E p \in Requests \ {r} : l \in req[p].queue
      BY <1>2, WaitingAfter
    <2>2. \A l : l \in Waiting <=>
             l \in req[r].queue \/ \E p \in Requests \ {r} : l \in req[p].queue
      BY DEF Waiting
    <2>3. \A l \in req[r].queue : \A p \in Requests \ {r} : l \notin req[p].queue
      BY OneQueue
    <2> QED BY <2>1, <2>2, <2>3
  <1>5. Announced' = Announced
    BY <1>1 DEF Announced
  <1>6. PICK L \in SUBSET Keys : L = req[r].queue
    BY <1>3
  <1>7. Life!Lose(L)
    BY <1>1, <1>3, <1>4, <1>5, <1>6 DEF Life!Lose, Waiting, Announced
  <1> QED BY <1>7 DEF Life!Next

\* The commits: telemetry and exposure create, and the catalogue creates or loses its
\* transaction.
LEMMA CommitsCreate ==
    ASSUME IInv, NEW r \in Requests,
           StoreAnomalies(r) \/ KevCommit(r) \/ ExposureCommit(r)
    PROVE  Life!Next \/ UNCHANGED lifeVars
  <1>1. PICK o \in Request : o = req[r]
    BY DEF IInv, Typed
  <1>2. Good(o) /\ (o.st # "dispatching" => o.queue = {})
    BY <1>1, NoQueue DEF IInv, RequestsInv
  <1>3. ASSUME StoreAnomalies(r)
        PROVE  Life!Next
    <2>1. PICK A \in Anomalies(o.snap) : Store(r, {o.tenant} \X A)
      BY <1>1, <1>3 DEF StoreAnomalies
    <2>2. o.st = "analysed" /\ UNCHANGED history
      BY <1>1, <1>3 DEF StoreAnomalies
    <2>3. A \subseteq EventsOf(o.tenant)
      BY <1>2, <2>2, AnomaliesAmong DEF Good, StageOf
    <2>4. {o.tenant} \X A \in SUBSET Keys
      BY <2>3 DEF Keys, AnomalyKeys, EventsOf
    <2> QED BY <1>1, <1>2, <2>1, <2>2, <2>4, StoreCreates DEF history
  <1>4. Matching(r) \subseteq o.batch \X Monitors
    BY <1>1 DEF Matching, Request
  <1>5. ASSUME KevCommit(r)
        PROVE  Life!Next \/ UNCHANGED lifeVars
    <2>1. o.kind = "kev" /\ o.st = "matching" /\ o.queue = {}
      BY <1>1, <1>2, <1>5 DEF KevCommit
    <2>2. KevMatching(r) \ req[r].seen \in SUBSET Keys
      BY <1>2, <1>4, <2>1 DEF KevMatching, Good, StageOf, Keys, MatchKeys
    <2>3. UNCHANGED <<assigned, dispatched, abandoned>>
      BY <1>5 DEF KevCommit
    <2>4. CASE \E k \in KevMatching(r) \ req[r].seen : Exists(k)
      <3>1. req' = [req EXCEPT ![r] = Idle] /\ UNCHANGED alerts
        BY <1>5, <2>4 DEF KevCommit
      <3> QED BY <1>1, <2>1, <2>3, <3>1, IdleType, QuietLife
    <2>5. CASE ~\E k \in KevMatching(r) \ req[r].seen : Exists(k)
      <3>1. Store(r, KevMatching(r) \ req[r].seen)
        BY <1>5, <2>5 DEF KevCommit
      <3> QED BY <1>1, <2>1, <2>2, <2>3, <3>1, StoreCreates
    <2> QED BY <2>4, <2>5
  <1>6. ASSUME ExposureCommit(r)
        PROVE  Life!Next
    <2>1. /\ o.kind = "exposure" /\ o.st = "matching" /\ o.queue = {} /\ UNCHANGED history
          /\ Store(r, Matching(r))
      BY <1>1, <1>2, <1>6 DEF ExposureCommit
    <2>2. Matching(r) \in SUBSET Keys
      BY <1>2, <1>4, <2>1 DEF Good, StageOf, Keys, MatchKeys
    <2> QED BY <1>1, <2>1, <2>2, StoreCreates DEF history
  <1> QED BY <1>3, <1>5, <1>6

\* The steps that hold no alert yet, or none any more.
LEMMA OthersQuiet ==
    ASSUME IInv, NEW r \in Requests,
           (\E t \in Tenants : Begin(r, t)) \/ Snapshot(r) \/ Respond(r)
    PROVE  UNCHANGED lifeVars
  <1>1. PICK o \in Request : o = req[r]
    BY DEF IInv, Typed
  <1>2. ASSUME NEW t \in Tenants, Begin(r, t)
        PROVE  UNCHANGED lifeVars
    <2>1. UNCHANGED <<alerts, assigned, dispatched, abandoned>> /\ req[r].st = "idle"
      BY <1>2 DEF Begin, PostTelemetry, KevBegin, ExposureBegin, rows, history
    <2>2. \E q : req' = [req EXCEPT ![r] = q] /\ q.queue = {}
      <3>1. ASSUME NEW B, PostTelemetry(r, t, B)
            PROVE  \E q : req' = [req EXCEPT ![r] = q] /\ q.queue = {}
        <4>1. PICK q : q = [Idle EXCEPT !.kind = "telemetry", !.tenant = t, !.batch = B,
                                        !.st = AfterInsert(B \ telemetry)]
          OBVIOUS
        <4>2. q.queue = {} /\ req' = [req EXCEPT ![r] = q]
          BY <3>1, <4>1 DEF PostTelemetry, Idle
        <4> QED BY <4>2
      <3>2. ASSUME NEW C, KevBegin(r, t, C)
            PROVE  \E q : req' = [req EXCEPT ![r] = q] /\ q.queue = {}
        <4>1. PICK q : q = [Idle EXCEPT !.kind = "kev", !.st = "matching", !.tenant = t,
                                        !.batch = C, !.mons = LiveOf(t),
                                        !.seen = {k \in C \X LiveOf(t) : Exists(k)}]
          OBVIOUS
        <4>2. q.queue = {} /\ req' = [req EXCEPT ![r] = q]
          BY <3>2, <4>1 DEF KevBegin, Idle
        <4> QED BY <4>2
      <3>3. ASSUME NEW B, ExposureBegin(r, t, B)
            PROVE  \E q : req' = [req EXCEPT ![r] = q] /\ q.queue = {}
        <4>1. PICK q : q = [Idle EXCEPT !.kind = "exposure", !.st = "matching", !.tenant = t,
                                        !.batch = B, !.mons = LiveOf(t)]
          OBVIOUS
        <4>2. q.queue = {} /\ req' = [req EXCEPT ![r] = q]
          BY <3>3, <4>1 DEF ExposureBegin, Idle
        <4> QED BY <4>2
      <3> QED BY <1>2, <3>1, <3>2, <3>3 DEF Begin
    <2> QED BY <2>1, <2>2, NoQueue, QuietLife
  <1>3. ASSUME Snapshot(r)
        PROVE  UNCHANGED lifeVars
    <2>1. PICK q : q = [o EXCEPT !.st = "analysed",
                                 !.snap = telemetry \cap EventsOf(o.tenant)]
      OBVIOUS
    <2>2. req' = [req EXCEPT ![r] = q] /\ UNCHANGED <<alerts, history>>
      BY <1>1, <1>3, <2>1 DEF Snapshot, Read, rows, IInv, Typed
    <2>3. q.queue = req[r].queue
      BY <1>1, <2>1 DEF Request
    <2> QED BY <2>2, <2>3, QuietLife DEF history
  <1>4. ASSUME Respond(r)
        PROVE  UNCHANGED lifeVars
    BY <1>4, IdleType, QuietLife DEF Respond, rows
  <1> QED BY <1>2, <1>3, <1>4

LEMMA NextLives ==
    ASSUME IInv, [Next]_vars
    PROVE  Life!Next \/ UNCHANGED lifeVars
  <1>1. ASSUME NEW r \in Requests, NEW t \in Tenants, Begin(r, t)
        PROVE  UNCHANGED lifeVars
    BY <1>1, OthersQuiet
  <1>2. ASSUME NEW r \in Requests, Snapshot(r) \/ Respond(r)
        PROVE  UNCHANGED lifeVars
    BY <1>2, OthersQuiet
  <1>3. ASSUME NEW r \in Requests, StoreAnomalies(r) \/ KevCommit(r) \/ ExposureCommit(r)
        PROVE  Life!Next \/ UNCHANGED lifeVars
    BY <1>3, CommitsCreate
  <1>4. ASSUME NEW r \in Requests, Die(r) \/ \E k \in Keys : Dispatch(r, k)
        PROVE  Life!Next
    BY <1>4, DieLoses, DispatchAnnounces
  <1>5. ASSUME NEW k \in Keys, NEW s \in Triage, UpdateAlert(k, s)
        PROVE  Life!Next
    <2>1. Life!Decide(k, s)
      BY <1>5 DEF UpdateAlert, Exists, Life!Decide
    <2> QED BY <2>1 DEF Life!Next
  <1>6. ASSUME UNCHANGED <<alerts, req, history>>
        PROVE  UNCHANGED lifeVars
    BY <1>6 DEF lifeVars, Waiting, Announced, history
  <1>7. ASSUME NEW m \in Monitors, CreateMonitor(m) \/ DeleteMonitor(m)
        PROVE  UNCHANGED lifeVars
    BY <1>6, <1>7 DEF CreateMonitor, DeleteMonitor
  <1>8. CASE UNCHANGED vars
    BY <1>6, <1>8 DEF vars, rows
  <1> QED BY <1>1, <1>2, <1>3, <1>4, <1>5, <1>7, <1>8 DEF Next

\* The rows are unique and RETURNING tells who made them: whichever handlers race, die or
\* see the same data again, every step of theirs is a step in the life of an alert, which
\* knows of no handler.
THEOREM AlertsLive == Spec => ImplementsAlertLife
  <1>1. Init => Life!Init
    <2> SUFFICES ASSUME Init PROVE Life!Init
      OBVIOUS
    <2>1. \A r \in Requests : req[r].queue = {}
      BY IdleType DEF Init
    <2>2. UNION {req[r].queue : r \in Requests} = {}
      BY <2>1
    <2>3. {k \in Keys : dispatched[k] > 0} = {}
      BY DEF Init
    <2> QED BY <2>2, <2>3 DEF Init, Life!Init
  <1>2. IInv /\ [Next]_vars =>
          [Life!Next]_<<alerts, assigned, UNION {req[r].queue : r \in Requests},
                        {k \in Keys : dispatched[k] > 0}, abandoned>>
    BY NextLives DEF lifeVars, Waiting, Announced
  <1> QED BY <1>1, <1>2, Invariant, PTL DEF Spec, ImplementsAlertLife, Life!Spec

-----------------------------------------------------------------------------
(* Detection: induction, from the library's well-founded order on Nat *)

LEMMA NatMin ==
    ASSUME NEW T \in SUBSET Nat, T # {}
    PROVE  \E x \in T : \A y \in T : x <= y
  <1> DEFINE R == {ss \in Nat \X Nat : ss[1] < ss[2]}
  <1>1. IsWellFoundedOn(R, Nat)
    BY NatLessThanWellFounded DEF OpToRel
  <1> HIDE DEF R
  <1>2. PICK x \in T : \A y \in T : ~(<<y, x>> \in R)
    BY <1>1, WFMin
  <1>3. \A y \in T : ~(y < x)
    BY <1>2 DEF R
  <1> QED BY <1>3

LEMMA AllNat ==
    ASSUME NEW T, 0 \in T, \A n \in Nat : n \in T => n + 1 \in T
    PROVE  Nat \subseteq T
  <1> SUFFICES ASSUME Nat \ T # {} PROVE FALSE
    OBVIOUS
  <1>1. PICK x \in Nat \ T : \A y \in Nat \ T : x <= y
    BY NatMin
  <1>2. x - 1 \in Nat /\ x - 1 \notin Nat \ T
    BY <1>1
  <1>3. x - 1 \in T /\ (x - 1) + 1 = x
    BY <1>2
  <1> QED BY <1>1, <1>2, <1>3

-----------------------------------------------------------------------------
(* The scan *)

None == [history |-> <<>>, found |-> {}]

LEMMA ScannedSteps ==
    ASSUME NEW S
    PROVE  /\ Scanned(S, 0) = None
           /\ \A n \in Nat : Scanned(S, n + 1) = Scan(Scanned(S, n), Moment(S, n))
  <1> DEFINE Made(n, f) == f = [t \in 0..n |-> IF t = 0 THEN None
                                               ELSE Scan(f[t - 1], Moment(S, t - 1))]
             T == {n \in Nat : \E f : Made(n, f)}
             F(n) == CHOOSE f : Made(n, f)
  <1>1. 0 \in T
    <2>1. Made(0, [t \in 0..0 |-> None])
      OBVIOUS
    <2> QED BY <2>1
  <1>2. ASSUME NEW n \in Nat, n \in T PROVE n + 1 \in T
    <2>1. PICK f : Made(n, f)
      BY <1>2
    <2> DEFINE g == [t \in 0..(n + 1) |-> IF t = n + 1 THEN Scan(f[n], Moment(S, n)) ELSE f[t]]
    <2>2. /\ \A t \in 0..n : g[t] = f[t]
          /\ g[n + 1] = Scan(f[n], Moment(S, n))
      OBVIOUS
    <2>3. ASSUME NEW t \in 0..(n + 1)
          PROVE  g[t] = IF t = 0 THEN None ELSE Scan(g[t - 1], Moment(S, t - 1))
      <3>1. CASE t = n + 1
        <4>1. t # 0 /\ t - 1 = n /\ g[n] = f[n]
          BY <2>2, <3>1
        <4> QED BY <2>2, <3>1, <4>1
      <3>2. CASE t # n + 1
        <4>1. t \in 0..n /\ (t # 0 => t - 1 \in 0..n)
          BY <3>2
        <4>2. f[t] = IF t = 0 THEN None ELSE Scan(f[t - 1], Moment(S, t - 1))
          BY <2>1, <4>1
        <4> QED BY <2>2, <4>1, <4>2
      <3> QED BY <3>1, <3>2
    <2>4. g = [t \in 0..(n + 1) |-> g[t]]
      OBVIOUS
    <2> HIDE DEF g
    <2>5. Made(n + 1, g)
      BY <2>3, <2>4
    <2> QED BY <2>5
  <1>3. \A n \in Nat : Made(n, F(n))
    <2> HIDE DEF T
    <2>1. Nat \subseteq T
      BY <1>1, <1>2, AllNat
    <2> QED BY <2>1 DEF T
  <1>4. \A n \in Nat : Scanned(S, n) = F(n)[n]
    BY DEF Scanned, None
  <1> HIDE DEF F
  <1>5. ASSUME NEW n \in Nat
        PROVE  F(n + 1)[n] = F(n)[n]
    <2> DEFINE U == {t \in Nat : t <= n => F(n + 1)[t] = F(n)[t]}
    <2>1. 0 \in U
      BY <1>3
    <2>2. ASSUME NEW t \in Nat, t \in U PROVE t + 1 \in U
      <3> SUFFICES ASSUME t + 1 <= n PROVE F(n + 1)[t + 1] = F(n)[t + 1]
        OBVIOUS
      <3>1. F(n + 1)[t] = F(n)[t]
        BY <2>2
      <3>2. ASSUME NEW m \in {n, n + 1}
            PROVE  F(m)[t + 1] = Scan(F(m)[t], Moment(S, t))
        <4>1. m \in Nat /\ t + 1 \in 0..m /\ t + 1 # 0 /\ (t + 1) - 1 = t
          OBVIOUS
        <4>2. Made(m, F(m))
          BY <1>3, <4>1
        <4> QED BY <4>1, <4>2
      <3> QED BY <3>1, <3>2
    <2>3. Nat \subseteq U
      <3> HIDE DEF U
      <3> QED BY <2>1, <2>2, AllNat
    <2> QED BY <2>3
  <1>6. F(0)[0] = None
    BY <1>3
  <1>7. ASSUME NEW n \in Nat
        PROVE  F(n + 1)[n + 1] = Scan(F(n + 1)[n], Moment(S, n))
    <2>1. Made(n + 1, F(n + 1)) /\ n + 1 \in 0..(n + 1) /\ n + 1 # 0 /\ (n + 1) - 1 = n
      BY <1>3
    <2> QED BY <2>1
  <1> QED BY <1>4, <1>5, <1>6, <1>7

\* The events of a moment, each once, in the order of their identifiers.
LEMMA ByIdSorts ==
    ASSUME NEW S \in SUBSET Observations
    PROVE  /\ Cardinality(S) \in Nat /\ ById(S) \in [1..Cardinality(S) -> S]
           /\ \A i, j \in 1..Cardinality(S) : i < j => ById(S)[i].id < ById(S)[j].id
           /\ \A e \in S : \E i \in 1..Cardinality(S) : ById(S)[i] = e
  <1> DEFINE Sorts(R, q) == /\ q \in [1..Cardinality(R) -> R]
                            /\ \A i, j \in DOMAIN q : i < j => q[i].id < q[j].id
             T == {n \in Nat : \A R \in SUBSET Observations :
                                  Cardinality(R) = n => \E q : Sorts(R, q)}
  <1>1. \A R \in SUBSET Observations : IsFiniteSet(R) /\ Cardinality(R) \in Nat
    BY DetectionAssumption, FS_Subset, FS_CardinalityType
  <1>2. 0 \in T
    <2> SUFFICES ASSUME NEW R \in SUBSET Observations, Cardinality(R) = 0
                 PROVE  \E q : Sorts(R, q)
      OBVIOUS
    <2>1. Sorts(R, [i \in 1..0 |-> i])
      OBVIOUS
    <2> QED BY <2>1
  <1>3. ASSUME NEW n \in Nat, n \in T PROVE n + 1 \in T
    <2> SUFFICES ASSUME NEW R \in SUBSET Observations, Cardinality(R) = n + 1
                 PROVE  \E q : Sorts(R, q)
      OBVIOUS
    <2>1. R # {}
      BY FS_EmptySet
    <2>2. {e.id : e \in R} \in SUBSET Nat /\ {e.id : e \in R} # {}
      BY <2>1, DetectionAssumption
    <2>3. PICK x \in {e.id : e \in R} : \A y \in {e.id : e \in R} : x <= y
      BY <2>2, NatMin
    <2>4. PICK m \in R : \A e \in R : m.id <= e.id
      BY <2>3
    <2>5. Cardinality(R \ {m}) = n
      <3>1. IsFiniteSet(R)
        BY <1>1
      <3>2. Cardinality(R \ {m}) = Cardinality(R) - 1
        BY <3>1, FS_RemoveElement
      <3> QED BY <3>2
    <2>6. PICK q : Sorts(R \ {m}, q)
      BY <1>3, <2>5
    <2> DEFINE p == [i \in 1..(n + 1) |-> IF i = 1 THEN m ELSE q[i - 1]]
    <2>7. \A i \in 2..(n + 1) : i - 1 \in 1..n /\ p[i] = q[i - 1] /\ q[i - 1] \in R \ {m}
      <3>1. q \in [1..n -> R \ {m}]
        BY <2>5, <2>6
      <3> QED BY <3>1
    <2>8. p[1] = m /\ DOMAIN p = 1..(n + 1)
      OBVIOUS
    <2>9. p \in [1..(n + 1) -> R]
      <3> HIDE DEF p
      <3>1. ASSUME NEW i \in 1..(n + 1) PROVE p[i] \in R
        <4>1. i = 1 \/ i \in 2..(n + 1)
          OBVIOUS
        <4> QED BY <2>7, <2>8, <4>1
      <3> QED BY <3>1 DEF p
    <2>10. \A e \in R \ {m} : m.id < e.id
      BY <2>4, DetectionAssumption
    <2>11. ASSUME NEW i \in 1..(n + 1), NEW j \in 1..(n + 1), i < j
           PROVE  p[i].id < p[j].id
      <3>1. j \in 2..(n + 1)
        BY <2>11
      <3>2. CASE i = 1
        BY <2>7, <2>8, <2>10, <3>1, <3>2
      <3>3. CASE i # 1
        <4>1. i \in 2..(n + 1) /\ i - 1 < j - 1 /\ DOMAIN q = 1..n
          BY <2>5, <2>6, <2>11, <3>3
        <4>2. i - 1 \in DOMAIN q /\ j - 1 \in DOMAIN q
          BY <2>7, <3>1, <4>1
        <4>3. q[i - 1].id < q[j - 1].id
          BY <2>6, <4>1, <4>2
        <4> QED BY <2>7, <3>1, <4>1, <4>3
      <3> QED BY <3>2, <3>3
    <2> HIDE DEF p
    <2>12. Sorts(R, p)
      BY <2>8, <2>9, <2>11
    <2> QED BY <2>12
  <1>4. Cardinality(S) \in T
    <2> HIDE DEF T
    <2>1. Nat \subseteq T
      BY <1>2, <1>3, AllNat
    <2> QED BY <1>1, <2>1
  <1>5. Sorts(S, ById(S))
    <2>1. \E q : Sorts(S, q)
      BY <1>4
    <2>2. \E q \in [1..Cardinality(S) -> S] : \A i, j \in DOMAIN q : i < j => q[i].id < q[j].id
      BY <2>1
    <2> QED BY <2>2 DEF ById
  <1>6. PICK q : q = ById(S)
    OBVIOUS
  <1>7. /\ Cardinality(S) \in Nat /\ q \in [1..Cardinality(S) -> S]
        /\ \A i, j \in 1..Cardinality(S) : i < j => q[i].id < q[j].id
    BY <1>1, <1>5, <1>6
  <1>8. \A i, j \in 1..Cardinality(S) : q[i] = q[j] => i = j
    <2>1. \A i \in 1..Cardinality(S) : q[i].id \in Nat
      BY <1>7, DetectionAssumption
    <2> QED BY <1>7, <2>1
  <1>9. q \in Injection(1..Cardinality(S), S)
    BY <1>7, <1>8 DEF Injection, IsInjective
  <1>10. Cardinality(1..Cardinality(S)) = Cardinality(S)
    BY <1>7, FS_Interval
  <1>11. q \in Surjection(1..Cardinality(S), S)
    BY <1>1, <1>9, <1>10, FS_Injection
  <1>12. \A e \in S : \E i \in 1..Cardinality(S) : q[i] = e
    BY <1>11 DEF Surjection
  <1> QED BY <1>6, <1>7, <1>12

LEMMA MomentIs ==
    ASSUME NEW S \in SUBSET Observations, NEW t
    PROVE  ToSet(Moment(S, t)) = {e \in S : e.at = t}
  <1> DEFINE R == {e \in S : e.at = t}
  <1>1. PICK q : q = ById(R)
    OBVIOUS
  <1>2. q \in [1..Cardinality(R) -> R] /\ \A e \in R : \E i \in 1..Cardinality(R) : q[i] = e
    BY <1>1, ByIdSorts
  <1>3. {q[i] : i \in DOMAIN q} = R
    BY <1>2
  <1> QED BY <1>1, <1>3 DEF Moment, ToSet

\* e is compared with what the scan has got when it comes to its moment.
Stands(S, e) == LET h == Scanned(S, e.at).history
                IN  Len(h) >= Warmup /\ Flagged(e.value, Latest(h))

LEMMA ScanFound ==
    ASSUME NEW S \in SUBSET Observations
    PROVE  \A n \in Nat : Scanned(S, n).found = {e \in S : e.at < n /\ Stands(S, e)}
  <1> DEFINE T == {n \in Nat : Scanned(S, n).found = {e \in S : e.at < n /\ Stands(S, e)}}
  <1>1. \A e \in S : e.at \in Nat
    BY DetectionAssumption
  <1>2. 0 \in T
    <2>1. Scanned(S, 0).found = {}
      BY ScannedSteps DEF None
    <2> QED BY <1>1, <2>1
  <1>3. ASSUME NEW n \in Nat, n \in T PROVE n + 1 \in T
    <2>1. PICK p : p = Scanned(S, n)
      OBVIOUS
    <2>2. Scanned(S, n + 1).found = p.found \cup
            {e \in ToSet(Moment(S, n)) : /\ Len(p.history) >= Warmup
                                         /\ Flagged(e.value, Latest(p.history))}
      <3>1. Scanned(S, n + 1) = Scan(p, Moment(S, n))
        BY <2>1, ScannedSteps
      <3> QED BY <3>1 DEF Scan
    <2>3. \A e \in S : e.at = n =>
            (Stands(S, e) <=> /\ Len(p.history) >= Warmup
                              /\ Flagged(e.value, Latest(p.history)))
      BY <2>1 DEF Stands
    <2>4. p.found = {e \in S : e.at < n /\ Stands(S, e)}
      BY <1>3, <2>1
    <2>5. Scanned(S, n + 1).found = {e \in S : e.at < n /\ Stands(S, e)} \cup
            {e \in S : e.at = n /\ Stands(S, e)}
      BY <2>2, <2>3, <2>4, MomentIs
    <2>6. \A e \in S : e.at < n + 1 <=> e.at < n \/ e.at = n
      BY <1>1
    <2> HIDE <2>2, <2>3, <2>4
    <2>7. Scanned(S, n + 1).found = {e \in S : e.at < n + 1 /\ Stands(S, e)}
      BY <2>5, <2>6
    <2> QED BY <2>7
  <1>4. Nat \subseteq T
    <2> HIDE DEF T
    <2> QED BY <1>2, <1>3, AllNat
  <1> QED BY <1>4

LEMMA FoundStands ==
    ASSUME NEW S \in SUBSET Observations, NEW e \in S
    PROVE  e \in Found(S) <=> Stands(SeriesOf(S, e.series), e)
  <1> DEFINE R == SeriesOf(S, e.series)
  <1>1. R \in SUBSET Observations /\ e \in R
    BY DEF SeriesOf
  <1>2. \A f \in R : f.at \in Nat /\ f.at + 1 \in Nat /\ f.at < f.at + 1
    BY <1>1, DetectionAssumption
  <1> HIDE DEF R
  <1>3. \A f \in R : Scanned(R, f.at + 1).found = {d \in R : d.at < f.at + 1 /\ Stands(R, d)}
    BY <1>1, <1>2, ScanFound
  <1>4. e \in FoundIn(R) <=> Stands(R, e)
    BY <1>1, <1>2, <1>3 DEF FoundIn
  <1> QED BY <1>4 DEF Found, R

\* What the scan has got at a moment depends on what is earlier, and on nothing else.
LEMMA SameHistory ==
    ASSUME NEW R \in SUBSET Observations, NEW S \in SUBSET Observations, NEW t \in Nat,
           {e \in R : e.at < t} = {e \in S : e.at < t}
    PROVE  \A u \in Nat : u <= t => Scanned(R, u).history = Scanned(S, u).history
  <1> DEFINE T == {u \in Nat : u <= t => Scanned(R, u).history = Scanned(S, u).history}
  <1>1. 0 \in T
    BY ScannedSteps
  <1>2. ASSUME NEW u \in Nat, u \in T PROVE u + 1 \in T
    <2> SUFFICES ASSUME u + 1 <= t
                 PROVE  Scanned(R, u + 1).history = Scanned(S, u + 1).history
      OBVIOUS
    <2>1. \A e \in Observations : e.at = u => e.at < t
      OBVIOUS
    <2>2. {e \in R : e.at = u} = {e \in S : e.at = u}
      BY <2>1
    <2>3. Moment(R, u) = Moment(S, u)
      BY <2>2 DEF Moment
    <2>4. Scanned(R, u).history = Scanned(S, u).history
      BY <1>2
    <2>5. /\ Scanned(R, u + 1) = Scan(Scanned(R, u), Moment(R, u))
          /\ Scanned(S, u + 1) = Scan(Scanned(S, u), Moment(S, u))
      BY ScannedSteps
    <2>6. \A p, b : Scan(p, b).history = p.history \o ValuesOf(b)
      BY DEF Scan
    <2> QED BY <2>3, <2>4, <2>5, <2>6
  <1>3. Nat \subseteq T
    <2> HIDE DEF T
    <2> QED BY <1>1, <1>2, AllNat
  <1> QED BY <1>3

LEMMA NoneHasHindsight ==
    ASSUME NEW S \in SUBSET Observations
    PROVE  WithoutHindsight(S)
  <1> SUFFICES ASSUME NEW e \in S
               PROVE  e \in Found(S) <=> e \in Found({e} \cup Earlier(S, e))
    BY DEF WithoutHindsight
  <1> DEFINE R == {e} \cup Earlier(S, e)
  <1>1. R \in SUBSET Observations /\ e \in R /\ SeriesOf(S, e.series) \in SUBSET Observations
    BY DEF Earlier, SeriesOf
  <1>2. SeriesOf(R, e.series) = R
    BY DEF Earlier, SeriesOf
  <1>3. e.at \in Nat /\ ~(e.at < e.at)
    BY DetectionAssumption
  <1>4. {f \in SeriesOf(S, e.series) : f.at < e.at} = {f \in R : f.at < e.at}
    BY <1>3 DEF Earlier, SeriesOf
  <1> HIDE DEF R
  <1>5. Scanned(SeriesOf(S, e.series), e.at).history = Scanned(R, e.at).history
    BY <1>1, <1>3, <1>4, SameHistory
  <1>6. Stands(SeriesOf(S, e.series), e) <=> Stands(R, e)
    BY <1>5 DEF Stands
  <1>7. e \in Found(R) <=> Stands(R, e)
    BY <1>1, <1>2, FoundStands
  <1> QED BY <1>6, <1>7, FoundStands DEF R

-----------------------------------------------------------------------------
(* Medians *)

LEMMA Bounded ==
    ASSUME NEW h \in Seq(Nat)
    PROVE  \E b \in Nat : \A i \in 1..Len(h) : h[i] <= b
  <1> DEFINE T == {n \in Nat : n <= Len(h) => \E b \in Nat : \A i \in 1..n : h[i] <= b}
  <1>1. 0 \in T
    OBVIOUS
  <1>2. ASSUME NEW n \in Nat, n \in T PROVE n + 1 \in T
    <2> SUFFICES ASSUME n + 1 <= Len(h)
                 PROVE  \E b \in Nat : \A i \in 1..(n + 1) : h[i] <= b
      OBVIOUS
    <2>1. PICK b \in Nat : \A i \in 1..n : h[i] <= b
      BY <1>2
    <2>2. h[n + 1] \in Nat /\ \A i \in 1..n : h[i] \in Nat
      OBVIOUS
    <2>3. b + h[n + 1] \in Nat /\ \A i \in 1..(n + 1) : h[i] <= b + h[n + 1]
      BY <2>1, <2>2
    <2> QED BY <2>3
  <1>3. Nat \subseteq T
    <2> HIDE DEF T
    <2> QED BY <1>1, <1>2, AllNat
  <1>4. Len(h) \in T
    <2> HIDE DEF T
    <2> QED BY <1>3
  <1> QED BY <1>4

AtMost(h, v) == {i \in DOMAIN h : h[i] <= v}

\* There is a k-th value, and k samples do not exceed it.
LEMMA NthIsThere ==
    ASSUME NEW h \in Seq(Nat), NEW k \in 1..Len(h)
    PROVE  Nth(h, k) \in Nat /\ Cardinality(AtMost(h, Nth(h, k))) >= k
  <1> DEFINE below(v) == {i \in DOMAIN h : h[i] < v}
             T == {v \in Nat : Cardinality(AtMost(h, v)) >= k}
  <1>1. DOMAIN h = 1..Len(h) /\ Len(h) \in Nat /\ \A i \in DOMAIN h : h[i] \in Nat
    OBVIOUS
  <1>2. IsFiniteSet(DOMAIN h) /\ Cardinality(DOMAIN h) = Len(h)
    BY <1>1, FS_Interval
  <1>3. \A v : Cardinality(AtMost(h, v)) \in Nat
    <2> SUFFICES ASSUME NEW v PROVE Cardinality(AtMost(h, v)) \in Nat
      OBVIOUS
    <2>1. AtMost(h, v) \in SUBSET DOMAIN h
      BY DEF AtMost
    <2> QED BY <1>2, <2>1, FS_Subset, FS_CardinalityType
  <1>4. T # {}
    <2>1. PICK b \in Nat : \A i \in DOMAIN h : h[i] <= b
      BY <1>1, Bounded
    <2>2. AtMost(h, b) = DOMAIN h
      BY <2>1 DEF AtMost
    <2>3. b \in T
      BY <1>2, <2>2
    <2> QED BY <2>3
  <1>5. PICK v \in T : \A w \in T : v <= w
    BY <1>4, NatMin
  <1>6. Cardinality(below(v)) < k
    <2>1. CASE v = 0
      <3>1. below(v) = {}
        BY <1>1, <2>1
      <3>2. Cardinality(below(v)) = 0
        BY <3>1, FS_EmptySet
      <3> HIDE DEF below
      <3> QED BY <3>2
    <2>2. CASE v # 0
      <3>1. v - 1 \in Nat /\ v - 1 \notin T
        BY <1>5, <2>2
      <3>2. \A i \in DOMAIN h : h[i] < v <=> h[i] <= v - 1
        BY <1>1
      <3>3. below(v) = AtMost(h, v - 1)
        BY <3>2 DEF AtMost
      <3> HIDE DEF below
      <3>4. Cardinality(AtMost(h, v - 1)) \in Nat
        BY <1>3
      <3> QED BY <3>1, <3>3, <3>4
    <2> QED BY <2>1, <2>2
  <1>7. v \in ToSet(h)
    <2> SUFFICES ASSUME v \notin ToSet(h) PROVE FALSE
      OBVIOUS
    <2>1. \A i \in DOMAIN h : h[i] # v
      BY DEF ToSet
    <2>2. \A i \in DOMAIN h : h[i] < v <=> h[i] <= v
      BY <1>1, <2>1
    <2>3. below(v) = AtMost(h, v)
      BY <2>2 DEF AtMost
    <2>4. Cardinality(AtMost(h, v)) \in Nat
      BY <1>3
    <2> HIDE DEF below
    <2> QED BY <1>5, <1>6, <2>3, <2>4
  <1>8. \E w \in ToSet(h) : Cardinality({i \in DOMAIN h : h[i] < w}) < k
                            /\ Cardinality({i \in DOMAIN h : h[i] <= w}) >= k
    BY <1>5, <1>6, <1>7 DEF AtMost
  <1>9. PICK w : w = Nth(h, k)
    OBVIOUS
  <1>10. w \in ToSet(h) /\ Cardinality({i \in DOMAIN h : h[i] <= w}) >= k
    BY <1>8, <1>9 DEF Nth
  <1>11. w \in Nat
    BY <1>1, <1>10 DEF ToSet
  <1> QED BY <1>9, <1>10, <1>11 DEF AtMost

\* What stands out exceeds half of the samples.
LEMMA FlaggedExceeds ==
    ASSUME NEW h \in Seq(Nat), Len(h) > 0, NEW value \in Nat, Flagged(value, h)
    PROVE  2 * Cardinality({i \in DOMAIN h : h[i] < value}) >= Len(h)
  <1> DEFINE n == Len(h)
             p == (n + 1) \div 2
             q == n \div 2 + 1
             x == Nth(h, p)
             y == Nth(h, q)
             D == {i \in DOMAIN h : h[i] < value}
  <1>1. n \in Nat /\ n > 0 /\ DOMAIN h = 1..n /\ \A i \in DOMAIN h : h[i] \in Nat
    OBVIOUS
  <1>2. IsFiniteSet(DOMAIN h)
    BY <1>1, FS_Interval
  <1> HIDE DEF n
  <1>3. p \in 1..n /\ q \in 1..n /\ 2 * p >= n /\ q >= p
    BY <1>1
  <1> HIDE DEF p, q
  <1>4. /\ x \in Nat /\ Cardinality(AtMost(h, x)) >= p
        /\ y \in Nat /\ Cardinality(AtMost(h, y)) >= q
    BY <1>3, NthIsThere DEF n
  <1>5. Median2(h) = x + y
    BY DEF Median2, n, p, q
  <1>6. 4 * value - 2 * (x + y) >= 14
    BY <1>5 DEF Flagged
  <1> HIDE DEF x, y
  <1>7. ASSUME NEW z \in {x, y}, z < value
        PROVE  2 * Cardinality(D) >= n
    <2>1. Cardinality(AtMost(h, z)) >= p \/ Cardinality(AtMost(h, z)) >= q
      BY <1>4
    <2>2. AtMost(h, z) \in SUBSET D
      BY <1>1, <1>4, <1>7 DEF AtMost
    <2>3. IsFiniteSet(D)
      BY <1>2, FS_Subset
    <2>4. Cardinality(AtMost(h, z)) <= Cardinality(D)
      BY <2>2, <2>3, FS_Subset
    <2>5. Cardinality(D) \in Nat /\ Cardinality(AtMost(h, z)) \in Nat
      BY <2>2, <2>3, FS_Subset, FS_CardinalityType
    <2> HIDE DEF D
    <2> QED BY <1>1, <1>3, <2>1, <2>4, <2>5
  <1>8. x < value \/ y < value
    BY <1>4, <1>6
  <1> QED BY <1>7, <1>8 DEF n

-----------------------------------------------------------------------------
(* The history of a scan and the events it consists of *)

LEMMA ImageCounts ==
    ASSUME NEW I, IsFiniteSet(I), NEW F,
           \A i, j \in I : F[i] = F[j] => i = j
    PROVE  /\ IsFiniteSet({F[i] : i \in I})
           /\ Cardinality({F[i] : i \in I}) = Cardinality(I)
  <1> DEFINE S == {F[i] : i \in I}
             f == [i \in I |-> F[i]]
  <1>1. \A i \in I : f[i] = F[i]
    OBVIOUS
  <1>2. f \in [I -> S]
    OBVIOUS
  <1> HIDE DEF f
  <1>3. f \in Injection(I, S)
    BY <1>1, <1>2 DEF Injection, IsInjective
  <1>4. \A s \in S : \E i \in I : f[i] = s
    BY <1>1
  <1> HIDE DEF S
  <1>5. f \in Surjection(I, S)
    BY <1>2, <1>4 DEF Surjection
  <1>6. f \in Bijection(I, S)
    BY <1>3, <1>5 DEF Bijection
  <1>7. \E b : b \in Bijection(I, S)
    BY <1>6
  <1>8. IsFiniteSet(S) /\ Cardinality(S) = Cardinality(I)
    BY <1>7, FS_Bijection DEF ExistsBijection
  <1> QED BY <1>8 DEF S

Before(e, f) == e.at < f.at \/ (e.at = f.at /\ e.id < f.id)

\* E lists the events of S before n, in the order of time and identifier.
Lists(E, S, n) ==
    /\ E \in Seq(Observations)
    /\ {E[i] : i \in 1..Len(E)} = {e \in S : e.at < n}
    /\ \A i, j \in 1..Len(E) : i < j => Before(E[i], E[j])

LEMMA ValuesOfConcat ==
    ASSUME NEW p \in Seq(Observations), NEW q \in Seq(Observations)
    PROVE  ValuesOf(p) \o ValuesOf(q) = ValuesOf(p \o q)
  <1>1. /\ \A i \in 1..Len(p) : p[i] \in Observations /\ p[i].value \in Nat
        /\ \A i \in 1..Len(q) : q[i] \in Observations /\ q[i].value \in Nat
    BY DetectionAssumption
  <1>2. PICK v, w : v = ValuesOf(p) /\ w = ValuesOf(q)
    OBVIOUS
  <1>3. /\ v = [i \in 1..Len(p) |-> p[i].value]
        /\ w = [i \in 1..Len(q) |-> q[i].value]
    BY <1>2 DEF ValuesOf
  <1>4. /\ v \in Seq(Nat) /\ Len(v) = Len(p) /\ \A i \in 1..Len(p) : v[i] = p[i].value
        /\ w \in Seq(Nat) /\ Len(w) = Len(q) /\ \A i \in 1..Len(q) : w[i] = q[i].value
    BY <1>1, <1>3
  <1>5. /\ v \o w \in Seq(Nat) /\ Len(v \o w) = Len(p) + Len(q)
        /\ \A i \in 1..Len(p) + Len(q) :
             (v \o w)[i] = IF i <= Len(p) THEN v[i] ELSE w[i - Len(p)]
    <2>1. v \in Seq(Nat) /\ w \in Seq(Nat)
      BY <1>4
    <2>2. /\ v \o w \in Seq(Nat) /\ Len(v \o w) = Len(v) + Len(w)
          /\ \A i \in 1..Len(v) + Len(w) :
               (v \o w)[i] = IF i <= Len(v) THEN v[i] ELSE w[i - Len(v)]
      BY <2>1, ConcatProperties
    <2> QED BY <1>4, <2>2
  <1>6. PICK r : r = p \o q
    OBVIOUS
  <1>7. /\ r \in Seq(Observations) /\ Len(r) = Len(p) + Len(q)
        /\ \A i \in 1..Len(p) + Len(q) : r[i] = IF i <= Len(p) THEN p[i] ELSE q[i - Len(p)]
    BY <1>6, ConcatProperties
  <1>8. PICK u : u = ValuesOf(r)
    OBVIOUS
  <1>9. u = [i \in 1..Len(r) |-> r[i].value]
    BY <1>8 DEF ValuesOf
  <1>10. \A i \in 1..Len(r) : r[i] \in Observations
    BY <1>7
  <1>11. u \in Seq(Nat) /\ Len(u) = Len(r) /\ \A i \in 1..Len(r) : u[i] = r[i].value
    BY <1>7, <1>9, <1>10, DetectionAssumption
  <1>12. \A i \in 1..Len(r) : u[i] = (v \o w)[i]
    <2> SUFFICES ASSUME NEW i \in 1..Len(r) PROVE u[i] = (v \o w)[i]
      OBVIOUS
    <2>1. CASE i <= Len(p)
      <3>1. i \in 1..Len(p) /\ i \in 1..Len(p) + Len(q)
        BY <1>7, <2>1
      <3>2. u[i] = r[i].value /\ r[i] = p[i]
        BY <1>7, <1>11, <2>1, <3>1
      <3>3. (v \o w)[i] = v[i]
        BY <1>5, <2>1, <3>1
      <3> QED BY <1>4, <3>1, <3>2, <3>3
    <2>2. CASE ~(i <= Len(p))
      <3>1. i - Len(p) \in 1..Len(q)
        BY <1>7, <2>2
      <3> QED BY <1>4, <1>5, <1>7, <1>11, <2>2, <3>1
    <2> QED BY <2>1, <2>2
  <1>13. u = v \o w
    BY <1>5, <1>7, <1>11, <1>12, SeqEqual
  <1> QED BY <1>2, <1>6, <1>8, <1>13

LEMMA HistoryIs ==
    ASSUME NEW S \in SUBSET Observations
    PROVE  \A n \in Nat : \E E : Lists(E, S, n) /\ Scanned(S, n).history = ValuesOf(E)
  <1> DEFINE T == {n \in Nat : \E E : Lists(E, S, n) /\ Scanned(S, n).history = ValuesOf(E)}
  <1>1. \A e \in S : e.at \in Nat /\ e.id \in Nat
    BY DetectionAssumption
  <1>2. 0 \in T
    <2>1. PICK E : E = << >>
      OBVIOUS
    <2>2. E \in Seq(Observations) /\ Len(E) = 0
      BY <2>1
    <2>3. {E[i] : i \in 1..Len(E)} = {} /\ {e \in S : e.at < 0} = {}
      BY <1>1, <2>2
    <2>4. ValuesOf(E) = << >>
      BY <2>1 DEF ValuesOf
    <2>5. Scanned(S, 0).history = << >>
      BY ScannedSteps DEF None
    <2>6. Lists(E, S, 0)
      BY <2>2, <2>3 DEF Lists
    <2> QED BY <2>4, <2>5, <2>6
  <1>3. ASSUME NEW n \in Nat, n \in T PROVE n + 1 \in T
    <2>1. PICK E : Lists(E, S, n) /\ Scanned(S, n).history = ValuesOf(E)
      BY <1>3
    <2> DEFINE M == {e \in S : e.at = n}
    <2>2. PICK q : q = Moment(S, n)
      OBVIOUS
    <2>3. PICK c : c = Cardinality(M)
      OBVIOUS
    <2>4. /\ c \in Nat /\ q \in [1..c -> M]
          /\ \A i, j \in 1..c : i < j => q[i].id < q[j].id
          /\ \A e \in M : \E i \in 1..c : q[i] = e
      BY <2>2, <2>3, ByIdSorts DEF Moment
    <2>5. q \in Seq(Observations) /\ Len(q) = c
      BY <2>4
    <2>6. E \in Seq(Observations) /\ Len(E) \in Nat
      BY <2>1 DEF Lists
    <2>7. Scanned(S, n + 1).history = ValuesOf(E \o q)
      <3>1. Scanned(S, n + 1) = Scan(Scanned(S, n), q)
        BY <2>2, ScannedSteps
      <3>2. Scanned(S, n + 1).history = ValuesOf(E) \o ValuesOf(q)
        BY <2>1, <3>1 DEF Scan
      <3> QED BY <2>5, <2>6, <3>2, ValuesOfConcat
    <2>8. PICK r : r = E \o q
      OBVIOUS
    <2>9. /\ r \in Seq(Observations) /\ Len(r) = Len(E) + c
          /\ \A i \in 1..Len(E) + c : r[i] = IF i <= Len(E) THEN E[i] ELSE q[i - Len(E)]
      BY <2>5, <2>6, <2>8, ConcatProperties
    <2>10. \A i \in 1..Len(E) : r[i] = E[i] /\ E[i] \in S /\ E[i].at < n
      BY <2>1, <2>4, <2>6, <2>9 DEF Lists
    <2>11. \A i \in 1..Len(r) : i > Len(E) =>
             i - Len(E) \in 1..c /\ r[i] = q[i - Len(E)] /\ r[i] \in S /\ r[i].at = n
      BY <2>4, <2>6, <2>9
    <2>12. ASSUME NEW i \in 1..c PROVE r[Len(E) + i] = q[i] /\ Len(E) + i \in 1..Len(r)
      <3>1. /\ Len(E) + i \in 1..Len(E) + c /\ ~(Len(E) + i <= Len(E))
            /\ (Len(E) + i) - Len(E) = i
        BY <2>4, <2>6
      <3> QED BY <2>9, <3>1
    <2>13. {r[i] : i \in 1..Len(r)} = {e \in S : e.at < n + 1}
      <3>1. ASSUME NEW i \in 1..Len(r) PROVE r[i] \in S /\ r[i].at < n + 1
        <4>1. CASE i <= Len(E)
          <5>1. i \in 1..Len(E)
            BY <2>6, <2>9, <4>1
          <5> QED BY <1>1, <2>10, <5>1
        <4>2. CASE i > Len(E)
          BY <2>11, <4>2
        <4> QED BY <2>4, <2>6, <2>9, <4>1, <4>2
      <3>2. ASSUME NEW e \in S, e.at < n + 1 PROVE \E i \in 1..Len(r) : r[i] = e
        <4>1. CASE e.at < n
          <5>1. PICK i \in 1..Len(E) : E[i] = e
            BY <2>1, <4>1 DEF Lists
          <5>2. i \in 1..Len(r)
            BY <2>4, <2>6, <2>9
          <5> QED BY <2>10, <5>1, <5>2
        <4>2. CASE e.at = n
          <5>1. PICK i \in 1..c : q[i] = e
            BY <2>4, <4>2
          <5> QED BY <2>12, <5>1
        <4> QED BY <1>1, <3>2, <4>1, <4>2
      <3> QED BY <3>1, <3>2
    <2>14. ASSUME NEW i \in 1..Len(r), NEW j \in 1..Len(r), i < j PROVE Before(r[i], r[j])
      <3>1. CASE j <= Len(E)
        <4>1. i \in 1..Len(E) /\ j \in 1..Len(E)
          BY <2>4, <2>6, <2>9, <2>14, <3>1
        <4> QED BY <2>1, <2>10, <2>14, <4>1 DEF Lists
      <3>2. CASE i <= Len(E) /\ j > Len(E)
        <4>1. i \in 1..Len(E)
          BY <2>6, <3>2
        <4> QED BY <2>10, <2>11, <3>2, <4>1 DEF Before
      <3>3. CASE i > Len(E)
        <4>1. j > Len(E) /\ i - Len(E) < j - Len(E)
          BY <2>4, <2>6, <2>9, <2>14, <3>3
        <4>2. q[i - Len(E)].id < q[j - Len(E)].id
          BY <2>4, <2>11, <3>3, <4>1
        <4> QED BY <2>11, <3>3, <4>1, <4>2 DEF Before
      <3> QED BY <2>4, <2>6, <2>9, <3>1, <3>2, <3>3
    <2>15. Lists(r, S, n + 1)
      BY <2>9, <2>13, <2>14 DEF Lists
    <2> QED BY <2>7, <2>8, <2>15
  <1>4. Nat \subseteq T
    <2> HIDE DEF T
    <2> QED BY <1>2, <1>3, AllNat
  <1> QED BY <1>4

-----------------------------------------------------------------------------
(* What a finding has behind it *)

\* No event is listed twice.
LEMMA ListedOnce ==
    ASSUME NEW S \in SUBSET Observations, NEW n, NEW E, Lists(E, S, n)
    PROVE  \A i, j \in 1..Len(E) : E[i] = E[j] => i = j
  <1>1. E \in Seq(Observations) /\ Len(E) \in Nat /\ \A i \in 1..Len(E) : E[i] \in Observations
    BY DEF Lists
  <1>2. \A i \in 1..Len(E) : E[i].at \in Nat /\ E[i].id \in Nat
    BY <1>1, DetectionAssumption
  <1>3. \A i, j \in 1..Len(E) : i < j => Before(E[i], E[j])
    BY DEF Lists
  <1> QED BY <1>1, <1>2, <1>3 DEF Before

\* The events after the i-th are those listed after it.
LEMMA LaterCounts ==
    ASSUME NEW S \in SUBSET Observations, NEW n, NEW E, Lists(E, S, n), NEW i \in 1..Len(E),
           NEW L, \A g : g \in L <=> /\ g \in S /\ g.at < n
                                     /\ g.at > E[i].at \/ (g.at = E[i].at /\ g.id > E[i].id)
    PROVE  Cardinality(L) = Len(E) - i
  <1> DEFINE I == (i + 1)..Len(E)
  <1>1. E \in Seq(Observations) /\ Len(E) \in Nat /\ \A j \in 1..Len(E) : E[j] \in Observations
    BY DEF Lists
  <1>2. \A j \in 1..Len(E) : E[j].at \in Nat /\ E[j].id \in Nat
    BY <1>1, DetectionAssumption
  <1>3. \A j, k \in 1..Len(E) : j < k => Before(E[j], E[k])
    BY DEF Lists
  <1> DEFINE P == {g \in S : g.at < n}
  <1>4. \A g : g \in P <=> \E j \in 1..Len(E) : E[j] = g
    BY DEF Lists
  <1>5. \A j \in 1..Len(E) : E[j] \in L <=> Before(E[i], E[j])
    <2>1. \A j \in 1..Len(E) : E[j] \in P
      BY <1>4
    <2> QED BY <1>2, <2>1 DEF Before
  <1>6. \A j \in 1..Len(E) : Before(E[i], E[j]) <=> j > i
    <2> SUFFICES ASSUME NEW j \in 1..Len(E) PROVE Before(E[i], E[j]) <=> j > i
      OBVIOUS
    <2>1. /\ E[j].at \in Nat /\ E[j].id \in Nat /\ E[i].at \in Nat /\ E[i].id \in Nat
      BY <1>2
    <2>2. CASE j > i
      BY <1>3, <2>2
    <2>3. CASE j = i
      BY <2>1, <2>3 DEF Before
    <2>4. CASE j < i
      <3>1. Before(E[j], E[i])
        BY <1>3, <2>4
      <3> QED BY <2>1, <2>4, <3>1 DEF Before
    <2> QED BY <1>1, <2>2, <2>3, <2>4
  <1>7. \A j : j \in I <=> j \in 1..Len(E) /\ j > i
    BY <1>1
  <1>8. L \subseteq P
    OBVIOUS
  <1> HIDE DEF I
  <1>9. L = {E[j] : j \in I}
    <2>1. \A g \in L : \E j \in 1..Len(E) : E[j] = g
      BY <1>4, <1>8
    <2>2. \A g \in L : \E j \in I : E[j] = g
      BY <1>5, <1>6, <1>7, <2>1
    <2>3. \A j \in I : E[j] \in L
      BY <1>5, <1>6, <1>7
    <2> QED BY <2>2, <2>3
  <1>10. IsFiniteSet(I) /\ Cardinality(I) = Len(E) - i
    BY <1>1, FS_Interval DEF I
  <1>11. \A j, k \in I : E[j] = E[k] => j = k
    BY <1>7, ListedOnce
  <1>12. Cardinality(L) = Cardinality(I)
    BY <1>9, <1>10, <1>11, ImageCounts
  <1> QED BY <1>10, <1>12

LEMMA FindingsExceedHistory ==
    ASSUME NEW S \in SUBSET Observations
    PROVE  Exceeding(S)
  <1> SUFFICES ASSUME NEW e \in Found(S)
               PROVE  LET past == Earlier(S, e)
                          later(f) == {g \in past : g.at > f.at \/ (g.at = f.at /\ g.id > f.id)}
                          recent == {f \in past : Cardinality(later(f)) < Horizon}
                          below == {f \in recent : f.value < e.value}
                      IN  /\ Cardinality(past) >= Warmup
                          /\ 2 * Cardinality(below) >= Cardinality(recent)
    BY DEF Exceeding
  <1> DEFINE R == SeriesOf(S, e.series)
             past == Earlier(S, e)
             later(f) == {g \in past : g.at > f.at \/ (g.at = f.at /\ g.id > f.id)}
             recent == {f \in past : Cardinality(later(f)) < Horizon}
             below == {f \in recent : f.value < e.value}
  <1>1. e \in S /\ e.at \in Nat /\ e.value \in Nat /\ R \in SUBSET Observations
    BY DetectionAssumption DEF Found, SeriesOf
  <1>2. past = {f \in R : f.at < e.at}
    BY DEF Earlier
  <1> HIDE DEF R, past
  <1>3. PICK E : Lists(E, R, e.at) /\ Scanned(R, e.at).history = ValuesOf(E)
    BY <1>1, HistoryIs
  <1>4. PICK n : n = Len(E)
    OBVIOUS
  <1>5. PICK H : H = ValuesOf(E)
    OBVIOUS
  <1>6. /\ n \in Nat /\ E \in Seq(Observations)
        /\ \A i \in 1..n : E[i] \in Observations /\ E[i].value \in Nat
    <2>1. n \in Nat /\ E \in Seq(Observations)
      BY <1>3, <1>4 DEF Lists
    <2>2. \A i \in 1..n : E[i] \in Observations
      BY <1>4, <2>1
    <2> QED BY <2>1, <2>2, DetectionAssumption
  <1>7. H \in Seq(Nat) /\ Len(H) = n /\ \A i \in 1..n : H[i] = E[i].value
    <2>1. H = [i \in 1..n |-> E[i].value]
      BY <1>4, <1>5, <1>6 DEF ValuesOf
    <2> QED BY <1>6, <2>1
  <1>8. n >= Warmup /\ Flagged(e.value, Latest(H))
    BY <1>1, <1>3, <1>5, <1>7, FoundStands DEF Stands, R
  <1>9. {E[i] : i \in 1..n} = past /\ \A i, j \in 1..n : E[i] = E[j] => i = j
    <2>1. \A i, j \in 1..n : E[i] = E[j] => i = j
      BY <1>1, <1>3, <1>4, ListedOnce
    <2>2. {E[i] : i \in 1..n} = past
      BY <1>2, <1>3, <1>4 DEF Lists
    <2> QED BY <2>1, <2>2
  <1>10. IsFiniteSet(1..n) /\ Cardinality(1..n) = n
    BY <1>6, FS_Interval
  <1>11. Cardinality(past) = n
    <2> DEFINE I == 1..n
    <2>1. /\ IsFiniteSet(I) /\ Cardinality(I) = n /\ {E[i] : i \in I} = past
          /\ \A i, j \in I : E[i] = E[j] => i = j
      BY <1>9, <1>10
    <2> HIDE DEF I
    <2>2. Cardinality({E[i] : i \in I}) = Cardinality(I)
      BY <2>1, ImageCounts
    <2> QED BY <2>1, <2>2
  <1> DEFINE lo == IF n > Horizon THEN n - Horizon + 1 ELSE 1
             k == n - lo + 1
             G == [i \in 1..k |-> E[lo - 1 + i]]
  <1>12. /\ lo \in 1..n /\ k \in Nat /\ k > 0 /\ k <= n
         /\ \A i \in 1..n : n - i < Horizon <=> i >= lo
    <2>1. n \in Nat /\ n >= 1 /\ Horizon \in Nat /\ Horizon >= 1
      BY <1>6, <1>8, DetectionAssumption
    <2>2. CASE n > Horizon
      BY <2>1, <2>2
    <2>3. CASE ~(n > Horizon)
      BY <2>1, <2>3
    <2> QED BY <2>2, <2>3
  <1> HIDE DEF lo, k
  <1>13. k = n - lo + 1
    BY DEF k
  <1>14. PICK h : h = Latest(H)
    OBVIOUS
  <1>15. h \in Seq(Nat) /\ Len(h) = k /\ \A i \in 1..k : h[i] = H[lo - 1 + i]
    <2>1. h = SubSeq(H, lo, n)
      BY <1>7, <1>14 DEF Latest, lo
    <2>2. lo \in Int /\ n \in Int /\ lo <= n /\ \A i \in lo..n : H[i] \in Nat
      BY <1>6, <1>7, <1>12
    <2>3. /\ SubSeq(H, lo, n) \in Seq(Nat)
          /\ Len(SubSeq(H, lo, n)) = n - lo + 1
          /\ \A i \in 1..n - lo + 1 : SubSeq(H, lo, n)[i] = H[lo + i - 1]
      BY <2>2, SubSeqProperties
    <2>4. \A i \in 1..k : lo + i - 1 = lo - 1 + i
      BY <1>6, <1>12
    <2> QED BY <1>13, <2>1, <2>3, <2>4
  <1>16. \A i \in 1..k : lo - 1 + i \in lo..n /\ lo - 1 + i \in 1..n
    BY <1>6, <1>12, <1>13
  <1>17. \A i \in 1..k : G[i] = E[lo - 1 + i]
    OBVIOUS
  <1> HIDE DEF G
  <1>18. \A i, j \in 1..k : G[i] = G[j] => i = j
    <2> SUFFICES ASSUME NEW i \in 1..k, NEW j \in 1..k, G[i] = G[j] PROVE i = j
      OBVIOUS
    <2>1. lo - 1 + i = lo - 1 + j
      BY <1>9, <1>16, <1>17
    <2> QED BY <1>6, <1>12, <2>1
  <1>19. \A i \in 1..n : Cardinality(later(E[i])) = n - i
    <2> SUFFICES ASSUME NEW i \in 1..n PROVE Cardinality(later(E[i])) = n - i
      OBVIOUS
    <2>1. Lists(E, R, e.at) /\ n = Len(E)
      BY <1>3, <1>4
    <2>2. PICK L : L = later(E[i])
      OBVIOUS
    <2>3. /\ i \in 1..Len(E)
          /\ \A g : g \in L <=> /\ g \in R /\ g.at < e.at
                                /\ g.at > E[i].at \/ (g.at = E[i].at /\ g.id > E[i].id)
      BY <1>2, <2>1, <2>2
    <2>4. Cardinality(L) = n - i
      BY <1>1, <2>1, <2>3, LaterCounts
    <2> QED BY <2>2, <2>4
  <1>20. recent = {G[i] : i \in 1..k}
    <2>1. \A i \in 1..n : E[i] \in recent <=> i >= lo
      BY <1>9, <1>12, <1>19
    <2>2. recent \subseteq past
      OBVIOUS
    <2> HIDE DEF recent
    <2>3. ASSUME NEW f \in recent PROVE \E i \in 1..k : G[i] = f
      <3>1. PICK j \in 1..n : E[j] = f
        BY <1>9, <2>2
      <3>2. j >= lo
        BY <2>1, <3>1
      <3>3. j - lo + 1 \in 1..k /\ lo - 1 + (j - lo + 1) = j
        BY <1>6, <1>12, <1>13, <3>2
      <3> QED BY <1>17, <3>1, <3>3
    <2>4. \A i \in 1..k : G[i] \in recent
      BY <1>12, <1>16, <1>17, <2>1
    <2> QED BY <2>3, <2>4
  <1> HIDE DEF recent
  <1>21. IsFiniteSet(1..k) /\ Cardinality(1..k) = k
    BY <1>12, FS_Interval
  <1>22. Cardinality(recent) = k
    <2> DEFINE I == 1..k
    <2>1. /\ IsFiniteSet(I) /\ Cardinality(I) = k /\ {G[i] : i \in I} = recent
          /\ \A i, j \in I : G[i] = G[j] => i = j
      BY <1>18, <1>20, <1>21
    <2> HIDE DEF I
    <2>2. Cardinality({G[i] : i \in I}) = Cardinality(I)
      BY <2>1, ImageCounts
    <2> QED BY <2>1, <2>2
  <1> DEFINE J == {i \in DOMAIN h : h[i] < e.value}
  <1>23. DOMAIN h = 1..k /\ \A i \in 1..k : h[i] = G[i].value
    BY <1>7, <1>15, <1>16, <1>17
  <1>24. below = {G[i] : i \in J}
    BY <1>20, <1>23
  <1>25. J \subseteq 1..k /\ IsFiniteSet(J)
    BY <1>21, <1>23, FS_Subset
  <1>26. 2 * Cardinality(J) >= k
    BY <1>1, <1>8, <1>12, <1>14, <1>15, FlaggedExceeds
  <1> HIDE DEF J, below
  <1>27. Cardinality(below) = Cardinality(J)
    <2>1. \A i, j \in J : G[i] = G[j] => i = j
      BY <1>18, <1>25
    <2>2. Cardinality({G[i] : i \in J}) = Cardinality(J)
      BY <1>25, <2>1, ImageCounts
    <2> QED BY <1>24, <2>2
  <1>28. Cardinality(past) >= Warmup /\ 2 * Cardinality(below) >= Cardinality(recent)
    BY <1>8, <1>11, <1>22, <1>26, <1>27
  <1> QED BY <1>28 DEF past, recent, below

\* Whatever telemetry is stored and in whatever order it came, an event is a finding or not
\* by what its series showed before it, whether other observations are there or not; and a
\* finding has the samples it needs behind it and exceeds half of the latest.
THEOREM FindingsAreSound == Spec => []FindingsSound
  <1>1. ASSUME NEW T \in SUBSET Events PROVE T \in HindsightFree /\ T \in WellFounded
    <2>1. ASSUME NEW S \in WithMore(T) PROVE S \in SUBSET Observations
      BY <2>1, IngestAssumption DEF WithMore
    <2>2. \A S \in WithMore(T) : WithoutHindsight(S)
      BY <2>1, NoneHasHindsight
    <2>3. \A S \in WithMore(T) : Exceeding(S)
      BY <2>1, FindingsExceedHistory
    <2>4. T \in HindsightFree
      BY <2>2, Zenon DEF HindsightFree
    <2>5. T \in WellFounded
      BY <2>3, Zenon DEF WellFounded
    <2> QED BY <2>4, <2>5
  <1>2. IInv => FindingsSound
    BY <1>1 DEF IInv, Typed, FindingsSound, NoHindsight, FindingsExceed
  <1> QED BY Invariant, <1>2, PTL
=============================================================================
