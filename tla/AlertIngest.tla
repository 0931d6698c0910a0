----------------------------- MODULE AlertIngest -----------------------------
(***************************************************************************)
(* The three ways a request turns outside data into operational alerts:    *)
(* POST /telemetry (api/v1/advanced.py), the CISA KEV catalogue            *)
(* (services/operations.py) and POST /exposure/ingest                      *)
(* (api/v1/platform.py), with the keyword monitors they match against and  *)
(* the analysts who move alerts on.                                        *)
(*                                                                         *)
(* Each handler reads, writes its rows in one transaction (telemetry in    *)
(* two), and calls webhook_service.dispatch for the alerts it created only *)
(* after the commit, one by one.  A handler may die between any two steps. *)
(* A transaction's inserts are one step: a second insert of a key waits    *)
(* for the first one's transaction.                                        *)
(***************************************************************************)
EXTENDS Integers, FiniteSets, Detection

CONSTANTS
    Requests,     \* handlers at work
    Tenants,
    Events,       \* telemetry events, each of one tenant
    Entries,      \* entries of the KEV catalogue, shared by all tenants
    Items,        \* items of exposure batches, each of one tenant
    Monitors,     \* keyword monitor rows
    Owner,        \* event, item or monitor -> tenant
    Triage,       \* statuses analysts give
    Matches,      \* pairs of an entry or item and a monitor whose term it holds
    Mixes,        \* bound: the kinds of handlers that meet in one behaviour
    NoTenant

ASSUME IngestAssumption ==
    /\ Owner \in [Monitors \cup Events \cup Items -> Tenants]
    /\ Matches \subseteq (Entries \cup Items) \X Monitors
    /\ Events \subseteq Observations
    /\ NoTenant \notin Tenants
    \* dedupe_key begins with "anomaly:", "cisa-kev:" or "mention:".
    /\ Tenants \cap (Entries \cup Items) = {} /\ Entries \cap Items = {}
    /\ Triage \subseteq {"open", "triage", "investigating", "resolved", "false_positive"}

VARIABLES
    telemetry, \* committed events
    feed,      \* threat_feed_items
    monitors,  \* monitor -> "new", "live", "deleted"
    alerts,    \* dedupe key -> status
    req,       \* request -> what its handler holds
    assigned,  \* history: key -> the status an analyst gave it last
    dispatched,\* history: key -> calls of dispatch()
    abandoned, \* history: alerts whose handler died before their dispatch
    conflicts, \* history: transactions lost to a unique constraint
    since      \* history: request -> what its tenant's telemetry has been since its
               \* handler committed a batch, until the alerts are stored

history == <<assigned, dispatched, abandoned, conflicts, since>>
rows == <<telemetry, feed, monitors, alerts>>
vars == <<rows, req, history>>

-----------------------------------------------------------------------------
\* dedupe_key is unique per tenant: an anomaly's key names its event, the key of a
\* match the item and the monitor.
AnomalyKeys == {<<Owner[e], e>> : e \in Events}
EventsOf(t) == {e \in Events : Owner[e] = t}
ItemsOf(t) == {i \in Items : Owner[i] = t}
MatchKeys == (Entries \cup Items) \X Monitors
Keys == AnomalyKeys \cup MatchKeys

Status == {"none", "open"} \cup Triage
Exists(k) == alerts[k] # "none"
LiveOf(t) == {m \in Monitors : Owner[m] = t /\ monitors[m] = "live"}

Kinds == {"idle", "telemetry", "kev", "exposure"}
Request == [kind : Kinds, st : {"idle", "stored", "analysed", "matching", "dispatching"},
            tenant : Tenants \cup {NoTenant}, batch : SUBSET (Events \cup Entries \cup Items),
            mons : SUBSET Monitors, snap : SUBSET Events, seen : SUBSET MatchKeys,
            queue : SUBSET Keys]
Idle == [kind |-> "idle", st |-> "idle", tenant |-> NoTenant, batch |-> {}, mons |-> {},
         snap |-> {}, seen |-> {}, queue |-> {}]

Typed ==
    /\ telemetry \in SUBSET Events
    /\ feed \in SUBSET Entries
    /\ monitors \in [Monitors -> {"new", "live", "deleted"}]
    /\ alerts \in [Keys -> Status]
    /\ req \in [Requests -> Request]
    /\ assigned \in [Keys -> Status]
    /\ dispatched \in [Keys -> 0..1]
    /\ abandoned \in SUBSET Keys
    /\ conflicts \in Nat

TypeOK == Typed /\ since \in [Requests -> SUBSET (SUBSET Events)]

Init ==
    /\ telemetry = {}
    /\ feed = {}
    /\ monitors = [m \in Monitors |-> "new"]
    /\ alerts = [k \in Keys |-> "none"]
    /\ req = [r \in Requests |-> Idle]
    /\ assigned = [k \in Keys |-> "none"]
    /\ dispatched = [k \in Keys |-> 0]
    /\ abandoned = {}
    /\ conflicts = 0
    /\ since = [r \in Requests |-> {}]

-----------------------------------------------------------------------------
(* Writing alerts. *)

\* Mutant: ON CONFLICT DO UPDATE, which reopens what was triaged.
WrittenAnew(K) == [k \in Keys |-> IF k \in K THEN "open" ELSE alerts[k]]

\* INSERT ... ON CONFLICT DO NOTHING.
Written(K) == [k \in Keys |-> IF k \in K /\ ~Exists(k) THEN "open" ELSE alerts[k]]

\* Mutant: every match is announced, whether or not its row was inserted.
CreatedOrNot(K) == K

\* RETURNING: the keys whose rows this transaction inserted.
Created(K) == {k \in K : ~Exists(k)}

\* The alert transaction commits with keys K; dispatching begins.
Store(r, K) ==
    /\ alerts' = Written(K)
    /\ req' = [req EXCEPT ![r].st = "dispatching", ![r].queue = Created(K)]

Matching(r) == {k \in req[r].batch \X req[r].mons : k \in Matches}

-----------------------------------------------------------------------------
(* POST /telemetry *)

\* Mutant: a batch of duplicates is answered at once.
NextIfNew(new) == IF new = {} THEN "dispatching" ELSE "stored"

\* Where the handler goes on after the first commit: replays are analysed, too.
AfterInsert(new) == "stored"

\* First transaction: the events not yet stored.
PostTelemetry(r, t, B) ==
    /\ req[r].st = "idle" /\ B # {}
    /\ telemetry' = telemetry \cup B
    /\ req' = [req EXCEPT ![r] = [Idle EXCEPT !.kind = "telemetry", !.tenant = t, !.batch = B,
                                              !.st = AfterInsert(B \ telemetry)]]
    /\ since' = [q \in Requests |->
                   IF q = r THEN {telemetry' \cap EventsOf(t)}
                   ELSE IF req[q].st \in {"stored", "analysed"}
                        THEN since[q] \cup {telemetry' \cap EventsOf(req[q].tenant)}
                        ELSE since[q]]
    /\ UNCHANGED <<feed, monitors, alerts, assigned, dispatched, abandoned, conflicts>>

\* Mutant: the batch is analysed, not the history it belongs to.
OnlyBatch(r) == req[r].batch

\* The tenant's telemetry as snapshot() selects it.
Read(r) == telemetry \cap EventsOf(req[r].tenant)

\* snapshot(): what is stored when the analysis begins.
Snapshot(r) ==
    /\ req[r].st = "stored"
    /\ req' = [req EXCEPT ![r].st = "analysed", ![r].snap = Read(r)]
    /\ UNCHANGED <<rows, history>>

\* Second transaction: an alert per anomaly.
StoreAnomalies(r) ==
    /\ req[r].st = "analysed"
    /\ \E A \in Anomalies(req[r].snap) : Store(r, {req[r].tenant} \X A)
    /\ UNCHANGED <<telemetry, feed, monitors, history>>

-----------------------------------------------------------------------------
(* The KEV catalogue *)

\* Mutant: without pg_advisory_xact_lock.
NoLock(r) == TRUE

\* pg_advisory_xact_lock(73421901): no other ingestion is inside its transaction.
LockFree(r) == \A q \in Requests \ {r} : ~(req[q].kind = "kev" /\ req[q].st = "matching")

\* The catalogue C was fetched; the transaction reads the monitors and what exists.
\* An empty catalogue writes nothing.
KevBegin(r, t, C) ==
    /\ req[r].st = "idle" /\ LockFree(r)
    /\ req' = [req EXCEPT ![r] = [Idle EXCEPT !.kind = "kev", !.st = "matching", !.tenant = t,
                                              !.batch = C, !.mons = LiveOf(t),
                                              !.seen = {k \in C \X LiveOf(t) : Exists(k)}]]
    /\ UNCHANGED <<rows, history>>

\* Mutant: entries another tenant's ingestion stored are not matched again.
MatchingNewEntries(r) == {k \in Matching(r) : k[1] \notin feed}

\* Every entry is matched against the tenant's monitors, known or not.
KevMatching(r) == Matching(r)

\* SELECT, then a plain INSERT: a key inserted in between fails the transaction.
KevCommit(r) ==
    LET K == KevMatching(r) \ req[r].seen
    IN  /\ req[r].kind = "kev" /\ req[r].st = "matching"
        /\ IF \E k \in K : Exists(k)
           THEN /\ conflicts' = conflicts + 1
                /\ req' = [req EXCEPT ![r] = Idle]
                /\ UNCHANGED <<feed, alerts>>
           ELSE /\ feed' = feed \cup req[r].batch
                /\ Store(r, K)
                /\ UNCHANGED conflicts
        /\ UNCHANGED <<telemetry, monitors, assigned, dispatched, abandoned, since>>

-----------------------------------------------------------------------------
(* POST /exposure/ingest *)

ExposureBegin(r, t, B) ==
    /\ req[r].st = "idle" /\ B # {}
    /\ req' = [req EXCEPT ![r] = [Idle EXCEPT !.kind = "exposure", !.st = "matching",
                                              !.tenant = t, !.batch = B, !.mons = LiveOf(t)]]
    /\ UNCHANGED <<rows, history>>

ExposureCommit(r) ==
    /\ req[r].kind = "exposure" /\ req[r].st = "matching"
    /\ Store(r, Matching(r))
    /\ UNCHANGED <<telemetry, feed, monitors, history>>

-----------------------------------------------------------------------------
(* After the commit *)

\* webhook_service.dispatch for one created alert.
Dispatch(r, k) ==
    /\ k \in req[r].queue
    /\ dispatched' = [dispatched EXCEPT ![k] = @ + 1]
    /\ req' = [req EXCEPT ![r].queue = @ \ {k}]
    /\ UNCHANGED <<rows, assigned, abandoned, conflicts, since>>

Respond(r) ==
    /\ req[r].st = "dispatching" /\ req[r].queue = {}
    /\ req' = [req EXCEPT ![r] = Idle]
    /\ since' = [since EXCEPT ![r] = {}]
    /\ UNCHANGED <<rows, assigned, dispatched, abandoned, conflicts>>

\* The process dies or the database fails: the open transaction is rolled back, and
\* nobody dispatches what is left of the queue.
Die(r) ==
    /\ req[r].st # "idle"
    /\ abandoned' = abandoned \cup req[r].queue
    /\ req' = [req EXCEPT ![r] = Idle]
    /\ since' = [since EXCEPT ![r] = {}]
    /\ UNCHANGED <<rows, assigned, dispatched, conflicts>>

\* PATCH /operational-alerts/{id}
UpdateAlert(k, s) ==
    /\ Exists(k)
    /\ alerts' = [alerts EXCEPT ![k] = s]
    /\ assigned' = [assigned EXCEPT ![k] = s]
    /\ UNCHANGED <<telemetry, feed, monitors, req, dispatched, abandoned, conflicts, since>>

CreateMonitor(m) ==
    /\ monitors[m] = "new"
    /\ monitors' = [monitors EXCEPT ![m] = "live"]
    /\ UNCHANGED <<telemetry, feed, alerts, req, history>>

\* Handlers that have read it still match against it.
DeleteMonitor(m) ==
    /\ monitors[m] = "live"
    /\ monitors' = [monitors EXCEPT ![m] = "deleted"]
    /\ UNCHANGED <<telemetry, feed, alerts, req, history>>

\* The kinds of handlers that are at work or have left something behind.
Met == {req[r].kind : r \in {q \in Requests : req[q].st # "idle"}}
         \cup (IF telemetry = {} THEN {} ELSE {"telemetry"})
         \cup (IF feed = {} THEN {} ELSE {"kev"})
         \cup (IF \E k \in Items \X Monitors : Exists(k) THEN {"exposure"} ELSE {})
Mixed(kind) == \E M \in Mixes : Met \cup {kind} \subseteq M

Begin(r, t) ==
    \/ Mixed("telemetry") /\ \E B \in SUBSET EventsOf(t) : PostTelemetry(r, t, B)
    \/ Mixed("kev") /\ \E C \in (SUBSET Entries) \ {{}} : KevBegin(r, t, C)
    \/ Mixed("exposure") /\ \E B \in SUBSET ItemsOf(t) : ExposureBegin(r, t, B)

Next ==
    \/ \E r \in Requests, t \in Tenants : Begin(r, t)
    \/ \E r \in Requests : \/ Snapshot(r) \/ StoreAnomalies(r) \/ KevCommit(r)
                           \/ ExposureCommit(r) \/ Respond(r) \/ Die(r)
                           \/ \E k \in Keys : Dispatch(r, k)
    \/ \E k \in Keys, s \in Triage : UpdateAlert(k, s)
    \/ \E m \in Monitors : CreateMonitor(m) \/ DeleteMonitor(m)

Spec == Init /\ [][Next]_vars

-----------------------------------------------------------------------------
(* Properties. *)

\* An alert row is announced once, is about to be, or its handler died in between:
\* no two ingestions announce one alert, and none is announced that has no row.
AnnouncedOnce ==
    \A k \in Keys :
        LET waiting == {r \in Requests : k \in req[r].queue}
            gone == IF k \in abandoned THEN 1 ELSE 0
        IN  dispatched[k] + Cardinality(waiting) + gone = IF Exists(k) THEN 1 ELSE 0

\* What an analyst decided about an alert survives every later ingestion of the same
\* data: only the analysts move an alert on.
TriageSurvives == \A k \in Keys : assigned[k] # "none" => alerts[k] = assigned[k]

\* advanced.py:65: a batch that was stored by a handler that died gets its alerts from
\* any replay of it that succeeds: when a handler answers, there was a moment since its
\* batch was in the store such that every anomaly of all the tenant had stored at that
\* moment has its alert, those that only the events of other requests explain included.
ReplayRepairs ==
    \A r \in Requests : req[r].kind = "telemetry" /\ req[r].st = "dispatching" =>
        \E T \in since[r] :
            \E A \in Anomalies(T) : \A e \in A : Exists(<<req[r].tenant, e>>)

\* Telemetry together with whatever else may have been observed.
WithMore(T) == {T \cup more : more \in SUBSET (Observations \ Events)}
HindsightFree == UNION {IF \A S \in WithMore(T) : WithoutHindsight(S) THEN {T} ELSE {} :
                        T \in SUBSET Events}
WellFounded == UNION {IF \A S \in WithMore(T) : Exceeding(S) THEN {T} ELSE {} :
                      T \in SUBSET Events}

\* detection.py:55, "Equal-time observations never train each other": batches arrive in any
\* order, and whether an event is a finding still does not depend on later events, on
\* those of its own moment, or on other entities.
NoHindsight == telemetry \in HindsightFree

\* detection.py:73, an anomaly "exceeded its prior median": whatever is stored, a finding
\* has a baseline behind it and lies above at least half of it.
FindingsExceed == telemetry \in WellFounded

\* The catalogue is stored once for all tenants; each tenant still gets its own alerts
\* from it, whoever stored the entries.
EveryTenantMatched ==
    \A r \in Requests : req[r].kind = "kev" /\ req[r].st = "dispatching" =>
        \A e \in req[r].batch, m \in req[r].mons : <<e, m>> \in Matches => Exists(<<e, m>>)

\* Ingestions of the catalogue at one time do not lose a transaction to each other.
KevSerialised == conflicts = 0

\* A handler that answered has completed what it or a dead one before it began: no
\* replay, no other tenant and no catalogue ingested at the same time leaves a gap.
IngestionsComplete == TypeOK /\ ReplayRepairs /\ EveryTenantMatched /\ KevSerialised

\* A finding follows from what came before it, and from enough of it.
FindingsSound == NoHindsight /\ FindingsExceed

\* The life of an alert, whatever handlers race or die.
Life == INSTANCE AlertLife WITH
            status <- alerts,
            decided <- assigned,
            waiting <- UNION {req[r].queue : r \in Requests},
            announced <- {k \in Keys : dispatched[k] > 0},
            lost <- abandoned

\* advanced.py:71 ("anomaly:"), operations.py:217, platform.py:187: an alert found again,
\* by a replay, another request or another tenant's ingestion, is not created, announced or
\* reopened again: every step of the handlers is a step in the life of an alert.
ImplementsAlertLife == Life!Spec
=============================================================================
