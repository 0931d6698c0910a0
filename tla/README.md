# DarkTrace X: TLA+ models and proofs

DarkTrace X is a FastAPI backend (`src/apps/api`), run in several replicas
over PostgreSQL and Redis, with an inference worker (`src/apps/llm`) and a web
front end. Its core is what the replicas do at the same time to shared rows and
leases: they crawl sources, queue and send notifications and reports, and keep
a copilot's memory. This directory holds the models of that core, what TLC
checks of them and what TLAPS proves of them.

Paths below are relative to `src/apps/api/app` unless they start with `src/`
or `docs/` (which is `src/docs/`).

## 1. Inventory

| Component | State | Operations | Hard behaviour | What makes it correct |
|---|---|---|---|---|
| Source crawl (`services/source_management.py`, `crawl_lock.py`) | Redis lease per source; job rows; `enabled`, `health`, `failure_count` of source rows; the tasks themselves | crawl, validate, set_enabled, remove, create | two guards (lease, job row) with different clocks; cancellation at 240 s that no clause catches; lost answers, crashes, Redis losing a key | one crawl per source; no living crawl's row is reaped; a dead replica blocks nothing for ever; health agrees with failures |
| Crawl pipeline (same file, last transaction; `source_parsers.py`, `safe_http.py`) | documents, entities, observations, events, alerts | fetch, read, extract, deduplicate, upsert, match monitors; create and update of sources | crawls of a tenant race for unique keys and wait for each other's locks; pages that hide text; sources edited under way | all or nothing; every match of a stored text alerted; what is stored names its URL; every transaction ends |
| Source scheduler (`services/scheduler.py`, `storage/database.py`, `main.py`) | `next_scheduled_at`, `Database.ready` | claim due slots, crawl them, start, stop | replicas waking together; crash after the claim; no database at start | a slot is claimed once and accounted for; readiness comes back |
| Delivery queue (`services/delivery_worker.py`, `webhooks.py`, `report_schedules.py`) | `delivery_jobs`, subscriptions, schedules | register, remove, dispatch, enqueue, claim, render, send, record | the network call is made inside an open transaction; rollback after the send, or a lost row lock during it; targets deleted under way; retries | at-least-once, bounded attempts, no claim of delivery without one |
| Alert ingestion and fan-out (`api/v1/advanced.py`, `api/v1/platform.py`, `services/operations.py`) | telemetry, feed items, monitors, alerts | ingest, materialise, dispatch, triage | crash between commits, replay, two catalogues at once | one announcement per alert; a replay repairs; triage survives |
| Detection (`services/detection.py`) | none | analyze | late telemetry, equal times, thresholds | no event is judged by what came after it |
| Tenants and users (`services/operations.py`) | tenants, users | register, create, change role | two demotions at once | one administrator stays |
| Browser sessions, sign-in budget (`services/browser_sessions.py`, `login_guard.py`) | refresh records by family; a counter in Redis | issue, rotate, revoke; reserve, finish | rotation against revocation; reset against counting | one usable record per family; a closed family stays closed; a lockout ends |
| Copilot memory (`api/v1/copilot.py`, `services/copilot_store.py`) | lease per user, conversations, preferences, incidents | chat, delete, switch off, mute | lease against timeout; writes outside the lease | deletion is not undone by a save |
| Copilot answer (`api/v1/copilot.py`, `services/copilot_gateway.py`, `copilot_tools.py`) | one stream | tools, rounds, stream, save | failures and clients that leave in mid-stream | partial text is not saved; the lease comes back |
| Copilot settings (`services/copilot_gateway.py`, `services/ai.py`) | one record per tenant, the environment | save, test, use | a save that reads and writes; two reads per use | nobody is sent to the external provider unasked; a removed key stays removed |
| Copilot notifications (`services/copilot_alerts.py`) | notifications, preferences, probe notes | poll, act | many tabs, a list of 100 | limits per hour and group; what was dismissed stays so |
| Inference worker (`src/apps/llm/worker.py`) | model lock, queue of 32, stop flag | generate | a thread and an event loop; a reader that leaves | one inference at a time; the lock comes back |
| Search index (`search/service.py`) | Elasticsearch indexes; the graph only reads | index, graph, correlate, reindex | a graph cut off at its limits | no edge to what is not shown |
| Cron, automations and documents, marketplace, MCP, reports, web UI, model assets, scripts | rows written whole, files | upserts, formatting | see section 6 | |

Components meet in PostgreSQL rows and Redis keys, never in memory: the
scheduler calls the crawl; the crawl's alerts and the ingestion endpoints'
alerts go to `dispatch`, which fills the delivery queue; reports read what the
others stored; the copilot's tools read all of it and its gateway calls the
inference worker. `PROJECT.json` lists every hazard at its line.

## 2. Modules

| Module | What it is |
|---|---|
| `SourceCrawl`, `SourceCrawlProofs` | the crawl of a source with its lease, job rows and health columns; six theorems |
| `PageText`, `PublicHttp` | what a crawl reads out of a response, and which responses it can get: operators |
| `CrawlPipeline`, `PipelineProofs` | extends both: what crawls store, on PostgreSQL's terms; five theorems, one of them about the graph |
| `IntelligenceGraph` | extends it: the graph over what is stored |
| `SourceScheduler`, `SchedulerProofs` | recurring crawls, start, stop and readiness of the replicas; two theorems |
| `AtLeastOnce` | abstract: what the delivery queue promises |
| `DeliveryQueue`, `DeliveryProofs` | the queue, its workers and what feeds it; implements `AtLeastOnce`; six theorems |
| `Detection` | `analyze()`: operators |
| `AlertLife` | abstract: what becomes of an alert, whoever finds it |
| `AlertIngest`, `IngestProofs` | extends `Detection`: the three ways to an alert, monitors, triage, dispatch; implements `AlertLife`; five theorems |
| `TenantAdmin` | registration, users, roles |
| `LoginGuard`, `BrowserSessions` | the sign-in budget; refresh records |
| `Accounts`, `AccountsProofs` | composes the last three: handlers that use all of them; four theorems, one of them that it implements `TenantAdmin` |
| `CopilotMemory` | the memory of one user and its lease |
| `CopilotTurn` | one answer |
| `AiSettings` | the provider settings and who uses them |
| `Notifications` | proactive notifications of one user |
| `CopilotProofs` | extends the four modules of the copilot; eight theorems |
| `OneModel` | abstract: what the inference worker promises |
| `LlmWorker`, `LlmProofs` | the inference worker; implements `OneModel`; four theorems |
| `MC...` | instances for TLC: constants, symmetry |

### SourceCrawl

One action is one transaction, one Redis command or one network call, because
those are the places where another task can come in between. `pc[w]` says
where a crawl task stands: `loading` (the `get` and the look at `enabled`),
`resolving` (the awaited DNS check), `checking` and `inserting` (the query for
a running row and the commit that inserts a new one; other tasks run in
between), `robots`, `fetching`, `storing` and `failing` (the `try` block of
`_crawl` and its `except`), `releasing` (the `finally` of `source_lock`).

* `lease[s]` is the Redis key: its holder and remaining life. `Orphan` stands
  for a token whose task is gone. `Acquire` is `SET NX EX`, `AcquireUnanswered`
  the same when the answer is lost, `Release` the compare-and-delete script,
  `ReleaseFails` and `Crash` leave the key, `LoseLease` is a Redis that forgets.
* `jobs` are the rows, with their age. `MaySeemStale` and `MaySeemYoung` say
  what the comparison with 300 s can yield on a replica whose clock is off by
  up to `Skew`; between the two both answers are possible.
* `elapsed[w]` is the time since the lease was taken. `Cancel` is possible
  from `CrawlTimeout` on and has happened by `CrawlTimeout + Grace`; `Grace`
  covers a busy event loop and the seconds between Redis executing `SET` and
  the timeout starting. The model's `Tick` does not let a task run longer.
* `failure_count` is cut at `MaxFailures`: the code only compares it with 3.
* The four fields a source row needs for the protocol are kept; documents and
  alerts of the last transaction are not in this module, its failure is
  (`DatabaseError`, which no clause of `_crawl` catches).
* Job identities are reused once nobody refers to a finished row (the code
  draws a fresh UUID each time). A finished row has no further effect.

### DeliveryQueue

A job is identified by its `dedupe_key`. A worker that has claimed a job holds
its row lock (`cur[w]`) across the network call until the commit (`Record`) or
the loss of the transaction (`StaleTarget`, `LoseTransaction`). A connection to
the database that breaks during the call frees the row and ends nothing:
after `LoseConnection` the worker is `"unlocked"`, goes on sending what it has
loaded (`SendUnlocked`) and learns of the loss when its commit fails. Meanwhile
another worker may claim, send and settle the job, so a copy may reach the
receiver after the job was settled; `AtLeastOnce` allows that of calls begun
before and forbids to begin one. `outcome[w]` is what the open transaction will
write, `body[w]` the rendering it will store or has loaded to be mailed; nothing
of it is seen by others before `Record`. `session[w]` is what SQLAlchemy has loaded: it
writes a column only if the value changed, which matters for `delivery_status`.

* `Send` has three outcomes: received and confirmed, received and not
  confirmed (timeout, bad status), not received.
* Deleting a target leaves its jobs; the commit of a delivery to a deleted
  target fails because its `UPDATE` matches no row (`StaleDataError`).
* `dispatch` reads the subscriptions and inserts the jobs in two transactions.
  A subscription removed in between is the same as one removed right after.
* `copies`, `mailed`, `rolledBack` and `failedSince` are history: they record
  what happened outside the tables and guard nothing except the model's bound
  on lost transactions.

### LlmWorker

Two sequential programs meet: the thread (`thread[r]`: the loop over the
chunks, `push`, the `finally`) and the event loop (`stream[r]`: the
generator `stream()`). The lock is taken by the handler and released by the
thread; nothing hands it over but the order of the steps.

* `todo[r]` are the items the thread has still to push. `Submit` schedules
  `queue.put`; the coroutine is in `puts[r]` until the loop has completed it
  (`Put`). `Wait` is the loop around `future.result(timeout=0.2)`: it goes on
  when the coroutine is done or the stream has stopped.
* A cancelled response raises inside `stream()` only if that awaits the queue.
  If it is suspended at a `yield` it is `abandoned`, and its `finally`, which
  sets `stopped`, runs when the generator is collected (`Collect`); the thread
  goes on in the meantime.
* `NeverStarts` is a stream whose first iteration does not start a thread; the
  lock is then never released. The run has one (`MaxUnstarted`), and
  `LockComesBack` excepts exactly that case.
* Texts are the numbers of their chunks.

### SourceScheduler

`proc[r]` says where `_loop` of replica `r` stands; a cycle that has committed
its claims holds them in order and calls `crawl()` for one after the other.
`Select` and `CommitClaims` are the transaction with `SKIP LOCKED`; rows a
request has locked are in `held`. A crash loses the claims of its replica, and a
commit whose answer is lost (`CommitUnanswered`) those it made; `SlotsAccounted`
counts what is left through `owed`. The query also asks that the tenant is
active, which no code of the repository changes: `enabled` of a row stands for
both conditions. `ready[r]` is `Database.ready`, set by `connect()`, by a cycle
and by the probe `GET /health/ready`. Clocks of replicas differ by `Skew`.

### CrawlPipeline, PageText, PublicHttp, IntelligenceGraph

The HTML reader is a recursive function over the parser's events with the depth
of ignored elements. What a reader sees is defined apart from it: `OpenElements` is
the stack of ignored elements, where an end tag closes the one it names or nothing,
and `OnlyVisible` compares the two up to the first end tag that stands in an ignored
element of another name (`Misplaced`): behind it the code's one depth for all
four elements is wrong (see the observations). Entities are what the patterns find, folded for identity but sorted
by spelling, which decides the order of the row locks. `tx[c]` holds the open
transaction of a crawl: the statements still to run, the rows it wrote, whom it
waits for. `Step(c)` runs one statement: it sees committed rows and its own,
waits for an uncommitted insert of the same key, and then updates, inserts or
fails by unique violation; a cycle of waits rolls one transaction back. No
error of this kind is caught: the job stays `running`. Source URLs and monitors
are edited between any two steps. `IntelligenceGraph` reads any subset of the
observations and all events but one, for the limits of 300 and 100.

Two live crawls never share a source here: `SourceCrawl` shows it.

### AlertIngest and Detection

A handler is a record with its stage; the inserts of a transaction are one step,
as a second insert of a key waits for the first transaction. `Die` ends a
handler anywhere: what it had committed stays, what it had to dispatch is lost.
`Anomalies(S)` are the possible results of `analyze()` over the events `S`:
values are integers and medians are kept doubled, so the comparison with 3.5
deviations is exact. A sorted sequence is chosen, not computed (`ById`, `Nth`),
and the scan is a function of the moment it has come to (`Scanned`), so that
both can be reasoned about. What is anomalous depends on what else the tenant has
stored, and that grows while a handler is under way: `since[r]` keeps what its
tenant's telemetry has been at each moment since `r` committed its batch, and
`ReplayRepairs` asks for the alerts of one of those states whole. A handler that
analysed its batch alone would answer without the alert of an event another
request stored (`OnlyBatch`). Telemetry is assumed to stay below the 10,000
events and 30 days `snapshot()` reads: older events are not analysed, and what
`ReplayRepairs` says is not said of them. `Mixes` is a bound: the kinds of
handlers that meet in one behaviour.

### Accounts

A request runs one handler at a time. `adm[x]`, `att[x]` and `ses[x]` are what
it holds in the tenant's transaction, the sign-in budget and the session's
transaction. A role change waits for the tenant's row; `rotate` for the row of
its record; an `UPDATE` of a family sees the rows there were when it began and
waits for locked ones, so a record inserted meanwhile escapes it (`missed`).

### CopilotMemory, CopilotTurn, AiSettings, Notifications

`CopilotMemory` represents what is stored by the number of deletions its writer
knew of. Chats, deletions and preferences run under the lease; muting a
notification and direct tool calls do not. `Slack` is the time a handler needs
outside `asyncio.timeout(300)`; the lease of 330 s leaves 30 s for it, and the
module assumes that is enough.

`CopilotTurn` is `run()`: a tool chosen from the question, up to three rounds,
text counted in parts. `Fail` is any failure inside the timeout.

`AiSettings` has a handler that saves, one that tests, chats and requests that
do not look at the settings; each read and write is a step. There is one record
for both providers, and an older version may have written it under its own names
(`ollama`, `openai`): `Primary` and `External` are what `configurations()` makes of
it, `Permitted` the check of `stream()`. `NoCloudFallback` is about the provider
that comes out of this, for every record and after every save, and about what must
be enabled for it; `EnabledInForce` says the latter from the record as it is stored,
apart from the operators it judges.

`Notifications` keeps the notes in the order of `updated_at`, because a poll
decides from the latest 100 (`Listed`): `blind` records that a note of the last
hour was not among them.

## 3. Runs

| Run | Question | Bounds, and why they are enough |
|---|---|---|
| `crawl` | is a source crawled by one task, is its lease kept, does its health agree with its failures, does every crawl end and every lease become free? | 2 tasks, 1 source (sources do not interact), 2 rows, one lease lost; durations 1 < 2 are the smallest that keep the inequalities. Late cancellation and clock skew (`Grace`, `Skew`) are 0 here; the theorems hold for all of them |
| `scheduler` | is a slot claimed once, accounted for, claimed at all; does readiness come back? | 2 replicas whose clocks differ by a tick, 2 sources, times 0 and 1, one fault of any kind, a commit that is not answered among them |
| `pipeline` | is a crawl's result whole, matched, from its URL, visible text; does the graph show what is stored; does every transaction end? | 2 crawls, 2 sources, 4 edits; five spellings of domains that differ in case, one of them longer than its column, on pages that mention them in opposite orders, hide words in nested, unclosed and wrongly closed elements, and redirect to plain HTTP and private hosts: every wait, violation and rollback two transactions can meet |
| `delivery` | does the queue implement `AtLeastOnce`, what duplicates a delivery, is a report mailed with two contents or claimed and not mailed, does every job settle? | 2 workers, 1 event, 1 subscription or (`Together`) 1 schedule due in one of 2 minutes, 2 renderings, 2 attempts, one lost transaction (before, during or after the call) per job. Jobs meet only in the workers, and the theorems hold for any number of them |
| `delivery_failures` | *(violation)* are failed webhook attempts counted? | 2 workers, 1 job |
| `ingest` | is an alert announced once, is triage kept, does a replay repair, is every tenant matched, does detection look ahead? | 2 handlers, 2 tenants, 2 events of which one is anomalous only beside the other, 1 catalogue entry, 1 item, 2 monitors; any two of the three ingestions meet in one behaviour (they share the alerts and monitors, and no two share a key); `Detection` on every set of up to 9 observations of 2 series and 4 moments, with a warm-up of 1, a horizon of 3 and 1 finding |
| `accounts` | does an administrator remain, is one record of a family usable, do closed families stay closed and end, does a lockout end? | 2 requests, 2 users, 1 family with 4 records, 1 attempt per window |
| `memory` | does what was deleted or switched off come back? | 2 handlers of every kind (deletion and its rival), timeout 2, slack 1, one deletion, one fault |
| `turn` | is an answer saved whole or not at all, are the tool limits kept, does the turn end and the lease return? | every output of up to 3 parts in 3 rounds, 4 calls (one more than there can be), timeout 2 |
| `settings` | is anyone sent to the external provider unasked, does a removed key stay removed? | 3 handlers, so that a save, another save and a use overlap; 2 keys, every deployment, records of older versions under both old names, enabled and not |
| `notifications` | do the limits hold for many tabs, does what was dismissed stay so? | 2 polls at a time, 3 in all, 2 alerts of one group and a service that fails once; the list as short as the cap |
| `llm` | is the model used by one thread at a time, is the backlog bounded, is a stream what the model made, does the lock come back and the stream end? | 2 requests, a queue of 1, 1 chunk, one stream that never starts: a completion (with `usage` and `done`) is longer than the queue |

Several properties are conjunctions of named parts that are about one promise,
each part with its own comment where it is defined: `NothingBlocks`
(`CrawlTerminates`, `LeaseFreed`), `GenerationEnds` (`LockComesBack`,
`StreamEnds`), `SchedulerRecovers` (`DueIsClaimed`, `ReadyRecovers`),
`IngestionsComplete` (`ReplayRepairs`, `EveryTenantMatched`, `KevSerialised`),
`FindingsSound` (`NoHindsight`, `FindingsExceed`), `AnswerFaithful`
(`PartialNotSaved`, `ShownIsText`), `LimitsHold` (`HourlyCap`,
`CooldownAcrossPolls`), `SessionsSafe` (`OneUsable`, `ClosedStays`,
`FamilyEnds`), `Traceable` (`DuplicatesCounted`, `FromItsUrl`, `OnlyVisible`)
and `KeysInPlace` (`RemovedStaysRemoved`, `TestHasKey`).

`TypeOK` of a module is a theorem, of its own (`SourceCrawl`, `DeliveryQueue`) or
as a conjunct of an invariant the run checks. It carries facts a type invariant
usually does not: the loop variable of the fetch loop stays below 3, `attempts`
never exceeds the limit, and a queue holds no more than its size.

Deadlock is checked in the crawl and scheduler runs. The others switch it off:
when every request is answered the system rests.

### Fairness

* Crawl: time passes, the cancellation is delivered, and the `finally` clause
  runs. The event loop does this; nothing is assumed of the network, of users,
  or of PostgreSQL (`CrawlTerminates` holds although a fetch may never return).
* Pipeline: every crawl takes its next statement when it can. A transaction
  that waits is not fair by itself: that it can go on is what `EveryCrawlEnds`
  says, with PostgreSQL's detection of deadlocks.
* Scheduler: a replica is started again, its loop goes on, requests release
  their row locks, an outage ends, time passes.
* Delivery: a worker that started a step finishes it (timeouts of 5 and 15 s
  end the network calls), backoffs end, and a due job is not passed over for
  ever (`ORDER BY next_attempt_at` and `SKIP LOCKED`), which is strong fairness of
  claiming each job. How often transactions are lost is bounded by
  `MaxRollbacks` per job: with a database that always fails nothing settles.
* Turn: the handler's own steps, time, and the timeout. The provider, the
  tools and the client owe nothing.
* Worker: the thread and the event loop run, an accepted response is iterated,
  a suspended generator nobody refers to is collected, and a client reads on or
  leaves (the gateway's `asyncio.timeout`, `copilot_gateway.py:196`, makes it).
  `Get` is strongly fair: `queue.get()` returns at once if there is an item, so
  the 10 s time-out cannot win for ever. Of the model it is assumed
  that it computes every chunk in finite time, and `max_tokens` at most.

### Disagreement found

* `docs/SECURITY.md:11`: "failures are counted for operator review". No code
  increments `failure_count` of a subscription; a failed attempt only writes
  the job row (run `delivery_failures`).

### Observations

Met while modelling, written down by no run of their own; the modules contain
the behaviour.

* Crawl: `enabled` is read before the DNS answer is awaited, so a source
  disabled in between is crawled once more (`source_management.py:247`;
  `docs/FINAL_GAP_ANALYSIS.md:67` says disabled sources cannot crawl). A unique
  violation, a value longer than its column, a rollback by deadlock and the
  cancellation at 240 s leave the job `running` and health and failure count
  untouched. `last_seen` is the time the crawl began and can move back, even
  before `first_seen`.
* Reader: the four ignored elements share one depth (`source_management.py:44`,
  `:54`), so any of their end tags closes any of them:
  `<template></style>word</template>` gives `word` to the text and `</template>`
  nothing to close. Neither a doc nor a test says what should happen.
* Scheduler: `scheduler.py:1` calls it restart-safe; the slots a crashed
  replica had claimed, or a commit whose answer was lost, are lost until the next
  period. A probe that times out
  sets `database.ready` to `False` for the whole process until a cycle.
* Detection: only the newest 200 findings become alerts, and a replay does not
  repair older ones.
* Sessions: two tabs that refresh with the same cookie at once can trip the
  detection of reuse and revoke the family (`apps/web/lib/api.ts` refreshes
  once per tab, `browser_sessions.py:55`).
* Memory: muting takes no lease (`docs/COPILOT.md:3` and `:31` do not except
  it) and can put back preferences that changed meanwhile.
* Settings: a save without a key can put back a key that was removed at the
  same time. Saving settings of the local model hides the environment's key
  from the external test, which then calls without one though `has_key` is
  shown (`copilot_gateway.py:97`, `copilot.py:108`). `AIRouter.complete` looks
  only at the environment: external AI that an administrator disabled in the
  settings still answers `/ai/chat` and automations. The record is one for both
  providers: saving settings of the local model forgets that an administrator
  disabled the external one, and the deployment's switch applies again
  (`copilot_gateway.py:85-88`, `:103`); and settings that enable it let the test
  call it where the deployment does not (`copilot.py:104`), which `stream()` would
  not (`copilot_gateway.py:187`). The slot `offline` is
  written and never read.
* Copilot: the messages are trimmed to the context window from the oldest on
  (`copilot_gateway.py:147`), and after a tool result the oldest may be the
  question itself, with the evidence a repeated call is refused for as
  "already supplied" (`copilot.py:287`).
* Notifications: a source's cooldown is not applied within one poll
  (`docs/ARCHITECTURE.md:13`).
* Search: the reindexing (`platform.py:210`, called idempotent at
  `routes.py:365`) writes what it read first, over whatever `create_ioc`
  indexed meanwhile, and without its evidence. Two `create_ioc` at once can
  lose the earlier `first_seen`.

## 4. Proofs

Every theorem is about all values of the constants that satisfy the named
assumptions of its module; the assumptions are evaluated by the runs. What a
theorem names as its property is what a run checks on a small instance. Of most
properties the proof is the same: an inductive invariant, the initial states,
one lemma per action, and the step from the invariant to the property. What
follows says what the invariants add, and why it is needed.

### SourceCrawlProofs

For every number of sources, tasks and rows and all durations with

    LeaseAssumption   CrawlTimeout + Grace < LeaseTTL
    ReaperAssumption  CrawlTimeout + Grace + Skew < JobLease

`TypeOK`, `MutualExclusion`, `LiveJobNotReaped`, `HealthMatchesFailures` and
`OverlapBoundedByLosses` always hold and every step satisfies
`LeaseKeptWhileCrawling`. `IInv` adds

* `LeaseInv`: a task in its body holds its lease unless it was forgotten, and
  `ttl + elapsed = LeaseTTL`. With `elapsed <= Deadline < LeaseTTL` the key
  cannot expire first; mutual exclusion follows since a key has one holder.
* `JobInv`: the row of a crawl that has one is running, belongs to its source
  and is not older than the crawl; with `ReaperAssumption` no replica can see
  it as stale, whatever happened to the lease.
* `SeenInv`: a row somebody is about to reap is of its source and old (or
  already ended), so it is not the row of a living crawl, even one that began
  after the look.
* `OwnInv`, `RestInv`: rows are not shared; idle and releasing tasks refer to
  nothing.

`OverlapBoundedByLosses` counts: it bounds the crawls of a source by the leases
Redis forgot. `CrowdInv` makes each forgotten lease pay for one crawl without
the lease (`Unleased`), and the leases for the running rows together with the
crawls that may still add one (`Adders`). Every step changes the sets it counts
by one element; they are finite because they are bounded, so neither the tasks
nor the rows need be.

### PipelineProofs

For every number of crawls, sources, monitors and edits, pages of any length and
nesting, and any patterns: `WholeOrNothing`, `MatchesAlerted` and `Traceable`
always hold, every step satisfies `ProvenanceKept`, and for any index
`GraphTraceable` always holds. The assumptions are
`PageTextAssumption` and `PublicHttpAssumption` (what a pattern finds in a word
is finite, redirects lead somewhere) and `CrawlPipelineAssumption` (canonical
URLs are URLs, responses are of the type the reader takes).

* `JobOf`, `ReadOf`, `WorkOf`, `DoneOf` say of one crawl what its job shows,
  which response it has read and from which URL, which of its rows it holds up
  to the statement it is at, and what a completed one has left.
* `RowsInv`: a committed row names a completed crawl that may have written it.
* `Apart`: no row is held by two crawls. This is what waiting for a unique key
  buys, and why the updates of a transaction meet only committed rows.

`Traceable` includes `OnlyVisible`, about a recursive function of the page. The
theorem `Recursion` gives such a function its equation, and induction over the
events is done by least counterexample (`NatLessThanWellFounded`), as the
library's induction theorems cannot be instantiated here. `DepthIsOpen` is the
invariant: the depth after `i` events is the length of the stack of open elements,
unless an end tag was misplaced before; so the text holds only words outside of
them (`PageShowsText`).

`GraphTraceable` needs `NamedInv` in addition: an alert is stored, or held, only
together with the event it names, or after it. The event then is of a completed
crawl (`RowsInv`), which left the observation of its first entity (`DoneOf`).

### SchedulerProofs

For any number of replicas, sources and policies, any clocks within `MaxSkew`
(`SchedulerAssumption`): `SlotsAccounted`, and the action property `SlotsApart`.
`Counted` carries the finiteness of the set of replicas that hold a slot, so
that its size is a number. `RowsApart` and `LockedDue` are `SKIP LOCKED`: a row
is locked by one replica, and what was due when it was locked is due at the
commit, whether that is answered or not (`CommittedInv`). `NextAfterLast` relates `next_scheduled_at` to the last claim, which is
what `SlotsApart` needs of the state.

### DeliveryProofs

For every set of workers, events, subscriptions, schedules and renderings and
every `MaxAttempts`, `TypeOK`, `DuplicatesAccounted`, `OneArtifactPerReport` and
`DeliveredMeansMailed` always hold and `Spec => ImplementsAtLeastOnce`. The only
assumption is `QueueAssumption`: keys are what they are, and the limits are
numbers. `FailuresCounted` is violated and of course not among them. `Inv` adds

* `LockInv`: a busy worker has locked exactly one row, no other worker has it
  locked, and the job in it is open. This is what `FOR UPDATE SKIP LOCKED` buys;
  the mutant `ClaimUnlocked` breaks it. Nothing of the kind holds of a worker
  that sends without its lock: its job may be settled.
* `AttemptInv`: an open job has an attempt left.
* `CopiesInv`: what the receiver has, with the copies that workers without a
  lock (`Late`) may still bring, is ahead of the counted attempts and lost
  transactions by at most one, and only while a worker is at the commit.
  `DuplicatesAccounted` alone is not inductive: it also allows the extra copy
  to a worker that only stores an artifact, whose commit counts no attempt.
* `SentInv`: what is about to be recorded as delivered has been received;
  `DeliveredMeansMailed` and the guard of the abstract `Settle` follow from it.
* `ArtifactInv`: whoever renders found no artifact, whoever mails, with its lock
  or without, has loaded the one the row still holds, and that is what was mailed.

The steps that are not of a worker with a row are treated together: they are
`Quiet`, which keeps all of `Safe` (`QuietSafe`) and maps to an `Accept` of the
abstract queue, of no key if nothing was queued (`QuietRefines`). A claim that goes on
to call maps to `Begin`; the end of a call, or the death of its worker, to `End`
(`EndRefines`); a commit that settles to `Settle`; the loss of a lock to a stutter.

### IngestProofs

For any number of handlers, tenants, events, entries, items and monitors:
`AnnouncedOnce`, `TriageSurvives`, `IngestionsComplete` and `FindingsSound`. `StageOf`,
`AnsweredOf` and `SeenOf` say what a handler has read, stored and found at each
stage; `OneKev` that one ingestion of the catalogue is in its transaction (the
lock of `KevSerialised`); `Once` that an alert is announced, abandoned by a dead
handler or in exactly one handler's queue. `IngestAssumption` says that the
keys of the three kinds of alerts differ, which their prefixes see to
(`advanced.py:71`, `operations.py:217`, `platform.py:187`): without it one
alert could wait in two queues. `SinceInv` ties a handler to the past: what it is
going to read is among the states of the store since its batch, and so is what it
has read, however much others store before it answers; with `AnsweredOf` that is
`ReplayRepairs`.

`AlertsLive`: `AlertIngest` implements `AlertLife`, where alerts wait in one set and
nobody races. What waits there is the union of the handlers' queues; an alert
announced or abandoned leaves it because, by `Once`, it was in no other queue
(`OneQueue`), and a commit adds to it exactly the alerts it made (`StoreCreates`).
The analysts' decisions are part of `AlertLife`, so that a handler which reopens
an alert implements none of its actions. No run has this property: with the
batches of `ingest` it would take twice the time. With the exposure items left out
(`Items = {}`) TLC confirms it on 538588 states, and the mutants `WrittenAnew` and
`CreatedOrNot` violate it.

`FindingsSound` is about `analyze()` and holds of any set of observations
(`DetectionAssumption`), so of whatever is stored. `AllNat` is induction over the
moments, again by least counterexample. `ScannedSteps` gives the scan its
equation and `ByIdSorts` shows that the events of a moment can be put in order.
By `SameHistory` the scan has, at a moment, what the earlier events determine:
that is `NoHindsight`. `HistoryIs` says that the history is the values of exactly
these events, each once, in the order of time and identifier, so that `Latest`
are those with fewer than `Horizon` after them; `NthIsThere` that a median exists
and half of the samples do not exceed it; `FlaggedExceeds` that a flagged value
lies above the lower of the two values the median is made of. The proof needs of
the thresholds only that a finding is at least 3.5 above the median.

### AccountsProofs

For every set of requests, users and families, the infinite ones included, and
every threshold, window, lifetime and number of records (`AccountsAssumption`:
they are numbers, the first three positive).

* `AdministrationAlone`: `Accounts` implements `TenantAdmin`, step by step;
  sessions and the budget are stuttering. `AdministratorRemains` then needs
  only `TenantAdmin`'s actions. `AdminRemains` is not inductive: a demotion
  counts the administrators in one step and takes the role away in a later one.
  `CheckedSafe` says that a request about to do so leaves another
  administrator; it stays true because no other request can demote in between
  (`OneLock`), and `FoundTenant` keeps registrations away from it.
* `LockoutIsBounded`: the age of a counter and the life it has left are one
  window (`AgeInv`).
* `SessionsAreSafe`, from `SessionInv`: the records of a family live as long as
  the family (`SameSpan`); at most one is not revoked and an open family has one
  (`Single`, `OpenHasOne`); the record being replaced is locked and not revoked
  (`LockedUnrevoked`, `LocksApart`); a closed family has none, unless the
  closing missed one (`ClosedRevoked`).

### CopilotProofs

Of the memory (any number of handlers, deletions and faults; a timeout `T` and
any `Slack`, `MemoryAssumption`): `DeletedStaysDeleted` and
`DisabledMemoryRetainsNothing`. `LeaseInv` is the argument of the crawl again:
whoever may still write owns the lease, and the lease outlives what is left of
the timeout and the slack. `BornInv` follows: no deletion was answered since
such a handler began. `ErasedInv` keeps what a deletion has erased so far,
`OptedOutInv` the user's last word against what handlers have read.

Of an answer (`TurnAssumption`): `AnswerFaithful` and `ToolBudget`, from `SentInv`
(nothing is sent before a round is known to be text, then exactly its text) and
`CallsInv` (calls are counted by rounds and are all different).

Of the settings (`SettingsAssumption`: the environment's key is none an
administrator entered): `NoCloudFallback` and `KeysInPlace`. Each of `AimOf`,
`HeldOf` and `TestOf` says what a handler holds between two reads, relative to a
row that others write in the meantime; a write of the row marks every handler
under way as `late`, which both properties except where they speak of the settings
in force. That a chat stays local rests on every stored name being one that
`Canonical` maps to a provider (`SettingsTypeOK`), and that a test is enabled on the
configuration and the record still saying the same while nothing is saved
(`TestOf`).

Of the notifications (`NotificationsAssumption`): `LimitsHold` and the action property
`DismissedStays`. `HourKnown`: there is nothing in the last hour but what the
deciding poll saw or made itself, and not more than it counts; `OneLock` keeps
it so, since other polls write nothing and the user's actions change no group,
no time and no id. Rows are counted by their ids (`Hourly`), because an action
replaces a row by another version. A cooldown must not exceed the hour for which
`blind` is kept: it is ten minutes.

The four share no variable; they are extended by one module, and so `TurnSpec`,
`SettingsSpec` and `NoticesSpec` have names of their own.

### LlmProofs

For every number of requests, queue size and length of a completion
(`WorkerAssumption`): `SerializedInference`, `BoundedBacklog` and
`StreamFaithful`. `LockInv`: an accepted request has the lock until its thread
has left the model, and there is no thread before the stream began.
`BacklogInv`: a coroutine is outstanding only while the thread waits for it.
`FlowInv`: while the client listens, what it got, what was just yielded, the
queue and what the thread has not sent yet are together what the model made;
a stopped stream has ended and an abandoned one has no client.

`AsOneModel`: the worker implements `OneModel`, which has neither threads nor
queues: a request is served once, items are made for it until one ends the
answer, and only then is the model free. `serving` is the lock, `made` and `got`
are the histories. `EndInv` is what the lock's release needs: a thread leaves its
loop with the item that ends the answer, and makes nothing after it; a request
without a thread has no item. That a client's next item is the next one made
follows from `FlowInv` after the step. As with `AlertsLive`, no run has this
property; TLC confirms it for 2 requests, `QueueSize = 2` and `MaxChunks = 2` on
3038636 states, and `EndAndRelease`, `ExhaustedSilently` and `SubmitAgain`
violate it.

### Only model-checked

* Liveness under fairness, and `ENABLED`: out of the prover's reach
  (`NothingBlocks`, `EveryCrawlEnds`, `SchedulerRecovers`, `EveryJobSettles`,
  `TurnEnds`, `GenerationEnds`).
* That `Extract` finds and caps exactly the entities of a text, and that the
  bounds of the runs' counters do not matter.

## 5. Plan

The components of section 1 are modelled as far as section 6 says, every
invariant and action property of the runs is proved, and the queue, the accounts,
the alerts and the inference worker implement abstract specifications. What is
left:

1. An abstract specification of the crawl. Redis may forget leases, so it could
   not say "one crawl at a time" but only count what was forgotten, as
   `OverlapBoundedByLosses` does.

## 6. Not modelled, and why

* Cron: a pure function of an expression and a minute; `DeliveryQueue` has the
  result as its constant `DueAt`.
* Automations and intelligence documents: rows written whole and edited by
  nobody; the question an automation asks is `Ask` of `AiSettings`.
* Marketplace, MCP and registry: upserts of one flag, stateless reads.
* Search index except the graph: single writes whose failures are logged and
  ignored, and the reindexing (see the observations).
* Behavioural forecasts (`predictions`): numbers shown and read by nothing else.
* Tools and wire formats of the copilot, the trimming to the context window.
* Titles, links, authors, byte and page counts of crawls; scores; texts of
  alerts and prompts.
* `revoked_tokens`, which only logout writes, and tokens without a session.
* Web UI, report rendering, request schemas, validation of settings, logging,
  request limits: input, output and formatting without a protocol of their own.
* Migrations, model assets, deployment and seeding scripts: run once, by hand.
