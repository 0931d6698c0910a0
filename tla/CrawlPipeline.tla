---------------------------- MODULE CrawlPipeline ----------------------------
(***************************************************************************)
(* What a crawl stores: _crawl() of services/source_management.py from the *)
(* admitted job to its last commit, with the create() and update() of      *)
(* sources.                                                                *)
(*                                                                         *)
(* SourceCrawl models who may crawl a source; here no two live crawls      *)
(* share one, and crawls of different sources of a tenant run together.    *)
(* Document, entities, observations, events and alerts are written in one  *)
(* transaction, statement by statement, on PostgreSQL's terms: a query     *)
(* sees what is committed and its own rows; the insert of a key another    *)
(* transaction has inserted waits for it; an updated row stays locked; of  *)
(* transactions that wait for each other one is rolled back.  A database   *)
(* error is none of the exceptions _crawl() catches: the job stays running *)
(* until the next crawl of the source finds it stale.                      *)
(***************************************************************************)
EXTENDS PageText, PublicHttp, Relation

CONSTANTS
    Crawls,    \* crawl jobs
    Sources,   \* of one tenant
    Canonical, \* spelling of a URL -> canonical URL, for those canonicalize() accepts
    NoUrl,     \* the source does not exist yet
    TooLong,   \* spellings longer than the column of values
    Monitors,
    Terms,     \* monitor -> the words that contain its term
    MaxEdits   \* bound: changes of sources and monitors

ASSUME CrawlPipelineAssumption ==
    /\ NoUrl \notin DOMAIN Serves
    /\ \A spelling \in DOMAIN Canonical : Canonical[spelling] \in DOMAIN Serves
    /\ \A u \in DOMAIN Serves : ResponsesAt(u) \subseteq Response
    /\ TooLong \subseteq Spellings
    /\ MaxEdits \in Nat

VARIABLES
    sources,   \* source -> its canonical URL
    enabled,   \* monitors that are enabled
    jobs,      \* crawl -> status and duplicates_found of its job
    rows,      \* the committed rows: key -> the crawl that wrote it, the URL it names
    tx,        \* crawl -> where it stands and what its transaction holds
    edits

vars == <<sources, enabled, jobs, rows, tx, edits>>

-----------------------------------------------------------------------------
(* Keys of rows, by the unique constraint that guards them *)

DocumentKey(text) == [is |-> "document", text |-> text]
EntityKey(id) == [is |-> "entity", id |-> id]
ObservationKey(id, text) == [is |-> "observation", id |-> id, text |-> text]
EventKey(s, id, text) == [is |-> "event", source |-> s, id |-> id, text |-> text]
MatchKey(s, text, m) == [is |-> "match", source |-> s, text |-> text, monitor |-> m]
AlertKey(s, text, m) == [is |-> "alert", source |-> s, text |-> text, monitor |-> m]

\* The rows that follow an entity.
EntityRows(s, id, text) == {ObservationKey(id, text), EventKey(s, id, text)}

\* The rows of a crawl of source s that read this text and these values, without alerts.
DocumentRows(s, text, values) ==
    {DocumentKey(text)} \cup
    UNION {{EntityKey(EntityId(v))} \cup EntityRows(s, EntityId(v), text) : v \in ToSet(values)}

Matches(text, m) == \E i \in 1..Len(text) : text[i] \in Terms[m]

\* The alert of a match and the event it names.
AlertRows(s, text, m) == {MatchKey(s, text, m), AlertKey(s, text, m)}

-----------------------------------------------------------------------------
Idle == [at |-> "idle", source |-> NoUrl, url |-> NoUrl, read |-> {}, text |-> <<>>, values |-> <<>>,
         next |-> 1, found |-> FALSE, new |-> {}, locks |-> {}, steady |-> {}]

InTransaction == {"look", "document", "entity", "insert", "commit"}
Stages == {"idle", "fetch", "ended"} \cup InTransaction
Live(c) == tx[c].at \notin {"idle", "ended"}

Init ==
    /\ sources = [s \in Sources |-> NoUrl]
    /\ enabled = {}
    /\ jobs = [c \in Crawls |-> [status |-> "none", duplicates |-> 0]]
    /\ rows = <<>>
    /\ tx = [c \in Crawls |-> Idle]
    /\ edits = 0

-----------------------------------------------------------------------------
(* Sources and monitors *)

\* One address for all spellings of a URL: case of scheme and host, default port, fragment.
Canonicalize(spelling) == Canonical[spelling]

\* create() and update(): the canonical URL is free, and no crawl locks the row.
Save(s, spelling) ==
    /\ edits < MaxEdits
    /\ \A r \in Sources \ {s} : sources[r] # Canonicalize(spelling)
    /\ \A c \in Crawls : tx[c].at \in InTransaction => tx[c].source # s
    /\ sources' = [sources EXCEPT ![s] = Canonicalize(spelling)]
    /\ edits' = edits + 1
    /\ UNCHANGED <<enabled, jobs, rows, tx>>

\* A monitor is created or deleted, or switched in the database; steady: enabled ever since the crawl began.
SetMonitor(m) ==
    /\ edits < MaxEdits
    /\ enabled' = IF m \in enabled THEN enabled \ {m} ELSE enabled \cup {m}
    /\ tx' = [c \in Crawls |-> [tx[c] EXCEPT !.steady = @ \ {m}]]
    /\ edits' = edits + 1
    /\ UNCHANGED <<sources, jobs, rows>>

-----------------------------------------------------------------------------
(* Up to the transaction *)

\* The job that a crawl of this source left running is failed once it is stale.
Reaped(s) ==
    [c \in Crawls |-> IF jobs[c].status = "running" /\ tx[c].source = s
                      THEN [jobs[c] EXCEPT !.status = "failed"] ELSE jobs[c]]

Start(c, s) ==
    /\ tx[c].at = "idle" /\ sources[s] # NoUrl
    /\ \A d \in Crawls : Live(d) => tx[d].source # s
    /\ jobs' = [Reaped(s) EXCEPT ![c].status = "running"]
    /\ tx' = [tx EXCEPT ![c] = [Idle EXCEPT !.at = "fetch", !.source = s, !.url = sources[s],
                                            !.steady = enabled]]
    /\ UNCHANGED <<sources, enabled, rows, edits>>

\* What the crawl makes of the responses it can use.
Reading ==
    [r \in {q \in UNION {ResponsesAt(u) : u \in DOMAIN Serves} : Usable(q)} |->
        [text |-> Text(r), values |-> Extract(Text(r))]]

\* A response with a usable text: the transaction begins and locks job and source.
Fetch(c) ==
    /\ tx[c].at = "fetch"
    /\ \E r \in Answers[tx[c].url] \cap DOMAIN Reading :
          tx' = [tx EXCEPT ![c].at = "look", ![c].read = {r}, ![c].text = Reading[r].text,
                           ![c].values = Reading[r].values]
    /\ UNCHANGED <<sources, enabled, jobs, rows, edits>>

\* No response, or none that can be used: caught, and the job is failed.
FetchFails(c) ==
    /\ tx[c].at = "fetch"
    /\ jobs' = [jobs EXCEPT ![c].status = "failed"]
    /\ tx' = [tx EXCEPT ![c].at = "ended"]
    /\ UNCHANGED <<sources, enabled, rows, edits>>

-----------------------------------------------------------------------------
(* The transaction *)

NextId(c) == EntityId(tx[c].values[tx[c].next])

\* The key the next statement of a crawl has to lock or insert, if it can make it wait.
Wanted(c) ==
    CASE tx[c].at = "document" -> {DocumentKey(tx[c].text)}
      [] tx[c].at = "insert" -> {EntityKey(NextId(c))}
      [] tx[c].at = "entity" /\ tx[c].next <= Len(tx[c].values) ->
            {EntityKey(NextId(c))} \cap DOMAIN rows
      [] OTHER -> {}

\* The crawls whose transactions hold it.
Holders(c) ==
    {d \in Crawls \ {c} : Wanted(c) \cap (tx[d].new \cup tx[d].locks) # {}}

LookForDocument(c) ==
    /\ tx[c].at = "look"
    /\ tx' = [tx EXCEPT ![c].at = "document",
                        ![c].found = DocumentKey(tx[c].text) \in DOMAIN rows]
    /\ UNCHANGED <<sources, enabled, jobs, rows, edits>>

\* The row found gets its last_seen, or a new row is inserted.
WriteDocument(c) ==
    /\ tx[c].at = "document" /\ Holders(c) = {}
    /\ tx[c].found \/ DocumentKey(tx[c].text) \notin DOMAIN rows
    /\ tx' = [tx EXCEPT ![c].at = "entity",
                        ![c].locks = IF tx[c].found THEN Wanted(c) ELSE {},
                        ![c].new = IF tx[c].found THEN {} ELSE Wanted(c)]
    /\ UNCHANGED <<sources, enabled, jobs, rows, edits>>

\* Mutant: an entity that is known gets no observation and no event.
NotedOnce(c) == IF tx[c].at = "insert" THEN {EntityKey(NextId(c))} \cup
                    EntityRows(tx[c].source, NextId(c), tx[c].text) ELSE {}

\* The rows an entity leaves: those of its observation, its event and, if it is new, its own.
Noted(c) ==
    (IF tx[c].at = "insert" THEN {EntityKey(NextId(c))} ELSE {}) \cup
    (EntityRows(tx[c].source, NextId(c), tx[c].text) \ DOMAIN rows)

\* The entity is committed, and gets locked, or is one of this transaction's rows.
KnownEntity(c) ==
    /\ tx[c].at = "entity" /\ tx[c].next <= Len(tx[c].values) /\ Holders(c) = {}
    /\ EntityKey(NextId(c)) \in DOMAIN rows \cup tx[c].new
    /\ tx' = [tx EXCEPT ![c].next = @ + 1, ![c].locks = @ \cup Wanted(c),
                        ![c].new = @ \cup Noted(c)]
    /\ UNCHANGED <<sources, enabled, jobs, rows, edits>>

\* The query found no row; the insert follows.
UnknownEntity(c) ==
    /\ tx[c].at = "entity" /\ tx[c].next <= Len(tx[c].values)
    /\ EntityKey(NextId(c)) \notin DOMAIN rows \cup tx[c].new
    /\ tx' = [tx EXCEPT ![c].at = "insert"]
    /\ UNCHANGED <<sources, enabled, jobs, rows, edits>>

InsertEntity(c) ==
    /\ tx[c].at = "insert" /\ Holders(c) = {}
    /\ EntityKey(NextId(c)) \notin DOMAIN rows
    /\ tx[c].values[tx[c].next].value \notin TooLong
    /\ tx' = [tx EXCEPT ![c].at = "entity", ![c].next = @ + 1, ![c].new = @ \cup Noted(c)]
    /\ UNCHANGED <<sources, enabled, jobs, rows, edits>>

\* Mutant: a document that was there before raises no alerts.
AlertedOfNew(c) ==
    IF tx[c].found THEN {}
    ELSE UNION {AlertRows(tx[c].source, tx[c].text, m) : m \in {n \in enabled : Matches(tx[c].text, n)}}

\* Events and alerts of the enabled monitors whose term the text contains.
Alerted(c) ==
    UNION {AlertRows(tx[c].source, tx[c].text, m) : m \in {n \in enabled : Matches(tx[c].text, n)}}

MatchMonitors(c) ==
    /\ tx[c].at = "entity" /\ tx[c].next > Len(tx[c].values)
    /\ tx' = [tx EXCEPT ![c].at = "commit", ![c].new = @ \cup (Alerted(c) \ DOMAIN rows)]
    /\ UNCHANGED <<sources, enabled, jobs, rows, edits>>

\* The URL of the source as the crawl loaded it.
CrawledUrl(c) == tx[c].url

\* Mutant: an existing document is made the crawl's own.
WithRowsTakenOver(c) ==
    [k \in DOMAIN rows \cup tx[c].new |->
        IF k \in tx[c].new \cup {DocumentKey(tx[c].text)}
        THEN [by |-> c, url |-> CrawledUrl(c)] ELSE rows[k]]

WithRows(c) ==
    [k \in DOMAIN rows \cup tx[c].new |->
        IF k \in tx[c].new THEN [by |-> c, url |-> CrawledUrl(c)] ELSE rows[k]]

\* Mutant: only a document of the same source counts as a duplicate.
OwnDuplicates(c) ==
    IF tx[c].found /\ jobs[rows[DocumentKey(tx[c].text)].by].status = "completed"
                   /\ tx[rows[DocumentKey(tx[c].text)].by].source = tx[c].source THEN 1 ELSE 0

Duplicates(c) == IF tx[c].found THEN 1 ELSE 0

Commit(c) ==
    /\ tx[c].at = "commit"
    /\ rows' = WithRows(c)
    /\ jobs' = [jobs EXCEPT ![c] = [status |-> "completed", duplicates |-> Duplicates(c)]]
    /\ tx' = [tx EXCEPT ![c].at = "ended", ![c].new = {}, ![c].locks = {}]
    /\ UNCHANGED <<sources, enabled, edits>>

-----------------------------------------------------------------------------
(* Failures no handler of _crawl() catches: the job stays running *)

\* Mutant: the session is not closed.
LeftOpen(c) == [tx EXCEPT ![c].at = "ended"]

RolledBack(c) == [tx EXCEPT ![c].at = "ended", ![c].new = {}, ![c].locks = {}]

\* The insert meets a row committed since the query, or a value that is too long.
DatabaseError(c) ==
    /\ \/ /\ tx[c].at = "document" /\ ~tx[c].found
          /\ DocumentKey(tx[c].text) \in DOMAIN rows
       \/ /\ tx[c].at = "insert"
          /\ \/ EntityKey(NextId(c)) \in DOMAIN rows
             \/ tx[c].values[tx[c].next].value \in TooLong
    /\ tx' = RolledBack(c)
    /\ UNCHANGED <<sources, enabled, jobs, rows, edits>>

\* By way of others, the crawl waits for itself.
WaitsForItself(c) ==
    TransitiveClosure([a, b \in Crawls |-> b \in Holders(a)], Crawls)[c, c]

\* PostgreSQL rolls back one of the transactions that wait for each other.
Victim(c) ==
    /\ Holders(c) # {} /\ WaitsForItself(c)
    /\ tx' = RolledBack(c)
    /\ UNCHANGED <<sources, enabled, jobs, rows, edits>>

\* A crash, or the cancellation by asyncio.timeout(240), which _crawl() does not catch.
Interrupt(c) ==
    /\ Live(c)
    /\ tx' = RolledBack(c)
    /\ UNCHANGED <<sources, enabled, jobs, rows, edits>>

-----------------------------------------------------------------------------
Step(c) ==
    \/ Fetch(c) \/ FetchFails(c) \/ LookForDocument(c) \/ WriteDocument(c)
    \/ KnownEntity(c) \/ UnknownEntity(c) \/ InsertEntity(c)
    \/ MatchMonitors(c) \/ Commit(c) \/ DatabaseError(c) \/ Victim(c)

Next ==
    \/ \E s \in Sources, spelling \in DOMAIN Canonical : Save(s, spelling)
    \/ \E m \in Monitors : SetMonitor(m)
    \/ \E c \in Crawls, s \in Sources : Start(c, s)
    \/ \E c \in Crawls : Step(c) \/ Interrupt(c)

\* The event loop runs every task, and PostgreSQL looks for deadlocks.
Spec == Init /\ [][Next]_vars /\ \A c \in Crawls : WF_tx(Step(c))

-----------------------------------------------------------------------------
Completed == {c \in Crawls : jobs[c].status = "completed"}

\* Every variable has its type, no ended crawl holds rows or locks, and no key is inserted
\* by two transactions.
TypeOK ==
    /\ sources \in [Sources -> DOMAIN Serves \cup {NoUrl}]
    /\ enabled \subseteq Monitors
    /\ jobs \in [Crawls -> [status : {"none", "running", "completed", "failed"}, duplicates : 0..1]]
    /\ \A k \in DOMAIN rows : rows[k] \in [by : Crawls, url : DOMAIN Serves]
    /\ edits \in 0..MaxEdits
    /\ \A c \in Crawls :
          /\ tx[c].at \in Stages /\ tx[c].source \in Sources \cup {NoUrl}
          /\ tx[c].next \in 1..(Len(tx[c].values) + 1)
          /\ tx[c].at \notin InTransaction => tx[c].new = {} /\ tx[c].locks = {}
          /\ \A d \in Crawls \ {c} : tx[c].new \cap tx[d].new = {}

\* A crawl stores all it found or nothing: every committed row was written by a completed
\* job whose text it belongs to, and a completed job has its document, entities,
\* observations and events, whoever wrote them first and whoever failed meanwhile.
WholeOrNothing ==
    /\ \A k \in DOMAIN rows :
          /\ rows[k].by \in Completed
          /\ LET c == rows[k].by
             IN  \/ k \in DocumentRows(tx[c].source, tx[c].text, tx[c].values)
                 \/ \E m \in Monitors : k \in AlertRows(tx[c].source, tx[c].text, m)
    /\ \A c \in Completed : DocumentRows(tx[c].source, tx[c].text, tx[c].values) \subseteq DOMAIN rows

\* A completed crawl leaves no match without alert: of every monitor that was enabled all
\* the while and whose term the text contains there is an alert and the event it names,
\* whether the document was new or known.
MatchesAlerted ==
    \A c \in Completed : \A m \in tx[c].steady :
        Matches(tx[c].text, m) => AlertRows(tx[c].source, tx[c].text, m) \subseteq DOMAIN rows

\* Deduplication preserves the provenance of what was stored first, as
\* docs/FINAL_GAP_ANALYSIS.md:74 says: no crawl takes over a row of another.
ProvenanceKept == [][\A k \in DOMAIN rows : k \in DOMAIN rows' /\ rows'[k] = rows[k]]_rows

\* ... and records duplicates: a completed job counts one exactly if the document is
\* another crawl's, so documents are counted once.
DuplicatesCounted ==
    \A c \in Completed : jobs[c].duplicates = 1 <=> rows[DocumentKey(tx[c].text)].by # c

\* A row names the URL its text came from, by a chain of permitted redirects, though the
\* source may have got another URL since.
FromItsUrl ==
    \A k \in DOMAIN rows : tx[rows[k].by].read \subseteq Reached[rows[k].url]

\* Only what a reader of the response sees is stored: no script, style, noscript or
\* template gives a word, however they are nested or left unclosed, up to the first end
\* tag inside one of them that names another.
OnlyVisible ==
    \A c \in Crawls : \A r \in tx[c].read :
        tx[c].at = "look" => ToSet(tx[c].text) \subseteq Visible(r) \cup Disputed(r)

\* Every crawl ends, though crawls wait for each other's rows.
EveryCrawlEnds == \A c \in Crawls : Live(c) ~> ~Live(c)

\* What is stored can be traced: to the crawl that stored it first, to the URL the text
\* came from, and to what a reader finds there.
Traceable == TypeOK /\ DuplicatesCounted /\ FromItsUrl /\ OnlyVisible
=============================================================================
