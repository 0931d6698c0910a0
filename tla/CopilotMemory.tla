---------------------------- MODULE CopilotMemory ----------------------------
(***************************************************************************)
(* What the copilot remembers of one user, and the lease that is to keep   *)
(* deletion and an answer being written apart: memory_mutation() of        *)
(* services/copilot_store.py and the handlers of api/v1/copilot.py and of  *)
(* POST /ai/chat (api/v1/routes.py) around it.                             *)
(*                                                                         *)
(* The lease is a Redis key with a time to live.  Chats, the older         *)
(* assistant, deletions and changes of preferences take it; muting a       *)
(* notification and calling a tool directly do not.  A stored item is      *)
(* represented by the number of deletions the user had made when the       *)
(* handler that wrote it began.                                            *)
(***************************************************************************)
EXTENDS Integers, Sequences

CONSTANTS
    Handlers,    \* requests of the user in progress
    Work,        \* kinds of requests the user makes
    T,           \* ticks an answer may take, the asyncio.timeout of 300 s
    Slack,       \* assumption: ticks spent in a handler outside that timeout
    MaxDeletions,\* bound: deletions of the memory
    MaxFaults,   \* bound: handlers that die, clients that leave, Redis data lost
    NoOne

AllWork == {"chat", "legacy", "delete", "preferences", "mute", "tool"}

ASSUME MemoryAssumption ==
    /\ Work \subseteq AllWork
    /\ T \in Nat /\ Slack \in Nat /\ MaxDeletions \in Nat /\ MaxFaults \in Nat
    /\ NoOne \notin Handlers

VARIABLES
    lease,     \* owner and remaining ticks of copilot:active
    stored,    \* kind of record -> deletions made when its writer began, or Nil
    memoryOn,  \* the preferences row: memory_enabled, TRUE without a row
    h,         \* handler -> what it holds
    epoch,     \* history: deletions acknowledged
    optedOut,  \* history: the user's last word was to switch memory off
    retained,  \* history: messages were kept although memory was off
    reverted,  \* history: a mute put back preferences that had changed meanwhile
    faults,
    redisLost  \* history: Redis lost the lease

history == <<epoch, optedOut, retained, reverted>>
vars == <<lease, stored, memoryOn, h, history, faults, redisLost>>

-----------------------------------------------------------------------------
Nil == 0 - 1
Messages == {"conversation", "incident", "legacy"}
\* Records of tool calls and of usage are one kind: nothing depends on which.
Kinds == Messages \cup {"trace"}

\* The order in which delete_memory() removes what there is.
Erased == <<"conversation", "incident", "preferences", "trace", "legacy">>

Handler == [work : AllWork \cup {"none"},
            st : {"idle", "leased", "ready", "running", "answered", "saved"},
            on : BOOLEAN, born : Nat, left : 0..(T + Slack), done : 0..Len(Erased)]
Free == [work |-> "none", st |-> "idle", on |-> FALSE, born |-> 0, left |-> 0, done |-> 0]

\* ex=330: the 300 seconds of an answer and what the handler does around them.
TTL(x) == T + Slack + 1

TypeOK ==
    /\ lease \in [owner : Handlers \cup {NoOne}, ttl : 0..(T + Slack + 1)]
    /\ stored \in [Kinds -> Nat \cup {Nil}]
    /\ memoryOn \in BOOLEAN
    /\ h \in [Handlers -> Handler]
    /\ epoch \in Nat
    /\ optedOut \in BOOLEAN /\ retained \in BOOLEAN /\ reverted \in BOOLEAN
    /\ redisLost \in BOOLEAN
    /\ faults \in 0..MaxFaults

Unleased == [owner |-> NoOne, ttl |-> 0]

Init ==
    /\ lease = Unleased
    /\ stored = [k \in Kinds |-> Nil]
    /\ memoryOn = TRUE
    /\ h = [x \in Handlers |-> Free]
    /\ epoch = 0 /\ optedOut = FALSE /\ retained = FALSE /\ reverted = FALSE
    /\ faults = 0 /\ redisLost = FALSE

\* Mutant: DEL whatever the key holds.
DeletedAnyway(x) == Unleased

\* if GET = ARGV[1] then DEL
Released(x) == IF lease.owner = x THEN Unleased ELSE lease

\* A record of kind k is written by x.
Put(x, k) ==
    /\ stored' = [stored EXCEPT ![k] = IF k \in Messages THEN h[x].born ELSE 0]
    /\ retained' = (retained \/ (optedOut /\ k \in Messages))

Ends(x) ==
    /\ h' = [h EXCEPT ![x] = Free]
    /\ lease' = Released(x)

-----------------------------------------------------------------------------
(* The lease *)

\* SET key lease NX EX 330; otherwise the answer is 409.
Acquire(x, w) ==
    /\ h[x].st = "idle" /\ lease.owner = NoOne
    /\ w \in Work \cap {"chat", "legacy", "delete", "preferences"}
    /\ w = "delete" => epoch < MaxDeletions
    /\ lease' = [owner |-> x, ttl |-> TTL(x)]
    /\ h' = [h EXCEPT ![x] = [Free EXCEPT !.work = w, !.st = "leased", !.born = epoch,
                                          !.left = Slack]]
    /\ UNCHANGED <<stored, memoryOn, history, faults, redisLost>>

\* Chats and the older assistant read the preferences once, after the lease.
Read(x) ==
    /\ h[x].work \in {"chat", "legacy"} /\ h[x].st = "leased"
    /\ h' = [h EXCEPT ![x].st = "ready", ![x].on = memoryOn]
    /\ UNCHANGED <<lease, stored, memoryOn, history, faults, redisLost>>

\* The body of run(), or the provider call of the older assistant, under its timeout.
Run(x) ==
    /\ h[x].work \in {"chat", "legacy"} /\ h[x].st = "ready"
    /\ h' = [h EXCEPT ![x].st = "running",
                      ![x].left = IF h[x].work = "chat" THEN T ELSE @ + T]
    /\ UNCHANGED <<lease, stored, memoryOn, history, faults, redisLost>>

\* invoke() notes a tool call, and an alert's evidence becomes incident context.
Gather(x, k) ==
    /\ h[x].work = "chat" /\ h[x].st = "running"
    /\ k = "trace" \/ (k = "incident" /\ h[x].on)
    /\ Put(x, k)
    /\ UNCHANGED <<lease, memoryOn, h, epoch, optedOut, reverted, faults, redisLost>>

\* Mutant: what the chat saves does not depend on memory_enabled.
SavesAnyway(x) == TRUE

Saves(x) == h[x].on

\* The answer is complete: the messages, then the usage record, are stored.
SaveAnswer(x) ==
    /\ h[x].st = "running"
    /\ IF Saves(x) THEN Put(x, IF h[x].work = "chat" THEN "conversation" ELSE "legacy")
       ELSE UNCHANGED <<stored, retained>>
    /\ h' = [h EXCEPT ![x].st = "answered"]
    /\ UNCHANGED <<lease, memoryOn, epoch, optedOut, reverted, faults, redisLost>>

\* append_conversation() for the assistant's half; the usage record of a chat.
SaveRest(x) ==
    /\ h[x].st = "answered"
    /\ IF h[x].work = "chat" THEN Put(x, "trace")
       ELSE IF Saves(x) THEN Put(x, "legacy") ELSE UNCHANGED <<stored, retained>>
    /\ h' = [h EXCEPT ![x].st = "saved"]
    /\ UNCHANGED <<lease, memoryOn, epoch, optedOut, reverted, faults, redisLost>>

\* finally, after success, a failure, the timeout or a cancellation: also of handlers
\* that raise before run() is returned.
Finish(x) ==
    /\ h[x].work \in {"chat", "legacy"} /\ h[x].st # "idle"
    /\ Ends(x)
    /\ UNCHANGED <<stored, memoryOn, history, faults, redisLost>>

\* One of the transactions of delete_memory().
EraseNext(x) ==
    LET k == Erased[h[x].done + 1]
    IN  /\ h[x].work = "delete" /\ h[x].done < Len(Erased)
        /\ IF k = "preferences" THEN memoryOn' = TRUE /\ UNCHANGED stored
           ELSE stored' = [stored EXCEPT ![k] = Nil] /\ UNCHANGED memoryOn
        /\ optedOut' = (optedOut /\ k # "preferences")
        /\ h' = [h EXCEPT ![x].done = @ + 1]
        /\ UNCHANGED <<lease, epoch, retained, reverted, faults, redisLost>>

\* 204: the memory is gone.
Deleted(x) ==
    /\ h[x].work = "delete" /\ h[x].done = Len(Erased)
    /\ Ends(x)
    /\ epoch' = epoch + 1
    /\ UNCHANGED <<stored, memoryOn, optedOut, retained, reverted, faults, redisLost>>

\* save_preferences()
SavePreferences(x, on) ==
    /\ h[x].work = "preferences"
    /\ memoryOn' = on /\ optedOut' = ~on
    /\ Ends(x)
    /\ UNCHANGED <<stored, epoch, retained, reverted, faults, redisLost>>

-----------------------------------------------------------------------------
(* Without the lease *)

\* notice_action(mute) reads the preferences and puts them back; invoke() of POST /tools.
Begin(x, w) ==
    /\ h[x].st = "idle" /\ w \in Work \cap {"mute", "tool"}
    /\ h' = [h EXCEPT ![x] = [Free EXCEPT !.work = w, !.st = "ready", !.born = epoch,
                                          !.on = memoryOn, !.left = Slack]]
    /\ UNCHANGED <<lease, stored, memoryOn, history, faults, redisLost>>

Mute(x) ==
    /\ h[x].work = "mute"
    /\ memoryOn' = h[x].on
    /\ reverted' = (reverted \/ h[x].on # memoryOn)
    /\ h' = [h EXCEPT ![x] = Free]
    /\ UNCHANGED <<lease, stored, epoch, optedOut, retained, faults, redisLost>>

CallTool(x) ==
    /\ h[x].work = "tool"
    /\ Put(x, "trace")
    /\ h' = [h EXCEPT ![x] = Free]
    /\ UNCHANGED <<lease, memoryOn, epoch, optedOut, reverted, faults, redisLost>>

-----------------------------------------------------------------------------
(* Time and faults *)

\* The key expires by itself.
Aged(l) == IF l.ttl <= 1 THEN Unleased ELSE [l EXCEPT !.ttl = @ - 1]

Minus1(n) == IF n = 0 THEN 0 ELSE n - 1

\* Nobody overstays: asyncio.timeout for the answer, the assumption for the rest.
Tick ==
    /\ \A x \in Handlers : h[x].st \notin {"idle", "saved"} => h[x].left > 0
    /\ h' = [x \in Handlers |-> [h[x] EXCEPT !.left = Minus1(@)]]
    /\ lease' = Aged(lease)
    /\ UNCHANGED <<stored, memoryOn, history, faults, redisLost>>

Fault == faults < MaxFaults /\ faults' = faults + 1

\* The process dies, the release fails, or the client left before run() was entered,
\* whose finally then never runs: the key stays until it expires.
Vanish(x) ==
    /\ Fault /\ h[x].st # "idle"
    /\ h' = [h EXCEPT ![x] = Free]
    /\ UNCHANGED <<lease, stored, memoryOn, history, redisLost>>

RedisLoses ==
    /\ Fault /\ lease.owner # NoOne
    /\ lease' = Unleased /\ redisLost' = TRUE
    /\ UNCHANGED <<stored, memoryOn, h, history>>

Step(x) == \/ Read(x) \/ Run(x) \/ SaveAnswer(x) \/ SaveRest(x) \/ Finish(x) \/ EraseNext(x)
           \/ Deleted(x) \/ Mute(x) \/ CallTool(x)
           \/ \E on \in BOOLEAN : SavePreferences(x, on)

Next ==
    \/ \E x \in Handlers : \/ Step(x) \/ Vanish(x)
                           \/ \E w \in AllWork : Acquire(x, w) \/ Begin(x, w)
                           \/ \E k \in Kinds : Gather(x, k)
    \/ Tick \/ RedisLoses

Spec == Init /\ [][Next]_vars

-----------------------------------------------------------------------------
(* Properties. *)

\* copilot_store.py:19: deletion does not race with an answer in flight.  After the 204,
\* no conversation, incident context or message of a handler that began before is left
\* or comes back, as long as Redis keeps the lease.
DeletedStaysDeleted ==
    /\ TypeOK
    /\ ~redisLost => \A k \in Messages : stored[k] # Nil => stored[k] >= epoch

\* docs/COPILOT.md:3: from the moment memory is switched off until it is switched on, no
\* message is retained, whatever was being answered at that moment; unless a mute, which
\* takes no lease, put back the preferences it had read before (copilot.py:153).
DisabledMemoryRetainsNothing == ~redisLost /\ ~reverted => ~retained
=============================================================================
