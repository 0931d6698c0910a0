----------------------------- MODULE LlmWorker -----------------------------
(***************************************************************************)
(* The inference worker, src/apps/llm/worker.py: one model, a lock around  *)
(* it, and for every accepted request a thread that infers, an event loop  *)
(* that streams, and a bounded queue between the two.  The lock is taken   *)
(* on the event loop and released by the thread.                           *)
(***************************************************************************)
EXTENDS Integers, SequencesExt

CONSTANTS
    Requests,       \* requests to /generate
    QueueSize,      \* asyncio.Queue(maxsize=32)
    MaxChunks,      \* bound: chunks of a completion, max_tokens
    MaxUnstarted,   \* bound: streams the runtime never starts
    Nobody          \* the lock is free

ASSUME WorkerAssumption ==
    /\ Nobody \notin Requests
    /\ QueueSize \in Nat \ {0}
    /\ MaxChunks \in Nat \ {0}
    /\ MaxUnstarted \in Nat

VARIABLES
    state,      \* state["state"]
    lock,       \* who acquired the threading.Lock
    client,     \* request -> whether its client listens
    stream,     \* request -> where its response stands on the event loop
    thread,     \* request -> where its inference thread stands
    chunks,     \* request -> chunks the model has yielded
    todo,       \* request -> items the thread has still to push
    over,       \* request -> the thread has left the loop over the chunks
    puts,       \* request -> queue.put() coroutines the loop has not completed
    queue,      \* request -> asyncio.Queue
    stopped,    \* request -> threading.Event
    item,       \* request -> what the stream has taken from the queue and yields
    made,       \* history: request -> items the thread was to push
    got,        \* history: request -> items the client received
    unstarted   \* history: streams that never started

threadVars == <<thread, chunks, todo, over, made>>
streamVars == <<stream, stopped, item, got>>
loopVars == <<puts, queue>>
vars == <<state, lock, client, threadVars, streamVars, loopVars, unstarted>>

-----------------------------------------------------------------------------
Delta(n) == <<"delta", n>>    \* the text of the n-th chunk
Usage == <<"usage", 0>>
Done == <<"done", 0>>
Error == <<"error", 0>>
Heartbeat == <<"heartbeat", 0>>
NoItem == <<"none", 0>>
Items == {Delta(n) : n \in 1..MaxChunks} \cup {Usage, Done, Error}

\* The thread is between model.reset() and the finally clause.
Inferring == {"computing", "pushing", "waiting"}
ThreadStates == {"none", "ended", "releasing"} \cup Inferring
StreamStates == {"none", "refused", "ready", "reading", "yielding", "abandoned", "ended"}

TypeOK ==
    /\ state \in {"OFFLINE", "LOADING", "ONLINE", "ERROR"}
    /\ lock \in Requests \cup {Nobody}
    /\ client \in [Requests -> {"here", "gone"}]
    /\ stream \in [Requests -> StreamStates]
    /\ thread \in [Requests -> ThreadStates]
    /\ chunks \in [Requests -> 0..MaxChunks]
    /\ over \in [Requests -> BOOLEAN]
    /\ stopped \in [Requests -> BOOLEAN]
    /\ item \in [Requests -> Items \cup {Heartbeat, NoItem}]
    /\ \A r \in Requests :
         /\ {todo[r], puts[r], queue[r], made[r], got[r]} \subseteq Seq(Items)
         /\ Len(queue[r]) <= QueueSize
    /\ unstarted \in 0..MaxUnstarted

Init ==
    /\ state = "OFFLINE"
    /\ lock = Nobody
    /\ client = [r \in Requests |-> "here"]
    /\ stream = [r \in Requests |-> "none"]
    /\ thread = [r \in Requests |-> "none"]
    /\ chunks = [r \in Requests |-> 0]
    /\ over = [r \in Requests |-> FALSE]
    /\ stopped = [r \in Requests |-> FALSE]
    /\ item = [r \in Requests |-> NoItem]
    /\ todo = [r \in Requests |-> <<>>] /\ puts = todo /\ queue = todo
    /\ made = todo /\ got = todo
    /\ unstarted = 0

-----------------------------------------------------------------------------
(* load(): a thread of its own at start-up.  A failed GPU load is tried again on the *)
(* CPU before it counts as failed.                                                   *)

BeginLoad ==
    /\ state = "OFFLINE"
    /\ state' = "LOADING"
    /\ UNCHANGED <<lock, client, threadVars, streamVars, loopVars, unstarted>>

EndLoad ==
    /\ state = "LOADING"
    /\ state' \in {"ONLINE", "ERROR"}
    /\ UNCHANGED <<lock, client, threadVars, streamVars, loopVars, unstarted>>

-----------------------------------------------------------------------------
(* generate(): the request handler, on the event loop. *)

\* 503 unless the model is loaded, 429 if lock.acquire(blocking=False) fails.
Accept(r) ==
    /\ stream[r] = "none"
    /\ IF state = "ONLINE" /\ lock = Nobody
       THEN lock' = r /\ stream' = [stream EXCEPT ![r] = "ready"]
       ELSE stream' = [stream EXCEPT ![r] = "refused"] /\ UNCHANGED lock
    /\ UNCHANGED <<state, client, threadVars, stopped, item, got, loopVars, unstarted>>

\* The first iteration of stream() starts the thread.
StartStream(r) ==
    /\ stream[r] = "ready"
    /\ stream' = [stream EXCEPT ![r] = "reading"]
    /\ thread' = [thread EXCEPT ![r] = "computing"]
    /\ UNCHANGED <<state, lock, client, chunks, todo, over, made, stopped, item, got,
                   loopVars, unstarted>>

\* The response is cancelled before its first iteration, or no thread can be started:
\* neither stream()'s finally nor infer()'s is reached.
NeverStarts(r) ==
    /\ stream[r] = "ready" /\ unstarted < MaxUnstarted
    /\ unstarted' = unstarted + 1
    /\ stream' = [stream EXCEPT ![r] = "ended"]
    /\ UNCHANGED <<state, lock, client, threadVars, stopped, item, got, loopVars>>

-----------------------------------------------------------------------------
(* infer() and push(): the thread. *)

Push(r, s) ==
    /\ todo' = [todo EXCEPT ![r] = s]
    /\ made' = [made EXCEPT ![r] = @ \o s]
    /\ thread' = [thread EXCEPT ![r] = IF s = <<>> THEN "computing" ELSE "pushing"]
    /\ UNCHANGED <<state, lock, client, streamVars, loopVars, unstarted>>

\* The iterator yields a chunk, with text or without, the last with a finish reason.
Chunk(r) ==
    /\ thread[r] = "computing" /\ Usage \notin Range(made[r])
    /\ chunks[r] < MaxChunks
    /\ chunks' = [chunks EXCEPT ![r] = @ + 1]
    /\ \/ /\ stopped[r]
          /\ over' = [over EXCEPT ![r] = TRUE]
          /\ Push(r, <<Done>>)
       \/ /\ ~stopped[r]
          /\ \E text \in {<<>>, <<Delta(chunks'[r])>>}, reason \in {<<>>, <<Usage>>} :
               /\ chunks'[r] = MaxChunks => reason # <<>>
               /\ Push(r, text \o reason)
          /\ UNCHANGED over

\* Mutant: the last item is forgotten.
ExhaustedSilently(r) ==
    /\ thread[r] = "computing" /\ Usage \in Range(made[r])
    /\ thread' = [thread EXCEPT ![r] = "releasing"]
    /\ UNCHANGED <<state, lock, client, chunks, todo, over, made, streamVars, loopVars,
                   unstarted>>

\* The iterator ends after the chunk that gave the reason.
Exhausted(r) ==
    /\ thread[r] = "computing" /\ Usage \in Range(made[r])
    /\ over' = [over EXCEPT ![r] = TRUE]
    /\ Push(r, <<Done>>)
    /\ UNCHANGED chunks

\* model.reset(), create_chat_completion() or the iterator raises.
InferenceFails(r) ==
    /\ thread[r] = "computing"
    /\ over' = [over EXCEPT ![r] = TRUE]
    /\ Push(r, <<Error>>)
    /\ UNCHANGED chunks

\* run_coroutine_threadsafe(queue.put(item), loop).
Submit(r) ==
    /\ thread[r] = "pushing"
    /\ puts' = [puts EXCEPT ![r] = Append(@, Head(todo[r]))]
    /\ thread' = [thread EXCEPT ![r] = "waiting"]
    /\ UNCHANGED <<state, lock, client, chunks, todo, over, made, streamVars, queue,
                   unstarted>>

Pushed(r) ==
    LET rest == Tail(todo[r]) IN
    /\ todo' = [todo EXCEPT ![r] = rest]
    /\ thread' = [thread EXCEPT ![r] = IF rest # <<>> THEN "pushing"
                                       ELSE IF over[r] THEN "releasing" ELSE "computing"]
    /\ UNCHANGED <<state, lock, client, chunks, over, made, streamVars, queue, unstarted>>

\* Mutant: the item is submitted again when a wait times out.
SubmitAgain(r) ==
    /\ thread[r] = "waiting"
    /\ \/ Head(todo[r]) \notin Range(puts[r]) /\ Pushed(r) /\ UNCHANGED puts
       \/ /\ Head(todo[r]) \in Range(puts[r]) /\ ~stopped[r]
          /\ puts' = [puts EXCEPT ![r] = Append(@, Head(todo[r]))]
          /\ UNCHANGED <<state, lock, client, threadVars, streamVars, queue, unstarted>>

\* Mutant: the thread does not wait for the coroutine.
NoWait(r) == thread[r] = "waiting" /\ Pushed(r) /\ UNCHANGED puts

\* Mutant: the thread waits without looking at stopped.
WaitOnly(r) ==
    /\ thread[r] = "waiting"
    /\ Head(todo[r]) \notin Range(puts[r])
    /\ Pushed(r) /\ UNCHANGED puts

\* future.result(timeout=0.2) returns, or the stream has stopped and the coroutine is
\* cancelled, if it is not too late for that.  A wait that times out is repeated.
Wait(r) ==
    /\ thread[r] = "waiting"
    /\ \/ Head(todo[r]) \notin Range(puts[r]) /\ UNCHANGED puts
       \/ stopped[r] /\ puts' = [puts EXCEPT ![r] = <<>>]
    /\ Pushed(r)

\* The finally clause.
Release(r) ==
    /\ thread[r] = "releasing"
    /\ thread' = [thread EXCEPT ![r] = "ended"]
    /\ lock' = Nobody
    /\ UNCHANGED <<state, client, chunks, todo, over, made, streamVars, loopVars, unstarted>>

-----------------------------------------------------------------------------
(* The queue and stream(): the event loop. *)

Put(r) ==
    /\ puts[r] # <<>> /\ Len(queue[r]) < QueueSize
    /\ queue' = [queue EXCEPT ![r] = Append(@, Head(puts[r]))]
    /\ puts' = [puts EXCEPT ![r] = Tail(@)]
    /\ UNCHANGED <<state, lock, client, threadVars, streamVars, unstarted>>

Get(r) ==
    /\ stream[r] = "reading" /\ queue[r] # <<>>
    /\ item' = [item EXCEPT ![r] = Head(queue[r])]
    /\ queue' = [queue EXCEPT ![r] = Tail(@)]
    /\ stream' = [stream EXCEPT ![r] = "yielding"]
    /\ UNCHANGED <<state, lock, client, threadVars, stopped, got, puts, unstarted>>

\* Mutant: the lock is released where stopped is set, not by the thread.
EndAndRelease(r) ==
    /\ stream' = [stream EXCEPT ![r] = "ended"]
    /\ stopped' = [stopped EXCEPT ![r] = TRUE]
    /\ item' = [item EXCEPT ![r] = NoItem]
    /\ lock' = Nobody
    /\ UNCHANGED <<state, client, threadVars, loopVars, unstarted>>

\* stream()'s finally clause.
End(r) ==
    /\ stream' = [stream EXCEPT ![r] = "ended"]
    /\ stopped' = [stopped EXCEPT ![r] = TRUE]
    /\ item' = [item EXCEPT ![r] = NoItem]
    /\ UNCHANGED <<state, lock, client, threadVars, loopVars, unstarted>>

\* wait_for(queue.get(), timeout=10) gave up, even if an item has come just now: it
\* stays in the queue.
TimedOut(r) ==
    /\ stream[r] = "reading"
    /\ \/ client[r] = "gone" /\ End(r) /\ UNCHANGED got
       \/ /\ stream' = [stream EXCEPT ![r] = "yielding"]
          /\ item' = [item EXCEPT ![r] = Heartbeat]
          /\ client[r] = "here"
          /\ UNCHANGED <<state, lock, client, threadVars, stopped, got, loopVars, unstarted>>

\* The response has been written; to a client that is gone nothing is.
Written(r) ==
    /\ stream[r] = "yielding"
    /\ got' = IF client[r] = "gone" \/ item[r] = Heartbeat THEN got
              ELSE [got EXCEPT ![r] = Append(@, item[r])]
    /\ IF item[r] \in {Done, Error} THEN End(r)
       ELSE /\ stream' = [stream EXCEPT ![r] = "reading"]
            /\ item' = [item EXCEPT ![r] = NoItem]
            /\ UNCHANGED <<state, lock, client, threadVars, stopped, loopVars, unstarted>>

\* The gateway's timeout, or its own client, ends the connection.
Leave(r) ==
    /\ stream[r] \in {"ready", "reading", "yielding"} /\ client[r] = "here"
    /\ client' = [client EXCEPT ![r] = "gone"]
    /\ UNCHANGED <<state, lock, threadVars, streamVars, loopVars, unstarted>>

\* The server notices and cancels the response: inside stream() if that awaits the
\* queue; otherwise stream() stays where it is, at a yield, until it is collected.
CancelResponse(r) ==
    /\ client[r] = "gone"
    /\ \/ stream[r] = "reading" /\ End(r) /\ UNCHANGED got
       \/ /\ stream[r] = "yielding"
          /\ stream' = [stream EXCEPT ![r] = "abandoned"]
          /\ UNCHANGED <<state, lock, client, threadVars, stopped, item, got, loopVars,
                         unstarted>>

\* The event loop closes the generator nobody refers to.
Collect(r) ==
    /\ stream[r] = "abandoned"
    /\ End(r)
    /\ UNCHANGED got

Infer(r) ==
    Chunk(r) \/ Exhausted(r) \/ InferenceFails(r) \/ Submit(r) \/ Wait(r) \/ Release(r)

Next ==
    \/ BeginLoad \/ EndLoad
    \/ \E r \in Requests :
         \/ Accept(r) \/ StartStream(r) \/ NeverStarts(r)
         \/ Infer(r)
         \/ Put(r) \/ Get(r) \/ TimedOut(r) \/ Written(r)
         \/ Leave(r) \/ CancelResponse(r) \/ Collect(r)

Spec == Init /\ [][Next]_vars

\* Threads and the event loop run, a response that was accepted is iterated, the client
\* reads on or leaves, and generators that nobody refers to are collected.
Fairness ==
    \A r \in Requests :
        /\ WF_vars(StartStream(r)) /\ WF_vars(Infer(r)) /\ WF_vars(Put(r))
        /\ SF_vars(Get(r)) /\ WF_vars(Written(r) \/ Leave(r) \/ CancelResponse(r))
        /\ WF_vars(client[r] = "gone" /\ (TimedOut(r) \/ CancelResponse(r)))
        /\ WF_vars(Collect(r))

FairSpec == Spec /\ Fairness

-----------------------------------------------------------------------------
(* Correctness. *)

\* "serialized inference" (the docstring): the model is used by one thread at a time,
\* although the lock is taken on one thread, released on another, and streams end
\* before their threads do.
SerializedInference ==
    \A r, q \in Requests :
        thread[r] \in Inferring /\ thread[q] \in Inferring => r = q

\* "bounded queue" (the docstring), counting the coroutines that wait to put: the
\* model never runs ahead of the client by more than the queue and one item.
BoundedBacklog == \A r \in Requests : Len(queue[r]) + Len(puts[r]) <= QueueSize + 1

\* What a client got, at any time, is what the model made, from the first item on and
\* with nothing lost, repeated or swapped on the way through the two threads.
StreamFaithful == TypeOK /\ \A r \in Requests : IsPrefix(got[r], made[r])

\* "cooperative cancellation" (the docstring): however clients leave or stall, a lock
\* that was taken is free again, and the next request is not told "Model busy" for ever,
\* unless a stream that holds the lock is never started: nothing releases that one.
LockComesBack == \A r \in Requests : lock = r ~> lock # r \/ unstarted > 0

\* A client that stays is answered to the end.
StreamEnds ==
    \A r \in Requests :
        stream[r] = "reading" ~>
            client[r] = "gone" \/ (got[r] # <<>> /\ Last(got[r]) \in {Done, Error})

\* Whoever leaves and whatever fails, generation ends for the others: the worker is free
\* for the next request, and nobody waits for an answer in vain.
GenerationEnds == LockComesBack /\ StreamEnds

\* Who holds the lock is served by the one model.
Promise == INSTANCE OneModel WITH
               serving <- lock,
               Ends <- {Done, Error},
               Pieces <- {<<Done>>, <<Error>>} \cup
                   UNION {{<<>>, <<Delta(n)>>, <<Usage>>, <<Delta(n), Usage>>} :
                          n \in 1..MaxChunks}

\* worker.py:1, "One loaded GGUF per service, serialized inference": with its threads,
\* queues and clients that leave, the worker is one model that answers one request at a
\* time, to the end, before it is free for the next.
ImplementsOneModel == Promise!Spec
=============================================================================
