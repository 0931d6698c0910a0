----------------------------- MODULE LlmProofs -----------------------------
(***************************************************************************)
(* What holds of LlmWorker for every number of requests, every queue size  *)
(* and every length of a completion.                                       *)
(***************************************************************************)
EXTENDS LlmWorker, SequenceTheorems, TLAPS

\* A request that was accepted has the lock until its thread released it; one whose
\* stream has not begun has no thread.
LockInv ==
    /\ thread \in [Requests -> ThreadStates]
    /\ stream \in [Requests -> StreamStates]
    /\ \A r \in Requests :
         /\ thread[r] \in Inferring \cup {"releasing"} => lock = r
         /\ stream[r] = "ready" => lock = r
         /\ stream[r] \in {"none", "ready"} => thread[r] = "none"

\* A coroutine is outstanding only while the thread waits for it.
BacklogInv ==
    /\ thread \in [Requests -> ThreadStates]
    /\ puts \in [Requests -> Seq(Items)]
    /\ queue \in [Requests -> Seq(Items)]
    /\ todo \in [Requests -> Seq(Items)]
    /\ chunks \in [Requests -> 0..MaxChunks]
    /\ \A r \in Requests :
         /\ Len(queue[r]) <= QueueSize
         /\ Len(puts[r]) <= 1
         /\ puts[r] # <<>> => thread[r] = "waiting" /\ puts[r] = <<Head(todo[r])>>
         /\ thread[r] \in {"pushing", "waiting"} => todo[r] # <<>>

LEMMA LockInit == Init => LockInv
  BY DEF Init, LockInv, ThreadStates, StreamStates, Inferring

LEMMA LockNext ==
    ASSUME LockInv, [Next]_vars
    PROVE  LockInv'
  <1> USE WorkerAssumption DEF LockInv, ThreadStates, StreamStates, Inferring
  <1>1. CASE BeginLoad \/ EndLoad \/ UNCHANGED vars
    BY <1>1 DEF BeginLoad, EndLoad, vars, threadVars, streamVars
  <1> SUFFICES ASSUME NEW r \in Requests,
                      \/ Accept(r) \/ StartStream(r) \/ NeverStarts(r)
                      \/ Infer(r)
                      \/ Put(r) \/ Get(r) \/ TimedOut(r) \/ Written(r)
                      \/ Leave(r) \/ CancelResponse(r) \/ Collect(r)
               PROVE  LockInv'
    BY <1>1, Zenon DEF Next
  <1>2. CASE Accept(r)
    BY <1>2 DEF Accept, threadVars
  <1>3. CASE StartStream(r) \/ NeverStarts(r)
    BY <1>3 DEF StartStream, NeverStarts, threadVars
  <1>4. ASSUME NEW s, thread[r] = "computing", Push(r, s) PROVE LockInv'
    BY <1>4 DEF Push, streamVars
  <1>5. CASE Chunk(r) \/ Exhausted(r) \/ InferenceFails(r)
    BY <1>4, <1>5 DEF Chunk, Exhausted, InferenceFails
  <1>6. CASE Submit(r) \/ Wait(r)
    BY <1>6 DEF Submit, Wait, Pushed, streamVars
  <1>7. CASE Release(r)
    BY <1>7 DEF Release, streamVars
  <1>8. CASE Put(r) \/ Leave(r)
    BY <1>8 DEF Put, Leave, threadVars, streamVars
  <1>9. CASE Get(r) \/ TimedOut(r) \/ Written(r) \/ CancelResponse(r) \/ Collect(r)
    BY <1>9 DEF Get, TimedOut, Written, CancelResponse, Collect, End, threadVars
  <1> QED
    BY <1>2, <1>3, <1>5, <1>6, <1>7, <1>8, <1>9 DEF Infer

\* "serialized inference": two threads never use the model at the same time, however
\* many requests arrive, leave, or are cancelled.
THEOREM Serialized == Spec => []SerializedInference
  <1>1. LockInv => SerializedInference
    BY DEF LockInv, SerializedInference
  <1> QED
    BY <1>1, LockInit, LockNext, PTL DEF Spec

LEMMA BacklogInit == Init => BacklogInv
  BY WorkerAssumption DEF Init, BacklogInv, ThreadStates, Inferring

LEMMA BacklogNext ==
    ASSUME LockInv, BacklogInv, [Next]_vars
    PROVE  BacklogInv'
  <1> USE WorkerAssumption DEF BacklogInv, ThreadStates, Inferring
  <1>1. CASE BeginLoad \/ EndLoad \/ UNCHANGED vars
    BY <1>1 DEF BeginLoad, EndLoad, vars, threadVars, loopVars
  <1> SUFFICES ASSUME NEW r \in Requests,
                      \/ Accept(r) \/ StartStream(r) \/ NeverStarts(r)
                      \/ Infer(r)
                      \/ Put(r) \/ Get(r) \/ TimedOut(r) \/ Written(r)
                      \/ Leave(r) \/ CancelResponse(r) \/ Collect(r)
               PROVE  BacklogInv'
    BY <1>1, Zenon DEF Next
  <1>2. CASE Accept(r) \/ NeverStarts(r) \/ Leave(r)
    BY <1>2 DEF Accept, NeverStarts, Leave, threadVars, loopVars
  <1>3. CASE StartStream(r)
    BY <1>3 DEF StartStream, LockInv, loopVars
  <1>4. ASSUME NEW s \in Seq(Items), thread[r] = "computing",
               chunks' \in [Requests -> 0..MaxChunks], Push(r, s)
        PROVE  BacklogInv'
    BY <1>4 DEF Push, loopVars
  <1>5. CASE Chunk(r) \/ Exhausted(r) \/ InferenceFails(r)
    <2>1. <<Done>> \in Seq(Items) /\ <<Error>> \in Seq(Items)
      BY DEF Items
    <2>2. CASE Chunk(r)
      <3>1. chunks' \in [Requests -> 0..MaxChunks] /\ chunks'[r] \in 1..MaxChunks
        BY <2>2 DEF Chunk
      <3>2. \A t \in {<<>>, <<Delta(chunks'[r])>>}, u \in {<<>>, <<Usage>>} :
              t \o u \in Seq(Items)
        <4>1. Delta(chunks'[r]) \in Items /\ Usage \in Items
          BY <3>1 DEF Items
        <4> SUFFICES ASSUME NEW t \in {<<>>, <<Delta(chunks'[r])>>},
                            NEW u \in {<<>>, <<Usage>>}
                     PROVE  t \o u \in Seq(Items)
          OBVIOUS
        <4>3. /\ <<>> \in Seq(Items) /\ <<Delta(chunks'[r])>> \in Seq(Items)
              /\ <<Usage>> \in Seq(Items)
          BY <4>1
        <4>2. t \in Seq(Items) /\ u \in Seq(Items)
          BY <4>3, Zenon
        <4> QED
          BY <4>2
      <3> QED
        BY <1>4, <2>1, <2>2, <3>1, <3>2 DEF Chunk
    <2> QED
      BY <1>4, <1>5, <2>1, <2>2 DEF Exhausted, InferenceFails
  <1>6. CASE Submit(r)
    <2>1. Head(todo[r]) \in Items /\ puts[r] = <<>>
      BY <1>6 DEF Submit
    <2>2. Append(puts[r], Head(todo[r])) = <<Head(todo[r])>>
      BY <2>1
    <2>3. /\ puts' = [puts EXCEPT ![r] = <<Head(todo[r])>>]
          /\ thread' = [thread EXCEPT ![r] = "waiting"]
          /\ UNCHANGED <<queue, todo, chunks>>
      BY <1>6, <2>2 DEF Submit
    <2>4. <<Head(todo[r])>> \in Seq(Items) /\ Len(<<Head(todo[r])>>) = 1
      BY <2>1
    <2>5. puts' \in [Requests -> Seq(Items)] /\ thread' \in [Requests -> ThreadStates]
      BY <2>3, <2>4
    <2>6. ASSUME NEW q \in Requests
          PROVE  /\ Len(queue'[q]) <= QueueSize
                 /\ Len(puts'[q]) <= 1
                 /\ puts'[q] # <<>> =>
                      thread'[q] = "waiting" /\ puts'[q] = <<Head(todo'[q])>>
                 /\ thread'[q] \in {"pushing", "waiting"} => todo'[q] # <<>>
      <3>1. CASE q = r
        <4>1. puts'[q] = <<Head(todo[r])>> /\ thread'[q] = "waiting"
          BY <2>3, <3>1
        <4>2. todo'[q] = todo[r] /\ todo[r] # <<>> /\ queue'[q] = queue[r]
          BY <1>6, <2>3, <3>1 DEF Submit
        <4> QED
          BY <2>4, <4>1, <4>2
      <3>2. CASE q # r
        BY <2>3, <3>2
      <3> QED
        BY <3>1, <3>2
    <2> QED
      BY <2>3, <2>5, <2>6
  <1>7. CASE Wait(r)
    <2>1. todo[r] # <<>> /\ Tail(todo[r]) \in Seq(Items)
      BY <1>7 DEF Wait
    <2>2. puts'[r] = <<>> /\ \A q \in Requests : q # r => puts'[q] = puts[q]
      <3>1. CASE puts[r] = <<>>
        BY <1>7, <3>1 DEF Wait
      <3>2. CASE puts[r] # <<>>
        <4>1. puts[r] = <<Head(todo[r])>>
          BY <3>2
        <4>2. Head(todo[r]) \in Range(puts[r])
          <5>1. 1 \in DOMAIN puts[r] /\ puts[r][1] = Head(todo[r])
            BY <4>1
          <5> QED
            BY <5>1 DEF Range
        <4>3. puts' = [puts EXCEPT ![r] = <<>>]
          BY <1>7, <4>2 DEF Wait
        <4> QED
          BY <4>3
      <3> QED
        BY <3>1, <3>2
    <2>3. puts' \in [Requests -> Seq(Items)]
      <3>1. <<>> \in Seq(Items)
        OBVIOUS
      <3> QED
        BY <1>7, <3>1 DEF Wait
    <2>4. /\ todo' = [todo EXCEPT ![r] = Tail(todo[r])] /\ UNCHANGED <<queue, chunks>>
          /\ \A q \in Requests : q # r => thread'[q] = thread[q] /\ todo'[q] = todo[q]
          /\ thread' \in [Requests -> ThreadStates]
          /\ thread'[r] \in {"pushing", "waiting"} => Tail(todo[r]) # <<>>
      BY <1>7 DEF Wait, Pushed
    <2>5. todo' \in [Requests -> Seq(Items)] /\ todo'[r] = Tail(todo[r])
      BY <2>1, <2>4
    <2>6. ASSUME NEW q \in Requests
          PROVE  /\ Len(queue'[q]) <= QueueSize
                 /\ Len(puts'[q]) <= 1
                 /\ puts'[q] # <<>> =>
                      thread'[q] = "waiting" /\ puts'[q] = <<Head(todo'[q])>>
                 /\ thread'[q] \in {"pushing", "waiting"} => todo'[q] # <<>>
      <3>1. CASE q = r
        BY <2>2, <2>4, <2>5, <3>1
      <3>2. CASE q # r
        BY <2>2, <2>4, <3>2
      <3> QED
        BY <3>1, <3>2
    <2> QED
      BY <2>3, <2>4, <2>5, <2>6
  <1>8. CASE Release(r)
    BY <1>8 DEF Release, loopVars
  <1>9. CASE Put(r)
    <2>1. puts[r] = <<Head(todo[r])>> /\ Head(puts[r]) \in Items
      BY <1>9 DEF Put
    <2>2. Tail(puts[r]) = <<>>
      BY <2>1
    <2>3. /\ Append(queue[r], Head(puts[r])) \in Seq(Items)
          /\ Len(Append(queue[r], Head(puts[r]))) <= QueueSize
      BY <1>9, <2>1 DEF Put
    <2>4. /\ queue' = [queue EXCEPT ![r] = Append(queue[r], Head(puts[r]))]
          /\ puts' = [puts EXCEPT ![r] = <<>>]
          /\ UNCHANGED <<thread, todo, chunks>>
      BY <1>9, <2>2 DEF Put, threadVars
    <2> QED
      BY <2>3, <2>4
  <1>10. CASE Get(r)
    <2>1. Tail(queue[r]) \in Seq(Items) /\ Len(Tail(queue[r])) <= QueueSize
      BY <1>10 DEF Get
    <2> QED
      BY <1>10, <2>1 DEF Get, threadVars
  <1>11. CASE TimedOut(r) \/ Written(r) \/ CancelResponse(r) \/ Collect(r)
    BY <1>11 DEF TimedOut, Written, CancelResponse, Collect, End, threadVars, loopVars
  <1> QED
    BY <1>2, <1>3, <1>5, <1>6, <1>7, <1>8, <1>9, <1>10, <1>11 DEF Infer

\* "bounded queue": the model is ahead of the reader by the queue and one item at most,
\* whatever sizes are chosen.
THEOREM Bounded == Spec => []BoundedBacklog
  <1>1. ASSUME BacklogInv PROVE BoundedBacklog
    <2> SUFFICES ASSUME NEW r \in Requests
                 PROVE  Len(queue[r]) + Len(puts[r]) <= QueueSize + 1
      BY DEF BoundedBacklog
    <2>1. Len(queue[r]) \in Nat /\ Len(puts[r]) \in Nat
      BY <1>1 DEF BacklogInv
    <2> QED
      BY <1>1, <2>1, WorkerAssumption DEF BacklogInv
  <1> QED
    BY <1>1, LockInit, LockNext, BacklogInit, BacklogNext, PTL DEF Spec

-----------------------------------------------------------------------------
(* Streams *)

\* The item a stream yields, if it is one that the model made.
Yielded(x) == IF x \in Items THEN <<x>> ELSE <<>>

\* What the thread has still to bring into the queue.
Unsent(r) == IF thread[r] = "waiting" /\ puts[r] = <<>> THEN Tail(todo[r]) ELSE todo[r]

\* As long as the client listens, nothing is between it and the model but the item that is
\* yielded, the queue, and what the thread has still to send.
Flow(r) ==
    client[r] = "here" /\ stream[r] \notin {"ended", "abandoned"} =>
        made[r] = got[r] \o Yielded(item[r]) \o queue[r] \o Unsent(r)

FlowOf(r) ==
    /\ stopped[r] => stream[r] = "ended"
    /\ stream[r] = "abandoned" => client[r] = "gone"
    /\ stream[r] \in {"yielding", "abandoned"} <=> item[r] # NoItem
    /\ thread[r] \notin {"pushing", "waiting"} => todo[r] = <<>>
    /\ IsPrefix(got[r], made[r])
    /\ Flow(r)

FlowTypes ==
    /\ state \in {"OFFLINE", "LOADING", "ONLINE", "ERROR"}
    /\ lock \in Requests \cup {Nobody}
    /\ client \in [Requests -> {"here", "gone"}]
    /\ over \in [Requests -> BOOLEAN]
    /\ stopped \in [Requests -> BOOLEAN]
    /\ item \in [Requests -> Items \cup {Heartbeat, NoItem}]
    /\ made \in [Requests -> Seq(Items)]
    /\ got \in [Requests -> Seq(Items)]
    /\ unstarted \in 0..MaxUnstarted

FlowInv == FlowTypes /\ \A r \in Requests : FlowOf(r)

LEMMA Regroup ==
    ASSUME NEW p \in Seq(Items), NEW q \in Seq(Items), NEW b \in Seq(Items), NEW u \in Seq(Items)
    PROVE  (p \o q) \o (b \o u) = (p \o (q \o b)) \o u
  <1>1. p \o q \in Seq(Items)
    OBVIOUS
  <1>2. (p \o q) \o b = p \o (q \o b)
    BY ConcatAssociative
  <1>3. PICK a \in Seq(Items) : a = p \o q
    BY <1>1
  <1>4. (a \o b) \o u = a \o (b \o u)
    BY ConcatAssociative
  <1> QED BY <1>2, <1>3, <1>4

LEMMA PrefixGrows ==
    ASSUME NEW g \in Seq(Items), NEW m \in Seq(Items), NEW s \in Seq(Items), IsPrefix(g, m)
    PROVE  IsPrefix(g, m \o s)
  <1>1. /\ Len(g) \in Nat /\ Len(m) \in Nat /\ Len(s) \in Nat /\ Len(g) <= Len(m)
        /\ Len(m \o s) = Len(m) + Len(s)
    BY ConcatProperties DEF IsPrefix
  <1>2. SubSeq(m \o s, 1, Len(g)) = SubSeq(m, 1, Len(g))
    <2>1. CASE Len(g) = 0
      BY <2>1, SubSeqEmpty
    <2>2. CASE Len(g) # 0
      <3>1. 1 \in 1..Len(m) /\ Len(g) \in 1..Len(m)
        BY <1>1, <2>2
      <3> QED BY <3>1, SubSeqOfConcat1
    <2> QED BY <2>1, <2>2
  <1> QED BY <1>1, <1>2 DEF IsPrefix

LEMMA PrefixOf ==
    ASSUME NEW g \in Seq(Items), NEW x \in Seq(Items)
    PROVE  IsPrefix(g, g \o x)
  <1>1. IsPrefix(g, g)
    BY DEF IsPrefix
  <1> QED BY <1>1, PrefixGrows

LEMMA PrefixOfFlow ==
    ASSUME NEW g \in Seq(Items), NEW q \in Seq(Items), NEW t \in Seq(Items)
    PROVE  IsPrefix(g, g \o <<>> \o q \o t)
  <1>1. g \o <<>> = g
    BY ConcatEmptySeq
  <1>2. IsPrefix(g, g \o q) /\ g \o q \in Seq(Items)
    BY PrefixOf
  <1>3. IsPrefix(g, (g \o q) \o t)
    BY <1>2, PrefixGrows
  <1> QED BY <1>1, <1>3

LEMMA MoveIn ==
    ASSUME NEW p \in Seq(Items), NEW q \in Seq(Items), NEW b \in Seq(Items), NEW u \in Seq(Items),
           NEW h \in Items, b = <<h>>
    PROVE  (p \o q) \o (b \o u) = (p \o Append(q, h)) \o u
  <1>1. Append(q, h) = q \o b
    BY AppendIsConcat
  <1>2. (p \o q) \o (b \o u) = (p \o (q \o b)) \o u
    BY Regroup
  <1> QED BY <1>1, <1>2

LEMMA Sent ==
    ASSUME NEW p \in Seq(Items), NEW q \in Seq(Items), NEW t \in Seq(Items), t # <<>>
    PROVE  p \o q \o t = p \o Append(q, Head(t)) \o Tail(t)
  <1>1. Head(t) \in Items /\ Tail(t) \in Seq(Items) /\ t = <<Head(t)>> \o Tail(t)
    OBVIOUS
  <1>2. <<Head(t)>> \in Seq(Items)
    BY <1>1
  <1>3. (p \o q) \o (<<Head(t)>> \o Tail(t)) = (p \o Append(q, Head(t))) \o Tail(t)
    BY <1>1, <1>2, MoveIn
  <1> QED BY <1>1, <1>3

\* An item goes from the thread to the queue, from the queue to the stream, to the client.
LEMMA Moves ==
    ASSUME NEW g \in Seq(Items), NEW q \in Seq(Items), NEW t \in Seq(Items)
    PROVE  /\ t # <<>> => \A i \in Seq(Items) :
                 g \o i \o q \o t = g \o i \o Append(q, Head(t)) \o Tail(t)
           /\ q # <<>> => g \o <<>> \o q \o t = g \o <<Head(q)>> \o Tail(q) \o t
           /\ \A x \in Items : g \o <<x>> \o q \o t = Append(g, x) \o <<>> \o q \o t
  <1>1. \A s \in Seq(Items) : s # <<>> =>
           Head(s) \in Items /\ Tail(s) \in Seq(Items) /\ s = <<Head(s)>> \o Tail(s)
    OBVIOUS
  <1>2. ASSUME t # <<>>, NEW i \in Seq(Items)
        PROVE  g \o i \o q \o t = g \o i \o Append(q, Head(t)) \o Tail(t)
    <2>1. g \o i \in Seq(Items)
      OBVIOUS
    <2> QED BY <1>2, <2>1, Sent
  <1>3. ASSUME q # <<>>
        PROVE  g \o <<>> \o q \o t = g \o <<Head(q)>> \o Tail(q) \o t
    <2>1. PICK h \in Items, u \in Seq(Items) : h = Head(q) /\ u = Tail(q) /\ q = <<h>> \o u
      BY <1>1, <1>3
    <2>2. g \o <<>> = g /\ <<h>> \in Seq(Items)
      BY ConcatEmptySeq
    <2>3. g \o (<<h>> \o u) = (g \o <<h>>) \o u
      BY <2>2, ConcatAssociative
    <2> QED BY <2>1, <2>2, <2>3
  <1>4. ASSUME NEW x \in Items
        PROVE  g \o <<x>> \o q \o t = Append(g, x) \o <<>> \o q \o t
    <2>1. Append(g, x) = g \o <<x>> /\ Append(g, x) \in Seq(Items)
      BY AppendIsConcat, AppendProperties
    <2>2. Append(g, x) \o <<>> = Append(g, x)
      BY <2>1, ConcatEmptySeq
    <2> QED BY <2>1, <2>2
  <1> QED BY <1>2, <1>3, <1>4

LEMMA FlowKept ==
    ASSUME FlowInv, NEW r \in Requests, FlowTypes', FlowOf(r)',
           \A q \in Requests \ {r} :
              /\ client'[q] = client[q] /\ stream'[q] = stream[q] /\ thread'[q] = thread[q]
              /\ todo'[q] = todo[q] /\ puts'[q] = puts[q] /\ queue'[q] = queue[q]
              /\ stopped'[q] = stopped[q] /\ item'[q] = item[q]
              /\ made'[q] = made[q] /\ got'[q] = got[q]
    PROVE  FlowInv'
  <1>1. ASSUME NEW q \in Requests \ {r} PROVE FlowOf(q)'
    <2>1. FlowOf(q)
      BY DEF FlowInv
    <2> QED BY <2>1 DEF FlowOf, Flow, Unsent
  <1> QED BY <1>1 DEF FlowInv

\* The thread makes more.
LEMMA PushFlow ==
    ASSUME FlowInv, LockInv, BacklogInv, NEW r \in Requests, NEW s \in Seq(Items),
           thread[r] = "computing", over' \in [Requests -> BOOLEAN], Push(r, s)
    PROVE  FlowInv'
  <1>1. PICK g \in Seq(Items), m \in Seq(Items), q \in Seq(Items) :
           g = got[r] /\ m = made[r] /\ q = queue[r]
    BY DEF FlowInv, FlowTypes, BacklogInv
  <1>2. PICK i \in Seq(Items) : i = Yielded(item[r])
    <2>1. Yielded(item[r]) \in Seq(Items)
      BY DEF Yielded
    <2> QED BY <2>1
  <1>3. FlowOf(r) /\ todo[r] = <<>> /\ puts[r] = <<>> /\ Unsent(r) = <<>>
    <2>1. FlowOf(r)
      BY DEF FlowInv
    <2> QED BY <2>1 DEF FlowOf, BacklogInv, Unsent
  <1>4. /\ made'[r] = m \o s /\ todo'[r] = s /\ m \o s \in Seq(Items)
        /\ thread'[r] \in {"computing", "pushing"} /\ (thread'[r] = "computing" => s = <<>>)
        /\ UNCHANGED <<state, lock, client, stream, stopped, item, got, puts, queue, unstarted>>
    BY <1>1 DEF Push, streamVars, loopVars, FlowInv, FlowTypes, BacklogInv, LockInv
  <1>5. FlowTypes'
    <2>1. made' \in [Requests -> Seq(Items)]
      BY <1>1, <1>4 DEF Push, FlowInv, FlowTypes
    <2> QED BY <1>4, <2>1 DEF FlowInv, FlowTypes
  <1>6. Unsent(r)' = s
    BY <1>4 DEF Unsent
  <1>7. IsPrefix(got[r], made[r])'
    <2>1. IsPrefix(g, m)
      BY <1>1, <1>3 DEF FlowOf
    <2>2. IsPrefix(g, m \o s)
      BY <2>1, PrefixGrows
    <2> QED BY <1>1, <1>4, <2>2
  <1>8. Flow(r)'
    <2> SUFFICES ASSUME client[r] = "here", stream[r] \notin {"ended", "abandoned"}
                 PROVE  m \o s = g \o i \o q \o s
      BY <1>1, <1>2, <1>4, <1>6 DEF Flow
    <2>1. m = g \o i \o q \o <<>>
      BY <1>1, <1>2, <1>3 DEF FlowOf, Flow
    <2>2. g \o i \o q \in Seq(Items)
      <3>1. g \o i \in Seq(Items)
        OBVIOUS
      <3> QED BY <3>1
    <2>3. m = g \o i \o q
      BY <2>1, <2>2, ConcatEmptySeq
    <2> QED BY <2>3
  <1>9. FlowOf(r)'
    BY <1>3, <1>4, <1>7, <1>8 DEF FlowOf
  <1>10. \A o \in Requests \ {r} :
            made'[o] = made[o] /\ todo'[o] = todo[o] /\ thread'[o] = thread[o]
    BY DEF Push, FlowInv, FlowTypes, BacklogInv, LockInv
  <1> QED BY <1>4, <1>5, <1>9, <1>10, FlowKept

\* An item moves on: what was made stays made, and the sequence in between is the same.
LEMMA WaitFlow ==
    ASSUME FlowInv, BacklogInv, NEW r \in Requests, Wait(r)
    PROVE  FlowInv'
  <1>1. thread[r] = "waiting" /\ todo[r] # <<>> /\ FlowOf(r)
    BY DEF Wait, BacklogInv, FlowInv
  <1>2. /\ todo' = [todo EXCEPT ![r] = Tail(todo[r])]
        /\ thread'[r] # "waiting" /\ (thread'[r] # "pushing" => Tail(todo[r]) = <<>>)
        /\ \A q \in Requests \ {r} : thread'[q] = thread[q] /\ puts'[q] = puts[q]
        /\ UNCHANGED <<state, lock, client, over, made, stream, stopped, item, got, queue,
                       unstarted>>
    BY <1>1 DEF Wait, Pushed, streamVars, BacklogInv
  <1>3. todo'[r] = Tail(todo[r]) /\ \A q \in Requests \ {r} : todo'[q] = todo[q]
    BY <1>2 DEF BacklogInv
  <1>4. stopped[r] \/ puts[r] = <<>>
    <2>1. CASE puts[r] # <<>>
      <3>1. puts[r] = <<Head(todo[r])>>
        BY <2>1 DEF BacklogInv
      <3>2. 1 \in DOMAIN puts[r] /\ puts[r][1] = Head(todo[r])
        BY <3>1
      <3>3. Head(todo[r]) \in Range(puts[r])
        BY <3>2 DEF Range
      <3> QED BY <3>3 DEF Wait
    <2> QED BY <2>1
  <1>5. FlowTypes'
    BY <1>2 DEF FlowInv, FlowTypes
  <1>6. Flow(r)'
    <2>1. Unsent(r)' = Tail(todo[r])
      BY <1>2, <1>3 DEF Unsent
    <2>2. stopped[r] => stream[r] = "ended"
      BY <1>1 DEF FlowOf
    <2>3. puts[r] = <<>> => Unsent(r) = Tail(todo[r])
      BY <1>1 DEF Unsent
    <2> QED BY <1>1, <1>2, <1>4, <2>1, <2>2, <2>3 DEF Flow, FlowOf
  <1>7. FlowOf(r)'
    BY <1>1, <1>2, <1>3, <1>6 DEF FlowOf
  <1> QED BY <1>2, <1>3, <1>5, <1>7, FlowKept

LEMMA SubmitFlow ==
    ASSUME FlowInv, BacklogInv, NEW r \in Requests, Submit(r)
    PROVE  FlowInv'
  <1>1. /\ thread[r] = "pushing" /\ todo[r] # <<>> /\ puts[r] = <<>> /\ FlowOf(r)
        /\ Head(todo[r]) \in Items
    BY DEF Submit, BacklogInv, FlowInv
  <1>2. puts'[r] # <<>>
    <2>1. puts'[r] = Append(<<>>, Head(todo[r]))
      BY <1>1 DEF Submit, BacklogInv
    <2> QED BY <2>1
  <1>3. /\ thread'[r] = "waiting"
        /\ \A q \in Requests \ {r} : thread'[q] = thread[q] /\ puts'[q] = puts[q]
        /\ UNCHANGED <<state, lock, client, todo, over, made, stream, stopped, item, got, queue,
                       unstarted>>
    BY DEF Submit, streamVars, BacklogInv
  <1>4. Unsent(r) = todo[r] /\ Unsent(r)' = todo[r]
    BY <1>1, <1>2, <1>3 DEF Unsent
  <1>5. FlowOf(r)'
    BY <1>1, <1>3, <1>4 DEF FlowOf, Flow
  <1>6. FlowTypes'
    BY <1>3 DEF FlowInv, FlowTypes
  <1> QED BY <1>3, <1>5, <1>6, FlowKept

LEMMA PutFlow ==
    ASSUME FlowInv, BacklogInv, NEW r \in Requests, Put(r)
    PROVE  FlowInv'
  <1>1. /\ thread[r] = "waiting" /\ puts[r] = <<Head(todo[r])>> /\ todo[r] # <<>> /\ FlowOf(r)
    BY DEF Put, BacklogInv, FlowInv
  <1>2. PICK g \in Seq(Items), q \in Seq(Items), t \in Seq(Items) :
           g = got[r] /\ q = queue[r] /\ t = todo[r]
    BY DEF FlowInv, FlowTypes, BacklogInv
  <1>3. PICK i \in Seq(Items) : i = Yielded(item[r])
    <2>1. Yielded(item[r]) \in Seq(Items)
      BY DEF Yielded
    <2> QED BY <2>1
  <1>4. Head(puts[r]) = Head(t) /\ Tail(puts[r]) = <<>>
    BY <1>1, <1>2
  <1>5. /\ queue'[r] = Append(q, Head(t)) /\ puts'[r] = <<>>
        /\ \A o \in Requests \ {r} : queue'[o] = queue[o] /\ puts'[o] = puts[o]
        /\ UNCHANGED <<state, lock, client, thread, todo, over, made, stream, stopped, item, got,
                       unstarted>>
    BY <1>2, <1>4 DEF Put, threadVars, streamVars, BacklogInv
  <1>6. Unsent(r) = t /\ Unsent(r)' = Tail(t)
    BY <1>1, <1>2, <1>5 DEF Unsent
  <1>7. g \o i \o q \o t = g \o i \o Append(q, Head(t)) \o Tail(t)
    <2>1. t # <<>> /\ g \o i \in Seq(Items)
      BY <1>1, <1>2
    <2> QED BY <2>1, Sent
  <1>8. Flow(r)'
    BY <1>1, <1>2, <1>3, <1>5, <1>6, <1>7 DEF FlowOf, Flow
  <1>9. FlowOf(r)'
    BY <1>1, <1>5, <1>8 DEF FlowOf
  <1>10. FlowTypes'
    BY <1>5 DEF FlowInv, FlowTypes
  <1> QED BY <1>5, <1>9, <1>10, FlowKept

LEMMA GetFlow ==
    ASSUME FlowInv, LockInv, BacklogInv, NEW r \in Requests, Get(r)
    PROVE  FlowInv'
  <1>1. stream[r] = "reading" /\ queue[r] # <<>> /\ FlowOf(r) /\ item[r] = NoItem
    BY DEF Get, FlowInv, FlowOf
  <1>2. PICK g \in Seq(Items), q \in Seq(Items) : g = got[r] /\ q = queue[r]
    BY DEF FlowInv, FlowTypes, BacklogInv
  <1>3. PICK t \in Seq(Items) : t = Unsent(r)
    <2>1. Unsent(r) \in Seq(Items)
      BY DEF Unsent, BacklogInv
    <2> QED BY <2>1
  <1>4. Head(q) \in Items /\ Tail(q) \in Seq(Items) /\ NoItem \notin Items
    BY <1>1, <1>2 DEF NoItem, Items, Delta, Usage, Done, Error
  <1>5. /\ item' = [item EXCEPT ![r] = Head(q)] /\ item'[r] = Head(q)
        /\ queue'[r] = Tail(q) /\ stream'[r] = "yielding"
        /\ \A o \in Requests \ {r} :
              queue'[o] = queue[o] /\ item'[o] = item[o] /\ stream'[o] = stream[o]
        /\ UNCHANGED <<state, lock, client, thread, todo, over, made, stopped, got, puts,
                       unstarted>>
    <2>1. /\ item \in [Requests -> Items \cup {Heartbeat, NoItem}]
          /\ queue \in [Requests -> Seq(Items)] /\ stream \in [Requests -> StreamStates]
      BY DEF BacklogInv, LockInv, FlowInv, FlowTypes
    <2>2. /\ item' = [item EXCEPT ![r] = Head(q)]
          /\ queue' = [queue EXCEPT ![r] = Tail(q)]
          /\ stream' = [stream EXCEPT ![r] = "yielding"]
          /\ UNCHANGED <<state, lock, client, thread, todo, over, made, stopped, got, puts,
                         unstarted>>
      BY <1>2, <2>1 DEF Get, threadVars
    <2> QED BY <2>1, <2>2
  <1>6. Unsent(r)' = t /\ Yielded(item[r]) = <<>> /\ Yielded(item'[r]) = <<Head(q)>>
    BY <1>1, <1>3, <1>4, <1>5 DEF Unsent, Yielded
  <1>7. g \o <<>> \o q \o t = g \o <<Head(q)>> \o Tail(q) \o t
    <2>1. q # <<>>
      BY <1>1, <1>2
    <2> QED BY <2>1, Moves
  <1>8. Flow(r)'
    BY <1>1, <1>2, <1>3, <1>5, <1>6, <1>7 DEF FlowOf, Flow
  <1>9. FlowOf(r)'
    BY <1>1, <1>4, <1>5, <1>8 DEF FlowOf
  <1>10. FlowTypes'
    BY <1>4, <1>5 DEF FlowInv, FlowTypes
  <1> QED BY <1>5, <1>9, <1>10, FlowKept

\* The stream ends: nothing is promised any more, and what was received stays.
LEMMA EndFlow ==
    ASSUME FlowInv, LockInv, BacklogInv, NEW r \in Requests, End(r),
           got' \in [Requests -> Seq(Items)], IsPrefix(got'[r], made[r]),
           \A q \in Requests \ {r} : got'[q] = got[q]
    PROVE  FlowInv'
  <1>1. /\ stream'[r] = "ended" /\ stopped'[r] = TRUE /\ item'[r] = NoItem
        /\ \A q \in Requests \ {r} :
              stream'[q] = stream[q] /\ stopped'[q] = stopped[q] /\ item'[q] = item[q]
        /\ stopped' \in [Requests -> BOOLEAN]
        /\ item' \in [Requests -> Items \cup {Heartbeat, NoItem}]
        /\ UNCHANGED <<state, lock, client, thread, todo, over, made, puts, queue, unstarted>>
    BY DEF End, threadVars, loopVars, FlowInv, FlowTypes, LockInv
  <1>2. FlowTypes'
    BY <1>1 DEF FlowInv, FlowTypes
  <1>3. FlowOf(r)'
    BY <1>1 DEF FlowInv, FlowOf, Flow
  <1> QED BY <1>1, <1>2, <1>3, FlowKept

LEMMA WrittenFlow ==
    ASSUME FlowInv, LockInv, BacklogInv, NEW r \in Requests, Written(r)
    PROVE  FlowInv'
  <1>1. /\ stream[r] = "yielding" /\ item[r] # NoItem /\ FlowOf(r)
        /\ item[r] \in Items \cup {Heartbeat} /\ got \in [Requests -> Seq(Items)]
        /\ made[r] \in Seq(Items) /\ got[r] \in Seq(Items) /\ queue[r] \in Seq(Items)
    BY DEF Written, FlowInv, FlowOf, FlowTypes, BacklogInv
  <1>2. Heartbeat \notin Items /\ NoItem \notin Items
    BY DEF Heartbeat, NoItem, Items, Delta, Usage, Done, Error
  <1>3. PICK t \in Seq(Items) : t = Unsent(r)
    <2>1. Unsent(r) \in Seq(Items)
      BY DEF Unsent, BacklogInv
    <2> QED BY <2>1
  <1>4. /\ got' \in [Requests -> Seq(Items)] /\ \A q \in Requests \ {r} : got'[q] = got[q]
        /\ client[r] = "gone" \/ item[r] = Heartbeat => got'[r] = got[r]
        /\ client[r] = "here" /\ item[r] # Heartbeat =>
              item[r] \in Items /\ got'[r] = Append(got[r], item[r])
    BY <1>1 DEF Written
  <1>5. PICK h \in Seq(Items) : h = got'[r]
    BY <1>4
  <1>6. client[r] = "here" => made[r] = h \o <<>> \o queue[r] \o t
    <2> SUFFICES ASSUME client[r] = "here" PROVE made[r] = h \o <<>> \o queue[r] \o t
      OBVIOUS
    <2>1. made[r] = got[r] \o Yielded(item[r]) \o queue[r] \o t
      BY <1>1, <1>3 DEF FlowOf, Flow
    <2>2. CASE item[r] = Heartbeat
      <3>1. Yielded(item[r]) = <<>> /\ h = got[r]
        BY <1>2, <1>4, <1>5, <2>2 DEF Yielded
      <3> QED BY <2>1, <3>1
    <2>3. CASE item[r] # Heartbeat
      <3>1. PICK x \in Items : x = item[r]
        BY <1>1, <2>3
      <3>2. Yielded(item[r]) = <<x>> /\ h = Append(got[r], x)
        BY <1>4, <1>5, <2>3, <3>1 DEF Yielded
      <3>3. PICK g \in Seq(Items), q \in Seq(Items) : g = got[r] /\ q = queue[r]
        BY <1>1
      <3>4. g \o <<x>> \o q \o t = Append(g, x) \o <<>> \o q \o t
        BY Moves
      <3> QED BY <2>1, <3>2, <3>3, <3>4
    <2> QED BY <2>2, <2>3
  <1>7. IsPrefix(h, made[r])
    <2>1. CASE client[r] = "gone"
      BY <1>1, <1>4, <1>5, <2>1 DEF FlowOf
    <2>2. CASE client[r] = "here"
      <3>1. PICK q \in Seq(Items) : q = queue[r]
        BY <1>1
      <3>2. IsPrefix(h, h \o <<>> \o q \o t)
        BY PrefixOfFlow
      <3> QED BY <1>6, <2>2, <3>1, <3>2
    <2>3. client[r] \in {"here", "gone"}
      BY DEF FlowInv, FlowTypes
    <2> QED BY <2>1, <2>2, <2>3
  <1>8. CASE item[r] \in {Done, Error}
    <2>1. End(r)
      BY <1>8 DEF Written
    <2> QED BY <1>4, <1>5, <1>7, <2>1, EndFlow
  <1>9. CASE item[r] \notin {Done, Error}
    <2>1. /\ stream'[r] = "reading" /\ item'[r] = NoItem
          /\ \A q \in Requests \ {r} : stream'[q] = stream[q] /\ item'[q] = item[q]
          /\ item' \in [Requests -> Items \cup {Heartbeat, NoItem}]
          /\ UNCHANGED <<state, lock, client, thread, todo, over, made, stopped, puts, queue,
                         unstarted>>
      BY <1>9 DEF Written, threadVars, loopVars, FlowInv, FlowTypes, LockInv
    <2>2. FlowTypes'
      BY <1>4, <2>1 DEF FlowInv, FlowTypes
    <2>3. Unsent(r)' = t /\ Yielded(item'[r]) = <<>>
      BY <1>2, <1>3, <2>1 DEF Unsent, Yielded
    <2>4. Flow(r)'
      BY <1>5, <1>6, <2>1, <2>3 DEF Flow
    <2>5. FlowOf(r)'
      BY <1>1, <1>5, <1>7, <2>1, <2>4 DEF FlowOf
    <2> QED BY <1>4, <2>1, <2>2, <2>5, FlowKept
  <1> QED BY <1>8, <1>9

\* Steps that move no item.
LEMMA StillFlow ==
    ASSUME FlowInv, LockInv, BacklogInv, NEW r \in Requests,
           \/ Accept(r) \/ StartStream(r) \/ NeverStarts(r) \/ Release(r) \/ Leave(r)
           \/ TimedOut(r) \/ CancelResponse(r) \/ Collect(r)
    PROVE  FlowInv'
  <1>1. FlowOf(r) /\ FlowTypes
    BY DEF FlowInv
  <1>2. Yielded(NoItem) = <<>> /\ Yielded(Heartbeat) = <<>> /\ Heartbeat # NoItem
    BY DEF Yielded, Heartbeat, NoItem, Items, Delta, Usage, Done, Error
  <1>3. ASSUME End(r), UNCHANGED got PROVE FlowInv'
    BY <1>1, <1>3, EndFlow DEF FlowOf, FlowTypes
  <1>4. CASE Accept(r) \/ NeverStarts(r)
    <2>1. FlowTypes'
      BY <1>1, <1>4, WorkerAssumption DEF Accept, NeverStarts, FlowTypes, threadVars
    <2>2. /\ stream'[r] \notin {"yielding", "abandoned"}
          /\ stream[r] \in {"none", "ready"}
          /\ stream[r] = "none" => stream'[r] \in {"ready", "refused"}
          /\ stream[r] = "ready" => stream'[r] = "ended"
          /\ \A q \in Requests \ {r} : stream'[q] = stream[q]
          /\ UNCHANGED <<client, thread, todo, made, stopped, item, got, puts, queue>>
      BY <1>4 DEF Accept, NeverStarts, threadVars, loopVars, LockInv
    <2>3. FlowOf(r)'
      BY <1>1, <2>2 DEF FlowOf, Flow, Unsent
    <2> QED BY <2>1, <2>2, <2>3, FlowKept
  <1>5. CASE StartStream(r)
    <2>1. /\ thread[r] = "none" /\ thread'[r] = "computing" /\ stream'[r] = "reading"
          /\ stream[r] = "ready"
          /\ \A q \in Requests \ {r} : stream'[q] = stream[q] /\ thread'[q] = thread[q]
          /\ UNCHANGED <<state, lock, client, todo, over, made, stopped, item, got, puts, queue,
                         unstarted>>
      BY <1>5 DEF StartStream, LockInv, loopVars
    <2>2. FlowTypes'
      BY <1>1, <2>1 DEF FlowTypes
    <2>3. FlowOf(r)'
      BY <1>1, <2>1 DEF FlowOf, Flow, Unsent
    <2> QED BY <2>1, <2>2, <2>3, FlowKept
  <1>6. CASE Release(r)
    <2>1. /\ thread[r] = "releasing" /\ thread'[r] = "ended" /\ lock' = Nobody
          /\ \A q \in Requests \ {r} : thread'[q] = thread[q]
          /\ UNCHANGED <<state, client, stream, todo, over, made, stopped, item, got, puts,
                         queue, unstarted>>
      BY <1>6 DEF Release, LockInv, loopVars, streamVars
    <2>2. FlowTypes'
      BY <1>1, <2>1 DEF FlowTypes
    <2>3. FlowOf(r)'
      BY <1>1, <2>1 DEF FlowOf, Flow, Unsent
    <2> QED BY <2>1, <2>2, <2>3, FlowKept
  <1>7. CASE Leave(r)
    <2>1. /\ client'[r] = "gone" /\ \A q \in Requests \ {r} : client'[q] = client[q]
          /\ client' \in [Requests -> {"here", "gone"}]
          /\ UNCHANGED <<state, lock, thread, stream, todo, over, made, stopped, item, got, puts,
                         queue, unstarted>>
      BY <1>1, <1>7 DEF Leave, FlowTypes, threadVars, loopVars, streamVars
    <2>2. FlowTypes'
      BY <1>1, <2>1 DEF FlowTypes
    <2>3. FlowOf(r)'
      BY <1>1, <2>1 DEF FlowOf, Flow
    <2> QED BY <2>1, <2>2, <2>3, FlowKept
  <1>8. CASE TimedOut(r)
    <2>1. CASE client[r] = "gone" /\ End(r) /\ UNCHANGED got
      BY <1>3, <2>1
    <2>2. CASE ~(client[r] = "gone" /\ End(r) /\ UNCHANGED got)
      <3>1. /\ stream[r] = "reading" /\ stream'[r] = "yielding" /\ item'[r] = Heartbeat
            /\ \A q \in Requests \ {r} : stream'[q] = stream[q] /\ item'[q] = item[q]
            /\ item' \in [Requests -> Items \cup {Heartbeat, NoItem}]
            /\ UNCHANGED <<state, lock, client, thread, todo, over, made, stopped, got, puts,
                           queue, unstarted>>
        BY <1>1, <1>8, <2>2 DEF TimedOut, threadVars, loopVars, FlowTypes, LockInv
      <3>2. FlowTypes'
        BY <1>1, <3>1 DEF FlowTypes
      <3>3. item[r] = NoItem /\ Unsent(r)' = Unsent(r)
        BY <1>1, <3>1 DEF FlowOf, Unsent
      <3>4. FlowOf(r)'
        BY <1>1, <1>2, <3>1, <3>3 DEF FlowOf, Flow
      <3> QED BY <3>1, <3>2, <3>4, FlowKept
    <2> QED BY <2>1, <2>2
  <1>9. CASE CancelResponse(r)
    <2>1. CASE stream[r] = "reading"
      BY <1>3, <1>9, <2>1 DEF CancelResponse
    <2>2. CASE stream[r] # "reading"
      <3>1. /\ client[r] = "gone" /\ stream[r] = "yielding" /\ stream'[r] = "abandoned"
            /\ \A q \in Requests \ {r} : stream'[q] = stream[q]
            /\ UNCHANGED <<state, lock, client, thread, todo, over, made, stopped, item, got,
                           puts, queue, unstarted>>
        BY <1>9, <2>2 DEF CancelResponse, threadVars, loopVars, LockInv
      <3>2. FlowTypes'
        BY <1>1, <3>1 DEF FlowTypes
      <3>3. FlowOf(r)'
        BY <1>1, <3>1 DEF FlowOf, Flow
      <3> QED BY <3>1, <3>2, <3>3, FlowKept
    <2> QED BY <2>1, <2>2
  <1>10. CASE Collect(r)
    BY <1>3, <1>10 DEF Collect
  <1> QED BY <1>4, <1>5, <1>6, <1>7, <1>8, <1>9, <1>10

LEMMA FlowInit == Init => FlowInv
  <1> SUFFICES ASSUME Init PROVE FlowInv
    OBVIOUS
  <1>1. <<>> \in Seq(Items) /\ <<>> \o <<>> = <<>> /\ IsPrefix(<<>>, <<>>)
    BY DEF IsPrefix
  <1>2. Yielded(NoItem) = <<>>
    BY DEF Yielded, NoItem, Items, Delta, Usage, Done, Error
  <1>3. FlowTypes
    BY <1>1, WorkerAssumption DEF Init, FlowTypes
  <1>4. ASSUME NEW r \in Requests PROVE FlowOf(r)
    BY <1>1, <1>2 DEF Init, FlowOf, Flow, Unsent
  <1> QED BY <1>3, <1>4 DEF FlowInv

LEMMA FlowNext ==
    ASSUME FlowInv, LockInv, BacklogInv, [Next]_vars
    PROVE  FlowInv'
  <1>1. CASE BeginLoad \/ EndLoad \/ UNCHANGED vars
    <2>1. /\ state' \in {"OFFLINE", "LOADING", "ONLINE", "ERROR"}
          /\ UNCHANGED <<lock, client, thread, stream, todo, over, made, stopped, item, got, puts,
                         queue, unstarted>>
      BY <1>1 DEF BeginLoad, EndLoad, vars, threadVars, streamVars, loopVars, FlowInv, FlowTypes
    <2>2. FlowTypes'
      BY <2>1 DEF FlowInv, FlowTypes
    <2>3. \A r \in Requests : FlowOf(r)'
      BY <2>1 DEF FlowInv, FlowOf, Flow, Unsent
    <2> QED BY <2>2, <2>3 DEF FlowInv
  <1> SUFFICES ASSUME NEW r \in Requests,
                      \/ Accept(r) \/ StartStream(r) \/ NeverStarts(r)
                      \/ Infer(r)
                      \/ Put(r) \/ Get(r) \/ TimedOut(r) \/ Written(r)
                      \/ Leave(r) \/ CancelResponse(r) \/ Collect(r)
               PROVE  FlowInv'
    BY <1>1, Zenon DEF Next
  <1>2. CASE Chunk(r) \/ Exhausted(r) \/ InferenceFails(r)
    <2>1. Usage \in Items /\ Done \in Items /\ Error \in Items
          /\ \A n \in 1..MaxChunks : Delta(n) \in Items
      BY DEF Items
    <2>2. over' \in [Requests -> BOOLEAN] /\ thread[r] = "computing"
      BY <1>2 DEF Chunk, Exhausted, InferenceFails, FlowInv, FlowTypes
    <2>3. CASE \E s \in {<<Done>>, <<Error>>} : Push(r, s)
      <3>1. <<Done>> \in Seq(Items) /\ <<Error>> \in Seq(Items)
        BY <2>1
      <3> QED BY <2>2, <2>3, <3>1, PushFlow
    <2>4. CASE Chunk(r) /\ ~\E s \in {<<Done>>, <<Error>>} : Push(r, s)
      <3>1. chunks'[r] \in 1..MaxChunks
        BY <2>4, WorkerAssumption DEF Chunk, BacklogInv
      <3>2. PICK t \in {<<>>, <<Delta(chunks'[r])>>}, u \in {<<>>, <<Usage>>} : Push(r, t \o u)
        BY <2>4 DEF Chunk
      <3>3. t \in Seq(Items) /\ u \in Seq(Items)
        <4>1. /\ <<>> \in Seq(Items) /\ <<Delta(chunks'[r])>> \in Seq(Items)
              /\ <<Usage>> \in Seq(Items)
          BY <2>1, <3>1
        <4> QED BY <4>1, Zenon
      <3>4. t \o u \in Seq(Items)
        BY <3>3
      <3> QED BY <2>2, <3>2, <3>4, PushFlow
    <2> QED BY <1>2, <2>3, <2>4 DEF Exhausted, InferenceFails
  <1>3. CASE Accept(r) \/ StartStream(r) \/ NeverStarts(r) \/ Release(r) \/ Leave(r)
             \/ TimedOut(r) \/ CancelResponse(r) \/ Collect(r)
    BY <1>3, StillFlow
  <1>4. CASE Submit(r) \/ Wait(r) \/ Put(r) \/ Get(r) \/ Written(r)
    BY <1>4, SubmitFlow, WaitFlow, PutFlow, GetFlow, WrittenFlow
  <1> QED BY <1>2, <1>3, <1>4 DEF Infer

\* What a client got, at any time, is what the model made, from the first item on and
\* with nothing lost, repeated or swapped on the way through the two threads.
THEOREM Faithful == Spec => []StreamFaithful
  <1>1. ASSUME LockInv, BacklogInv, FlowInv PROVE StreamFaithful
    BY <1>1 DEF StreamFaithful, TypeOK, LockInv, BacklogInv, FlowInv, FlowTypes, FlowOf
  <1> QED
    BY <1>1, LockInit, LockNext, BacklogInit, BacklogNext, FlowInit, FlowNext, PTL DEF Spec

-----------------------------------------------------------------------------
(* One model *)

\* The thread is in its loop until it has made the last item, and frees the lock after it.
EndInv ==
    \A r \in Requests :
        /\ thread[r] = "none" => made[r] = <<>>
        /\ thread[r] = "computing" => ~over[r]
        /\ thread[r] = "releasing" => over[r]
        /\ over[r] <=> Promise!Concluded(made[r])

WorkerInv == LockInv /\ BacklogInv /\ FlowInv /\ EndInv

\* An answer ends with what is added to it last.
LEMMA ConcludedConcat ==
    ASSUME NEW m \in Seq(Items), NEW s \in Seq(Items), s # <<>>
    PROVE  Promise!Concluded(m \o s) <=> s[Len(s)] \in {Done, Error}
  <1>1. /\ Len(m \o s) = Len(m) + Len(s) /\ Len(m) \in Nat /\ Len(s) \in Nat /\ Len(s) > 0
        /\ (m \o s)[Len(m) + Len(s)] = s[Len(s)]
    OBVIOUS
  <1>2. m \o s # <<>>
    BY <1>1
  <1> QED BY <1>1, <1>2 DEF Promise!Concluded

\* What the thread makes at once: the end, or text, a reason or both.
LEMMA Makes ==
    ASSUME WorkerInv, NEW r \in Requests, Chunk(r) \/ Exhausted(r) \/ InferenceFails(r)
    PROVE  \E s \in Seq(Items) :
              /\ Push(r, s) /\ thread[r] = "computing"
              /\ \A q \in Requests \ {r} : over'[q] = over[q]
              /\ \/ s \in {<<Done>>, <<Error>>} /\ over'[r]
                 \/ /\ over'[r] = over[r]
                    /\ \E n \in 1..MaxChunks : \E text \in {<<>>, <<Delta(n)>>},
                                                  reason \in {<<>>, <<Usage>>} :
                          s = text \o reason
  <1>1. Usage \in Items /\ Done \in Items /\ Error \in Items
        /\ \A n \in 1..MaxChunks : Delta(n) \in Items
    BY DEF Items
  <1>2. <<Done>> \in Seq(Items) /\ <<Error>> \in Seq(Items)
    BY <1>1
  <1>3. over \in [Requests -> BOOLEAN] /\ chunks \in [Requests -> 0..MaxChunks]
    BY DEF WorkerInv, FlowInv, FlowTypes, BacklogInv
  <1>4. CASE \E s \in {<<Done>>, <<Error>>} :
                Push(r, s) /\ thread[r] = "computing" /\ over' = [over EXCEPT ![r] = TRUE]
    BY <1>2, <1>3, <1>4
  <1>5. CASE Chunk(r) /\ ~stopped[r]
    <2>1. /\ thread[r] = "computing" /\ UNCHANGED over
          /\ \E text \in {<<>>, <<Delta(chunks'[r])>>}, reason \in {<<>>, <<Usage>>} :
                Push(r, text \o reason)
      BY <1>5 DEF Chunk
    <2>2. PICK n \in 1..MaxChunks : n = chunks'[r]
      BY <1>3, <1>5, WorkerAssumption DEF Chunk
    <2>3. PICK text \in {<<>>, <<Delta(n)>>}, reason \in {<<>>, <<Usage>>} :
                Push(r, text \o reason)
      BY <2>1, <2>2
    <2>4. /\ <<>> \in Seq(Items) /\ <<Delta(n)>> \in Seq(Items) /\ <<Usage>> \in Seq(Items)
      BY <1>1
    <2>5. text \in Seq(Items) /\ reason \in Seq(Items)
      BY <2>4, Zenon
    <2>6. PICK s : s = text \o reason
      OBVIOUS
    <2>9. s \in Seq(Items)
      BY <2>5, <2>6
    <2>7. Push(r, s)
      BY <2>3, <2>6
    <2>8. \E m \in 1..MaxChunks : \E t \in {<<>>, <<Delta(m)>>}, u \in {<<>>, <<Usage>>} :
             s = t \o u
      BY <2>6
    <2> QED BY <2>1, <2>7, <2>8, <2>9
  <1> QED
    BY <1>4, <1>5 DEF Chunk, Exhausted, InferenceFails

\* A piece that is not the end does not contain one.
LEMMA PieceGoesOn ==
    ASSUME NEW n \in 1..MaxChunks, NEW text \in {<<>>, <<Delta(n)>>},
           NEW reason \in {<<>>, <<Usage>>}, text \o reason # <<>>
    PROVE  (text \o reason)[Len(text \o reason)] \notin {Done, Error}
  <1>1. Delta(n) \notin {Done, Error} /\ Usage \notin {Done, Error}
    BY DEF Delta, Usage, Done, Error
  <1>2. CASE reason = <<Usage>>
    <2>1. Len(text \o reason) = Len(text) + 1 /\ (text \o reason)[Len(text) + 1] = Usage
      BY <1>2
    <2> QED BY <1>1, <2>1
  <1>3. CASE reason = <<>> /\ text = <<Delta(n)>>
    <2>1. Len(text \o reason) = 1 /\ (text \o reason)[1] = Delta(n)
      BY <1>3
    <2> QED BY <1>1, <2>1
  <1>4. CASE reason = <<>> /\ text = <<>>
    BY <1>4
  <1> QED BY <1>2, <1>3, <1>4

LEMMA EndInit == Init => EndInv
  BY DEF Init, EndInv, Promise!Concluded

LEMMA MakesEnd ==
    ASSUME WorkerInv, NEW r \in Requests, Chunk(r) \/ Exhausted(r) \/ InferenceFails(r)
    PROVE  EndInv'
  <1>1. PICK s \in Seq(Items) :
              /\ Push(r, s) /\ thread[r] = "computing"
              /\ \A q \in Requests \ {r} : over'[q] = over[q]
              /\ \/ s \in {<<Done>>, <<Error>>} /\ over'[r]
                 \/ /\ over'[r] = over[r]
                    /\ \E n \in 1..MaxChunks : \E text \in {<<>>, <<Delta(n)>>},
                                                  reason \in {<<>>, <<Usage>>} :
                          s = text \o reason
    BY Makes
  <1>2. PICK m \in Seq(Items) : m = made[r]
    BY DEF WorkerInv, FlowInv, FlowTypes
  <1>3. /\ thread'[r] = IF s = <<>> THEN "computing" ELSE "pushing"
        /\ made'[r] = m \o s
        /\ \A q \in Requests \ {r} : thread'[q] = thread[q] /\ made'[q] = made[q]
    BY <1>1, <1>2 DEF Push, WorkerInv, FlowInv, FlowTypes, LockInv
  <1>8. s \in {<<Done>>, <<Error>>} => s # <<>> /\ s[Len(s)] \in {Done, Error}
    <2>1. s = <<Done>> => s # <<>> /\ s[Len(s)] = Done
      OBVIOUS
    <2>2. s = <<Error>> => s # <<>> /\ s[Len(s)] = Error
      OBVIOUS
    <2> QED BY <2>1, <2>2
  <1>4. ~over[r] /\ (over[r] <=> Promise!Concluded(m))
    BY <1>1, <1>2 DEF WorkerInv, EndInv
  <1>5. over'[r] <=> Promise!Concluded(m \o s)
    <2>1. CASE s \in {<<Done>>, <<Error>>} /\ over'[r]
      <3> QED BY <1>8, <2>1, ConcludedConcat
    <2>2. CASE over'[r] = over[r] /\ s = <<>>
      <3>1. m \o s = m
        BY <2>2, ConcatEmptySeq
      <3> QED BY <1>4, <2>2, <3>1
    <2>3. CASE over'[r] = over[r] /\ s # <<>> /\ s \notin {<<Done>>, <<Error>>}
      <3>1. s[Len(s)] \notin {Done, Error}
        BY <1>1, <2>3, PieceGoesOn
      <3> QED BY <1>4, <2>3, <3>1, ConcludedConcat
    <2>4. CASE over'[r] = over[r] /\ s # <<>> /\ ~(s \in {<<Done>>, <<Error>>} /\ over'[r])
      <3>1. s[Len(s)] \notin {Done, Error}
        BY <1>1, <2>4, PieceGoesOn
      <3> QED BY <1>4, <2>4, <3>1, ConcludedConcat
    <2> QED BY <1>1, <2>1, <2>2, <2>4
  <1>6. thread'[r] = "computing" => ~over'[r]
    BY <1>1, <1>3, <1>4, <1>8
  <1>7. ASSUME NEW q \in Requests, q # r
        PROVE  /\ thread'[q] = "none" => made'[q] = <<>>
               /\ thread'[q] = "computing" => ~over'[q]
               /\ thread'[q] = "releasing" => over'[q]
               /\ over'[q] <=> Promise!Concluded(made'[q])
    BY <1>1, <1>3, <1>7 DEF WorkerInv, EndInv, Promise!Concluded
  <1> QED
    BY <1>3, <1>5, <1>6, <1>7 DEF EndInv, Promise!Concluded

LEMMA EndNext ==
    ASSUME WorkerInv, [Next]_vars
    PROVE  EndInv'
  <1>1. ASSUME UNCHANGED <<thread, made, over>>
        PROVE  EndInv'
    BY <1>1 DEF WorkerInv, EndInv, Promise!Concluded
  <1>2. CASE BeginLoad \/ EndLoad \/ UNCHANGED vars
    BY <1>1, <1>2 DEF BeginLoad, EndLoad, vars, threadVars
  <1> SUFFICES ASSUME NEW r \in Requests,
                      \/ Accept(r) \/ StartStream(r) \/ NeverStarts(r)
                      \/ Infer(r)
                      \/ Put(r) \/ Get(r) \/ TimedOut(r) \/ Written(r)
                      \/ Leave(r) \/ CancelResponse(r) \/ Collect(r)
               PROVE  EndInv'
    BY <1>2, Zenon DEF Next
  <1>3. CASE Accept(r) \/ NeverStarts(r) \/ Put(r) \/ Get(r) \/ Leave(r)
    BY <1>1, <1>3 DEF Accept, NeverStarts, Put, Get, Leave, threadVars
  <1>4. CASE TimedOut(r) \/ Written(r) \/ CancelResponse(r) \/ Collect(r)
    BY <1>1, <1>4 DEF TimedOut, Written, CancelResponse, Collect, End, threadVars
  <1>5. CASE StartStream(r)
    <2>1. thread[r] = "none" /\ ~over[r]
      BY <1>5 DEF StartStream, WorkerInv, LockInv, EndInv, Promise!Concluded
    <2>2. /\ thread'[r] = "computing" /\ UNCHANGED <<made, over>>
          /\ \A q \in Requests \ {r} : thread'[q] = thread[q]
      BY <1>5 DEF StartStream, WorkerInv, LockInv
    <2> QED BY <2>1, <2>2 DEF WorkerInv, EndInv, Promise!Concluded
  <1>6. CASE Submit(r) \/ Wait(r) \/ Release(r)
    <2>1. /\ thread'[r] \in {"waiting", "pushing", "ended", "releasing", "computing"}
          /\ thread'[r] = "releasing" => over[r]
          /\ thread'[r] = "computing" => ~over[r]
          /\ UNCHANGED <<made, over>>
          /\ \A q \in Requests \ {r} : thread'[q] = thread[q]
      BY <1>6 DEF Submit, Wait, Pushed, Release, WorkerInv, LockInv
    <2> QED BY <2>1 DEF WorkerInv, EndInv, Promise!Concluded
  <1>7. CASE Chunk(r) \/ Exhausted(r) \/ InferenceFails(r)
    BY <1>7, MakesEnd
  <1> QED BY <1>3, <1>4, <1>5, <1>6, <1>7 DEF Infer

\* A client's next item is the next one made.
LEMMA WrittenReceives ==
    ASSUME WorkerInv, WorkerInv', NEW r \in Requests, Written(r)
    PROVE  Promise!Next \/ UNCHANGED <<lock, made, got>>
  <1>1. /\ made \in [Requests -> Seq(Items)] /\ got \in [Requests -> Seq(Items)]
        /\ got' \in [Requests -> Seq(Items)] /\ item[r] # NoItem
        /\ item[r] \in Items \cup {Heartbeat, NoItem}
    BY DEF WorkerInv, FlowInv, FlowTypes, FlowOf, Written
  <1>2. UNCHANGED <<lock, made>>
    BY DEF Written, End, threadVars
  <1>3. CASE client[r] = "gone" \/ item[r] = Heartbeat
    BY <1>2, <1>3 DEF Written
  <1>4. CASE ~(client[r] = "gone" \/ item[r] = Heartbeat)
    <2>1. PICK g \in Seq(Items), m \in Seq(Items), x \in Items :
             g = got[r] /\ m = made[r] /\ x = item[r]
      BY <1>1, <1>4
    <2>2. got' = [got EXCEPT ![r] = Append(got[r], item[r])]
      BY <1>4 DEF Written
    <2>3. got'[r] = Append(g, x)
      BY <1>1, <2>1, <2>2
    <2>4. IsPrefix(Append(g, x), m)
      BY <1>2, <2>1, <2>3 DEF WorkerInv, FlowInv, FlowOf
    <2>5. Len(g) < Len(m) /\ m[Len(g) + 1] = x
      <3>1. /\ Len(Append(g, x)) = Len(g) + 1 /\ Append(g, x)[Len(g) + 1] = x
            /\ Len(g) \in Nat /\ Len(m) \in Nat
        OBVIOUS
      <3>2. Len(g) + 1 <= Len(m) /\ Append(g, x) = SubSeq(m, 1, Len(g) + 1)
        BY <2>4, <3>1 DEF IsPrefix
      <3>3. SubSeq(m, 1, Len(g) + 1)[Len(g) + 1] = m[Len(g) + 1]
        BY <3>1, <3>2
      <3> QED BY <3>1, <3>2, <3>3
    <2>6. Promise!Receive(r)
      BY <1>2, <2>1, <2>2, <2>5 DEF Promise!Receive
    <2> QED BY <2>6 DEF Promise!Next
  <1> QED BY <1>3, <1>4

LEMMA Pair ==
    ASSUME NEW x \in Items, NEW y \in Items
    PROVE  <<x>> \o <<y>> = <<x, y>>
  <1>1. /\ <<x>> \in Seq(Items) /\ <<x, y>> \in Seq(Items)
        /\ Append(<<x>>, y) \in Seq(Items) /\ <<x>> \o <<y>> = Append(<<x>>, y)
    BY AppendIsConcat
  <1>2. /\ Len(Append(<<x>>, y)) = 2 /\ Len(<<x, y>>) = 2
        /\ Append(<<x>>, y)[1] = x /\ Append(<<x>>, y)[2] = y
        /\ <<x, y>>[1] = x /\ <<x, y>>[2] = y
    OBVIOUS
  <1>3. \A i \in 1..2 : Append(<<x>>, y)[i] = <<x, y>>[i]
    BY <1>2
  <1> QED BY <1>1, <1>2, <1>3, SeqEqual

LEMMA MakesPiece ==
    ASSUME WorkerInv, NEW r \in Requests, Chunk(r) \/ Exhausted(r) \/ InferenceFails(r)
    PROVE  Promise!Next
  <1>1. PICK s \in Seq(Items) :
              /\ Push(r, s) /\ thread[r] = "computing"
              /\ \/ s \in {<<Done>>, <<Error>>}
                 \/ \E n \in 1..MaxChunks : \E text \in {<<>>, <<Delta(n)>>},
                                               reason \in {<<>>, <<Usage>>} :
                       s = text \o reason
    BY Makes
  <1>2. lock = r /\ ~Promise!Concluded(made[r])
    BY <1>1 DEF WorkerInv, LockInv, EndInv, Inferring
  <1>3. Promise!Make(r, s)
    BY <1>1, <1>2 DEF Promise!Make, Push, streamVars
  <1>4. s \in {<<Done>>, <<Error>>}
        \/ \E n \in 1..MaxChunks : s \in {<<>>, <<Delta(n)>>, <<Usage>>, <<Delta(n), Usage>>}
    <2>1. ASSUME NEW n \in 1..MaxChunks, NEW text \in {<<>>, <<Delta(n)>>},
                 NEW reason \in {<<>>, <<Usage>>}
          PROVE  text \o reason \in {<<>>, <<Delta(n)>>, <<Usage>>, <<Delta(n), Usage>>}
      <3>1. /\ <<>> \o <<>> = <<>> /\ <<>> \o <<Usage>> = <<Usage>>
            /\ <<Delta(n)>> \o <<>> = <<Delta(n)>>
        <4>1. <<>> \in Seq(Items) /\ <<Usage>> \in Seq(Items) /\ <<Delta(n)>> \in Seq(Items)
          BY DEF Items
        <4> QED BY <4>1, ConcatEmptySeq
      <3>2. <<Delta(n)>> \o <<Usage>> = <<Delta(n), Usage>>
        <4>1. Delta(n) \in Items /\ Usage \in Items
          BY DEF Items
        <4> QED BY <4>1, Pair
      <3> QED BY <3>1, <3>2, Zenon
    <2> QED BY <1>1, <2>1
  <1>5. s \in {<<Done>>, <<Error>>} \cup
               UNION {{<<>>, <<Delta(n)>>, <<Usage>>, <<Delta(n), Usage>>} :
                      n \in 1..MaxChunks}
    BY <1>4
  <1> QED BY <1>3, <1>5 DEF Promise!Next

LEMMA NextServes ==
    ASSUME WorkerInv, WorkerInv', [Next]_vars
    PROVE  Promise!Next \/ UNCHANGED <<lock, made, got>>
  <1>1. CASE BeginLoad \/ EndLoad \/ UNCHANGED vars
    BY <1>1 DEF BeginLoad, EndLoad, vars, threadVars, streamVars
  <1> SUFFICES ASSUME NEW r \in Requests,
                      \/ Accept(r) \/ StartStream(r) \/ NeverStarts(r)
                      \/ Infer(r)
                      \/ Put(r) \/ Get(r) \/ TimedOut(r) \/ Written(r)
                      \/ Leave(r) \/ CancelResponse(r) \/ Collect(r)
               PROVE  Promise!Next \/ UNCHANGED <<lock, made, got>>
    BY <1>1, Zenon DEF Next
  <1>2. CASE Accept(r)
    <2>1. made[r] = <<>> /\ UNCHANGED <<made, got>>
      BY <1>2 DEF Accept, threadVars, WorkerInv, LockInv, EndInv
    <2>2. CASE state = "ONLINE" /\ lock = Nobody
      <3>1. Promise!Serve(r)
        BY <1>2, <2>1, <2>2 DEF Accept, Promise!Serve
      <3> QED BY <3>1 DEF Promise!Next
    <2>3. CASE ~(state = "ONLINE" /\ lock = Nobody)
      BY <1>2, <2>1, <2>3 DEF Accept
    <2> QED BY <2>2, <2>3
  <1>3. CASE StartStream(r) \/ NeverStarts(r) \/ Put(r) \/ Get(r) \/ TimedOut(r) \/ Leave(r)
             \/ CancelResponse(r) \/ Collect(r) \/ Submit(r) \/ Wait(r)
    BY <1>3 DEF StartStream, NeverStarts, Put, Get, TimedOut, Leave, CancelResponse, Collect,
       Submit, Wait, Pushed, End, threadVars, streamVars
  <1>4. CASE Release(r)
    <2>1. lock = r /\ Promise!Concluded(made[r])
      BY <1>4 DEF Release, WorkerInv, LockInv, EndInv
    <2>2. Promise!Free(r)
      BY <1>4, <2>1 DEF Release, streamVars, Promise!Free
    <2> QED BY <2>2 DEF Promise!Next
  <1>5. CASE Chunk(r) \/ Exhausted(r) \/ InferenceFails(r)
    BY <1>5, MakesPiece
  <1>6. CASE Written(r)
    BY <1>6, WrittenReceives
  <1> QED BY <1>2, <1>3, <1>4, <1>5, <1>6 DEF Infer

\* "serialized inference", of the whole worker: for any number of requests and any size of
\* the queue it behaves as one model that answers a request to the end before it is free
\* for the next, and sends every client its items in order, whoever leaves meanwhile.
THEOREM AsOneModel == Spec => ImplementsOneModel
  <1>1. Init => Promise!Init
    BY DEF Init, Promise!Init
  <1>2. Init => WorkerInv
    BY LockInit, BacklogInit, FlowInit, EndInit DEF WorkerInv
  <1>3. WorkerInv /\ [Next]_vars => WorkerInv'
    BY LockNext, BacklogNext, FlowNext, EndNext DEF WorkerInv
  <1>4. WorkerInv /\ WorkerInv' /\ [Next]_vars => [Promise!Next]_<<lock, made, got>>
    BY NextServes
  <1> QED
    BY <1>1, <1>2, <1>3, <1>4, PTL DEF Spec, ImplementsOneModel, Promise!Spec
=============================================================================
