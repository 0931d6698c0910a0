---------------------------- MODULE CopilotProofs ---------------------------
(***************************************************************************)
(* What holds of the copilot for every value of the constants: of its      *)
(* memory and lease (CopilotMemory), of one answer (CopilotTurn), of the   *)
(* settings it takes a model and a key from (AiSettings), and of its       *)
(* notifications (Notifications).                                          *)
(*                                                                         *)
(* The four share no variable; each section is about one of them.          *)
(***************************************************************************)
EXTENDS CopilotMemory, CopilotTurn, AiSettings, Notifications, FiniteSetTheorems,
        SequenceTheorems, TLAPS

-----------------------------------------------------------------------------
(* The memory and the lease: for every set of handlers, every timeout and  *)
(* every slack, however many deletions and faults there are.               *)

\* Kinds of requests that take the lease.
Leasing == {"chat", "legacy", "delete", "preferences"}
\* Stages in which a handler of such a request may still write.
Writing == {"leased", "ready", "running", "answered"}

Writes(x) == h[x].work \in Leasing /\ h[x].st \in Writing

\* How far each kind of request can have come.
StageInv ==
    \A x \in Handlers :
        /\ h[x].st = "idle" <=> h[x].work = "none"
        /\ h[x].st = "leased" => h[x].work \in Leasing
        /\ h[x].st = "ready" => h[x].work \in {"chat", "legacy", "mute", "tool"}
        /\ h[x].st \in {"running", "answered", "saved"} => h[x].work \in {"chat", "legacy"}
        /\ h[x].st \in {"leased", "ready"} => h[x].left <= Slack

\* The ticks a handler may still spend on writing.
Remaining(x) == IF h[x].st \in {"leased", "ready"} THEN h[x].left + T ELSE h[x].left

\* Whoever may still write owns the lease, and the lease outlives the writing.
LeaseInv ==
    ~redisLost => \A x \in Handlers :
        Writes(x) => lease.owner = x /\ lease.ttl > Remaining(x)

\* ... so no deletion was acknowledged since it began,
BornInv == ~redisLost => \A x \in Handlers : Writes(x) => h[x].born = epoch

\* what a deletion under way has erased stays erased,
ErasedInv ==
    ~redisLost => \A x \in Handlers :
        h[x].work = "delete" =>
            /\ h[x].done >= 1 => stored["conversation"] = Nil
            /\ h[x].done >= 2 => stored["incident"] = Nil
            /\ h[x].done >= 5 => stored["legacy"] = Nil

\* and the preferences it has read are those that hold.
OptedOutInv ==
    ~redisLost /\ ~reverted /\ optedOut =>
        /\ ~memoryOn
        /\ \A x \in Handlers :
              h[x].work \in {"chat", "legacy"} /\ h[x].st \in {"ready", "running", "answered"}
                  => ~h[x].on

IInv ==
    /\ TypeOK /\ StageInv /\ LeaseInv /\ BornInv /\ ErasedInv /\ OptedOutInv
    /\ DeletedStaysDeleted /\ DisabledMemoryRetainsNothing

-----------------------------------------------------------------------------
LEMMA InitInv ==
    ASSUME Init
    PROVE  IInv
  <1>1. Free \in Handler
    BY MemoryAssumption DEF Free, Handler, Erased
  <1>2. TypeOK
    <2>1. lease \in [owner : Handlers \cup {NoOne}, ttl : 0..(T + Slack + 1)]
      BY MemoryAssumption DEF Init, Unleased
    <2>2. stored \in [Kinds -> Nat \cup {Nil}] /\ h \in [Handlers -> Handler]
      BY <1>1 DEF Init
    <2>3. epoch \in Nat /\ faults \in 0..MaxFaults
      BY MemoryAssumption DEF Init
    <2> QED BY <2>1, <2>2, <2>3 DEF Init, TypeOK
  <1>3. \A x \in Handlers : h[x].work = "none" /\ h[x].st = "idle"
    BY DEF Init, Free
  <1>4. \A k \in Messages : stored[k] = Nil
    BY DEF Init, Messages, Kinds
  <1> QED
    BY <1>2, <1>3, <1>4 DEF Init, IInv, StageInv, LeaseInv, BornInv, ErasedInv, OptedOutInv,
       DeletedStaysDeleted, DisabledMemoryRetainsNothing, Writes, Leasing

\* A handler that ends leaves nothing to be shown of it.
LEMMA EndsInv ==
    ASSUME IInv, NEW x \in Handlers,
           h' = [h EXCEPT ![x] = Free], lease' \in {lease, Released(x)},
           stored' \in [Kinds -> Nat \cup {Nil}],
           \A k \in Messages : stored'[k] = stored[k],
           epoch' = epoch \/ Writes(x), UNCHANGED redisLost
    PROVE  /\ h' \in [Handlers -> Handler] /\ h'[x] = Free
           /\ \A y \in Handlers \ {x} : h'[y] = h[y]
           /\ lease' \in [owner : Handlers \cup {NoOne}, ttl : 0..(T + Slack + 1)]
           /\ StageInv' /\ LeaseInv' /\ BornInv' /\ ErasedInv'
  <1>1. Free \in Handler /\ Free.st = "idle" /\ Free.work = "none"
    BY MemoryAssumption DEF Free, Handler, Erased
  <1>2. h' \in [Handlers -> Handler] /\ h'[x] = Free /\ \A y \in Handlers \ {x} : h'[y] = h[y]
    BY <1>1 DEF IInv, TypeOK
  <1>3. lease' \in [owner : Handlers \cup {NoOne}, ttl : 0..(T + Slack + 1)]
    BY MemoryAssumption DEF IInv, TypeOK, Released, Unleased
  <1>4. StageInv'
    BY <1>1, <1>2 DEF IInv, StageInv
  <1>5. LeaseInv'
    <2> SUFFICES ASSUME ~redisLost, NEW y \in Handlers, Writes(y)'
                 PROVE  lease'.owner = y /\ lease'.ttl > Remaining(y)'
      BY DEF LeaseInv
    <2>1. y # x /\ h'[y] = h[y]
      BY <1>1, <1>2 DEF Writes, Writing
    <2>2. Writes(y) /\ Remaining(y)' = Remaining(y)
      BY <2>1 DEF Writes, Remaining
    <2>3. lease.owner = y /\ lease.ttl > Remaining(y)
      BY <2>2 DEF IInv, LeaseInv
    <2> QED BY <2>1, <2>2, <2>3 DEF Released
  <1>6. BornInv'
    <2> SUFFICES ASSUME ~redisLost, NEW y \in Handlers, Writes(y)'
                 PROVE  h'[y].born = epoch'
      BY DEF BornInv
    <2>1. y # x /\ h'[y] = h[y]
      BY <1>1, <1>2 DEF Writes, Writing
    <2>2. Writes(y) /\ h[y].born = epoch
      BY <2>1 DEF IInv, BornInv, Writes
    <2>3. ~Writes(x)
      BY <2>1, <2>2 DEF IInv, LeaseInv
    <2> QED BY <2>1, <2>2, <2>3
  <1>7. ErasedInv'
    BY <1>1, <1>2 DEF IInv, ErasedInv, Messages
  <1> QED BY <1>2, <1>3, <1>4, <1>5, <1>6, <1>7

\* The stage of one handler changes, and nothing is erased or acknowledged: what is to be
\* shown of the others is untouched.
LEMMA AdvanceInv ==
    ASSUME IInv, NEW x \in Handlers, NEW r \in Handler,
           h' = [h EXCEPT ![x] = r],
           UNCHANGED <<lease, epoch, redisLost>>,
           h[x].work # "delete", r.work = h[x].work, r.born = h[x].born,
           /\ r.st # "idle" /\ h[x].st # "idle"
           /\ r.st = "leased" => r.work \in Leasing
           /\ r.st = "ready" => r.work \in {"chat", "legacy", "mute", "tool"}
           /\ r.st \in {"running", "answered", "saved"} => r.work \in {"chat", "legacy"}
           /\ r.st \in {"leased", "ready"} => r.left <= Slack,
           r.work \in Leasing /\ r.st \in Writing =>
              /\ h[x].st \in Writing
              /\ (IF r.st \in {"leased", "ready"} THEN r.left + T ELSE r.left) <= Remaining(x),
           \A k \in Messages : stored'[k] # stored[k] => Writes(x)
    PROVE  /\ h' \in [Handlers -> Handler] /\ h'[x] = r
           /\ \A y \in Handlers \ {x} : h'[y] = h[y]
           /\ StageInv' /\ LeaseInv' /\ BornInv'
           /\ \A y \in Handlers : ~redisLost /\ h[y].work = "delete"
                  => \A k \in Messages : stored'[k] = stored[k]
           /\ ErasedInv'
  <1>1. h' \in [Handlers -> Handler] /\ h'[x] = r /\ \A y \in Handlers \ {x} : h'[y] = h[y]
    BY DEF IInv, TypeOK
  <1>2. StageInv'
    BY <1>1 DEF IInv, StageInv
  <1>3. LeaseInv'
    <2> SUFFICES ASSUME ~redisLost, NEW y \in Handlers, Writes(y)'
                 PROVE  lease.owner = y /\ lease.ttl > Remaining(y)'
      BY DEF LeaseInv
    <2>1. CASE y = x
      <3>1. Writes(x)
        BY <1>1, <2>1 DEF Writes
      <3>2. Remaining(x)' <= Remaining(x)
        BY <1>1, <2>1 DEF Writes, Remaining
      <3>3. /\ lease.owner = x /\ lease.ttl > Remaining(x) /\ lease.ttl \in Int
            /\ Remaining(x) \in Int /\ Remaining(x)' \in Int
        BY <1>1, <3>1, MemoryAssumption DEF IInv, LeaseInv, TypeOK, Handler, Remaining
      <3> QED BY <2>1, <3>2, <3>3
    <2>2. CASE y # x
      BY <1>1, <2>2 DEF IInv, LeaseInv, Writes, Remaining
    <2> QED BY <2>1, <2>2
  <1>4. BornInv'
    BY <1>1 DEF IInv, BornInv, Writes
  <1>5. ASSUME NEW y \in Handlers, ~redisLost, h[y].work = "delete"
        PROVE  \A k \in Messages : stored'[k] = stored[k]
    <2>1. Writes(y)
      BY <1>5 DEF IInv, StageInv, Writes, Leasing, Writing, TypeOK, Handler
    <2>2. ~Writes(x)
      BY <1>5, <2>1 DEF IInv, LeaseInv
    <2> QED BY <2>2
  <1>6. ErasedInv'
    BY <1>1, <1>5 DEF IInv, ErasedInv, Messages
  <1> QED BY <1>1, <1>2, <1>3, <1>4, <1>5, <1>6

\* What a handler writes: messages only as a holder of the lease that has memory on, and
\* then they are of its own epoch and nobody has opted out.
LEMMA PutInv ==
    ASSUME IInv, NEW x \in Handlers, NEW k \in Kinds, Put(x, k),
           k \in Messages => Writes(x) /\ h[x].on
                             /\ h[x].work \in {"chat", "legacy"}
                             /\ h[x].st \in {"ready", "running", "answered"},
           UNCHANGED <<epoch, optedOut, reverted, redisLost>>
    PROVE  /\ stored' \in [Kinds -> Nat \cup {Nil}] /\ retained' \in BOOLEAN
           /\ \A m \in Messages : stored'[m] # stored[m] => Writes(x)
           /\ ~redisLost => \A m \in Messages : stored'[m] # Nil => stored'[m] >= epoch
           /\ DisabledMemoryRetainsNothing'
  <1>1. h[x].born \in Nat
    BY DEF IInv, TypeOK, Handler
  <1>2. stored' \in [Kinds -> Nat \cup {Nil}] /\ retained' \in BOOLEAN
    BY <1>1 DEF Put, IInv, TypeOK
  <1>3. \A m \in Messages : m # k => stored'[m] = stored[m]
    BY DEF Put, IInv, TypeOK, Kinds
  <1>4. k \in Messages => stored'[k] = h[x].born
    BY DEF Put, IInv, TypeOK
  <1>5. ~redisLost => \A m \in Messages : stored'[m] # Nil => stored'[m] >= epoch
    BY <1>1, <1>3, <1>4 DEF IInv, BornInv, DeletedStaysDeleted, TypeOK
  <1>6. DisabledMemoryRetainsNothing'
    BY DEF Put, IInv, OptedOutInv, DisabledMemoryRetainsNothing
  <1> QED BY <1>2, <1>3, <1>5, <1>6

LEMMA ReadInv == ASSUME IInv, NEW x \in Handlers, Read(x) PROVE IInv'
  <1> DEFINE r == [h[x] EXCEPT !.st = "ready", !.on = memoryOn]
  <1>1. /\ r \in Handler /\ r.st = "ready" /\ r.on = memoryOn /\ r.left = h[x].left
        /\ r.work = h[x].work /\ r.born = h[x].born
    BY DEF IInv, TypeOK, Handler
  <1>2. /\ h[x].work \in {"chat", "legacy"} /\ h[x].st = "leased"
        /\ h' = [h EXCEPT ![x] = r]
        /\ UNCHANGED <<lease, stored, memoryOn, history, faults, redisLost>>
    BY DEF Read, IInv, TypeOK
  <1> HIDE DEF r
  <1>3. h[x].left <= Slack
    BY <1>2 DEF IInv, StageInv
  <1>3a. Remaining(x) = h[x].left + T /\ h[x].left + T <= h[x].left + T
    BY <1>2, MemoryAssumption DEF IInv, TypeOK, Handler, Remaining
  <1>4. /\ h' \in [Handlers -> Handler] /\ h'[x] = r
        /\ \A y \in Handlers \ {x} : h'[y] = h[y]
        /\ StageInv' /\ LeaseInv' /\ BornInv' /\ ErasedInv'
    BY <1>1, <1>2, <1>3, <1>3a, AdvanceInv DEF history, Writing
  <1>5. OptedOutInv'
    BY <1>1, <1>2, <1>4 DEF history, IInv, OptedOutInv
  <1>6. TypeOK' /\ DeletedStaysDeleted' /\ DisabledMemoryRetainsNothing'
    BY <1>2, <1>4 DEF history, IInv, TypeOK, DeletedStaysDeleted, DisabledMemoryRetainsNothing
  <1> QED BY <1>4, <1>5, <1>6 DEF IInv

LEMMA RunInv == ASSUME IInv, NEW x \in Handlers, Run(x) PROVE IInv'
  <1> DEFINE n == IF h[x].work = "chat" THEN T ELSE h[x].left + T
             r == [h[x] EXCEPT !.st = "running", !.left = n]
  <1>1. /\ h[x].work \in {"chat", "legacy"} /\ h[x].st = "ready"
        /\ h' = [h EXCEPT ![x] = r]
        /\ UNCHANGED <<lease, stored, memoryOn, history, faults, redisLost>>
    BY DEF Run, IInv, TypeOK
  <1>2. h[x].left \in Nat /\ h[x].left <= Slack /\ Remaining(x) = h[x].left + T
    BY <1>1, MemoryAssumption DEF IInv, StageInv, TypeOK, Handler, Remaining
  <1>2a. n \in 0..(T + Slack) /\ n <= Remaining(x)
    BY <1>2, MemoryAssumption
  <1> HIDE DEF n
  <1>3. /\ r \in Handler /\ r.st = "running" /\ r.on = h[x].on /\ r.left <= Remaining(x)
        /\ r.work = h[x].work /\ r.born = h[x].born
    BY <1>2a DEF IInv, TypeOK, Handler
  <1> HIDE DEF r
  <1>4. /\ h' \in [Handlers -> Handler] /\ h'[x] = r
        /\ \A y \in Handlers \ {x} : h'[y] = h[y]
        /\ StageInv' /\ LeaseInv' /\ BornInv' /\ ErasedInv'
    BY <1>1, <1>3, AdvanceInv DEF history, Writing
  <1>5. OptedOutInv'
    BY <1>1, <1>3, <1>4 DEF history, IInv, OptedOutInv
  <1>6. TypeOK' /\ DeletedStaysDeleted' /\ DisabledMemoryRetainsNothing'
    BY <1>1, <1>4 DEF history, IInv, TypeOK, DeletedStaysDeleted, DisabledMemoryRetainsNothing
  <1> QED BY <1>4, <1>5, <1>6 DEF IInv

LEMMA GatherInv == ASSUME IInv, NEW x \in Handlers, NEW k \in Kinds, Gather(x, k) PROVE IInv'
  <1>1. /\ h[x].work = "chat" /\ h[x].st = "running" /\ Put(x, k)
        /\ k = "trace" \/ (k = "incident" /\ h[x].on)
        /\ UNCHANGED <<lease, memoryOn, h, epoch, optedOut, reverted, faults, redisLost>>
    BY DEF Gather
  <1>2. Writes(x)
    BY <1>1 DEF Writes, Leasing, Writing
  <1>3. /\ stored' \in [Kinds -> Nat \cup {Nil}] /\ retained' \in BOOLEAN
        /\ \A m \in Messages : stored'[m] # stored[m] => Writes(x)
        /\ ~redisLost => \A m \in Messages : stored'[m] # Nil => stored'[m] >= epoch
        /\ DisabledMemoryRetainsNothing'
    BY <1>1, <1>2, PutInv DEF Messages
  <1>4. h[x] \in Handler /\ h' = [h EXCEPT ![x] = h[x]]
    BY <1>1 DEF IInv, TypeOK
  <1>5. StageInv' /\ LeaseInv' /\ BornInv'
    BY <1>1 DEF IInv, StageInv, LeaseInv, BornInv, Writes, Remaining
  <1>6. ErasedInv'
    <2> SUFFICES ASSUME ~redisLost, NEW y \in Handlers, h[y].work = "delete"
                 PROVE  \A m \in Messages : stored'[m] = stored[m]
      BY <1>1 DEF IInv, ErasedInv, Messages
    <2>1. Writes(y)
      BY DEF IInv, StageInv, Writes, Leasing, Writing, TypeOK, Handler
    <2>2. x = y
      BY <1>2, <2>1 DEF IInv, LeaseInv
    <2> QED BY <1>1, <2>2
  <1>7. TypeOK' /\ DeletedStaysDeleted' /\ OptedOutInv'
    BY <1>1, <1>3 DEF IInv, TypeOK, DeletedStaysDeleted, OptedOutInv
  <1> QED BY <1>3, <1>5, <1>6, <1>7 DEF IInv

LEMMA SaveInv == ASSUME IInv, NEW x \in Handlers, SaveAnswer(x) \/ SaveRest(x) PROVE IInv'
  <1> DEFINE to == IF h[x].st = "running" THEN "answered" ELSE "saved"
             r == [h[x] EXCEPT !.st = to]
  <1>1. /\ h[x].st \in {"running", "answered"} /\ h' = [h EXCEPT ![x] = r]
        /\ UNCHANGED <<lease, memoryOn, epoch, optedOut, reverted, faults, redisLost>>
        /\ \/ UNCHANGED <<stored, retained>>
           \/ Put(x, "trace")
           \/ h[x].on /\ \E k \in {"conversation", "legacy"} : Put(x, k)
    BY DEF SaveAnswer, SaveRest, Saves, IInv, TypeOK
  <1>2. h[x].work \in {"chat", "legacy"} /\ Writes(x)
    BY <1>1 DEF IInv, StageInv, Writes, Leasing, Writing
  <1>2a. h[x].left \in Int /\ Remaining(x) = h[x].left /\ h[x].left <= h[x].left
    BY <1>1, MemoryAssumption DEF IInv, TypeOK, Handler, Remaining
  <1>2b. to \in {"answered", "saved"}
    OBVIOUS
  <1> HIDE DEF to
  <1>3. /\ r \in Handler /\ r.st = to /\ r.on = h[x].on /\ r.left = h[x].left
        /\ r.work = h[x].work /\ r.born = h[x].born
    BY <1>2b DEF IInv, TypeOK, Handler
  <1> DEFINE Kept == /\ stored' \in [Kinds -> Nat \cup {Nil}] /\ retained' \in BOOLEAN
                     /\ \A m \in Messages : stored'[m] # stored[m] => Writes(x)
                     /\ ~redisLost => \A m \in Messages : stored'[m] # Nil => stored'[m] >= epoch
                     /\ DisabledMemoryRetainsNothing'
  <1>4. Kept
    <2>1. CASE UNCHANGED <<stored, retained>>
      BY <1>1, <2>1 DEF IInv, TypeOK, DeletedStaysDeleted, DisabledMemoryRetainsNothing
    <2>2. ASSUME NEW k \in Kinds, Put(x, k), k \in Messages => h[x].on
          PROVE  Kept
      BY <1>1, <1>2, <2>2, PutInv
    <2> QED BY <1>1, <2>1, <2>2 DEF Kinds, Messages
  <1> HIDE DEF r
  <1>5. /\ h' \in [Handlers -> Handler] /\ h'[x] = r
        /\ \A y \in Handlers \ {x} : h'[y] = h[y]
        /\ StageInv' /\ LeaseInv' /\ BornInv' /\ ErasedInv'
    BY <1>1, <1>2, <1>2a, <1>2b, <1>3, <1>4, AdvanceInv DEF Writing
  <1>6. OptedOutInv'
    BY <1>1, <1>2, <1>2b, <1>3, <1>5 DEF IInv, OptedOutInv
  <1>7. TypeOK' /\ DeletedStaysDeleted'
    BY <1>1, <1>4, <1>5 DEF IInv, TypeOK, DeletedStaysDeleted
  <1> QED BY <1>4, <1>5, <1>6, <1>7 DEF IInv


\* A handler that begins.
LEMMA BegunInv ==
    ASSUME IInv, NEW x \in Handlers, NEW w \in AllWork, NEW r \in Handler,
           h[x].st = "idle", h' = [h EXCEPT ![x] = r],
           r.work = w, r.born = epoch, r.left = Slack, r.done = 0,
           \/ r.st = "leased" /\ w \in Leasing
           \/ r.st = "ready" /\ w \in {"mute", "tool"},
           UNCHANGED <<stored, memoryOn, history, faults, redisLost>>,
           lease' \in [owner : Handlers \cup {NoOne}, ttl : 0..(T + Slack + 1)],
           IF w \in Leasing
           THEN lease.owner = NoOne /\ lease'.owner = x /\ lease'.ttl = T + Slack + 1
           ELSE lease' = lease
    PROVE  IInv'
  <1>2. h' \in [Handlers -> Handler] /\ h'[x] = r /\ \A y \in Handlers \ {x} : h'[y] = h[y]
    BY DEF IInv, TypeOK
  <1>3. StageInv'
    BY <1>2, MemoryAssumption DEF IInv, StageInv, AllWork, Leasing
  <1>4. LeaseInv'
    <2> SUFFICES ASSUME ~redisLost, NEW y \in Handlers, Writes(y)'
                 PROVE  lease'.owner = y /\ lease'.ttl > Remaining(y)'
      BY DEF LeaseInv, history
    <2>1. CASE y = x
      <3>1. w \in Leasing /\ Remaining(x)' = Slack + T
        BY <1>2, <2>1 DEF Writes, Remaining
      <3> QED BY <2>1, <3>1, MemoryAssumption
    <2>2. CASE y # x
      <3>1. Writes(y) /\ Remaining(y)' = Remaining(y)
        BY <1>2, <2>2 DEF Writes, Remaining
      <3>2. lease.owner = y /\ lease.ttl > Remaining(y) /\ lease.owner # NoOne
        BY <3>1, MemoryAssumption DEF IInv, LeaseInv
      <3> QED BY <3>1, <3>2
    <2> QED BY <2>1, <2>2
  <1>5. BornInv' /\ ErasedInv'
    BY <1>2 DEF IInv, BornInv, ErasedInv, Writes, history
  <1>6. OptedOutInv'
    <2>1. ~(r.work \in {"chat", "legacy"} /\ r.st \in {"ready", "running", "answered"})
      OBVIOUS
    <2> QED BY <1>2, <2>1 DEF IInv, OptedOutInv, history
  <1>7. TypeOK' /\ DeletedStaysDeleted' /\ DisabledMemoryRetainsNothing'
    BY <1>2 DEF history, IInv, TypeOK, DeletedStaysDeleted, DisabledMemoryRetainsNothing
  <1> QED BY <1>3, <1>4, <1>5, <1>6, <1>7 DEF IInv

LEMMA AcquireInv ==
    ASSUME IInv, NEW x \in Handlers, NEW w \in AllWork, Acquire(x, w)
    PROVE  IInv'
  <1> DEFINE r == [Free EXCEPT !.work = w, !.st = "leased", !.born = epoch, !.left = Slack]
  <1>1. /\ r \in Handler /\ r.work = w /\ r.st = "leased" /\ r.born = epoch
        /\ r.left = Slack /\ r.done = 0
    <2>1. Slack \in 0..(T + Slack) /\ 0 \in 0..Len(Erased) /\ epoch \in Nat /\ memoryOn \in BOOLEAN
      BY MemoryAssumption DEF IInv, TypeOK, Erased
    <2> QED BY <2>1 DEF Free, Handler
  <1>2. /\ h[x].st = "idle" /\ lease.owner = NoOne /\ w \in Leasing
        /\ lease' = [owner |-> x, ttl |-> T + Slack + 1]
        /\ h' = [h EXCEPT ![x] = r]
        /\ UNCHANGED <<stored, memoryOn, history, faults, redisLost>>
    BY DEF Acquire, Leasing, TTL
  <1> HIDE DEF r
  <1>3. lease' \in [owner : Handlers \cup {NoOne}, ttl : 0..(T + Slack + 1)]
    BY <1>2, MemoryAssumption
  <1> QED BY <1>1, <1>2, <1>3, BegunInv

LEMMA BeginInv ==
    ASSUME IInv, NEW x \in Handlers, NEW w \in AllWork, Begin(x, w)
    PROVE  IInv'
  <1> DEFINE r == [Free EXCEPT !.work = w, !.st = "ready", !.born = epoch, !.on = memoryOn,
                               !.left = Slack]
  <1>1. /\ r \in Handler /\ r.work = w /\ r.st = "ready" /\ r.born = epoch
        /\ r.left = Slack /\ r.done = 0
    <2>1. Slack \in 0..(T + Slack) /\ 0 \in 0..Len(Erased) /\ epoch \in Nat /\ memoryOn \in BOOLEAN
      BY MemoryAssumption DEF IInv, TypeOK, Erased
    <2> QED BY <2>1 DEF Free, Handler
  <1>2. /\ h[x].st = "idle" /\ w \in {"mute", "tool"} /\ w \notin Leasing
        /\ h' = [h EXCEPT ![x] = r]
        /\ UNCHANGED <<lease, stored, memoryOn, history, faults, redisLost>>
    BY DEF Begin, Leasing
  <1> HIDE DEF r
  <1>3. lease \in [owner : Handlers \cup {NoOne}, ttl : 0..(T + Slack + 1)]
    BY DEF IInv, TypeOK
  <1> QED BY <1>1, <1>2, <1>3, BegunInv

\* What is left of the invariant when a handler ends without anything else.
LEMMA QuietEndInv ==
    ASSUME IInv, NEW x \in Handlers, Finish(x) \/ Vanish(x)
    PROVE  IInv'
  <1>1. /\ h' = [h EXCEPT ![x] = Free] /\ lease' \in {lease, Released(x)}
        /\ UNCHANGED <<stored, memoryOn, history, redisLost>>
        /\ faults' \in 0..MaxFaults
    BY MemoryAssumption DEF Finish, Vanish, Fault, Ends, IInv, TypeOK
  <1>2. stored' \in [Kinds -> Nat \cup {Nil}]
    BY <1>1 DEF IInv, TypeOK
  <1>3. /\ h' \in [Handlers -> Handler] /\ h'[x] = Free
        /\ \A y \in Handlers \ {x} : h'[y] = h[y]
        /\ lease' \in [owner : Handlers \cup {NoOne}, ttl : 0..(T + Slack + 1)]
        /\ StageInv' /\ LeaseInv' /\ BornInv' /\ ErasedInv'
    BY <1>1, <1>2, EndsInv DEF history
  <1>4. OptedOutInv'
    BY <1>1, <1>3 DEF history, IInv, OptedOutInv, Free
  <1>5. TypeOK' /\ DeletedStaysDeleted' /\ DisabledMemoryRetainsNothing'
    BY <1>1, <1>3 DEF history, IInv, TypeOK, DeletedStaysDeleted, DisabledMemoryRetainsNothing
  <1> QED BY <1>3, <1>4, <1>5 DEF IInv

\* The lease keeps every other writer away from a deletion or a change of preferences.
LEMMA AloneInv ==
    ASSUME IInv, NEW x \in Handlers, h[x].work \in {"delete", "preferences"}, ~redisLost,
           NEW y \in Handlers, Writes(y)
    PROVE  y = x /\ Writes(x)
  <1>1. h[x].st = "leased"
    BY DEF IInv, StageInv, TypeOK, Handler
  <1>2. Writes(x)
    BY <1>1 DEF Writes, Leasing, Writing
  <1> QED BY <1>2 DEF IInv, LeaseInv

LEMMA DeletedInv ==
    ASSUME IInv, NEW x \in Handlers, Deleted(x)
    PROVE  IInv'
  <1>1. /\ h[x].work = "delete" /\ h[x].done = 5
        /\ h' = [h EXCEPT ![x] = Free] /\ lease' = Released(x) /\ epoch' = epoch + 1
        /\ UNCHANGED <<stored, memoryOn, optedOut, retained, reverted, faults, redisLost>>
    BY DEF Deleted, Ends, Erased
  <1>2. Writes(x)
    BY <1>1 DEF IInv, StageInv, TypeOK, Handler, Writes, Leasing, Writing
  <1>3. stored' \in [Kinds -> Nat \cup {Nil}] /\ epoch' \in Nat
    BY <1>1 DEF IInv, TypeOK
  <1>4. /\ h' \in [Handlers -> Handler] /\ h'[x] = Free
        /\ \A y \in Handlers \ {x} : h'[y] = h[y]
        /\ lease' \in [owner : Handlers \cup {NoOne}, ttl : 0..(T + Slack + 1)]
        /\ StageInv' /\ LeaseInv' /\ BornInv' /\ ErasedInv'
    BY <1>1, <1>2, <1>3, EndsInv
  <1>5. OptedOutInv'
    BY <1>1, <1>4 DEF IInv, OptedOutInv, Free
  <1>6. TypeOK'
    BY <1>1, <1>3, <1>4 DEF IInv, TypeOK
  <1>7. ~redisLost => \A k \in Messages : stored[k] = Nil
    BY <1>1 DEF IInv, ErasedInv, Messages
  <1>8. DeletedStaysDeleted' /\ DisabledMemoryRetainsNothing'
    BY <1>1, <1>6, <1>7 DEF IInv, DeletedStaysDeleted, DisabledMemoryRetainsNothing
  <1> QED BY <1>4, <1>5, <1>6, <1>8 DEF IInv

LEMMA SavePreferencesInv ==
    ASSUME IInv, NEW x \in Handlers, NEW on \in BOOLEAN, SavePreferences(x, on)
    PROVE  IInv'
  <1>1. /\ h[x].work = "preferences" /\ memoryOn' = on /\ optedOut' = ~on
        /\ h' = [h EXCEPT ![x] = Free] /\ lease' = Released(x)
        /\ UNCHANGED <<stored, epoch, retained, reverted, faults, redisLost>>
    BY DEF SavePreferences, Ends
  <1>2. stored' \in [Kinds -> Nat \cup {Nil}]
    BY <1>1 DEF IInv, TypeOK
  <1>3. /\ h' \in [Handlers -> Handler] /\ h'[x] = Free
        /\ \A y \in Handlers \ {x} : h'[y] = h[y]
        /\ lease' \in [owner : Handlers \cup {NoOne}, ttl : 0..(T + Slack + 1)]
        /\ StageInv' /\ LeaseInv' /\ BornInv' /\ ErasedInv'
    BY <1>1, <1>2, EndsInv
  <1>4. OptedOutInv'
    <2> SUFFICES ASSUME ~redisLost, optedOut', NEW y \in Handlers,
                        h'[y].work \in {"chat", "legacy"},
                        h'[y].st \in {"ready", "running", "answered"}
                 PROVE  FALSE
      BY <1>1 DEF OptedOutInv
    <2>1. y # x /\ Writes(y)
      BY <1>3 DEF Free, Writes, Leasing, Writing
    <2> QED BY <1>1, <2>1, AloneInv
  <1>5. TypeOK' /\ DeletedStaysDeleted' /\ DisabledMemoryRetainsNothing'
    BY <1>1, <1>3 DEF IInv, TypeOK, DeletedStaysDeleted, DisabledMemoryRetainsNothing
  <1> QED BY <1>3, <1>4, <1>5 DEF IInv

LEMMA MuteInv ==
    ASSUME IInv, NEW x \in Handlers, Mute(x)
    PROVE  IInv'
  <1>1. /\ h' = [h EXCEPT ![x] = Free] /\ memoryOn' = h[x].on
        /\ reverted' = (reverted \/ h[x].on # memoryOn)
        /\ UNCHANGED <<lease, stored, epoch, optedOut, retained, faults, redisLost>>
    BY DEF Mute
  <1>2. stored' \in [Kinds -> Nat \cup {Nil}] /\ h[x].on \in BOOLEAN
    BY <1>1 DEF IInv, TypeOK, Handler
  <1>3. /\ h' \in [Handlers -> Handler] /\ h'[x] = Free
        /\ \A y \in Handlers \ {x} : h'[y] = h[y]
        /\ StageInv' /\ LeaseInv' /\ BornInv' /\ ErasedInv'
    BY <1>1, <1>2, EndsInv
  <1>4. OptedOutInv'
    BY <1>1, <1>3 DEF IInv, OptedOutInv, Free
  <1>5. TypeOK' /\ DeletedStaysDeleted' /\ DisabledMemoryRetainsNothing'
    BY <1>1, <1>2, <1>3 DEF IInv, TypeOK, DeletedStaysDeleted, DisabledMemoryRetainsNothing
  <1> QED BY <1>3, <1>4, <1>5 DEF IInv

LEMMA CallToolInv ==
    ASSUME IInv, NEW x \in Handlers, CallTool(x)
    PROVE  IInv'
  <1>1. /\ h' = [h EXCEPT ![x] = Free] /\ Put(x, "trace")
        /\ UNCHANGED <<lease, memoryOn, epoch, optedOut, reverted, faults, redisLost>>
    BY DEF CallTool
  <1>2. "trace" \in Kinds /\ "trace" \notin Messages
    BY DEF Kinds, Messages
  <1>3. /\ stored' \in [Kinds -> Nat \cup {Nil}] /\ retained' \in BOOLEAN
        /\ ~redisLost => \A m \in Messages : stored'[m] # Nil => stored'[m] >= epoch
        /\ DisabledMemoryRetainsNothing'
    BY <1>1, <1>2, PutInv
  <1>4. \A m \in Messages : stored'[m] = stored[m]
    BY <1>1, <1>2 DEF Put, IInv, TypeOK, Kinds
  <1>5. /\ h' \in [Handlers -> Handler] /\ h'[x] = Free
        /\ \A y \in Handlers \ {x} : h'[y] = h[y]
        /\ StageInv' /\ LeaseInv' /\ BornInv' /\ ErasedInv'
    BY <1>1, <1>3, <1>4, EndsInv
  <1>6. OptedOutInv'
    BY <1>1, <1>5 DEF IInv, OptedOutInv, Free
  <1>7. TypeOK' /\ DeletedStaysDeleted'
    BY <1>1, <1>3, <1>5 DEF IInv, TypeOK, DeletedStaysDeleted
  <1> QED BY <1>3, <1>5, <1>6, <1>7 DEF IInv

LEMMA EraseNextInv ==
    ASSUME IInv, NEW x \in Handlers, EraseNext(x)
    PROVE  IInv'
  <1> DEFINE n == h[x].done
             k == Erased[n + 1]
             r == [h[x] EXCEPT !.done = n + 1]
  <1>1. /\ h[x].work = "delete" /\ n \in 0..4
        /\ IF k = "preferences" THEN memoryOn' = TRUE /\ UNCHANGED stored
           ELSE stored' = [stored EXCEPT ![k] = Nil] /\ UNCHANGED memoryOn
        /\ optedOut' = (optedOut /\ k # "preferences")
        /\ h' = [h EXCEPT ![x] = r]
        /\ UNCHANGED <<lease, epoch, retained, reverted, faults, redisLost>>
    BY DEF EraseNext, IInv, TypeOK, Handler, Erased
  <1>2. /\ n = 0 => k = "conversation"
        /\ n = 1 => k = "incident"
        /\ n = 2 => k = "preferences"
        /\ n = 3 => k = "trace"
        /\ n = 4 => k = "legacy"
    BY DEF Erased
  <1>3. n + 1 \in 0..Len(Erased)
    BY <1>1 DEF Erased
  <1>4. /\ r \in Handler /\ r.done = n + 1 /\ r.work = "delete" /\ r.st = h[x].st
        /\ r.born = h[x].born /\ r.left = h[x].left
    BY <1>1, <1>3 DEF IInv, TypeOK, Handler
  <1> HIDE DEF r, k
  <1>5. /\ h' \in [Handlers -> Handler] /\ h'[x] = r
        /\ \A y \in Handlers \ {x} : h'[y] = h[y]
    BY <1>1, <1>4 DEF IInv, TypeOK
  <1>6. /\ stored' \in [Kinds -> Nat \cup {Nil}] /\ memoryOn' \in BOOLEAN
        /\ \A m \in Kinds : stored'[m] = stored[m] \/ stored'[m] = Nil
        /\ n = 0 => stored'["conversation"] = Nil
        /\ n = 1 => stored'["incident"] = Nil
        /\ n = 4 => stored'["legacy"] = Nil
    BY <1>1, <1>2 DEF IInv, TypeOK, Kinds, Messages
  <1>7. StageInv'
    BY <1>1, <1>4, <1>5 DEF IInv, StageInv
  <1>8. LeaseInv' /\ BornInv'
    BY <1>1, <1>4, <1>5 DEF IInv, LeaseInv, BornInv, Writes, Remaining
  <1>9. ErasedInv'
    <2> SUFFICES ASSUME ~redisLost, NEW y \in Handlers, h'[y].work = "delete"
                 PROVE  /\ h'[y].done >= 1 => stored'["conversation"] = Nil
                        /\ h'[y].done >= 2 => stored'["incident"] = Nil
                        /\ h'[y].done >= 5 => stored'["legacy"] = Nil
      BY <1>1 DEF ErasedInv
    <2>1. /\ n >= 1 => stored["conversation"] = Nil
          /\ n >= 2 => stored["incident"] = Nil
          /\ n >= 5 => stored["legacy"] = Nil
      BY <1>1 DEF IInv, ErasedInv
    <2>2. y = x
      <3>1. CASE y # x
        <4>1. h[y].work = "delete"
          BY <1>5, <3>1
        <4>2. Writes(y)
          BY <4>1 DEF IInv, StageInv, TypeOK, Handler, Writes, Leasing, Writing
        <4> QED BY <1>1, <4>2, AloneInv
      <3> QED BY <3>1
    <2>3. h'[y].done = n + 1
      BY <1>4, <1>5, <2>2
    <2> QED BY <1>1, <1>6, <2>1, <2>3 DEF Kinds, Messages
  <1>10. OptedOutInv'
    BY <1>1, <1>4, <1>5 DEF IInv, OptedOutInv
  <1>11. TypeOK'
    BY <1>1, <1>5, <1>6 DEF IInv, TypeOK
  <1>12. DeletedStaysDeleted' /\ DisabledMemoryRetainsNothing'
    BY <1>1, <1>6, <1>11 DEF IInv, DeletedStaysDeleted, DisabledMemoryRetainsNothing, Kinds
  <1> QED BY <1>7, <1>8, <1>9, <1>10, <1>11, <1>12 DEF IInv

\* Every handler that may still write has a tick left, so the lease has two.
LEMMA TickInv ==
    ASSUME IInv, Tick
    PROVE  IInv'
  <1>1. /\ \A x \in Handlers : h[x].st \notin {"idle", "saved"} => h[x].left > 0
        /\ h' = [x \in Handlers |-> [h[x] EXCEPT !.left = Minus1(h[x].left)]]
        /\ lease' = Aged(lease)
        /\ UNCHANGED <<stored, memoryOn, history, faults, redisLost>>
    BY DEF Tick
  <1>2. ASSUME NEW x \in Handlers
        PROVE  /\ h'[x] \in Handler /\ h'[x].st = h[x].st /\ h'[x].work = h[x].work
               /\ h'[x].on = h[x].on /\ h'[x].born = h[x].born /\ h'[x].done = h[x].done
               /\ h'[x].left = Minus1(h[x].left)
    <2> DEFINE n == Minus1(h[x].left)
    <2>1. h'[x] = [h[x] EXCEPT !.left = n] /\ h[x] \in Handler
      BY <1>1 DEF IInv, TypeOK
    <2>2. n \in 0..(T + Slack)
      BY <2>1, MemoryAssumption DEF Handler, Minus1
    <2> HIDE DEF n
    <2> QED BY <2>1, <2>2 DEF Handler, n
  <1>3. h' \in [Handlers -> Handler]
    BY <1>1, <1>2
  <1>4. lease' \in [owner : Handlers \cup {NoOne}, ttl : 0..(T + Slack + 1)]
    <2>1. CASE lease.ttl <= 1
      BY <1>1, <2>1, MemoryAssumption DEF Aged, Unleased
    <2>2. CASE ~(lease.ttl <= 1)
      <3> DEFINE n == lease.ttl - 1
      <3>1. n \in 0..(T + Slack + 1)
        BY <2>2, MemoryAssumption DEF IInv, TypeOK
      <3>2. lease' = [lease EXCEPT !.ttl = n]
        BY <1>1, <2>2 DEF Aged
      <3> HIDE DEF n
      <3> QED BY <3>1, <3>2 DEF IInv, TypeOK
    <2> QED BY <2>1, <2>2
  <1>5. StageInv'
    <2>1. \A x \in Handlers : h'[x].left <= h[x].left
      BY <1>2, MemoryAssumption DEF Minus1, IInv, TypeOK, Handler
    <2>2. \A x \in Handlers : h[x].left \in Int /\ h'[x].left \in Int
      BY <1>2, MemoryAssumption DEF IInv, TypeOK, Handler
    <2> QED BY <1>2, <2>1, <2>2, MemoryAssumption DEF IInv, StageInv
  <1>6. LeaseInv'
    <2> SUFFICES ASSUME ~redisLost, NEW x \in Handlers, Writes(x)'
                 PROVE  lease'.owner = x /\ lease'.ttl > Remaining(x)'
      BY <1>1 DEF LeaseInv
    <2>1. Writes(x)
      BY <1>2 DEF Writes
    <2>2. lease.owner = x /\ lease.ttl > Remaining(x)
      BY <2>1 DEF IInv, LeaseInv
    <2>3. h[x].left > 0
      BY <1>1, <2>1 DEF Writes, Writing
    <2>4. /\ h[x].left \in Nat /\ lease.ttl \in Nat
          /\ lease = [owner |-> lease.owner, ttl |-> lease.ttl]
      BY MemoryAssumption DEF IInv, TypeOK, Handler
    <2>5. Remaining(x)' = Remaining(x) - 1 /\ Remaining(x) >= 1 /\ Remaining(x) \in Nat
      BY <1>2, <2>3, <2>4, MemoryAssumption DEF Remaining, Minus1
    <2>6. lease'.owner = x /\ lease'.ttl = lease.ttl - 1
      BY <1>1, <2>2, <2>4, <2>5 DEF Aged
    <2> QED BY <2>2, <2>4, <2>5, <2>6
  <1>7. BornInv' /\ ErasedInv'
    BY <1>1, <1>2 DEF IInv, BornInv, ErasedInv, Writes, history
  <1>8. OptedOutInv'
    BY <1>1, <1>2 DEF IInv, OptedOutInv, history
  <1>9. TypeOK' /\ DeletedStaysDeleted' /\ DisabledMemoryRetainsNothing'
    BY <1>1, <1>3, <1>4
       DEF history, IInv, TypeOK, DeletedStaysDeleted, DisabledMemoryRetainsNothing
  <1> QED BY <1>5, <1>6, <1>7, <1>8, <1>9 DEF IInv

LEMMA NextInv ==
    ASSUME IInv, [Next]_vars
    PROVE  IInv'
  <1>1. CASE UNCHANGED vars
    BY <1>1 DEF vars, history, IInv, TypeOK, StageInv, LeaseInv, BornInv, ErasedInv, OptedOutInv,
       DeletedStaysDeleted, DisabledMemoryRetainsNothing, Writes, Remaining
  <1>2. ASSUME NEW x \in Handlers, Step(x)
        PROVE  IInv'
    BY <1>2, ReadInv, RunInv, SaveInv, QuietEndInv, EraseNextInv, DeletedInv, MuteInv,
       CallToolInv, SavePreferencesInv DEF Step
  <1>3. CASE RedisLoses
    <2>1. lease' = Unleased /\ redisLost' = TRUE /\ faults' \in 0..MaxFaults
          /\ UNCHANGED <<stored, memoryOn, h, history>>
      BY <1>3, MemoryAssumption DEF RedisLoses, Fault, IInv, TypeOK
    <2>2. Unleased \in [owner : Handlers \cup {NoOne}, ttl : 0..(T + Slack + 1)]
      BY MemoryAssumption DEF Unleased
    <2> QED BY <2>1, <2>2 DEF history, IInv, TypeOK, StageInv, LeaseInv, BornInv, ErasedInv,
            OptedOutInv, DeletedStaysDeleted, DisabledMemoryRetainsNothing
  <1> QED BY <1>1, <1>2, <1>3, QuietEndInv, AcquireInv, BeginInv, GatherInv, TickInv DEF Next

LEMMA Invariant == Spec => []IInv
  BY InitInv, NextInv, PTL DEF Spec

-----------------------------------------------------------------------------
\* Deletion of the copilot's memory (DELETE /copilot/memory), for any number of handlers and
\* deletions: nothing a handler that began before the 204 wrote survives it, as long as
\* Redis keeps the lease.
THEOREM DeletionHolds == Spec => []DeletedStaysDeleted
  <1>1. IInv => DeletedStaysDeleted
    BY DEF IInv
  <1> QED BY <1>1, Invariant, PTL

\* Switching memory off (PUT /copilot/preferences), for any number of handlers: no message
\* is stored until it is switched on again, unless a mute reverted the preferences.
THEOREM OptOutHolds == Spec => []DisabledMemoryRetainsNothing
  <1>1. IInv => DisabledMemoryRetainsNothing
    BY DEF IInv
  <1> QED BY <1>1, Invariant, PTL

-----------------------------------------------------------------------------
(* The answer: what was sent is what the provider ended as text, and the   *)
(* tools are counted by the rounds.                                        *)

TurnFlags ==
    /\ memory \in BOOLEAN /\ whole \in BOOLEAN /\ leased \in BOOLEAN
    /\ client \in {"open", "done", "error", "gone"}

TurnAmounts ==
    /\ pc \in Stages /\ round \in 0..2
    /\ requests \in SUBSET Calls /\ invoked \in Seq(Calls)
    /\ buffer \in 0..MaxParts /\ isTool \in {"unknown", "tool", "text"}
    /\ answer \in Nat /\ sent \in Nat /\ saved \in Nat \cup {0 - 1} /\ left \in 0..Timeout

TurnTypes == TurnFlags /\ TurnAmounts

\* Nothing is sent before a round is known to be text; then what was sent is its answer.
SentInv ==
    /\ pc \in {"tools", "asking", "calling"} => sent = 0
    /\ pc = "streaming" /\ isTool = "text" => sent = answer
    /\ pc = "streaming" /\ isTool # "text" => sent = 0 /\ answer = 0
    /\ pc \in {"saving", "noting"} => whole /\ sent = answer
    /\ saved # 0 - 1 => /\ pc \in {"noting", "failed", "stopped", "releasing", "ended"}
                        /\ whole /\ saved = sent

\* The calls are counted by the rounds, and every one of them is a request.
CallsInv ==
    /\ pc = "tools" => round = 0 /\ invoked = <<>> /\ requests = {}
    /\ pc \in {"asking", "streaming"} => Len(invoked) = round + 1
    /\ pc = "calling" => round < 2 /\ Len(invoked) = round + 2
    /\ Len(invoked) <= 3
    /\ \A i \in 1..Len(invoked) : invoked[i] \in requests
    /\ \A i, j \in 1..Len(invoked) : invoked[i] = invoked[j] => i = j

TurnInv == TurnTypes /\ SentInv /\ CallsInv

LEMMA TurnInitInv ==
    ASSUME TurnInit
    PROVE  TurnInv
  <1> USE TurnAssumption DEF TurnInit
  <1>1. TurnTypes
    <2>1. TurnFlags
      BY DEF TurnFlags
    <2>2. TurnAmounts
      BY DEF TurnAmounts, Stages, NotSaved
    <2> QED BY <2>1, <2>2 DEF TurnTypes
  <1>2. SentInv
    BY DEF SentInv, NotSaved
  <1>3. CallsInv
    BY DEF CallsInv
  <1> QED BY <1>1, <1>2, <1>3 DEF TurnInv

\* A call that was not made before.
LEMMA CallMore ==
    ASSUME TurnTypes, CallsInv, NEW c \in Calls \ requests, Invoke(c), Len(invoked) < 3
    PROVE  /\ requests' \in SUBSET Calls /\ invoked' \in Seq(Calls)
           /\ Len(invoked') = Len(invoked) + 1 /\ Len(invoked') <= 3
           /\ \A i \in 1..Len(invoked') : invoked'[i] \in requests'
           /\ \A i, j \in 1..Len(invoked') : invoked'[i] = invoked'[j] => i = j
  <1>1. requests' = requests \cup {c} /\ invoked' = Append(invoked, c)
        /\ invoked \in Seq(Calls) /\ requests \in SUBSET Calls
    BY DEF TurnTypes, TurnFlags, TurnAmounts, Invoke
  <1>2. invoked' \in Seq(Calls) /\ Len(invoked') = Len(invoked) + 1
        /\ invoked'[Len(invoked) + 1] = c /\ Len(invoked) \in Nat
        /\ \A i \in 1..Len(invoked) : invoked'[i] = invoked[i] /\ invoked'[i] # c
    BY <1>1 DEF CallsInv
  <1> QED BY <1>1, <1>2 DEF CallsInv

LEMMA TurnNextInv ==
    ASSUME TurnInv, [TurnNext]_turnVars
    PROVE  TurnInv'
  <1> USE TurnAssumption DEF TurnInv, text
  <1>1. ASSUME NEW c \in Calls \ requests, Invoke(c),
               InitialTool \/ RequestTool(c)
        PROVE  TurnInv'
    <2>1. Len(invoked) < 3 /\ (pc = "streaming" => round < 2)
      BY <1>1 DEF InitialTool, RequestTool, CarriedOut, Rounds,
                  TurnTypes, TurnFlags, TurnAmounts, CallsInv
    <2>2. /\ requests' \in SUBSET Calls /\ invoked' \in Seq(Calls)
          /\ Len(invoked') = Len(invoked) + 1 /\ Len(invoked') <= 3
          /\ \A i \in 1..Len(invoked') : invoked'[i] \in requests'
          /\ \A i, j \in 1..Len(invoked') : invoked'[i] = invoked'[j] => i = j
      BY <1>1, <2>1, CallMore
    <2>3. TurnTypes'
      BY <1>1, <2>2 DEF InitialTool, RequestTool, TurnTypes, TurnFlags,
                        TurnAmounts, Stages
    <2>4. SentInv'
      BY <1>1 DEF InitialTool, RequestTool, SentInv
    <2>5. \/ pc = "tools" /\ Len(invoked) = 0 /\ pc' = "asking" /\ round' = round
          \/ pc = "streaming" /\ Len(invoked) = round + 1 /\ pc' = "calling" /\ round' = round
      BY <1>1 DEF InitialTool, RequestTool, CallsInv
    <2>6. pc = "tools" => round = 0
      BY DEF CallsInv
    <2>7. CallsInv'
      BY <2>1, <2>2, <2>5, <2>6 DEF CallsInv, TurnTypes, TurnAmounts
    <2> QED BY <2>3, <2>4, <2>7
  <1>2. CASE InitialTool
    BY <1>1, <1>2 DEF InitialTool, CallsInv
  <1>3. ASSUME NEW c \in Calls, RequestTool(c) PROVE TurnInv'
    BY <1>1, <1>3 DEF RequestTool, CarriedOut
  <1>4. ASSUME NEW kind \in {"tool", "text"}, NEW flush \in BOOLEAN, Delta(kind, flush)
        PROVE  TurnInv'
    <2>1. TurnTypes'
      BY <1>4 DEF Delta, Shown, TurnTypes, TurnFlags, TurnAmounts, Stages
    <2>2. SentInv'
      BY <1>4 DEF Delta, Shown, SentInv, TurnTypes, TurnFlags, TurnAmounts
    <2>3. CallsInv'
      BY <1>4 DEF Delta, CallsInv
    <2> QED BY <2>1, <2>2, <2>3
  <1>5. CASE AskModel \/ RefuseTool \/ EndText \/ NextRound
    <2>1. TurnTypes'
      <3>1. TurnFlags'
        BY <1>5 DEF AskModel, RefuseTool, EndText, NextRound, TurnTypes, TurnFlags
      <3>2. TurnAmounts'
        BY <1>5 DEF AskModel, RefuseTool, EndText, NextRound, TurnTypes, TurnAmounts,
               Stages, CallsInv
      <3> QED BY <3>1, <3>2 DEF TurnTypes, TurnFlags, TurnAmounts
    <2>2. SentInv'
      BY <1>5 DEF AskModel, RefuseTool, EndText, NextRound, SentInv,
                  TurnTypes, TurnFlags, TurnAmounts
    <2>3. CallsInv'
      BY <1>5 DEF AskModel, RefuseTool, EndText, NextRound, CallsInv,
                  TurnTypes, TurnFlags, TurnAmounts
    <2> QED BY <2>1, <2>2, <2>3
  <1>6. CASE \/ SaveAnswered \/ Done \/ ErrorEvent \/ AuditStop \/ Release
             \/ Fail \/ Leave \/ Stop \/ TurnTick \/ UNCHANGED turnVars
    <2> USE <1>6 DEF SaveAnswered, Done, ErrorEvent, AuditStop, Release,
                     Fail, KeepOnFailure, InTimeout, Leave, Stop,
                     TurnTick, turnVars, NotSaved
    <2>1. TurnTypes'
      <3>1. TurnFlags'
        BY DEF TurnTypes, TurnFlags
      <3>2. TurnAmounts'
        BY DEF TurnTypes, TurnAmounts,
               Stages, CallsInv
      <3> QED BY <3>1, <3>2 DEF TurnTypes, TurnFlags, TurnAmounts
    <2>2. SentInv'
      BY DEF SentInv, TurnTypes, TurnFlags, TurnAmounts
    <2>3. CallsInv'
      BY DEF CallsInv
    <2> QED BY <2>1, <2>2, <2>3
  <1> QED BY <1>2, <1>3, <1>4, <1>5, <1>6 DEF TurnNext, HandlerStep

\* "Partial text is not saved": what is saved as the answer is what the client saw as it
\* and what the provider ended as one, however tools, provider, client and time fail.
THEOREM AnswersAreFaithful ==
    TurnSpec => []AnswerFaithful
  <1>1. TurnInv => AnswerFaithful
    BY DEF TurnInv, TurnTypes, TurnFlags, TurnAmounts, SentInv, CallsInv,
           AnswerFaithful, TurnTypeOK, PartialNotSaved, ShownIsText, NotSaved, Rounds
  <1> QED BY <1>1, TurnInitInv, TurnNextInv, PTL DEF TurnSpec

\* Three rounds and no call twice, the one chosen from the question included.
THEOREM ToolsAreLimited ==
    TurnSpec => []ToolBudget
  <1>1. TurnInv => ToolBudget
    <2>1. TurnTypes => DOMAIN invoked = 1..Len(invoked)
      BY DEF TurnTypes, TurnFlags, TurnAmounts
    <2> QED BY <2>1 DEF TurnInv, CallsInv, ToolBudget, Rounds
  <1> QED BY <1>1, TurnInitInv, TurnNextInv, PTL DEF TurnSpec

-----------------------------------------------------------------------------
(* The settings: what each handler holds, between the reads, of a row that *)
(* others write meanwhile.                                                 *)

\* A handler talks to the provider it was asked for, from its configuration on.
AimOf(r) ==
    /\ req[r].st \in {"configured", "calling"} =>
         Canonical(req[r].provider) = req[r].wanted
    /\ req[r].st = "calling" /\ req[r].kind = "ask" /\ req[r].wanted = "external" =>
         deployment.enabled
    /\ req[r].st = "configured" => req[r].kind \in {"chat", "test"}
    /\ req[r].st = "configured" /\ req[r].kind = "test" => req[r].wanted = "external"
    /\ req[r].st = "read" => req[r].key \in Keys \cup {NoKey}

\* A key that was dropped is only held by who read before it was.
HeldOf(r) == req[r].st # "idle" /\ req[r].key \in dropped => req[r].late

\* As long as nothing was saved, the settings that passed the checks of the test are there.
TestOf(r) ==
    req[r].kind = "test" /\ ~req[r].late =>
        /\ req[r].st \in {"configured", "calling"} => EnabledInForce
        /\ req[r].st = "configured" => HasKey
        /\ req[r].st = "calling" /\ ~StoredFor("local") => req[r].key # NoKey

KeptKey == ~restored /\ settings # NoRecord => settings.key \notin dropped

SettingsInv ==
    /\ SettingsTypeOK
    /\ KeptKey
    /\ \A r \in Requests : AimOf(r) /\ (~restored => HeldOf(r)) /\ TestOf(r)

Good(r) == AimOf(r) /\ (~restored => HeldOf(r)) /\ TestOf(r)

LEMMA SettingsInitInv ==
    ASSUME SettingsInit
    PROVE  SettingsInv
  <1>1. SettingsTypeOK
    BY DEF SettingsInit, SettingsTypeOK, Record, Request, IdleRequest,
           Uses, Providers, Names
  <1>2. KeptKey /\ \A r \in Requests : Good(r)
    BY DEF SettingsInit, IdleRequest, KeptKey, Good, AimOf, HeldOf, TestOf
  <1> QED BY <1>1, <1>2 DEF SettingsInv, Good

\* A step of one handler that saves nothing.
LEMMA OneHandler ==
    ASSUME SettingsInv, NEW r \in Requests, NEW x \in Request,
           req' = [req EXCEPT ![r] = x],
           UNCHANGED <<settings, deployment, dropped, restored>>, Good(r)'
    PROVE  SettingsInv'
  <1>1. SettingsTypeOK'
    BY DEF SettingsInv, SettingsTypeOK
  <1>2. KeptKey'
    BY DEF SettingsInv, KeptKey
  <1>3. ASSUME NEW q \in Requests, q # r PROVE Good(q)'
    <2>1. req'[q] = req[q]
      BY <1>3 DEF SettingsInv, SettingsTypeOK
    <2>2. Good(q)
      BY DEF SettingsInv, Good
    <2> QED BY <2>1, <2>2 DEF Good, AimOf, HeldOf, TestOf, HasKey,
                              EnabledInForce, StoredFor, Normalized
  <1> QED BY <1>1, <1>2, <1>3 DEF SettingsInv, Good

\* The row is written.
LEMMA RowWritten ==
    ASSUME SettingsInv, NEW r \in Requests, NEW row \in Record,
           Written(row, r), UNCHANGED deployment, restored' \in BOOLEAN,
           dropped' \in SUBSET Keys, ~restored' => ~restored /\ row.key \notin dropped'
    PROVE  SettingsInv'
  <1>1. /\ settings' = row /\ req'[r] = IdleRequest
        /\ \A q \in Requests \ {r} :
              req'[q] = [req[q] EXCEPT !.late = req[q].late \/ req[q].st # "idle"]
        /\ req \in [Requests -> Request]
    BY DEF Written, SettingsInv, SettingsTypeOK
  <1>2. IdleRequest \in Request
    BY DEF IdleRequest, Request, Uses, Providers, Names
  <1>3. ASSUME NEW q \in Requests \ {r}
        PROVE  /\ req'[q] \in Request
               /\ req'[q].st = req[q].st /\ req'[q].kind = req[q].kind
               /\ req'[q].wanted = req[q].wanted /\ req'[q].provider = req[q].provider
               /\ req'[q].key = req[q].key /\ (req[q].st # "idle" => req'[q].late)
    <2>1. PICK o \in Request : o = req[q]
      BY <1>1
    <2>2. PICK l \in BOOLEAN : l = (o.late \/ o.st # "idle")
      OBVIOUS
    <2>3. req'[q] = [o EXCEPT !.late = l]
      BY <1>1, <2>1, <2>2
    <2>4. [o EXCEPT !.late = l] \in Request
      BY DEF Request
    <2>5. /\ req'[q].st = o.st /\ req'[q].kind = o.kind /\ req'[q].wanted = o.wanted
          /\ req'[q].provider = o.provider /\ req'[q].key = o.key /\ req'[q].late = l
      BY <2>3 DEF Request
    <2> QED BY <2>1, <2>2, <2>3, <2>4, <2>5
  <1>4. SettingsTypeOK'
    <2>1. req' \in [Requests -> Request]
      BY <1>1, <1>2, <1>3 DEF Written
    <2> QED BY <1>1, <2>1 DEF SettingsInv, SettingsTypeOK
  <1>5. KeptKey'
    BY <1>1 DEF KeptKey
  <1>6. Good(r)'
    BY <1>1 DEF IdleRequest, Good, AimOf, HeldOf, TestOf
  <1>7. ASSUME NEW q \in Requests \ {r} PROVE Good(q)'
    <2>1. AimOf(q)'
      BY <1>3 DEF SettingsInv, AimOf
    <2>2. HeldOf(q)'
      BY <1>3 DEF HeldOf
    <2>3. TestOf(q)'
      BY <1>3 DEF TestOf
    <2> QED BY <2>1, <2>2, <2>3 DEF Good
  <1> QED BY <1>4, <1>5, <1>6, <1>7 DEF SettingsInv, Good

LEMMA SettingsNextInv ==
    ASSUME SettingsInv, [SettingsNext]_settingsVars
    PROVE  SettingsInv'
  <1> USE SettingsAssumption
  <1>1. CASE UNCHANGED settingsVars
    BY <1>1 DEF settingsVars, SettingsInv, KeptKey, AimOf, HeldOf, TestOf, SettingsTypeOK,
                HasKey, EnabledInForce, StoredFor, Normalized
  <1>2. CASE Redeploy
    <2>1. IdleRequest \in Request
      BY DEF IdleRequest, Request, Uses, Providers, Names
    <2>2. SettingsTypeOK'
      BY <1>2, <2>1 DEF Redeploy, SettingsInv, SettingsTypeOK
    <2>3. KeptKey' /\ \A r \in Requests : Good(r)'
      BY <1>2 DEF Redeploy, IdleRequest, SettingsInv, KeptKey, Good, AimOf, HeldOf,
                  TestOf
    <2> QED BY <2>2, <2>3 DEF SettingsInv, Good
  <1>3. ASSUME NEW r \in Requests, NEW p \in Providers, NEW e \in BOOLEAN,
               NEW k \in Keys \cup {NoKey}, SaveWithKey(r, p, e, k)
        PROVE  SettingsInv'
    <2> DEFINE row == [provider |-> p, enabled |-> e, key |-> k]
    <2>1. row \in Record
      BY DEF Record, Providers, Names
    <2>2. /\ Written(row, r) /\ UNCHANGED <<deployment, restored>>
          /\ dropped' \in SUBSET Keys /\ k \notin dropped'
      BY <1>3 DEF SaveWithKey, KeyGiven, SettingsInv, SettingsTypeOK,
                  Record
    <2>3. restored' \in BOOLEAN /\ (~restored' => ~restored /\ row.key \notin dropped')
      BY <2>2 DEF SettingsInv, SettingsTypeOK
    <2> HIDE DEF row
    <2> QED BY <2>1, <2>2, <2>3, RowWritten
  <1> SUFFICES ASSUME NEW r \in Requests,
                      \/ \E p \in Providers, e \in BOOLEAN : SaveRead(r, p, e)
                      \/ SaveWrite(r) \/ ConfigureChat(r)
                      \/ ConfigureTest(r) \/ FetchKey(r)
                      \/ FinishRequest(r)
                      \/ \E p \in Providers : Ask(r, p)
               PROVE  SettingsInv'
    BY <1>1, <1>2, <1>3 DEF SettingsNext, Save
  <1>4. PICK o \in Request : o = req[r]
    BY DEF SettingsInv, SettingsTypeOK
  <1>5. Good(r)
    BY DEF SettingsInv, Good
  <1>6. CASE SaveWrite(r)
    <2> DEFINE row == [provider |-> o.provider, enabled |-> o.enabled, key |-> o.key]
    <2>1. Written(row, r) /\ o.st = "read"
          /\ restored' = (restored \/ (o.late /\ o.key \in dropped))
          /\ UNCHANGED <<deployment, dropped>>
      BY <1>4, <1>6 DEF SaveWrite
    <2>2. row \in Record
      BY <1>4, <1>5, <2>1 DEF Record, Request, Good, AimOf
    <2>3. ~restored' => ~restored /\ row.key \notin dropped'
      BY <1>4, <1>5, <2>1 DEF Good, HeldOf
    <2>4. restored' \in BOOLEAN /\ dropped' \in SUBSET Keys
      BY <2>1 DEF SettingsInv, SettingsTypeOK
    <2>5. Written(row, r) /\ UNCHANGED deployment
      BY <2>1
    <2> HIDE DEF row
    <2> QED BY <2>2, <2>3, <2>4, <2>5, RowWritten
  <1>7. CASE \E p \in Providers, e \in BOOLEAN : SaveRead(r, p, e)
    <2>1. PICK p \in Providers, e \in BOOLEAN : SaveRead(r, p, e)
      BY <1>7
    <2> DEFINE x == [IdleRequest EXCEPT !.kind = "save", !.st = "read", !.provider = p,
                                         !.enabled = e, !.key = OldKey]
    <2>2. OldKey \in Keys \cup {NoKey}
      BY DEF SettingsInv, SettingsTypeOK, OldKey, Record
    <2>3. x \in Request
      BY <2>2 DEF IdleRequest, Request, Uses, Providers,
                  Names
    <2>4. req' = [req EXCEPT ![r] = x] /\ UNCHANGED <<settings, deployment, dropped, restored>>
      BY <2>1 DEF SaveRead
    <2>5. x.st = "read" /\ x.kind = "save" /\ x.key = OldKey
      BY DEF IdleRequest
    <2>6. req'[r] = x
      BY <2>4 DEF SettingsInv, SettingsTypeOK
    <2>7. ~restored => OldKey \notin dropped
      BY DEF SettingsInv, SettingsTypeOK, OldKey, KeptKey
    <2> HIDE DEF x
    <2>8. Good(r)'
      BY <2>2, <2>4, <2>5, <2>6, <2>7 DEF Good, AimOf, HeldOf, TestOf
    <2> QED BY <2>3, <2>4, <2>8, OneHandler
  <1>8. ASSUME NEW kind \in {"chat", "test"}, NEW to \in Providers, NEW e \in BOOLEAN,
               req' = [req EXCEPT ![r] = [IdleRequest EXCEPT
                         !.kind = kind, !.st = "configured", !.wanted = to,
                         !.provider = to, !.enabled = e]],
               UNCHANGED <<settings, deployment, dropped, restored>>,
               kind = "test" => to = "external" /\ HasKey /\ EnabledInForce
        PROVE  SettingsInv'
    <2> DEFINE x == [IdleRequest EXCEPT !.kind = kind, !.st = "configured", !.wanted = to,
                                         !.provider = to, !.enabled = e]
    <2>1. x \in Request
      BY DEF IdleRequest, Request, Uses, Providers,
             Names
    <2>2. req'[r] = x
      BY <1>8 DEF SettingsInv, SettingsTypeOK
    <2>3. /\ x.st = "configured" /\ x.kind = kind /\ x.provider = to /\ x.wanted = to
          /\ x.key = NoKey
      BY DEF IdleRequest
    <2>4. Canonical(to) = to
      BY DEF Canonical, Providers
    <2>5. NoKey \notin dropped
      BY DEF SettingsInv, SettingsTypeOK
    <2>6. HasKey' = HasKey /\ EnabledInForce' = EnabledInForce
      BY <1>8 DEF HasKey, EnabledInForce, StoredFor, Normalized
    <2> HIDE DEF x
    <2>7. Good(r)'
      BY <1>8, <2>2, <2>3, <2>4, <2>5, <2>6 DEF Good, AimOf, HeldOf, TestOf
    <2>8. req' = [req EXCEPT ![r] = x]
      BY <1>8 DEF x
    <2> QED BY <1>8, <2>1, <2>7, <2>8, OneHandler
  <1>9. CASE ConfigureChat(r)
    <2>1. Primary.provider = "local" /\ Primary.enabled \in BOOLEAN
      <3>1. CASE settings = NoRecord
        BY <3>1 DEF Primary
      <3>2. CASE settings # NoRecord
        <4>1. settings.provider \in Names /\ settings.enabled \in BOOLEAN
          BY <3>2 DEF SettingsInv, SettingsTypeOK, Record
        <4>2. Canonical(settings.provider) \in Providers
          BY <4>1 DEF Canonical, Names, Providers
        <4> QED BY <4>1, <4>2 DEF Primary, Normalized, Providers
      <3> QED BY <3>1, <3>2
    <2> QED BY <1>8, <1>9, <2>1 DEF ConfigureChat, Began, Providers
  <1>10. CASE ConfigureTest(r)
    <2>1. HasKey /\ External.enabled
      BY <1>10 DEF ConfigureTest
    <2>2. External.provider = "external" /\ External.enabled \in BOOLEAN
      BY DEF External, Normalized, SettingsInv, SettingsTypeOK, Record
    <2>3. External.enabled = EnabledInForce
      <3>1. CASE settings = NoRecord
        BY <3>1 DEF External, EnabledInForce
      <3>2. CASE settings # NoRecord
        <4>1. settings.provider \in Names
          BY <3>2 DEF SettingsInv, SettingsTypeOK, Record
        <4>2. Canonical(settings.provider) = "external"
                <=> settings.provider \in {"external", "openai"}
          BY <4>1 DEF Canonical, Names, Providers
        <4> QED BY <3>2, <4>2 DEF External, Normalized, EnabledInForce
      <3> QED BY <3>1, <3>2
    <2> QED BY <1>8, <1>10, <2>1, <2>2, <2>3 DEF ConfigureTest, Began, Providers
  <1>11. CASE FetchKey(r)
    <2> DEFINE k == KeyFor(o.provider)
               x == [o EXCEPT !.st = "calling", !.key = k]
    <2>1. o.st = "configured" /\ req' = [req EXCEPT ![r] = x]
          /\ UNCHANGED <<settings, deployment, dropped, restored>>
      BY <1>4, <1>11 DEF FetchKey, SettingsInv, SettingsTypeOK
    <2>2. k \in Keys \cup {EnvKey, NoKey} /\ (~restored => k \notin dropped)
      BY DEF KeyFor, EnvironmentKey, SettingsInv, KeptKey, SettingsTypeOK,
             Record
    <2>3. o.kind \in {"chat", "test"} /\ Canonical(o.provider) = o.wanted
          /\ (o.kind = "test" => o.wanted = "external")
      BY <1>4, <1>5, <2>1 DEF Good, AimOf
    <2>4. o.kind = "test" /\ ~o.late /\ ~StoredFor("local") => k # NoKey
      <3> SUFFICES ASSUME o.kind = "test", ~o.late, ~StoredFor("local")
                   PROVE  k # NoKey
        OBVIOUS
      <3>1. HasKey
        BY <1>4, <1>5, <2>1 DEF Good, TestOf
      <3>2. CASE settings = NoRecord
        BY <2>3, <3>1, <3>2 DEF HasKey, StoredFor, KeyFor,
                                EnvironmentKey
      <3>3. CASE settings # NoRecord
        <4>1. settings \in Record
          BY <3>3 DEF SettingsInv, SettingsTypeOK
        <4>2. Canonical(settings.provider) = "external"
          BY <3>3, <4>1 DEF StoredFor, Normalized, Canonical, Record,
                            Names, Providers
        <4> QED BY <3>1, <3>3, <4>2 DEF HasKey, StoredFor,
                                        KeyFor, EnvironmentKey
      <3> QED BY <3>2, <3>3
    <2> HIDE DEF k
    <2>5. x \in Request
      BY <2>2 DEF Request
    <2>6. /\ x.st = "calling" /\ x.kind = o.kind /\ x.provider = o.provider
          /\ x.wanted = o.wanted /\ x.key = k /\ x.late = o.late
      BY DEF Request
    <2>7. req'[r] = x
      BY <2>1 DEF SettingsInv, SettingsTypeOK
    <2> HIDE DEF x
    <2>8. AimOf(r)'
      BY <2>3, <2>6, <2>7 DEF AimOf
    <2>9. ~restored' => HeldOf(r)'
      BY <2>1, <2>2, <2>6, <2>7 DEF HeldOf
    <2>10. TestOf(r)'
      <3>1. o.kind = "test" /\ ~o.late => EnabledInForce
        BY <1>4, <1>5, <2>1 DEF Good, TestOf
      <3>2. EnabledInForce' = EnabledInForce /\ StoredFor("local")' = StoredFor("local")
        BY <2>1 DEF EnabledInForce, StoredFor, Normalized
      <3> QED BY <2>1, <2>4, <2>6, <2>7, <3>1, <3>2 DEF TestOf
    <2>11. Good(r)'
      BY <2>8, <2>9, <2>10 DEF Good
    <2> QED BY <2>1, <2>5, <2>11, OneHandler
  <1>12. CASE FinishRequest(r)
    <2>1. IdleRequest \in Request
      BY DEF IdleRequest, Request, Uses, Providers, Names
    <2>2. req' = [req EXCEPT ![r] = IdleRequest]
          /\ UNCHANGED <<settings, deployment, dropped, restored>>
      BY <1>12 DEF FinishRequest
    <2>3. req'[r] = IdleRequest
      BY <2>2 DEF SettingsInv, SettingsTypeOK
    <2>4. Good(r)'
      BY <2>3 DEF IdleRequest, Good, AimOf, HeldOf, TestOf
    <2> QED BY <2>1, <2>2, <2>4, OneHandler
  <1>13. CASE \E p \in Providers : Ask(r, p)
    <2>1. PICK p \in Providers : Ask(r, p)
      BY <1>13
    <2> DEFINE k == EnvironmentKey(p)
               x == [IdleRequest EXCEPT !.kind = "ask", !.st = "calling", !.wanted = p,
                                         !.provider = p, !.enabled = TRUE, !.key = k]
    <2>2. k \in {EnvKey, NoKey} /\ k \notin dropped
      BY DEF EnvironmentKey, SettingsInv, SettingsTypeOK
    <2>3. Canonical(p) = p
      BY DEF Canonical, Providers
    <2>4. p = "external" => deployment.enabled
      BY <2>1 DEF Ask, AskAllowed
    <2>5. req' = [req EXCEPT ![r] = x] /\ UNCHANGED <<settings, deployment, dropped, restored>>
      BY <2>1 DEF Ask
    <2> HIDE DEF k
    <2>6. x \in Request
      BY <2>2 DEF IdleRequest, Request, Uses, Providers,
                  Names
    <2>7. /\ x.st = "calling" /\ x.kind = "ask" /\ x.provider = p /\ x.wanted = p
          /\ x.key = k
      BY DEF IdleRequest
    <2>8. req'[r] = x
      BY <2>5 DEF SettingsInv, SettingsTypeOK
    <2> HIDE DEF x
    <2>9. Good(r)'
      BY <2>2, <2>3, <2>4, <2>5, <2>7, <2>8 DEF Good, AimOf, HeldOf, TestOf
    <2> QED BY <2>5, <2>6, <2>9, OneHandler
  <1> QED BY <1>6, <1>7, <1>9, <1>10, <1>11, <1>12, <1>13

\* Whatever name an older version stored and whatever is saved between the reads of a
\* request, only who asked for the external provider reaches it, and only where it is
\* enabled (copilot_gateway.py, configurations and stream; copilot.py, test_external).
THEOREM NoFallback ==
    SettingsSpec => []NoCloudFallback
  <1>1. SettingsInit => SettingsInv
    BY SettingsInitInv
  <1>2. SettingsInv /\ [SettingsNext]_settingsVars => SettingsInv'
    BY SettingsNextInv
  <1>3. SettingsInv => NoCloudFallback
    BY DEF SettingsInv, AimOf, TestOf, NoCloudFallback, Calling
  <1> QED BY <1>1, <1>2, <1>3, PTL DEF SettingsSpec

\* A key that was removed or replaced is not used by who began later, and where one is
\* configured the test has it (save_config, environment_key).
THEOREM KeysStayInPlace ==
    SettingsSpec => []KeysInPlace
  <1>1. SettingsInit => SettingsInv
    BY SettingsInitInv
  <1>2. SettingsInv /\ [SettingsNext]_settingsVars => SettingsInv'
    BY SettingsNextInv
  <1>3. SettingsInv => RemovedStaysRemoved
    BY DEF SettingsInv, KeptKey, HeldOf, RemovedStaysRemoved, Calling
  <1>4. SettingsInv => TestHasKey
    BY DEF SettingsInv, TestOf, TestHasKey, Calling
  <1>5. SettingsInv => KeysInPlace
    BY <1>3, <1>4 DEF SettingsInv, KeysInPlace
  <1> QED BY <1>1, <1>2, <1>5, PTL DEF SettingsSpec

-----------------------------------------------------------------------------
(* The notifications: a poll that holds the lock knows everything of the   *)
(* last hour, from its list or as its own, and an action of the user       *)
(* changes neither the hour nor the group of a row.                        *)

\* The rows are told apart by their ids.
Distinct(s) == \A i, j \in 1..Len(s) : s[i].id = s[j].id => i = j

\* Two versions of one row: an action changes nothing else of it.
SameNote(m, n) == m.id = n.id /\ m.group = n.group /\ m.at = n.at /\ m.by = n.by

\* The rows of the hour that ends at t, by their ids.
Hourly(s, t) == Ids(Recent(Rows(s), t, Hour))

\* An image is no larger, and as large if nothing falls together.
LEMMA IdsOf ==
    ASSUME NEW S, IsFiniteSet(S)
    PROVE  /\ IsFiniteSet(Ids(S)) /\ Cardinality(Ids(S)) \in Nat
           /\ Cardinality(S) \in Nat /\ Cardinality(Ids(S)) <= Cardinality(S)
           /\ (\A m, n \in S : m.id = n.id => m = n) =>
                 Cardinality(Ids(S)) = Cardinality(S)
  <1> DEFINE f == [n \in S |-> n.id]
             I == Ids(S)
  <1>1. f \in Surjection(S, I)
    BY DEF Surjection, Ids
  <1>2. ASSUME \A m, n \in S : m.id = n.id => m = n
        PROVE  f \in Injection(S, I)
    BY <1>1, <1>2 DEF Injection, IsInjective, Surjection
  <1> HIDE DEF f, I
  <1>3. IsFiniteSet(I) /\ Cardinality(I) <= Cardinality(S)
        /\ (Cardinality(I) = Cardinality(S) <=> f \in Injection(S, I))
    BY <1>1, FS_Surjection
  <1>4. Cardinality(I) \in Nat /\ Cardinality(S) \in Nat
    BY <1>3, FS_CardinalityType
  <1> QED BY <1>2, <1>3, <1>4 DEF I

LEMMA Less ==
    ASSUME NEW S, IsFiniteSet(S), NEW R \in SUBSET S
    PROVE  IsFiniteSet(R) /\ Cardinality(R) <= Cardinality(S)
           /\ Cardinality(S) \in Nat /\ Cardinality(R) \in Nat
  BY FS_Subset, FS_CardinalityType

LEMMA RowsOf ==
    ASSUME NEW N, NEW s \in Seq(N), Distinct(s)
    PROVE  /\ IsFiniteSet(Rows(s))
           /\ Cardinality(Ids(Rows(s))) = Len(s)
           /\ \A m, n \in Rows(s) : m.id = n.id => m = n
  <1> DEFINE R == Rows(s)
             D == 1..Len(s)
             f == [i \in D |-> s[i]]
  <1>1. f \in Surjection(D, R)
    BY DEF Surjection, Rows
  <1>2. f \in Injection(D, R)
    BY <1>1 DEF Injection, IsInjective, Surjection, Distinct
  <1>3. IsFiniteSet(D) /\ Cardinality(D) = Len(s)
    <2>1. Len(s) \in Nat /\ 1 \in Int
      OBVIOUS
    <2>2. IsFiniteSet(1..Len(s))
          /\ Cardinality(1..Len(s)) = IF 1 > Len(s) THEN 0 ELSE Len(s) - 1 + 1
      BY <2>1, FS_Interval
    <2> QED BY <2>1, <2>2
  <1>4. \A m, n \in R : m.id = n.id => m = n
    BY DEF Rows, Distinct
  <1> HIDE DEF R, D, f
  <1>5. IsFiniteSet(R) /\ Cardinality(R) = Cardinality(D)
    BY <1>1, <1>2, <1>3, FS_Surjection
  <1>6. Cardinality(Ids(R)) = Cardinality(R)
    BY <1>4, <1>5, IdsOf
  <1> QED BY <1>3, <1>4, <1>5, <1>6 DEF R

\* The rows of an hour are as many as their ids.
LEMMA HourOf ==
    ASSUME NEW N, NEW s \in Seq(N), Distinct(s), NEW t
    PROVE  /\ IsFiniteSet(Hourly(s, t)) /\ Cardinality(Hourly(s, t)) \in Nat
           /\ IsFiniteSet(Recent(Rows(s), t, Hour))
           /\ Cardinality(Recent(Rows(s), t, Hour)) = Cardinality(Hourly(s, t))
  <1> DEFINE R == Recent(Rows(s), t, Hour)
  <1>1. R \in SUBSET Rows(s)
    BY DEF Recent
  <1>2. IsFiniteSet(Rows(s)) /\ \A m, n \in Rows(s) : m.id = n.id => m = n
    BY RowsOf
  <1>3. \A m, n \in R : m.id = n.id => m = n
    BY <1>1, <1>2
  <1> HIDE DEF R
  <1>4. IsFiniteSet(R)
    BY <1>1, <1>2, Less
  <1>5. /\ IsFiniteSet(Ids(R)) /\ Cardinality(Ids(R)) \in Nat
        /\ Cardinality(Ids(R)) = Cardinality(R)
    BY <1>3, <1>4, IdsOf
  <1> QED BY <1>4, <1>5 DEF R, Hourly

Replaced(t, s, i, x) == Rows(t) = (Rows(s) \ {s[i]}) \cup {x}

\* A row moves to the head of the list with something of it changed.
LEMMA Moved ==
    ASSUME NEW N, NEW s \in Seq(N), Distinct(s), NEW i \in 1..Len(s), NEW x \in N,
           x.id = s[i].id, NEW t, t = Append(RemoveAt(s, i), x)
    PROVE  /\ t \in Seq(N) /\ Distinct(t)
           /\ Replaced(t, s, i, x)
  <1> DEFINE n == Len(s)
             a == SubSeq(s, 1, i - 1)
             b == SubSeq(s, i + 1, n)
             u == RemoveAt(s, i)
  <1>1. n \in Nat /\ i \in 1..n
    OBVIOUS
  <1>2. /\ a \in Seq(N) /\ Len(a) = i - 1 /\ \A j \in 1..(i - 1) : a[j] = s[j]
        /\ b \in Seq(N) /\ Len(b) = n - i /\ \A j \in 1..(n - i) : b[j] = s[i + j]
    BY SubSeqProperties
  <1>3. u = a \o b
    BY DEF RemoveAt
  <1> HIDE DEF a, b, u
  <1>4. /\ u \in Seq(N) /\ Len(u) = n - 1
        /\ \A j \in 1..(n - 1) : u[j] = IF j < i THEN s[j] ELSE s[j + 1]
    <2>1. u \in Seq(N) /\ Len(u) = n - 1
      <3>1. a \in Seq(N) /\ b \in Seq(N) /\ Len(a) = i - 1 /\ Len(b) = n - i
        BY <1>2
      <3>2. a \o b \in Seq(N) /\ Len(a \o b) = Len(a) + Len(b)
        BY <3>1, ConcatProperties
      <3> HIDE DEF n
      <3> QED BY <1>1, <1>3, <3>1, <3>2
    <2>2. ASSUME NEW j \in 1..(n - 1), j < i PROVE u[j] = s[j]
      <3>1. j \in 1..Len(a)
        BY <1>1, <1>2, <2>2
      <3> QED BY <1>1, <1>2, <1>3, <3>1
    <2>3. ASSUME NEW j \in 1..(n - 1), ~(j < i) PROVE u[j] = s[j + 1]
      <3>1. j - (i - 1) \in 1..(n - i) /\ i + (j - (i - 1)) = j + 1 /\ j > i - 1
        BY <1>1, <2>3
      <3>2. u[j] = b[j - (i - 1)]
        BY <1>1, <1>2, <1>3, <2>3, <3>1
      <3> QED BY <1>2, <3>1, <3>2
    <2> QED BY <2>1, <2>2, <2>3
  <1>5. t = Append(u, x)
    BY DEF u
  <1>6. /\ t \in Seq(N) /\ Len(t) = n /\ t[n] = x
        /\ \A j \in 1..(n - 1) : t[j] = IF j < i THEN s[j] ELSE s[j + 1]
    BY <1>1, <1>4, <1>5
  <1>7. Distinct(t)
    BY <1>1, <1>6 DEF Distinct
  <1>8. \A m \in Rows(t) : m \in (Rows(s) \ {s[i]}) \cup {x}
    BY <1>1, <1>6 DEF Distinct, Rows
  <1>9. ASSUME NEW m \in (Rows(s) \ {s[i]}) \cup {x} PROVE m \in Rows(t)
    <2>1. CASE m = x
      BY <1>1, <1>6, <2>1 DEF Rows
    <2>2. CASE m \in Rows(s) \ {s[i]}
      <3>1. PICK j \in 1..n : m = s[j] /\ j # i
        BY <2>2 DEF Rows
      <3>2. j < i => j \in 1..(n - 1) /\ t[j] = m
        BY <1>1, <1>6, <3>1
      <3>3. j > i => j - 1 \in 1..(n - 1) /\ t[j - 1] = m
        BY <1>1, <1>6, <3>1
      <3>4. j < i \/ j > i
        BY <1>1, <3>1
      <3>5. \A k \in 1..(n - 1) : t[k] \in Rows(t)
        BY <1>1, <1>6 DEF Rows
      <3> QED BY <3>2, <3>3, <3>4, <3>5
    <2> QED BY <1>9, <2>1, <2>2
  <1> QED BY <1>6, <1>7, <1>8, <1>9 DEF Replaced

Extended(t, s, x) == Rows(t) = Rows(s) \cup {x}

\* A new row comes to the head of the list.
LEMMA Added ==
    ASSUME NEW N, NEW s \in Seq(N), Distinct(s), NEW x \in N,
           x.id \notin Ids(Rows(s)), NEW t, t = Append(s, x)
    PROVE  /\ t \in Seq(N) /\ Distinct(t)
           /\ Extended(t, s, x)
  <1>1. t \in Seq(N) /\ Len(s) \in Nat /\ Len(t) = Len(s) + 1 /\ t[Len(s) + 1] = x
        /\ \A j \in 1..Len(s) : t[j] = s[j] /\ t[j].id # x.id
    BY DEF Rows, Ids
  <1> QED BY <1>1 DEF Distinct, Rows, Extended


LEMMA Dated ==
    ASSUME NEW s \in Seq(Note), NEW n \in Rows(s)
    PROVE  n.at \in Int
  <1>1. \A m \in Note : m.at \in Int
    BY NotificationsAssumption DEF Note
  <1>2. n \in Note
    BY DEF Rows
  <1> QED BY <1>1, <1>2

\* What the poll p, which holds the lock, knows of itself,
HoldOf(p) ==
    /\ poll[p].st # "idle" => poll[p].by >= 1 /\ poll[p].at <= now
    /\ poll[p].st = "probing" => poll[p].created = 0
    /\ IsFiniteSet(poll[p].seen)

\* and of the last hour: there is nothing in it but what it has seen and what it made.
HourKnown(p) ==
    poll[p].st = "deciding" /\ ~blind =>
        /\ Cardinality(Hourly(notes, poll[p].at)) <=
               Cardinality(Recent(poll[p].seen, poll[p].at, Hour)) + poll[p].created
        /\ \A n \in Rows(notes) :
               n.at > poll[p].at - Hour =>
                   n.by = poll[p].by \/ \E m \in poll[p].seen : SameNote(m, n)

NoticeFlags == online \in BOOLEAN /\ blind \in BOOLEAN

NoticeTypes ==
    /\ now \in 0..MaxTime /\ passes \in 0..MaxPasses
    /\ open \in SUBSET Alerts
    /\ known \in [online : BOOLEAN, since : 0..MaxChanges]
    /\ notes \in Seq(Note)
    /\ muted \in SUBSET {GroupOf(e) : e \in Events}
    /\ poll \in [Polls -> Poll]

OneLock == \A p, q \in Polls : poll[p].st # "idle" /\ poll[q].st # "idle" => p = q

CapNow == ~blind => Cardinality(Hourly(notes, now)) <= Cap

NoticesInv ==
    /\ NoticeFlags /\ NoticeTypes /\ Distinct(notes)
    /\ known.online = FALSE => known.since >= 1
    /\ OneLock /\ CapNow /\ CooldownAcrossPolls
    /\ \A p \in Polls : HoldOf(p) /\ HourKnown(p)

LEMMA NoticesInitInv ==
    ASSUME NoticesInit
    PROVE  NoticesInv
  <1> USE NotificationsAssumption
  <1>1. NoticeFlags
    BY DEF NoticesInit, NoticeFlags
  <1>2. IdlePoll \in Poll
    BY DEF IdlePoll, Poll
  <1>3. NoticeTypes
    BY <1>2 DEF NoticesInit, NoticeTypes
  <1>4. Distinct(notes) /\ Rows(notes) = {} /\ Hourly(notes, now) = {}
    BY DEF NoticesInit, Distinct, Rows, Hourly, Recent, Ids
  <1>5. CapNow /\ CooldownAcrossPolls
    BY <1>4, FS_EmptySet DEF CapNow, CooldownAcrossPolls
  <1>6. OneLock /\ \A p \in Polls : HoldOf(p) /\ HourKnown(p)
    BY FS_EmptySet DEF NoticesInit, IdlePoll, OneLock, HoldOf, HourKnown
  <1> QED BY <1>1, <1>3, <1>4, <1>5, <1>6 DEF NoticesInv, NoticesInit

\* A step of one poll that writes no row.
LEMMA OnePoll ==
    ASSUME NoticesInv, NEW p \in Polls, NEW x \in Poll,
           poll' = [poll EXCEPT ![p] = x], UNCHANGED <<now, notes, open, muted, online>>,
           NoticeFlags', passes' \in 0..MaxPasses,
           known' \in [online : BOOLEAN, since : 0..MaxChanges],
           known'.online = FALSE => known'.since >= 1,
           blind => blind', x.st # "idle" => poll[p].st # "idle" \/ LockFree(p),
           HoldOf(p)', HourKnown(p)'
    PROVE  NoticesInv'
  <1>1. NoticeTypes'
    BY DEF NoticesInv, NoticeTypes
  <1>2. Distinct(notes)' /\ CapNow' /\ CooldownAcrossPolls'
    BY DEF NoticesInv, Distinct, CapNow, Hourly, CooldownAcrossPolls, Recent,
           Rows, Ids
  <1>3. OneLock'
    BY DEF NoticesInv, NoticeTypes, OneLock, LockFree
  <1>4. ASSUME NEW q \in Polls, q # p PROVE HoldOf(q)' /\ HourKnown(q)'
    <2>1. poll'[q] = poll[q]
      BY <1>4 DEF NoticesInv, NoticeTypes
    <2>2. HoldOf(q) /\ HourKnown(q)
      BY DEF NoticesInv
    <2> QED BY <2>1, <2>2 DEF HoldOf, HourKnown, Hourly, Recent, Rows,
                              Ids
  <1> QED BY <1>1, <1>2, <1>3, <1>4 DEF NoticesInv

LEMMA BeginStep ==
    ASSUME NoticesInv, NEW p \in Polls, BeginPoll(p)
    PROVE  NoticesInv'
  <1> DEFINE x == [IdlePoll EXCEPT !.st = "probing", !.at = now, !.left = open,
                                       !.by = passes + 1]
  <1>1. passes + 1 \in 0..MaxPasses /\ passes + 1 >= 1 /\ now \in 0..MaxTime
        /\ open \in SUBSET Events
    BY NotificationsAssumption DEF BeginPoll, NoticesInv, NoticeTypes, Events
  <1>2. x \in Poll
    <2>1. IdlePoll \in Poll
      BY NotificationsAssumption DEF IdlePoll, Poll
    <2> QED BY <1>1, <2>1 DEF Poll
  <1>3. /\ x.st = "probing" /\ x.at = now /\ x.by = passes + 1 /\ x.created = 0
        /\ x.seen = {}
    BY DEF IdlePoll
  <1>4. poll' = [poll EXCEPT ![p] = x] /\ poll'[p] = x /\ LockFree(p)
        /\ UNCHANGED <<now, open, online, known, notes, muted, blind>>
        /\ passes' = passes + 1
    BY DEF BeginPoll, NoticesInv, NoticeTypes
  <1> HIDE DEF x
  <1>5. HoldOf(p)' /\ HourKnown(p)'
    <2>1. IsFiniteSet(x.seen)
      BY <1>3, FS_EmptySet
    <2>2. /\ poll'[p].st = "probing" /\ poll'[p].at = now /\ poll'[p].created = 0
          /\ poll'[p].by >= 1 /\ IsFiniteSet(poll'[p].seen) /\ now' = now /\ now <= now
      <3>1. now \in Int /\ now <= now
        BY <1>1, NotificationsAssumption
      <3> QED BY <1>1, <1>3, <1>4, <2>1, <3>1
    <2>3. HoldOf(p)'
      BY <2>2 DEF HoldOf
    <2>4. HourKnown(p)'
      BY <2>2 DEF HourKnown
    <2> QED BY <2>3, <2>4
  <1>6. NoticeFlags' /\ known' \in [online : BOOLEAN, since : 0..MaxChanges]
        /\ (known'.online = FALSE => known'.since >= 1)
    BY <1>4 DEF NoticesInv, NoticeFlags, NoticeTypes
  <1> QED BY <1>1, <1>2, <1>4, <1>5, <1>6, OnePoll

LEMMA ProbeStep ==
    ASSUME NoticesInv, NEW p \in Polls, Probe(p)
    PROVE  NoticesInv'
  <1>1. PICK o \in Poll : o = poll[p]
    BY DEF NoticesInv, NoticeTypes
  <1>2. PICK l \in SUBSET Events :
            l = IF online THEN o.left ELSE o.left \cup {Seen.since}
    <2>1. ~online => Seen.since \in 1..MaxChanges
      BY NotificationsAssumption DEF Probe, Seen, NoticesInv, NoticeTypes
    <2> QED BY <2>1 DEF Events, Poll
  <1> DEFINE L == Listing
             x == [o EXCEPT !.st = "deciding", !.seen = L, !.muted = muted, !.left = l]
  <1>3. L \in SUBSET Rows(notes) /\ L \in SUBSET Note
    BY DEF Listing, Rows, NoticesInv, NoticeTypes
  <1>4. IsFiniteSet(Rows(notes)) /\ IsFiniteSet(L)
    BY <1>3, RowsOf, Less DEF NoticesInv, NoticeTypes
  <1>5. o.st = "probing" /\ o.created = 0 /\ o.by >= 1 /\ o.at <= now
    BY <1>1 DEF Probe, NoticesInv, HoldOf
  <1> HIDE DEF L
  <1>6. x \in Poll
    BY <1>2, <1>3 DEF Poll, NoticesInv, NoticeTypes
  <1>7. /\ x.st = "deciding" /\ x.at = o.at /\ x.by = o.by /\ x.created = 0 /\ x.seen = L
    BY <1>5 DEF Poll
  <1>8. /\ poll' = [poll EXCEPT ![p] = x] /\ poll'[p] = x /\ known' = Seen
        /\ blind' = (blind \/ ~(Recent(Rows(notes), o.at, Hour) \subseteq L))
        /\ UNCHANGED <<now, open, online, notes, muted, passes>>
    BY <1>1, <1>2 DEF Probe, NoticesInv, NoticeTypes, L
  <1> HIDE DEF x
  <1>9. HoldOf(p)'
    BY <1>4, <1>5, <1>7, <1>8 DEF HoldOf
  <1>10. HourKnown(p)'
    <2> DEFINE R == Recent(Rows(notes), o.at, Hour)
               S == Recent(L, o.at, Hour)
    <2> SUFFICES ASSUME R \subseteq L
                 PROVE  /\ Cardinality(Hourly(notes, o.at)) <= Cardinality(S) + 0
                        /\ \A n \in Rows(notes) :
                              n.at > o.at - Hour =>
                                n.by = o.by \/ \E m \in L : SameNote(m, n)
      <3>1. ~blind' => R \subseteq L
        BY <1>8
      <3> HIDE DEF R, S
      <3>2. poll'[p].at = o.at /\ poll'[p].seen = L /\ poll'[p].created = 0 /\ poll'[p].by = o.by
        BY <1>7, <1>8
      <3>3. notes' = notes
        BY <1>8
      <3> QED BY <3>1, <3>2, <3>3 DEF HourKnown, Hourly, Recent, Rows,
                                      Ids, S
    <2>1. R \in SUBSET S /\ S \in SUBSET L
      BY DEF Recent
    <2>2. \A n \in Rows(notes) : n.at > o.at - Hour => n \in L
      BY DEF Recent
    <2>3. Cardinality(Hourly(notes, o.at)) = Cardinality(R)
      BY HourOf DEF NoticesInv, NoticeTypes
    <2> HIDE DEF R, S
    <2>4. Cardinality(R) <= Cardinality(S) /\ Cardinality(S) \in Nat /\ Cardinality(R) \in Nat
      BY <1>4, <2>1, Less
    <2> QED BY <2>2, <2>3, <2>4 DEF SameNote
  <1>11. NoticeFlags' /\ passes' \in 0..MaxPasses
    BY <1>8 DEF NoticesInv, NoticeFlags, NoticeTypes
  <1>12. known' \in [online : BOOLEAN, since : 0..MaxChanges]
         /\ (known'.online = FALSE => known'.since >= 1)
    <2>1. known'.since <= MaxChanges
      BY <1>8 DEF Probe
    <2> QED BY <1>8, <2>1, NotificationsAssumption DEF Seen, NoticesInv, NoticeTypes, NoticeFlags
  <1>13. blind => blind'
    BY <1>8
  <1>14. poll[p].st # "idle"
    BY <1>1, <1>5
  <1> QED BY <1>6, <1>8, <1>9, <1>10, <1>11, <1>12, <1>13, <1>14, OnePoll

LEMMA EndStep ==
    ASSUME NoticesInv, NEW p \in Polls, End(p)
    PROVE  NoticesInv'
  <1>1. IdlePoll \in Poll
    BY NotificationsAssumption DEF IdlePoll, Poll
  <1>2. /\ poll' = [poll EXCEPT ![p] = IdlePoll] /\ poll'[p] = IdlePoll
        /\ UNCHANGED <<now, open, online, known, notes, muted, passes, blind>>
    BY DEF End, NoticesInv, NoticeTypes
  <1>3. HoldOf(p)' /\ HourKnown(p)'
    BY <1>2, FS_EmptySet DEF IdlePoll, HoldOf, HourKnown
  <1>4. NoticeFlags' /\ passes' \in 0..MaxPasses
        /\ known' \in [online : BOOLEAN, since : 0..MaxChanges]
        /\ (known'.online = FALSE => known'.since >= 1) /\ (blind => blind')
    BY <1>2 DEF NoticesInv, NoticeFlags, NoticeTypes
  <1>5. IdlePoll.st = "idle"
    BY DEF IdlePoll
  <1> QED BY <1>1, <1>2, <1>3, <1>4, <1>5, OnePoll

\* A step after which every row is a version of one that was there.
LEMMA NoNews ==
    ASSUME NoticesInv, NoticeFlags', NoticeTypes', Distinct(notes)',
           \A n \in Rows(notes)' : \E m \in Rows(notes) : SameNote(m, n),
           UNCHANGED <<poll, blind, known>>, now <= now'
    PROVE  NoticesInv'
  <1>1. PICK s \in Seq(Note) : s = notes
    BY DEF NoticesInv, NoticeTypes
  <1>2. PICK t \in Seq(Note) : t = notes'
    BY DEF NoticeTypes
  <1>3. PICK b \in 0..MaxTime : b = now
    BY DEF NoticesInv, NoticeTypes
  <1>4. PICK c \in 0..MaxTime : c = now'
    BY DEF NoticeTypes
  <1>5. \A n \in Rows(t) : \E m \in Rows(s) : SameNote(m, n)
    BY <1>1, <1>2 DEF Rows
  <1>6. \A n \in Rows(s) \cup Rows(t) : n \in Note /\ n.at \in Int
    <2>1. \A n \in Note : n.at \in Int
      BY DEF Note
    <2>2. Rows(s) \subseteq Note /\ Rows(t) \subseteq Note
      BY DEF Rows
    <2> QED BY <2>1, <2>2
  <1>7. ASSUME NEW u \in Int, NEW v \in Int, u <= v
        PROVE  /\ Cardinality(Hourly(t, v)) <= Cardinality(Hourly(s, u))
               /\ Cardinality(Hourly(t, v)) \in Nat /\ Cardinality(Hourly(s, u)) \in Nat
    <2>1. Hourly(t, v) \in SUBSET Hourly(s, u)
      BY <1>5, <1>6, <1>7, NotificationsAssumption DEF Hourly, Recent, Ids, SameNote
    <2>2. IsFiniteSet(Hourly(s, u))
      BY <1>1, HourOf DEF NoticesInv
    <2> QED BY <2>1, <2>2, Less
  <1>8. CapNow'
    <2>1. b \in Int /\ c \in Int /\ b <= c
      BY <1>3, <1>4, NotificationsAssumption
    <2>2. Cardinality(Hourly(t, c)) <= Cardinality(Hourly(s, b))
          /\ Cardinality(Hourly(t, c)) \in Nat /\ Cardinality(Hourly(s, b)) \in Nat
      BY <1>7, <2>1
    <2>3. ~blind => Cardinality(Hourly(s, b)) <= Cap
      BY <1>1, <1>3 DEF NoticesInv, CapNow
    <2>4. ~blind' => Cardinality(Hourly(t, c)) <= Cap
      BY <2>2, <2>3, NotificationsAssumption
    <2>5. CapNow' <=> (~blind' => Cardinality(Hourly(notes', now')) <= Cap)
      BY DEF CapNow, Hourly, Recent, Rows, Ids
    <2> QED BY <1>2, <1>4, <2>4, <2>5
  <1>9. CooldownAcrossPolls'
    <2>1. ~blind => \A m, n \in Rows(s) :
              m.group = n.group /\ m.at <= n.at /\ n.at < m.at + Cooldown => m.by = n.by
      BY <1>1 DEF NoticesInv, CooldownAcrossPolls
    <2>2. ~blind => \A m, n \in Rows(t) :
              m.group = n.group /\ m.at <= n.at /\ n.at < m.at + Cooldown => m.by = n.by
      BY <1>5, <2>1 DEF SameNote
    <2> QED BY <1>2, <2>2 DEF CooldownAcrossPolls, Rows
  <1>10. ASSUME NEW p \in Polls PROVE HoldOf(p)' /\ HourKnown(p)'
    <2>1. PICK o \in Poll : o = poll[p] /\ o = poll'[p]
      BY DEF NoticesInv, NoticeTypes
    <2>2. HoldOf(p)'
      <3>1. HoldOf(p) /\ o.at \in Int
        BY DEF NoticesInv, Poll
      <3> QED BY <1>3, <1>4, <2>1, <3>1, NotificationsAssumption DEF HoldOf
    <2>3. HourKnown(p)'
      <3> DEFINE k == Cardinality(Recent(o.seen, o.at, Hour)) + o.created
      <3>1. HourKnown(p)
        BY DEF NoticesInv
      <3>2. o.st = "deciding" /\ ~blind =>
              /\ Cardinality(Hourly(s, o.at)) <= k
              /\ \A n \in Rows(s) : n.at > o.at - Hour =>
                    n.by = o.by \/ \E m \in o.seen : SameNote(m, n)
        BY <1>1, <2>1, <3>1 DEF HourKnown
      <3>3. k \in Int
        <4>1. HoldOf(p) /\ o.created \in Int
          BY NotificationsAssumption DEF NoticesInv, Poll
        <4>2. IsFiniteSet(o.seen) /\ Recent(o.seen, o.at, Hour) \in SUBSET o.seen
          BY <2>1, <4>1 DEF HoldOf, Recent
        <4> QED BY <4>1, <4>2, Less
      <3> HIDE DEF k
      <3>4. o.at \in Int /\ o.at <= o.at
        BY NotificationsAssumption DEF Poll
      <3>5. Cardinality(Hourly(t, o.at)) <= Cardinality(Hourly(s, o.at))
            /\ Cardinality(Hourly(t, o.at)) \in Nat /\ Cardinality(Hourly(s, o.at)) \in Nat
        BY <1>7, <3>4
      <3>6. o.st = "deciding" /\ ~blind =>
              /\ Cardinality(Hourly(t, o.at)) <= k
              /\ \A n \in Rows(t) : n.at > o.at - Hour =>
                    n.by = o.by \/ \E m \in o.seen : SameNote(m, n)
        <4>1. o.st = "deciding" /\ ~blind => Cardinality(Hourly(t, o.at)) <= k
          BY <3>2, <3>3, <3>5
        <4>2. o.st = "deciding" /\ ~blind =>
                \A n \in Rows(t) : n.at > o.at - Hour =>
                    n.by = o.by \/ \E m \in o.seen : SameNote(m, n)
          BY <1>5, <3>2 DEF SameNote
        <4> QED BY <4>1, <4>2
      <3> QED BY <1>2, <2>1, <3>6 DEF HourKnown, k, Hourly, Recent, Rows,
                                      Ids
    <2> QED BY <2>2, <2>3
  <1>11. OneLock' /\ (known.online = FALSE => known.since >= 1)'
    BY DEF NoticesInv, OneLock
  <1> QED BY <1>8, <1>9, <1>10, <1>11 DEF NoticesInv

LEMMA ActStep ==
    ASSUME NoticesInv, NEW i \in 1..Len(notes), NEW a \in Actions,
           Act(i, a)
    PROVE  NoticesInv' /\ notes \in Seq(Note) /\ Distinct(notes)
           /\ notes' \in Seq(Note) /\ Distinct(notes)'
           /\ \A n \in Rows(notes) :
                 \E m \in Rows(notes') : m.id = n.id /\ (m = n \/ m.state = a)
  <1> DEFINE x == [notes[i] EXCEPT !.state = a]
             t == Append(RemoveAt(notes, i), x)
  <1>1. notes \in Seq(Note) /\ Distinct(notes) /\ notes[i] \in Note
    BY DEF NoticesInv, NoticeTypes
  <1>2. x \in Note /\ x.id = notes[i].id /\ SameNote(notes[i], x) /\ x.state = a
    BY <1>1 DEF Note, SameNote
  <1>3. notes' = t /\ UNCHANGED <<now, online, known, poll, passes, blind>>
        /\ muted' = (IF a = "mute" THEN muted \cup {notes[i].group} ELSE muted)
        /\ open' = (IF a = "resolve" THEN open \ {notes[i].id} ELSE open)
    BY DEF Act
  <1>4. /\ t \in Seq(Note) /\ Distinct(t)
        /\ Rows(t) = (Rows(notes) \ {notes[i]}) \cup {x}
    <2>1. t = Append(RemoveAt(notes, i), x)
      OBVIOUS
    <2> HIDE DEF x, t
    <2>2. PICK s \in Seq(Note) : s = notes /\ i \in 1..Len(s)
      BY <1>1
    <2>3. Distinct(s) /\ x.id = s[i].id /\ t = Append(RemoveAt(s, i), x)
      BY <1>1, <1>2, <2>1, <2>2
    <2>4. PICK y \in Note : y = x
      BY <1>2
    <2>5. PICK u : u = Append(RemoveAt(s, i), y)
      OBVIOUS
    <2>6. y.id = s[i].id /\ i \in 1..Len(s)
      BY <2>2, <2>3, <2>4
    <2>7. /\ u \in Seq(Note) /\ Distinct(u)
          /\ Replaced(u, s, i, y)
      BY <2>3, <2>5, <2>6, Moved
    <2> QED BY <2>2, <2>3, <2>4, <2>5, <2>7 DEF Replaced
  <1>5. notes[i] \in Rows(notes)
    BY DEF Rows
  <1>6. NoticeFlags' /\ NoticeTypes'
    <2>1. muted' \in SUBSET {GroupOf(e) : e \in Events}
          /\ open' \in SUBSET Alerts
      BY <1>1, <1>3 DEF NoticesInv, NoticeTypes, Note
    <2> HIDE DEF t
    <2> QED BY <1>3, <1>4, <2>1 DEF NoticesInv, NoticeTypes, NoticeFlags
  <1> HIDE DEF x, t
  <1>7. \A n \in Rows(t) : \E m \in Rows(notes) : SameNote(m, n)
    BY <1>2, <1>4, <1>5 DEF SameNote
  <1>8. \A n \in Rows(notes) :
            \E m \in Rows(t) : m.id = n.id /\ (m = n \/ m.state = a)
    BY <1>2, <1>4
  <1>9. Distinct(notes)' /\ now <= now'
        /\ \A n \in Rows(notes)' : \E m \in Rows(notes) : SameNote(m, n)
    BY <1>3, <1>4, <1>7, NotificationsAssumption DEF Distinct, NoticesInv, NoticeTypes, Rows
  <1>10. NoticesInv'
    BY <1>3, <1>6, <1>9, NoNews
  <1> QED BY <1>1, <1>3, <1>4, <1>8, <1>9, <1>10

LEMMA WorldStep ==
    ASSUME NoticesInv,
           (\E a \in Alerts : Raise(a)) \/ Change \/ NoticesTick
           \/ UNCHANGED noticesVars
    PROVE  NoticesInv' /\ notes' = notes
  <1>1. UNCHANGED <<notes, poll, blind, known>> /\ now <= now'
    BY NotificationsAssumption DEF Raise, Change, NoticesTick, noticesVars, NoticesInv, NoticeTypes
  <1>2. NoticeFlags'
    BY DEF Raise, Change, NoticesTick, noticesVars, NoticesInv, NoticeFlags
  <1>3. NoticeTypes'
    BY NotificationsAssumption DEF Raise, Change, NoticesTick, noticesVars, NoticesInv, NoticeTypes
  <1>4. Distinct(notes)'
        /\ \A n \in Rows(notes)' : \E m \in Rows(notes) : SameNote(m, n)
    BY <1>1 DEF NoticesInv, Distinct, Rows, SameNote
  <1> QED BY <1>1, <1>2, <1>3, <1>4, NoNews

\* The ids of an hour with one row more.
LEMMA HourWith ==
    ASSUME NEW N, NEW s \in Seq(N), NEW t \in Seq(N), Distinct(s), Distinct(t), NEW x,
           \A n \in Rows(t) : n \in Rows(s) \/ n = x, NEW v
    PROVE  /\ Cardinality(Hourly(t, v)) <= Cardinality(Hourly(s, v)) + 1
           /\ Cardinality(Hourly(t, v)) \in Nat /\ Cardinality(Hourly(s, v)) \in Nat
  <1> DEFINE A == Hourly(s, v)
             B == Hourly(t, v)
  <1>1. IsFiniteSet(A) /\ IsFiniteSet(B)
    BY HourOf
  <1>2. B \in SUBSET (A \cup {x.id})
    BY DEF Hourly, Recent, Ids
  <1> HIDE DEF A, B
  <1>3. Cardinality(A) \in Nat
    BY <1>1, FS_CardinalityType
  <1>4. IsFiniteSet(A \cup {x.id}) /\ Cardinality(A \cup {x.id}) <= Cardinality(A) + 1
    <2>1. CASE x.id \in A
      <3>1. A \cup {x.id} \in SUBSET A
        BY <2>1
      <3>2. IsFiniteSet(A \cup {x.id}) /\ Cardinality(A \cup {x.id}) <= Cardinality(A)
            /\ Cardinality(A \cup {x.id}) \in Nat
        BY <1>1, <3>1, Less
      <3> QED BY <1>3, <3>2
    <2>2. CASE x.id \notin A
      <3>1. IsFiniteSet(A \cup {x.id}) /\ Cardinality(A \cup {x.id}) = Cardinality(A) + 1
        BY <1>1, <2>2, FS_AddElement
      <3> QED BY <1>3, <3>1
    <2> QED BY <2>1, <2>2
  <1>5. Cardinality(B) <= Cardinality(A \cup {x.id}) /\ Cardinality(B) \in Nat
        /\ Cardinality(A \cup {x.id}) \in Nat
    BY <1>2, <1>4, Less
  <1> QED BY <1>3, <1>4, <1>5 DEF A, B

\* A poll inserts a row.
LEMMA InsertStep ==
    ASSUME NoticesInv, NEW p \in Polls, NEW e \in Events,
           Decide(p, e), Wanted(p, e),
           e \notin Ids(Rows(notes))
    PROVE  /\ NoticesInv' /\ Distinct(notes)'
           /\ \A n \in Rows(notes) : n \in Rows(notes')
  <1>1. PICK o \in Poll : o = poll[p] /\ o.st = "deciding"
    BY DEF NoticesInv, NoticeTypes, Decide
  <1>2. PICK s \in Seq(Note) : s = notes /\ Distinct(s)
    BY DEF NoticesInv, NoticeTypes
  <1>3. HoldOf(p) /\ HourKnown(p) /\ o.by >= 1 /\ o.at <= now /\ IsFiniteSet(o.seen)
    BY <1>1 DEF NoticesInv, HoldOf
  <1>4. PICK b \in Int : b = now
    BY NotificationsAssumption DEF NoticesInv, NoticeTypes
  <1>5. /\ o.at \in 0..MaxTime /\ o.at \in Int /\ o.by \in 0..MaxPasses /\ o.created \in 0..Cap
        /\ o.created \in Int
    BY NotificationsAssumption DEF Poll
  <1> DEFINE g == GroupOf(e)
             c == Cardinality(Recent(o.seen, o.at, Hour))
             x == [id |-> e, group |-> g, at |-> o.at, by |-> o.by, state |-> "new"]
             y == [o EXCEPT !.left = o.left \ {e}, !.created = o.created + 1]
  <1>6. c \in Nat
    <2>1. Recent(o.seen, o.at, Hour) \in SUBSET o.seen
      BY DEF Recent
    <2> QED BY <1>3, <2>1, Less
  <1>7. /\ c + o.created < Cap
        /\ \A n \in o.seen : ~(n.at > o.at - Cooldown /\ n.group = g)
    <2>1. ~Full(p) /\ ~Resting(p, g)
      BY DEF Wanted
    <2>2. ~(c + o.created >= Cap)
      <3>1. Cardinality(Recent(poll[p].seen, poll[p].at, Hour)) = c
            /\ poll[p].created = o.created
        BY <1>1
      <3> HIDE DEF c
      <3>2. Cardinality(Recent(poll[p].seen, poll[p].at, Hour)) = c
        BY <3>1
      <3> QED BY <2>1, <3>1, <3>2 DEF Full
    <2>3. \A n \in o.seen : ~(n.at > o.at - Cooldown /\ n.group = g)
      <3> HIDE DEF g
      <3> QED BY <1>1, <2>1 DEF Resting, Recent
    <2> HIDE DEF c, g
    <2>4. c + o.created < Cap
      BY <1>5, <1>6, <2>2, NotificationsAssumption
    <2> QED BY <2>3, <2>4
  <1>8. x \in Note
    BY <1>3, <1>5, NotificationsAssumption DEF Note
  <1>9. y \in Poll /\ y.st = o.st /\ y.at = o.at /\ y.by = o.by /\ y.seen = o.seen
        /\ y.created = o.created + 1
    <2>1. o.created + 1 \in 0..Cap
      BY <1>5, <1>6, <1>7, NotificationsAssumption
    <2> QED BY <2>1 DEF Poll
  <1>10. x.id = e /\ x.group = g /\ x.at = o.at /\ x.by = o.by
    OBVIOUS
  <1> DEFINE t == Append(s, x)
  <1>11. /\ notes' = t /\ poll' = [poll EXCEPT ![p] = y]
         /\ UNCHANGED <<now, open, online, known, muted, passes, blind>>
    BY <1>1, <1>2 DEF Decide, Inserted, NewNote
  <1> HIDE DEF g, c, x, y
  <1>12. t \in Seq(Note) /\ Distinct(t) /\ Rows(t) = Rows(s) \cup {x}
    <2>1. x.id \notin Ids(Rows(s)) /\ Distinct(s)
      BY <1>2, <1>10
    <2>2. t \in Seq(Note) /\ Distinct(t) /\ Extended(t, s, x)
      BY <1>8, <2>1, Added
    <2> QED BY <2>2 DEF Extended
  <1> HIDE DEF t
  <1>13. NoticeFlags' /\ NoticeTypes' /\ Distinct(notes)'
    BY <1>9, <1>11, <1>12 DEF NoticesInv, NoticeFlags, NoticeTypes, Distinct
  <1>14. poll'[p] = y /\ \A q \in Polls : q # p => poll'[q] = poll[q] /\ poll[q].st = "idle"
    <2>1. poll \in [Polls -> Poll] /\ OneLock
      BY DEF NoticesInv, NoticeTypes
    <2> QED BY <1>1, <1>11, <2>1 DEF OneLock
  <1>15. OneLock' /\ (known.online = FALSE => known.since >= 1)'
    <2>1. OneLock'
      BY <1>14 DEF OneLock
    <2> QED BY <1>11, <2>1 DEF NoticesInv
  <1>16. ~blind => /\ Cardinality(Hourly(s, o.at)) <= c + o.created
                   /\ \A n \in Rows(s) : n.at > o.at - Hour =>
                         n.by = o.by \/ \E m \in o.seen : SameNote(m, n)
    BY <1>1, <1>2, <1>3 DEF HourKnown, c
  <1>17. /\ Cardinality(Hourly(t, o.at)) <= Cardinality(Hourly(s, o.at)) + 1
         /\ Cardinality(Hourly(t, o.at)) \in Nat /\ Cardinality(Hourly(s, o.at)) \in Nat
    BY <1>2, <1>12, HourWith
  <1>18. \A q \in Polls : HoldOf(q)'
    <2>1. HoldOf(p)'
      BY <1>1, <1>3, <1>9, <1>11, <1>14 DEF HoldOf
    <2>2. ASSUME NEW q \in Polls, q # p PROVE HoldOf(q)'
      BY <1>14, <2>2 DEF HoldOf, NoticesInv
    <2> QED BY <2>1, <2>2
  <1>19. \A q \in Polls : HourKnown(q)'
    <2>1. ASSUME NEW q \in Polls, q # p PROVE HourKnown(q)'
      BY <1>14, <2>1 DEF HourKnown
    <2>2. ~blind => Cardinality(Hourly(t, o.at)) <= c + (o.created + 1)
      BY <1>5, <1>6, <1>16, <1>17
    <2>3. ~blind => \A n \in Rows(t) : n.at > o.at - Hour =>
                         n.by = o.by \/ \E m \in o.seen : SameNote(m, n)
      BY <1>10, <1>12, <1>16
    <2>4. HourKnown(p)'
      BY <1>9, <1>11, <1>14, <2>2, <2>3 DEF HourKnown, c, Hourly, Recent,
                                            Rows, Ids
    <2> QED BY <2>1, <2>4
  <1>20. CapNow'
    <2>1. \A n \in Rows(t) : n.at \in Int
      <3>1. \A n \in Note : n.at \in Int
        BY NotificationsAssumption DEF Note
      <3>2. Rows(t) \subseteq Note
        BY <1>12 DEF Rows
      <3> QED BY <3>1, <3>2
    <2>2. Hourly(t, b) \in SUBSET Hourly(t, o.at)
      BY <1>3, <1>4, <1>5, <2>1, NotificationsAssumption DEF Hourly, Recent, Ids
    <2>3. IsFiniteSet(Hourly(t, o.at))
      BY <1>12, HourOf
    <2>4. Cardinality(Hourly(t, b)) <= Cardinality(Hourly(t, o.at))
          /\ Cardinality(Hourly(t, b)) \in Nat /\ Cardinality(Hourly(t, o.at)) \in Nat
      BY <2>2, <2>3, Less
    <2>5. ~blind => Cardinality(Hourly(t, b)) <= Cap
      BY <1>5, <1>6, <1>7, <1>16, <1>17, <2>4, NotificationsAssumption
    <2>6. CapNow' <=> (~blind' => Cardinality(Hourly(notes', now')) <= Cap)
      BY DEF CapNow, Hourly, Recent, Rows, Ids
    <2> QED BY <1>4, <1>11, <2>5, <2>6
  <1>21. CooldownAcrossPolls'
    <2> DEFINE Apart(m, n) ==
                 m.group = n.group /\ m.at <= n.at /\ n.at < m.at + Cooldown => m.by = n.by
    <2>1. ~blind => \A m, n \in Rows(s) : Apart(m, n)
      BY <1>2 DEF NoticesInv, CooldownAcrossPolls
    <2>2. ASSUME ~blind, NEW n \in Rows(s), n.group = g, n.at > o.at - Cooldown
          PROVE  n.by = o.by
      <3>1. n.at > o.at - Hour
        <4>1. n.at \in Int
          BY <2>2, Dated
        <4> QED BY <1>5, <2>2, <4>1, NotificationsAssumption
      <3>2. n.by = o.by \/ \E m \in o.seen : SameNote(m, n)
        BY <1>16, <2>2, <3>1
      <3> QED BY <1>7, <2>2, <3>2 DEF SameNote
    <2>3. ASSUME ~blind, NEW n \in Rows(s) PROVE Apart(n, x) /\ Apart(x, n)
      <3>1. n.at \in Int
        BY <2>3, Dated
      <3>2. Apart(n, x)
        BY <1>5, <1>10, <2>2, <2>3, <3>1, NotificationsAssumption
      <3>3. Apart(x, n)
        BY <1>5, <1>10, <2>2, <2>3, <3>1, NotificationsAssumption
      <3> QED BY <3>2, <3>3
    <2>4. Apart(x, x)
      OBVIOUS
    <2> HIDE DEF Apart
    <2>5. ~blind => \A m, n \in Rows(t) : Apart(m, n)
      BY <1>12, <2>1, <2>3, <2>4
    <2> QED BY <1>11, <2>5 DEF Apart, CooldownAcrossPolls, Rows
  <1>22. NoticesInv'
    BY <1>13, <1>15, <1>18, <1>19, <1>20, <1>21 DEF NoticesInv
  <1>23. \A n \in Rows(notes) : n \in Rows(notes')
    BY <1>2, <1>11, <1>12
  <1> QED BY <1>13, <1>22, <1>23

\* A poll decides about a candidate and writes nothing.
LEMMA PassStep ==
    ASSUME NoticesInv, NEW p \in Polls, NEW e \in Events,
           Decide(p, e),
           ~Wanted(p, e) \/ e \in Ids(Rows(notes))
    PROVE  NoticesInv' /\ notes' = notes
  <1>1. PICK o \in Poll : o = poll[p] /\ o.st = "deciding"
    BY DEF NoticesInv, NoticeTypes, Decide
  <1>2. HoldOf(p) /\ HourKnown(p)
    BY DEF NoticesInv
  <1>3. PICK d \in Int : d = (IF Wanted(p, e) THEN o.created + 1 ELSE o.created)
    BY NotificationsAssumption DEF Poll
  <1> DEFINE c == Cardinality(Recent(o.seen, o.at, Hour))
             y == [o EXCEPT !.left = o.left \ {e}, !.created = d]
  <1>4. c \in Nat /\ o.created \in 0..Cap /\ o.created \in Int
    <2>1. Recent(o.seen, o.at, Hour) \in SUBSET o.seen /\ IsFiniteSet(o.seen)
      BY <1>1, <1>2 DEF HoldOf, Recent
    <2>2. c \in Nat
      BY <2>1, Less
    <2> QED BY <2>2, NotificationsAssumption DEF Poll
  <1>5. d \in 0..Cap /\ o.created <= d
    <2>1. CASE Wanted(p, e)
      <3>1. Cardinality(Recent(poll[p].seen, poll[p].at, Hour)) = c
            /\ poll[p].created = o.created
        BY <1>1
      <3>2. ~Full(p)
        BY <2>1 DEF Wanted
      <3> HIDE DEF c
      <3>3. ~(c + o.created >= Cap)
        BY <3>1, <3>2 DEF Full
      <3> QED BY <1>3, <1>4, <2>1, <3>3, NotificationsAssumption
    <2>2. CASE ~Wanted(p, e)
      BY <1>3, <1>4, <2>2, NotificationsAssumption
    <2> QED BY <2>1, <2>2
  <1>6. y \in Poll /\ y.st = o.st /\ y.at = o.at /\ y.by = o.by /\ y.seen = o.seen
        /\ y.created = d
    BY <1>5 DEF Poll
  <1>7. notes' = notes
    <2>1. notes' = IF Wanted(p, e) THEN Inserted(NewNote(p, e)) ELSE notes
      BY DEF Decide
    <2>2. NewNote(p, e).id = e
      BY DEF NewNote
    <2>3. Wanted(p, e) => Inserted(NewNote(p, e)) = notes
      BY <2>2 DEF Inserted
    <2> QED BY <2>1, <2>3
  <1>8. /\ poll' = [poll EXCEPT ![p] = y] /\ poll'[p] = y
        /\ UNCHANGED <<now, open, online, known, muted, passes, blind>>
    BY <1>1, <1>3 DEF Decide, NoticesInv, NoticeTypes
  <1> HIDE DEF c, y
  <1>9. HoldOf(p)'
    BY <1>1, <1>2, <1>6, <1>8 DEF HoldOf
  <1>10. HourKnown(p)'
    <2>1. PICK s \in Seq(Note) : s = notes /\ Distinct(s)
      BY DEF NoticesInv, NoticeTypes
    <2>2. ~blind => /\ Cardinality(Hourly(s, o.at)) <= c + o.created
                    /\ \A n \in Rows(s) : n.at > o.at - Hour =>
                          n.by = o.by \/ \E m \in o.seen : SameNote(m, n)
      BY <1>1, <1>2, <2>1 DEF HourKnown, c
    <2>3. Cardinality(Hourly(s, o.at)) \in Nat
      BY <2>1, HourOf
    <2>4. ~blind => Cardinality(Hourly(s, o.at)) <= c + d
      BY <1>3, <1>4, <1>5, <2>2, <2>3
    <2> QED BY <1>6, <1>7, <1>8, <2>1, <2>2, <2>4 DEF HourKnown, c, Hourly, Recent,
                                                      Rows, Ids
  <1>11. NoticeFlags' /\ passes' \in 0..MaxPasses
         /\ known' \in [online : BOOLEAN, since : 0..MaxChanges]
         /\ (known'.online = FALSE => known'.since >= 1) /\ (blind => blind')
    BY <1>8 DEF NoticesInv, NoticeFlags, NoticeTypes
  <1>12. NoticesInv'
    BY <1>1, <1>6, <1>7, <1>8, <1>9, <1>10, <1>11, OnePoll
  <1> QED BY <1>7, <1>12

\* Rows stay, as they are or as somebody acted on them.
NotesStay ==
    /\ Distinct(notes) /\ Distinct(notes)'
    /\ \A n \in Rows(notes) :
          \E m \in Rows(notes)' :
              m.id = n.id /\ (m = n \/ m.state \in Actions)

LEMMA NoticesNextInv ==
    ASSUME NoticesInv, [NoticesNext]_noticesVars
    PROVE  NoticesInv' /\ NotesStay
  <1>1. Distinct(notes) /\ (NoticesInv' => Distinct(notes)')
    BY DEF NoticesInv
  <1>2. ASSUME NoticesInv', UNCHANGED notes PROVE NotesStay
    BY <1>1, <1>2 DEF NotesStay, Rows
  <1>3. ASSUME NEW p \in Polls, BeginPoll(p) \/ Probe(p) \/ End(p)
        PROVE  NoticesInv' /\ NotesStay
    <2>1. NoticesInv'
      BY <1>3, BeginStep, ProbeStep, EndStep
    <2>2. notes' = notes
      BY <1>3 DEF BeginPoll, Probe, End
    <2> QED BY <1>2, <2>1, <2>2
  <1>4. ASSUME NEW p \in Polls, NEW e \in Events, Decide(p, e)
        PROVE  NoticesInv' /\ NotesStay
    <2>1. CASE ~Wanted(p, e) \/ e \in Ids(Rows(notes))
      BY <1>2, <1>4, <2>1, PassStep
    <2>2. CASE Wanted(p, e) /\ e \notin Ids(Rows(notes))
      <3>1. NoticesInv' /\ Distinct(notes)'
            /\ \A n \in Rows(notes) : n \in Rows(notes')
        BY <1>4, <2>2, InsertStep
      <3> QED BY <1>1, <3>1 DEF NotesStay, Rows
    <2> QED BY <2>1, <2>2
  <1>5. ASSUME NEW i \in 1..Len(notes), NEW a \in Actions, Act(i, a)
        PROVE  NoticesInv' /\ NotesStay
    <2>1. NoticesInv' /\ Distinct(notes)'
          /\ \A n \in Rows(notes) :
                \E m \in Rows(notes') : m.id = n.id /\ (m = n \/ m.state = a)
      BY <1>5, ActStep
    <2> QED BY <1>1, <2>1 DEF NotesStay, Rows
  <1>6. CASE (\E a \in Alerts : Raise(a)) \/ Change \/ NoticesTick
             \/ UNCHANGED noticesVars
    BY <1>2, <1>6, WorldStep
  <1> QED BY <1>3, <1>4, <1>5, <1>6 DEF NoticesNext

\* However many tabs poll at once, at most Cap notifications are created in an hour and
\* two of a group within its cooldown come from one poll (generate_notifications), as long
\* as the list a poll looks at reaches back over the hour.
THEOREM LimitsAreShared ==
    NoticesSpec => []LimitsHold
  <1>1. NoticesInit => NoticesInv
    BY NoticesInitInv
  <1>2. NoticesInv /\ [NoticesNext]_noticesVars => NoticesInv'
    BY NoticesNextInv
  <1>3. NoticesInv => NoticesTypeOK
    <2> SUFFICES ASSUME NoticesInv PROVE NoticesTypeOK
      OBVIOUS
    <2>1. Cardinality(Ids(Rows(notes))) = Len(notes)
      BY RowsOf DEF NoticesInv, NoticeTypes
    <2>2. Cardinality(Ids(Rows(notes))) = Len(notes)
      BY <2>1
    <2> QED BY <2>2 DEF NoticesInv, NoticeFlags, NoticeTypes, NoticesTypeOK
  <1>4. NoticesInv => HourlyCap
    <2> SUFFICES ASSUME NoticesInv, ~blind
                 PROVE  Cardinality(Recent(Rows(notes), now, Hour)) <= Cap
      BY DEF HourlyCap
    <2>1. Cardinality(Recent(Rows(notes), now, Hour))
            = Cardinality(Hourly(notes, now))
      BY HourOf DEF NoticesInv, NoticeTypes
    <2>2. Cardinality(Recent(Rows(notes), now, Hour))
            = Cardinality(Hourly(notes, now))
      BY <2>1
    <2> QED BY <2>2 DEF NoticesInv, CapNow
  <1>5. NoticesInv => LimitsHold
    BY <1>3, <1>4 DEF NoticesInv, LimitsHold
  <1> QED BY <1>1, <1>2, <1>5, PTL DEF NoticesSpec

\* What the user has seen, dismissed or snoozed is never new again, whatever a poll that
\* began before decides (INSERT ... ON CONFLICT DO NOTHING, notice_action).
THEOREM ActedOnStays ==
    NoticesSpec => DismissedStays
  <1>1. NoticesInit => NoticesInv
    BY NoticesInitInv
  <1>2. NoticesInv /\ [NoticesNext]_noticesVars => NoticesInv' /\ NotesStay
    BY NoticesNextInv
  <1>3. NoticesInv /\ NotesStay =>
            \A n \in Rows(notes) :
                n.state # "new" => StateOf(notes', n.id) \notin {"new", "none"}
    <2> SUFFICES ASSUME NoticesInv, NotesStay, NEW n \in Rows(notes), n.state # "new"
                 PROVE  StateOf(notes', n.id) \notin {"new", "none"}
      OBVIOUS
    <2>1. PICK m \in Rows(notes') : m.id = n.id /\ (m = n \/ m.state \in Actions)
      BY DEF NotesStay, Rows
    <2>2. \A k \in Rows(notes') : k.id = n.id => k = m
      BY <2>1 DEF NotesStay, Distinct, Rows
    <2>3. StateOf(notes', n.id) = m.state
      BY <2>1, <2>2 DEF StateOf, Ids
    <2>4. n.state \in {"new"} \cup Actions
      <3>1. n \in Note
        BY DEF NoticesInv, NoticeTypes, Rows
      <3> QED BY <3>1 DEF Note
    <2> QED BY <2>1, <2>3, <2>4, NotificationsAssumption
  <1> QED BY <1>1, <1>2, <1>3, PTL DEF NoticesSpec, DismissedStays
=============================================================================
