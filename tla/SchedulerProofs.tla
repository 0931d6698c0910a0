--------------------------- MODULE SchedulerProofs ---------------------------
(***************************************************************************)
(* What holds of SourceScheduler for every set of replicas and of sources, *)
(* all periods and every skew of the clocks, however long it runs and      *)
(* however many faults there are.                                          *)
(***************************************************************************)
EXTENDS SourceScheduler, FiniteSetTheorems, TLAPS

\* The replicas that hold a slot of a source are as many as the slots owed to it.
Counted == \A s \in Sources : IsFiniteSet(Pending(s)) /\ owed[s] = Cardinality(Pending(s))

\* No two replicas have locked the same row;
RowsApart == \A r, q \in Replicas : r # q => proc[r].rows \cap proc[q].rows = {}

\* so what is due to a replica under its lock is still due when it commits,
LockedDue ==
    \A r \in Replicas : proc[r].st = "locked" =>
        /\ proc[r].due \subseteq proc[r].rows
        /\ \A s \in proc[r].due : row[s].next <= Clock(r, proc[r].wake)

\* and nothing is due before the period of the last claim is over.
NextAfterLast == \A s \in Sources : row[s].next >= last[s].wake + last[s].period

IInv == TypeOK /\ Counted /\ RowsApart /\ LockedDue /\ NextAfterLast

\* The slots a replica in the state p holds.
ClaimsOf(p) == IF p.st = "crawling" THEN p.due ELSE {}

-----------------------------------------------------------------------------
(* Lemmas *)

LEMMA PendingGrows ==
    ASSUME NEW S, NEW r, IsFiniteSet(S), r \notin S
    PROVE  IsFiniteSet(S \cup {r}) /\ Cardinality(S \cup {r}) = Cardinality(S) + 1
  BY FS_AddElement

LEMMA PendingShrinks ==
    ASSUME NEW S, NEW r \in S, IsFiniteSet(S)
    PROVE  IsFiniteSet(S \ {r}) /\ Cardinality(S \ {r}) = Cardinality(S) - 1
  BY FS_RemoveElement

\* Only the claims of r change: what the others hold of a source stays.
LEMMA PendingOf ==
    ASSUME proc \in [Replicas -> Proc], NEW r \in Replicas, NEW p \in Proc,
           proc' = [proc EXCEPT ![r] = p]
    PROVE  \A s \in Sources :
              Pending(s)' = IF s \in ClaimsOf(p) THEN Pending(s) \cup {r} ELSE Pending(s) \ {r}
  BY DEF Pending, Claims, ClaimsOf

LEMMA AsleepType == Asleep \in Proc /\ Asleep.st = "down" /\ Asleep.rows = {}
  BY DEF Asleep, Proc, Stages

LEMMA InitInv ==
    ASSUME Init
    PROVE  IInv
  <1>1. row \in [Sources -> Row] /\ \A s \in Sources : row[s].next = 0
    <2>1. \A c \in Configs : [policy |-> c[1], enabled |-> c[2], next |-> 0] \in Row
      BY SchedulerAssumption DEF Row
    <2>2. ASSUME NEW s \in Sources PROVE row[s] \in Row /\ row[s].next = 0
      <3>1. PICK c \in Configs : row[s] = [policy |-> c[1], enabled |-> c[2], next |-> 0]
        BY DEF Init
      <3> QED BY <2>1, <3>1
    <2> QED BY <2>2 DEF Init
  <1>2. TypeOK
    BY <1>1, AsleepType, SchedulerAssumption DEF Init, TypeOK
  <1>3. \A r \in Replicas : proc[r] = Asleep
    BY DEF Init
  <1>4. \A s \in Sources : Pending(s) = {}
    BY <1>3, AsleepType DEF Pending, Claims
  <1>5. Counted
    BY <1>4, FS_EmptySet DEF Counted, Init
  <1> QED
    BY <1>1, <1>2, <1>3, <1>5, AsleepType
       DEF IInv, RowsApart, LockedDue, NextAfterLast, Init

\* A replica goes on without claiming a slot, locking a row or losing what it holds.
LEMMA GoesOnInv ==
    ASSUME IInv, NEW r \in Replicas, NEW p \in Proc,
           proc' = [proc EXCEPT ![r] = p],
           p.rows \subseteq proc[r].rows,
           p.st = "locked" =>
              proc[r].st = "locked" /\ p.due = proc[r].due /\ p.rows = proc[r].rows
                                    /\ p.wake = proc[r].wake,
           ClaimsOf(p) = Claims(r),
           UNCHANGED <<now, row, held, dbUp, history>>,
           ready' \in [Replicas -> BOOLEAN], faults' \in 0..MaxFaults
    PROVE  IInv'
  <1>1. TypeOK'
    BY DEF IInv, TypeOK, history
  <1>2. \A s \in Sources : Pending(s)' = Pending(s)
    <2> SUFFICES ASSUME NEW s \in Sources PROVE Pending(s)' = Pending(s)
      OBVIOUS
    <2>1. r \in Pending(s) <=> s \in ClaimsOf(p)
      BY DEF Pending
    <2>2. Pending(s)' = IF s \in ClaimsOf(p) THEN Pending(s) \cup {r} ELSE Pending(s) \ {r}
      BY PendingOf DEF IInv, TypeOK
    <2> QED BY <2>1, <2>2
  <1>3. Counted'
    BY <1>2 DEF IInv, Counted, history
  <1>4. proc'[r] = p /\ \A q \in Replicas \ {r} : proc'[q] = proc[q]
    BY DEF IInv, TypeOK
  <1>5. RowsApart'
    BY <1>4 DEF IInv, RowsApart
  <1>6. LockedDue'
    BY <1>4 DEF IInv, LockedDue, Clock
  <1>7. NextAfterLast'
    BY DEF IInv, NextAfterLast, history
  <1> QED BY <1>1, <1>3, <1>5, <1>6, <1>7 DEF IInv

\* A step of somebody else: the replicas, what they hold and when the sources are due stay.
LEMMA ElsewhereInv ==
    ASSUME IInv, UNCHANGED <<proc, history>>,
           now' \in 0..MaxTime, held' \in SUBSET Sources, dbUp' \in BOOLEAN,
           ready' \in [Replicas -> BOOLEAN], faults' \in 0..MaxFaults,
           row' \in [Sources -> Row],
           \A s \in Sources : row'[s].next = row[s].next
    PROVE  IInv'
  <1>1. TypeOK'
    BY DEF IInv, TypeOK, history
  <1>2. \A s : Pending(s)' = Pending(s)
    BY DEF Pending, Claims
  <1>3. Counted' /\ RowsApart' /\ NextAfterLast'
    BY <1>2 DEF IInv, Counted, RowsApart, NextAfterLast, history
  <1>4. LockedDue'
    BY DEF IInv, TypeOK, Proc, LockedDue, Clock
  <1> QED BY <1>1, <1>3, <1>4 DEF IInv

-----------------------------------------------------------------------------
(* The steps *)

LEMMA WakeInv ==
    ASSUME IInv, NEW r \in Replicas, Wake(r)
    PROVE  IInv'
  <1> DEFINE p == [proc[r] EXCEPT !.st = "read", !.wake = now]
  <1>1. /\ proc' = [proc EXCEPT ![r] = p] /\ proc[r].st = "cycle"
        /\ ready' \in [Replicas -> BOOLEAN]
        /\ UNCHANGED <<now, row, held, dbUp, faults, history>>
    BY DEF Wake, Connected, IInv, TypeOK
  <1>2. now \in Nat /\ proc[r] \in Proc
    BY SchedulerAssumption DEF IInv, TypeOK
  <1>3. p \in Proc /\ p.rows = proc[r].rows /\ p.st = "read"
    BY <1>2 DEF Proc, Stages
  <1> HIDE DEF p
  <1>4. ClaimsOf(p) = Claims(r)
    BY <1>1, <1>3 DEF ClaimsOf, Claims
  <1>5. faults' \in 0..MaxFaults
    BY <1>1 DEF IInv, TypeOK
  <1> QED BY <1>1, <1>3, <1>4, <1>5, GoesOnInv

\* The start of a replica, the end of a cycle that failed or is over, the end of the wait,
\* and a stop that is asked for.
LEMMA QuietInv ==
    ASSUME IInv, NEW r \in Replicas,
           \/ Start(r) \/ CycleFails(r) \/ EndCycle(r) \/ WaitEnds(r) \/ Shutdown(r)
    PROVE  IInv'
  <1>1. proc[r] \in Proc /\ proc' \in [Replicas -> Proc] /\ Asleep \in Proc
    <2>1. proc[r] \in Proc /\ Asleep \in Proc
      BY AsleepType DEF IInv, TypeOK
    <2>2. /\ [Asleep EXCEPT !.st = "cycle"] \in Proc
          /\ [proc[r] EXCEPT !.st = "waiting", !.rows = {}, !.due = {}] \in Proc
          /\ [proc[r] EXCEPT !.st = "waiting"] \in Proc
          /\ [proc[r] EXCEPT !.st = "cycle"] \in Proc
          /\ [proc[r] EXCEPT !.stop = TRUE] \in Proc
      BY <2>1 DEF Proc, Stages
    <2> QED
      BY <2>1, <2>2 DEF Start, CycleFails, EndCycle, WaitEnds, Shutdown, IInv, TypeOK
  <1> DEFINE p == proc'[r]
  <1>2. /\ p \in Proc /\ proc' = [proc EXCEPT ![r] = p]
        /\ p.rows \subseteq proc[r].rows
        /\ p.st = "locked" =>
              proc[r].st = "locked" /\ p.due = proc[r].due /\ p.rows = proc[r].rows
                                    /\ p.wake = proc[r].wake
        /\ ClaimsOf(p) = Claims(r)
    <2>1. CASE Start(r)
      BY <1>1, <2>1, AsleepType DEF Start, Asleep, Claims, ClaimsOf, IInv, TypeOK
    <2>2. CASE CycleFails(r)
      BY <1>1, <2>2 DEF CycleFails, Claims, ClaimsOf, IInv, TypeOK, Proc
    <2>3. CASE EndCycle(r)
      BY <1>1, <2>3 DEF EndCycle, Claims, ClaimsOf, IInv, TypeOK, Proc
    <2>4. CASE WaitEnds(r)
      BY <1>1, <2>4, AsleepType DEF WaitEnds, Claims, ClaimsOf, IInv, TypeOK, Proc
    <2>5. CASE Shutdown(r)
      BY <1>1, <2>5 DEF Shutdown, Claims, ClaimsOf, IInv, TypeOK, Proc
    <2> QED BY <2>1, <2>2, <2>3, <2>4, <2>5
  <1>3. /\ UNCHANGED <<now, row, held, dbUp, history>>
        /\ ready' \in [Replicas -> BOOLEAN] /\ faults' \in 0..MaxFaults
    BY SchedulerAssumption
       DEF Start, CycleFails, EndCycle, WaitEnds, Shutdown, Fault, IInv, TypeOK
  <1> HIDE DEF p
  <1> QED BY <1>2, <1>3, GoesOnInv

\* The rows of the query are locked: none of them was locked by another replica.
LEMMA SelectInv ==
    ASSUME IInv, NEW r \in Replicas, Select(r)
    PROVE  IInv'
  <1> DEFINE rows == {s \in Sources : Eligible(s)} \ LockedFor(r)
             due == {s \in rows : Due(s, Clock(r, proc[r].wake))}
             p == [proc[r] EXCEPT !.st = "locked", !.rows = rows, !.due = due]
  <1>1. /\ proc' = [proc EXCEPT ![r] = p] /\ proc[r].st = "read"
        /\ UNCHANGED <<now, row, held, ready, dbUp, faults, history>>
    BY DEF Select, IInv, TypeOK
  <1>2. rows \in SUBSET Sources /\ due \subseteq rows
    OBVIOUS
  <1>3. \A q \in Replicas \ {r} : rows \cap proc[q].rows = {}
    BY DEF LockedFor
  <1>4. \A s \in due : row[s].next <= Clock(r, proc[r].wake)
    BY DEF Due
  <1> HIDE DEF rows, due
  <1>5. /\ p \in Proc /\ p.st = "locked" /\ p.rows = rows /\ p.due = due
        /\ p.wake = proc[r].wake
    BY <1>2 DEF IInv, TypeOK, Proc, Stages
  <1> HIDE DEF p
  <1>6. proc'[r] = p /\ \A q \in Replicas \ {r} : proc'[q] = proc[q]
    BY <1>1 DEF IInv, TypeOK
  <1>7. TypeOK'
    BY <1>1, <1>5 DEF IInv, TypeOK, history
  <1>8. \A s \in Sources : Pending(s)' = Pending(s)
    BY <1>1, <1>5, <1>6 DEF Pending, Claims
  <1>9. Counted' /\ NextAfterLast'
    BY <1>1, <1>8 DEF IInv, Counted, NextAfterLast, history
  <1>10. RowsApart'
    BY <1>3, <1>5, <1>6 DEF IInv, RowsApart
  <1>11. LockedDue'
    BY <1>1, <1>2, <1>4, <1>5, <1>6 DEF IInv, LockedDue, Clock
  <1> QED BY <1>7, <1>9, <1>10, <1>11 DEF IInv

\* What a commit writes to a row that is due: its clock has passed the slot.
LEMMA SlotType ==
    ASSUME TypeOK, NEW s \in Sources, NEW r \in Replicas
    PROVE  /\ Minutes(row[s].policy) \in Nat
           /\ proc[r].wake \in Nat /\ Skew[r] \in 0..MaxSkew
           /\ NextSlot(s, Clock(r, proc[r].wake))
                 = proc[r].wake + Skew[r] + Minutes(row[s].policy)
           /\ NextSlot(s, Clock(r, proc[r].wake)) \in Nat
  <1>1. Minutes(row[s].policy) \in Nat
    BY SchedulerAssumption DEF Minutes
  <1>2. proc[r].wake \in Nat /\ Skew[r] \in 0..MaxSkew
    BY SchedulerAssumption DEF TypeOK, Proc
  <1> QED BY <1>1, <1>2, SchedulerAssumption DEF NextSlot, Clock

\* A commit, after which the replica has the slots or, unanswered, has none of them.
LEMMA CommittedInv ==
    ASSUME IInv, NEW r \in Replicas, Committed(r), NEW p \in Proc,
           proc' = [proc EXCEPT ![r] = p], p.st # "locked", p.rows = {},
           ClaimsOf(p) \subseteq proc[r].due, owed' = Add(1, ClaimsOf(p)),
           UNCHANGED <<now, held, ready, dbUp>>, faults' \in 0..MaxFaults
    PROVE  /\ IInv'
           /\ \A s \in Sources : owed'[s] > owed[s] =>
                 last'[s].wake + MaxSkew >= last[s].wake + last[s].period
  <1> DEFINE D == proc[r].due
             W == proc[r].wake
             C == ClaimsOf(p)
             next(s) == NextSlot(s, Clock(r, W))
             min(s) == Minutes(row[s].policy)
  <1>1. /\ proc[r].st = "locked"
        /\ row' = [s \in Sources |-> IF s \in D THEN [row[s] EXCEPT !.next = next(s)]
                                     ELSE row[s]]
        /\ last' = [s \in Sources |-> IF s \in D THEN [wake |-> W, period |-> min(s)]
                                      ELSE last[s]]
        /\ owed' = [s \in Sources |-> IF s \in C THEN owed[s] + 1 ELSE owed[s]]
        /\ C \subseteq D
    BY DEF Committed, Add
  <1>2. /\ proc[r] \in Proc /\ D \subseteq Sources /\ W \in Nat
        /\ D \subseteq proc[r].rows
        /\ \A s \in D : row[s].next <= Clock(r, W)
    BY <1>1 DEF IInv, TypeOK, Proc, LockedDue
  <1>3. \A s \in Sources : /\ min(s) \in Nat /\ Skew[r] \in 0..MaxSkew
                           /\ next(s) = W + Skew[r] + min(s) /\ next(s) \in Nat
    BY SlotType DEF IInv
  <1> HIDE DEF C, next, min
  <1>5. proc'[r] = p /\ \A q \in Replicas \ {r} : proc'[q] = proc[q]
    BY <1>1 DEF IInv, TypeOK
  <1>6. ASSUME NEW s \in Sources
        PROVE  /\ row'[s] \in Row /\ last'[s] \in [wake : Nat, period : Nat]
               /\ owed'[s] \in Int
               /\ owed'[s] = IF s \in C THEN owed[s] + 1 ELSE owed[s]
               /\ s \in D => /\ row'[s].next = next(s)
                             /\ last'[s].wake = W /\ last'[s].period = min(s)
               /\ s \notin D => row'[s].next = row[s].next /\ last'[s] = last[s]
    <2>1. row[s] \in Row /\ last[s] \in [wake : Nat, period : Nat] /\ owed[s] \in Int
      BY DEF IInv, TypeOK
    <2>2. CASE s \in D
      <3>1. row'[s] = [row[s] EXCEPT !.next = next(s)] /\ last'[s] = [wake |-> W, period |-> min(s)]
        BY <1>1, <2>2
      <3> QED BY <1>1, <1>2, <1>3, <2>1, <2>2, <3>1 DEF Row
    <2>3. CASE s \notin D
      BY <1>1, <2>1, <2>3
    <2> QED BY <2>2, <2>3
  <1>7. TypeOK'
    <2>1. row' \in [Sources -> Row] /\ owed' \in [Sources -> Int]
          /\ last' \in [Sources -> [wake : Nat, period : Nat]]
      BY <1>1, <1>6
    <2> QED BY <2>1 DEF IInv, TypeOK
  <1>8. Counted'
    <2> SUFFICES ASSUME NEW s \in Sources
                 PROVE  IsFiniteSet(Pending(s))' /\ owed'[s] = Cardinality(Pending(s)')
      BY DEF Counted
    <2>1. r \notin Pending(s)
      BY <1>1 DEF Pending, Claims
    <2>2. IsFiniteSet(Pending(s)) /\ owed[s] = Cardinality(Pending(s))
      BY DEF IInv, Counted
    <2>3. Pending(s)' = IF s \in C THEN Pending(s) \cup {r} ELSE Pending(s) \ {r}
      BY PendingOf DEF IInv, TypeOK, C
    <2>4. CASE s \in C
      <3>1. Pending(s)' = Pending(s) \cup {r}
        BY <2>3, <2>4
      <3> QED BY <1>6, <2>1, <2>2, <2>4, <3>1, PendingGrows
    <2>5. CASE s \notin C
      <3>1. Pending(s)' = Pending(s)
        BY <2>1, <2>3, <2>5
      <3> QED BY <1>6, <2>2, <2>5, <3>1
    <2> QED BY <2>4, <2>5
  <1>9. RowsApart'
    BY <1>5 DEF IInv, RowsApart
  <1>10. LockedDue'
    <2> SUFFICES ASSUME NEW q \in Replicas, proc'[q].st = "locked"
                 PROVE  /\ proc'[q].due \subseteq proc'[q].rows
                        /\ \A s \in proc'[q].due : row'[s].next <= Clock(q, proc'[q].wake)
      BY DEF LockedDue, Clock
    <2>1. q # r /\ proc'[q] = proc[q] /\ proc[q] \in Proc
      BY <1>5 DEF IInv, TypeOK
    <2>2. /\ proc[q].due \subseteq proc[q].rows
          /\ \A s \in proc[q].due : row[s].next <= Clock(q, proc[q].wake)
      BY <2>1 DEF IInv, LockedDue
    <2>3. \A s \in proc[q].due : s \notin D /\ s \in Sources
      BY <1>2, <2>1, <2>2 DEF IInv, RowsApart, Proc
    <2> QED BY <1>6, <2>1, <2>2, <2>3
  <1>11. NextAfterLast'
    <2> SUFFICES ASSUME NEW s \in Sources
                 PROVE  row'[s].next >= last'[s].wake + last'[s].period
      BY DEF NextAfterLast
    <2>1. CASE s \in D
      BY <1>2, <1>3, <1>6, <2>1, SchedulerAssumption
    <2>2. CASE s \notin D
      BY <1>6, <2>2 DEF IInv, NextAfterLast
    <2> QED BY <2>1, <2>2
  <1>12. ASSUME NEW s \in Sources, owed'[s] > owed[s]
         PROVE  last'[s].wake + MaxSkew >= last[s].wake + last[s].period
    <2>1. owed[s] \in Int /\ last[s].wake \in Nat /\ last[s].period \in Nat /\ row[s].next \in Nat
      BY DEF IInv, TypeOK, Row
    <2>2. s \in D
      BY <1>1, <1>6, <1>12, <2>1
    <2>3. last'[s].wake = W /\ row[s].next <= W + Skew[r]
      BY <1>2, <1>6, <2>2 DEF Clock
    <2>4. row[s].next >= last[s].wake + last[s].period
      BY DEF IInv, NextAfterLast
    <2> QED BY <1>2, <1>3, <2>1, <2>3, <2>4, SchedulerAssumption
  <1> QED BY <1>7, <1>8, <1>9, <1>10, <1>11, <1>12 DEF IInv

LEMMA CommitClaimsInv ==
    ASSUME IInv, NEW r \in Replicas, CommitClaims(r) \/ CommitUnanswered(r)
    PROVE  /\ IInv'
           /\ \A s \in Sources : owed'[s] > owed[s] =>
                 last'[s].wake + MaxSkew >= last[s].wake + last[s].period
  <1>1. proc[r] \in Proc /\ Committed(r) /\ UNCHANGED <<now, held, ready, dbUp>>
        /\ faults' \in 0..MaxFaults
    BY SchedulerAssumption DEF CommitClaims, CommitUnanswered, Fault, IInv, TypeOK
  <1>2. CASE CommitClaims(r)
    <2> DEFINE p == [proc[r] EXCEPT !.st = "crawling", !.rows = {}]
    <2>1. proc' = [proc EXCEPT ![r] = p] /\ owed' = Add(1, proc[r].due)
      BY <1>2 DEF CommitClaims, IInv, TypeOK
    <2>2. p \in Proc /\ p.st = "crawling" /\ p.rows = {} /\ p.due = proc[r].due
      BY <1>1 DEF Proc, Stages
    <2> HIDE DEF p
    <2>3. ClaimsOf(p) = proc[r].due
      BY <2>2 DEF ClaimsOf
    <2> QED BY <1>1, <2>1, <2>2, <2>3, CommittedInv
  <1>3. CASE CommitUnanswered(r)
    <2> DEFINE p == [proc[r] EXCEPT !.st = "waiting", !.rows = {}, !.due = {}]
    <2>1. proc' = [proc EXCEPT ![r] = p] /\ UNCHANGED owed
      BY <1>3 DEF CommitUnanswered, IInv, TypeOK
    <2>2. p \in Proc /\ p.st = "waiting" /\ p.rows = {}
      BY <1>1 DEF Proc, Stages
    <2> HIDE DEF p
    <2>3. ClaimsOf(p) = {}
      BY <2>2 DEF ClaimsOf
    <2>4. owed' = Add(1, ClaimsOf(p))
      BY <2>1, <2>3 DEF Add, IInv, TypeOK
    <2> QED BY <1>1, <2>1, <2>2, <2>3, <2>4, CommittedInv
  <1> QED BY <1>2, <1>3

\* Slots leave a replica: one is crawled, or all are lost in a crash.
LEMMA GivesUpInv ==
    ASSUME IInv, NEW r \in Replicas, NEW p \in Proc, NEW S \in SUBSET Claims(r),
           proc' = [proc EXCEPT ![r] = p],
           p.rows \subseteq proc[r].rows, p.st # "locked",
           ClaimsOf(p) = Claims(r) \ S,
           owed' = Add(-1, S),
           UNCHANGED <<now, row, held, ready, dbUp, last>>, faults' \in 0..MaxFaults
    PROVE  IInv' /\ \A s \in Sources : ~(owed'[s] > owed[s])
  <1>1. ASSUME NEW s \in Sources
        PROVE  /\ owed'[s] = IF s \in S THEN owed[s] - 1 ELSE owed[s]
               /\ owed[s] \in Int /\ owed'[s] \in Int
    BY DEF Add, IInv, TypeOK
  <1>2. TypeOK'
    <2>1. owed' \in [Sources -> Int]
      BY <1>1 DEF Add
    <2> QED BY <2>1 DEF IInv, TypeOK
  <1>3. proc'[r] = p /\ \A q \in Replicas \ {r} : proc'[q] = proc[q]
    BY DEF IInv, TypeOK
  <1>4. Counted'
    <2> SUFFICES ASSUME NEW s \in Sources
                 PROVE  IsFiniteSet(Pending(s))' /\ owed'[s] = Cardinality(Pending(s)')
      BY DEF Counted
    <2>1. IsFiniteSet(Pending(s)) /\ owed[s] = Cardinality(Pending(s))
      BY DEF IInv, Counted
    <2>2. Pending(s)' = IF s \in ClaimsOf(p) THEN Pending(s) \cup {r} ELSE Pending(s) \ {r}
      BY PendingOf DEF IInv, TypeOK
    <2>3. r \in Pending(s) <=> s \in Claims(r)
      BY DEF Pending
    <2>4. CASE s \in S
      <3>1. r \in Pending(s) /\ Pending(s)' = Pending(s) \ {r}
        BY <2>2, <2>3, <2>4
      <3> QED BY <1>1, <2>1, <2>4, <3>1, PendingShrinks
    <2>5. CASE s \notin S
      <3>1. Pending(s)' = Pending(s)
        BY <2>2, <2>3, <2>5
      <3> QED BY <1>1, <2>1, <2>5, <3>1
    <2> QED BY <2>4, <2>5
  <1>5. RowsApart' /\ LockedDue' /\ NextAfterLast'
    BY <1>3 DEF IInv, RowsApart, LockedDue, NextAfterLast, Clock
  <1> QED BY <1>1, <1>2, <1>4, <1>5 DEF IInv

LEMMA CrawlInv ==
    ASSUME IInv, NEW r \in Replicas, NEW s \in Sources, NEW ok \in BOOLEAN, Crawl(r, s, ok)
    PROVE  IInv' /\ \A t \in Sources : ~(owed'[t] > owed[t])
  <1> DEFINE p == [proc[r] EXCEPT !.due = proc[r].due \ {s}]
  <1>1. /\ proc' = [proc EXCEPT ![r] = p] /\ proc[r].st = "crawling" /\ s \in proc[r].due
        /\ owed' = Add(-1, {s})
        /\ UNCHANGED <<now, row, held, ready, dbUp, faults, last>>
    BY DEF Crawl, Remaining, IInv, TypeOK
  <1>2. p \in Proc /\ p.st = "crawling" /\ p.rows = proc[r].rows /\ p.due = proc[r].due \ {s}
    BY <1>1 DEF IInv, TypeOK, Proc
  <1> HIDE DEF p
  <1>3. {s} \in SUBSET Claims(r) /\ ClaimsOf(p) = Claims(r) \ {s}
    BY <1>1, <1>2 DEF Claims, ClaimsOf
  <1>4. faults' \in 0..MaxFaults
    BY <1>1 DEF IInv, TypeOK
  <1> QED BY <1>1, <1>2, <1>3, <1>4, GivesUpInv

LEMMA CrashInv ==
    ASSUME IInv, NEW r \in Replicas, Crash(r)
    PROVE  IInv' /\ \A t \in Sources : ~(owed'[t] > owed[t])
  <1>1. faults' \in 0..MaxFaults
    BY SchedulerAssumption DEF Crash, Fault, IInv, TypeOK
  <1>2. Claims(r) \in SUBSET Claims(r) /\ ClaimsOf(Asleep) = Claims(r) \ Claims(r)
    BY AsleepType DEF ClaimsOf
  <1>3. Asleep.rows \subseteq proc[r].rows
    BY AsleepType
  <1> QED BY <1>1, <1>2, <1>3, AsleepType, GivesUpInv DEF Crash

LEMMA OthersInv ==
    ASSUME IInv,
           \/ Tick \/ DatabaseFails \/ DatabaseRecovers
           \/ \E r \in Replicas : Probe(r)
           \/ \E s \in Sources : Hold(s) \/ Release(s)
    PROVE  IInv'
  <1>1. UNCHANGED <<proc, history, row>>
    BY DEF Tick, DatabaseFails, DatabaseRecovers, Probe, Hold, Release
  <1>2. now' \in 0..MaxTime /\ faults' \in 0..MaxFaults
    BY SchedulerAssumption
       DEF Tick, DatabaseFails, DatabaseRecovers, Probe, Hold, Release, Fault, IInv, TypeOK
  <1>3. held' \in SUBSET Sources
    BY DEF Tick, DatabaseFails, DatabaseRecovers, Probe, Hold, Release, IInv, TypeOK
  <1>4. dbUp' \in BOOLEAN
    BY DEF Tick, DatabaseFails, DatabaseRecovers, Probe, Hold, Release, IInv, TypeOK
  <1>5. ready' \in [Replicas -> BOOLEAN]
    BY DEF Tick, DatabaseFails, DatabaseRecovers, Probe, Hold, Release, IInv, TypeOK
  <1> QED BY <1>1, <1>2, <1>3, <1>4, <1>5, ElsewhereInv DEF IInv, TypeOK

\* update() and set_enabled() leave next_scheduled_at as it is.
LEMMA EditInv ==
    ASSUME IInv, NEW s \in Sources, NEW c \in Configs, Edit(s, c[1], c[2])
    PROVE  IInv'
  <1> DEFINE e == [row[s] EXCEPT !.policy = c[1], !.enabled = c[2]]
  <1>1. row' = [row EXCEPT ![s] = e] /\ UNCHANGED <<now, held, proc, ready, dbUp, faults, history>>
    BY DEF Edit, IInv, TypeOK
  <1>2. e \in Row /\ e.next = row[s].next
    BY SchedulerAssumption DEF IInv, TypeOK, Row
  <1> HIDE DEF e
  <1>3. row' \in [Sources -> Row] /\ \A t \in Sources : row'[t].next = row[t].next
    BY <1>1, <1>2 DEF IInv, TypeOK
  <1> QED BY <1>1, <1>3, ElsewhereInv DEF IInv, TypeOK

\* Only a commit claims slots.
LEMMA NextInv ==
    ASSUME IInv, [Next]_vars
    PROVE  /\ IInv'
           /\ \A s \in Sources : owed'[s] > owed[s] =>
                 last'[s].wake + MaxSkew >= last[s].wake + last[s].period
  <1>1. \A s \in Sources : owed[s] \in Int
    BY DEF IInv, TypeOK
  <1>2. CASE UNCHANGED vars
    <2>1. \A s : Pending(s)' = Pending(s)
      BY <1>2 DEF vars, Pending, Claims
    <2>2. IInv'
      BY <1>2, <2>1 DEF vars, history, IInv, TypeOK, Counted, RowsApart, LockedDue,
         NextAfterLast, Clock
    <2> QED BY <1>1, <1>2, <2>2 DEF vars, history
  <1>3. ASSUME NEW r \in Replicas,
               \/ Start(r) \/ Wake(r) \/ Select(r) \/ CycleFails(r) \/ EndCycle(r)
               \/ WaitEnds(r) \/ Shutdown(r) \/ Probe(r)
        PROVE  IInv' /\ owed' = owed
    <2>1. owed' = owed
      BY <1>3 DEF Start, Wake, Select, CycleFails, EndCycle, WaitEnds, Shutdown, Probe, history
    <2> QED BY <1>3, <2>1, QuietInv, WakeInv, SelectInv, OthersInv
  <1>4. ASSUME NEW s \in Sources, NEW c \in Configs, Edit(s, c[1], c[2])
        PROVE  IInv' /\ owed' = owed
    BY <1>4, EditInv DEF Edit, history
  <1>5. ASSUME \/ Tick \/ DatabaseFails \/ DatabaseRecovers
               \/ \E s \in Sources : Hold(s) \/ Release(s)
        PROVE  IInv' /\ owed' = owed
    BY <1>5, OthersInv DEF Tick, DatabaseFails, DatabaseRecovers, Hold, Release, history
  <1> QED
    BY <1>1, <1>2, <1>3, <1>4, <1>5, CommitClaimsInv, CrawlInv, CrashInv DEF Next, Cycle

LEMMA Invariant == Spec => []IInv
  BY InitInv, NextInv, PTL DEF Spec

-----------------------------------------------------------------------------
\* scheduler.py: for any number of replicas and sources, a claimed slot is crawled, waits
\* in a replica that lives, or went down with one or with the answer of its commit; a
\* source that raises loses nothing else.
\* The first conjunct is type correctness.
THEOREM SlotsAreAccounted == Spec => []SlotsAccounted
  <1>1. IInv => SlotsAccounted
    BY DEF IInv, Counted, SlotsAccounted
  <1> QED BY <1>1, Invariant, PTL

\* FOR UPDATE SKIP LOCKED: for any number of replicas and any clocks, a source is claimed
\* for a crawl no sooner after its last claim than its period, less the largest skew.
THEOREM ClaimsAreApart == Spec => SlotsApart
  <1>1. IInv /\ [Next]_vars =>
           [\A s \in Sources : owed'[s] > owed[s] =>
               last'[s].wake + MaxSkew >= last[s].wake + last[s].period]_vars
    BY NextInv
  <1> QED BY <1>1, Invariant, PTL DEF Spec, SlotsApart
=============================================================================
