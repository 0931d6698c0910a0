--------------------------- MODULE BrowserSessions ---------------------------
(***************************************************************************)
(* Browser sessions: issue(), rotate() and revoke() of                     *)
(* services/browser_sessions.py.  A family is one sign-in; every refresh   *)
(* replaces the family's record by a new one.  Tabs share cookies and may  *)
(* present any record the family ever had.                                 *)
(*                                                                         *)
(* READ COMMITTED: rotate() locks the row it reads; an UPDATE of a family  *)
(* sees the rows there were when it began and waits for those another      *)
(* transaction has locked.                                                 *)
(***************************************************************************)
EXTENDS Integers, Sequences, FiniteSets

CONSTANTS Requests, Families,
          Life,        \* ticks a session lasts (7 days)
          MaxRecords   \* bound: records

VARIABLES records,     \* the rows of browser_sessions, oldest first
          ses,         \* request -> what its handler holds
          life,        \* history: family -> ticks left since its sign-in, 0 before it
          closed,      \* history: families an UPDATE has revoked
          missed       \* history: families with a record such an UPDATE did not see

-----------------------------------------------------------------------------
Indices == 1..MaxRecords
SesIdle == [st |-> "idle"]
Ses == {SesIdle} \cup [st : {"rotating"}, row : Indices]
       \cup [st : {"reused", "revoking"}, row : Indices, rows : SUBSET Indices]

SessionTypeOK ==
    /\ records \in Seq([family : Families, revoked : BOOLEAN, left : 0..Life])
    /\ Len(records) <= MaxRecords
    /\ ses \in [Requests -> Ses]
    /\ life \in [Families -> 0..Life]
    /\ closed \in SUBSET Families /\ missed \in SUBSET Families

SessionInit ==
    /\ records = <<>>
    /\ ses = [x \in Requests |-> SesIdle]
    /\ life = [f \in Families |-> 0]
    /\ closed = {} /\ missed = {}

Rows(f) == {i \in 1..Len(records) : records[i].family = f}
Usable(f) == {i \in Rows(f) : ~records[i].revoked /\ records[i].left > 0}
Issued == {records[i].family : i \in 1..Len(records)}

\* Mutant: rotate() reads without FOR UPDATE.
NoRowLocks(x) == {}

\* Rows locked by other transactions.
LockedRows(x) == {ses[y].row : y \in {z \in Requests \ {x} : ses[z].st \in {"rotating", "reused"}}}

SessionEnds(x) == ses' = [ses EXCEPT ![x] = SesIdle]

-----------------------------------------------------------------------------
\* issue(): a new family.
Issue(f) ==
    /\ f \notin Issued /\ Len(records) < MaxRecords
    /\ records' = Append(records, [family |-> f, revoked |-> FALSE, left |-> Life])
    /\ life' = [life EXCEPT ![f] = Life]
    /\ UNCHANGED <<ses, closed, missed>>

\* Mutant: a record that was replaced can be replaced again.
ReplacedAgain(i) == FALSE

\* A record that was replaced, or revoked with its family.
Reused(i) == records[i].revoked

\* rotate(): SELECT FOR UPDATE of the record in the cookie.
Rotate(x, i) ==
    /\ ses[x] = SesIdle /\ i \notin LockedRows(x)
    /\ records[i].left > 0
    /\ ses' = [ses EXCEPT ![x] = IF Reused(i)
                                 THEN [st |-> "reused", row |-> i, rows |-> Rows(records[i].family)]
                                 ELSE [st |-> "rotating", row |-> i]]
    /\ UNCHANGED <<records, life, closed, missed>>

\* Mutant: every refresh starts the seven days again.
SpanOfNew(i) == Life

\* expires_at=record.expires_at
SpanOf(i) == records[i].left

\* The commit of a rotation: one record for another.  UPDATEs of the family that have
\* begun do not see the new one.
RotateCommit(x) ==
    LET i == ses[x].row
        f == records[i].family
    IN  /\ ses[x].st = "rotating" /\ Len(records) < MaxRecords
        /\ records' = Append([records EXCEPT ![i].revoked = TRUE],
                             [family |-> f, revoked |-> FALSE, left |-> SpanOf(i)])
        /\ SessionEnds(x)
        /\ UNCHANGED <<life, closed, missed>>

\* revoke(): the UPDATE begins.
Revoke(x, i) ==
    /\ ses[x] = SesIdle
    /\ ses' = [ses EXCEPT ![x] = [st |-> "revoking", row |-> i, rows |-> Rows(records[i].family)]]
    /\ UNCHANGED <<records, life, closed, missed>>

\* The UPDATE of the family commits, for a sign-out or after a record was reused.
RevokeCommit(x) ==
    LET f == records[ses[x].row].family
    IN  /\ ses[x].st \in {"reused", "revoking"} /\ ses[x].rows \cap LockedRows(x) = {}
        /\ records' = [i \in 1..Len(records) |->
                         IF i \in ses[x].rows THEN [records[i] EXCEPT !.revoked = TRUE] ELSE records[i]]
        /\ closed' = closed \cup {f}
        /\ missed' = IF Rows(f) = ses[x].rows THEN missed \ {f} ELSE missed \cup {f}
        /\ SessionEnds(x)
        /\ UNCHANGED life

\* 401 or 403, a deadlock the database breaks, or a failure: a rollback.
SessionFails(x) ==
    /\ ses[x] # SesIdle
    /\ SessionEnds(x)
    /\ UNCHANGED <<records, life, closed, missed>>

SessionTick ==
    /\ records' = [i \in 1..Len(records) |->
                     [records[i] EXCEPT !.left = IF @ = 0 THEN 0 ELSE @ - 1]]
    /\ life' = [f \in Families |-> IF life[f] = 0 THEN 0 ELSE life[f] - 1]
    /\ UNCHANGED <<ses, closed, missed>>

SessionGoesOn(x) == RotateCommit(x) \/ RevokeCommit(x) \/ SessionFails(x)
SessionStarts(x) == \E i \in 1..Len(records) : Rotate(x, i) \/ Revoke(x, i)

-----------------------------------------------------------------------------
\* However many tabs refresh at once, a family never has two usable records; and it has
\* one, so that no request in between finds it inactive, until it is closed or over.
OneUsable ==
    \A f \in Issued : /\ Cardinality(Usable(f)) <= 1
                      /\ f \notin closed /\ life[f] > 0 => Usable(f) # {}

\* A family that was signed out, or closed because a record was reused, stays closed,
\* whatever refreshes follow; unless a refresh committed while it was being closed, whose
\* record the UPDATE does not see.
ClosedStays == \A f \in closed \ missed : Usable(f) = {}

\* Refreshing does not prolong a session.
FamilyEnds == \A f \in Issued : life[f] = 0 => Usable(f) = {}
=============================================================================
