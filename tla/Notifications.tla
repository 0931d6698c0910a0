---------------------------- MODULE Notifications ----------------------------
(***************************************************************************)
(* The proactive notifications of one user: services/copilot_alerts.py,    *)
(* polled by every open tab, and notice_action() of api/v1/copilot.py.     *)
(*                                                                         *)
(* A poll takes the user's advisory lock, reads alerts, probes services    *)
(* and decides about all candidates from one list of earlier              *)
(* notifications, the latest Listed ones by updated_at; each insert is     *)
(* committed on its own.  Acting on a notification takes no lock and moves *)
(* it to the head of that list.  A probe notes when the service changed;   *)
(* the notes are numbered instead, and an outage is named by its number.   *)
(***************************************************************************)
EXTENDS Integers, SequencesExt

CONSTANTS
    Polls,      \* requests that poll
    Alerts,     \* high and critical operational alerts
    Group,      \* alert -> evidence.source
    Health,     \* the group of outages
    Actions,    \* what the user does with a notification
    Cap,        \* notifications an hour
    Listed,     \* notifications a poll looks at
    Cooldown,   \* ticks a group rests
    Hour,       \* ticks
    MaxTime, MaxPasses, MaxChanges    \* bounds: ticks, polls, outages

ASSUME NotificationsAssumption ==
    /\ Cap \in Nat /\ Listed \in Nat /\ Hour \in Nat /\ Cooldown \in 0..Hour
    /\ MaxTime \in Nat /\ MaxPasses \in Nat /\ MaxChanges \in Nat
    /\ Actions \subseteq {"seen", "dismiss", "mute", "snooze", "resolve"}

VARIABLES
    now,
    open,     \* alerts the query of a poll finds
    online,   \* the service answers its probe
    known,    \* the service_state row: what the last probe noted, and as which change
    notes,    \* the notification rows, by updated_at
    muted,    \* the preferences row: muted groups
    poll,     \* request -> what it holds
    passes,   \* history: polls that got the lock
    blind     \* history: a poll did not see a notification of the last hour

noticesVars == <<now, open, online, known, notes, muted, poll, passes, blind>>

-----------------------------------------------------------------------------
Events == Alerts \cup 1..MaxChanges
GroupOf(e) == IF e \in Alerts THEN Group[e] ELSE Health

Note == [id : Events, group : {GroupOf(e) : e \in Events}, at : 0..MaxTime, by : 1..MaxPasses,
         state : {"new"} \cup Actions]
Poll == [st : {"idle", "probing", "deciding"}, at : 0..MaxTime, left : SUBSET Events,
         seen : SUBSET Note, muted : SUBSET {GroupOf(e) : e \in Events}, created : 0..Cap,
         by : 0..MaxPasses]
IdlePoll ==
    [st |-> "idle", at |-> 0, left |-> {}, seen |-> {}, muted |-> {}, created |-> 0, by |-> 0]

Rows(s) == {s[i] : i \in 1..Len(s)}
Ids(S) == {n.id : n \in S}

\* store.listing(p, 'notification', 100)
Listing == {notes[i] : i \in {j \in 1..Len(notes) : j > Len(notes) - Listed}}

NoticesTypeOK ==
    /\ now \in 0..MaxTime
    /\ open \in SUBSET Alerts
    /\ online \in BOOLEAN
    /\ known \in [online : BOOLEAN, since : 0..MaxChanges]
    /\ notes \in Seq(Note) /\ Cardinality(Ids(Rows(notes))) = Len(notes)
    /\ muted \in SUBSET {GroupOf(e) : e \in Events}
    /\ poll \in [Polls -> Poll]
    /\ passes \in 0..MaxPasses
    /\ blind \in BOOLEAN

NoticesInit ==
    /\ now = 0 /\ open = {} /\ online = TRUE
    /\ known = [online |-> TRUE, since |-> 0]
    /\ notes = <<>> /\ muted = {}
    /\ poll = [p \in Polls |-> IdlePoll]
    /\ passes = 0 /\ blind = FALSE

-----------------------------------------------------------------------------
(* A poll *)

\* Mutant: no advisory lock.
Anyway(p) == TRUE

\* pg_advisory_xact_lock: held from here to the end of the request's transaction.
LockFree(p) == \A q \in Polls : poll[q].st = "idle"

\* The lock is taken and the open alerts are read.
BeginPoll(p) ==
    /\ poll[p].st = "idle" /\ LockFree(p) /\ passes < MaxPasses
    /\ passes' = passes + 1
    /\ poll' = [poll EXCEPT ![p] = [IdlePoll EXCEPT !.st = "probing", !.at = now, !.left = open,
                                                !.by = passes + 1]]
    /\ UNCHANGED <<now, open, online, known, notes, muted, blind>>

\* The probe says whether the service answers; a change is noted.
Seen == IF known.online = online THEN known ELSE [online |-> online, since |-> known.since + 1]

Recent(S, t, span) == {n \in S : n.at > t - span}

\* health(), the service_state row, the preferences and the list.
Probe(p) ==
    /\ poll[p].st = "probing" /\ Seen.since <= MaxChanges
    /\ known' = Seen
    /\ poll' = [poll EXCEPT ![p].st = "deciding", ![p].seen = Listing, ![p].muted = muted,
                            ![p].left = IF online THEN @ ELSE @ \cup {Seen.since}]
    /\ blind' = (blind \/ ~(Recent(Rows(notes), poll[p].at, Hour) \subseteq Listing))
    /\ UNCHANGED <<now, open, online, notes, muted, passes>>

Full(p) == Cardinality(Recent(poll[p].seen, poll[p].at, Hour)) + poll[p].created >= Cap

\* Mutant: only notifications nobody has acted on keep their group quiet.
RestingUnlessActed(p, g) ==
    \E n \in Recent(poll[p].seen, poll[p].at, Cooldown) : n.group = g /\ n.state = "new"

\* The group has a notification of the last ten minutes in the list.
Resting(p, g) == \E n \in Recent(poll[p].seen, poll[p].at, Cooldown) : n.group = g

Wanted(p, e) ==
    /\ GroupOf(e) \notin poll[p].muted /\ e \notin Ids(poll[p].seen)
    /\ ~Full(p) /\ ~Resting(p, GroupOf(e))

NewNote(p, e) == [id |-> e, group |-> GroupOf(e), at |-> poll[p].at, by |-> poll[p].by, state |-> "new"]

\* Mutant: ON CONFLICT DO UPDATE.
InsertedAnew(n) == Append(SelectSeq(notes, LAMBDA m : m.id # n.id), n)

\* ON CONFLICT DO NOTHING
Inserted(n) == IF n.id \in Ids(Rows(notes)) THEN notes ELSE Append(notes, n)

\* One candidate; it counts as created even when its row was there.
Decide(p, e) ==
    /\ poll[p].st = "deciding" /\ e \in poll[p].left
    /\ notes' = IF Wanted(p, e) THEN Inserted(NewNote(p, e)) ELSE notes
    /\ poll' = [poll EXCEPT ![p].left = @ \ {e},
                            ![p].created = IF Wanted(p, e) THEN @ + 1 ELSE @]
    /\ UNCHANGED <<now, open, online, known, muted, passes, blind>>

\* The list is returned, or the request fails anywhere: the transaction ends.
End(p) ==
    /\ poll[p].st # "idle"
    /\ poll' = [poll EXCEPT ![p] = IdlePoll]
    /\ UNCHANGED <<now, open, online, known, notes, muted, passes, blind>>

-----------------------------------------------------------------------------
(* The user and the world *)

\* notice_action(): without the lock.
Act(i, action) ==
    /\ notes[i].state # action
    /\ notes' = Append(RemoveAt(notes, i), [notes[i] EXCEPT !.state = action])
    /\ muted' = IF action = "mute" THEN muted \cup {notes[i].group} ELSE muted
    /\ open' = IF action = "resolve" THEN open \ {notes[i].id} ELSE open
    /\ UNCHANGED <<now, online, known, poll, passes, blind>>

Raise(a) ==
    /\ a \notin open
    /\ open' = open \cup {a}
    /\ UNCHANGED <<now, online, known, notes, muted, poll, passes, blind>>

Change ==
    /\ online' = ~online
    /\ UNCHANGED <<now, open, known, notes, muted, poll, passes, blind>>

NoticesTick ==
    /\ now < MaxTime /\ now' = now + 1
    /\ UNCHANGED <<open, online, known, notes, muted, poll, passes, blind>>

NoticesNext ==
    \/ \E p \in Polls : \/ BeginPoll(p) \/ Probe(p) \/ End(p)
                        \/ \E e \in Events : Decide(p, e)
    \/ \E i \in 1..Len(notes), action \in Actions : Act(i, action)
    \/ \E a \in Alerts : Raise(a)
    \/ Change \/ NoticesTick

NoticesSpec == NoticesInit /\ [][NoticesNext]_noticesVars

-----------------------------------------------------------------------------
(* Properties. *)

\* However many tabs poll, at most Cap notifications were created in an hour, as long as
\* the list reaches back over that hour.
HourlyCap == ~blind => Cardinality(Recent(Rows(notes), now, Hour)) <= Cap

\* docs/COPILOT.md:31 "duplicate polling cannot bypass cooldown decisions": two
\* notifications of a group that are less than a cooldown apart come from one poll.
CooldownAcrossPolls ==
    ~blind => \A m, n \in Rows(notes) :
                m.group = n.group /\ m.at <= n.at /\ n.at < m.at + Cooldown => m.by = n.by

\* What the user has seen, dismissed or snoozed is never new again: not by a poll that
\* began before, nor by one whose list it has fallen out of.
StateOf(s, id) == IF id \in Ids(Rows(s)) THEN (CHOOSE n \in Rows(s) : n.id = id).state ELSE "none"
DismissedStays ==
    [][\A n \in Rows(notes) : n.state # "new" => StateOf(notes', n.id) \notin {"new", "none"}]_noticesVars

\* The limits of one tab are the limits of all of them together.
LimitsHold == NoticesTypeOK /\ HourlyCap /\ CooldownAcrossPolls
=============================================================================
