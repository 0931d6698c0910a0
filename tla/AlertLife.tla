------------------------------ MODULE AlertLife ------------------------------
(***************************************************************************)
(* What the unique dedupe_key of operational alerts promises, whoever      *)
(* finds an alert and however often: it is created once, and open;         *)
(* webhooks are told of it once, or whoever was to tell them died; only    *)
(* analysts move it on.                                                    *)
(***************************************************************************)
CONSTANTS
    Keys,      \* alerts
    Triage     \* statuses analysts give

VARIABLES
    status,    \* alert -> its status, "none" before it is created
    decided,   \* alert -> the status an analyst gave it last
    waiting,   \* alerts that are yet to be announced
    announced,
    lost       \* alerts that never will be

Init ==
    /\ status = [k \in Keys |-> "none"] /\ decided = status
    /\ waiting = {} /\ announced = {} /\ lost = {}

Create(K) ==
    /\ \A k \in K : status[k] = "none"
    /\ status' = [k \in Keys |-> IF k \in K THEN "open" ELSE status[k]]
    /\ waiting' = waiting \cup K
    /\ UNCHANGED <<decided, announced, lost>>

Announce(k) ==
    /\ k \in waiting
    /\ waiting' = waiting \ {k} /\ announced' = announced \cup {k}
    /\ UNCHANGED <<status, decided, lost>>

Lose(K) ==
    /\ K \subseteq waiting
    /\ waiting' = waiting \ K /\ lost' = lost \cup K
    /\ UNCHANGED <<status, decided, announced>>

Decide(k, s) ==
    /\ status[k] # "none"
    /\ status' = [status EXCEPT ![k] = s] /\ decided' = [decided EXCEPT ![k] = s]
    /\ UNCHANGED <<waiting, announced, lost>>

Next ==
    \/ \E K \in SUBSET Keys : Create(K) \/ Lose(K)
    \/ \E k \in Keys : Announce(k)
    \/ \E k \in Keys, s \in Triage : Decide(k, s)

Spec == Init /\ [][Next]_<<status, decided, waiting, announced, lost>>
=============================================================================
