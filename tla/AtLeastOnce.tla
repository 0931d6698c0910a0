---------------------------- MODULE AtLeastOnce ----------------------------
(***************************************************************************)
(* What services/delivery_worker.py promises in its first line: "Durable,  *)
(* at-least-once delivery."  Any number of calls to the receiver are begun *)
(* while an accepted delivery is open, by several callers at a time, and   *)
(* each may reach the receiver or not.  A delivery is called delivered     *)
(* only after the receiver got it; once it is settled no call is begun for *)
(* it and it changes no more, but a call that was under way may still      *)
(* arrive.                                                                 *)
(***************************************************************************)
EXTENDS Naturals

CONSTANTS
    Keys,       \* deliveries
    Callers     \* those who call the receiver

VARIABLES
    state,      \* delivery -> what is known of it
    copies,     \* delivery -> how often its receiver got it
    calls       \* calls under way, each a caller and a delivery

Settled == {"delivered", "failed", "cancelled"}

Init ==
    /\ state = [k \in Keys |-> "none"]
    /\ copies = [k \in Keys |-> 0]
    /\ calls = {}

\* One event is one delivery to each of its subscribers.
Accept(K) ==
    /\ \A k \in K : state[k] = "none"
    /\ state' = [k \in Keys |-> IF k \in K THEN "open" ELSE state[k]]
    /\ UNCHANGED <<copies, calls>>

Begin(w, k) ==
    /\ state[k] = "open"
    /\ calls' = calls \cup {<<w, k>>}
    /\ UNCHANGED <<state, copies>>

End(w, k) ==
    /\ <<w, k>> \in calls
    /\ calls' = calls \ {<<w, k>>}
    /\ \/ copies' = [copies EXCEPT ![k] = @ + 1]
       \/ UNCHANGED copies
    /\ UNCHANGED state

Settle(k, s) ==
    /\ state[k] = "open"
    /\ s = "delivered" => copies[k] > 0
    /\ state' = [state EXCEPT ![k] = s]
    /\ UNCHANGED <<copies, calls>>

Next ==
    \/ \E K \in SUBSET Keys : Accept(K)
    \/ \E w \in Callers, k \in Keys : Begin(w, k) \/ End(w, k)
    \/ \E k \in Keys, s \in Settled : Settle(k, s)

Spec == Init /\ [][Next]_<<state, copies, calls>>

\* Nothing stays open for ever.
EverySettles == \A k \in Keys : state[k] = "open" ~> state[k] \in Settled
=============================================================================
