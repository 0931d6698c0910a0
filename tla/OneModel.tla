------------------------------ MODULE OneModel ------------------------------
(***************************************************************************)
(* What the inference worker promises, without its threads, queues and     *)
(* locks: one model answers one request after the other, each once and to  *)
(* the end, and a client is sent what the model made, item by item.        *)
(***************************************************************************)
EXTENDS Naturals, Sequences

CONSTANTS
    Requests,
    Pieces,     \* sequences of items the model makes at once
    Ends,       \* items that end an answer
    Nobody

VARIABLES
    serving,    \* the request the model works for
    made,       \* request -> items made for it
    got         \* request -> items its client received

Concluded(m) == m # <<>> /\ m[Len(m)] \in Ends

Init ==
    /\ serving = Nobody
    /\ made = [r \in Requests |-> <<>>] /\ got = made

Serve(r) ==
    /\ serving = Nobody /\ made[r] = <<>>
    /\ serving' = r
    /\ UNCHANGED <<made, got>>

Make(r, s) ==
    /\ serving = r /\ ~Concluded(made[r])
    /\ made' = [made EXCEPT ![r] = @ \o s]
    /\ UNCHANGED <<serving, got>>

Receive(r) ==
    /\ Len(got[r]) < Len(made[r])
    /\ got' = [got EXCEPT ![r] = Append(@, made[r][Len(@) + 1])]
    /\ UNCHANGED <<serving, made>>

Free(r) ==
    /\ serving = r /\ Concluded(made[r])
    /\ serving' = Nobody
    /\ UNCHANGED <<made, got>>

Next == \E r \in Requests : \/ Serve(r) \/ Receive(r) \/ Free(r)
                            \/ \E s \in Pieces : Make(r, s)

Spec == Init /\ [][Next]_<<serving, made, got>>
=============================================================================
