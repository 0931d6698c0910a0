-------------------------- MODULE MCDeliveryQueue --------------------------
(* DeliveryQueue on small sets. *)
EXTENDS DeliveryQueue

\* Either subscriptions or a schedule: they share the workers and nothing else.
MCTogether == {Subscriptions, Schedules}

\* Schedules are due in every minute but the first.
MCDueAt == [c \in Schedules |-> Minutes \ {0}]
=============================================================================
