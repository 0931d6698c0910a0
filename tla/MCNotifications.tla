--------------------------- MODULE MCNotifications --------------------------
(* Notifications on small sets. *)
EXTENDS Notifications, TLC

CONSTANTS a1, a2, g1

MCGroup == [a \in Alerts |-> g1]
Symmetry == Permutations(Polls) \cup Permutations(Alerts)
=============================================================================
