---------------------------- MODULE MCAiSettings ----------------------------
(* AiSettings on small sets. *)
EXTENDS AiSettings, TLC

Symmetry == Permutations(Requests) \cup Permutations(Keys)
=============================================================================
