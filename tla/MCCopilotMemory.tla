--------------------------- MODULE MCCopilotMemory ---------------------------
(* CopilotMemory on small sets. *)
EXTENDS CopilotMemory, TLC

Symmetry == Permutations(Handlers)
=============================================================================
