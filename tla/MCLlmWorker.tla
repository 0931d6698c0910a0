---------------------------- MODULE MCLlmWorker ----------------------------
(* LlmWorker on small sets. *)
EXTENDS LlmWorker, TLC

Symmetry == Permutations(Requests)
=============================================================================
