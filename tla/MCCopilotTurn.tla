---------------------------- MODULE MCCopilotTurn ----------------------------
(* CopilotTurn on small sets. *)
EXTENDS CopilotTurn
=============================================================================
