----------------------------- MODULE MCAccounts ------------------------------
(* Accounts on small sets. *)
EXTENDS Accounts, TLC

Symmetry == Permutations(Requests) \cup Permutations(Users)
=============================================================================
