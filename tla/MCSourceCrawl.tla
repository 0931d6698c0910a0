--------------------------- MODULE MCSourceCrawl ---------------------------
(* SourceCrawl on small sets.  Tasks and job rows are interchangeable. *)
EXTENDS SourceCrawl, TLC

Symmetry == Permutations(Workers) \cup Permutations(Jobs)
=============================================================================
