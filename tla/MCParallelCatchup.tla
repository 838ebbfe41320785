------------------------- MODULE MCParallelCatchup -------------------------
(* Instances of ParallelCatchup for TLC. *)
EXTENDS ParallelCatchup

Symmetry == Permutations(Jobs) \cup Permutations(Workers)
=============================================================================
