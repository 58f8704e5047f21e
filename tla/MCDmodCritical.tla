--------------------------- MODULE MCDmodCritical ---------------------------
(***************************************************************************)
(* DmodCritical with few threads and levels.                               *)
(***************************************************************************)
EXTENDS DmodCritical, TLC

Symmetry == Permutations(Threads)

=============================================================================
