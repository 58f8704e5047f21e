--------------------------- MODULE MCFirmwareSal ---------------------------
(***************************************************************************)
(* FirmwareSal with few threads and blocks.                                *)
(***************************************************************************)
EXTENDS FirmwareSal, TLC

Symmetry == Permutations(Threads) \cup Permutations(Buffers)

=============================================================================
