---------------------------- MODULE MCDmselWrites ----------------------------
(***************************************************************************)
(* DmselWrites on the small store of MCDmselStore.                         *)
(***************************************************************************)
EXTENDS MCDmselStore, DmselWrites

=============================================================================
