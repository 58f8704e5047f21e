--------------------------- MODULE MCXtensaFlash ---------------------------
(***************************************************************************)
(* XtensaFlash with a chip of two sectors.                                 *)
(***************************************************************************)
EXTENDS XtensaFlash

=============================================================================
