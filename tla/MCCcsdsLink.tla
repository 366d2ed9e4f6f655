----------------------------- MODULE MCCcsdsLink -----------------------------
(***************************************************************************)
(* Packets of one frame and of several over a link without faults.         *)
(***************************************************************************)
EXTENDS CcsdsLink
=============================================================================
