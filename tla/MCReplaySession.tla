-------------------------- MODULE MCReplaySession --------------------------
(* A window of four bits and twelve numbers: partial advances, advances of   *)
(* exactly one window, and restarts.                                         *)
EXTENDS ReplaySession

MCSeqs == 0 .. 11
=============================================================================
