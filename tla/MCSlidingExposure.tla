-------------------------- MODULE MCSlidingExposure --------------------------
(* Exposures of one to three chunks grown to seven, with windows smaller and    *)
(* larger than what they start with.                                          *)
EXTENDS SlidingExposure
=============================================================================
