---------------------------- MODULE MCGlobalHooks ----------------------------
(***************************************************************************)
(* One installer and two threads that allocate, free and log.              *)
(***************************************************************************)
EXTENDS GlobalHooks
=============================================================================
