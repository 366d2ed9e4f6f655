------------------------------ MODULE LibraryInit ------------------------------
(***************************************************************************)
(* Library initialisation (core/rgtp_init.c): rgtp_init runs do_init once  *)
(* through pthread_once and returns the result do_init stored; rgtp_cleanup*)
(* resets the state and re-arms the once guard so that rgtp_init can be    *)
(* called again.  Threads call both; every atomic access and the write of  *)
(* the guard is a step of its own.                                         *)
(*                                                                         *)
(* pthread_once is external: one caller runs the routine, the others wait  *)
(* until it has returned.  Writing over the guard while somebody is in     *)
(* pthread_once is undefined by POSIX; here it takes effect at once.       *)
(***************************************************************************)
EXTENDS Integers, FiniteSets

CONSTANTS
  InitThreads,    \* threads that call rgtp_init and rgtp_cleanup
  MaxInitCalls    \* bound of the model: calls

VARIABLES
  lib,            \* s_once, s_init_result, s_initialised
  libCall,        \* where each thread is
  libHistory      \* calls; the last outcome of do_init; runs of it; guards re-armed;
                  \* whether an rgtp_cleanup ever overlapped an rgtp_init

libVars == <<lib, libCall, libHistory>>

InInit == {"once", "do_init", "stored", "flagged", "wait", "load"}
InCleanup == {"test", "clear", "forget", "rearm"}
Results == {"RGTP_OK", "RGTP_ERR_CRYPTO_INIT"}

LibInit ==
  /\ lib = [once |-> "fresh", result |-> "RGTP_OK", initialised |-> FALSE]
  /\ libCall = [t \in InitThreads |-> "idle"]
  /\ libHistory = [calls |-> 0, outcome |-> "RGTP_OK", runs |-> 0, rearmed |-> 0,
                   overlapped |-> FALSE]

LibTypeOK ==
  /\ lib \in [once : {"fresh", "running", "done"}, result : Results, initialised : BOOLEAN]
  /\ libCall \in [InitThreads -> InInit \union InCleanup \union Results \union {"idle"}]
  /\ libHistory.calls \in 0 .. MaxInitCalls

Moves(t, from, to) == libCall[t] = from /\ libCall' = [libCall EXCEPT ![t] = to]

Overlap(t, others) ==
  libHistory.overlapped \/ \E u \in InitThreads \ {t} : libCall[u] \in others

\* A thread at rest, or back from an earlier call, makes a call.
Enters(t, at, others) ==
  /\ libCall[t] \in {"idle"} \union Results
  /\ libHistory.calls < MaxInitCalls
  /\ libCall' = [libCall EXCEPT ![t] = at]
  /\ libHistory' = [libHistory EXCEPT !.calls = @ + 1, !.overlapped = Overlap(t, others)]
  /\ UNCHANGED lib

RgtpInit(t) == Enters(t, "once", InCleanup)
RgtpCleanup(t) == Enters(t, "test", InInit)

\* pthread_once: run the routine, wait for who runs it, or go on.
Once(t) ==
  /\ libCall[t] = "once"
  /\ libCall' = [libCall EXCEPT ![t] = CASE lib.once = "fresh" -> "do_init"
                                         [] lib.once = "running" -> "wait"
                                         [] OTHER -> "load"]
  /\ lib' = [lib EXCEPT !.once = IF @ = "fresh" THEN "running" ELSE @]
  /\ UNCHANGED libHistory

OnceWaited(t) == lib.once # "running" /\ Moves(t, "wait", "once") /\ UNCHANGED <<lib, libHistory>>

\* do_init: the crypto backend comes up or not; atomic_store(&s_init_result, ...).
DoInit(t, outcome) ==
  /\ Moves(t, "do_init", "stored")
  /\ lib' = [lib EXCEPT !.result = outcome]
  /\ libHistory' = [libHistory EXCEPT !.outcome = outcome, !.runs = @ + 1]

DoInitFlag(t) ==
  /\ Moves(t, "stored", "flagged")
  /\ lib' = [lib EXCEPT !.initialised = TRUE]
  /\ UNCHANGED libHistory

OnceDone(t) ==
  /\ Moves(t, "flagged", "load")
  /\ lib' = [lib EXCEPT !.once = "done"]
  /\ UNCHANGED libHistory

InitReturns(t) == Moves(t, "load", lib.result) /\ UNCHANGED <<lib, libHistory>>

CleanupTest(t) ==
  /\ Moves(t, "test", IF lib.initialised THEN "clear" ELSE "idle")
  /\ UNCHANGED <<lib, libHistory>>

CleanupClear(t) ==
  /\ Moves(t, "clear", "forget")
  /\ lib' = [lib EXCEPT !.initialised = FALSE]
  /\ UNCHANGED libHistory

CleanupForget(t) ==
  /\ Moves(t, "forget", "rearm")
  /\ lib' = [lib EXCEPT !.result = "RGTP_OK"]
  /\ UNCHANGED libHistory

\* Mutation: a cleanup that leaves the guard as it is.
CleanupKeepsGuard(t) ==
  /\ Moves(t, "rearm", "idle")
  /\ UNCHANGED <<lib, libHistory>>

CleanupRearm(t) ==
  /\ Moves(t, "rearm", "idle")
  /\ lib' = [lib EXCEPT !.once = "fresh"]
  /\ libHistory' = [libHistory EXCEPT !.rearmed = @ + 1]

LibStep(t) ==
  \/ Once(t)
  \/ OnceWaited(t)
  \/ \E outcome \in Results : DoInit(t, outcome)
  \/ DoInitFlag(t)
  \/ OnceDone(t)
  \/ InitReturns(t)
  \/ CleanupTest(t)
  \/ CleanupClear(t)
  \/ CleanupForget(t)
  \/ CleanupRearm(t)

LibNext == \E t \in InitThreads : RgtpInit(t) \/ RgtpCleanup(t) \/ LibStep(t)

LibSpec == LibInit /\ [][LibNext]_libVars /\ \A t \in InitThreads : WF_libVars(LibStep(t))

-----------------------------------------------------------------------------
(* rgtp_init returns what the last do_init came to, to every thread that     *)
(* raced for it, and leaves the library initialised; also after any number   *)
(* of rgtp_cleanup calls, as long as none overlapped an rgtp_init (the code  *)
(* resets s_init_result and the guard in separate steps, without a lock).    *)
(* do_init runs at most once per armed guard, overlapping calls included:    *)
(* rgtp_init never initialises the crypto backend a second time by itself.   *)
InitOnceAndTold ==
  /\ ~ libHistory.overlapped =>
       \A t \in InitThreads : libCall[t] = "load" =>
         lib.result = libHistory.outcome /\ lib.initialised /\ lib.once = "done"
  /\ libHistory.runs <= libHistory.rearmed + 1

(* Every rgtp_init and rgtp_cleanup returns: nobody waits in pthread_once    *)
(* for a runner that is gone, even when a cleanup re-arms the guard under it.*)
InitCallsReturn ==
  \A t \in InitThreads : libCall[t] \in InInit \union InCleanup ~>
                         libCall[t] \in {"idle"} \union Results
=============================================================================
