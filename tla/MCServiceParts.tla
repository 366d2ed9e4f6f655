---------------------------- MODULE MCServiceParts ----------------------------
(***************************************************************************)
(* Model checking of the parts whose calls wait: initialization of the     *)
(* library, the HTTP/3 proxy, the middleware readers and the legacy        *)
(* transfer.  They share no state; a behaviour exercises the one that part *)
(* names and the others keep their initial state, in which no fair action  *)
(* of theirs is enabled.                                                   *)
(***************************************************************************)
EXTENDS LibraryInit, Http3Proxy, MiddlewareSample, LegacyTransfer

VARIABLE part

serviceVars == <<part, libVars, proxyVars, middlewareVars, legacyVars>>

ServiceInit ==
  /\ part \in {"init", "proxy", "middleware", "legacy"}
  /\ LibInit /\ ProxyInit /\ MiddlewareInit
  /\ LegacyInit
  /\ part # "legacy" => legacyHost = [order |-> "big", id |-> ExposureId, timeout |-> TRUE]

ServiceNext ==
  /\ UNCHANGED part
  /\ IF part = "init" THEN LibNext ELSE UNCHANGED libVars
  /\ IF part = "proxy" THEN ProxyNext ELSE UNCHANGED proxyVars
  /\ IF part = "middleware" THEN MiddlewareNext ELSE UNCHANGED middlewareVars
  /\ IF part = "legacy" THEN LegacyNext ELSE UNCHANGED legacyVars

ServiceSpec ==
  /\ ServiceInit /\ [][ServiceNext]_serviceVars
  /\ \A t \in InitThreads : WF_libVars(LibStep(t))
  /\ \A w \in Workers : WF_proxyVars(WorkerStep(w))
  /\ WF_middlewareVars(ReaderStep)
  /\ LegacyFairness

\* Every part keeps the types the C declarations give it.
ServiceTypeOK == LibTypeOK /\ ProxyTypeOK /\ MiddlewareTypeOK /\ LegacyTypeOK

\* Every call that waits returns: rgtp_init and rgtp_cleanup, the proxy's calls (those
\* that answer from inside a callback included), the middleware reads and, with a timeout
\* configured, the calls of the legacy transfer.
ServiceCallsReturn == InitCallsReturn /\ CallsReturn /\ ReadReturns /\ LegacyCallsReturn
=============================================================================
