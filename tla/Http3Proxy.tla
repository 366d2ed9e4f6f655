------------------------------ MODULE Http3Proxy ------------------------------
(***************************************************************************)
(* The HTTP/3 proxy (webtransport/rgtp_http3_proxy.c).  Worker threads     *)
(* forward requests and send responses; each call counts itself under the  *)
(* proxy's mutex, releases it, and then runs the application's callback,   *)
(* which may answer the request from inside the callback.  The mutex is    *)
(* the default one: a thread that locked it would wait for itself.         *)
(* The callbacks are plain fields: a setter writes without the lock, and a *)
(* call loads the field twice, to test it and to call it, so that a setter *)
(* in between makes it call through NULL.                                  *)
(*                                                                         *)
(* The network layer is simulated in the code and is not here; routes are  *)
(* accepted and forgotten (rgtp_http3_proxy_add_route stores nothing, and  *)
(* rgtp_http3_expose_via_proxy passes it no handler, so that it returns -1 *)
(* always).                                                                *)
(***************************************************************************)
EXTENDS Integers, Sequences, FiniteSets

CONSTANTS
  Workers,        \* threads that use the proxy
  MaxRequests,    \* bounds of the model: requests forwarded,
  MaxResponses,   \* responses sent,
  MaxLifecycle    \* calls of start, stop and the setters
WORD == 2 ^ 16    \* active_streams is unsigned; any width above the bounds shows a wrap

VARIABLES
  proxy,          \* running, the statistics and the two callback fields
  mutex,          \* proxy->mutex: the thread that holds it
  worker,         \* where each thread is: a stack of the calls it is in
  lifecycle       \* calls of start, stop and the setters so far

proxyVars == <<proxy, mutex, worker, lifecycle>>

Nobody == "nobody"
Kinds == {"request", "response"}
Callback == [request |-> "request_callback", response |-> "response_callback"]

\* One call: which operation, and where it is.
Call(kind) == [kind |-> kind, at |-> "count"]

ProxyInit ==
  /\ proxy = [running |-> FALSE, total_requests |-> 0, total_responses |-> 0,
              active_streams |-> 0, request_callback |-> FALSE, response_callback |-> FALSE]
  /\ mutex = Nobody
  /\ worker = [w \in Workers |-> <<>>]
  /\ lifecycle = 0

ProxyTypeOK ==
  /\ proxy.total_requests \in 0 .. MaxRequests
  /\ proxy.total_responses \in 0 .. MaxResponses
  /\ proxy.active_streams \in 0 .. WORD - 1
  /\ mutex \in Workers \union {Nobody}
  /\ \A w \in Workers : Len(worker[w]) <= 2

Top(w) == worker[w][Len(worker[w])]
InCall(w, at) == worker[w] # <<>> /\ Top(w).at = at
Goes(w, at) == worker' = [worker EXCEPT ![w][Len(worker[w])].at = at]
Returned(w) == [worker EXCEPT ![w] = SubSeq(worker[w], 1, Len(worker[w]) - 1)]

Pending(kind) == Cardinality({w \in Workers : \E d \in 1 .. Len(worker[w]) :
                   worker[w][d].kind = kind /\ worker[w][d].at \in {"count", "locked"}})

\* rgtp_http3_proxy_forward_request is entered.
ForwardRequest(w) ==
  /\ worker[w] = <<>>
  /\ proxy.total_requests + Pending("request") < MaxRequests
  /\ worker' = [worker EXCEPT ![w] = <<Call("request")>>]
  /\ UNCHANGED <<proxy, mutex, lifecycle>>

\* rgtp_http3_proxy_send_response is entered, by a thread of its own (for example
\* through rgtp_http3_pull_to_response) or from inside a request callback.
SendResponse(w) ==
  /\ InCall(w, "callback") => Top(w).kind = "request"
  /\ worker[w] = <<>> \/ InCall(w, "callback")
  /\ proxy.total_responses + Pending("response") < MaxResponses
  /\ worker' = [worker EXCEPT ![w] = Append(@, Call("response"))]
  /\ UNCHANGED <<proxy, mutex, lifecycle>>

\* Mutation: a request is counted twice.
AskedTwice(p) == [p EXCEPT !.total_requests = @ + 2, !.active_streams = @ + 1]

Asked(p) == [p EXCEPT !.total_requests = @ + 1, !.active_streams = @ + 1]

\* Mutation: a response takes a stream off also when there is none.
AnsweredAlways(p) ==
  [p EXCEPT !.total_responses = @ + 1, !.active_streams = (@ + WORD - 1) % WORD]

Answered(p) ==
  [p EXCEPT !.total_responses = @ + 1, !.active_streams = IF @ > 0 THEN @ - 1 ELSE @]

Locks(w) ==
  /\ InCall(w, "count")
  /\ mutex = Nobody
  /\ mutex' = w
  /\ Goes(w, "locked")
  /\ UNCHANGED <<proxy, lifecycle>>

\* Mutation: the callback runs with the mutex held.
CountsAndKeeps(w) ==
  /\ InCall(w, "locked")
  /\ proxy' = IF Top(w).kind = "request" THEN Asked(proxy) ELSE Answered(proxy)
  /\ Goes(w, "test")
  /\ UNCHANGED <<mutex, lifecycle>>

\* The critical section: counted, unlocked.
Counts(w) ==
  /\ InCall(w, "locked")
  /\ proxy' = IF Top(w).kind = "request" THEN Asked(proxy) ELSE Answered(proxy)
  /\ mutex' = Nobody
  /\ Goes(w, "test")
  /\ UNCHANGED lifecycle

\* if (proxy->request_callback)
TestsCallback(w) ==
  /\ InCall(w, "test")
  /\ IF proxy[Callback[Top(w).kind]]
       THEN Goes(w, "call")
       ELSE worker' = Returned(w)
  /\ UNCHANGED <<proxy, mutex, lifecycle>>

\* The second load of the field, and the call through it, which ends the thread when a
\* setter has cleared the field since the test.
CallsCallback(w) ==
  /\ InCall(w, "call")
  /\ Goes(w, IF proxy[Callback[Top(w).kind]] THEN "callback" ELSE "null_call")
  /\ UNCHANGED <<proxy, mutex, lifecycle>>

\* The callback returns, and the call with it.
CallbackReturns(w) ==
  /\ InCall(w, "callback")
  /\ worker' = Returned(w)
  /\ UNCHANGED <<proxy, mutex, lifecycle>>

Lifecycle == lifecycle < MaxLifecycle /\ lifecycle' = lifecycle + 1

ProxyStart ==
  /\ Lifecycle
  /\ mutex = Nobody
  /\ ~ proxy.running
  /\ proxy' = [proxy EXCEPT !.running = TRUE]
  /\ UNCHANGED <<mutex, worker>>

ProxyStop ==
  /\ Lifecycle
  /\ mutex = Nobody
  /\ proxy.running
  /\ proxy' = [proxy EXCEPT !.running = FALSE]
  /\ UNCHANGED <<mutex, worker>>

\* rgtp_http3_proxy_set_request_callback and _set_response_callback, with a
\* function or with NULL.
SetCallback(kind, installed) ==
  /\ Lifecycle
  /\ proxy' = [proxy EXCEPT ![Callback[kind]] = installed]
  /\ UNCHANGED <<mutex, worker>>

WorkerStep(w) ==
  \/ Locks(w)
  \/ Counts(w)
  \/ TestsCallback(w)
  \/ CallsCallback(w)
  \/ CallbackReturns(w)

ProxyNext ==
  \/ \E w \in Workers : ForwardRequest(w) \/ SendResponse(w) \/ WorkerStep(w)
  \/ ProxyStart
  \/ ProxyStop
  \/ \E kind \in Kinds, installed \in BOOLEAN : SetCallback(kind, installed)

\* A thread inside a call keeps running, and callbacks return.
ProxySpec ==
  ProxyInit /\ [][ProxyNext]_proxyVars /\ \A w \in Workers : WF_proxyVars(WorkerStep(w))

-----------------------------------------------------------------------------
(* The statistics agree: active_streams is at least the requests not yet     *)
(* answered and never more than the requests made, although any thread may   *)
(* send a response nobody asked for (rgtp_http3_pull_to_response).           *)
StreamsAccounted ==
  /\ proxy.total_requests <= proxy.total_responses + proxy.active_streams
  /\ proxy.active_streams <= proxy.total_requests

(* Every call returns (or is the call through NULL), also when the request   *)
(* callback answers from inside: the statistics' mutex is released before    *)
(* the callback runs, so no thread waits for itself.                         *)
CallsReturn ==
  \A w \in Workers : worker[w] # <<>> ~> (worker[w] = <<>> \/ InCall(w, "null_call"))
=============================================================================
