--------------------------- MODULE Http3ProxyProofs ---------------------------
(***************************************************************************)
(* Proofs about Http3Proxy for every number of threads, requests,          *)
(* responses and calls of the setters.                                     *)
(*                                                                         *)
(* The statistics change only inside the critical section, one of the two  *)
(* ways it counts: that StreamsAccounted is kept rests on the guard in     *)
(* front of the decrement, without which a response nobody asked for would *)
(* take active_streams below zero.                                         *)
(***************************************************************************)
EXTENDS Http3Proxy, TLAPS

ProxyRecord ==
  [running : BOOLEAN, total_requests : Nat, total_responses : Nat,
   active_streams : Nat, request_callback : BOOLEAN, response_callback : BOOLEAN]

ProxyInv == proxy \in ProxyRecord /\ StreamsAccounted

\* rgtp_http3_proxy_forward_request counts a request.
LEMMA AskedKeeps ==
  ASSUME ProxyInv, proxy' = Asked(proxy)
  PROVE  ProxyInv'
<1>1. proxy.total_requests + 1 \in Nat /\ proxy.active_streams + 1 \in Nat
  BY DEF ProxyInv, ProxyRecord
<1>2. proxy' \in ProxyRecord
  BY <1>1, Zenon DEF Asked, ProxyInv, ProxyRecord
<1>3. /\ proxy'.total_requests = proxy.total_requests + 1
      /\ proxy'.total_responses = proxy.total_responses
      /\ proxy'.active_streams = proxy.active_streams + 1
  BY DEF Asked, ProxyInv, ProxyRecord
<1>4. StreamsAccounted'
  BY <1>3 DEF ProxyInv, StreamsAccounted, ProxyRecord
<1> QED
  BY <1>2, <1>4 DEF ProxyInv

\* rgtp_http3_proxy_send_response counts a response, and a stream less unless there is none.
LEMMA AnsweredKeeps ==
  ASSUME ProxyInv, proxy' = Answered(proxy)
  PROVE  ProxyInv'
<1> DEFINE left == IF proxy.active_streams > 0 THEN proxy.active_streams - 1
                                               ELSE proxy.active_streams
<1>1. proxy.total_responses + 1 \in Nat /\ left \in Nat
  BY DEF ProxyInv, ProxyRecord
<1>2. proxy' = [proxy EXCEPT !.total_responses = proxy.total_responses + 1,
                             !.active_streams = left]
  BY DEF Answered
<1>3. /\ proxy'.total_requests = proxy.total_requests
      /\ proxy'.total_responses = proxy.total_responses + 1
      /\ proxy'.active_streams = left
  BY <1>2 DEF ProxyInv, ProxyRecord
<1>4. StreamsAccounted'
  BY <1>3 DEF ProxyInv, StreamsAccounted, ProxyRecord
<1> HIDE DEF left
<1>5. proxy' \in ProxyRecord
  BY <1>1, <1>2, Zenon DEF ProxyInv, ProxyRecord
<1> QED
  BY <1>4, <1>5 DEF ProxyInv

\* Every step of a thread, of the life cycle and of a setter.
LEMMA ProxyInvStep == ProxyInv /\ [ProxyNext]_proxyVars => ProxyInv'
<1> SUFFICES ASSUME ProxyInv, [ProxyNext]_proxyVars PROVE ProxyInv'
  OBVIOUS
<1>1. CASE UNCHANGED proxy
  BY <1>1 DEF ProxyInv, StreamsAccounted
<1>2. ASSUME NEW w \in Workers, Counts(w) PROVE ProxyInv'
  BY <1>2, AskedKeeps, AnsweredKeeps DEF Counts
<1>3. CASE ProxyStart \/ ProxyStop
  <2>1. PICK on \in BOOLEAN : proxy' = [proxy EXCEPT !.running = on]
    BY <1>3 DEF ProxyStart, ProxyStop
  <2> QED
    BY <2>1 DEF ProxyInv, ProxyRecord, StreamsAccounted
<1>4. ASSUME NEW kind \in Kinds, NEW installed \in BOOLEAN, SetCallback(kind, installed)
      PROVE  ProxyInv'
  <2>1. Callback[kind] \in {"request_callback", "response_callback"}
    BY <1>4 DEF Callback, Kinds
  <2> QED
    BY <1>4, <2>1 DEF SetCallback, ProxyInv, ProxyRecord, StreamsAccounted
<1>5. ASSUME NEW w \in Workers,
             \/ ForwardRequest(w) \/ SendResponse(w) \/ Locks(w)
             \/ TestsCallback(w) \/ CallsCallback(w) \/ CallbackReturns(w)
      PROVE  UNCHANGED proxy
  BY <1>5 DEF ForwardRequest, SendResponse, Locks, TestsCallback, CallsCallback, CallbackReturns
<1> QED
  BY <1>1, <1>2, <1>3, <1>4, <1>5 DEF ProxyNext, WorkerStep, proxyVars

-----------------------------------------------------------------------------
\* The statistics agree whatever the threads' order, and whoever sends responses that
\* nobody asked for, for every number of threads, requests and responses.
THEOREM StreamsStayAccounted == ProxySpec => []StreamsAccounted
<1>1. ProxyInit => ProxyInv
  BY DEF ProxyInit, ProxyInv, ProxyRecord, StreamsAccounted
<1>2. ProxyInv => StreamsAccounted
  BY DEF ProxyInv
<1> QED
  BY <1>1, <1>2, ProxyInvStep, PTL DEF ProxySpec
=============================================================================
