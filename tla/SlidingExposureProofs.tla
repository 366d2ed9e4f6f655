------------------------ MODULE SlidingExposureProofs ------------------------
(***************************************************************************)
(* Proofs about SlidingExposure for every initial chunk count, every       *)
(* sequence of window arguments and any number of chunks.                  *)
(*                                                                         *)
(* What a pull is answered with needs the shape of the store, and that     *)
(* needs that window_base has not caught up with chunk_count: an append    *)
(* moves both by at most one, and moves window_base only if it also moves  *)
(* chunk_count.                                                            *)
(***************************************************************************)
EXTENDS SlidingExposure, TLAPS

\* The surface's counters, also after it was destroyed.
BaseBehind == window_base < chunk_count

StoreInv == SlidingTypeOK /\ StoreIsWindow /\ BaseBehind

\* What rgtp_expose leaves is a window that begins with chunk 0.
LEMMA StoreInit == SlidingInit => StoreInv
<1> SUFFICES ASSUME SlidingInit PROVE StoreInv
  OBVIOUS
<1>1. PICK n \in InitialCounts, proofs \in Proofs :
        /\ state = "ACTIVE"
        /\ chunk_count = n
        /\ window_base = 0
        /\ chunks = 0 .. n - 1
        /\ proof_count = IF proofs = "proofs" THEN n ELSE 0
        /\ lastCall = Call("expose", 0, {})
        /\ proofs_read = {}
  BY DEF SlidingInit
<1>2. n \in Nat \ {0}
  BY SlidingExposureAssumption
<1>3. SlidingTypeOK
  BY <1>1, <1>2 DEF SlidingTypeOK, Call, Calls
<1> QED
  BY <1>1, <1>2, <1>3 DEF StoreInv, StoreIsWindow, BaseBehind

\* An interval, its next number and its first.
LEMMA IntervalGrows ==
  ASSUME NEW a \in Nat, NEW b \in Nat, a < b
  PROVE  /\ (a .. b - 1) \cup {b} = a .. b
         /\ (a .. b) \ {a} = a + 1 .. b
  OBVIOUS

\* rgtp_expose_append_chunk, with and without eviction.
LEMMA AppendKeepsStore ==
  ASSUME StoreInv, NEW window \in Windows, AppendChunk(window)
  PROVE  StoreInv'
<1> USE DEF StoreInv
<1>1. window \in Nat /\ chunk_count \in Nat /\ window_base \in Nat
  BY SlidingExposureAssumption DEF SlidingTypeOK
<1>2. chunks = window_base .. chunk_count - 1
  BY DEF AppendChunk, StoreIsWindow
<1>3. /\ state' = "ACTIVE" /\ state = "ACTIVE"
      /\ chunk_count' = chunk_count + 1
      /\ lastCall' = Call("append", window, {})
      /\ proof_count' = proof_count
      /\ proofs_read' = proofs_read
  BY DEF AppendChunk
<1>4. CASE Evicts(window)
  <2>1. window_base' = window_base + 1
    BY <1>4 DEF AppendChunk
  <2>2. chunks' = (window_base .. chunk_count) \ {window_base}
    BY <1>1, <1>2, <1>4, IntervalGrows DEF AppendChunk, BaseBehind
  <2>3. chunks' = window_base' .. chunk_count' - 1
    <3>1. chunk_count' - 1 = chunk_count
      BY <1>1, <1>3
    <3> QED
      BY <1>1, <2>1, <2>2, <3>1, IntervalGrows DEF BaseBehind
  <2>4. SlidingTypeOK'
    BY <1>1, <1>3, <2>1, <2>3 DEF SlidingTypeOK, Call, Calls
  <2> QED
    BY <1>1, <1>3, <2>1, <2>3, <2>4
    DEF StoreIsWindow, BaseBehind
<1>5. CASE ~ Evicts(window)
  <2>1. window_base' = window_base
    BY <1>5 DEF AppendChunk
  <2>2. chunks' = window_base' .. chunk_count' - 1
    <3>1. chunk_count' - 1 = chunk_count
      BY <1>1, <1>3
    <3>2. chunks' = chunks \cup {chunk_count}
      BY <1>5 DEF AppendChunk
    <3> QED
      BY <1>1, <1>2, <2>1, <3>1, <3>2, IntervalGrows DEF BaseBehind
  <2>3. SlidingTypeOK'
    BY <1>1, <1>3, <2>1, <2>2 DEF SlidingTypeOK, Call, Calls
  <2> QED
    BY <1>1, <1>3, <2>1, <2>2, <2>3 DEF StoreIsWindow, BaseBehind
<1> QED
  BY <1>4, <1>5

\* No call disturbs the store's shape.
LEMMA StoreStep == StoreInv /\ [SlidingNext]_slidingVars => StoreInv'
<1> SUFFICES ASSUME StoreInv, [SlidingNext]_slidingVars PROVE StoreInv'
  OBVIOUS
<1>1. CASE AppendFails
  BY <1>1 DEF AppendFails, StoreInv, SlidingTypeOK, StoreIsWindow, BaseBehind, Call, Calls
<1>2. ASSUME NEW window \in Windows, AppendChunk(window) PROVE StoreInv'
  BY <1>2, AppendKeepsStore
<1>3. ASSUME NEW window \in PullWindows, Poll(window) PROVE StoreInv'
  <2>1. Sent(window) \subseteq Nat /\ Wider(window, 1) \in Nat
    <3>1. chunks \subseteq 0 .. chunk_count - 1 /\ chunk_count \in Nat /\ window \in Nat
      BY SlidingExposureAssumption DEF StoreInv, SlidingTypeOK
    <3>2. Wider(window, 1) \in Nat
      BY <3>1 DEF Wider
    <3>3. Sent(window) \subseteq chunks
      BY DEF Sent
    <3>4. 0 .. chunk_count - 1 \subseteq Nat
      BY <3>1
    <3> QED
      BY <3>1, <3>2, <3>3, <3>4
  <2>2. SlidingTypeOK'
    BY <1>3, <2>1 DEF Poll, ReadProofs, StoreInv, SlidingTypeOK, Call, Calls
  <2> QED
    BY <1>3, <2>2 DEF Poll, StoreInv, StoreIsWindow, BaseBehind
<1>4. CASE Destroy
  <2>1. SlidingTypeOK'
    BY <1>4 DEF Destroy, ReadProofs, StoreInv, SlidingTypeOK, Call, Calls
  <2> QED
    BY <1>4, <2>1 DEF Destroy, StoreInv, StoreIsWindow, BaseBehind
<1>5. CASE UNCHANGED slidingVars
  BY <1>5 DEF slidingVars, StoreInv, SlidingTypeOK, StoreIsWindow, BaseBehind
<1> QED
  BY <1>1, <1>2, <1>3, <1>4, <1>5 DEF SlidingNext

-----------------------------------------------------------------------------
\* The chunks rgtp_expose_append_chunk keeps are those from window_base on, the newest
\* included, for every sequence of window arguments and failures.
THEOREM StoreStaysWindow == SlidingSpec => []StoreIsWindow
<1>1. StoreInv => StoreIsWindow
  BY DEF StoreInv
<1> QED
  BY <1>1, StoreInit, StoreStep, PTL DEF SlidingSpec

\* A pull for at least chunk_count chunks is answered with exactly the chunks from
\* window_base on (rgtp_poll serves the first window_size indices that are stored).
THEOREM PollServesStore == SlidingSpec => []WholeStoreServed
<1> DEFINE Inv == StoreInv /\ WholeStoreServed
<1>1. SlidingInit => Inv
  BY StoreInit DEF SlidingInit, WholeStoreServed, Call
<1>2. Inv /\ [SlidingNext]_slidingVars => Inv'
  <2> SUFFICES ASSUME Inv, [SlidingNext]_slidingVars PROVE WholeStoreServed'
    BY StoreStep
  <2>1. CASE AppendFails
    BY <2>1 DEF AppendFails, WholeStoreServed, Call
  <2>2. ASSUME NEW window \in Windows, AppendChunk(window) PROVE WholeStoreServed'
    BY <2>2 DEF AppendChunk, WholeStoreServed, Call
  <2>3. ASSUME NEW window \in PullWindows, Poll(window) PROVE WholeStoreServed'
    <3>1. chunks = window_base .. chunk_count - 1 /\ window_base \in Nat /\ chunk_count \in Nat
      BY <2>3 DEF Poll, StoreInv, StoreIsWindow, SlidingTypeOK
    <3>2. Wider(window, 1) \in Nat
      BY SlidingExposureAssumption DEF Wider
    <3>3. Wider(window, 1) >= chunk_count => Sent(window) = chunks
      BY <3>1, <3>2 DEF Sent
    <3> QED
      BY <2>3, <3>1, <3>3 DEF Poll, WholeStoreServed, Call
  <2>4. CASE Destroy
    BY <2>4 DEF Destroy, WholeStoreServed, Call
  <2>5. CASE UNCHANGED slidingVars
    BY <2>5 DEF slidingVars, WholeStoreServed
  <2> QED
    BY <2>1, <2>2, <2>3, <2>4, <2>5 DEF SlidingNext
<1>3. Inv => WholeStoreServed
  OBVIOUS
<1> QED
  BY <1>1, <1>2, <1>3, PTL DEF SlidingSpec
=============================================================================
