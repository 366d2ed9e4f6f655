-------------------------- MODULE JitterBufferProofs --------------------------
(***************************************************************************)
(* Proofs about JitterBuffer for every capacity, depth and set of chunks.  *)
(*                                                                         *)
(* rgtp_jitter_buf_insert does not compare an index with next_deliver, so  *)
(* a slot may hold a chunk of another turn of the ring.  A chunk that came *)
(* in time is safe from it: two chunks of one slot that are due within one *)
(* turn are the same chunk, because a slot holds chunks of its own         *)
(* remainder only.                                                         *)
(***************************************************************************)
EXTENDS JitterBuffer, RingLemmas

\* A slot holds a chunk of its own remainder.
SlotRemainder ==
  \A s \in JitterRing : Valid(s) => jb.slots[s] % JitterCapacity = s

\* Playback is scheduled when the first chunk is stored, and nothing is held before.
Scheduled ==
  /\ jbFirst = 0 => jb.play_start = 0 /\ \A s \in JitterRing : ~ Valid(s)
  /\ jbFirst > 0 => jb.play_start = jbFirst + JitterDepth

JitterInv ==
  JitterTypeOK /\ SlotRemainder /\ JitterKeepsTurn /\ Scheduled /\ JitterHoldsBack

\* The capacity is positive and every index has a slot.
LEMMA JitterSlotExists ==
  /\ JitterCapacity \in Nat \ {0}
  /\ \A i \in Nat : i % JitterCapacity \in JitterRing
<1>1. JitterCapacity \in Nat \ {0}
  BY JitterAssumption DEF JitterCapacity
<1> QED
  BY <1>1, DivisionWithRemainder DEF JitterRing

\* The types of the fields.
LEMMA JitterFields ==
  ASSUME JitterTypeOK
  PROVE  /\ jb.slots \in [JitterRing -> JitterChunks \cup {NoChunk}]
         /\ jb.next_deliver \in Nat /\ jb.play_start \in Nat
         /\ jb = [slots |-> jb.slots, next_deliver |-> jb.next_deliver,
                  play_start |-> jb.play_start, state |-> jb.state]
         /\ jbClock \in Nat \ {0} /\ jbFirst \in Nat
         /\ JitterChunks \subseteq Nat /\ JitterDepth \in Nat \ {0}
  BY JitterAssumption DEF JitterTypeOK

\* rgtp_jitter_buf_init leaves an empty ring.
LEMMA JitterInvInit == JitterInit => JitterInv
<1> SUFFICES ASSUME JitterInit PROVE JitterInv
  OBVIOUS
<1>1. JitterTypeOK
  BY JitterAssumption DEF JitterInit, JitterTypeOK
<1>2. \A s \in JitterRing : ~ Valid(s)
  BY DEF JitterInit, Valid
<1> QED
  BY <1>1, <1>2 DEF JitterInit, JitterInv, SlotRemainder, JitterKeepsTurn,
                    Scheduled, JitterHoldsBack

\* A chunk stored in a free slot.
LEMMA InsertKeeps ==
  ASSUME JitterInv, NEW i \in JitterChunks, JitterInsert(i)
  PROVE  JitterInv'
<1> DEFINE s == i % JitterCapacity
<1> USE DEF JitterInv
<1>1. /\ jb.slots \in [JitterRing -> JitterChunks \cup {NoChunk}]
      /\ jb.next_deliver \in Nat /\ jb.play_start \in Nat
      /\ jbClock \in Nat \ {0} /\ jbFirst \in Nat
      /\ i \in Nat /\ JitterDepth \in Nat \ {0} /\ NoChunk # i
      /\ s \in JitterRing /\ JitterCapacity \in Nat \ {0}
  BY JitterFields, JitterSlotExists, JitterAssumption
<1>2. /\ ~ Valid(s)
      /\ jb'.slots = [jb.slots EXCEPT ![s] = i]
      /\ jb'.next_deliver = jb.next_deliver
      /\ jb'.play_start = PlayStart
      /\ jbOnTime' = IF Due(i) THEN jbOnTime \cup {i} ELSE jbOnTime
      /\ jbFirst' = IF jbFirst = 0 THEN jbClock ELSE jbFirst
      /\ jbClock' = jbClock /\ jbOut' = jbOut
  BY JitterFields DEF JitterInsert
<1>3. JitterTypeOK'
  <2>1. jb' = [jb EXCEPT !.slots = [jb.slots EXCEPT ![s] = i], !.play_start = PlayStart]
    BY DEF JitterInsert
  <2>2. PlayStart \in Nat /\ [jb.slots EXCEPT ![s] = i] \in [JitterRing -> JitterChunks \cup {NoChunk}]
    BY <1>1 DEF PlayStart
  <2> QED
    BY <1>1, <1>2, <2>1, <2>2 DEF JitterTypeOK, JitterInsert
<1> HIDE DEF s
<1>5. SlotRemainder'
  <2> SUFFICES ASSUME NEW t \in JitterRing, Valid(t)'
               PROVE  jb'.slots[t] % JitterCapacity = t
    BY DEF SlotRemainder
  <2>1. CASE t = s
    BY <1>1, <1>2, <2>1 DEF s
  <2>2. CASE t # s
    BY <1>1, <1>2, <2>2 DEF SlotRemainder, Valid
  <2> QED
    BY <2>1, <2>2
<1>6. JitterKeepsTurn'
  <2> SUFFICES ASSUME NEW k \in jbOnTime'
               PROVE  jb'.slots[k % JitterCapacity] = k /\ Due(k)'
    BY <1>2 DEF JitterKeepsTurn, Undelivered
  <2>1. CASE k \in jbOnTime
    <3>1. jb.slots[k % JitterCapacity] = k /\ Due(k) /\ k \in JitterChunks
      BY <2>1 DEF JitterKeepsTurn, JitterTypeOK
    <3>2. k % JitterCapacity # s
      BY <1>2, <3>1, JitterAssumption DEF Valid
    <3>3. k \in Nat /\ k % JitterCapacity \in JitterRing
      BY <3>1, JitterAssumption, JitterSlotExists
    <3> QED
      BY <1>1, <1>2, <3>1, <3>2, <3>3 DEF Due
  <2>2. CASE k = i /\ Due(i)
    BY <1>1, <1>2, <2>2 DEF Due, s
  <2> QED
    BY <1>2, <2>1, <2>2
<1>7. Scheduled'
  BY <1>1, <1>2 DEF Scheduled, PlayStart
<1>8. JitterHoldsBack'
  BY <1>1, <1>2 DEF JitterHoldsBack, Undelivered
<1> QED
  BY <1>3, <1>5, <1>6, <1>7, <1>8

\* The slot whose turn it is handed out.
LEMMA DequeueKeeps ==
  ASSUME JitterInv, JitterDequeue
  PROVE  JitterInv'
<1> DEFINE n == jb.next_deliver
           s == n % JitterCapacity
           c == jb.slots[s]
<1> USE DEF JitterInv
<1>1. /\ jb.slots \in [JitterRing -> JitterChunks \cup {NoChunk}]
      /\ n \in Nat /\ jb.play_start \in Nat
      /\ jbClock \in Nat \ {0} /\ jbFirst \in Nat /\ JitterDepth \in Nat \ {0}
      /\ s \in JitterRing /\ JitterCapacity \in Nat \ {0}
  BY JitterFields, JitterSlotExists
<1>2. /\ Valid(s) /\ ~ TooEarly
      /\ jbOut' = [chunk |-> c, index |-> n, on_time |-> c \in jbOnTime, at |-> jbClock]
      /\ jb'.slots = [jb.slots EXCEPT ![s] = NoChunk]
      /\ jb'.next_deliver = n + 1
      /\ jb'.play_start = jb.play_start
      /\ jbOnTime' = jbOnTime \ {c}
      /\ jbClock' = jbClock /\ jbFirst' = jbFirst
  BY JitterFields DEF JitterDequeue
<1>3. c \in JitterChunks /\ c \in Nat
  BY <1>1, <1>2, JitterAssumption DEF Valid
<1>4. JitterTypeOK'
  <2>1. jb' = [jb EXCEPT !.slots = [jb.slots EXCEPT ![s] = NoChunk], !.next_deliver = n + 1]
    BY DEF JitterDequeue
  <2>2. [jb.slots EXCEPT ![s] = NoChunk] \in [JitterRing -> JitterChunks \cup {NoChunk}]
    BY <1>1
  <2>3. jb' \in [slots : [JitterRing -> JitterChunks \cup {NoChunk}],
                 next_deliver : Nat, play_start : Nat, state : {"LIVE", "DESTROYED"}]
    <3>1. n + 1 \in Nat
      BY <1>1
    <3> HIDE DEF n, s
    <3> QED
      BY <2>1, <2>2, <3>1 DEF JitterTypeOK
  <2>4. jbOut' \in [chunk : JitterChunks, index : Nat, on_time : BOOLEAN, at : Nat]
    <3>1. (c \in jbOnTime) \in BOOLEAN
      OBVIOUS
    <3>2. jbClock \in Nat
      BY <1>1
    <3> HIDE DEF n, s, c
    <3> QED
      BY <1>1, <1>2, <1>3, <3>1, <3>2, Zenon
  <2> QED
    BY <1>2, <2>3, <2>4 DEF JitterTypeOK, JitterDequeue
<1>5. c % JitterCapacity = s
  BY <1>1, <1>2 DEF SlotRemainder
\* A chunk in time is due within the turn that starts with next_deliver, which is of
\* the same slot.
<1>6. c \in jbOnTime => c = n
  <2> SUFFICES ASSUME c \in jbOnTime PROVE c = n
    OBVIOUS
  <2>1. Due(c)
    BY DEF JitterKeepsTurn
  <2>2. /\ c \in n .. n + JitterCapacity - 1
        /\ n \in n .. n + JitterCapacity - 1
    BY <1>1, <1>3, <2>1 DEF Due
  <2> QED
    BY <1>1, <1>5, <2>2, RemainderUnique
<1> HIDE DEF n, s, c
<1>7. SlotRemainder'
  BY <1>1, <1>2 DEF SlotRemainder, Valid
<1>8. JitterKeepsTurn'
  <2>5. jbOut'.on_time => jbOut'.index = jbOut'.chunk
    BY <1>2, <1>6
  <2> SUFFICES ASSUME NEW k \in jbOnTime'
               PROVE  jb'.slots[k % JitterCapacity] = k /\ Due(k)'
    BY <2>5 DEF JitterKeepsTurn
  <2>1. k \in jbOnTime /\ k # c
    BY <1>2
  <2>2. /\ jb.slots[k % JitterCapacity] = k /\ Due(k)
        /\ k \in Nat /\ k % JitterCapacity \in JitterRing
    BY <2>1, JitterSlotExists, JitterAssumption DEF JitterKeepsTurn, JitterTypeOK
  <2>3. k % JitterCapacity # s
    BY <2>1, <2>2 DEF c
  <2>4. k # n
    BY <2>3 DEF s
  <2> QED
    BY <1>1, <1>2, <2>2, <2>3, <2>4 DEF Due, n
<1>9. JitterHoldsBack' /\ Scheduled'
  <2>1. jbFirst > 0 /\ jb.play_start = jbFirst + JitterDepth
    BY <1>1, <1>2 DEF Scheduled
  <2>2. jbClock >= jb.play_start
    BY <1>1, <1>2, <2>1 DEF TooEarly
  <2> QED
    BY <1>1, <1>2, <2>1, <2>2 DEF JitterHoldsBack, Scheduled
<1> QED
  BY <1>4, <1>7, <1>8, <1>9

\* Every other call stores and hands out nothing, or ends the buffer.
LEMMA JitterInvStep == JitterInv /\ [JitterNext]_jitterVars => JitterInv'
<1> SUFFICES ASSUME JitterInv, [JitterNext]_jitterVars PROVE JitterInv'
  OBVIOUS
<1>1. ASSUME UNCHANGED <<jb, jbOut, jbOnTime, jbFirst>>, JitterTypeOK' PROVE JitterInv'
  BY <1>1 DEF JitterInv, SlotRemainder, Valid, Due, JitterKeepsTurn, Scheduled,
              JitterHoldsBack
<1>2. CASE JitterTick
  <2>1. JitterTypeOK'
    BY <1>2, JitterAssumption DEF JitterTick, JitterInv, JitterTypeOK
  <2> QED
    BY <1>1, <1>2, <2>1 DEF JitterTick
<1>3. ASSUME NEW i \in JitterChunks, JitterInsert(i) PROVE JitterInv'
  BY <1>3, InsertKeeps
<1>4. ASSUME NEW code \in {"RGTP_OK", "RGTP_ERR_NOMEM", "RGTP_ERR_TIMEOUT", "RGTP_ERR_INVALID_ARG"},
             JitterReturns(code)
      PROVE  JitterInv'
  <2>1. JitterTypeOK'
    BY <1>4 DEF JitterReturns, JitterInv, JitterTypeOK
  <2> QED
    BY <1>1, <1>4, <2>1 DEF JitterReturns
<1>5. CASE JitterDequeue
  BY <1>5, DequeueKeeps
<1>6. CASE JitterDestroy
  <2>1. /\ jb'.slots = [s \in JitterRing |-> NoChunk]
        /\ jb'.play_start = jb.play_start
        /\ jbOnTime' = {} /\ jbOut' = jbOut /\ jbFirst' = jbFirst
    BY <1>6, JitterFields DEF JitterDestroy, JitterInv
  <2>2. JitterTypeOK'
    BY <1>6 DEF JitterDestroy, JitterInv, JitterTypeOK
  <2>3. \A s \in JitterRing : ~ Valid(s)'
    BY <2>1 DEF Valid
  <2> QED
    BY <2>1, <2>2, <2>3 DEF JitterInv, SlotRemainder, JitterKeepsTurn, Scheduled,
                            JitterHoldsBack
<1>7. CASE UNCHANGED jitterVars
  <2>1. JitterTypeOK'
    BY <1>7 DEF jitterVars, JitterInv, JitterTypeOK
  <2> QED
    BY <1>1, <1>7, <2>1 DEF jitterVars
<1> QED
  BY <1>2, <1>3, <1>4, <1>5, <1>6, <1>7
  DEF JitterNext, JitterInsertTaken, JitterInsertNoMem, JitterDequeueNotReady, JitterDequeueTooSmall

-----------------------------------------------------------------------------
\* A chunk that came in time is held in its slot until its turn, and then handed out under
\* its own index, for every capacity.
THEOREM ChunksInTimeKeepTurn == JitterSpec => []JitterKeepsTurn
<1>1. JitterInv => JitterKeepsTurn
  BY DEF JitterInv
<1> QED
  BY <1>1, JitterInvInit, JitterInvStep, PTL DEF JitterSpec

\* Nothing is played before depth_us after the first arrival, for every depth.
THEOREM PlaybackHeldBack == JitterSpec => []JitterHoldsBack
<1>1. JitterInv => JitterHoldsBack
  BY DEF JitterInv
<1> QED
  BY <1>1, JitterInvInit, JitterInvStep, PTL DEF JitterSpec
=============================================================================
