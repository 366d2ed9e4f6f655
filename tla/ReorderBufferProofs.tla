------------------------ MODULE ReorderBufferProofs ------------------------
(***************************************************************************)
(* For every tolerance and every set of chunks: the invariants of          *)
(* ReorderBuffer hold, and it implements InOrderDelivery.  The argument    *)
(* rests on one fact of arithmetic, that indices less than capacity apart  *)
(* never share a slot.                                                     *)
(***************************************************************************)
EXTENDS ReorderBuffer, RingLemmas, SequenceTheorems

\* capacity is positive and every index has a slot.
LEMMA SlotExists ==
  /\ capacity \in Nat \ {0}
  /\ \A c \in Nat : SlotOf(c) \in Slots
<1>1. capacity \in Nat \ {0}
  BY MaxOutOfOrderAssumption DEF capacity
<1> QED
  BY <1>1, DivisionWithRemainder DEF SlotOf, Slots

\* The chunk found in the slot of an index in the window has that index.
LEMMA SlotContents ==
  ASSUME ReorderTypeOK, SlotOwner, NEW c \in Nat,
         next_deliver <= c, c < next_deliver + capacity,
         slots[SlotOf(c)] # NULL
  PROVE  slots[SlotOf(c)] = c
<1> DEFINE d == slots[SlotOf(c)]
<1>1. d \in Nat
  BY SlotExists, ChunksAssumption DEF ReorderTypeOK
<1>2. SlotOf(d) = SlotOf(c) /\ next_deliver <= d /\ d < next_deliver + capacity
  BY SlotExists DEF SlotOwner
<1>3. next_deliver \in Nat
  BY DEF ReorderTypeOK
<1> HIDE DEF d
<1>4. d \in next_deliver .. next_deliver + capacity - 1
  BY <1>1, <1>2, <1>3, SlotExists
<1>5. c \in next_deliver .. next_deliver + capacity - 1
  BY <1>3, SlotExists
<1>6. d % capacity = c % capacity
  BY <1>2 DEF SlotOf
<1>7. d = c
  BY <1>3, <1>4, <1>5, <1>6, SlotExists, RemainderUnique
<1> QED
  BY <1>7 DEF d

-----------------------------------------------------------------------------
\* What rgtp_reorder_buf_create leaves is well typed.
LEMMA InitTypeOK == ReorderInit => ReorderTypeOK
<1>1. <<>> \in Seq(Nat \X Arrivals)
  OBVIOUS
<1>2. [s \in Slots |-> NULL] \in [Slots -> Arrivals \cup {NULL}]
  OBVIOUS
<1> QED
  BY <1>1, <1>2 DEF ReorderInit, ReorderTypeOK, Codes

\* Every insert, dequeue and destroy keeps the types.
LEMMA NextTypeOK == ReorderTypeOK /\ [ReorderNext]_reorderVars => ReorderTypeOK'
<1> SUFFICES ASSUME ReorderTypeOK, [ReorderNext]_reorderVars PROVE ReorderTypeOK'
  OBVIOUS
<1> USE DEF ReorderTypeOK, Codes
<1>1. CASE BufInit
  BY <1>1 DEF BufInit
<1>2. CASE BufDestroy
  <2>1. <<>> \in Seq(Nat \X Arrivals)
    OBVIOUS
  <2> QED
    BY <1>2, <2>1 DEF BufDestroy
<1>3. ASSUME NEW c \in Arrivals, Insert(c) PROVE ReorderTypeOK'
  BY <1>3, SlotExists, ChunksAssumption
  DEF Insert, InsertRefused, InsertAlready, InsertNoMem, InsertStore
<1>4. ASSUME NEW size \in BufSizes, Dequeue(size) PROVE ReorderTypeOK'
  <2>1. CASE DequeueNotReady \/ DequeueTooSmall(size)
    BY <2>1 DEF DequeueNotReady, DequeueTooSmall
  <2>2. CASE DequeueDeliver(size)
    <3>1. <<next_deliver, slots[SlotOf(next_deliver)]>> \in Nat \X Arrivals
      BY <2>2, SlotExists DEF DequeueDeliver
    <3>2. dequeued' \in Seq(Nat \X Arrivals)
      BY <2>2, <3>1 DEF DequeueDeliver
    <3> QED
      BY <2>2, <3>2, SlotExists DEF DequeueDeliver
  <2> QED
    BY <1>4, <2>1, <2>2 DEF Dequeue
<1>5. CASE UNCHANGED reorderVars
  BY <1>5 DEF reorderVars
<1> QED
  BY <1>1, <1>2, <1>3, <1>4, <1>5 DEF ReorderNext

-----------------------------------------------------------------------------
\* Outside a session the structure is cleared, as rgtp_reorder_buf_destroy
\* leaves it; needed because rgtp_reorder_buf_init sets next_deliver to 0.
ClosedIsEmpty ==
  bufPhase = "closed" => next_deliver = 0 /\ acked = {}

\* The inductive invariant: AckedKept needs SlotOwner when a slot is found
\* taken or is freed, InOrder needs it for what dequeue copies out.
IInv == ReorderTypeOK /\ SlotOwner /\ InOrder /\ AckedKept /\ ClosedIsEmpty

\* A freshly created buffer satisfies the inductive invariant.
LEMMA InitIInv == ReorderInit => IInv
<1>1. ReorderInit => SlotOwner /\ InOrder /\ AckedKept /\ ClosedIsEmpty
  BY DEF ReorderInit, SlotOwner, InOrder, AckedKept, ClosedIsEmpty
<1> QED
  BY <1>1, InitTypeOK DEF IInv

\* The chunk a dequeue copies out is chunk next_deliver.
LEMMA DequeueContents ==
  ASSUME ReorderTypeOK, SlotOwner, slots[SlotOf(next_deliver)] # NULL
  PROVE  slots[SlotOf(next_deliver)] = next_deliver
<1>1. next_deliver \in Nat /\ next_deliver < next_deliver + capacity
  BY SlotExists DEF ReorderTypeOK
<1> QED
  BY <1>1, SlotContents

\* rgtp_reorder_buf_dequeue preserves the inductive invariant: it frees the
\* slot of next_deliver and moves the window by one.
LEMMA DequeueIInv ==
  ASSUME IInv, NEW size \in BufSizes, DequeueDeliver(size)
  PROVE  SlotOwner' /\ InOrder' /\ AckedKept' /\ ClosedIsEmpty'
<1> DEFINE n == next_deliver
           s == SlotOf(next_deliver)
<1>1. n \in Nat /\ s \in Slots /\ capacity \in Nat \ {0}
  BY SlotExists DEF IInv, ReorderTypeOK
<1>2. slots[s] = n /\ n \in Arrivals
  BY DequeueContents, <1>1 DEF IInv, ReorderTypeOK, DequeueDeliver
<1>3. slots' = [slots EXCEPT ![s] = NULL] /\ next_deliver' = n + 1
  BY DEF DequeueDeliver
<1>4. SlotOwner'
  <2> SUFFICES ASSUME NEW t \in Slots, slots'[t] # NULL
               PROVE  /\ SlotOf(slots'[t]) = t
                      /\ n + 1 <= slots'[t]
                      /\ slots'[t] < n + 1 + capacity
    BY <1>3 DEF SlotOwner
  <2>1. t # s /\ slots'[t] = slots[t] /\ slots[t] \in Nat
    BY <1>3, ChunksAssumption DEF IInv, ReorderTypeOK
  <2>2. SlotOf(slots[t]) = t /\ n <= slots[t] /\ slots[t] < n + capacity
    BY <2>1 DEF IInv, SlotOwner
  <2>3. slots[t] # n
    BY <2>1, <2>2
  <2> QED
    BY <1>1, <2>1, <2>2, <2>3
<1>5. AckedKept'
  <2>0. \A t \in Slots : slots'[t] # NULL => slots'[t] \in acked'
    BY <1>3 DEF IInv, ReorderTypeOK, AckedKept, DequeueDeliver
  <2> SUFFICES ASSUME NEW c \in acked, ~(c < n + 1)
               PROVE  slots'[SlotOf(c)] = c
    BY <1>3, <2>0 DEF AckedKept, DequeueDeliver
  <2>1. c \in Nat
    BY ChunksAssumption DEF IInv, ReorderTypeOK
  <2>2. slots[SlotOf(c)] = c /\ c # n /\ SlotOf(c) \in Slots
    BY <1>1, <2>1, SlotExists DEF IInv, AckedKept
  <2>3. SlotOf(c) # s
    BY <1>2, <2>2
  <2> QED
    BY <1>3, <2>2, <2>3 DEF IInv, ReorderTypeOK
<1>6. InOrder'
  <2>1. dequeued' = Append(dequeued, <<n, n>>) /\ Len(dequeued) = n
    BY <1>2 DEF DequeueDeliver, IInv, InOrder
  <2>2. dequeued \in Seq(Nat \X Arrivals)
    BY DEF IInv, ReorderTypeOK
  <2>3. Len(dequeued') = n + 1
    BY <1>1, <2>1, <2>2
  <2>4. ASSUME NEW k \in 1 .. n + 1 PROVE dequeued'[k] = <<k - 1, k - 1>>
    <3>1. CASE k = n + 1
      BY <1>1, <2>1, <2>2, <3>1
    <3>2. CASE k \in 1 .. n
      BY <1>1, <2>1, <2>2, <3>2 DEF IInv, InOrder
    <3> QED
      BY <1>1, <3>1, <3>2
  <2> QED
    BY <1>3, <2>3, <2>4 DEF InOrder
<1>7. ClosedIsEmpty'
  BY DEF ClosedIsEmpty, DequeueDeliver
<1> QED
  BY <1>4, <1>5, <1>6, <1>7

\* rgtp_reorder_buf_insert preserves the inductive invariant: it fills an empty
\* slot, or changes nothing.
LEMMA InsertIInv ==
  ASSUME IInv, NEW c \in Arrivals, Insert(c)
  PROVE  SlotOwner' /\ InOrder' /\ AckedKept' /\ ClosedIsEmpty'
<1> USE DEF IInv, SlotOwner, InOrder, AckedKept, ClosedIsEmpty
<1>1. c \in Nat /\ SlotOf(c) \in Slots /\ next_deliver \in Nat
  BY ChunksAssumption, SlotExists DEF ReorderTypeOK
<1>2. CASE InsertRefused(c) \/ InsertNoMem(c)
  BY <1>2 DEF InsertRefused, InsertNoMem
<1>3. CASE InsertAlready(c)
  <2>1. slots[SlotOf(c)] = c
    BY <1>1, <1>3, SlotContents, SlotExists DEF InsertAlready, OutOfRange
  <2> QED
    BY <1>3, <2>1 DEF InsertAlready
<1>4. CASE InsertStore(c)
  <2>1. /\ slots' = [slots EXCEPT ![SlotOf(c)] = c]
        /\ acked' = acked \cup {c}
        /\ UNCHANGED <<bufPhase, next_deliver, dequeued>>
        /\ slots[SlotOf(c)] = NULL /\ bufPhase = "open"
        /\ next_deliver <= c /\ c < next_deliver + capacity
    BY <1>1, <1>4, SlotExists DEF InsertStore, OutOfRange
  <2>2. SlotOwner'
    BY <1>1, <2>1 DEF ReorderTypeOK
  <2>3. AckedKept'
    <3>0. \A t \in Slots : slots'[t] # NULL => slots'[t] \in acked'
      BY <1>1, <2>1 DEF ReorderTypeOK
    <3> SUFFICES ASSUME NEW d \in acked', ~(d < next_deliver)
                 PROVE  slots'[SlotOf(d)] = d
      BY <2>1, <3>0
    <3>1. CASE d = c
      BY <1>1, <2>1, <3>1 DEF ReorderTypeOK
    <3>2. CASE d # c
      <4>1. d \in acked /\ d \in Arrivals /\ d \in Nat
        BY <2>1, <3>2, ChunksAssumption DEF ReorderTypeOK
      <4>2. slots[SlotOf(d)] = d /\ SlotOf(d) # SlotOf(c)
        BY <2>1, <4>1, ChunksAssumption
      <4> QED
        BY <2>1, <4>1, <4>2, SlotExists DEF ReorderTypeOK
    <3> QED
      BY <3>1, <3>2
  <2> QED
    BY <2>1, <2>2, <2>3
<1> QED
  BY <1>2, <1>3, <1>4 DEF Insert

\* Every step preserves the inductive invariant.
LEMMA NextIInv == IInv /\ [ReorderNext]_reorderVars => IInv'
<1> SUFFICES ASSUME IInv, [ReorderNext]_reorderVars
             PROVE  SlotOwner' /\ InOrder' /\ AckedKept' /\ ClosedIsEmpty'
  BY NextTypeOK DEF IInv
<1>1. CASE BufInit
  BY <1>1 DEF BufInit, IInv, SlotOwner, InOrder, AckedKept, ClosedIsEmpty
<1>2. CASE BufDestroy
  BY <1>2 DEF BufDestroy, SlotOwner, InOrder, AckedKept, ClosedIsEmpty
<1>3. ASSUME NEW c \in Arrivals, Insert(c)
      PROVE  SlotOwner' /\ InOrder' /\ AckedKept' /\ ClosedIsEmpty'
  BY <1>3, InsertIInv
<1>4. ASSUME NEW size \in BufSizes, Dequeue(size)
      PROVE  SlotOwner' /\ InOrder' /\ AckedKept' /\ ClosedIsEmpty'
  <2>1. CASE DequeueNotReady \/ DequeueTooSmall(size)
    BY <2>1 DEF DequeueNotReady, DequeueTooSmall,
                IInv, SlotOwner, InOrder, AckedKept, ClosedIsEmpty
  <2>2. CASE DequeueDeliver(size)
    BY <2>2, DequeueIInv
  <2> QED
    BY <1>4, <2>1, <2>2 DEF Dequeue
<1>5. CASE UNCHANGED reorderVars
  BY <1>5 DEF reorderVars, IInv, SlotOwner, InOrder, AckedKept, ClosedIsEmpty
<1> QED
  BY <1>1, <1>2, <1>3, <1>4, <1>5 DEF ReorderNext

\* Every state the reorder buffer can reach satisfies the inductive invariant.
THEOREM Invariance == ReorderSpec => []IInv
  BY InitIInv, NextIInv, PTL DEF ReorderSpec

\* The type invariant of the reorder buffer.
THEOREM TypeCorrect == ReorderSpec => []ReorderTypeOK
  BY Invariance, PTL DEF IInv

\* A buffered chunk is always in its own slot, within the window.
THEOREM SlotOwnership == ReorderSpec => []SlotOwner
  BY Invariance, PTL DEF IInv

\* The application gets chunk 0, 1, 2, ... under its own index.
THEOREM DeliveryInOrder == ReorderSpec => []InOrder
  BY Invariance, PTL DEF IInv

\* An insert answered with RGTP_OK is never forgotten.
THEOREM AckedChunksKept == ReorderSpec => []AckedKept
  BY Invariance, PTL DEF IInv

-----------------------------------------------------------------------------
(* Refinement                                                              *)

\* The sequence of delivered chunks the abstract specification sees.
Handed == [k \in 1 .. Len(dequeued) |-> dequeued[k][2]]

\* The sequence of chunks handed over is as long as the record of dequeues.
LEMMA HandedLen == ReorderTypeOK => Handed \in Seq(Arrivals) /\ Len(Handed) = Len(dequeued)
  BY DEF ReorderTypeOK, Handed

\* A step of the buffer is a step of in-order delivery, or hides in it.
LEMMA StepRefines ==
  IInv /\ [ReorderNext]_reorderVars => [Abstract!Next]_(Abstract!abstractVars)
<1> SUFFICES ASSUME IInv, [ReorderNext]_reorderVars
             PROVE  \/ Abstract!Next
                    \/ acked' = acked /\ Handed' = Handed
  BY DEF Abstract!abstractVars, Handed
<1>1. CASE BufInit
  BY <1>1 DEF BufInit, Handed
<1>2. CASE BufDestroy
  <2>1. acked' = {} /\ Handed' = <<>>
    BY <1>2 DEF BufDestroy, Handed
  <2> QED
    BY <2>1 DEF Abstract!Next, Abstract!Reset, Handed
<1>3. ASSUME NEW c \in Arrivals, Insert(c)
      PROVE  \/ Abstract!Next
             \/ acked' = acked /\ Handed' = Handed
  <2>1. CASE InsertRefused(c) \/ InsertNoMem(c)
    BY <2>1 DEF InsertRefused, InsertNoMem, Handed
  <2>2. CASE c \in acked
    BY <1>3, <2>2
    DEF Insert, InsertRefused, InsertAlready, InsertNoMem, InsertStore, Handed
  <2>3. CASE c \notin acked /\ (InsertAlready(c) \/ InsertStore(c))
    <3>1. Len(Handed) = next_deliver
      BY HandedLen DEF IInv, InOrder
    <3>2. next_deliver <= c /\ c <= next_deliver + MaxOutOfOrder
      BY <2>3, ChunksAssumption, MaxOutOfOrderAssumption
      DEF InsertAlready, InsertStore, OutOfRange, capacity, IInv, ReorderTypeOK
    <3>3. acked' = acked \cup {c} /\ Handed' = Handed
      BY <2>3 DEF InsertAlready, InsertStore, Handed
    <3>4. Abstract!Accept(c)
      BY <2>3, <3>1, <3>2, <3>3 DEF Abstract!Accept, Handed
    <3> QED
      BY <3>4 DEF Abstract!Next
  <2> QED
    BY <1>3, <2>1, <2>2, <2>3 DEF Insert
<1>4. ASSUME NEW size \in BufSizes, Dequeue(size)
      PROVE  \/ Abstract!Next
             \/ acked' = acked /\ Handed' = Handed
  <2>1. CASE DequeueNotReady \/ DequeueTooSmall(size)
    BY <2>1 DEF DequeueNotReady, DequeueTooSmall, Handed
  <2>2. CASE DequeueDeliver(size)
    <3> DEFINE n == next_deliver
    <3>1. n \in Nat /\ slots[SlotOf(n)] = n
      BY <2>2, DequeueContents DEF IInv, ReorderTypeOK, DequeueDeliver
    <3>2. n \in acked
      BY <2>2, <3>1, SlotExists DEF IInv, AckedKept, DequeueDeliver
    <3>3. Len(Handed) = n
      BY HandedLen DEF IInv, InOrder
    <3>4. acked' = acked /\ dequeued' = Append(dequeued, <<n, n>>)
      BY <2>2, <3>1 DEF DequeueDeliver
    <3>5. Handed' = Append(Handed, n)
      <4>0. ReorderTypeOK /\ ReorderTypeOK'
        BY NextTypeOK DEF IInv
      <4>1. /\ Handed \in Seq(Arrivals) /\ n \in Arrivals
            /\ Handed' \in Seq(Arrivals) /\ Len(Handed') = Len(dequeued')
        BY <3>2, <4>0 DEF ReorderTypeOK, Handed
      <4>2. Len(dequeued) = n /\ Len(Handed') = n + 1 /\ Len(dequeued') = n + 1
        BY <3>4, <4>0, <4>1 DEF IInv, ReorderTypeOK, InOrder
      <4>3. ASSUME NEW k \in 1 .. n + 1
            PROVE  Handed'[k] = Append(Handed, n)[k]
        <5>1. Handed'[k] = dequeued'[k][2]
          BY <4>2 DEF Handed
        <5>2. CASE k = n + 1
          BY <3>1, <3>3, <3>4, <4>1, <4>2, <5>1, <5>2, AppendProperties
          DEF IInv, ReorderTypeOK
        <5>3. CASE k \in 1 .. n
          <6>1. dequeued'[k] = dequeued[k] /\ Handed[k] = dequeued[k][2]
            BY <3>4, <4>2, <5>3 DEF Handed, IInv, ReorderTypeOK
          <6> QED
            BY <3>3, <4>1, <5>1, <5>3, <6>1, AppendProperties
        <5>4. k = n + 1 \/ k \in 1 .. n
          BY <3>1
        <5> QED
          BY <5>2, <5>3, <5>4, Zenon
      <4> QED
        BY <3>1, <3>3, <4>1, <4>2, <4>3, AppendProperties, SeqEqual
    <3>6. Abstract!Deliver
      BY <3>2, <3>3, <3>4, <3>5 DEF Abstract!Deliver, Handed
    <3> QED
      BY <3>6 DEF Abstract!Next
  <2> QED
    BY <1>4, <2>1, <2>2 DEF Dequeue
<1>5. CASE UNCHANGED reorderVars
  BY <1>5 DEF reorderVars, Handed
<1> QED
  BY <1>1, <1>2, <1>3, <1>4, <1>5 DEF ReorderNext

\* The ring of slots implements in-order, exactly-once delivery.
THEOREM Refinement == ReorderSpec => ImplementsInOrderDelivery
<1>1. ReorderInit => Abstract!Init
  BY DEF ReorderInit, Abstract!Init
<1> QED
  BY <1>1, Invariance, StepRefines, PTL DEF ReorderSpec, ImplementsInOrderDelivery, Abstract!Spec
=============================================================================
