--------------------------- MODULE ReorderBuffer ---------------------------
(***************************************************************************)
(* The reorder buffer of transport/rgtp_streaming.c (section 11.3): a ring *)
(* of max_out_of_order + 1 slots in which chunks that arrive out of order  *)
(* wait until every earlier chunk has been handed to the application.      *)
(*                                                                         *)
(* A slot holds the chunk whose bytes were copied into it, or NULL; the    *)
(* code's slot_valid[s] and slots[s] # NULL always change together, and    *)
(* slot_sizes[s] is the length of the chunk held.  Chunk indices are       *)
(* uint32_t and a manifest announces at most 2^32 - 1 chunks, so           *)
(* next_deliver never wraps.                                               *)
(***************************************************************************)
EXTENDS Naturals, Sequences

CONSTANTS
  Arrivals,        \* the chunk indices that can arrive
  ChunkLen,        \* ChunkLen[c]: plaintext bytes of chunk c
  BufSizes,        \* buffer sizes the application passes to dequeue
  MaxOutOfOrder,   \* max_out_of_order given to rgtp_reorder_buf_init
  NULL             \* no buffer

ASSUME ChunksAssumption ==
  /\ Arrivals \subseteq Nat
  /\ ChunkLen \in [Arrivals -> Nat]
  /\ BufSizes \subseteq Nat
  /\ NULL \notin Arrivals

\* UINT32_MAX would make max_out_of_order + 1 wrap to 0.
ASSUME MaxOutOfOrderAssumption ==
  MaxOutOfOrder \in Nat

VARIABLES
  bufPhase,        \* "open" between a successful init and destroy
  next_deliver,    \* next chunk index to deliver
  slots,           \* buffered plaintext chunks
  ret,             \* what the last call returned
  acked,           \* history: chunks whose insert returned RGTP_OK
  dequeued         \* history: <<out_index, chunk in the buffer>> of each dequeue

reorderVars == <<bufPhase, next_deliver, slots, ret, acked, dequeued>>

capacity == MaxOutOfOrder + 1
Slots == 0 .. capacity - 1
Codes == {"RGTP_OK", "RGTP_ERR_INVALID_ARG", "RGTP_ERR_NOMEM", "RGTP_ERR_TIMEOUT"}

SlotOf(c) == c % capacity

ReorderTypeOK ==
  /\ bufPhase \in {"closed", "open"}
  /\ next_deliver \in Nat
  /\ slots \in [Slots -> Arrivals \cup {NULL}]
  /\ ret \in Codes
  /\ acked \subseteq Arrivals
  /\ dequeued \in Seq(Nat \X Arrivals)

-----------------------------------------------------------------------------
(* rgtp_reorder_buf_init, _destroy                                         *)

ReorderInit ==
  /\ bufPhase = "closed"
  /\ next_deliver = 0
  /\ slots = [s \in Slots |-> NULL]
  /\ ret = "RGTP_OK"
  /\ acked = {}
  /\ dequeued = <<>>

\* One of the three arrays may fail to allocate: the others are freed again.
BufInit ==
  /\ bufPhase = "closed"
  /\ next_deliver' = 0
  /\ slots' = [s \in Slots |-> NULL]
  /\ \/ bufPhase' = "open" /\ ret' = "RGTP_OK"
     \/ bufPhase' = "closed" /\ ret' = "RGTP_ERR_NOMEM"
  /\ UNCHANGED <<acked, dequeued>>

\* Frees every buffered chunk and clears the structure; the session is over.
BufDestroy ==
  /\ bufPhase = "open"
  /\ bufPhase' = "closed"
  /\ next_deliver' = 0
  /\ slots' = [s \in Slots |-> NULL]
  /\ acked' = {}
  /\ dequeued' = <<>>
  /\ UNCHANGED ret

-----------------------------------------------------------------------------
(* rgtp_reorder_buf_insert                                                 *)

\* Mutation: one chunk too many is taken in.
OutOfRangeLax(c) ==
  \/ c < next_deliver
  \/ c > next_deliver + capacity

\* A chunk already delivered, or too far ahead, is refused.
OutOfRange(c) ==
  \/ c < next_deliver
  \/ c >= next_deliver + capacity

InsertRefused(c) ==
  /\ bufPhase = "open"
  /\ OutOfRange(c)
  /\ ret' = "RGTP_ERR_INVALID_ARG"
  /\ UNCHANGED <<bufPhase, next_deliver, slots, acked, dequeued>>

\* The slot is taken: the code reports success and keeps what it has.
InsertAlready(c) ==
  /\ bufPhase = "open"
  /\ ~OutOfRange(c)
  /\ slots[SlotOf(c)] # NULL
  /\ ret' = "RGTP_OK"
  /\ acked' = acked \cup {c}
  /\ UNCHANGED <<bufPhase, next_deliver, slots, dequeued>>

\* Mutation: a failed allocation is reported as success.
InsertNoMemOk(c) ==
  /\ bufPhase = "open"
  /\ ~OutOfRange(c)
  /\ slots[SlotOf(c)] = NULL
  /\ ret' = "RGTP_OK"
  /\ acked' = acked \cup {c}
  /\ UNCHANGED <<bufPhase, next_deliver, slots, dequeued>>

\* rgtp_malloc fails, always for a zero length.
InsertNoMem(c) ==
  /\ bufPhase = "open"
  /\ ~OutOfRange(c)
  /\ slots[SlotOf(c)] = NULL
  /\ ret' = "RGTP_ERR_NOMEM"
  /\ UNCHANGED <<bufPhase, next_deliver, slots, acked, dequeued>>

InsertStore(c) ==
  /\ bufPhase = "open"
  /\ ~OutOfRange(c)
  /\ slots[SlotOf(c)] = NULL
  /\ ChunkLen[c] > 0
  /\ slots' = [slots EXCEPT ![SlotOf(c)] = c]
  /\ ret' = "RGTP_OK"
  /\ acked' = acked \cup {c}
  /\ UNCHANGED <<bufPhase, next_deliver, dequeued>>

Insert(c) ==
  InsertRefused(c) \/ InsertAlready(c) \/ InsertNoMem(c) \/ InsertStore(c)

-----------------------------------------------------------------------------
(* rgtp_reorder_buf_dequeue                                                *)

DequeueNotReady ==
  /\ bufPhase = "open"
  /\ slots[SlotOf(next_deliver)] = NULL
  /\ ret' = "RGTP_ERR_TIMEOUT"
  /\ UNCHANGED <<bufPhase, next_deliver, slots, acked, dequeued>>

\* The caller's buffer is too small: nothing is consumed.
DequeueTooSmall(size) ==
  LET s == SlotOf(next_deliver) IN
  /\ bufPhase = "open"
  /\ slots[s] # NULL
  /\ ChunkLen[slots[s]] > size
  /\ ret' = "RGTP_ERR_INVALID_ARG"
  /\ UNCHANGED <<bufPhase, next_deliver, slots, acked, dequeued>>

\* Mutation: the slot is freed but next_deliver stays.
DequeueNoAdvance(size) ==
  LET s == SlotOf(next_deliver) IN
  /\ bufPhase = "open"
  /\ slots[s] # NULL
  /\ ChunkLen[slots[s]] <= size
  /\ dequeued' = Append(dequeued, <<next_deliver, slots[s]>>)
  /\ slots' = [slots EXCEPT ![s] = NULL]
  /\ ret' = "RGTP_OK"
  /\ UNCHANGED <<bufPhase, next_deliver, acked>>

DequeueDeliver(size) ==
  LET s == SlotOf(next_deliver) IN
  /\ bufPhase = "open"
  /\ slots[s] # NULL
  /\ ChunkLen[slots[s]] <= size
  /\ dequeued' = Append(dequeued, <<next_deliver, slots[s]>>)
  /\ slots' = [slots EXCEPT ![s] = NULL]
  /\ next_deliver' = next_deliver + 1
  /\ ret' = "RGTP_OK"
  /\ UNCHANGED <<bufPhase, acked>>

Dequeue(size) ==
  DequeueNotReady \/ DequeueTooSmall(size) \/ DequeueDeliver(size)

-----------------------------------------------------------------------------
ReorderNext ==
  \/ BufInit
  \/ BufDestroy
  \/ \E c \in Arrivals : Insert(c)
  \/ \E size \in BufSizes : Dequeue(size)

ReorderSpec == ReorderInit /\ [][ReorderNext]_reorderVars

-----------------------------------------------------------------------------
(* Properties                                                              *)

\* A buffered chunk sits in the slot of its own index and lies within the
\* window of capacity chunks from next_deliver on: a slot freed by dequeue and
\* taken again one lap later is never mistaken for the earlier chunk, and the
\* "already have it" answer of rgtp_reorder_buf_insert is about that very chunk.
SlotOwner ==
  \A s \in Slots : slots[s] # NULL =>
    /\ SlotOf(slots[s]) = s
    /\ next_deliver <= slots[s]
    /\ slots[s] < next_deliver + capacity

\* The k-th successful dequeue reports index k - 1 and fills the caller's buffer
\* with chunk k - 1: rgtp_reorder_buf_dequeue reports next_deliver without looking
\* at which chunk the slot holds, so the two agree only through SlotOwner.
InOrder ==
  /\ Len(dequeued) = next_deliver
  /\ \A k \in 1 .. Len(dequeued) : dequeued[k] = <<k - 1, k - 1>>

\* RGTP_OK from rgtp_reorder_buf_insert is a promise: the chunk is still held in
\* its slot or has been delivered, whatever refused, failed or repeated calls
\* followed; and no chunk whose insert was refused or failed is held.
AckedKept ==
  /\ \A c \in acked : c < next_deliver \/ slots[SlotOf(c)] = c
  /\ \A s \in Slots : slots[s] # NULL => slots[s] \in acked

\* What rgtp_reorder_buf_insert and _dequeue implement: in-order, exactly-once
\* delivery within the tolerance.
Abstract == INSTANCE InOrderDelivery
  WITH accepted <- acked,
       Chunks <- Arrivals,
       delivered <- [k \in 1 .. Len(dequeued) |-> dequeued[k][2]]

ImplementsInOrderDelivery == Abstract!Spec
=============================================================================
