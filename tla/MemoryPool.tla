------------------------------ MODULE MemoryPool ------------------------------
(***************************************************************************)
(* The memory pool of core/rgtp_core.c (rgtp_memory_pool_t): an array of   *)
(* free blocks of one size behind a mutex, so that every operation is one  *)
(* critical section.  rgtp_memory_pool_alloc hands out the first block it  *)
(* finds; rgtp_memory_pool_free puts any pointer it is given into the      *)
(* first empty slot and calls free() only when the pool is full.  So       *)
(* blocks of the pool and blocks the caller got from malloc (its own way   *)
(* out when the pool is exhausted) trade places, and what the pool owns at *)
(* destruction is not what it was created with.                            *)
(*                                                                         *)
(* A block is an address; heap holds the live ones.  Callers follow the    *)
(* contract of an allocator: they free what they hold, once.               *)
(***************************************************************************)
EXTENDS Integers, FiniteSets

CONSTANTS
  Blocks,         \* addresses malloc may return
  PoolSize        \* num_blocks
ASSUME PoolAssumption == PoolSize \in Nat \ {0}

NoBlock == "NULL"
ASSUME NoBlockIsNoAddress == NoBlock \notin Blocks

VARIABLES
  stage,          \* "none", "creating", "ready": the life of the pool
  slots,          \* pool->blocks
  free_count,     \* pool->free_count
  heap,           \* blocks allocated and not freed
  held            \* blocks in the hands of callers

poolVars == <<stage, slots, free_count, heap, held>>

SlotIds == 0 .. PoolSize - 1
EmptySlots == [i \in SlotIds |-> NoBlock]
Stored == {slots[i] : i \in SlotIds} \ {NoBlock}

PoolInit ==
  /\ stage = "none"
  /\ slots = EmptySlots
  /\ free_count = 0
  /\ heap = {}
  /\ held = {}

PoolTypeOK ==
  /\ stage \in {"none", "creating", "ready"}
  /\ slots \in [SlotIds -> Blocks \union {NoBlock}]
  /\ free_count \in 0 .. PoolSize
  /\ heap \subseteq Blocks
  /\ held \subseteq Blocks

\* rgtp_memory_pool_create: the arrays are there, the blocks come one by one;
\* free_count counts the loop while the pool is unpublished.
PoolCreateBegin ==
  /\ stage = "none"
  /\ stage' = "creating"
  /\ UNCHANGED <<slots, free_count, heap, held>>

PoolCreateBlock(b) ==
  /\ stage = "creating"
  /\ b \notin heap
  /\ slots' = [slots EXCEPT ![free_count] = b]
  /\ heap' = heap \union {b}
  /\ free_count' = free_count + 1
  /\ stage' = IF free_count + 1 = PoolSize THEN "ready" ELSE stage
  /\ UNCHANGED held

\* malloc fails inside the loop: the earlier blocks and the pool are freed.
PoolCreateFails ==
  /\ stage = "creating"
  /\ heap' = heap \ Stored
  /\ slots' = EmptySlots
  /\ free_count' = 0
  /\ stage' = "none"
  /\ UNCHANGED held

\* The first slot that is not empty; the first one that is.
IsFirst(i, P(_)) == P(i) /\ \A k \in SlotIds : k < i => ~ P(k)
Occupied(i) == slots[i] # NoBlock
Vacant(i) == slots[i] = NoBlock

\* Mutation: an allocation that hands out the block and leaves it in its slot.
PoolAllocKeepsSlot ==
  /\ stage = "ready"
  /\ free_count > 0
  /\ \E i \in SlotIds : /\ IsFirst(i, Occupied)
                        /\ held' = held \union {slots[i]}
  /\ free_count' = free_count - 1
  /\ UNCHANGED <<stage, slots, heap>>

PoolAlloc ==
  /\ stage = "ready"
  /\ free_count > 0
  /\ \E i \in SlotIds : /\ IsFirst(i, Occupied)
                        /\ held' = held \union {slots[i]}
                        /\ slots' = [slots EXCEPT ![i] = NoBlock]
  /\ free_count' = free_count - 1
  /\ UNCHANGED <<stage, heap>>

\* A caller's own malloc, its way out when rgtp_memory_pool_alloc finds nothing
\* free and returns NULL.
PoolCallerMallocs(b) ==
  /\ stage # "creating"
  /\ b \notin heap
  /\ heap' = heap \union {b}
  /\ held' = held \union {b}
  /\ UNCHANGED <<stage, slots, free_count>>

\* rgtp_memory_pool_free while the pool has room: adopted, wherever it came from.
PoolFreeToSlot(b) ==
  /\ stage = "ready"
  /\ b \in held
  /\ free_count < PoolSize
  /\ \E i \in SlotIds : /\ IsFirst(i, Vacant)
                        /\ slots' = [slots EXCEPT ![i] = b]
  /\ free_count' = free_count + 1
  /\ held' = held \ {b}
  /\ UNCHANGED <<stage, heap>>

\* rgtp_memory_pool_free with a full pool: free().
PoolFreeToHeap(b) ==
  /\ stage = "ready"
  /\ free_count = PoolSize
  /\ b \in held
  /\ heap' = heap \ {b}
  /\ held' = held \ {b}
  /\ UNCHANGED <<stage, slots, free_count>>

\* rgtp_memory_pool_destroy frees what is in the slots; the callers keep theirs.
PoolDestroy ==
  /\ stage = "ready"
  /\ heap' = heap \ Stored
  /\ slots' = EmptySlots
  /\ free_count' = 0
  /\ stage' = "none"
  /\ UNCHANGED held

PoolNext ==
  \/ PoolCreateBegin
  \/ PoolCreateFails
  \/ PoolAlloc
  \/ PoolDestroy
  \/ \E b \in Blocks : \/ PoolCreateBlock(b)
                       \/ PoolCallerMallocs(b)
                       \/ PoolFreeToSlot(b)
                       \/ PoolFreeToHeap(b)

PoolSpec == PoolInit /\ [][PoolNext]_poolVars

-----------------------------------------------------------------------------
(* Every live block is either in exactly one slot of the pool or in the      *)
(* hands of a caller, never both and never neither: rgtp_memory_pool_alloc   *)
(* empties the slot it hands out and rgtp_memory_pool_free adopts a pointer  *)
(* once, so no block is handed out twice, freed twice or leaked, even after  *)
(* blocks of malloc were adopted and blocks of the pool given to free().     *)
OneOwner ==
  /\ heap = Stored \union held
  /\ Stored \intersect held = {}
  /\ \A i, k \in SlotIds : slots[i] = slots[k] /\ slots[i] # NoBlock => i = k

=============================================================================
