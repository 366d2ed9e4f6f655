--------------------------- MODULE MemoryPoolProofs ---------------------------
(***************************************************************************)
(* Proofs about MemoryPool for every pool size and every set of blocks.    *)
(* OneOwner is not inductive alone: while the pool is being created the    *)
(* next slot to be filled is slots[free_count], and that slot must be      *)
(* empty, which PoolFilling adds.                                          *)
(***************************************************************************)
EXTENDS MemoryPool, TLAPS

\* During rgtp_memory_pool_create the loop has filled exactly the first
\* free_count slots; without a pool there is nothing in the slots.
PoolFilling ==
  /\ stage = "creating" => /\ free_count < PoolSize
                           /\ \A i \in SlotIds : i >= free_count => slots[i] = NoBlock
  /\ stage = "none" => free_count = 0 /\ \A i \in SlotIds : slots[i] = NoBlock

PoolInv == PoolTypeOK /\ OneOwner /\ PoolFilling

\* Emptying a slot removes its block from Stored.
LEMMA StoredAfterEmptying ==
  ASSUME PoolTypeOK, OneOwner, NEW i \in SlotIds, slots[i] # NoBlock,
         slots' = [slots EXCEPT ![i] = NoBlock]
  PROVE  Stored' = Stored \ {slots[i]}
  BY DEF PoolTypeOK, OneOwner, Stored

\* Filling an empty slot adds its block.
LEMMA StoredAfterFilling ==
  ASSUME PoolTypeOK, NEW i \in SlotIds, slots[i] = NoBlock, NEW b \in Blocks,
         slots' = [slots EXCEPT ![i] = b]
  PROVE  Stored' = Stored \union {b}
  <1>1. b # NoBlock
    BY NoBlockIsNoAddress
  <1> QED
    BY <1>1 DEF PoolTypeOK, Stored

\* Empty slots store nothing.
LEMMA StoredEmpty ==
  ASSUME slots' = EmptySlots
  PROVE  Stored' = {}
  BY DEF EmptySlots, Stored

\* The pool, the callers and the heap agree on who owns each block, whatever the
\* pool's size (rgtp_memory_pool_create/alloc/free/destroy).
THEOREM PoolOwnership == PoolSpec => []OneOwner
<1>1. PoolInit => PoolInv
  <2> SUFFICES ASSUME PoolInit PROVE PoolInv
    OBVIOUS
  <2>1. Stored = {}
    BY DEF PoolInit, EmptySlots, Stored
  <2> QED
    BY <2>1, PoolAssumption DEF PoolInit, PoolInv, PoolTypeOK, OneOwner, PoolFilling, EmptySlots, SlotIds
<1>2. PoolInv /\ [PoolNext]_poolVars => PoolInv'
  <2> SUFFICES ASSUME PoolInv, [PoolNext]_poolVars PROVE PoolInv'
    OBVIOUS
  <2> USE DEF PoolInv
  <2>1. CASE PoolCreateBegin
    <3>1. Stored' = Stored
      BY <2>1 DEF PoolCreateBegin, Stored
    <3> QED
      BY <2>1, <3>1, PoolAssumption DEF PoolCreateBegin, PoolTypeOK, OneOwner, PoolFilling, SlotIds
  <2>2. ASSUME NEW b \in Blocks, PoolCreateBlock(b) PROVE PoolInv'
    <3>1. free_count \in SlotIds /\ slots[free_count] = NoBlock
      BY <2>2, PoolAssumption DEF PoolCreateBlock, PoolFilling, PoolTypeOK, SlotIds
    <3>2. Stored' = Stored \union {b}
      BY <2>2, <3>1, StoredAfterFilling DEF PoolCreateBlock
    <3>3. \A i \in SlotIds : slots[i] # b
      BY <2>2, NoBlockIsNoAddress DEF PoolCreateBlock, OneOwner, Stored
    <3>4. PoolTypeOK'
      BY <2>2, <3>1, PoolAssumption DEF PoolCreateBlock, PoolTypeOK, PoolFilling, SlotIds
    <3>5. OneOwner'
      BY <2>2, <3>1, <3>2, <3>3 DEF PoolCreateBlock, PoolTypeOK, OneOwner
    <3>6. PoolFilling'
      BY <2>2, <3>1, PoolAssumption DEF PoolCreateBlock, PoolTypeOK, PoolFilling, SlotIds
    <3> QED
      BY <3>4, <3>5, <3>6
  <2>3. CASE PoolCreateFails
    <3>1. Stored' = {}
      BY <2>3, StoredEmpty DEF PoolCreateFails
    <3> QED
      BY <2>3, <3>1, PoolAssumption
      DEF PoolCreateFails, PoolTypeOK, OneOwner, PoolFilling, EmptySlots, SlotIds
  <2>4. CASE PoolAlloc
    <3>1. PICK i \in SlotIds : /\ slots[i] # NoBlock
                               /\ held' = held \union {slots[i]}
                               /\ slots' = [slots EXCEPT ![i] = NoBlock]
      BY <2>4 DEF PoolAlloc, IsFirst, Occupied
    <3>2. Stored' = Stored \ {slots[i]}
      BY <3>1, StoredAfterEmptying
    <3>3. slots[i] \in Stored
      BY <3>1 DEF Stored
    <3>4. PoolTypeOK'
      BY <2>4, <3>1, PoolAssumption DEF PoolAlloc, PoolTypeOK
    <3>5. OneOwner'
      BY <2>4, <3>1, <3>2, <3>3 DEF PoolAlloc, PoolTypeOK, OneOwner
    <3> QED
      BY <2>4, <3>4, <3>5 DEF PoolAlloc, PoolFilling
  <2>5. ASSUME NEW b \in Blocks, PoolCallerMallocs(b) PROVE PoolInv'
    <3>1. Stored' = Stored
      BY <2>5 DEF PoolCallerMallocs, Stored
    <3> QED
      BY <2>5, <3>1 DEF PoolCallerMallocs, PoolTypeOK, OneOwner, PoolFilling
  <2>6. ASSUME NEW b \in Blocks, PoolFreeToSlot(b) PROVE PoolInv'
    <3>1. PICK i \in SlotIds : slots[i] = NoBlock /\ slots' = [slots EXCEPT ![i] = b]
      BY <2>6 DEF PoolFreeToSlot, IsFirst, Vacant
    <3>2. Stored' = Stored \union {b}
      BY <3>1, StoredAfterFilling
    <3>3. \A k \in SlotIds : slots[k] # b
      BY <2>6, NoBlockIsNoAddress DEF PoolFreeToSlot, OneOwner, Stored
    <3>4. PoolTypeOK'
      BY <2>6, <3>1, PoolAssumption DEF PoolFreeToSlot, PoolTypeOK
    <3>5. OneOwner'
      BY <2>6, <3>1, <3>2, <3>3 DEF PoolFreeToSlot, PoolTypeOK, OneOwner
    <3> QED
      BY <2>6, <3>4, <3>5 DEF PoolFreeToSlot, PoolFilling
  <2>7. ASSUME NEW b \in Blocks, PoolFreeToHeap(b) PROVE PoolInv'
    <3>1. Stored' = Stored
      BY <2>7 DEF PoolFreeToHeap, Stored
    <3> QED
      BY <2>7, <3>1 DEF PoolFreeToHeap, PoolTypeOK, OneOwner, PoolFilling
  <2>8. CASE PoolDestroy
    <3>1. Stored' = {}
      BY <2>8, StoredEmpty DEF PoolDestroy
    <3> QED
      BY <2>8, <3>1, PoolAssumption
      DEF PoolDestroy, PoolTypeOK, OneOwner, PoolFilling, EmptySlots, SlotIds
  <2>9. CASE UNCHANGED poolVars
    BY <2>9 DEF poolVars, PoolTypeOK, OneOwner, PoolFilling, Stored
  <2> QED
    BY <2>1, <2>2, <2>3, <2>4, <2>5, <2>6, <2>7, <2>8, <2>9 DEF PoolNext
<1>3. PoolInv => OneOwner
  BY DEF PoolInv
<1> QED
  BY <1>1, <1>2, <1>3, PTL DEF PoolSpec
=============================================================================
