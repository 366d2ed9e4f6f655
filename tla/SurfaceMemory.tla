---------------------------- MODULE SurfaceMemory ----------------------------
(***************************************************************************)
(* Who allocates and who frees the memory of a surface: rgtp_expose and    *)
(* its clean-up on failure (transport/rgtp_exposer.c, rgtp_surface.c and   *)
(* merkle/rgtp_merkle.c), growth by rgtp_expose_append_chunk               *)
(* (rgtp_streaming.c), a puller's buffers and their replacement by         *)
(* rgtp_set_receive_buffers (rgtp_embedded.c), and rgtp_destroy_surface.   *)
(*                                                                         *)
(* A block is known by the pointer that holds it.  The surface struct and  *)
(* its arrays come from cfg->allocator if there is one; everything else,   *)
(* and everything without one, from rgtp_malloc.                           *)
(***************************************************************************)
EXTENDS Naturals, Sequences

CONSTANTS
  SurfaceChunks,    \* chunk counts of new surfaces
  SurfaceMaxChunks  \* bound: chunks of an exposure that grows

ASSUME SurfaceMemoryAssumption ==
  /\ SurfaceChunks \subseteq Nat \ {0}
  /\ SurfaceMaxChunks \in Nat

VARIABLES
  surf,       \* the surface: its counters, its allocator, and in ptrs the blocks its
              \* pointers point to
  surfHeap,   \* live blocks, with the allocator each came from
  misfreed    \* history: blocks freed that were not live or not of that allocator

surfaceVars == <<surf, surfHeap, misfreed>>

Owners == {"custom", "library", "caller"}
Block(name) == <<name, 0>>
BlocksOf(name, S) == {<<name, i>> : i \in S}
Indices == 0 .. SurfaceMaxChunks

BlockNames ==
  {"surface", "chunks", "chunk_sizes", "chunk", "pt_ptrs", "pt_sizes", "tree",
   "merkle_proofs", "proof", "recv_chunks", "recv_sizes", "recv_bitmap", "buffer"}

SurfaceTypeOK ==
  /\ surf \in [kind : {"exposer", "puller"}, state : {"NONE", "ACTIVE", "DESTROYED"},
               count : Nat, base : Nat, allocator : {"custom", "library"},
               proofs : 0 .. SurfaceMaxChunks, buffers : {"own", "callers"},
               ptrs : SUBSET (BlockNames \X Indices)]
  /\ DOMAIN surfHeap \subseteq BlockNames \X Indices
  /\ \A b \in DOMAIN surfHeap : surfHeap[b] \in Owners
  /\ misfreed \subseteq BlockNames \X Indices

SurfaceInit ==
  /\ \E kind \in {"exposer", "puller"}, allocator \in {"custom", "library"} :
       surf = [kind |-> kind, state |-> "NONE", count |-> 0, base |-> 0,
               allocator |-> allocator, proofs |-> 0, buffers |-> "own",
               ptrs |-> {}]
  /\ surfHeap = << >>
  /\ misfreed = {}

-----------------------------------------------------------------------------
(* Allocation and release                                                  *)

\* h with the blocks of S added, allocated by owner.
Plus(h, S, owner) == [b \in DOMAIN h \cup S |-> IF b \in S THEN owner ELSE h[b]]
Minus(h, S) == [b \in DOMAIN h \ S |-> h[b]]

\* Blocks of S that owner's free function is wrongly given when the heap is h.
Wrong(h, S, owner) == {b \in S : b \notin DOMAIN h \/ h[b] # owner}

\* surface_alloc, surface_calloc
OwnBlocks(kind) ==
  IF kind = "exposer"
  THEN <<Block("surface"), Block("chunks"), Block("chunk_sizes")>>
  ELSE <<Block("surface"), Block("recv_chunks"), Block("recv_sizes"), Block("recv_bitmap")>>

\* rgtp_malloc calls of rgtp_expose and rgtp_merkle_build, in order
LibraryBlocks(n, proofs) ==
  [i \in 1 .. n |-> <<"chunk", i - 1>>]
  \o <<Block("pt_ptrs"), Block("pt_sizes"), Block("tree")>>
  \o (IF proofs = 0 THEN << >>
      ELSE <<Block("merkle_proofs")>> \o [i \in 1 .. n |-> <<"proof", i - 1>>])

\* Freed before rgtp_expose returns, whatever the outcome.
Temporary == {Block("pt_ptrs"), Block("pt_sizes"), Block("tree")}

FirstOf(seq, k) == {seq[i] : i \in 1 .. k}

\* What rgtp_destroy_surface frees with n chunks: what its pointers point to, and one
\* proof for each chunk if there are proofs.
Destroys(ptrs, n) ==
  ptrs \cup (IF Block("merkle_proofs") \in ptrs THEN BlocksOf("proof", 0 .. n - 1) ELSE {})

-----------------------------------------------------------------------------
(* rgtp_expose, rgtp_pull_start                                            *)

\* Proofs of a failed rgtp_merkle_build, which it frees itself.
Unpublished == {Block("merkle_proofs")} \cup BlocksOf("proof", Indices)

\* The k-th allocation fails, or an encryption or hash after k allocations: the
\* temporaries and unpublished proofs are freed by rgtp_free, the rest by
\* rgtp_destroy_surface.
CreateFails(n, proofs) ==
  LET own == OwnBlocks(surf.kind)
      lib == IF surf.kind = "exposer" THEN LibraryBlocks(n, proofs) ELSE << >> IN
  /\ surf.state = "NONE"
  /\ \E k \in 0 .. Len(own) + Len(lib) - 1 :
       LET o == IF k < Len(own) THEN k ELSE Len(own)
           made == Plus(Plus(<< >>, FirstOf(own, o), surf.allocator),
                        FirstOf(lib, k - o), "library")
           local == DOMAIN made \cap (Temporary \cup Unpublished)
           left == Minus(made, local)
           freed == Destroys(DOMAIN left, n)
       IN  /\ surfHeap' = Minus(left, freed)
           /\ misfreed' = misfreed \cup Wrong(left, freed, surf.allocator)
  /\ surf' = [surf EXCEPT !.state = "DESTROYED"]

\* Everything was allocated; the temporaries are gone.  The proof of a lone chunk has
\* no bytes and cannot be allocated.
Create(n, proofs) ==
  LET own == OwnBlocks(surf.kind)
      lib == IF surf.kind = "exposer" THEN LibraryBlocks(n, proofs) ELSE << >> IN
  /\ surf.state = "NONE"
  /\ proofs > 0 => n > 1 /\ surf.kind = "exposer"
  /\ surfHeap' = Minus(Plus(Plus(<< >>, FirstOf(own, Len(own)), surf.allocator),
                        FirstOf(lib, Len(lib)), "library"), Temporary)
  /\ surf' = [surf EXCEPT !.state = "ACTIVE", !.count = n, !.proofs = proofs,
                          !.ptrs = DOMAIN surfHeap']
  /\ UNCHANGED misfreed

-----------------------------------------------------------------------------
(* rgtp_expose_append_chunk                                                *)

Arrays == {Block("chunks"), Block("chunk_sizes")}

\* The arrays are copied into larger ones from rgtp_malloc and given to rgtp_free; the
\* new chunk then fails.
AppendArraysOnly ==
  /\ surf.kind = "exposer" /\ surf.state = "ACTIVE"
  /\ surfHeap' = Plus(surfHeap, Arrays, "library")
  /\ misfreed' = misfreed \cup Wrong(surfHeap, Arrays, "library")
  /\ UNCHANGED surf

EvictedBy(window) ==
  IF window > 0 /\ surf.count + 1 > window THEN {<<"chunk", surf.base>>} ELSE {}

\* Mutation: the pointer to the evicted chunk is not set to NULL.
AppendBlockKeepsPointer(window) ==
  LET new == <<"chunk", surf.count>> IN
  /\ surf.kind = "exposer" /\ surf.state = "ACTIVE"
  /\ surf.count < SurfaceMaxChunks
  /\ surfHeap' = Minus(Plus(surfHeap, Arrays \cup {new}, "library"), EvictedBy(window))
  /\ misfreed' = misfreed \cup Wrong(surfHeap, Arrays, "library")
  /\ surf' = [surf EXCEPT !.count = @ + 1, !.ptrs = @ \cup {new},
                          !.base = IF EvictedBy(window) # {} THEN @ + 1 ELSE @]

AppendBlock(window) ==
  LET new == <<"chunk", surf.count>> IN
  /\ surf.kind = "exposer" /\ surf.state = "ACTIVE"
  /\ surf.count < SurfaceMaxChunks
  /\ surfHeap' = Minus(Plus(surfHeap, Arrays \cup {new}, "library"), EvictedBy(window))
  /\ misfreed' = misfreed \cup Wrong(surfHeap, Arrays, "library")
                          \cup Wrong(Plus(surfHeap, {new}, "library"), EvictedBy(window), "library")
  /\ surf' = [surf EXCEPT !.count = @ + 1,
                          !.ptrs = (@ \cup {new}) \ EvictedBy(window),
                          !.base = IF EvictedBy(window) # {} THEN @ + 1 ELSE @]

-----------------------------------------------------------------------------
(* rgtp_set_receive_buffers, rgtp_destroy_surface                          *)

ReceiveArrays == {Block("recv_chunks"), Block("recv_sizes")}

\* The caller's arrays and buffers take the place of the surface's own.
SetReceiveBuffers ==
  LET buffers == BlocksOf("buffer", 0 .. surf.count - 1)
      old == ReceiveArrays \cup (buffers \cap surf.ptrs) IN
  /\ surf.kind = "puller" /\ surf.state = "ACTIVE"
  /\ misfreed' = misfreed \cup Wrong(surfHeap, old, "library")
  /\ surfHeap' = Plus(Minus(surfHeap, old), ReceiveArrays \cup buffers, "caller")
  /\ surf' = [surf EXCEPT !.buffers = "callers", !.ptrs = @ \cup buffers]

DestroySurface ==
  LET freed == Destroys(surf.ptrs, surf.count) IN
  /\ surf.state = "ACTIVE"
  /\ misfreed' = misfreed \cup Wrong(surfHeap, freed, surf.allocator)
  /\ surfHeap' = Minus(surfHeap, freed)
  /\ surf' = [surf EXCEPT !.state = "DESTROYED", !.ptrs = {}]

SurfaceNext ==
  \/ \E n \in SurfaceChunks : \E proofs \in {0, n} : CreateFails(n, proofs) \/ Create(n, proofs)
  \/ AppendArraysOnly
  \/ \E window \in 0 .. SurfaceMaxChunks : AppendBlock(window)
  \/ SetReceiveBuffers
  \/ DestroySurface

-----------------------------------------------------------------------------
(* Properties                                                              *)

\* A surface without an allocator of its own, without the caller's receive buffers and
\* without proofs for an exposure that grew.
Plain ==
  /\ surf.allocator = "library"
  /\ surf.buffers = "own"
  /\ surf.proofs \in {0, surf.count}

\* Whichever allocation, encryption or hash of rgtp_expose or rgtp_expose_append_chunk
\* fails, and after any growth and eviction, rgtp_destroy_surface and the clean-up on
\* failure free every block of a plain surface exactly once, with the free function of
\* the allocator it came from, and leave none.
FreedOnceByOwner ==
  Plain => /\ misfreed = {}
           /\ surf.state = "DESTROYED" => surfHeap = << >>
=============================================================================
