--------------------------- MODULE SlidingExposure ---------------------------
(***************************************************************************)
(* A sliding-window exposure: rgtp_expose_append_chunk adds chunks to an   *)
(* exposure made by rgtp_expose and evicts old ones                        *)
(* (transport/rgtp_streaming.c section 11.1), while rgtp_poll serves it    *)
(* (transport/rgtp_exposer.c) and until rgtp_destroy_surface frees it      *)
(* (transport/rgtp_surface.c).                                             *)
(*                                                                         *)
(* The chunk store is the set of indices whose chunks[] entry is not NULL. *)
(* Plaintext lengths and total_size, which only the Manifest repeats, are  *)
(* left out.  A request within the rate limit is assumed; Transfer and     *)
(* RateLimiter have the others.                                            *)
(***************************************************************************)
EXTENDS Naturals, FiniteSets

CONSTANTS
  InitialCounts,  \* chunks of the data first given to rgtp_expose
  Windows,        \* window_size arguments of the appends; 0 keeps everything
  PullWindows,    \* window_size values of Pull_Requests
  Proofs,         \* values of cfg->merkle_proofs
  MaxChunks       \* bound: chunks appended and exposed altogether

ASSUME SlidingExposureAssumption ==
  /\ InitialCounts \subseteq Nat \ {0}
  /\ Windows \subseteq Nat
  /\ PullWindows \subseteq Nat
  /\ Proofs \subseteq {"none", "proofs"}
  /\ MaxChunks \in Nat

VARIABLES
  state,         \* "ACTIVE" or "DESTROYED"
  chunk_count,
  window_base,   \* the next chunk to evict
  chunks,        \* indices with a stored ciphertext
  proof_count,   \* entries merkle_proofs was built with, 0 if there are none
  lastCall,      \* the last call, its window and the chunks it sent
  proofs_read    \* history: indices at which merkle_proofs was accessed

slidingVars == <<state, chunk_count, window_base, chunks, proof_count, lastCall, proofs_read>>

Wider(a, b) == IF a > b THEN a ELSE b

Calls == {"expose", "append", "append_failed", "poll", "destroy"}
Call(name, window, sent) == [call |-> name, window |-> window, sent |-> sent]

SlidingTypeOK ==
  /\ state \in {"ACTIVE", "DESTROYED"}
  /\ chunk_count \in Nat
  /\ window_base \in Nat
  /\ chunks \subseteq 0 .. chunk_count - 1
  /\ proof_count \in 0 .. chunk_count
  /\ lastCall \in [call : Calls, window : Nat, sent : SUBSET Nat]
  /\ proofs_read \subseteq Nat

\* rgtp_expose has returned RGTP_OK.  With proofs there are two chunks or more: the
\* proof of a lone chunk has length 0, which cannot be allocated.
SlidingInit ==
  \E n \in InitialCounts, proofs \in Proofs :
    /\ proofs = "proofs" => n > 1
    /\ state = "ACTIVE"
    /\ chunk_count = n
    /\ window_base = 0
    /\ chunks = 0 .. n - 1
    /\ proof_count = IF proofs = "proofs" THEN n ELSE 0
    /\ lastCall = Call("expose", 0, {})
    /\ proofs_read = {}

-----------------------------------------------------------------------------
(* rgtp_expose_append_chunk                                                *)

\* Mutation: the chunk is counted before it is encrypted.
AppendFailsCounted ==
  /\ state = "ACTIVE"
  /\ chunk_count < MaxChunks
  /\ chunk_count' = chunk_count + 1
  /\ lastCall' = Call("append_failed", 0, {})
  /\ UNCHANGED <<state, window_base, chunks, proof_count, proofs_read>>

\* Out of memory, or encryption fails: the store is as before.
AppendFails ==
  /\ state = "ACTIVE"
  /\ lastCall' = Call("append_failed", 0, {})
  /\ UNCHANGED <<state, chunk_count, window_base, chunks, proof_count, proofs_read>>

\* The chunks ever exposed, with the new one, are more than the window.
Evicts(window) == window > 0 /\ chunk_count + 1 > window

\* The new chunk is stored, and at most one old chunk evicted.
AppendChunk(window) ==
  /\ state = "ACTIVE"
  /\ chunk_count < MaxChunks
  /\ chunk_count' = chunk_count + 1
  /\ IF Evicts(window)
     THEN /\ chunks' = (chunks \cup {chunk_count}) \ {window_base}
          /\ window_base' = window_base + 1
     ELSE /\ chunks' = chunks \cup {chunk_count}
          /\ UNCHANGED window_base
  /\ lastCall' = Call("append", window, {})
  /\ UNCHANGED <<state, proof_count, proofs_read>>

-----------------------------------------------------------------------------
(* rgtp_poll on a Pull_Request, rgtp_destroy_surface                       *)

ReadProofs(indices) ==
  proofs_read' = IF proof_count > 0 THEN proofs_read \cup indices ELSE proofs_read

\* The chunks still stored among the first window_size of the exposure.
Sent(window) == {i \in chunks : i < Wider(window, 1)}

Poll(window) ==
  /\ state = "ACTIVE"
  /\ lastCall' = Call("poll", Wider(window, 1), Sent(window))
  /\ ReadProofs(Sent(window))
  /\ UNCHANGED <<state, chunk_count, window_base, chunks, proof_count>>

\* Frees the chunks and one proof for each index below chunk_count.
Destroy ==
  /\ state = "ACTIVE"
  /\ state' = "DESTROYED"
  /\ chunks' = {}
  /\ lastCall' = Call("destroy", 0, {})
  /\ ReadProofs(0 .. chunk_count - 1)
  /\ UNCHANGED <<chunk_count, window_base, proof_count>>

SlidingNext ==
  \/ AppendFails
  \/ \E window \in Windows : AppendChunk(window)
  \/ \E window \in PullWindows : Poll(window)
  \/ Destroy

SlidingSpec == SlidingInit /\ [][SlidingNext]_slidingVars

-----------------------------------------------------------------------------
(* Properties                                                              *)

\* rgtp_expose_append_chunk keeps the store contiguous: exactly the chunks from
\* window_base on, the newest always among them, however the window argument changes
\* from call to call and whichever calls fail.  How many they are is not what the window
\* argument says: an append evicts one chunk at most, and compares the window with the
\* chunks ever exposed, not with those held.
StoreIsWindow ==
  state = "ACTIVE" => window_base < chunk_count /\ chunks = window_base .. chunk_count - 1

\* A pull for at least chunk_count chunks is answered with the whole store and with
\* nothing evicted; rgtp_poll looks at indices from 0 on, so that a pull for no more
\* than window_base chunks is answered without any.
WholeStoreServed ==
  lastCall.call = "poll" /\ lastCall.window >= chunk_count =>
    lastCall.sent = window_base .. chunk_count - 1

\* "An exposer surface created by rgtp_expose()" may be appended to
\* (rgtp_streaming.c), one with proofs as well: rgtp_poll and rgtp_destroy_surface
\* access only the proofs that were built.
ProofsInBounds ==
  proofs_read \subseteq 0 .. proof_count - 1
=============================================================================
