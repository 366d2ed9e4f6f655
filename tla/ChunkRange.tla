----------------------------- MODULE ChunkRange -----------------------------
(***************************************************************************)
(* How an exposure is cut into chunks (rgtp_expose, grown by               *)
(* rgtp_expose_append_chunk) and which of them a byte range needs          *)
(* (rgtp_compute_chunk_range, transport/rgtp_streaming.c section 11.2).    *)
(***************************************************************************)
EXTENDS Naturals, Sequences

LOCAL INSTANCE Functions
LOCAL INSTANCE FiniteSetsExt

CONSTANTS
  SIZE_RANGE,     \* 2^64, where offsets and lengths wrap
  INDEX_RANGE,    \* 2^32, to which a quotient is cut
  ChunkSizes,     \* chunk_size
  TotalSizes,     \* bytes given to rgtp_expose
  AppendSizes,    \* bytes appended as one chunk
  MaxPieces       \* bound: chunks

ASSUME ChunkRangeAssumption ==
  /\ SIZE_RANGE \in Nat \ {0}
  /\ INDEX_RANGE \in Nat \ {0}
  /\ ChunkSizes \subseteq Nat \ {0}
  /\ TotalSizes \subseteq Nat \ {0}
  /\ AppendSizes \subseteq Nat \ {0}
  /\ MaxPieces \in Nat

VARIABLES
  exposure,   \* chunk_size and the plaintext length of each chunk
  asked       \* the last range asked for and the answer

rangeVars == <<exposure, asked>>

NotAsked == [code |-> "NOT_ASKED"]

\* rgtp_expose: full chunks and what is left
Pieces(total, size) ==
  LET n == (total + size - 1) \div size
  IN  [i \in 1 .. n |-> Min({size, total - (i - 1) * size})]

RangeInit ==
  \E total \in TotalSizes, size \in ChunkSizes :
    /\ exposure = [chunk_size |-> size, lens |-> Pieces(total, size)]
    /\ asked = NotAsked

\* rgtp_expose_append_chunk: one more chunk, of any length
AppendPiece(len) ==
  /\ asked = NotAsked
  /\ Len(exposure.lens) < MaxPieces
  /\ exposure' = [exposure EXCEPT !.lens = Append(@, len)]
  /\ UNCHANGED asked

\* Mutation: the byte after the range counts as part of it.
RangeEndExclusive(offset, length) == (offset + length) % SIZE_RANGE

RangeEnd(offset, length) == (offset + length + SIZE_RANGE - 1) % SIZE_RANGE

\* rgtp_compute_chunk_range
Answer(offset, length) ==
  LET count == Len(exposure.lens)
      fc == (offset \div exposure.chunk_size) % INDEX_RANGE
      lc == (RangeEnd(offset, length) \div exposure.chunk_size) % INDEX_RANGE
  IN  IF length = 0 \/ fc >= count
      THEN [code |-> "RGTP_ERR_INVALID_ARG", offset |-> offset, length |-> length]
      ELSE [code |-> "RGTP_OK", offset |-> offset, length |-> length,
            first |-> fc, last |-> Min({lc, count - 1})]

\* One question per layout; the function has no state.
AskRange(offset, length) ==
  /\ asked = NotAsked
  /\ asked' = Answer(offset, length)
  /\ UNCHANGED exposure

RangeNext ==
  \/ \E len \in AppendSizes : AppendPiece(len)
  \/ \E offset, length \in 0 .. SIZE_RANGE - 1 : AskRange(offset, length)

-----------------------------------------------------------------------------
(* Properties                                                              *)

\* Byte positions of chunk i, counted from 0.
BytesBefore(i) == SumFunctionOnSet(exposure.lens, 1 .. i)

\* Chunks with a byte in offset .. offset + length - 1.
Covering(offset, length) ==
  {i \in 0 .. Len(exposure.lens) - 1 :
     BytesBefore(i) < offset + length /\ offset < BytesBefore(i + 1)}

\* Every chunk but the last is full, and the last no longer than that.
EvenlyCut ==
  \A i \in DOMAIN exposure.lens :
    /\ exposure.lens[i] <= exposure.chunk_size
    /\ i < Len(exposure.lens) => exposure.lens[i] = exposure.chunk_size

\* "Compute the minimal set of chunk indices covering byte range" (rgtp_streaming.c):
\* what rgtp_compute_chunk_range answers is exactly the chunks with a byte of the
\* range, and it refuses exactly the ranges that have none, as long as the exposure is
\* evenly cut, as rgtp_expose leaves it, and the range does not wrap around in 64 bits
\* nor its last chunk in 32.  A range that begins in the last chunk's cut-off part is
\* the exception: it is answered with that chunk.
RangeCovers ==
  /\ EvenlyCut
  /\ asked # NotAsked
  /\ asked.length > 0
  /\ asked.offset + asked.length <= SIZE_RANGE
  /\ (asked.offset + asked.length - 1) \div exposure.chunk_size < INDEX_RANGE
  => LET needed == Covering(asked.offset, asked.length)
         count  == Len(exposure.lens)
     IN  IF asked.offset >= count * exposure.chunk_size
         THEN asked.code = "RGTP_ERR_INVALID_ARG" /\ needed = {}
         ELSE /\ asked.code = "RGTP_OK"
              /\ asked.first .. asked.last =
                   IF asked.offset < BytesBefore(count) THEN needed ELSE {count - 1}
=============================================================================
