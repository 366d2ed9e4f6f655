-------------------------- MODULE MiddlewareSample --------------------------
(***************************************************************************)
(* One sample through the middleware adapters: middleware/rgtp_dds.c,      *)
(* rgtp_ros2.c and rgtp_someip.c.  The writer puts the adapter's header    *)
(* before the payload and exposes the bytes; the reader pulls the chunks,  *)
(* appends them in the order rgtp_pull_next returns them and takes the     *)
(* header off again.                                                       *)
(*                                                                         *)
(* rgtp_expose and the pull calls are those of module Transfer: chunks     *)
(* come once each, in any order, and a call may time out or fail.          *)
(***************************************************************************)
EXTENDS Naturals, Sequences, SequencesExt, FiniteSets

CONSTANTS
  PayloadSizes,     \* lengths of a sample
  ReadSizes,        \* values of buf_size
  SampleChunk       \* bytes per chunk

VARIABLES
  sample,           \* writer: adapter, payload, exposed bytes, what the call returned
  reader            \* reader: pc, surface, buf, buf_size, pending chunks, code, out

middlewareVars == <<sample, reader>>

Adapters == {"dds", "ros2", "someip"}

\* Nothing, the CDR encapsulation header, the SOME/IP header.
HeaderBytes(adapter) == [dds |-> 0, ros2 |-> 4, someip |-> 16][adapter]

MiddlewareInit ==
  /\ sample = [adapter |-> "dds", payload |-> <<>>, exposed |-> <<>>, code |-> "none"]
  /\ reader = [pc |-> "idle", surface |-> "none", buf |-> <<>>, buf_size |-> 0, pending |-> {},
               order |-> <<>>, code |-> "none", out |-> <<>>]

-----------------------------------------------------------------------------
(* rgtp_dds_write, rgtp_ros2_publish, rgtp_someip_notify                   *)

\* The header's bytes are 0, those of the payload count from 1.
Wrapped(adapter, payload) == [i \in 1 .. HeaderBytes(adapter) |-> 0] \o payload

\* The temporary buffer or the exposure fails; rgtp_expose refuses an empty one.
WriteSample(adapter, payload, memory) ==
  LET bytes == Wrapped(adapter, payload)
      ok == memory /\ bytes # <<>>
  IN
  /\ sample.code = "none"
  /\ sample' = [adapter |-> adapter, payload |-> payload, exposed |-> IF ok THEN bytes ELSE <<>>,
                code |-> IF ok THEN "RGTP_OK" ELSE IF memory THEN "RGTP_ERR_INVALID_ARG"
                         ELSE "RGTP_ERR_NOMEM"]
  /\ UNCHANGED reader

-----------------------------------------------------------------------------
(* rgtp_dds_read, rgtp_ros2_receive, rgtp_someip_receive                   *)

ChunksOf(bytes) == 0 .. ((Len(bytes) + SampleChunk - 1) \div SampleChunk) - 1

ChunkBytes(bytes, c) ==
  SubSeq(bytes, c * SampleChunk + 1,
         IF (c + 1) * SampleChunk < Len(bytes) THEN (c + 1) * SampleChunk ELSE Len(bytes))

\* rgtp_pull_start, and the SOME/IP reader's reassembly buffer.
ReadStart(buf_size, outcome) ==
  /\ sample.code = "RGTP_OK"
  /\ reader.pc = "idle"
  /\ outcome = "RGTP_ERR_NOMEM" => sample.adapter = "someip"
  /\ reader' = [reader EXCEPT !.buf_size = buf_size, !.code = outcome,
                  !.pc = IF outcome = "RGTP_OK" THEN "pulling" ELSE "returned",
                  !.surface = CASE outcome = "RGTP_OK" -> "open"
                                [] outcome = "RGTP_ERR_NOMEM" -> "destroyed"
                                [] outcome = "RGTP_ERR_TIMEOUT" -> "none",
                  !.pending = ChunksOf(sample.exposed)]
  /\ UNCHANGED sample

\* The SOME/IP reader has room for its header beside the payload.
Room == reader.buf_size + (IF sample.adapter = "someip" THEN 16 ELSE 0)

\* Mutation: the room is compared before the chunk is counted.
FitsBefore(bytes) == Len(reader.buf) <= Room

FitsRoom(bytes) == Len(reader.buf) + Len(bytes) <= Room

\* rgtp_pull_next returns a chunk: appended wherever it belongs.
ReadChunk(c) ==
  LET bytes == ChunkBytes(sample.exposed, c) IN
  /\ reader.pc = "pulling"
  /\ c \in reader.pending
  /\ reader' = IF FitsRoom(bytes)
               THEN [reader EXCEPT !.buf = reader.buf \o bytes, !.pending = reader.pending \ {c},
                                   !.order = Append(reader.order, c)]
               ELSE [reader EXCEPT !.pc = "returned", !.surface = "destroyed",
                                   !.code = "RGTP_ERR_INVALID_ARG"]
  /\ UNCHANGED sample

Stripped(adapter, bytes) == SubSeq(bytes, HeaderBytes(adapter) + 1, Len(bytes))

\* The surface is destroyed and what has been gathered is unwrapped.
Finished(r) ==
  IF Len(r.buf) < HeaderBytes(sample.adapter)
  THEN [r EXCEPT !.pc = "returned", !.surface = "destroyed", !.code = "RGTP_ERR_TRUNCATED"]
  ELSE [r EXCEPT !.pc = "returned", !.surface = "destroyed", !.code = "RGTP_OK",
                 !.out = Stripped(sample.adapter, r.buf)]

\* rgtp_progress has reached 1.
ReadComplete ==
  /\ reader.pc = "pulling"
  /\ reader.pending = {}
  /\ reader' = Finished(reader)
  /\ UNCHANGED sample

\* A timeout leaves the loop, and the call goes on with what it has.
ReadTimeout ==
  /\ reader.pc = "pulling"
  /\ reader.pending # {}
  /\ reader' = Finished(reader)
  /\ UNCHANGED sample

\* Any other error of rgtp_pull_next: a repeated or foreign datagram ends the read.
ReadFails ==
  /\ reader.pc = "pulling"
  /\ reader.pending # {}
  /\ reader' = [reader EXCEPT !.pc = "returned", !.surface = "destroyed",
                              !.code = "RGTP_ERR_INVALID_ARG"]
  /\ UNCHANGED sample

ReaderStep ==
  \/ \E c \in reader.pending : ReadChunk(c)
  \/ ReadComplete
  \/ ReadTimeout
  \/ ReadFails

MiddlewareNext ==
  \/ \E adapter \in Adapters, len \in PayloadSizes, memory \in BOOLEAN :
       WriteSample(adapter, [i \in 1 .. len |-> i], memory)
  \/ \E buf_size \in ReadSizes, outcome \in {"RGTP_OK", "RGTP_ERR_TIMEOUT", "RGTP_ERR_NOMEM"} :
       ReadStart(buf_size, outcome)
  \/ ReaderStep

MiddlewareSpec == MiddlewareInit /\ [][MiddlewareNext]_middlewareVars /\ WF_middlewareVars(ReaderStep)

MiddlewareTypeOK ==
  /\ sample.adapter \in Adapters
  /\ reader.pc \in {"idle", "pulling", "returned"}
  /\ reader.surface \in {"none", "open", "destroyed"}

-----------------------------------------------------------------------------
(* Properties                                                              *)

\* A read that returned RGTP_OK without a timeout, from chunks that came in order, gives
\* the payload that was written: wrapping and stripping agree in each adapter.
\* No adapter writes more than buf_size bytes to the caller, timeouts included, though
\* the ROS 2 reader gathers the header in the caller's own buffer.
SampleReadBack ==
  /\ reader.code = "RGTP_OK" /\ reader.pc = "returned" /\ reader.pending = {}
       /\ (\A i \in DOMAIN reader.order : reader.order[i] = i - 1)
         => reader.out = sample.payload
  /\ Len(reader.out) <= reader.buf_size
  /\ Len(reader.buf) <= Room

\* A read that has begun to pull returns, whatever the order of the chunks and wherever a
\* timeout or an error cuts it off.
ReadReturns == (reader.pc = "pulling") ~> (reader.pc = "returned")
=============================================================================
