----------------------------- MODULE CcsdsLink -----------------------------
(***************************************************************************)
(* The CCSDS Space Packet transport of io/transport_ccsds.c: a packet that *)
(* fits one frame travels as a standalone frame, a longer one as several   *)
(* fragments that the receiver puts together again.                        *)
(*                                                                         *)
(* A packet is its number and length; a frame carries the bytes of one     *)
(* packet from an offset on.  The device is a byte stream: a write or a    *)
(* read may stop short, and the receiver, which reads a header and then as *)
(* many bytes as it announces, is then out of step with the frames: what   *)
(* it takes for headers may be anything, until it is back by chance.  The  *)
(* device may also lose whole frames, and other applications share it.     *)
(***************************************************************************)
EXTENDS Naturals, Sequences, SequencesExt

CONSTANTS
  CcsdsLens,          \* packet lengths
  CCSDS_MAX_FRAME_DATA,
  SEQ_COUNTS,         \* 2^14 in the code
  LEN_RANGE,          \* values of the 16-bit length: 65536 in the code
  REASM_EXTRA,        \* room added to the first fragment: 65536 in the code
  RecvSizes,          \* sizes of the receiver's buffer
  MaxCcsdsSends,      \* bound: packets sent
  MaxLinkFaults       \* bound: lost frames, short or failed writes, short reads,
                      \* frames of others, refused allocations

VARIABLES
  seq_count,          \* sender: 14-bit sequence counter
  device,             \* frames written and not yet read
  linkStep,           \* receiver: "in" step with the frames, "out" of it, "back" again
  reasm,              \* receiver: active, parts, len, alloc and expected_seq
  sentPackets,        \* history: lengths of the packets given to send, in order
  received,           \* history: the pieces each successful receive returned, where they
                      \* are of packets that were sent
  tooBig,             \* history: packets dropped because the caller's buffer was too small
  lostFrames,         \* history: frames the device lost or never got
  linkFaults

ccsdsVars ==
  <<seq_count, device, linkStep, reasm, sentPackets, received, tooBig, lostFrames, linkFaults>>

CcsdsInit ==
  /\ seq_count = 0
  /\ device = <<>>
  /\ linkStep = "in"
  /\ reasm = [active |-> FALSE, parts |-> <<>>, len |-> 0, alloc |-> 0, expected_seq |-> 0]
  /\ sentPackets = <<>>
  /\ received = {}
  /\ tooBig = {}
  /\ lostFrames = {}
  /\ linkFaults = 0

-----------------------------------------------------------------------------
(* build_ccsds_hdr, parse_ccsds_hdr: the length field is one less than the *)
(* number of data octets, in 16 bits: the largest one parses to 0.         *)

HeaderLen(data_len) == IF data_len > 0 THEN data_len - 1 ELSE 0
ParsedLen(ccsds_len) == (ccsds_len + 1) % LEN_RANGE

-----------------------------------------------------------------------------
(* ccsds_send_packet                                                       *)

SmallerOf(a, b) == IF a < b THEN a ELSE b

\* The flag for the last fragment is chosen after that fragment has been written.
SeqFlags(len, i) ==
  IF i > 1 THEN "CONTINUE" ELSE IF len <= CCSDS_MAX_FRAME_DATA THEN "STANDALONE" ELSE "FIRST"

\* All frames of a packet carry the same count.
Frames(packet, len) ==
  [i \in 1 .. ((len + CCSDS_MAX_FRAME_DATA - 1) \div CCSDS_MAX_FRAME_DATA) |->
    [apid |-> "RGTP", whole |-> TRUE, seq_flags |-> SeqFlags(len, i), seq_count |-> seq_count, packet |-> packet,
     from |-> (i - 1) * CCSDS_MAX_FRAME_DATA,
     ccsds_len |-> HeaderLen(SmallerOf(CCSDS_MAX_FRAME_DATA, len - (i - 1) * CCSDS_MAX_FRAME_DATA))]]

\* The count goes on once all frames are out.  A short write counts as a whole one, and
\* leaves a part of its frame on the device.
CcsdsSend(len) ==
  LET frames == Frames(Len(sentPackets) + 1, len) IN
  /\ Len(sentPackets) < MaxCcsdsSends
  /\ \/ device' = device \o frames /\ UNCHANGED linkFaults
     \/ /\ linkFaults < MaxLinkFaults
        /\ linkFaults' = linkFaults + 1
        /\ \E i \in DOMAIN frames : device' = device \o [frames EXCEPT ![i].whole = FALSE]
  /\ sentPackets' = Append(sentPackets, len)
  /\ seq_count' = (seq_count + 1) % SEQ_COUNTS
  /\ UNCHANGED <<linkStep, reasm, received, tooBig, lostFrames>>

\* A write fails: the frames before it are out, and the count is used again.
CcsdsSendFails(len, written) ==
  LET frames == Frames(Len(sentPackets) + 1, len) IN
  /\ Len(sentPackets) < MaxCcsdsSends
  /\ linkFaults < MaxLinkFaults
  /\ written < Len(frames)
  /\ device' = device \o SubSeq(frames, 1, written)
  /\ sentPackets' = Append(sentPackets, len)
  /\ linkFaults' = linkFaults + 1
  /\ lostFrames' = lostFrames \cup {frames[i] : i \in written + 1 .. Len(frames)}
  /\ UNCHANGED <<seq_count, linkStep, reasm, received, tooBig>>

\* The device loses the frame at its head.
FrameLost ==
  /\ device # <<>>
  /\ linkStep # "out"
  /\ linkFaults < MaxLinkFaults
  /\ linkFaults' = linkFaults + 1
  /\ lostFrames' = lostFrames \cup {Head(device)}
  /\ device' = Tail(device)
  /\ UNCHANGED <<seq_count, linkStep, reasm, sentPackets, received, tooBig>>

\* What a header can hold.
Headers == [apid : {"RGTP", "other"}, whole : {TRUE}, packet : {0}, from : {0},
            seq_flags : {"STANDALONE", "FIRST", "CONTINUE", "LAST"},
            seq_count : 0 .. SEQ_COUNTS - 1, ccsds_len : 0 .. LEN_RANGE - 1]

\* Another application writes a frame of its own, of any length.
OtherFrame ==
  /\ linkFaults < MaxLinkFaults
  /\ linkFaults' = linkFaults + 1
  /\ \E h \in Headers : h.apid = "other" /\ h.seq_count = 0 /\ device' = Append(device, h)
  /\ UNCHANGED <<seq_count, linkStep, reasm, sentPackets, received, tooBig, lostFrames>>

-----------------------------------------------------------------------------
(* ccsds_recv_packet: a header and its data are read by each call          *)

data_len(frame) == ParsedLen(frame.ccsds_len)

\* The bytes of a frame; no piece when there are none.
FramePieces(frame) ==
  IF data_len(frame) = 0 THEN <<>>
  ELSE <<[packet |-> frame.packet, from |-> frame.from, len |-> data_len(frame)]>>

\* history of what a receive returns or drops
Returned(pieces) ==
  IF \A i \in DOMAIN pieces : pieces[i].packet # 0 THEN received \cup {pieces} ELSE received
Dropped(frame) == IF frame.packet # 0 THEN tooBig \cup {frame.packet} ELSE tooBig

OutOfStep == linkStep = "out" \/ (device # <<>> /\ ~Head(device).whole)

\* The header and data read are those of the next frame, or, out of step, anything; a
\* read that ends at the end of a frame is back in step.
Readable == IF device = <<>> THEN {} ELSE IF OutOfStep THEN Headers ELSE {Head(device)}

ReadsFrame ==
  /\ IF OutOfStep
     THEN \E n \in 0 .. Len(device) :
            /\ device' = SubSeq(device, n + 1, Len(device))
            /\ linkStep' \in (IF n = 0 THEN {"out"} ELSE {"out", "back"})
     ELSE device' = Tail(device) /\ UNCHANGED linkStep
  /\ UNCHANGED <<seq_count, sentPackets, lostFrames>>

\* A short read of the header, of the data or of data to skip: -1, and the bytes read
\* are gone.
ReadShort ==
  /\ device # <<>>
  /\ linkFaults < MaxLinkFaults
  /\ linkFaults' = linkFaults + 1
  /\ linkStep' = "out"
  /\ UNCHANGED <<seq_count, device, reasm, sentPackets, received, tooBig, lostFrames>>

\* A frame of another application: its data are skipped.
RecvOther(frame) ==
  /\ frame.apid # "RGTP"
  /\ ReadsFrame
  /\ UNCHANGED <<reasm, received, tooBig, linkFaults>>

\* Mutation: a standalone packet waits for the reassembly in progress.
RecvStandaloneWaits(frame, size) ==
  /\ frame.apid = "RGTP"
  /\ frame.seq_flags = "STANDALONE"
  /\ ReadsFrame
  /\ IF data_len(frame) > size THEN tooBig' = Dropped(frame) /\ UNCHANGED received
     ELSE /\ received' = IF reasm.active THEN received ELSE Returned(FramePieces(frame))
          /\ UNCHANGED tooBig
  /\ UNCHANGED <<reasm, linkFaults>>

\* Delivered at once, also while a reassembly is in progress.
RecvStandalone(frame, size) ==
  /\ frame.apid = "RGTP"
  /\ frame.seq_flags = "STANDALONE"
  /\ ReadsFrame
  /\ IF data_len(frame) > size THEN tooBig' = Dropped(frame) /\ UNCHANGED received
     ELSE received' = Returned(FramePieces(frame)) /\ UNCHANGED tooBig
  /\ UNCHANGED <<reasm, linkFaults>>

IsFragment(frame) == frame.apid = "RGTP" /\ frame.seq_flags # "STANDALONE"

\* -2: no reassembly to continue, or the count is not the expected one.  The
\* reassembly in progress stays as it is.
Refuses(frame) ==
  IF reasm.active THEN frame.seq_count # reasm.expected_seq ELSE frame.seq_flags # "FIRST"

RecvRefused(frame) ==
  /\ IsFragment(frame)
  /\ Refuses(frame)
  /\ ReadsFrame
  /\ UNCHANGED <<reasm, received, tooBig, linkFaults>>

\* The buffer cannot be grown: the reassembly has begun all the same.
RecvNoMemory(frame) ==
  /\ IsFragment(frame)
  /\ ~Refuses(frame)
  /\ ~reasm.active
  /\ reasm.alloc < data_len(frame) + REASM_EXTRA
  /\ linkFaults < MaxLinkFaults
  /\ linkFaults' = linkFaults + 1
  /\ ReadsFrame
  /\ reasm' = [reasm EXCEPT !.active = TRUE, !.parts = <<>>, !.len = 0]
  /\ UNCHANGED <<received, tooBig>>

\* Mutation: the room left in the buffer is not checked.
FitsAlways(r, frame) == TRUE

Fits(r, frame) == r.len + data_len(frame) <= r.alloc

RecvFragment(frame, size) ==
  LET began == [reasm EXCEPT !.active = TRUE, !.parts = <<>>, !.len = 0,
                  !.alloc = IF reasm.alloc < data_len(frame) + REASM_EXTRA
                            THEN data_len(frame) + REASM_EXTRA ELSE reasm.alloc]
      r == IF reasm.active THEN reasm ELSE began
      grown == [r EXCEPT !.parts = r.parts \o FramePieces(frame), !.len = r.len + data_len(frame),
                         !.expected_seq = (frame.seq_count + 1) % SEQ_COUNTS]
      last == Fits(r, frame) /\ frame.seq_flags = "LAST"
  IN
  /\ IsFragment(frame)
  /\ ~Refuses(frame)
  /\ ReadsFrame
  /\ reasm' = IF ~Fits(r, frame) THEN r
              ELSE IF last /\ grown.len <= size
                   THEN [grown EXCEPT !.active = FALSE, !.parts = <<>>, !.len = 0]
              ELSE grown
  /\ received' = IF last /\ grown.len <= size THEN Returned(grown.parts) ELSE received
  /\ tooBig' = IF last /\ grown.len > size THEN Dropped(frame) ELSE tooBig
  /\ UNCHANGED linkFaults

-----------------------------------------------------------------------------
CcsdsNext ==
  \/ \E len \in CcsdsLens : CcsdsSend(len) \/ \E written \in 0 .. 2 : CcsdsSendFails(len, written)
  \/ FrameLost
  \/ OtherFrame
  \/ ReadShort
  \/ \E frame \in Readable :
       \/ RecvOther(frame) \/ RecvRefused(frame) \/ RecvNoMemory(frame)
       \/ \E size \in RecvSizes : RecvStandalone(frame, size) \/ RecvFragment(frame, size)

CcsdsSpec == CcsdsInit /\ [][CcsdsNext]_ccsdsVars

CcsdsTypeOK ==
  /\ seq_count \in 0 .. SEQ_COUNTS - 1
  /\ reasm.expected_seq \in 0 .. SEQ_COUNTS - 1
  /\ reasm.active \in BOOLEAN

-----------------------------------------------------------------------------
(* Properties                                                              *)

LostPackets == {f.packet : f \in lostFrames}
Pending == {device[i].packet : i \in DOMAIN device}

\* The packets whose frames have all been read, in step and with room in the caller's buffer.
Arrived == DOMAIN sentPackets \ (LostPackets \cup Pending \cup tooBig)

\* pieces are the bytes of packet p, from the first to the last.
WholePacket(pieces, p) ==
  /\ pieces # <<>>
  /\ \A i \in DOMAIN pieces :
       /\ pieces[i].packet = p
       /\ pieces[i].from = FoldLeft(LAMBDA n, piece : n + piece.len, 0, SubSeq(pieces, 1, i - 1))
  /\ FoldLeft(LAMBDA n, piece : n + piece.len, 0, pieces) = sentPackets[p]

HandedOver(p) == \E pieces \in received : WholePacket(pieces, p)

\* As long as the receiver is in step with the frames, ccsds_recv_packet hands over, whole,
\* every packet that fits one frame: no reassembly that waits for a fragment, no frame
\* lost and no frame of another application holds one up.
StandaloneHandedOver ==
  linkStep = "in" =>
    \A p \in Arrived : sentPackets[p] <= CCSDS_MAX_FRAME_DATA => HandedOver(p)

\* On a link without faults every packet is handed over, whole: the comments of
\* transport_ccsds.c say that large packets are fragmented across frames and that a
\* receive returns the packet that was reassembled.
PacketsHandedOver == linkFaults = 0 => \A p \in Arrived : HandedOver(p)

\* The reassembly buffer is never filled past its size, also when first fragments of
\* several packets pile up in it because no last fragment ever ends a reassembly, and
\* whatever a receiver out of step takes for headers.
ReassemblyFits ==
  /\ reasm.len <= reasm.alloc
  /\ reasm.len = FoldLeft(LAMBDA n, piece : n + piece.len, 0, reasm.parts)
=============================================================================
