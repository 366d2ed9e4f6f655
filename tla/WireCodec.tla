----------------------------- MODULE WireCodec -----------------------------
(***************************************************************************)
(* The wire format: wire/rgtp_packet.c writes the eight packet types, a    *)
(* datagram carries the bytes, wire/rgtp_parser.c reads them back.  The    *)
(* field offsets of the two files are translated separately: the writer's  *)
(* count from the start of the packet, the reader's from the body after    *)
(* the four bytes of the common header.                                    *)
(*                                                                         *)
(* A packet is a type, its fixed fields, and what follows them: the        *)
(* Merkle proof, the payload, or the chunk indices of a NAK.  A u64 is the *)
(* pair of its 32-bit halves.                                              *)
(***************************************************************************)
EXTENDS Naturals, Integers, Sequences, SequencesExt

CONSTANTS
  HostOrder,        \* byte order of the receiving host: "little" or "big"
  PayloadLens,      \* payload sizes
  BufSizes,         \* sizes of the send buffer
  MAX_LEN,          \* longest packet: 65535 in the code
  ChunkCounts       \* values of manifest_chunk_count

VARIABLE wire       \* one packet: step, packet, bytes, received, damaged, code, parsed

wireVars == <<wire>>

VERSION == 1
HEADER == 4
Types == <<"PULL_REQUEST", "MANIFEST", "CHUNK_DATA", "CHUNK_DATA_WITH_PROOF",
           "FEC_PARITY", "NAK", "RATE_REPORT", "KEEPALIVE">>
TypeNames == {Types[i] : i \in 1 .. 8}
TypeByte(t) == CHOOSE i \in 1 .. 8 : Types[i] = t

-----------------------------------------------------------------------------
(* write_u16_be and its like, and their inverses                           *)

Width(kind) == [u8 |-> 1, u16 |-> 2, u32 |-> 4, u64 |-> 8, id |-> 16, hash |-> 32][kind]

BigEndian(v, w) == [i \in 1 .. w |-> (v \div 256^(w - i)) % 256]

ToBytes(kind, v) ==
  CASE kind \in {"u8", "u16", "u32"} -> BigEndian(v, Width(kind))
    [] kind = "u64" -> BigEndian(v[1], 4) \o BigEndian(v[2], 4)
    [] kind \in {"id", "hash"} -> v

Number(bytes) == FoldLeft(LAMBDA acc, b : 256 * acc + b, 0, bytes)

FromBytes(kind, bytes) ==
  CASE kind \in {"u8", "u16", "u32"} -> Number(bytes)
    [] kind = "u64" -> <<Number(SubSeq(bytes, 1, 4)), Number(SubSeq(bytes, 5, 8))>>
    [] kind \in {"id", "hash"} -> bytes

\* A uint32_t read straight from memory.
HostNumber(bytes) == Number(IF HostOrder = "big" THEN bytes ELSE Reverse(bytes))

-----------------------------------------------------------------------------
(* rgtp_packet.c: name, kind and offset of each field                      *)

WritePullRequest ==
  <<<<"exposure_id", "id", 4>>, <<"window_size", "u32", 20>>, <<"loss_rate_q16", "u32", 24>>,
    <<"flags", "u32", 28>>, <<"version_min", "u16", 32>>, <<"version_max", "u16", 34>>>>

WriteManifest ==
  <<<<"exposure_id", "id", 4>>, <<"total_size", "u64", 20>>, <<"chunk_count", "u32", 28>>,
    <<"chunk_size", "u32", 32>>, <<"merkle_root", "hash", 36>>, <<"fec_n", "u8", 68>>,
    <<"fec_k", "u8", 69>>, <<"flags", "u16", 70>>>>

WriteChunkData == <<<<"exposure_id", "id", 4>>, <<"chunk_index", "u32", 20>>>>

WriteChunkWithProof ==
  <<<<"exposure_id", "id", 4>>, <<"chunk_index", "u32", 20>>, <<"proof_depth", "u8", 24>>>>

WriteFecParity ==
  <<<<"exposure_id", "id", 4>>, <<"block_index", "u32", 20>>, <<"parity_index", "u8", 24>>,
    <<"fec_n", "u8", 25>>, <<"fec_k", "u8", 26>>, <<"reserved", "u8", 27>>>>

\* The two reserved bytes are written as zeroes.
WriteNak ==
  <<<<"exposure_id", "id", 4>>, <<"nak_count", "u16", 20>>, <<"zeroes", "u16", 22>>>>

\* Mutation: the reserved word is forgotten before the timestamp.
WriteRateReportPacked ==
  <<<<"exposure_id", "id", 4>>, <<"rtt_us", "u32", 20>>, <<"loss_rate_q16", "u32", 24>>,
    <<"window_size", "u32", 28>>, <<"reserved", "u32", 40>>, <<"timestamp_us", "u64", 32>>>>

WriteRateReport ==
  <<<<"exposure_id", "id", 4>>, <<"rtt_us", "u32", 20>>, <<"loss_rate_q16", "u32", 24>>,
    <<"window_size", "u32", 28>>, <<"reserved", "u32", 32>>, <<"timestamp_us", "u64", 36>>>>

WriteKeepalive ==
  <<<<"exposure_id", "id", 4>>, <<"timestamp_us", "u64", 20>>, <<"reserved", "u32", 28>>>>

Written(t) ==
  <<WritePullRequest, WriteManifest, WriteChunkData, WriteChunkWithProof, WriteFecParity,
    WriteNak, WriteRateReport, WriteKeepalive>>[TypeByte(t)]

WrittenFixed(t) == <<36, 72, 24, 25, 28, 24, 44, 32>>[TypeByte(t)]

\* What follows the fixed fields.
WrittenTail(p) ==
  p.proof \o p.payload \o FlattenSeq([i \in DOMAIN p.indices |-> BigEndian(p.indices[i], 4)])

\* memcpy(buf + off, bytes).
Write(buf, off, bytes) ==
  [i \in DOMAIN buf |-> IF i - off \in DOMAIN bytes THEN bytes[i - off] ELSE buf[i]]

PacketLen(p) == WrittenFixed(p.type) + Len(WrittenTail(p))

\* The buffer holds old bytes where the serializer writes nothing.
Serialized(p) ==
  LET len == PacketLen(p)
      header == Write([i \in 1 .. len |-> 238], 0, <<VERSION, TypeByte(p.type)>> \o BigEndian(len, 2))
      fields == FoldLeft(LAMBDA buf, f : Write(buf, f[3], ToBytes(f[2], p.fields[f[1]])),
                         header, Written(p.type))
  IN  Write(fields, WrittenFixed(p.type), WrittenTail(p))

-----------------------------------------------------------------------------
(* rgtp_parser.c: name, kind and offset in the body of each field          *)

ReadPullRequest ==
  <<<<"exposure_id", "id", 0>>, <<"window_size", "u32", 16>>, <<"loss_rate_q16", "u32", 20>>,
    <<"flags", "u32", 24>>, <<"version_min", "u16", 28>>, <<"version_max", "u16", 30>>>>

ReadManifest ==
  <<<<"exposure_id", "id", 0>>, <<"total_size", "u64", 16>>, <<"chunk_count", "u32", 24>>,
    <<"chunk_size", "u32", 28>>, <<"merkle_root", "hash", 32>>, <<"fec_n", "u8", 64>>,
    <<"fec_k", "u8", 65>>, <<"flags", "u16", 66>>>>

ReadChunkData == <<<<"exposure_id", "id", 0>>, <<"chunk_index", "u32", 16>>>>

ReadChunkWithProof ==
  <<<<"exposure_id", "id", 0>>, <<"chunk_index", "u32", 16>>, <<"proof_depth", "u8", 20>>>>

ReadFecParity ==
  <<<<"exposure_id", "id", 0>>, <<"block_index", "u32", 16>>, <<"parity_index", "u8", 20>>,
    <<"fec_n", "u8", 21>>, <<"fec_k", "u8", 22>>, <<"reserved", "u8", 23>>>>

ReadNak == <<<<"exposure_id", "id", 0>>, <<"nak_count", "u16", 16>>>>

ReadRateReport ==
  <<<<"exposure_id", "id", 0>>, <<"rtt_us", "u32", 16>>, <<"loss_rate_q16", "u32", 20>>,
    <<"window_size", "u32", 24>>, <<"reserved", "u32", 28>>, <<"timestamp_us", "u64", 32>>>>

ReadKeepalive ==
  <<<<"exposure_id", "id", 0>>, <<"timestamp_us", "u64", 16>>, <<"reserved", "u32", 24>>>>

ReadOf(t) ==
  <<ReadPullRequest, ReadManifest, ReadChunkData, ReadChunkWithProof, ReadFecParity, ReadNak,
    ReadRateReport, ReadKeepalive>>[TypeByte(t)]

ReadFixed(t) == <<32, 68, 20, 21, 24, 20, 40, 28>>[TypeByte(t)]

Outside == -1

\* n bytes of the datagram from body offset off on; Outside where there are none.
At(buf, off, n) ==
  [i \in 1 .. n |-> IF HEADER + off + i \in DOMAIN buf THEN buf[HEADER + off + i] ELSE Outside]

\* Mutation: the fixed fields alone are required.
NeededFixedOnly(t, f) == ReadFixed(t)

\* The body bytes a packet with these fields must have.
Needed(t, f) ==
  ReadFixed(t) + (IF t = "CHUNK_DATA_WITH_PROOF" THEN 32 * f.proof_depth
                  ELSE IF t = "NAK" THEN 4 * f.nak_count ELSE 0)

FieldsOf(t, buf) ==
  [name \in {ReadOf(t)[i][1] : i \in DOMAIN ReadOf(t)} |->
    LET f == ReadOf(t)[CHOOSE i \in DOMAIN ReadOf(t) : ReadOf(t)[i][1] = name]
    IN  FromBytes(f[2], At(buf, f[3], Width(f[2])))]

Refused(code) == [code |-> code]

\* rgtp_parse_packet from Phase 2 on.
ParsedBody(t, buf, body_len, manifest_chunk_count) ==
  LET f == FieldsOf(t, buf)
      fixed == ReadFixed(t)
      proofLen == IF t = "CHUNK_DATA_WITH_PROOF" THEN 32 * f.proof_depth ELSE 0
      hasPayload == t \in {"CHUNK_DATA", "CHUNK_DATA_WITH_PROOF", "FEC_PARITY"}
  IN
  IF body_len < fixed THEN Refused("RGTP_ERR_TRUNCATED")
  ELSE IF t = "MANIFEST" /\ (f.chunk_count = 0 \/ f.chunk_size = 0)
       THEN Refused("RGTP_ERR_INVALID_ARG")
  ELSE IF t \in {"CHUNK_DATA", "CHUNK_DATA_WITH_PROOF"} /\ f.chunk_index >= manifest_chunk_count
       THEN Refused("RGTP_ERR_CHUNK_INDEX_OOB")
  ELSE IF body_len < Needed(t, f) THEN Refused("RGTP_ERR_TRUNCATED")
  ELSE [code |-> "RGTP_OK", type |-> t, fields |-> f,
        proof |-> At(buf, fixed, proofLen),
        payload |-> IF hasPayload THEN At(buf, fixed + proofLen, (body_len - fixed - proofLen) % 65536)
                    ELSE <<>>,
        indices |-> IF t = "NAK"
                    THEN [i \in 1 .. f.nak_count |-> HostNumber(At(buf, fixed + 4 * (i - 1), 4))]
                    ELSE <<>>]

TooShort(buf) == Number(SubSeq(buf, 3, 4)) > Len(buf)

Parsed(buf, manifest_chunk_count) ==
  IF Len(buf) < HEADER THEN Refused("RGTP_ERR_TRUNCATED")
  ELSE IF buf[1] > VERSION THEN Refused("RGTP_ERR_NOT_SUPPORTED")
  ELSE IF TooShort(buf) THEN Refused("RGTP_ERR_TRUNCATED")
  ELSE IF Number(SubSeq(buf, 3, 4)) < HEADER \/ buf[2] \notin 1 .. 8
       THEN Refused("RGTP_ERR_INVALID_ARG")
  ELSE ParsedBody(Types[buf[2]], buf, Number(SubSeq(buf, 3, 4)) - HEADER, manifest_chunk_count)

-----------------------------------------------------------------------------
(* The packet's way: serialized, carried, parsed                           *)

WireInit ==
  wire = [step |-> "idle", packet |-> [type |-> "none"], bytes |-> <<>>, received |-> <<>>,
          damaged |-> FALSE, parsed |-> Refused("none")]

SerializePacket(p, buf_size) ==
  /\ wire.step = "idle"
  /\ wire' = IF buf_size < PacketLen(p) \/ (WrittenTail(p) # <<>> /\ PacketLen(p) > MAX_LEN)
             THEN [wire EXCEPT !.step = "refused", !.packet = p]
             ELSE [wire EXCEPT !.step = "sent", !.packet = p, !.bytes = Serialized(p)]

\* The datagram arrives as it was sent, cut short, or in a longer buffer.
Arrives(received) ==
  /\ wire.step = "sent"
  /\ wire' = [wire EXCEPT !.step = "arrived", !.received = received]

\* One byte of the datagram is changed on the way.
ArrivesDamaged(i, b) ==
  /\ wire.step = "sent"
  /\ wire.bytes[i] # b
  /\ wire' = [wire EXCEPT !.step = "arrived", !.damaged = TRUE,
                          !.received = [wire.bytes EXCEPT ![i] = b]]

ParsePacket(manifest_chunk_count) ==
  /\ wire.step = "arrived"
  /\ wire' = [wire EXCEPT !.step = "parsed",
                          !.parsed = Parsed(wire.received, manifest_chunk_count)]

-----------------------------------------------------------------------------
(* Packets whose fields all differ, and packets of zeroes                  *)

Sample(kind, n, distinct) ==
  CASE kind \in {"id", "hash"} -> [i \in 1 .. Width(kind) |-> IF distinct THEN 100 + n + i ELSE 0]
    [] kind = "u64" -> IF distinct THEN <<16909060 + n, 84281096 + n>> ELSE <<0, 0>>
    [] kind = "u32" -> IF distinct THEN 16909060 + 65793 * n ELSE 0
    [] kind = "u16" -> IF distinct THEN 258 + n ELSE 0
    [] kind = "u8" -> IF distinct THEN 9 + n ELSE 0

PacketOf(t, distinct, len, count) ==
  LET w == Written(t)
      nth(name) == CHOOSE i \in DOMAIN w : w[i][1] = name
      hasPayload == t \in {"CHUNK_DATA", "CHUNK_DATA_WITH_PROOF", "FEC_PARITY"}
  IN
  [type |-> t,
   fields |-> [name \in {w[i][1] : i \in DOMAIN w} |->
     CASE name = "proof_depth" -> count
       [] name = "nak_count" -> count
       [] name = "zeroes" -> 0
       [] OTHER -> Sample(w[nth(name)][2], nth(name), distinct)],
   proof |-> IF t = "CHUNK_DATA_WITH_PROOF" THEN [i \in 1 .. 32 * count |-> 64 + i] ELSE <<>>,
   payload |-> IF hasPayload THEN [i \in 1 .. len |-> i % 200] ELSE <<>>,
   indices |-> IF t = "NAK" THEN [i \in 1 .. count |-> i] ELSE <<>>]

\* Bytes 1-4 are the header, 21-25 hold the counts that size the rest.
WireNext ==
  \/ \E t \in TypeNames, distinct \in BOOLEAN, len \in PayloadLens, count \in 0 .. 2,
        buf_size \in BufSizes : SerializePacket(PacketOf(t, distinct, len, count), buf_size)
  \/ \E n \in 0 .. Len(wire.bytes) :
       \/ (Len(wire.bytes) < 100 \/ n = Len(wire.bytes)) /\ Arrives(SubSeq(wire.bytes, 1, n))
       \/ n = 2 /\ Arrives(wire.bytes \o <<7, 7>>)
  \/ \E i \in {1, 2, 3, 4, 21, 22, 25} \cap DOMAIN wire.bytes, b \in {0, 1, 2, 3, 4, 6, 30} :
       ArrivesDamaged(i, b)
  \/ \E manifest_chunk_count \in ChunkCounts : ParsePacket(manifest_chunk_count)

WireSpec == WireInit /\ [][WireNext]_wireVars

WireTypeOK ==
  /\ wire.step \in {"idle", "refused", "sent", "arrived", "parsed"}
  /\ \A i \in DOMAIN wire.bytes : wire.bytes[i] \in 0 .. 255

-----------------------------------------------------------------------------
(* Properties                                                              *)

Whole == ~wire.damaged /\ Len(wire.received) >= Len(wire.bytes)
Ok == wire.step = "parsed" /\ wire.parsed.code = "RGTP_OK"

\* Every fixed field, proof and payload comes out of rgtp_parse_packet as it went into
\* rgtp_serialize_packet, also when the receive buffer is longer than the packet.
FieldsRoundTrip ==
  Ok /\ Whole =>
    /\ wire.parsed.type = wire.packet.type
    /\ \A name \in DOMAIN wire.parsed.fields : wire.parsed.fields[name] = wire.packet.fields[name]
    /\ wire.parsed.proof = wire.packet.proof
    /\ wire.parsed.payload = wire.packet.payload
    /\ Len(wire.parsed.indices) = Len(wire.packet.indices)

\* What rgtp_parse_packet accepts lies inside the datagram: no field, proof, payload or
\* NAK list it returns reaches past the bytes received, damaged counts included.
ReadsInside ==
  Ok => LET p == wire.parsed IN
    /\ \A i \in DOMAIN p.payload : p.payload[i] # Outside
    /\ \A i \in DOMAIN p.proof : p.proof[i] # Outside
    /\ \A i \in DOMAIN p.indices : p.indices[i] >= 0

\* prop_wire.c, "Property 3: Wire Protocol Parse/Serialize Round-Trip": a parsed NAK has
\* the chunk indices that were serialized.
NakRoundTrip ==
  Ok /\ Whole => wire.parsed.indices = wire.packet.indices
=============================================================================
