--------------------------- MODULE StunDiscovery ----------------------------
(***************************************************************************)
(* rgtp_stun_discover and stun_parse_binding_response of                   *)
(* transport/rgtp_nat.c.  Every request carries the same transaction id    *)
(* and no answer's is compared with it, so the first datagram the socket   *)
(* yields is taken: the answer to an earlier request that timed out, or a  *)
(* chunk meant for a puller of the same socket.                            *)
(***************************************************************************)
EXTENDS Naturals, Sequences, SequencesExt, FiniteSets

CONSTANTS
  AttrLens,          \* attr_len of the attributes a server sends
  MaxAttrs,          \* attributes in an answer
  MaxDiscoveries, MaxRebinds, MaxOthers    \* bounds

VARIABLES
  binding,           \* the NAT's mapping of the socket, numbered
  outstanding,       \* requests the server has not answered
  arrived,           \* datagrams waiting at the socket
  discovery,         \* the call: pc, code and address it returned; history: the datagram
                     \* it took
  others             \* datagrams of other exchanges so far

stunVars == <<binding, outstanding, arrived, discovery, others>>

STUN_HEADER_LEN == 20

\* An answer: its attributes, of which the address ones carry a mapping, and its length.
Attributes == [type : {"XOR_MAPPED", "SOFTWARE"}, len : AttrLens]

\* Mutation: the padding is forgotten.
AttrUnpadded(len) == len

\* The step over an attribute's value.
AttrPadded(len) == IF len % 4 = 0 THEN len ELSE len + 4 - (len % 4)

\* Where the server puts attribute i, each padded to four bytes.
Start(attrs, i) ==
  STUN_HEADER_LEN + FoldLeft(LAMBDA sum, a : sum + 4 + ((a.len + 3) \div 4) * 4, 0,
                             SubSeq(attrs, 1, i - 1))

Size(attrs) == Start(attrs, Len(attrs) + 1)

\* The loop of stun_parse_binding_response on the first len bytes: the index of the
\* attribute the address is read from, 0 for -1.  An offset that is no attribute's reads
\* bytes inside one, here the end of the walk.
ParseBindingResponse(attrs, len) ==
  LET walk[offset \in 0 .. 2 * (Size(attrs) + 4)] ==
        IF offset + 4 > len \/ \A i \in DOMAIN attrs : Start(attrs, i) # offset THEN 0
        ELSE LET i == CHOOSE k \in DOMAIN attrs : Start(attrs, k) = offset IN
             IF attrs[i].type = "XOR_MAPPED" /\ attrs[i].len >= 8
             THEN IF offset + 4 + 8 > len THEN 0 ELSE i
             ELSE walk[offset + 4 + AttrPadded(attrs[i].len)]
  IN IF len < STUN_HEADER_LEN THEN 0 ELSE walk[STUN_HEADER_LEN]

-----------------------------------------------------------------------------

Datagram(attrs, len, mapping) == [attrs |-> attrs, len |-> len, mapping |-> mapping]
NoDatagram == Datagram(<<>>, 0, 0)

StunInit ==
  /\ binding = 1
  /\ outstanding = 0
  /\ arrived = <<>>
  /\ discovery = [pc |-> "idle", code |-> "none", addr |-> 0, calls |-> 0, took |-> NoDatagram]
  /\ others = 0

\* The request goes out; answers and datagrams of before may still come.
Discover ==
  /\ discovery.pc = "idle"
  /\ discovery.calls < MaxDiscoveries
  /\ discovery' = [discovery EXCEPT !.pc = "recv", !.took = NoDatagram,
                                    !.calls = discovery.calls + 1]
  /\ outstanding' = outstanding + 1
  /\ UNCHANGED <<binding, arrived, others>>

DiscoverFails ==
  /\ discovery.pc = "idle"
  /\ discovery.calls < MaxDiscoveries
  /\ discovery' = [discovery EXCEPT !.code = "RGTP_ERR_SOCKET", !.took = NoDatagram,
                                    !.calls = discovery.calls + 1]
  /\ UNCHANGED <<binding, outstanding, arrived, others>>

\* The server answers with the mapping it sees, some attributes, cut off at some length.
ServerAnswers(attrs, len) ==
  /\ outstanding > 0
  /\ outstanding' = outstanding - 1
  /\ arrived' = Append(arrived, Datagram(attrs, len, binding))
  /\ UNCHANGED <<binding, discovery, others>>

AnswerLost ==
  /\ outstanding > 0
  /\ outstanding' = outstanding - 1
  /\ UNCHANGED <<binding, arrived, discovery, others>>

\* The NAT forgets the mapping and makes another.
Rebind ==
  /\ binding <= MaxRebinds
  /\ binding' = binding + 1
  /\ UNCHANGED <<outstanding, arrived, discovery, others>>

\* A datagram that is no answer: its type is not that of a binding response.
OtherArrives ==
  /\ others < MaxOthers
  /\ others' = others + 1
  /\ arrived' = Append(arrived, NoDatagram)
  /\ UNCHANGED <<binding, outstanding, discovery>>

Receive ==
  LET datagram == Head(arrived)
      found == ParseBindingResponse(datagram.attrs, datagram.len)
  IN
  /\ discovery.pc = "recv"
  /\ arrived # <<>>
  /\ arrived' = Tail(arrived)
  /\ discovery' = [discovery EXCEPT
       !.pc = "idle", !.took = datagram,
       !.code = IF found = 0 THEN "RGTP_ERR_INVALID_ARG" ELSE "RGTP_OK",
       !.addr = IF found = 0 THEN @ ELSE datagram.mapping]
  /\ UNCHANGED <<binding, outstanding, others>>

ReceiveTimeout ==
  /\ discovery.pc = "recv"
  /\ arrived = <<>>
  /\ discovery' = [discovery EXCEPT !.pc = "idle", !.code = "RGTP_ERR_TIMEOUT"]
  /\ UNCHANGED <<binding, outstanding, arrived, others>>

Answers == UNION {[1 .. n -> Attributes] : n \in 0 .. MaxAttrs}

StunNext ==
  \/ Discover \/ DiscoverFails
  \/ \E attrs \in Answers : \E len \in {STUN_HEADER_LEN + 7, Size(attrs) - 1, Size(attrs)} : ServerAnswers(attrs, len)
  \/ AnswerLost \/ Rebind \/ OtherArrives \/ Receive \/ ReceiveTimeout

StunSpec == StunInit /\ [][StunNext]_stunVars

StunTypeOK ==
  /\ discovery.pc \in {"idle", "recv"}
  /\ outstanding \in 0 .. MaxDiscoveries
  /\ discovery.addr \in 0 .. binding

-----------------------------------------------------------------------------
(* Properties                                                              *)

\* rgtp_stun_discover succeeds exactly if the datagram it took has an address attribute
\* whose eight bytes lie whole within what was received, wherever in the answer it is and
\* whatever stands before it: stun_parse_binding_response neither steps over it nor reads
\* past the end.  Whether the answer is to this request it does not know.
AddressFound ==
  discovery.pc = "idle" /\ discovery.code \in {"RGTP_OK", "RGTP_ERR_INVALID_ARG"} =>
    LET took == discovery.took IN
    discovery.code = "RGTP_OK" <=>
      \E i \in DOMAIN took.attrs :
        /\ took.attrs[i].type = "XOR_MAPPED"
        /\ took.attrs[i].len >= 8
        /\ Start(took.attrs, i) + 4 + 8 <= took.len
=============================================================================
