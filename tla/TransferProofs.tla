--------------------------- MODULE TransferProofs ---------------------------
(***************************************************************************)
(* Safety of Transfer for any number of pullers, any exposure, any window  *)
(* sizes and any number of faults.                                         *)
(***************************************************************************)
EXTENDS Transfer, FiniteSetTheorems, TLAPS

\* rgtp_replay_check_and_set keeps the window a window.
LEMMA CheckAndSetType ==
  ASSUME NEW w \in Window, NEW seq \in Nat
  PROVE  CheckAndSet(w, seq) \in Window
<1> USE WindowBitsAssumption DEF Window
<1> DEFINE v == Slide(w, seq)
<1>1. CASE TooOld(w, seq)
  BY <1>1 DEF CheckAndSet
<1>2. CASE ~TooOld(w, seq)
  <2>1. v \in Window /\ seq - v.base \in 0 .. WINDOW_BITS - 1
    BY <1>2 DEF Slide, TooOld
  <2> HIDE DEF v
  <2>2. [v EXCEPT !.bits = @ \cup {seq - v.base}] \in Window
    BY <2>1
  <2> QED
    BY <1>2, <2>2 DEF CheckAndSet, v
<1> QED
  BY <1>1, <1>2

\* A sequence number inside a window that still starts at 0: it is accepted exactly
\* when its bit is clear, and only its bit changes.
LEMMA CheckAndSetFirstWindow ==
  ASSUME NEW w \in Window, w.base = 0, NEW seq \in 0 .. WINDOW_BITS - 1
  PROVE  /\ Verdict(w, seq) = IF seq \in w.bits THEN "DUPLICATE" ELSE "ACCEPT"
         /\ CheckAndSet(w, seq).base = 0
         /\ CheckAndSet(w, seq).bits = w.bits \cup {seq}
<1> USE WindowBitsAssumption DEF Window
<1>1. ~TooOld(w, seq) /\ Slide(w, seq) = w
  BY DEF TooOld, Slide
<1>2. seq - w.base = seq
  OBVIOUS
<1>3. Verdict(w, seq) = IF seq \in w.bits THEN "DUPLICATE" ELSE "ACCEPT"
  BY <1>1, <1>2 DEF Verdict, Duplicate
<1>4. CheckAndSet(w, seq) = [w EXCEPT !.bits = @ \cup {seq}]
  BY <1>1, <1>2 DEF CheckAndSet
<1> QED
  BY <1>3, <1>4

\* The datagrams rgtp_poll sends and the network makes of them are datagrams.
LEMMA DatagramTypes ==
  /\ Manifest \in Datagrams
  /\ \A d \in Datagrams : d.type = "CHUNK" => d.index \in Chunks
  /\ \A d \in Datagrams : DamagedForms(d) \subseteq Datagrams
<1>1. Manifest \in Datagrams /\ BadManifest \in Datagrams
  BY DEF Datagrams
<1>2. ASSUME NEW d \in Datagrams, d.type = "CHUNK"
      PROVE  d \in ChunkDatagrams /\ d.index \in Chunks
  BY <1>2 DEF Datagrams, Manifest, BadManifest, ChunkDatagrams
<1>3. ASSUME NEW d \in Datagrams PROVE DamagedForms(d) \subseteq Datagrams
  <2>1. CASE d.type = "MANIFEST"
    BY <1>1, <2>1 DEF DamagedForms
  <2>2. CASE d.type # "MANIFEST"
    <3>1. d.index \in Chunks
      BY <2>2 DEF Datagrams, Manifest, BadManifest, ChunkDatagrams
    <3>2. ASSUME NEW i \in Chunks, NEW h \in Damages PROVE Chunk(i, h) \in Datagrams
      BY DEF Datagrams, ChunkDatagrams, Chunk
    <3> QED
      BY <2>2, <3>1, <3>2 DEF DamagedForms, Damages
  <2> QED
    BY <2>1, <2>2
<1> QED
  BY <1>1, <1>2, <1>3

-----------------------------------------------------------------------------
(* Type correctness                                                        *)

\* The state before the first rgtp_pull_start is well typed.
LEMMA InitTypeOK == Init => TypeOK
<1>1. NewWindow \in Window
  BY WindowBitsAssumption DEF NewWindow, Window
<1> QED
  BY <1>1, TransferAssumption DEF Init, TypeOK

\* Every step of the exposer keeps the types.
LEMMA PollTypeOK ==
  ASSUME TypeOK, NEW p \in Pullers, Poll(p)
  PROVE  TypeOK'
<1> USE TransferAssumption DEF TypeOK, exposerVars, networkVars, pullerVars, surfaceVars
<1>1. CASE PollServe(p)
  BY <1>1 DEF PollServe
<1>2. CASE PollRateLimited(p)
  BY <1>2 DEF PollRateLimited
<1>3. CASE PollIgnore(p)
  BY <1>3 DEF PollIgnore
<1> QED
  BY <1>1, <1>2, <1>3 DEF Poll

\* Taking a datagram off the network keeps the count of every kind a number.
LEMMA ReceiveTypeOK ==
  ASSUME TypeOK, NEW p \in Pullers, NEW d \in Datagrams, Receive(p, d)
  PROVE  inflight' \in [Pullers -> [Datagrams -> Nat]]
  BY DEF Receive, TypeOK

\* The anti-replay check of rgtp_pull_next keeps the types of what it touches.
LEMMA CheckReplayTypeOK ==
  ASSUME TypeOK, NEW p \in Pullers, NEW d \in Datagrams, NEW vs, CheckReplay(p, d, vs)
  PROVE  /\ inflight' \in [Pullers -> [Datagrams -> Nat]]
         /\ replay' \in [Pullers -> Window]
         /\ d.index \in Chunks
<1>1. d.index \in Chunks /\ d.index \in Nat
  BY DatagramTypes, TransferAssumption DEF CheckReplay, Chunks
<1>2. CheckAndSet(replay[p], d.index) \in Window
  BY <1>1, CheckAndSetType DEF TypeOK
<1> QED
  BY <1>1, <1>2, ReceiveTypeOK DEF CheckReplay, TypeOK

\* Every outcome of rgtp_pull_next keeps the types.
LEMMA PullNextTypeOK ==
  ASSUME TypeOK, NEW p \in Pullers, PullNext(p)
  PROVE  TypeOK'
<1> USE DEF exposerVars, networkVars, pullerVars, surfaceVars
<1>0. PICK d \in Datagrams :
        PullNextDiscard(p, d) \/ PullNextReplayed(p, d) \/ PullNextFail(p, d) \/ PullNextDeliver(p, d)
  BY DEF PullNext
<1>1. CASE PullNextDiscard(p, d)
  BY <1>1, ReceiveTypeOK DEF PullNextDiscard, TypeOK
<1>2. CASE PullNextReplayed(p, d)
  BY <1>2, CheckReplayTypeOK DEF PullNextReplayed, TypeOK
<1>3. CASE PullNextFail(p, d)
  BY <1>3, CheckReplayTypeOK DEF PullNextFail, Fault, TypeOK
<1>4. CASE PullNextDeliver(p, d)
  <2>1. /\ inflight' \in [Pullers -> [Datagrams -> Nat]]
        /\ replay' \in [Pullers -> Window]
        /\ d.index \in Chunks
    BY <1>4, CheckReplayTypeOK DEF PullNextDeliver
  <2>2. ReceivedAfter(p, d.index) \in Nat
    BY DEF ReceivedAfter, TypeOK
  <2>3. delivered' \in [Pullers -> [Chunks -> Nat]]
    BY <1>4, <2>1 DEF PullNextDeliver, TypeOK
  <2>4. /\ recv_bitmap' \in [Pullers -> SUBSET Chunks]
        /\ chunks_received' \in [Pullers -> Nat]
        /\ reports' \in [Pullers -> Nat]
    BY <1>4, <2>1, <2>2 DEF PullNextDeliver, TypeOK
  <2> QED
    BY <1>4, <2>1, <2>3, <2>4 DEF PullNextDeliver, TypeOK
<1> QED
  BY <1>0, <1>1, <1>2, <1>3, <1>4

\* Every fault of the network keeps the types.
LEMMA NetworkTypeOK ==
  ASSUME TypeOK, NEW p \in Pullers, Network(p)
  PROVE  TypeOK'
<1> USE DEF exposerVars, pullerVars, surfaceVars, Fault
<1>1. CASE LosePull(p)
  BY <1>1 DEF LosePull, TypeOK
<1>2. CASE DuplicatePull(p)
  BY <1>2 DEF DuplicatePull, TypeOK
<1>3. ASSUME NEW d \in Datagrams, LoseDatagram(p, d)
      PROVE  TypeOK'
  BY <1>3, ReceiveTypeOK DEF LoseDatagram, TypeOK
<1>4. ASSUME NEW d \in Datagrams, DuplicateDatagram(p, d)
      PROVE  TypeOK'
  <2>1. inflight' \in [Pullers -> [Datagrams -> Nat]]
    BY <1>4 DEF DuplicateDatagram, TypeOK
  <2> QED
    BY <1>4, <2>1 DEF DuplicateDatagram, TypeOK
<1>5. ASSUME NEW d \in Datagrams, DamageDatagram(p, d)
      PROVE  TypeOK'
  <2>1. PICK e \in Datagrams :
          inflight' = [inflight EXCEPT ![p][d] = @ - 1, ![p][e] = @ + 1]
    BY <1>5, DatagramTypes DEF DamageDatagram
  <2>2. inflight[p][d] > 0
    BY <1>5 DEF DamageDatagram
  <2>3. inflight' \in [Pullers -> [Datagrams -> Nat]]
    BY <2>1, <2>2 DEF TypeOK
  <2> QED
    BY <1>5, <2>3 DEF DamageDatagram, TypeOK
<1> QED
  BY <1>1, <1>2, <1>3, <1>4, <1>5 DEF Network

\* Every step keeps the types.
LEMMA NextTypeOK == TypeOK /\ [Next]_vars => TypeOK'
<1> SUFFICES ASSUME TypeOK, [Next]_vars PROVE TypeOK'
  OBVIOUS
<1> USE DEF exposerVars, networkVars, pullerVars, surfaceVars
<1>1. ASSUME NEW s \in Sources, Refill(s) PROVE TypeOK'
  BY <1>1, TransferAssumption DEF Refill, TypeOK
<1>2. ASSUME NEW p \in Pullers, PullStart(p) PROVE TypeOK'
  BY <1>2 DEF PullStart, TypeOK
<1>3. ASSUME NEW p \in Pullers, PullStartTimeout(p) PROVE TypeOK'
  BY <1>3 DEF PullStartTimeout, TypeOK
<1>4. ASSUME NEW p \in Pullers, PullStartManifest(p) PROVE TypeOK'
  BY <1>4, DatagramTypes, ReceiveTypeOK DEF PullStartManifest, TypeOK
<1>5. ASSUME NEW p \in Pullers, NEW d \in Datagrams, PullStartReject(p, d) PROVE TypeOK'
  <2>1. faults' \in Nat
    BY <1>5 DEF PullStartReject, Fault, TypeOK
  <2> QED
    BY <1>5, <2>1, ReceiveTypeOK DEF PullStartReject, TypeOK
<1>6. ASSUME NEW p \in Pullers, Destroy(p) PROVE TypeOK'
  <2>1. NewWindow \in Window
    BY WindowBitsAssumption DEF NewWindow, Window
  <2> QED
    BY <1>6, <2>1 DEF Destroy, TypeOK
<1>7. CASE UNCHANGED vars
  BY <1>7 DEF vars, TypeOK
<1> QED
  BY <1>1, <1>2, <1>3, <1>4, <1>5, <1>6, <1>7, PollTypeOK, PullNextTypeOK, NetworkTypeOK
  DEF Next

\* The type invariant of the transfer.
THEOREM TypeCorrect == Spec => []TypeOK
  BY InitTypeOK, NextTypeOK, PTL DEF Spec

-----------------------------------------------------------------------------
(* What the application is told and handed                                 *)

\* Only rgtp_pull_next on a chunk and rgtp_destroy_surface touch a surface.
LEMMA SurfaceSteps ==
  ASSUME [Next]_vars
  PROVE  \/ UNCHANGED surfaceVars
         \/ \E p \in Pullers, d \in Datagrams :
              PullNextReplayed(p, d) \/ PullNextFail(p, d) \/ PullNextDeliver(p, d)
         \/ \E p \in Pullers : Destroy(p)
<1>1. CASE UNCHANGED vars
  BY <1>1 DEF vars, pullerVars
<1>2. ASSUME NEW s \in Sources, Refill(s) PROVE UNCHANGED surfaceVars
  BY <1>2 DEF Refill, pullerVars
<1>3. ASSUME NEW p \in Pullers, Poll(p) PROVE UNCHANGED surfaceVars
  BY <1>3 DEF Poll, PollServe, PollRateLimited, PollIgnore, pullerVars
<1>4. ASSUME NEW p \in Pullers, Network(p) PROVE UNCHANGED surfaceVars
  BY <1>4 DEF Network, LosePull, DuplicatePull, LoseDatagram, DuplicateDatagram,
              DamageDatagram, pullerVars
<1>5. ASSUME NEW p \in Pullers, NEW d \in Datagrams,
             PullStart(p) \/ PullStartTimeout(p) \/ PullStartManifest(p) \/ PullStartReject(p, d)
                \/ PullNextDiscard(p, d)
      PROVE  UNCHANGED surfaceVars
  BY <1>5 DEF PullStart, PullStartTimeout, PullStartManifest, PullStartReject,
              PullNextDiscard, pullerVars
<1> QED
  BY <1>1, <1>2, <1>3, <1>4, <1>5, DatagramTypes DEF Next, PullNext

\* recv_bitmap is what has been delivered, and chunks_received counts it.
Bookkeeping ==
  \A p \in Pullers :
    /\ recv_bitmap[p] = {i \in Chunks : delivered[p][i] > 0}
    /\ chunks_received[p] = Cardinality(recv_bitmap[p])

\* An exposure has finitely many chunks, so that they can be counted.
LEMMA ChunksFinite == IsFiniteSet(Chunks)
  BY TransferAssumption, FS_Interval DEF Chunks

\* rgtp_pull_next steps 5 and 6.
LEMMA DeliverBookkeeping ==
  ASSUME TypeOK, Bookkeeping, NEW p \in Pullers, NEW d \in Datagrams, PullNextDeliver(p, d)
  PROVE  Bookkeeping'
<1> DEFINE i == d.index
           R == recv_bitmap[p]
<1>1. i \in Chunks
  BY CheckReplayTypeOK DEF PullNextDeliver
<1>2. IsFiniteSet(R)
  BY ChunksFinite, FS_Subset DEF TypeOK
<1>3. ReceivedAfter(p, i) = Cardinality(R \cup {i})
  BY <1>2, FS_AddElement DEF ReceivedAfter, Bookkeeping
<1>4. /\ delivered' = [delivered EXCEPT ![p][i] = @ + 1]
      /\ recv_bitmap' = [recv_bitmap EXCEPT ![p] = @ \cup {i}]
      /\ chunks_received' = [chunks_received EXCEPT ![p] = ReceivedAfter(p, i)]
  BY DEF PullNextDeliver
<1> HIDE DEF i
<1>5. ASSUME NEW q \in Pullers, q # p
      PROVE  delivered'[q] = delivered[q] /\ recv_bitmap'[q] = recv_bitmap[q]
             /\ chunks_received'[q] = chunks_received[q]
  BY <1>4, <1>5 DEF TypeOK
<1>6. recv_bitmap'[p] = R \cup {i} /\ chunks_received'[p] = Cardinality(R \cup {i})
  BY <1>3, <1>4 DEF TypeOK
<1>7. delivered'[p] = [delivered[p] EXCEPT ![i] = @ + 1]
  BY <1>4 DEF TypeOK
<1>8. R \cup {i} = {j \in Chunks : delivered'[p][j] > 0}
  BY <1>1, <1>7 DEF TypeOK, Bookkeeping
<1> QED
  BY <1>5, <1>6, <1>8 DEF Bookkeeping

\* Every step keeps recv_bitmap, chunks_received and the deliveries in agreement.
LEMMA NextBookkeeping == TypeOK /\ Bookkeeping /\ [Next]_vars => Bookkeeping'
<1> SUFFICES ASSUME TypeOK, Bookkeeping, [Next]_vars PROVE Bookkeeping'
  OBVIOUS
<1>1. CASE UNCHANGED surfaceVars
  BY <1>1 DEF surfaceVars, Bookkeeping
<1>2. ASSUME NEW p \in Pullers, NEW d \in Datagrams, PullNextReplayed(p, d) \/ PullNextFail(p, d)
      PROVE  Bookkeeping'
  BY <1>2 DEF PullNextReplayed, PullNextFail, Bookkeeping
<1>3. ASSUME NEW p \in Pullers, NEW d \in Datagrams, PullNextDeliver(p, d)
      PROVE  Bookkeeping'
  BY <1>3, DeliverBookkeeping
<1>4. ASSUME NEW p \in Pullers, Destroy(p)
      PROVE  Bookkeeping'
  <2>1. {i \in Chunks : [j \in Chunks |-> 0][i] > 0} = {} /\ Cardinality({}) = 0
    BY FS_EmptySet
  <2>2. /\ recv_bitmap'[p] = {} /\ chunks_received'[p] = 0
        /\ delivered'[p] = [j \in Chunks |-> 0]
    BY <1>4 DEF Destroy, TypeOK
  <2>3. ASSUME NEW q \in Pullers, q # p
        PROVE  delivered'[q] = delivered[q] /\ recv_bitmap'[q] = recv_bitmap[q]
               /\ chunks_received'[q] = chunks_received[q]
    BY <1>4, <2>3 DEF Destroy, TypeOK
  <2>4. recv_bitmap'[p] = {i \in Chunks : delivered'[p][i] > 0}
    BY <2>2
  <2>5. chunks_received'[p] = Cardinality(recv_bitmap'[p])
    BY <2>1, <2>2
  <2>6. ASSUME NEW q \in Pullers
        PROVE  /\ recv_bitmap'[q] = {i \in Chunks : delivered'[q][i] > 0}
               /\ chunks_received'[q] = Cardinality(recv_bitmap'[q])
    <3>1. CASE q = p
      BY <3>1, <2>4, <2>5
    <3>2. CASE q # p
      BY <3>2, <2>3 DEF Bookkeeping
    <3> QED
      BY <3>1, <3>2
  <2> QED
    BY <2>6 DEF Bookkeeping
<1> QED
  BY <1>1, <1>2, <1>3, <1>4, SurfaceSteps

\* recv_bitmap, chunks_received and the deliveries agree in every reachable state.
LEMMA BookkeepingCorrect == Spec => []Bookkeeping
<1>1. Init => Bookkeeping
  <2>1. {i \in Chunks : [j \in Chunks |-> 0][i] > 0} = {} /\ Cardinality({}) = 0
    BY FS_EmptySet
  <2> QED
    BY <2>1 DEF Init, Bookkeeping
<1> QED
  BY <1>1, NextBookkeeping, TypeCorrect, PTL DEF Spec

\* For every number of chunks and every anti-replay window size, progress is honest.
THEOREM ProgressIsHonest == Spec => []ProgressHonest
<1>1. Bookkeeping => ProgressHonest
  BY DEF Bookkeeping, ProgressHonest
<1> QED
  BY <1>1, BookkeepingCorrect, PTL

-----------------------------------------------------------------------------
(* At most once, for exposures of at most WINDOW_BITS chunks               *)

\* The window never moves, and a delivered chunk has its bit set and was delivered once.
SeenOnce ==
  \A p \in Pullers :
    /\ replay[p].base = 0
    /\ \A i \in Chunks : /\ delivered[p][i] <= 1
                         /\ delivered[p][i] > 0 => i \in replay[p].bits

\* While every index fits the first window, every step keeps a delivered chunk
\* marked as seen and delivered once.
LEMMA NextSeenOnce ==
  ASSUME ChunkCount <= WINDOW_BITS
  PROVE  TypeOK /\ SeenOnce /\ [Next]_vars => SeenOnce'
<1> SUFFICES ASSUME TypeOK, SeenOnce, [Next]_vars PROVE SeenOnce'
  OBVIOUS
<1>1. CASE UNCHANGED surfaceVars
  BY <1>1 DEF surfaceVars, SeenOnce
<1>2. ASSUME NEW p \in Pullers, NEW d \in Datagrams, NEW vs, CheckReplay(p, d, vs)
      PROVE  /\ d.index \in Chunks
             /\ replay'[p].base = 0
             /\ replay'[p].bits = replay[p].bits \cup {d.index}
             /\ "ACCEPT" \in vs /\ vs = {"ACCEPT"} => d.index \notin replay[p].bits
             /\ \A q \in Pullers : q # p => replay'[q] = replay[q]
  <2>1. d.index \in Chunks
    BY <1>2, CheckReplayTypeOK
  <2>2. d.index \in 0 .. WINDOW_BITS - 1
    BY <2>1, TransferAssumption, WindowBitsAssumption DEF Chunks
  <2>3. replay[p] \in Window /\ replay[p].base = 0
    BY DEF TypeOK, SeenOnce
  <2>4. /\ replay'[p] = CheckAndSet(replay[p], d.index)
        /\ Verdict(replay[p], d.index) \in vs
        /\ \A q \in Pullers : q # p => replay'[q] = replay[q]
    BY <1>2 DEF CheckReplay, TypeOK
  <2>5. /\ Verdict(replay[p], d.index)
             = IF d.index \in replay[p].bits THEN "DUPLICATE" ELSE "ACCEPT"
        /\ CheckAndSet(replay[p], d.index).base = 0
        /\ CheckAndSet(replay[p], d.index).bits = replay[p].bits \cup {d.index}
    BY <2>2, <2>3, CheckAndSetFirstWindow
  <2> QED
    BY <2>1, <2>4, <2>5
<1>3. ASSUME NEW p \in Pullers, NEW d \in Datagrams, PullNextReplayed(p, d) \/ PullNextFail(p, d)
      PROVE  SeenOnce'
  <2>1. \E vs : CheckReplay(p, d, vs)
    BY <1>3 DEF PullNextReplayed, PullNextFail
  <2>2. delivered' = delivered
    BY <1>3 DEF PullNextReplayed, PullNextFail
  <2> QED
    BY <1>2, <2>1, <2>2 DEF SeenOnce
<1>4. ASSUME NEW p \in Pullers, NEW d \in Datagrams, PullNextDeliver(p, d)
      PROVE  SeenOnce'
  <2>1. CheckReplay(p, d, {"ACCEPT"}) /\ delivered' = [delivered EXCEPT ![p][d.index] = @ + 1]
    BY <1>4 DEF PullNextDeliver
  <2>2. /\ d.index \in Chunks
        /\ replay'[p].base = 0
        /\ replay'[p].bits = replay[p].bits \cup {d.index}
        /\ d.index \notin replay[p].bits
        /\ \A q \in Pullers : q # p => replay'[q] = replay[q]
    BY <1>2, <2>1
  <2>3. ASSUME NEW q \in Pullers, q # p PROVE delivered'[q] = delivered[q]
    BY <2>1, <2>3 DEF TypeOK
  <2>4. delivered[p][d.index] = 0
    BY <2>2 DEF SeenOnce, TypeOK
  <2>5. /\ delivered'[p][d.index] = 1
        /\ \A i \in Chunks : i # d.index => delivered'[p][i] = delivered[p][i]
    BY <2>1, <2>2, <2>4 DEF TypeOK
  <2> QED
    BY <2>2, <2>3, <2>5 DEF SeenOnce
<1>5. ASSUME NEW p \in Pullers, Destroy(p)
      PROVE  SeenOnce'
  BY <1>5 DEF Destroy, NewWindow, SeenOnce, TypeOK
<1> QED
  BY <1>1, <1>3, <1>4, <1>5, SurfaceSteps

\* An exposure that fits the anti-replay window is delivered without repetition,
\* whatever the network does.  Beyond WINDOW_BITS chunks this fails: see AcceptIffNew in
\* ReplaySession.
THEOREM DeliveredAtMostOnce ==
  ASSUME ChunkCount <= WINDOW_BITS
  PROVE  Spec => []AtMostOnce
<1>1. Init => SeenOnce
  BY DEF Init, SeenOnce, NewWindow
<1>2. SeenOnce => AtMostOnce
  BY DEF SeenOnce, AtMostOnce
<1> QED
  BY <1>1, <1>2, NextSeenOnce, TypeCorrect, PTL DEF Spec
=============================================================================
