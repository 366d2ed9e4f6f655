------------------------------ MODULE Transfer ------------------------------
(***************************************************************************)
(* One exposure served by rgtp_poll (transport/rgtp_exposer.c) to pullers  *)
(* running rgtp_pull_start and rgtp_pull_next (transport/rgtp_puller.c)    *)
(* over UDP, which may lose, duplicate, reorder and damage datagrams.      *)
(*                                                                         *)
(* The exposure is complete and immutable (rgtp_expose has returned) and   *)
(* carries Merkle proofs.  The AEAD key reaches the pullers out of band,   *)
(* as the API leaves it to the application.  Each puller has a socket of   *)
(* its own and one surface at a time.  What a datagram says is reduced to  *)
(* its type, its chunk index and which part of it, if any, was damaged.    *)
(* RTT, latency and byte statistics do not steer any step and are left     *)
(* out, as is the flow window, which only the Rate_Report's contents use.  *)
(***************************************************************************)
EXTENDS ReplayWindow, FiniteSets, Functions

CONSTANTS
  Pullers,       \* puller processes
  Sources,       \* source IP addresses
  SourceOf,      \* SourceOf[p]: the address the exposer sees puller p at
  ChunkCount,    \* chunks of the exposure
  Oversized,     \* chunks whose packet does not fit the exposer's send buffer
  WindowSize,    \* cfg->window_size of the Pull_Request
  REPORT_EVERY,  \* a Rate_Report goes out every 16 chunks
  MAX_TOKENS,    \* RGTP_RATELIMIT_MAX_RPS, the depth of a token bucket
  Faults,        \* what may go wrong: "lose", "dup", "damage", "nomem", "small"
  MaxFaults,     \* bound: faults in a behaviour
  MaxStarts,     \* bound: rgtp_pull_start calls per puller
  MaxRefills     \* bound: tokens refilled per source

ASSUME TransferAssumption ==
  /\ SourceOf \in [Pullers -> Sources]
  /\ ChunkCount \in Nat \ {0}
  /\ WindowSize \in Nat
  /\ REPORT_EVERY \in Nat \ {0}
  /\ MAX_TOKENS \in Nat \ {0}
  /\ MaxFaults \in Nat
  /\ MaxStarts \in Nat
  /\ MaxRefills \in Nat

VARIABLES
  tokens,           \* exposer: tokens of each source's bucket
  refills,          \* tokens refilled so far, per source
  pulls,            \* Pull_Requests in flight, per puller
  reports,          \* Rate_Reports in flight, per puller
  inflight,         \* datagrams in flight to each puller: how many of each
  phase,            \* puller: "idle", in rgtp_pull_start ("waiting"), "active"
  starts,           \* rgtp_pull_start calls so far, per puller
  replay,           \* surface->replay
  recv_bitmap,      \* surface->recv_bitmap, as a set
  chunks_received,  \* surface->chunks_received
  delivered,        \* history: how often each chunk was handed to the application
  faults            \* faults so far

exposerVars == <<tokens, refills>>
networkVars == <<pulls, reports, inflight>>
surfaceVars == <<replay, recv_bitmap, chunks_received, delivered>>
pullerVars == <<phase, starts, surfaceVars>>
vars == <<exposerVars, networkVars, pullerVars, faults>>

Chunks == 0 .. ChunkCount - 1

Damages == {"none", "header", "payload", "proof"}
Manifest == [type |-> "MANIFEST", damage |-> "none"]
BadManifest == [type |-> "MANIFEST", damage |-> "header"]
Chunk(i, how) == [type |-> "CHUNK", index |-> i, damage |-> how]
ChunkDatagrams == [type : {"CHUNK"}, index : Chunks, damage : Damages]
Datagrams == {Manifest, BadManifest} \cup ChunkDatagrams

TypeOK ==
  /\ tokens \in [Sources -> 0 .. MAX_TOKENS]
  /\ refills \in [Sources -> Nat]
  /\ pulls \in [Pullers -> Nat]
  /\ reports \in [Pullers -> Nat]
  /\ inflight \in [Pullers -> [Datagrams -> Nat]]
  /\ phase \in [Pullers -> {"idle", "waiting", "active"}]
  /\ starts \in [Pullers -> Nat]
  /\ replay \in [Pullers -> Window]
  /\ recv_bitmap \in [Pullers -> SUBSET Chunks]
  /\ chunks_received \in [Pullers -> Nat]
  /\ delivered \in [Pullers -> [Chunks -> Nat]]
  /\ faults \in Nat

Init ==
  /\ tokens = [s \in Sources |-> MAX_TOKENS]
  /\ refills = [s \in Sources |-> 0]
  /\ pulls = [p \in Pullers |-> 0]
  /\ reports = [p \in Pullers |-> 0]
  /\ inflight = [p \in Pullers |-> [d \in Datagrams |-> 0]]
  /\ phase = [p \in Pullers |-> "idle"]
  /\ starts = [p \in Pullers |-> 0]
  /\ replay = [p \in Pullers |-> NewWindow]
  /\ recv_bitmap = [p \in Pullers |-> {}]
  /\ chunks_received = [p \in Pullers |-> 0]
  /\ delivered = [p \in Pullers |-> [i \in Chunks |-> 0]]
  /\ faults = 0

\* One fault of the given kind happens; the bound is on faults altogether.
Fault(kind) ==
  /\ kind \in Faults
  /\ faults < MaxFaults
  /\ faults' = faults + 1

-----------------------------------------------------------------------------
(* The exposer: rgtp_poll takes one datagram from its socket               *)

\* Mutation: the last chunk of the window is left out.
ServedWindowShort ==
  LET w == IF WindowSize = 0 THEN 1 ELSE WindowSize
  IN  {i \in Chunks \ Oversized : i < w - 1}

\* Chunks 0 .. window_size - 1 of the exposure, at least one and at most all.  One that
\* rgtp_serialize_packet refuses is skipped without a word.
ServedWindow ==
  LET w == IF WindowSize = 0 THEN 1 ELSE WindowSize
  IN  {i \in Chunks \ Oversized : i < w}

Response == {Manifest} \cup {Chunk(i, "none") : i \in ServedWindow}

\* A Pull_Request within the rate limit: the Manifest, then the window.
PollServe(p) ==
  LET s == SourceOf[p] IN
  /\ pulls[p] > 0
  /\ tokens[s] >= 1
  /\ tokens' = [tokens EXCEPT ![s] = @ - 1]
  /\ pulls' = [pulls EXCEPT ![p] = @ - 1]
  /\ inflight' = [inflight EXCEPT ![p] =
       [d \in Datagrams |-> IF d \in Response THEN @[d] + 1 ELSE @[d]]]
  /\ UNCHANGED <<refills, reports, pullerVars, faults>>

\* A Pull_Request beyond the rate limit is dropped without an answer.
PollRateLimited(p) ==
  /\ pulls[p] > 0
  /\ tokens[SourceOf[p]] < 1
  /\ pulls' = [pulls EXCEPT ![p] = @ - 1]
  /\ UNCHANGED <<exposerVars, reports, inflight, pullerVars, faults>>

\* Anything that is not a Pull_Request is ignored; so is a Rate_Report.
PollIgnore(p) ==
  /\ reports[p] > 0
  /\ reports' = [reports EXCEPT ![p] = @ - 1]
  /\ UNCHANGED <<exposerVars, pulls, inflight, pullerVars, faults>>

Poll(p) == PollServe(p) \/ PollRateLimited(p) \/ PollIgnore(p)

\* Time passes and a bucket that is not full gains a token.  A source without a
\* bucket yet is one with a full bucket: its first request leaves MAX_TOKENS - 1.
Refill(s) ==
  /\ refills[s] < MaxRefills
  /\ tokens[s] < MAX_TOKENS
  /\ tokens' = [tokens EXCEPT ![s] = @ + 1]
  /\ refills' = [refills EXCEPT ![s] = @ + 1]
  /\ UNCHANGED <<networkVars, pullerVars, faults>>

-----------------------------------------------------------------------------
(* The puller                                                              *)

Receive(p, d) ==
  /\ inflight[p][d] > 0
  /\ inflight' = [inflight EXCEPT ![p][d] = @ - 1]

\* rgtp_pull_start sends its one Pull_Request and waits for a single datagram.
PullStart(p) ==
  /\ phase[p] = "idle"
  /\ starts[p] < MaxStarts
  /\ starts' = [starts EXCEPT ![p] = @ + 1]
  /\ phase' = [phase EXCEPT ![p] = "waiting"]
  /\ pulls' = [pulls EXCEPT ![p] = @ + 1]
  /\ UNCHANGED <<exposerVars, reports, inflight, surfaceVars, faults>>

\* Nothing within timeout_ms; what is still in flight stays for a later call.
PullStartTimeout(p) ==
  /\ phase[p] = "waiting"
  /\ phase' = [phase EXCEPT ![p] = "idle"]
  /\ UNCHANGED <<exposerVars, networkVars, starts, surfaceVars, faults>>

\* The first datagram is a Manifest of the exposure: a fresh surface.
PullStartManifest(p) ==
  /\ phase[p] = "waiting"
  /\ Receive(p, Manifest)
  /\ phase' = [phase EXCEPT ![p] = "active"]
  /\ UNCHANGED <<exposerVars, pulls, reports, starts, surfaceVars, faults>>

\* The first datagram is anything else, or the surface cannot be allocated: the
\* call fails and the datagram is gone.
PullStartReject(p, d) ==
  /\ phase[p] = "waiting"
  /\ Receive(p, d)
  /\ IF d = Manifest THEN Fault("nomem") ELSE UNCHANGED faults
  /\ phase' = [phase EXCEPT ![p] = "idle"]
  /\ UNCHANGED <<exposerVars, pulls, reports, starts, surfaceVars>>

\* rgtp_pull_next on a datagram that does not parse or is not a chunk.
PullNextDiscard(p, d) ==
  /\ phase[p] = "active"
  /\ d.type # "CHUNK" \/ d.damage = "header"
  /\ Receive(p, d)
  /\ UNCHANGED <<exposerVars, pulls, reports, pullerVars, faults>>

\* The anti-replay check comes before decryption and marks the index as seen.
CheckReplay(p, d, verdicts) ==
  /\ phase[p] = "active"
  /\ d.type = "CHUNK"
  /\ d.damage # "header"
  /\ Receive(p, d)
  /\ Verdict(replay[p], d.index) \in verdicts
  /\ replay' = [replay EXCEPT ![p] = CheckAndSet(@, d.index)]

PullNextReplayed(p, d) ==
  /\ CheckReplay(p, d, {"DUPLICATE", "TOO_OLD"})
  /\ UNCHANGED <<exposerVars, pulls, reports, phase, starts, faults,
                 recv_bitmap, chunks_received, delivered>>

\* Mutation: a chunk is counted before it is verified.
PullNextFailCounted(p, d) ==
  /\ CheckReplay(p, d, {"ACCEPT"})
  /\ \/ d.damage # "none" /\ UNCHANGED faults
     \/ Fault("nomem")
     \/ Fault("small")
  /\ recv_bitmap' = [recv_bitmap EXCEPT ![p] = @ \cup {d.index}]
  /\ chunks_received' = [chunks_received EXCEPT ![p] = @ + 1]
  /\ UNCHANGED <<exposerVars, pulls, reports, phase, starts, delivered>>

\* Seen for the first time, but out of memory, not authentic, proof not valid, or
\* larger than the caller's buffer: an error, and the index stays marked as seen.
PullNextFail(p, d) ==
  /\ CheckReplay(p, d, {"ACCEPT"})
  /\ \/ d.damage # "none" /\ UNCHANGED faults
     \/ Fault("nomem")
     \/ Fault("small")
  /\ UNCHANGED <<exposerVars, pulls, reports, phase, starts,
                 recv_bitmap, chunks_received, delivered>>

ReceivedAfter(p, i) ==
  IF i \in recv_bitmap[p] THEN chunks_received[p] ELSE chunks_received[p] + 1

PullNextDeliver(p, d) ==
  /\ CheckReplay(p, d, {"ACCEPT"})
  /\ d.damage = "none"
  /\ delivered' = [delivered EXCEPT ![p][d.index] = @ + 1]
  /\ recv_bitmap' = [recv_bitmap EXCEPT ![p] = @ \cup {d.index}]
  /\ chunks_received' = [chunks_received EXCEPT ![p] = ReceivedAfter(p, d.index)]
  /\ reports' = IF ReceivedAfter(p, d.index) % REPORT_EVERY = 0
                THEN [reports EXCEPT ![p] = @ + 1]
                ELSE reports
  /\ UNCHANGED <<exposerVars, pulls, phase, starts, faults>>

PullNext(p) ==
  \E d \in Datagrams :
    PullNextDiscard(p, d) \/ PullNextReplayed(p, d) \/ PullNextFail(p, d) \/ PullNextDeliver(p, d)

\* rgtp_destroy_surface; the socket stays open, with what is queued on it.
Destroy(p) ==
  /\ phase[p] = "active"
  /\ phase' = [phase EXCEPT ![p] = "idle"]
  /\ replay' = [replay EXCEPT ![p] = NewWindow]
  /\ recv_bitmap' = [recv_bitmap EXCEPT ![p] = {}]
  /\ chunks_received' = [chunks_received EXCEPT ![p] = 0]
  /\ delivered' = [delivered EXCEPT ![p] = [i \in Chunks |-> 0]]
  /\ UNCHANGED <<exposerVars, networkVars, starts, faults>>

-----------------------------------------------------------------------------
(* The network.  Datagrams are received in any order.                      *)

LoseDatagram(p, d) ==
  /\ Fault("lose")
  /\ Receive(p, d)
  /\ UNCHANGED <<exposerVars, pulls, reports, pullerVars>>

DuplicateDatagram(p, d) ==
  /\ Fault("dup")
  /\ inflight[p][d] > 0
  /\ inflight' = [inflight EXCEPT ![p][d] = @ + 1]
  /\ UNCHANGED <<exposerVars, pulls, reports, pullerVars>>

\* Damage in the header makes a datagram unparsable or foreign; damage in the
\* chunk index makes it a chunk of another index that will not authenticate.
DamagedForms(d) ==
  IF d.type = "MANIFEST" THEN {BadManifest}
  ELSE {Chunk(d.index, "header"), Chunk(d.index, "proof")}
       \cup {Chunk(i, "payload") : i \in Chunks}

DamageDatagram(p, d) ==
  /\ Fault("damage")
  /\ d.damage = "none"
  /\ inflight[p][d] > 0
  /\ \E e \in DamagedForms(d) :
       inflight' = [inflight EXCEPT ![p][d] = @ - 1, ![p][e] = @ + 1]
  /\ UNCHANGED <<exposerVars, pulls, reports, pullerVars>>

\* A Pull_Request damaged on the way is a malformed packet, as good as lost.
LosePull(p) ==
  /\ Fault("lose")
  /\ pulls[p] > 0
  /\ pulls' = [pulls EXCEPT ![p] = @ - 1]
  /\ UNCHANGED <<exposerVars, reports, inflight, pullerVars>>

DuplicatePull(p) ==
  /\ Fault("dup")
  /\ pulls[p] > 0
  /\ pulls' = [pulls EXCEPT ![p] = @ + 1]
  /\ UNCHANGED <<exposerVars, reports, inflight, pullerVars>>

Network(p) ==
  \/ LosePull(p)
  \/ DuplicatePull(p)
  \/ \E d \in Datagrams : LoseDatagram(p, d) \/ DuplicateDatagram(p, d) \/ DamageDatagram(p, d)

-----------------------------------------------------------------------------
Next ==
  \/ \E s \in Sources : Refill(s)
  \/ \E p \in Pullers :
       \/ Poll(p)
       \/ PullStart(p) \/ PullStartTimeout(p) \/ PullStartManifest(p)
       \/ \E d \in Datagrams : PullStartReject(p, d)
       \/ PullNext(p)
       \/ Destroy(p)
       \/ Network(p)

Spec == Init /\ [][Next]_vars

\* The exposer keeps calling rgtp_poll and a puller with a surface keeps calling
\* rgtp_pull_next, as the loops of the examples do; datagrams not lost arrive.
Fairness ==
  \A p \in Pullers : WF_vars(Poll(p)) /\ WF_vars(PullNext(p))

FairSpec == Spec /\ Fairness

-----------------------------------------------------------------------------
(* Properties                                                              *)

Complete(p) == chunks_received[p] = ChunkCount

\* What rgtp_progress divides by the chunk count never overstates: chunks_received counts
\* exactly the chunks the application has been handed since rgtp_pull_start.  It holds
\* whatever the anti-replay window lets through twice, because rgtp_pull_next counts a
\* chunk only when its recv_bitmap bit is new.  (The quotient is a float: 1.0 means all of
\* them up to 2^24 chunks.)
ProgressHonest ==
  \A p \in Pullers :
    chunks_received[p] = Cardinality({i \in Chunks : delivered[p][i] > 0})

\* "Each chunk index is delivered at most once" (prop_replay.c): rgtp_pull_next hands
\* no chunk over twice in a session, however often the exposer serves it and the
\* network repeats it.
AtMostOnce ==
  \A p \in Pullers, i \in Chunks : delivered[p][i] <= 1

\* A good copy of chunk i can still reach puller p.
CopyComing(p, i) ==
  pulls[p] > 0 \/ inflight[p][Chunk(i, "none")] > 0

\* Pull_Requests dropped for the rate limit, of all pullers at address s.  As long as
\* the network loses and repeats none, they are those sent less those on their way and
\* those that took a token.
Refused(s) ==
  LET there == {p \in Pullers : SourceOf[p] = s}
      served == MAX_TOKENS + refills[s] - tokens[s]
  IN  SumFunctionOnSet(starts, there) - SumFunctionOnSet(pulls, there) - served

Undisturbed(p) == faults = 0 /\ Refused(SourceOf[p]) = 0

\* Until something goes wrong, no missing chunk is out of reach: leftovers of timed-out
\* or failed rgtp_pull_start calls and of destroyed surfaces may be consumed or refused,
\* but a copy of every chunk not yet received is in flight or asked for.  What can go
\* wrong without a fault is the rate limit, whose bucket neighbours share: a refused
\* request is not repeated.
Recoverable ==
  \A p \in Pullers : phase[p] = "active" /\ Undisturbed(p) =>
    \A i \in Chunks : i \in recv_bitmap[p] \/ CopyComing(p, i)

\* A puller that got its Manifest gets every chunk, unless the application gives the
\* surface up, the network, the memory or a buffer failed, or the rate limit refused a
\* request from its address.
CompletesUndisturbed ==
  \A p \in Pullers :
    (phase[p] = "active") ~> (Complete(p) \/ phase[p] # "active" \/ ~Undisturbed(p))

\* A puller that got its Manifest gets every chunk, unless the application gives the
\* surface up ("all chunks received" -> COMPLETE, protocol-spec.md).
Completes ==
  \A p \in Pullers : (phase[p] = "active") ~> (Complete(p) \/ phase[p] # "active")

\* "3. Verify AEAD authentication tag. 4. Verify Merkle proof if present. 5. Check
\* anti-replay window." (rgtp_puller.c): only a chunk that passed verification is
\* marked as seen, so that a good copy of it is still welcome.
OnlyVerifiedSeen ==
  \A p \in Pullers : replay[p].base = 0 => replay[p].bits \subseteq recv_bitmap[p]
=============================================================================
