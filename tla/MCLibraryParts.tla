--------------------------- MODULE MCLibraryParts ---------------------------
(***************************************************************************)
(* The parts of the library that work on their own: the data structures    *)
(* of the transport, the codecs and the state all threads of a process     *)
(* share.  No two of them share a variable; a behaviour exercises the one  *)
(* that part names and the others keep their initial state, so the states  *)
(* of the run are those of the parts added up, and nothing is shown here   *)
(* of their interaction.                                                   *)
(***************************************************************************)
EXTENDS ReplaySession, RateLimiter, FlowControl, FlowFeedback, SlidingExposure,
        ChunkRange, JitterBuffer, PriorityQueue, LatencyStats, SurfaceMemory, StunDiscovery,
        GlobalHooks, MemoryPool, MetricsScrape, PerfMonitor,
        Merkle, ReedSolomon, WireCodec, CcsdsLink, TLC

CONSTANTS k1, k2, k3

VARIABLE part

Parts == {"replay", "rate", "flow", "loss", "pull", "sliding", "range", "jitter", "pq",
          "latency", "surface", "stun", "hooks", "pool", "metrics", "perf", "session",
          "merkle", "fec", "wire", "ccsds"}

\* More sources than slots; all but k1 hash to the last slot, so that their probe
\* wraps around.  These two are interchangeable.
MCKeys == {k1, k2, k3}
MCHash == [k \in Keys |-> IF k = k1 THEN 0 ELSE BUCKET_COUNT - 1]
MCSymmetry == Permutations({k2, k3})

\* Numbers for partial advances of the window, advances of exactly one, and restarts.
MCSeqs == 0 .. 11

MCLossSamples == {-10, 0, 100, 200, 250}

\* Two bucket bounds, for values under both of them, under one and under none.
RttBounds == <<1, 3>>

\* One code without repair symbols to spare, one as redundant as data, one odd.
MCCodeSizes == {<<1, 2>>, <<2, 4>>, <<3, 5>>}

\* A part that is not exercised starts in one of its initial states only.
PartsInit ==
  /\ part \in Parts
  /\ ReplayInit /\ RateInit /\ LossInit /\ PullInit /\ JitterInit /\ PqInit /\ LatencyInit
  /\ StunInit /\ HooksInit /\ PoolInit /\ MetricsInit /\ PerfInit
  /\ MerkleInit /\ FecInit /\ WireInit /\ CcsdsInit
  /\ FlowInit /\ (part # "flow" => window = DEFAULT_WINDOW)
  /\ SlidingInit /\ (part # "sliding" => chunk_count = 2 /\ proof_count = 0)
  /\ RangeInit /\ (part # "range" => exposure = [chunk_size |-> 1, lens |-> <<1>>])
  /\ SurfaceInit /\ (part # "surface" => surf.kind = "puller" /\ surf.allocator = "library")

PartsNext ==
  /\ UNCHANGED part
  /\ IF part = "replay"  THEN ReplayNext  ELSE UNCHANGED replayVars
  /\ IF part = "rate"    THEN RateNext    ELSE UNCHANGED rateVars
  /\ IF part = "flow"    THEN FlowNext    ELSE UNCHANGED flowVars
  /\ IF part = "loss"    THEN LossNext    ELSE UNCHANGED lossVars
  /\ IF part = "pull"    THEN PullNext    ELSE UNCHANGED pullVars
  /\ IF part = "sliding" THEN SlidingNext ELSE UNCHANGED slidingVars
  /\ IF part = "range"   THEN RangeNext   ELSE UNCHANGED rangeVars
  /\ IF part = "jitter"  THEN JitterNext  ELSE UNCHANGED jitterVars
  /\ IF part = "pq"      THEN PqNext      ELSE UNCHANGED pqVars
  /\ IF part = "latency" THEN LatencyNext ELSE UNCHANGED latencyVars
  /\ IF part = "surface" THEN SurfaceNext ELSE UNCHANGED surfaceVars
  /\ IF part = "stun"    THEN StunNext    ELSE UNCHANGED stunVars
  /\ IF part = "hooks"   THEN HooksNext   ELSE UNCHANGED hookVars
  /\ IF part = "pool"    THEN PoolNext    ELSE UNCHANGED poolVars
  /\ IF part = "metrics" THEN MetricsNext ELSE UNCHANGED metricsVars
  /\ CASE part = "perf"    -> PerfRecord
       [] part = "session" -> PerfSession
       [] OTHER            -> UNCHANGED perfVars
  /\ IF part = "merkle"  THEN MerkleNext  ELSE UNCHANGED merkleVars
  /\ IF part = "fec"     THEN FecNext     ELSE UNCHANGED fecVars
  /\ IF part = "wire"    THEN WireNext    ELSE UNCHANGED wireVars
  /\ IF part = "ccsds"   THEN CcsdsNext   ELSE UNCHANGED ccsdsVars

partsVars == <<part, replayVars, rateVars, flowVars, lossVars, pullVars, slidingVars,
               rangeVars, jitterVars, pqVars, latencyVars, surfaceVars, stunVars,
               hookVars, poolVars, metricsVars, perfVars, merkleVars, fecVars, wireVars,
               ccsdsVars>>

PartsSpec == PartsInit /\ [][PartsNext]_partsVars

\* Every part keeps the types the C declarations give it.
PartsTypeOK ==
  /\ ReplayTypeOK /\ RateTypeOK /\ FlowTypeOK /\ FeedbackTypeOK /\ SlidingTypeOK
  /\ JitterTypeOK /\ PqTypeOK /\ LatencyTypeOK /\ SurfaceTypeOK /\ StunTypeOK
  /\ HooksTypeOK /\ PoolTypeOK /\ MetricsTypeOK /\ PerfTypeOK
  /\ MerkleTypeOK /\ FecTypeOK /\ WireTypeOK /\ CcsdsTypeOK
=============================================================================
