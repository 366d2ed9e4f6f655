---------------------------- MODULE LatencyStats ----------------------------
(***************************************************************************)
(* The latency samples of a puller surface: rgtp_pull_next writes one per  *)
(* chunk into a ring (transport/rgtp_puller.c), rgtp_get_latency_stats     *)
(* computes mean, extremes, jitter and the 99th percentile of the ring     *)
(* (transport/rgtp_surface.c).                                             *)
(***************************************************************************)
EXTENDS Naturals, Sequences

LOCAL INSTANCE FiniteSetsExt

CONSTANTS
  LATENCY_SLOTS,    \* 256
  PERCENTILE,       \* 99
  LatencyValues,    \* round-trip times measured
  MaxLatencies      \* bound: samples

ASSUME LatencyAssumption ==
  /\ LATENCY_SLOTS \in Nat \ {0}
  /\ PERCENTILE \in 0 .. 100
  /\ LatencyValues \subseteq Nat
  /\ MaxLatencies \in Nat

VARIABLES
  lat,       \* latency_samples, latency_head, latency_count
  latAll     \* history: every sample, oldest first

latencyVars == <<lat, latAll>>

LatencyRing == 0 .. LATENCY_SLOTS - 1

LatencyTypeOK ==
  /\ lat \in [samples : [LatencyRing -> Nat], head : Nat, count : 0 .. LATENCY_SLOTS]
  /\ latAll \in Seq(LatencyValues)

LatencyInit ==
  /\ lat = [samples |-> [i \in LatencyRing |-> 0], head |-> 0, count |-> 0]
  /\ latAll = << >>

\* Mutation: the slot is taken from the capped count.
LatencySlotByCount == lat.count % LATENCY_SLOTS

LatencySlot == lat.head % LATENCY_SLOTS

RecordLatency(us) ==
  /\ Len(latAll) < MaxLatencies
  /\ lat' = [samples |-> [lat.samples EXCEPT ![LatencySlot] = us],
             head |-> lat.head + 1,
             count |-> IF lat.count < LATENCY_SLOTS THEN lat.count + 1 ELSE lat.count]
  /\ latAll' = Append(latAll, us)

LatencyNext == \E us \in LatencyValues : RecordLatency(us)

-----------------------------------------------------------------------------
(* rgtp_get_latency_stats, as a function of the surface                    *)

Used == 0 .. lat.count - 1
Distance(a, b) == IF a > b THEN a - b ELSE b - a

LatencyMean == MapThenSumSet(LAMBDA i : lat.samples[i], Used) \div lat.count
LatencyMin == Min({lat.samples[i] : i \in Used})
LatencyMax == Max({lat.samples[i] : i \in Used})
LatencyJitter ==
  MapThenSumSet(LAMBDA i : Distance(lat.samples[i], LatencyMean), Used) \div lat.count

PercentileIndex ==
  LET k == (lat.count * PERCENTILE) \div 100
  IN  IF k >= lat.count THEN lat.count - 1 ELSE k

\* The sample at PercentileIndex once they are sorted.
LatencyP99 ==
  CHOOSE v \in {lat.samples[i] : i \in Used} :
    /\ Quantify(Used, LAMBDA i : lat.samples[i] < v) <= PercentileIndex
    /\ Quantify(Used, LAMBDA i : lat.samples[i] <= v) > PercentileIndex

-----------------------------------------------------------------------------
(* Properties                                                              *)

Recent == SubSeq(latAll, Len(latAll) - lat.count + 1, Len(latAll))

\* The statistics are about the latest chunks: the ring that rgtp_get_latency_stats
\* reads from slot 0 holds exactly the last LATENCY_SLOTS samples, or all there were,
\* however often it has been overwritten.  The numbers of one call fit together, for all
\* their rounding: minimum, mean, 99th percentile and maximum are in order as far as
\* they must be, the jitter is within the spread, and PERCENTILE percent of the samples
\* are not above the percentile.
LatencyOfRecent ==
  /\ lat.count = Min({Len(latAll), LATENCY_SLOTS})
  /\ \A v \in LatencyValues :
       Quantify(Used, LAMBDA i : lat.samples[i] = v)
         = Quantify(DOMAIN Recent, LAMBDA i : Recent[i] = v)
  /\ lat.count > 0 =>
       /\ LatencyMin <= LatencyMean /\ LatencyMean <= LatencyMax
       /\ LatencyMin <= LatencyP99 /\ LatencyP99 <= LatencyMax
       /\ LatencyJitter <= LatencyMax - LatencyMin
       /\ 100 * Quantify(Used, LAMBDA i : lat.samples[i] <= LatencyP99) >= PERCENTILE * lat.count
=============================================================================
