---------------------------- MODULE MetricsScrape ----------------------------
(***************************************************************************)
(* The metrics registry (observability/rgtp_metrics.c): counters, gauges   *)
(* and the RTT histogram are single atomics, and nothing is locked.  An    *)
(* observation touches the histogram in several atomic steps (count, sum,  *)
(* then each bucket the value falls under, smallest bound first) and a     *)
(* scrape loads the registry field by field (counters, gauges, buckets,    *)
(* count as the +Inf bucket, sum, count again), so the text it prints is   *)
(* no snapshot.  The properties say how far from one it can be.            *)
(*                                                                         *)
(* One counter and one gauge stand for the seven and the four of           *)
(* rgtp_metrics_t.  Values are integers, already in micros.                *)
(***************************************************************************)
EXTENDS Integers, Sequences, FiniteSets

CONSTANTS
  Observers,      \* the threads that call rgtp_metrics_histogram_observe
  Bounds,         \* RTT_BUCKETS: an increasing sequence of upper bounds
  RttValues,      \* the values observed
  MaxObserved     \* bound of the model: observations started

VARIABLES
  registry,       \* g_metrics
  observing,      \* each observer: the value in hand and its next step
  scrape          \* the scraper: its next load and what it loaded so far

metricsVars == <<registry, observing, scrape>>

BucketIds == 1 .. Len(Bounds)

\* An observer's steps: 1 adds to count, 2 to sum_micros, 2 + i to bucket i.
Quiet == [value |-> 0, step |-> 0]
Steps == 0 .. 2 + Len(Bounds)

Field(name) == [name |-> name, le |-> 0]
Bucket(i) == [name |-> "bucket", le |-> i]

\* Mutation: a scrape that prints the count before the buckets.
ScrapeOrderCountFirst ==
  <<Field("counter"), Field("gauge"), Field("inf")>> \o [i \in BucketIds |-> Bucket(i)]
    \o <<Field("sum"), Field("count")>>

\* The fields in the order the scrape prints them.
ScrapeOrder ==
  <<Field("counter"), Field("gauge")>> \o [i \in BucketIds |-> Bucket(i)]
    \o <<Field("inf"), Field("sum"), Field("count")>>

NotScraping == [at |-> 0, loads |-> <<>>]

MetricsInit ==
  /\ registry = [counter |-> 0, gauge |-> 0, count |-> 0, sum |-> 0,
                 buckets |-> [i \in BucketIds |-> 0]]
  /\ observing = [o \in Observers |-> Quiet]
  /\ scrape = NotScraping

MetricsTypeOK ==
  /\ registry \in [counter : Nat, gauge : Int, count : 0 .. MaxObserved, sum : Nat,
                   buckets : [BucketIds -> 0 .. MaxObserved]]
  /\ observing \in [Observers -> [value : RttValues \union {0}, step : Steps]]
  /\ scrape.at \in 0 .. Len(ScrapeOrder)
  /\ Len(scrape.loads) \in {scrape.at, scrape.at - 1}

CounterAdd ==
  /\ registry.counter = 0
  /\ registry' = [registry EXCEPT !.counter = @ + 1]
  /\ UNCHANGED <<observing, scrape>>

\* rgtp_metrics_gauge_set stores, rgtp_metrics_gauge_add adds, one atomic each.
GaugeMove ==
  /\ registry' = [registry EXCEPT !.gauge = 1 - @]
  /\ UNCHANGED <<observing, scrape>>

\* rgtp_metrics_histogram_observe, first step: atomic_fetch_add(&h->count, 1).
ObserveCount(o, v) ==
  /\ observing[o] = Quiet
  /\ registry.count < MaxObserved
  /\ registry' = [registry EXCEPT !.count = @ + 1]
  /\ observing' = [observing EXCEPT ![o] = [value |-> v, step |-> 2]]
  /\ UNCHANGED scrape

ObserveSum(o) ==
  /\ observing[o].step = 2
  /\ registry' = [registry EXCEPT !.sum = @ + observing[o].value]
  /\ observing' = [observing EXCEPT ![o].step = 3]
  /\ UNCHANGED scrape

InBucket(v, i) == v <= Bounds[i]

\* One round of the loop over RTT_BUCKETS.
ObserveBucket(o) ==
  \E i \in BucketIds :
    /\ observing[o].step = 2 + i
    /\ registry' = IF InBucket(observing[o].value, i)
                     THEN [registry EXCEPT !.buckets[i] = @ + 1]
                     ELSE registry
    /\ observing' = [observing EXCEPT ![o] = IF i = Len(Bounds) THEN Quiet ELSE [@ EXCEPT !.step = 3 + i]]
    /\ UNCHANGED scrape

FieldValue(f) ==
  CASE f.name = "bucket" -> registry.buckets[f.le]
    [] f.name = "inf" -> registry.count
    [] OTHER -> registry[f.name]

\* rgtp_metrics_scrape: entered, then one APPEND at a time.
ScrapeBegin ==
  /\ scrape.at \in {0, Len(ScrapeOrder)}
  /\ Len(scrape.loads) = scrape.at
  /\ scrape' = [at |-> 1, loads |-> <<>>]
  /\ UNCHANGED <<registry, observing>>

ScrapeLoad ==
  /\ scrape.at > Len(scrape.loads)
  /\ scrape' = [at |-> IF scrape.at = Len(ScrapeOrder) THEN scrape.at ELSE scrape.at + 1,
                loads |-> Append(scrape.loads, FieldValue(ScrapeOrder[scrape.at]))]
  /\ UNCHANGED <<registry, observing>>

\* The line does not fit into what remains of the buffer: -1, nothing usable.
ScrapeNoRoom ==
  /\ scrape.at > Len(scrape.loads)
  /\ scrape' = NotScraping
  /\ UNCHANGED <<registry, observing>>

MetricsNext ==
  \/ CounterAdd
  \/ GaugeMove
  \/ \E o \in Observers :
       \/ \E v \in RttValues : ObserveCount(o, v)
       \/ ObserveSum(o)
       \/ ObserveBucket(o)
  \/ ScrapeBegin
  \/ ScrapeLoad
  \/ ScrapeNoRoom

MetricsSpec == MetricsInit /\ [][MetricsNext]_metricsVars

-----------------------------------------------------------------------------
\* What a finished scrape printed.
Printed == Len(scrape.loads) = Len(ScrapeOrder)
Line(f) == scrape.loads[CHOOSE n \in 1 .. Len(ScrapeOrder) : ScrapeOrder[n] = f]

(* No printed bucket exceeds the printed +Inf bucket, and that one does not  *)
(* exceed the printed _count, however observations interleave with the       *)
(* scrape: an observation counts itself first and the scrape loads the count *)
(* after the buckets.                                                        *)
(* The printed buckets are cumulative up to the observations in flight: a    *)
(* bucket can exceed the next one by at most one per observer, since only an *)
(* observer between the two fetch_adds of the loop can be seen in one and    *)
(* not in the other.                                                         *)
ScrapeNearlySnapshot ==
  Printed => /\ \A i \in BucketIds : Line(Bucket(i)) <= Line(Field("inf"))
             /\ Line(Field("inf")) <= Line(Field("count"))
             /\ \A i \in BucketIds \ {Len(Bounds)} :
                  Line(Bucket(i)) <= Line(Bucket(i + 1)) + Cardinality(Observers)
=============================================================================
