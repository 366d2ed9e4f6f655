----------------------------- MODULE FlowControl -----------------------------
(***************************************************************************)
(* The round-trip estimate and the AIMD window of transport/rgtp_flow.c,   *)
(* fed by rgtp_pull_next with one sample per chunk.                        *)
(*                                                                         *)
(* Round-trip times are whole microseconds; the smoothing is computed in   *)
(* float and truncated, which for times below 2^21 us (two seconds) is     *)
(* exactly the division below and beyond that up to the last unit.  The    *)
(* thresholds 2.0 and 1.1 are compared as fractions.  Loss rate, FEC       *)
(* overhead and pull pressure are separate and not part of this module.    *)
(***************************************************************************)
EXTENDS Naturals

CONSTANTS
  Samples,           \* round-trip samples; 0 is ignored
  Initial,           \* values of cfg->window_size
  DEFAULT_WINDOW,    \* 64, used for an initial window of 0
  WINDOW_MAX,        \* 65536
  UINT32_MAX,        \* the largest window_size
  RECOVERY_PERIODS   \* 5

\* A window configured as UINT32_MAX, which rgtp_flow_on_ack would wrap to 0, is
\* excluded.
ASSUME FlowControlAssumption ==
  /\ Samples \subseteq Nat
  /\ UINT32_MAX \in Nat
  /\ Initial \subseteq 0 .. UINT32_MAX - 1
  /\ DEFAULT_WINDOW \in 1 .. WINDOW_MAX
  /\ WINDOW_MAX \in 1 .. UINT32_MAX - 1
  /\ RECOVERY_PERIODS \in Nat \ {0}

WINDOW_MIN == 1

VARIABLES
  rtt,           \* f->rtt_us; 0 as long as there was no sample
  baseline,      \* f->rtt_baseline_us
  window,        \* f->window_size
  low,           \* f->consecutive_low_rtt
  ceiling,       \* history: the window the flow started with, or WINDOW_MAX
  calm,          \* history: latest estimates in a row near the baseline, capped
  range          \* history: the smallest and largest sample

flowVars == <<rtt, baseline, window, low, ceiling, calm, range>>

FlowTypeOK ==
  /\ rtt \in Nat
  /\ baseline \in Nat
  /\ window \in Nat
  /\ low \in 0 .. RECOVERY_PERIODS - 1
  /\ ceiling \in Nat
  /\ calm \in 0 .. RECOVERY_PERIODS
  /\ range \in [lo : Nat, hi : Nat]

\* rgtp_flow_init
FlowInit ==
  \E w \in Initial :
    /\ rtt = 0
    /\ baseline = 0
    /\ window = IF w > 0 THEN w ELSE DEFAULT_WINDOW
    /\ low = 0
    /\ ceiling = IF window > WINDOW_MAX THEN window ELSE WINDOW_MAX
    /\ calm = 0
    /\ range = [lo |-> 0, hi |-> 0]

-----------------------------------------------------------------------------

\* The estimate after a sample: an eighth of the way towards it, rounded down.
Smoothed(sample) ==
  IF rtt = 0 THEN sample ELSE (7 * rtt + sample) \div 8

\* The smallest estimate so far.
NewBaseline(sample) ==
  IF rtt = 0 \/ Smoothed(sample) < baseline THEN Smoothed(sample) ELSE baseline

Congested(r, b) == r > 2 * b
Recovered(r, b) == 10 * r <= 11 * b

\* Mutation: the minimum is not enforced.
OnCongestionNoMin ==
  /\ window' = window \div 2
  /\ low' = 0

\* rgtp_flow_on_congestion
OnCongestion ==
  /\ window' = IF window \div 2 < WINDOW_MIN THEN WINDOW_MIN ELSE window \div 2
  /\ low' = 0

\* rgtp_flow_on_ack
OnAck ==
  LET w == (window + 1) % (UINT32_MAX + 1)
  IN  window' = IF w > WINDOW_MAX THEN WINDOW_MAX ELSE w

\* Mutation: the count of low estimates is not reset by one in between.
SteadyKeepsCount ==
  UNCHANGED <<window, low>>

\* Neither congested nor recovered.
Steady ==
  /\ low' = 0
  /\ UNCHANGED window

LowEstimate ==
  IF low + 1 >= RECOVERY_PERIODS
  THEN OnAck /\ low' = 0
  ELSE low' = low + 1 /\ UNCHANGED window

History(sample, r, b) ==
  /\ range' = IF rtt = 0 THEN [lo |-> sample, hi |-> sample]
              ELSE [lo |-> IF sample < range.lo THEN sample ELSE range.lo,
                    hi |-> IF sample > range.hi THEN sample ELSE range.hi]
  /\ calm' = IF ~Recovered(r, b) THEN 0
             ELSE IF calm < RECOVERY_PERIODS THEN calm + 1 ELSE calm
  /\ UNCHANGED ceiling

\* rgtp_flow_update_rtt
UpdateRtt(sample) ==
  LET r == Smoothed(sample)
      b == NewBaseline(sample) IN
  /\ sample > 0
  /\ rtt' = r
  /\ baseline' = b
  /\ \/ Congested(r, b) /\ OnCongestion
     \/ Recovered(r, b) /\ LowEstimate
     \/ ~Congested(r, b) /\ ~Recovered(r, b) /\ Steady
  /\ History(sample, r, b)

FlowNext == \E sample \in Samples : UpdateRtt(sample)

FlowSpec == FlowInit /\ [][FlowNext]_flowVars

-----------------------------------------------------------------------------
(* Properties                                                              *)

\* The estimate never leaves the range of the samples, for all its rounding down, and
\* the baseline lies between the smallest sample and the estimate: once there was a
\* sample rgtp_flow_update_rtt never divides by a baseline of 0.  The window stays
\* between 1 and its maximum, or what it was started with, through any sequence of
\* congestion and recovery.
FlowInRange ==
  /\ rtt > 0 => /\ 0 < range.lo
                /\ range.lo <= baseline
                /\ baseline <= rtt
                /\ rtt <= range.hi
  /\ WINDOW_MIN <= window /\ window <= ceiling

\* "Recovery (RTT within 1.1x baseline for 5 consecutive periods): window += 1": the
\* window grows only after five estimates in a row near the baseline, and by one.  It
\* shrinks only when the estimate exceeds twice the baseline, to no less than half (a
\* window started above the maximum is cut to it on recovery).
\* The estimate is the smoothed one, in which a single sample weighs an eighth: one sample
\* of three times the baseline does not halve the window, though
\* test_window_reduce_on_high_rtt of tests/unit/test_flow.c expects it to.
WindowMovesForCause ==
  [][/\ window' > window => window' = window + 1 /\ calm' = RECOVERY_PERIODS
     /\ window' < window => \/ Congested(rtt', baseline') /\ window <= 2 * window' + 1
                            \/ window > WINDOW_MAX /\ window' = WINDOW_MAX]_flowVars
=============================================================================
