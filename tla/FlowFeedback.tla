---------------------------- MODULE FlowFeedback ----------------------------
(***************************************************************************)
(* The parts of transport/rgtp_flow.c that do not touch the window: the    *)
(* smoothed loss rate with the FEC overhead derived from it, and the count *)
(* of Pull_Requests per 100 ms.                                            *)
(*                                                                         *)
(* The loss rate, a float, is known to one part in LOSS_UNITS: a rate of r *)
(* lies in r .. r + 1, and a step leads to every value its result may be   *)
(* in.  The overhead is counted in steps of 0.05 without float rounding.   *)
(***************************************************************************)
EXTENDS Integers

CONSTANTS
  LOSS_UNITS,       \* resolution of the loss rate; 5% and 1% are whole units
  LossSamples,      \* values of loss_sample in units, also outside 0 .. LOSS_UNITS
  PULL_WINDOW,      \* PULL_WINDOW_US
  PullClock,        \* bound: the clock stops there
  MaxPulls          \* bound: Pull_Requests

ASSUME FlowFeedbackAssumption ==
  /\ LossSamples \subseteq Int
  /\ LOSS_UNITS \in Nat \ {0}
  /\ LOSS_UNITS % 100 = 0
  /\ PULL_WINDOW \in Nat \ {0}
  /\ PullClock \in Nat
  /\ MaxPulls \in Nat

VARIABLES
  loss,      \* loss_rate in units, rounded down
  fec,       \* fec_overhead in steps; history: which way it was last moved, and the
             \* loss samples since, up to FADE
  pull,      \* pull_pressure, pull_pressure_count, pull_pressure_window_start_us
  pulled,    \* history: Pull_Requests recorded, and the sum of the pressures published
  pullNow    \* the clock

lossVars == <<loss, fec>>
pullVars == <<pull, pulled, pullNow>>

FEC_MAX == 10
FADE == 8

FeedbackTypeOK ==
  /\ loss \in 0 .. LOSS_UNITS
  /\ fec \in [overhead : 0 .. FEC_MAX, moved : {"up", "down", "no"}, samples : 0 .. FADE]
  /\ pull \in [pressure : Nat, count : Nat, start : Nat]
  /\ pulled \in [requests : 0 .. MaxPulls, published : Nat]
  /\ pullNow \in 0 .. PullClock

-----------------------------------------------------------------------------
(* Loss rate and FEC overhead                                              *)

LossInit ==
  /\ loss = 0
  /\ fec = [overhead |-> 0, moved |-> "no", samples |-> 0]

Clamp(sample) ==
  IF sample < 0 THEN 0 ELSE IF sample > LOSS_UNITS THEN LOSS_UNITS ELSE sample

\* Where seven eighths of the old rate and one eighth of the sample may lie.
SmoothedLoss(sample) ==
  LET low  == (7 * loss + Clamp(sample)) \div 8
      high == (7 * loss + 6 + Clamp(sample)) \div 8
  IN  {r \in {low, high} : r <= LOSS_UNITS}

\* rgtp_flow_update_loss
UpdateLoss(sample) ==
  /\ loss' \in SmoothedLoss(sample)
  /\ fec' = [fec EXCEPT !.samples = IF @ < FADE THEN @ + 1 ELSE @]

\* Above 5% and below 1%; a rate of 5% to the unit may be either.
MayBeHeavy == 20 * loss >= LOSS_UNITS
MayBeLight == 100 * loss < LOSS_UNITS

FecMoves(overhead, way) ==
  fec' = [overhead |-> overhead, moved |-> way, samples |-> 0]

FecUp == FecMoves(IF fec.overhead + 2 > FEC_MAX THEN FEC_MAX ELSE fec.overhead + 2, "up")
FecDown == FecMoves(IF fec.overhead = 0 THEN 0 ELSE fec.overhead - 1, "down")

\* Mutation: every loss that is not heavy counts as light.
UpdateFecOneThreshold ==
  /\ \/ MayBeHeavy /\ FecUp
     \/ 20 * loss <= LOSS_UNITS /\ FecDown
  /\ UNCHANGED loss

\* rgtp_flow_update_fec: up by 0.10, down by 0.05, within 0 .. 0.50
UpdateFec ==
  /\ \/ MayBeHeavy /\ FecUp
     \/ MayBeLight /\ FecDown
     \/ ~MayBeLight /\ 20 * loss <= LOSS_UNITS /\ UNCHANGED fec
  /\ UNCHANGED loss

LossNext == UpdateFec \/ \E sample \in LossSamples : UpdateLoss(sample)

-----------------------------------------------------------------------------
(* Pull pressure                                                           *)

PullInit ==
  /\ pull = [pressure |-> 0, count |-> 0, start |-> 0]
  /\ pulled = [requests |-> 0, published |-> 0]
  /\ pullNow = 0

PullTick ==
  /\ pullNow < PullClock
  /\ pullNow' = pullNow + 1
  /\ UNCHANGED <<pull, pulled>>

\* Mutation: the counter is not reset with the window.
RotatedKeepsCount ==
  IF pullNow - pull.start >= PULL_WINDOW
  THEN [pressure |-> pull.count, count |-> pull.count, start |-> pullNow]
  ELSE pull

\* A window that is over becomes the pressure; the new one starts now.
Rotated ==
  IF pullNow - pull.start >= PULL_WINDOW
  THEN [pressure |-> pull.count, count |-> 0, start |-> pullNow]
  ELSE pull

\* rgtp_flow_record_pull
RecordPull ==
  /\ pulled.requests < MaxPulls
  /\ pull' = [Rotated EXCEPT !.count = @ + 1]
  /\ pulled' = [requests |-> pulled.requests + 1,
                published |-> pulled.published +
                                (IF Rotated.start = pull.start THEN 0 ELSE Rotated.pressure)]
  /\ UNCHANGED pullNow

PullNext == PullTick \/ RecordPull

-----------------------------------------------------------------------------
(* Properties                                                              *)

\* rgtp_flow_update_fec does not oscillate: between raising the overhead, at a loss
\* above 5%, and lowering it, below 1%, there are at least FADE loss reports, whatever
\* they report; raising it again takes one.
FecHysteresis ==
  [][/\ fec.moved = "up" /\ fec'.moved = "down" => fec.samples = FADE
     /\ fec.moved = "down" /\ fec'.moved = "up" => fec.samples > 0]_lossVars

\* rgtp_flow_record_pull counts every Pull_Request in exactly one window, however the
\* requests fall and however long none comes: the pressures published so far and the
\* running count add up to the requests, and the pressure in force is one of them.
\* (It is the count of the last window that a later request closed.)
PullsCountedOnce ==
  /\ pulled.published + pull.count = pulled.requests
  /\ pull.pressure <= pulled.published
=============================================================================
