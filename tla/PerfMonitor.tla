------------------------------ MODULE PerfMonitor ------------------------------
(***************************************************************************)
(* The performance monitor (analytics/perf_monitor.c): counters, an RTT    *)
(* estimate and a ring of recent events, filled by any number of threads.  *)
(* A recorder fills in its event first, then updates the metrics in one    *)
(* critical section and appends the event in a second one; between the two *)
(* other threads, and the readers, run.  The critical sections are atomic  *)
(* here.  Byte totals move with the packet counters and are left out, as   *)
(* are timestamps, texts, the log file and the report formats.             *)
(*                                                                         *)
(* Round-trip times and their mean are floats, here multiples of a unit,   *)
(* AVG_UNITS to the millisecond; a mean that falls between two of them is  *)
(* rounded either way.                                                     *)
(***************************************************************************)
EXTENDS Integers, Sequences, FiniteSets

CONSTANTS
  Recorders,      \* threads that record
  RingSize,       \* event_buffer_size (10000 in the code)
  AVG_UNITS,      \* float values between two milliseconds
  RttSamples,     \* round-trip times measured, in ms
  MaxRecords,     \* bounds of the model: calls of the recorders,
  MaxPerfTime     \* and readings of the clock
ASSUME RingAssumption == RingSize \in Nat \ {0}

VARIABLES
  metrics,        \* monitor->current_metrics
  ring,           \* event_buffer, event_index and event_count
  recorder,       \* each thread: its call, and the section it is in front of
  session,        \* running, start_time and total_duration_ms
  calls,          \* recorder calls so far
  appended        \* history: every event appended, in the order it was

perfVars == <<metrics, ring, recorder, session, calls, appended>>

\* A call of a recorder: the event's type and value.
PerfCalls ==
  {[type |-> t, value |-> 0] : t \in {"TRANSFER_START", "TRANSFER_END", "PACKET_SENT",
                                      "PACKET_RECEIVED", "RETRANSMIT", "ERROR_OCCURRED"}}
    \union [type : {"CONGESTION_ADJUSTED"}, value : {-1, 0, 1}]
    \union [type : {"RTT_MEASURED"}, value : RttSamples]

Resting == [at |-> "rest"]

PerfInit ==
  /\ metrics = [PACKET_SENT |-> 0, PACKET_RECEIVED |-> 0, RETRANSMIT |-> 0,
                CONGESTION_ADJUSTED |-> 0, ERROR_OCCURRED |-> 0,
                decreases |-> 0, increases |-> 0,
                avg |-> 0, min |-> 0, max |-> 0]
  /\ ring = [buffer |-> [i \in 0 .. RingSize - 1 |-> Resting], index |-> 0, count |-> 0]
  /\ recorder = [r \in Recorders |-> Resting]
  /\ session = [running |-> FALSE, now |-> 0, start |-> 0, duration |-> 0]
  /\ calls = 0
  /\ appended = <<>>

PerfTypeOK ==
  /\ ring.index \in 0 .. RingSize - 1
  /\ ring.count \in 0 .. RingSize
  /\ metrics.avg \in Nat
  /\ session.now \in 0 .. MaxPerfTime
  /\ session.duration \in 0 .. MaxPerfTime
  /\ calls \in 0 .. MaxRecords

-----------------------------------------------------------------------------
\* The recorders' effects on the metrics, one per function of the interface.

PacketSent(m) == [m EXCEPT !.PACKET_SENT = @ + 1]
PacketReceived(m) == [m EXCEPT !.PACKET_RECEIVED = @ + 1]
Retransmit(m) == [m EXCEPT !.RETRANSMIT = @ + 1]

ErrorOccurred(m) == [m EXCEPT !.ERROR_OCCURRED = @ + 1]


\* value is the sign of new_rate - old_rate.
CongestionAdjusted(m, value) ==
  [m EXCEPT !.CONGESTION_ADJUSTED = @ + 1,
            !.decreases = IF value < 0 THEN @ + 1 ELSE @,
            !.increases = IF value > 0 THEN @ + 1 ELSE @]

\* rgtp_perf_calculate_moving_avg: what the mean may be rounded to.  A mean above 0 is
\* not rounded to 0, which a float is not either.
MovingAvg(avg, value, samples) ==
  LET total == avg * (samples - 1) + value
      down == total \div samples
  IN  IF samples <= 1 THEN {value}
      ELSE IF total % samples = 0 THEN {down} ELSE {down, down + 1} \ {0}

\* An average of 0 counts as "none yet".  The weight of the past is the number of
\* packets sent, not the number of measurements.
RttMeasured(m, value) ==
  IF m.avg = 0
    THEN {[m EXCEPT !.avg = value, !.min = value, !.max = value]}
    ELSE {[m EXCEPT !.avg = avg,
                    !.min = IF value < @ THEN value ELSE @,
                    !.max = IF value > @ THEN value ELSE @] :
            avg \in MovingAvg(m.avg, value, m.PACKET_SENT)}

\* The metrics a call may leave.
Counted(m, call) ==
  CASE call.type = "PACKET_SENT" -> {PacketSent(m)}
    [] call.type = "PACKET_RECEIVED" -> {PacketReceived(m)}
    [] call.type = "RETRANSMIT" -> {Retransmit(m)}
    [] call.type = "ERROR_OCCURRED" -> {ErrorOccurred(m)}
    [] call.type = "CONGESTION_ADJUSTED" -> {CongestionAdjusted(m, call.value)}
    [] call.type = "RTT_MEASURED" -> RttMeasured(m, call.value * AVG_UNITS)
    [] OTHER -> {m}     \* rgtp_perf_record_transfer_start and _end count nothing

-----------------------------------------------------------------------------
\* A recorder is called and fills in its event, before any lock.
RecordCalled(r, call) ==
  /\ recorder[r] = Resting
  /\ calls < MaxRecords
  /\ calls' = calls + 1
  /\ recorder' = [recorder EXCEPT ![r] = [at |-> "metrics", call |-> call]]
  /\ UNCHANGED <<metrics, ring, session, appended>>

\* The first critical section.
RecordMetrics(r) ==
  /\ recorder[r].at = "metrics"
  /\ metrics' \in Counted(metrics, recorder[r].call)
  /\ recorder' = [recorder EXCEPT ![r].at = "event"]
  /\ UNCHANGED <<ring, session, calls, appended>>

\* Mutation: a ring that advances only until it is full.
PushedOnce(rg, e) ==
  [buffer |-> [rg.buffer EXCEPT ![rg.index] = e],
   index |-> IF rg.count < RingSize THEN (rg.index + 1) % RingSize ELSE rg.index,
   count |-> IF rg.count < RingSize THEN rg.count + 1 ELSE rg.count]

Pushed(rg, e) ==
  [buffer |-> [rg.buffer EXCEPT ![rg.index] = e],
   index |-> (rg.index + 1) % RingSize,
   count |-> IF rg.count < RingSize THEN rg.count + 1 ELSE rg.count]

\* The second one, in rgtp_perf_record_event.
RecordEvent(r) ==
  /\ recorder[r].at = "event"
  /\ ring' = Pushed(ring, recorder[r].call)
  /\ appended' = Append(appended, recorder[r].call)
  /\ recorder' = [recorder EXCEPT ![r] = Resting]
  /\ UNCHANGED <<metrics, session, calls>>

PerfTick ==
  /\ session.now < MaxPerfTime
  /\ session' = [session EXCEPT !.now = @ + 1]
  /\ UNCHANGED <<metrics, ring, recorder, calls, appended>>

\* A second start, and a stop without a start, return -1 and change nothing.
MonitorStart ==
  /\ ~ session.running
  /\ session' = [session EXCEPT !.running = TRUE, !.start = session.now]
  /\ UNCHANGED <<metrics, ring, recorder, calls, appended>>

MonitorStop ==
  /\ session.running
  /\ session' = [session EXCEPT !.running = FALSE, !.duration = session.now - session.start]
  /\ UNCHANGED <<metrics, ring, recorder, calls, appended>>

PerfRecord ==
  \E r \in Recorders : \/ \E call \in PerfCalls : RecordCalled(r, call)
                       \/ RecordMetrics(r)
                       \/ RecordEvent(r)

PerfSession == PerfTick \/ MonitorStart \/ MonitorStop

PerfNext == PerfRecord \/ PerfSession

PerfSpec == PerfInit /\ [][PerfNext]_perfVars

-----------------------------------------------------------------------------
\* The order rgtp_perf_export_events walks the ring in.
Exported ==
  LET start == IF ring.count = RingSize THEN ring.index ELSE 0
  IN  [i \in 1 .. ring.count |-> ring.buffer[(start + i - 1) % RingSize]]

LastOf(s, n) == SubSeq(s, Len(s) - n + 1, Len(s))

(* The export is exactly the last event_buffer_size events appended, oldest  *)
(* first, whatever the number of times the ring has wrapped.                 *)
ExportIsRecent ==
  Exported = LastOf(appended, IF Len(appended) < RingSize THEN Len(appended) ELSE RingSize)

CountedTypes == {"PACKET_SENT", "PACKET_RECEIVED", "RETRANSMIT", "ERROR_OCCURRED",
                 "CONGESTION_ADJUSTED"}
Appended(t) == Cardinality({i \in 1 .. Len(appended) : appended[i].type = t})
Between(t) == Cardinality({r \in Recorders : recorder[r].at = "event" /\ recorder[r].call.type = t})

=============================================================================
