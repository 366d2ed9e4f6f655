---------------------------- MODULE JitterBuffer ----------------------------
(***************************************************************************)
(* The jitter buffer of transport/rgtp_priority.c: a ring of slots that    *)
(* holds chunks back for depth_us after the first arrival and then hands   *)
(* them out under consecutive indices.  The caller's buffer and the heap   *)
(* may be too small; the payload of a chunk is its index.                  *)
(***************************************************************************)
EXTENDS Naturals

CONSTANTS
  JitterSlots,       \* capacity argument; 0 and too many mean the maximum
  JITTER_MAX_SLOTS,  \* RGTP_JITTER_BUF_MAX_SLOTS
  JitterDepth,       \* depth_us
  JitterChunks,      \* indices that arrive, in any order, any number of times
  JitterTime,        \* bound: the clock stops there
  JitterDeliveries,  \* bound: chunks handed out
  NoChunk            \* the content of a slot that is not valid

ASSUME JitterAssumption ==
  /\ JitterSlots \in Nat
  /\ JITTER_MAX_SLOTS \in Nat \ {0}
  /\ JitterDepth \in Nat \ {0}
  /\ JitterChunks \subseteq Nat
  /\ JitterTime \in Nat \ {0}
  /\ JitterDeliveries \in Nat
  /\ NoChunk \notin JitterChunks

VARIABLES
  jb,          \* the rgtp_jitter_buf_t
  jbClock,     \* now_us and arrival_us of the calls
  jbRet,       \* what the last call returned
  jbOut,       \* the last delivery
  jbOnTime,    \* history: chunks held that were due within one capacity when they came
  jbFirst      \* history: arrival of the first chunk stored, 0 before

jitterVars == <<jb, jbClock, jbRet, jbOut, jbOnTime, jbFirst>>

JitterCapacity ==
  IF JitterSlots = 0 \/ JitterSlots > JITTER_MAX_SLOTS THEN JITTER_MAX_SLOTS ELSE JitterSlots

JitterRing == 0 .. JitterCapacity - 1
Undelivered == [chunk |-> NoChunk]

JitterTypeOK ==
  /\ jb \in [slots : [JitterRing -> JitterChunks \cup {NoChunk}],
             next_deliver : Nat, play_start : Nat, state : {"LIVE", "DESTROYED"}]
  /\ jbClock \in 1 .. JitterTime
  /\ jbRet \in {"RGTP_OK", "RGTP_ERR_NOMEM", "RGTP_ERR_TIMEOUT", "RGTP_ERR_INVALID_ARG"}
  /\ \/ jbOut = Undelivered
     \/ jbOut \in [chunk : JitterChunks, index : Nat, on_time : BOOLEAN, at : Nat]
  /\ jbOnTime \subseteq JitterChunks
  /\ jbFirst \in Nat

\* rgtp_jitter_buf_init
JitterInit ==
  /\ jb = [slots |-> [s \in JitterRing |-> NoChunk], next_deliver |-> 0,
           play_start |-> 0, state |-> "LIVE"]
  /\ jbClock = 1
  /\ jbRet = "RGTP_OK"
  /\ jbOut = Undelivered
  /\ jbOnTime = {}
  /\ jbFirst = 0

JitterTick ==
  /\ jbClock < JitterTime
  /\ jbClock' = jbClock + 1
  /\ UNCHANGED <<jb, jbRet, jbOut, jbOnTime, jbFirst>>

Valid(s) == jb.slots[s] # NoChunk

\* Mutation: playback starts with the first chunk.
PlayStartAtOnce == IF jb.play_start = 0 THEN jbClock ELSE jb.play_start

\* The first chunk stored schedules the playback.
PlayStart == IF jb.play_start = 0 THEN jbClock + JitterDepth ELSE jb.play_start

Due(i) == jb.next_deliver <= i /\ i < jb.next_deliver + JitterCapacity

\* A call that only returns a code.
JitterReturns(code) ==
  /\ jbRet' = code
  /\ UNCHANGED <<jb, jbClock, jbOut, jbOnTime, jbFirst>>

\* Mutation: a slot that is taken is overwritten.
JitterInsertOver(i) ==
  LET s == i % JitterCapacity IN
  /\ jb' = [jb EXCEPT !.slots[s] = i, !.play_start = PlayStart]
  /\ jbOnTime' = IF Due(i) THEN jbOnTime \cup {i} ELSE jbOnTime
  /\ jbFirst' = IF jbFirst = 0 THEN jbClock ELSE jbFirst
  /\ jbRet' = "RGTP_OK"
  /\ UNCHANGED <<jbClock, jbOut>>

\* rgtp_jitter_buf_insert into a free slot.  The index is not compared with
\* next_deliver.
JitterInsert(i) ==
  LET s == i % JitterCapacity IN
  /\ ~Valid(s)
  /\ jb' = [jb EXCEPT !.slots[s] = i, !.play_start = PlayStart]
  /\ jbOnTime' = IF Due(i) THEN jbOnTime \cup {i} ELSE jbOnTime
  /\ jbFirst' = IF jbFirst = 0 THEN jbClock ELSE jbFirst
  /\ jbRet' = "RGTP_OK"
  /\ UNCHANGED <<jbClock, jbOut>>

\* A slot that is taken, by this chunk or another: nothing is stored.
JitterInsertTaken(i) ==
  /\ Valid(i % JitterCapacity)
  /\ JitterReturns("RGTP_OK")

JitterInsertNoMem(i) ==
  /\ ~Valid(i % JitterCapacity)
  /\ JitterReturns("RGTP_ERR_NOMEM")

TooEarly == jb.play_start > 0 /\ jbClock < jb.play_start

\* Not yet time to start, or nothing in the slot that is next.
JitterDequeueNotReady ==
  /\ TooEarly \/ ~Valid(jb.next_deliver % JitterCapacity)
  /\ JitterReturns("RGTP_ERR_TIMEOUT")

\* The caller's buffer is too small; the chunk stays.
JitterDequeueTooSmall ==
  /\ ~TooEarly
  /\ Valid(jb.next_deliver % JitterCapacity)
  /\ JitterReturns("RGTP_ERR_INVALID_ARG")

\* rgtp_jitter_buf_dequeue of the next slot; *out_index is next_deliver, whatever
\* chunk_index the slot has.
JitterDequeue ==
  LET s == jb.next_deliver % JitterCapacity IN
  /\ jb.next_deliver < JitterDeliveries
  /\ ~TooEarly
  /\ Valid(s)
  /\ jbOut' = [chunk |-> jb.slots[s], index |-> jb.next_deliver,
               on_time |-> jb.slots[s] \in jbOnTime, at |-> jbClock]
  /\ jb' = [jb EXCEPT !.slots[s] = NoChunk, !.next_deliver = @ + 1]
  /\ jbOnTime' = jbOnTime \ {jb.slots[s]}
  /\ jbRet' = "RGTP_OK"
  /\ UNCHANGED <<jbClock, jbFirst>>

\* rgtp_jitter_buf_destroy frees what is still held.
JitterDestroy ==
  /\ jb' = [jb EXCEPT !.slots = [s \in JitterRing |-> NoChunk], !.state = "DESTROYED"]
  /\ jbOnTime' = {}
  /\ UNCHANGED <<jbClock, jbRet, jbOut, jbFirst>>

JitterNext ==
  /\ jb.state = "LIVE"
  /\ \/ JitterTick
     \/ \E i \in JitterChunks : JitterInsert(i) \/ JitterInsertTaken(i) \/ JitterInsertNoMem(i)
     \/ JitterDequeueNotReady
     \/ JitterDequeueTooSmall
     \/ JitterDequeue
     \/ JitterDestroy

JitterSpec == JitterInit /\ [][JitterNext]_jitterVars

-----------------------------------------------------------------------------
(* Properties                                                              *)

\* A chunk that came when it was due, within one turn of the ring, keeps its slot and its
\* turn until rgtp_jitter_buf_dequeue hands it out, and it is handed out under its own
\* index: no later arrival displaces it, and next_deliver never passes over it.
JitterKeepsTurn ==
  /\ \A i \in jbOnTime : jb.slots[i % JitterCapacity] = i /\ Due(i)
  /\ jbOut # Undelivered => (jbOut.on_time => jbOut.index = jbOut.chunk)

\* Nothing is handed out before depth_us after the first arrival.
JitterHoldsBack ==
  jbOut # Undelivered => jbFirst > 0 /\ jbOut.at >= jbFirst + JitterDepth
=============================================================================
