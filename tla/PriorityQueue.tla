---------------------------- MODULE PriorityQueue ----------------------------
(***************************************************************************)
(* The strict priority queue of transport/rgtp_priority.c: one ring of     *)
(* chunk indices per level, with free-running uint32_t head and tail.      *)
(* Enqueue times are stored and never read; they are left out.             *)
(***************************************************************************)
EXTENDS Naturals, Sequences

CONSTANTS
  PRIORITY_LEVELS,   \* 8
  PQ_DEPTH,          \* 256
  COUNTER_RANGE,     \* 2^32, where head and tail wrap
  PqChunks,          \* chunk indices enqueued
  PqPriorities       \* priorities asked for

\* Wrapping head and tail keep their place in the ring.
ASSUME PqAssumption ==
  /\ PRIORITY_LEVELS \in Nat \ {0}
  /\ PQ_DEPTH \in Nat \ {0}
  /\ COUNTER_RANGE \in Nat \ {0}
  /\ COUNTER_RANGE % PQ_DEPTH = 0
  /\ PqChunks \subseteq Nat
  /\ PqPriorities \subseteq Nat

Levels == 0 .. PRIORITY_LEVELS - 1

VARIABLES
  pq,          \* the rgtp_priority_queue_t
  pqWaiting,   \* history: the indices accepted and not handed out, oldest first
  pqRet        \* the last call's outcome

pqVars == <<pq, pqWaiting, pqRet>>

PqCodes == {"RGTP_OK", "RGTP_ERR_NOMEM", "RGTP_ERR_TIMEOUT"}

PqTypeOK ==
  /\ pq \in [entries : [Levels -> [0 .. PQ_DEPTH - 1 -> Nat]],
             head : [Levels -> 0 .. COUNTER_RANGE - 1],
             tail : [Levels -> 0 .. COUNTER_RANGE - 1],
             count : [Levels -> 0 .. PQ_DEPTH]]
  /\ pqWaiting \in [Levels -> Seq(PqChunks)]
  /\ pqRet \in PqCodes

\* rgtp_pq_init: everything 0
PqInit ==
  /\ pq = [entries |-> [p \in Levels |-> [s \in 0 .. PQ_DEPTH - 1 |-> 0]],
           head |-> [p \in Levels |-> 0],
           tail |-> [p \in Levels |-> 0],
           count |-> [p \in Levels |-> 0]]
  /\ pqWaiting = [p \in Levels |-> << >>]
  /\ pqRet = "RGTP_OK"

Up(n) == (n + 1) % COUNTER_RANGE

Level(priority) ==
  IF priority >= PRIORITY_LEVELS THEN PRIORITY_LEVELS - 1 ELSE priority

PqFull(p) == pq.count[p] >= PQ_DEPTH

PqEnqueue(chunk, priority) ==
  LET p == Level(priority) IN
  /\ ~PqFull(p)
  /\ pq' = [pq EXCEPT !.entries[p][pq.tail[p] % PQ_DEPTH] = chunk,
                      !.tail[p] = Up(@),
                      !.count[p] = @ + 1]
  /\ pqWaiting' = [pqWaiting EXCEPT ![p] = Append(@, chunk)]
  /\ pqRet' = "RGTP_OK"

PqEnqueueFull(priority) ==
  /\ PqFull(Level(priority))
  /\ pqRet' = "RGTP_ERR_NOMEM"
  /\ UNCHANGED <<pq, pqWaiting>>

NonEmpty == {p \in Levels : pq.count[p] > 0}

\* Mutation: the levels are searched from the wrong end.
PqTurnLowest == CHOOSE p \in NonEmpty : \A q \in NonEmpty : q <= p

\* The first level with an entry.
PqTurn == CHOOSE p \in NonEmpty : \A q \in NonEmpty : p <= q

\* The index rgtp_pq_dequeue hands out next; only if some level is not empty.
PqHandsOut == pq.entries[PqTurn][pq.head[PqTurn] % PQ_DEPTH]

PqDequeue ==
  /\ NonEmpty # {}
  /\ pq' = [pq EXCEPT !.head[PqTurn] = Up(@), !.count[PqTurn] = @ - 1]
  /\ pqWaiting' = [pqWaiting EXCEPT ![PqTurn] = Tail(@)]
  /\ pqRet' = "RGTP_OK"

PqDequeueEmpty ==
  /\ NonEmpty = {}
  /\ pqRet' = "RGTP_ERR_TIMEOUT"
  /\ UNCHANGED <<pq, pqWaiting>>

PqNext ==
  \/ \E chunk \in PqChunks, priority \in PqPriorities : PqEnqueue(chunk, priority)
  \/ \E priority \in PqPriorities : PqEnqueueFull(priority)
  \/ PqDequeue
  \/ PqDequeueEmpty

PqSpec == PqInit /\ [][PqNext]_pqVars

-----------------------------------------------------------------------------
(* Properties                                                              *)

\* "Priority-0 pull requests are processed before priority 1-7" (rgtp_priority.c):
\* what rgtp_pq_dequeue is about to hand out has waited longest among the requests of
\* the most urgent level that has any.
PqMostUrgent ==
  NonEmpty # {} =>
    \E p \in Levels :
      /\ pqWaiting[p] # << >>
      /\ \A q \in Levels : q < p => pqWaiting[q] = << >>
      /\ PqTurn = p
      /\ PqHandsOut = Head(pqWaiting[p])
=============================================================================
