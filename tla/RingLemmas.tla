----------------------------- MODULE RingLemmas -----------------------------
(***************************************************************************)
(* The arithmetic of a ring: an index lives in the slot index % capacity   *)
(* (rgtp_reorder_buf_t in transport/rgtp_streaming.c, rgtp_jitter_buf_t in *)
(* transport/rgtp_priority.c).                                             *)
(***************************************************************************)
EXTENDS Integers, TLAPS

\* Multiplying a gap of one by c gives a gap of c.
LEMMA TimesMonotone ==
  ASSUME NEW c \in Nat \ {0}, NEW p \in Int, NEW q \in Int, p >= q + 1
  PROVE  c * p >= c * q + c
  BY Z3

\* Division with remainder by a positive number.
LEMMA DivisionWithRemainder ==
  ASSUME NEW c \in Nat \ {0}, NEW i \in Nat
  PROVE  /\ i \div c \in Int
         /\ i % c \in 0 .. c - 1
         /\ i = c * (i \div c) + (i % c)
  BY Z3

\* Two indices in one window of c consecutive numbers with the same remainder
\* are the same index: the slots of rgtp_reorder_buf_insert and
\* rgtp_jitter_buf_insert do not collide.
LEMMA RemainderUnique ==
  ASSUME NEW c \in Nat \ {0}, NEW n \in Nat,
         NEW i \in n .. n + c - 1, NEW j \in n .. n + c - 1,
         i % c = j % c
  PROVE  i = j
<1> DEFINE p == i \div c
           q == j \div c
<1>1. p \in Int /\ i % c \in Int /\ i = c * p + (i % c)
  BY DivisionWithRemainder
<1>2. q \in Int /\ j = c * q + (j % c)
  BY DivisionWithRemainder
<1>3. c * p \in Int /\ c * q \in Int
  BY <1>1, <1>2
<1> HIDE DEF p, q
<1>4. CASE p = q
  BY <1>1, <1>2, <1>4
<1>5. CASE p >= q + 1
  <2>1. c * p >= c * q + c
    BY <1>1, <1>2, <1>5, TimesMonotone
  <2> QED
    BY <1>1, <1>2, <1>3, <2>1
<1>6. CASE q >= p + 1
  <2>1. c * q >= c * p + c
    BY <1>1, <1>2, <1>6, TimesMonotone
  <2> QED
    BY <1>1, <1>2, <1>3, <2>1
<1> QED
  BY <1>1, <1>2, <1>4, <1>5, <1>6
=============================================================================
