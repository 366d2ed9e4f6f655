------------------------- MODULE ReplaySessionProofs -------------------------
(***************************************************************************)
(* Proofs about the anti-replay window for every width and every set of    *)
(* sequence numbers.                                                       *)
(*                                                                         *)
(* ExactUntilShifted is not inductive.  After base has moved under set     *)
(* bits the window is inexact, and it counts as exact again once a move    *)
(* leaves no bit.  That is right because every accepted number that is     *)
(* still in the window has a bit at its own offset or above it (BitAbove): *)
(* a move that clears this bit leaves the number below base.               *)
(***************************************************************************)
EXTENDS ReplaySession, TLAPS

\* An accepted number at or above base keeps a bit, though perhaps one that by now
\* stands for a higher number.
BitAbove ==
  \A t \in accepted : t >= win.base => \E j \in win.bits : j >= t - win.base

ReplayInv == ReplayTypeOK /\ AcceptedBelowTop /\ BitAbove /\ ExactUntilShifted

-----------------------------------------------------------------------------
(* The three ways room is made for a number that is not too old            *)

\* A number inside the window does not move it.
LEMMA SlideStays ==
  ASSUME NEW w \in Window, NEW seq \in Nat, seq < w.base + WINDOW_BITS
  PROVE  Slide(w, seq) = w
  BY DEF Slide

\* A move by less than a window clears the lowest bits and shifts none.
LEMMA SlideMoves ==
  ASSUME NEW w \in Window, NEW seq \in Nat,
         seq >= w.base + WINDOW_BITS, seq + 1 - (w.base + WINDOW_BITS) < WINDOW_BITS
  PROVE  LET advance == seq + 1 - (w.base + WINDOW_BITS) IN
         /\ advance \in 1 .. WINDOW_BITS - 1
         /\ Slide(w, seq) = [base |-> w.base + advance, bits |-> w.bits \ (0 .. advance - 1)]
         /\ seq - (w.base + advance) = WINDOW_BITS - 1
  BY WindowBitsAssumption DEF Slide, Window

\* A move by a window or more starts again at the number presented.
LEMMA SlideRestarts ==
  ASSUME NEW w \in Window, NEW seq \in Nat,
         seq + 1 - (w.base + WINDOW_BITS) >= WINDOW_BITS
  PROVE  /\ Slide(w, seq) = [base |-> seq, bits |-> {}]
         /\ w.base + WINDOW_BITS <= seq
  BY WindowBitsAssumption DEF Slide, Window

\* Whichever it is, base does not go back nor past seq, and seq has an offset.
LEMMA SlideFits ==
  ASSUME NEW w \in Window, NEW seq \in Nat, ~ TooOld(w, seq)
  PROVE  LET v == Slide(w, seq) IN
         /\ v \in Window
         /\ w.base <= v.base /\ v.base <= seq
         /\ seq - v.base \in 0 .. WINDOW_BITS - 1
<1>1. CASE seq < w.base + WINDOW_BITS
  BY <1>1, SlideStays, WindowBitsAssumption DEF TooOld, Window
<1>2. CASE /\ seq >= w.base + WINDOW_BITS
           /\ seq + 1 - (w.base + WINDOW_BITS) < WINDOW_BITS
  BY <1>2, SlideMoves, WindowBitsAssumption DEF Window
<1>3. CASE seq + 1 - (w.base + WINDOW_BITS) >= WINDOW_BITS
  BY <1>3, SlideRestarts, WindowBitsAssumption DEF Window
<1> QED
  BY <1>1, <1>2, <1>3, WindowBitsAssumption DEF Window

-----------------------------------------------------------------------------
\* A fresh window is exact.
LEMMA ReplayInvInit == ReplayInit => ReplayInv
<1> SUFFICES ASSUME ReplayInit PROVE ReplayInv
  OBVIOUS
<1>1. ReplayTypeOK
  BY DEF ReplayInit, ReplayTypeOK, NewWindow, Window
<1> QED
  BY <1>1 DEF ReplayInit, ReplayInv, AcceptedBelowTop, BitAbove, ExactUntilShifted, NewWindow

\* One call of rgtp_replay_check_and_set with a number that is not too old: seen from
\* the window v that has room for it, the number's bit is set, and it is accepted if
\* the bit was clear.
LEMMA PresentMarks ==
  ASSUME ReplayInv, NEW seq \in Seqs, Present(seq), ~ TooOld(win, seq)
  PROVE  LET v == Slide(win, seq) IN
         /\ win' = [base |-> v.base, bits |-> v.bits \cup {seq - v.base}]
         /\ accepted' = IF seq - v.base \in v.bits THEN accepted ELSE accepted \cup {seq}
         /\ shifted' = IF v = win THEN shifted ELSE IF v.bits = {} THEN "no" ELSE "yes"
<1> DEFINE v == Slide(win, seq)
<1>1. win \in Window /\ seq \in Nat
  BY SeqsAssumption DEF ReplayInv, ReplayTypeOK
<1>2. v \in Window
  BY <1>1, SlideFits
<1>3. win' = [v EXCEPT !.bits = @ \cup {seq - v.base}]
  BY DEF Present, CheckAndSet
<1>4. win' = [base |-> v.base, bits |-> v.bits \cup {seq - v.base}]
  BY <1>2, <1>3 DEF Window
<1> QED
  BY <1>4 DEF Present, Verdict, Duplicate, ShiftedBy

-----------------------------------------------------------------------------
\* Every call of rgtp_replay_check_and_set keeps the invariant.
LEMMA PresentKeeps ==
  ASSUME ReplayInv, NEW seq \in Seqs, Present(seq)
  PROVE  ReplayInv'
<1> DEFINE v == Slide(win, seq)
           d == seq - v.base
<1>1. /\ win \in Window /\ seq \in Nat /\ accepted \subseteq Seqs /\ accepted \subseteq Nat
      /\ win.base \in Nat /\ win.bits \subseteq 0 .. WINDOW_BITS - 1 /\ win.bits \subseteq Nat
  BY SeqsAssumption, WindowBitsAssumption DEF ReplayInv, ReplayTypeOK, Window
<1>2. presented' \in [seq : Seqs, verdict : Verdicts]
  BY DEF Present, Verdict, Verdicts
<1>3. CASE TooOld(win, seq)
  <2>1. win' = win /\ accepted' = accepted /\ shifted' = shifted
    BY <1>3 DEF Present, CheckAndSet, ShiftedBy, Verdict
  <2> QED
    BY <1>2, <2>1 DEF ReplayInv, ReplayTypeOK, AcceptedBelowTop, BitAbove, ExactUntilShifted
<1>4. CASE ~ TooOld(win, seq)
  <2>1. /\ v \in Window
        /\ win.base <= v.base /\ v.base <= seq
        /\ d \in 0 .. WINDOW_BITS - 1
    BY <1>1, <1>4, SlideFits
  <2>2. /\ win' = [base |-> v.base, bits |-> v.bits \cup {d}]
        /\ accepted' = IF d \in v.bits THEN accepted ELSE accepted \cup {seq}
        /\ shifted' = IF v = win THEN shifted ELSE IF v.bits = {} THEN "no" ELSE "yes"
    BY <1>4, PresentMarks
  <2>3. v.base \in Nat /\ v.bits \subseteq 0 .. WINDOW_BITS - 1 /\ d \in Nat /\ seq = v.base + d
    BY <1>1, <2>1, WindowBitsAssumption DEF Window
  <2> HIDE DEF v, d
  <2>4. ReplayTypeOK'
    <3>1. win' \in Window
      BY <2>1, <2>2, <2>3 DEF Window
    <3> QED
      BY <1>1, <1>2, <2>2, <3>1 DEF ReplayInv, ReplayTypeOK
  <2>5. AcceptedBelowTop'
    BY <1>1, <2>1, <2>2, <2>3, WindowBitsAssumption DEF ReplayInv, AcceptedBelowTop
  \* What the old window's numbers keep in v.
  <2>6. \A t \in accepted : t >= v.base => \E j \in v.bits : j >= t - v.base
    <3> SUFFICES ASSUME NEW t \in accepted, t >= v.base
                 PROVE  \E j \in v.bits : j >= t - v.base
      OBVIOUS
    <3>1. t \in Nat /\ t < win.base + WINDOW_BITS /\ t >= win.base
      BY <1>1, <2>1, <2>3 DEF ReplayInv, AcceptedBelowTop
    <3>2. PICK j \in win.bits : j >= t - win.base
      BY <3>1 DEF ReplayInv, BitAbove
    <3>3. j \in Nat
      BY <1>1, <3>2
    <3>4. CASE seq < win.base + WINDOW_BITS
      BY <1>1, <3>2, <3>4, SlideStays DEF v
    <3>5. CASE /\ seq >= win.base + WINDOW_BITS
               /\ seq + 1 - (win.base + WINDOW_BITS) < WINDOW_BITS
      <4> DEFINE advance == seq + 1 - (win.base + WINDOW_BITS)
      <4>1. /\ advance \in 1 .. WINDOW_BITS - 1
            /\ v = [base |-> win.base + advance, bits |-> win.bits \ (0 .. advance - 1)]
        BY <1>1, <3>5, SlideMoves DEF v
      <4>2. advance \in Nat /\ v.base = win.base + advance /\ v.bits = win.bits \ (0 .. advance - 1)
        BY <4>1, WindowBitsAssumption
      <4> HIDE DEF advance
      <4>3. j >= advance /\ j >= t - v.base
        BY <1>1, <3>1, <3>2, <3>3, <4>2
      <4> QED
        BY <3>2, <3>3, <4>2, <4>3
    <3>6. CASE seq + 1 - (win.base + WINDOW_BITS) >= WINDOW_BITS
      <4>1. v.base = seq /\ win.base + WINDOW_BITS <= seq
        BY <1>1, <3>6, SlideRestarts DEF v
      <4> QED
        BY <1>1, <3>1, <4>1, WindowBitsAssumption
    <3> QED
      BY <1>1, <3>4, <3>5, <3>6, WindowBitsAssumption
  <2>7. BitAbove'
    <3> SUFFICES ASSUME NEW t \in accepted', t >= win'.base
                 PROVE  \E j \in win'.bits : j >= t - win'.base
      BY DEF BitAbove
    <3>1. CASE t \in accepted
      BY <2>2, <2>6, <3>1
    <3>2. CASE t = seq
      BY <2>2, <2>3, <3>2
    <3> QED
      BY <2>2, <3>1, <3>2
  <2>8. ExactUntilShifted'
    <3> SUFFICES ASSUME shifted' = "no"
                 PROVE  win'.bits = {s - win'.base : s \in {t \in accepted' : t >= win'.base}}
      BY DEF ExactUntilShifted
    \* v is exact for the numbers accepted before.
    <3>1. v.bits = {s - v.base : s \in {t \in accepted : t >= v.base}}
      <4>1. CASE v = win
        BY <2>2, <4>1 DEF ReplayInv, ExactUntilShifted
      <4>2. CASE v # win
        <5>1. v.bits = {}
          BY <2>2, <4>2
        <5>2. {t \in accepted : t >= v.base} = {}
          BY <2>6, <5>1
        <5> QED
          BY <5>1, <5>2
      <4> QED
        BY <4>1, <4>2
    <3>2. CASE d \in v.bits
      <4>1. win'.bits = v.bits /\ win'.base = v.base /\ accepted' = accepted
        BY <2>2, <3>2
      <4> QED
        BY <3>1, <4>1
    <3>3. CASE d \notin v.bits
      <4>1. /\ win'.bits = v.bits \cup {d} /\ win'.base = v.base
            /\ accepted' = accepted \cup {seq}
        BY <2>2, <3>3
      <4>2. {t \in accepted' : t >= v.base} = {t \in accepted : t >= v.base} \cup {seq}
        BY <2>1, <4>1
      <4>3. seq - v.base = d
        BY DEF d
      <4> QED
        BY <3>1, <4>1, <4>2, <4>3
    <3> QED
      BY <3>2, <3>3
  <2> QED
    BY <2>4, <2>5, <2>7, <2>8 DEF ReplayInv
<1> QED
  BY <1>3, <1>4

\* A session does nothing but present numbers.
LEMMA ReplayInvStep == ReplayInv /\ [ReplayNext]_replayVars => ReplayInv'
<1> SUFFICES ASSUME ReplayInv, [ReplayNext]_replayVars PROVE ReplayInv'
  OBVIOUS
<1>1. CASE ReplayNext
  BY <1>1, PresentKeeps DEF ReplayNext
<1>2. CASE UNCHANGED replayVars
  BY <1>2 DEF replayVars, ReplayInv, ReplayTypeOK, AcceptedBelowTop, BitAbove, ExactUntilShifted
<1> QED
  BY <1>1, <1>2

-----------------------------------------------------------------------------
\* rgtp_replay_check_and_set always moves base far enough: no accepted number is above
\* the window, for every width.
THEOREM AcceptedStayBelowTop == ReplaySpec => []AcceptedBelowTop
<1>1. ReplayInv => AcceptedBelowTop
  BY DEF ReplayInv
<1> QED
  BY <1>1, ReplayInvInit, ReplayInvStep, PTL DEF ReplaySpec

\* As long as base has not moved under set bits, bit i is set exactly when base + i was
\* accepted, for every width and every order of the numbers.
THEOREM WindowExactUntilShifted == ReplaySpec => []ExactUntilShifted
<1>1. ReplayInv => ExactUntilShifted
  BY DEF ReplayInv
<1> QED
  BY <1>1, ReplayInvInit, ReplayInvStep, PTL DEF ReplaySpec

\* base never goes back and never passes the number that moved it.
THEOREM BaseNeverGoesBack == ReplaySpec => BaseMonotone
<1> DEFINE Moves == /\ win.base <= win'.base
                    /\ win'.base # win.base => win'.base <= presented'.seq
<1>1. ReplayInv /\ [ReplayNext]_replayVars => [Moves]_replayVars
  <2> SUFFICES ASSUME ReplayInv, NEW seq \in Seqs, Present(seq) PROVE Moves
    BY DEF ReplayNext
  <2>1. win \in Window /\ seq \in Nat /\ presented'.seq = seq
    BY SeqsAssumption DEF ReplayInv, ReplayTypeOK, Present
  <2>2. CASE TooOld(win, seq)
    <3>1. win' = win
      BY <2>2 DEF Present, CheckAndSet
    <3> QED
      BY <2>1, <3>1 DEF Window
  <2>3. CASE ~ TooOld(win, seq)
    <3>1. win'.base = Slide(win, seq).base
      BY <2>3, PresentMarks
    <3> QED
      BY <2>1, <2>3, <3>1, SlideFits DEF Window
  <2> QED
    BY <2>2, <2>3
<1> QED
  BY <1>1, ReplayInvInit, ReplayInvStep, PTL DEF ReplaySpec, BaseMonotone
=============================================================================
