---------------------------- MODULE ReplayWindow ----------------------------
(***************************************************************************)
(* The anti-replay window of transport/rgtp_replay.c as operators on a     *)
(* window value: base, and the set of offsets whose bitmap bit is set.     *)
(* The 64-bit words of the bitmap are not modelled; WINDOW_BITS is 256 in  *)
(* the code.  offset and advance are differences of uint32_t values taken  *)
(* where the minuend is the larger, so they do not wrap.                   *)
(***************************************************************************)
EXTENDS Naturals

CONSTANT WINDOW_BITS

ASSUME WindowBitsAssumption == WINDOW_BITS \in Nat \ {0}

Window == [base : Nat, bits : SUBSET (0 .. WINDOW_BITS - 1)]

\* rgtp_replay_window_init
NewWindow == [base |-> 0, bits |-> {}]

\* Make room for seq.  A seq a whole window or more beyond the top empties the
\* window and restarts it at seq; otherwise base moves up by the shortfall and
\* the bits 0 .. advance - 1 are cleared.  The bitmap is not shifted: bit i,
\* set for base + i, stands for base' + i afterwards.
Slide(w, seq) ==
  LET advance == seq + 1 - (w.base + WINDOW_BITS) IN
  IF seq < w.base + WINDOW_BITS THEN w
  ELSE IF advance >= WINDOW_BITS THEN [base |-> seq, bits |-> {}]
  ELSE [base |-> w.base + advance, bits |-> w.bits \ (0 .. advance - 1)]

\* Mutation: the lowest number of the window is refused.
TooOldInclusive(w, seq) == seq <= w.base

TooOld(w, seq) == seq < w.base

Duplicate(w, seq) ==
  LET v == Slide(w, seq) IN seq - v.base \in v.bits

\* rgtp_replay_check_and_set: the verdict, and the window afterwards.
Verdict(w, seq) ==
  IF TooOld(w, seq) THEN "TOO_OLD"
  ELSE IF Duplicate(w, seq) THEN "DUPLICATE"
  ELSE "ACCEPT"

\* Mutation: an accepted number is not marked.
ForgetSeen(w, seq) ==
  IF TooOld(w, seq) THEN w ELSE Slide(w, seq)

\* A seq that is too old leaves the window alone; any other slides it first,
\* even one that is then found to be a duplicate.
CheckAndSet(w, seq) ==
  IF TooOld(w, seq) THEN w
  ELSE LET v == Slide(w, seq)
       IN  [v EXCEPT !.bits = @ \cup {seq - v.base}]
=============================================================================
