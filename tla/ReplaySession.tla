--------------------------- MODULE ReplaySession ---------------------------
(***************************************************************************)
(* One puller session's anti-replay window, fed with sequence numbers in   *)
(* any order and any number of times: what rgtp_replay_check_and_set sees  *)
(* over a network that reorders, duplicates and skips.                     *)
(***************************************************************************)
EXTENDS ReplayWindow

CONSTANT Seqs     \* the sequence numbers (chunk indices) presented

ASSUME SeqsAssumption == Seqs \subseteq Nat

VARIABLES
  win,        \* the window
  accepted,   \* history: sequence numbers answered ACCEPT
  shifted,    \* history: base has moved while bits stayed set
  presented   \* the last number presented and its verdict

replayVars == <<win, accepted, shifted, presented>>

Verdicts == {"ACCEPT", "DUPLICATE", "TOO_OLD"}

ReplayTypeOK ==
  /\ win \in Window
  /\ accepted \subseteq Seqs
  /\ shifted \in {"no", "yes"}
  /\ presented \in [seq : Seqs, verdict : Verdicts] \cup {[verdict |-> "none"]}

ReplayInit ==
  /\ win = NewWindow
  /\ accepted = {}
  /\ shifted = "no"
  /\ presented = [verdict |-> "none"]

\* The window moved up but kept some of its bits, or was emptied and restarted.
ShiftedBy(w, seq) ==
  LET v == Slide(w, seq) IN
  IF TooOld(w, seq) \/ v = w THEN shifted
  ELSE IF v.bits = {} THEN "no"
  ELSE "yes"

Present(seq) ==
  /\ presented' = [seq |-> seq, verdict |-> Verdict(win, seq)]
  /\ win' = CheckAndSet(win, seq)
  /\ shifted' = ShiftedBy(win, seq)
  /\ accepted' = IF Verdict(win, seq) = "ACCEPT" THEN accepted \cup {seq} ELSE accepted

ReplayNext == \E seq \in Seqs : Present(seq)

ReplaySpec == ReplayInit /\ [][ReplayNext]_replayVars

-----------------------------------------------------------------------------
(* Properties                                                              *)

\* "The window base is monotonically non-decreasing" (prop_replay.c), and it never
\* passes the number that moved it: rgtp_replay_check_and_set cannot put the number
\* it is asked about below its own window.
BaseMonotone ==
  [][/\ win.base <= win'.base
     /\ win'.base # win.base => win'.base <= presented'.seq]_replayVars

\* No accepted number is ever above the window: base always moves far enough for the
\* highest accepted number to have a bit.
AcceptedBelowTop ==
  \A s \in accepted : s < win.base + WINDOW_BITS

\* Until base moves with bits left set, the window is exact: bit i is set precisely
\* when base + i was accepted ("bit i = seq (base+i) has been seen"), so a number in
\* the window is accepted once and refused ever after.  This is the whole life of a
\* session of at most WINDOW_BITS chunks.
ExactUntilShifted ==
  shifted = "no" =>
    win.bits = {s - win.base : s \in {t \in accepted : t >= win.base}}

\* "Every accepted seq is rejected on re-presentation" (prop_replay.c) and, the other
\* way round, "must advance window and be accepted" (test_replay.c): a number that is
\* not below the window is accepted if and only if it was not accepted before.
AcceptIffNew ==
  [][presented'.seq >= win.base => (presented'.verdict = "ACCEPT" <=> presented'.seq \notin accepted)]_replayVars
=============================================================================
