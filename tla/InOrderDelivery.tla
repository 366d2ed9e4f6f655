-------------------------- MODULE InOrderDelivery --------------------------
(***************************************************************************)
(* What the reorder buffer of transport/rgtp_streaming.c promises to the   *)
(* application: "Delivers each chunk to the application exactly once", in  *)
(* index order, holding at most MaxOutOfOrder chunks ahead of the lowest   *)
(* undelivered one.  No slots, no modular arithmetic: a set of accepted    *)
(* chunks and the sequence of chunks handed over.                          *)
(***************************************************************************)
EXTENDS Naturals, Sequences

CONSTANTS
  Chunks,         \* the chunk indices of the exposure
  MaxOutOfOrder   \* how far ahead of the lowest undelivered chunk to accept

VARIABLES
  accepted,       \* chunks accepted in this session
  delivered       \* chunks handed to the application, oldest first

abstractVars == <<accepted, delivered>>

Init ==
  /\ accepted = {}
  /\ delivered = <<>>

\* A chunk is accepted once, and only within the tolerance.
Accept(c) ==
  /\ c \notin accepted
  /\ Len(delivered) <= c
  /\ c <= Len(delivered) + MaxOutOfOrder
  /\ accepted' = accepted \cup {c}
  /\ UNCHANGED delivered

\* The k-th chunk handed over is chunk k - 1, once it has been accepted.
Deliver ==
  /\ Len(delivered) \in accepted
  /\ delivered' = Append(delivered, Len(delivered))
  /\ UNCHANGED accepted

\* A new session starts from nothing.
Reset ==
  /\ accepted' = {}
  /\ delivered' = <<>>

Next ==
  \/ \E c \in Chunks : Accept(c)
  \/ Deliver
  \/ Reset

Spec == Init /\ [][Next]_abstractVars
=============================================================================
