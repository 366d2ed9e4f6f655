---------------------------- MODULE MCReceivePath ----------------------------
(***************************************************************************)
(* Model checking of what a chunk passes through on its way to the         *)
(* application: the transfer from exposer to puller, and the reorder       *)
(* buffer an application may put behind it.  They share no state; a        *)
(* behaviour exercises the one that part names.                            *)
(***************************************************************************)
EXTENDS Transfer, ReorderBuffer

CONSTANTS p1, p2     \* pullers

VARIABLE part

receiveVars == <<part, vars, reorderVars>>

\* The exposer sees every puller at one address.
MCSourceOf == [p \in Pullers |-> CHOOSE s \in Sources : TRUE]

\* Ten chunks through a ring of four slots: every slot is reused, the last chunk is empty,
\* and the application's buffer is sometimes too small.
MCArrivals == 0 .. 9
MCChunkLen == [c \in MCArrivals |-> IF c = 9 THEN 0 ELSE 1 + (c % 2)]

\* One puller meets every fault; two, the second of which starts once, share the exposer
\* and its token bucket over a network that only reorders.
ReceiveInit ==
  /\ part \in {"faults", "shared", "reorder"}
  /\ Init /\ ReorderInit

ReceiveNext ==
  /\ UNCHANGED part
  /\ IF part = "reorder" THEN UNCHANGED vars ELSE Next
  /\ part = "faults" => starts'[p2] = starts[p2]
  /\ part = "shared" => faults' = faults /\ starts'[p2] <= 1
  /\ IF part = "reorder" THEN ReorderNext ELSE UNCHANGED reorderVars

ReceiveSpec == ReceiveInit /\ [][ReceiveNext]_receiveVars /\ Fairness
=============================================================================
