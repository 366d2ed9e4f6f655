----------------------------- MODULE MCTransfer -----------------------------
(* One exposer and one puller, which the exposer sees at one address.       *)
EXTENDS Transfer

MCSourceOf == [p \in Pullers |-> CHOOSE s \in Sources : TRUE]
=============================================================================
