---------------------------- MODULE MCWireCodec ----------------------------
(* The wire format on a little-endian host.                                *)
EXTENDS WireCodec
=============================================================================
