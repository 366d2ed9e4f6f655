--------------------------- MODULE MCReedSolomon ---------------------------
(* The (5, 3) code and the data of test_rs_decode_no_erasures.             *)
EXTENDS ReedSolomon

MCCodeSizes == {<<3, 5>>}
=============================================================================
