------------------------------ MODULE MCBleTx ------------------------------
(***************************************************************************)
(* An instance of BleTx for TLC with bytes of two bits: lengths to 3 take  *)
(* one byte, the total has two.                                            *)
(***************************************************************************)
EXTENDS BleTx

MCStreamIds == {0, 1, 2, 6}
MCPayloadSizes == 0..17
=============================================================================
