------------------------- MODULE MCChargeLogUpload --------------------------
(* Instances of ChargeLogUpload for TLC. *)
EXTENDS ChargeLogUpload
=============================================================================
