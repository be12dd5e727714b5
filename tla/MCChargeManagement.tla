------------------------- MODULE MCChargeManagement -------------------------
(* Instances of ChargeManagement for TLC. *)
EXTENDS ChargeManagement
=============================================================================
