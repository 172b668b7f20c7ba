------------------------------ MODULE MCMotor ------------------------------
(***************************************************************************)
(* A stroke of 7 ticks, driven for 7 and 8.                                *)
(***************************************************************************)
EXTENDS Motor
=============================================================================
