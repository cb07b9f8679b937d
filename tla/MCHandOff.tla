------------------------------ MODULE MCHandOff ------------------------------
(* HandOff for TLC: its sets are given in the configurations.              *)
EXTENDS HandOff
=============================================================================
