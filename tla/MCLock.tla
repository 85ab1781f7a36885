------------------------------- MODULE MCLock -------------------------------
(* Instances of Lock for TLC.                                              *)
EXTENDS Lock
CONSTANTS q1, q2, q3, q4
=============================================================================
