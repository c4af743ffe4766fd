-------------------------- MODULE MCRequestLimits ---------------------------
(* Instances of RequestLimits for TLC. *)
EXTENDS RequestLimits

CONSTANTS r1, r2, u1, u2, a1
=============================================================================
