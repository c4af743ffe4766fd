-------------------------- MODULE MCRuntimeConfig ---------------------------
(* Instances of RuntimeConfig for TLC. *)
EXTENDS RuntimeConfig

CONSTANTS p1, p2
=============================================================================
