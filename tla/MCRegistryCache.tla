-------------------------- MODULE MCRegistryCache ---------------------------
(* Instances of RegistryCache for TLC. *)
EXTENDS RegistryCache

CONSTANTS p1, p2
=============================================================================
