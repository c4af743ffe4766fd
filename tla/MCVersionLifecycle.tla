------------------------- MODULE MCVersionLifecycle -------------------------
(* Instances of VersionLifecycle for TLC. *)
EXTENDS VersionLifecycle, TLC

CONSTANTS v1, v2, w1, w2, virustotal, llm

Symmetry == Permutations(Versions) \cup Permutations(Workers)
=============================================================================
