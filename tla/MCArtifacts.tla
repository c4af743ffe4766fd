---------------------------- MODULE MCArtifacts ----------------------------
(* A small instance of Artifacts for TLC. *)
EXTENDS Artifacts, TLC

CONSTANTS c1, c2, c3

(* Two commits have their first seven digits in common. *)
FirstDigits == [c \in {c1, c2, c3} |-> IF c = c3 THEN "b" ELSE "a"]

(* Versions and processes are interchangeable, and those two commits. *)
Symmetries == Permutations(Versions) \cup Permutations(Procs) \cup Permutations({c1, c2})
=============================================================================
