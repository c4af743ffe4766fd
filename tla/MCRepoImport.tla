---------------------------- MODULE MCRepoImport ----------------------------
(* Small instances of RepoImport for TLC. *)
EXTENDS RepoImport, TLC

CONSTANTS x1, x2

(* Two versions of a plugin. *)
TwoVersions == {[key |-> "k", author |-> "a", version |-> x] : x \in {x1, x2}}

(* A plugin, and the same one by another author, with a version of its own. *)
TwoAuthors  == {[key |-> "k", author |-> x, version |-> x] : x \in {x1, x2}}

(* Repositories, imports, reviewers and contents are interchangeable. *)
Symmetries == Permutations(Repos) \cup Permutations(Imports) \cup Permutations(Reviewers)
                  \cup Permutations({x1, x2})
=============================================================================
