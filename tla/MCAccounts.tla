----------------------------- MODULE MCAccounts -----------------------------
(* Instances of Accounts for TLC. *)
EXTENDS Accounts, TLC

CONSTANTS r1, r2, n1, n2, n3, c1, c2, i1

(* What accounts are created as in these instances. *)
SomeCreations == {<<"admin", "active">>, <<"user", "disabled">>}

(* No identity is told apart from another, and no property is a liveness    *)
(* property.                                                                *)
Symmetries == Permutations(Requests) \cup Permutations(Names) \cup Permutations(Challenges)
=============================================================================
