-------------------------- MODULE MCAccountAccess --------------------------
(***************************************************************************)
(* Two workers, an account, a superuser or not; two groups that take two   *)
(* names and one of two permissions or none.                               *)
(***************************************************************************)
EXTENDS AccountAccess, TLC

CONSTANTS w1, w2, alice, n1, n2, p, q

Permissions == {{}, {p}, {q}}
Symmetry == Permutations({w1, w2}) \cup Permutations({n1, n2})
=============================================================================
