----------------------------- MODULE MCSessions -----------------------------
(* Sessions on a small instance: two calls at a time.                      *)
EXTENDS Sessions, TLC
CONSTANTS s1, s2
Symmetry == Permutations({s1, s2})
=============================================================================
