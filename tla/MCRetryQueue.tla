---------------------------- MODULE MCRetryQueue ----------------------------
(* A few submissions and overlapping passes.                               *)
EXTENDS RetryQueue, TLC

Symmetry == Permutations(Entries) \union Permutations(Passes)
============================================================================
