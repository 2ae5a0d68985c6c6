---------------------------- MODULE MCIncidents ----------------------------
(* Two requests in flight on one incident, and a browser's map of it.      *)
EXTENDS IncidentMap, TLC

Symmetry == Permutations(Slots) \union Permutations(Editors)
                \union Permutations(Loads)
============================================================================
