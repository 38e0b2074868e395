---------------------------- MODULE MCSuggestions ----------------------------
(* Instances of Suggestions for TLC. *)
EXTENDS Suggestions, TLC

CONSTANTS s1, s2, v1, v2, m1, m2, w1, w2, w3

Symmetric == Permutations({v1, v2}) \cup Permutations(Workers)
=============================================================================
