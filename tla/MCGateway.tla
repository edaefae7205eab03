----------------------------- MODULE MCGateway -----------------------------
(* Instances of Gateway for TLC.                                           *)
EXTENDS Gateway, TLC

CONSTANTS s1, s2, a1, a2, c1

SessionSymmetry ==
  Permutations({s1, s2}) \cup Permutations({a1, a2})
=============================================================================
