------------------------------ MODULE MCLogin ------------------------------
(* Instances of Login for TLC.                                             *)
EXTENDS Login, TLC

CONSTANTS r1, r2, r3,       \* requests
          n1, n2,           \* usernames
          v1, v2,           \* passwords and e-mail addresses
          d1, d2            \* connections of the pool

LoginSymmetry ==
  Permutations({r1, r2, r3}) \cup Permutations({n1, n2})
    \cup Permutations({v1, v2}) \cup Permutations({d1, d2})
=============================================================================
