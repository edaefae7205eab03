------------------------------ MODULE MCSystem ------------------------------
(* An instance of System for TLC.                                          *)
EXTENDS System, TLC

CONSTANTS p1, p2,   \* players
          c1, c2,   \* a session of each
          k1, k2,   \* requests
          u1        \* a Subscribe call

MatchUidOf == (c1 :> p1) @@ (c2 :> p2)
=============================================================================
