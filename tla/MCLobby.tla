------------------------------ MODULE MCLobby ------------------------------
(* Instances of Lobby for TLC.                                             *)
EXTENDS Lobby, TLC

CONSTANTS p1, p2,         \* players
          c1, c1b, c2,    \* c1 and c1b are both sessions of p1
          k1, k2, k3, k4, \* requests
          n1, n2,         \* nicknames
          u1, u2          \* Subscribe calls

PresenceUidOf == (c1 :> p1) @@ (c1b :> p1) @@ (c2 :> p2)
PushUidOf     == (c1 :> p1) @@ (c2 :> p2)

PresenceSymmetry ==
  Permutations({k1, k2, k3}) \cup Permutations({c1, c1b})
=============================================================================
