---------------------------- MODULE MCGameServer ----------------------------
(* Instances of GameServer for TLC.                                        *)
EXTENDS GameServer, TLC

CONSTANTS p1, p2,         \* players
          s1, s1b, s2     \* s1 and s1b are both streams of p1

\* The players behind the streams, and the pairs the lobby may match.
ReconnectUidOf   == (s1 :> p1) @@ (s1b :> p1) @@ (s2 :> p2)
ReconnectMatches == {<<p1, p2>>}
BattleUidOf      == (s1 :> p1) @@ (s2 :> p2)
BattleMatches    == {<<p1, p2>>, <<p2, p1>>}

\* The two streams of p1 are interchangeable.
ReconnectSymmetry == Permutations({s1, s1b})
=============================================================================
