---------------------------- MODULE Matchmaking ----------------------------
(***************************************************************************)
(* What the lobby promises to players who ask for a game: at most one      *)
(* request waits; the next request of another player is matched with it;   *)
(* a request is matched at most once, never with a request of the same     *)
(* player, and both players of a match are eventually told how it ended,   *)
(* unless a restart has forgotten it.                                      *)
(***************************************************************************)
CONSTANTS Calls,   \* requests, each of them made once
          Uids,    \* the players
          None

VARIABLES who,       \* the player who made a request, or None
          waiting,   \* the request that waits, or None
          matches,   \* the pairs of requests that have been matched
          answered   \* the requests whose players have been told, or forgotten

vars == <<who, waiting, matches, answered>>

Init ==
  /\ who = [k \in Calls |-> None]
  /\ waiting = None
  /\ matches = {}
  /\ answered = {}

Matched(k) == \E m \in matches : k \in {m[1], m[2]}

Ask(k, u) ==
  /\ who[k] = None
  /\ who' = [who EXCEPT ![k] = u]
  /\ UNCHANGED <<waiting, matches, answered>>

Wait(k) ==
  /\ who[k] # None
  /\ waiting = None
  /\ ~Matched(k)
  /\ waiting' = k
  /\ UNCHANGED <<who, matches, answered>>

Match(k) ==
  /\ waiting # None
  /\ who[k] \notin {None, who[waiting]}
  /\ ~Matched(k)
  /\ matches' = matches \cup {<<waiting, k>>}
  /\ waiting' = None
  /\ UNCHANGED <<who, answered>>

\* The player cancels, or leaves.
Withdraw ==
  /\ waiting' = None
  /\ UNCHANGED <<who, matches, answered>>

Answer(k) ==
  /\ Matched(k)
  /\ answered' = answered \cup {k}
  /\ UNCHANGED <<who, waiting, matches>>

\* Nobody waits any more, and who has been matched is not told.
Restart ==
  /\ waiting' = None
  /\ answered' = answered \cup {k \in Calls : Matched(k)}
  /\ UNCHANGED <<who, matches>>

Next ==
  \/ \E k \in Calls : \/ \E u \in Uids : Ask(k, u)
                      \/ Wait(k)
                      \/ Match(k)
                      \/ Answer(k)
  \/ Withdraw
  \/ Restart

SafeSpec == Init /\ [][Next]_vars

Spec == SafeSpec /\ \A k \in Calls : WF_vars(Answer(k))
=============================================================================
