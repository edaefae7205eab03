---------------------------- MODULE SessionLife ----------------------------
(***************************************************************************)
(* What the gateway promises the other servers of a session: it comes and  *)
(* goes once; the game stream it opens, one at most, is cancelled before   *)
(* the lobby is told that the player has gone, unless a packet has opened  *)
(* it too late; the lobby is told once, and until then its notifications   *)
(* find the session.                                                       *)
(*                                                                         *)
(* Lobby and System take the sessions of the gateway to be of this kind:   *)
(* Connect is Open, CloseSession is Close, ClientDisconnect follows        *)
(* Disconnect, OpenGameStream is OpenStream, GameStreamCancelled follows   *)
(* Cancel, and `orphan' is theirs too.                                     *)
(***************************************************************************)
CONSTANT Sessions

VARIABLES
  stage,   \* how far the life of a session is
  stream,  \* its call of StreamBattle
  orphan   \* the sessions whose stream was opened after they had closed

vars == <<stage, stream, orphan>>

Init ==
  /\ stage = [s \in Sessions |-> "new"]
  /\ stream = [s \in Sessions |-> "none"]
  /\ orphan = {}

Advance(s, from, to) ==
  /\ stage[s] = from
  /\ stage' = [stage EXCEPT ![s] = to]

Open(s)  == Advance(s, "new", "open") /\ UNCHANGED <<stream, orphan>>
Close(s) == Advance(s, "open", "closing") /\ UNCHANGED <<stream, orphan>>

Cancel(s) ==
  /\ Advance(s, "closing", "cut")
  /\ stream' = [stream EXCEPT ![s] = IF @ = "open" THEN "cancelled" ELSE @]
  /\ UNCHANGED orphan

\* The lobby is told.
Disconnect(s) == Advance(s, "cut", "told") /\ UNCHANGED <<stream, orphan>>

\* No lookup finds the session any more.
Forget(s) == Advance(s, "told", "gone") /\ UNCHANGED <<stream, orphan>>

\* A packet that was read before the end may open the stream after it.
OpenStream(s) ==
  /\ stage[s] # "new"
  /\ stream[s] = "none"
  /\ stream' = [stream EXCEPT ![s] = "open"]
  /\ orphan' = IF stage[s] = "open" THEN orphan ELSE orphan \cup {s}
  /\ UNCHANGED stage

StreamBreaks(s) ==
  /\ stream[s] = "open"
  /\ stream' = [stream EXCEPT ![s] = "broken"]
  /\ UNCHANGED <<stage, orphan>>

Next ==
  \E s \in Sessions :
    \/ Open(s) \/ Close(s) \/ Cancel(s) \/ Disconnect(s) \/ Forget(s)
    \/ OpenStream(s) \/ StreamBreaks(s)

Spec == Init /\ [][Next]_vars
=============================================================================
