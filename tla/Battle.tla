------------------------------- MODULE Battle -------------------------------
(***************************************************************************)
(* What the game server promises to the players of a room: the seats never *)
(* change; a game starts when both players are ready; each frame takes at  *)
(* most one input of each player and is sent once, after the frame before  *)
(* it, to whoever listens; nothing is sent of a game that is decided; and  *)
(* no room goes away before its game is decided.                           *)
(*                                                                         *)
(* Threads, the mutexes they take and the pointers they hold are not part  *)
(* of the promise: every step here is one a client can see.                *)
(***************************************************************************)
EXTENDS Integers, Sequences

CONSTANTS Uids,      \* the players
          Streams,   \* what a client listens on
          UidOf,     \* whose stream it is
          RoomIds,
          Frames,    \* the frame numbers clients stamp on inputs
          NoInput,
          None

VARIABLES
  open,        \* the rooms that have not gone away
  seats,       \* the two players of a room, 1P first; empty before it is made
  ready,       \* who is ready
  playing,     \* whether a game runs
  frame,       \* the frame that the game collects
  inputs,      \* what it has collected, by seat
  winners,     \* who has been announced to have won, since the last start
  listening,   \* the streams that frames are sent to
  heard        \* the frame a stream has to hear next of a room, or None

game == <<ready, playing, frame, inputs, winners>>
vars == <<open, seats, game, listening, heard>>

Nothing == [n \in {1, 2} |-> NoInput]

Plays(u, r) == \E n \in DOMAIN seats[r] : seats[r][n] = u

Init ==
  /\ open = {}
  /\ seats = [r \in RoomIds |-> << >>]
  /\ ready = [r \in RoomIds |-> {}]
  /\ playing = [r \in RoomIds |-> FALSE]
  /\ frame = [r \in RoomIds |-> 0]
  /\ inputs = [r \in RoomIds |-> Nothing]
  /\ winners = [r \in RoomIds |-> {}]
  /\ listening = {}
  /\ heard = [s \in Streams |-> [r \in RoomIds |-> None]]

\* A room is made once, for two players.
Open(r, a, b) ==
  /\ seats[r] = << >>
  /\ a # b
  /\ open' = open \cup {r}
  /\ seats' = [seats EXCEPT ![r] = <<a, b>>]
  /\ UNCHANGED <<game, listening, heard>>

Ready(r, u) ==
  /\ Plays(u, r)
  /\ ready' = [ready EXCEPT ![r] = @ \cup {u}]
  /\ UNCHANGED <<open, seats, playing, frame, inputs, winners, listening, heard>>

Send(r, n) ==
  heard' = [s \in Streams |->
              IF s \in listening /\ Plays(UidOf[s], r)
              THEN [heard[s] EXCEPT ![r] = n]
              ELSE heard[s]]

\* Both have been ready: they still are, or somebody has ended the game since.
Start(r) ==
  /\ ~playing[r]
  /\ \A u \in Uids : Plays(u, r) => u \in ready[r] \/ winners[r] # {}
  /\ seats[r] # << >>
  /\ playing' = [playing EXCEPT ![r] = TRUE]
  /\ frame' = [frame EXCEPT ![r] = 0]
  /\ inputs' = [inputs EXCEPT ![r] = Nothing]
  /\ winners' = [winners EXCEPT ![r] = {}]
  /\ Send(r, 0)
  /\ UNCHANGED <<open, seats, ready, listening>>

\* The first input of a player for a frame counts, unless it is stamped for an
\* earlier one.
Input(r, n, f) ==
  /\ playing[r]
  /\ n \in DOMAIN seats[r]
  /\ inputs[r][n] = NoInput
  /\ f >= frame[r]
  /\ inputs' = [inputs EXCEPT ![r][n] = f]
  /\ UNCHANGED <<open, seats, ready, playing, frame, winners, listening, heard>>

Tick(r) ==
  /\ playing[r]
  /\ frame' = [frame EXCEPT ![r] = @ + 1]
  /\ inputs' = [inputs EXCEPT ![r] = Nothing]
  /\ Send(r, frame[r] + 1)
  /\ UNCHANGED <<open, seats, ready, playing, winners, listening>>

\* The players have to be ready again for another game.
Decide(r, w) ==
  /\ seats[r] # << >>
  /\ winners' = [winners EXCEPT ![r] = @ \cup {w}]
  /\ playing' = [playing EXCEPT ![r] = FALSE]
  /\ ready' = [ready EXCEPT ![r] = {}]
  /\ UNCHANGED <<open, seats, frame, inputs, listening, heard>>

\* A game that has started again since it was decided loses its room too.
GoAway(r) ==
  /\ winners[r] # {} \/ playing[r]
  /\ open' = open \ {r}
  /\ UNCHANGED <<seats, game, listening, heard>>

\* A player listens on one stream, the last; it has heard nothing yet.
Listen(s) ==
  /\ \A r \in RoomIds : heard[s][r] = None
  /\ listening' = {t \in listening : UidOf[t] # UidOf[s]} \cup {s}
  /\ UNCHANGED <<open, seats, game, heard>>

Leave(u) ==
  /\ listening' = {s \in listening : UidOf[s] # u}
  /\ UNCHANGED <<open, seats, game, heard>>

Next ==
  \/ \E r \in RoomIds :
       \/ \E a, b \in Uids : Open(r, a, b)
       \/ \E u \in Uids : Ready(r, u) \/ Decide(r, u)
       \/ \E n \in {1, 2}, f \in Frames : Input(r, n, f)
       \/ Start(r)
       \/ Tick(r)
       \/ GoAway(r)
  \/ \E s \in Streams : Listen(s)
  \/ \E u \in Uids : Leave(u)

Spec == Init /\ [][Next]_vars
=============================================================================
