-------------------------------- MODULE Room --------------------------------
(***************************************************************************)
(* The class Room of game_server/src/room.{h,cpp} with Player of player.h. *)
(* A room object is a record; each method is an operator that returns the  *)
(* object as the method leaves it.  The methods run under room_mutex_, so  *)
(* GameServer applies each of them in one step.                            *)
(*                                                                         *)
(*   state        state_                                                   *)
(*   player_uids  player_uids_, in the order of the AddPlayer calls        *)
(*   game_id      players_[uid].game_id; 0 is Player's default value and   *)
(*                stands for a uid that players_ does not hold             *)
(*   ready        the uids whose players_[uid].ready is true               *)
(*   frame_id     current_frame_.frame_id                                  *)
(*   raw_inputs   current_frame_.raw_inputs by game id.  An entry holds    *)
(*                the frame number its sender stamped on it instead of the *)
(*                two action bytes; NoInput is an absent key               *)
(***************************************************************************)
EXTENDS Integers, Sequences

CONSTANTS Uids,       \* the players
          MaxFrame    \* bound on frame numbers

NoInput == -1
GameIds == {1, 2}
Frames  == 0 .. MaxFrame
NoInputs == [g \in GameIds |-> NoInput]

RoomStates == {"IDLE", "GAMING"}

\* A room object: what TypeOK of GameServer asks of every object on the heap.
RoomType ==
  [state       : RoomStates,
   player_uids : Seq(Uids),
   game_id     : [Uids -> GameIds \cup {0}],
   ready       : SUBSET Uids,
   frame_id    : Frames,
   raw_inputs  : [GameIds -> Frames \cup {NoInput}]]

NewRoom ==
  [state       |-> "IDLE",
   player_uids |-> << >>,
   game_id     |-> [u \in Uids |-> 0],
   ready       |-> {},
   frame_id    |-> 0,
   raw_inputs  |-> NoInputs]

HasPlayer(rm, u) == rm.game_id[u] # 0

IsFull(rm) == Len(rm.player_uids) >= 2

-----------------------------------------------------------------------------
(* Defects a maintainer could introduce: each replaces the definition of    *)
(* the same name, without suffix, in the mutants of PROJECT.json.           *)

\* The next free id instead of the other side.
AssignGameId_Next(rm) == Len(rm.player_uids) + 2

\* Both players on the side of the first.
AssignGameId_SameSide(rm) ==
  IF rm.player_uids = << >> THEN 1 ELSE rm.game_id[rm.player_uids[1]]

\* The last input of a frame wins.
AcceptsInput_LastWins(rm, u, frame) ==
  /\ rm.state = "GAMING"
  /\ HasPlayer(rm, u)
  /\ frame >= rm.frame_id

\* One player is enough.
CheckAllReady_One(rm) == Len(rm.player_uids) >= 2 /\ rm.ready # {}

\* state_ is not set.
StartGame_StaysIdle(rm) == [rm EXCEPT !.frame_id = 0, !.raw_inputs = NoInputs]
-----------------------------------------------------------------------------

AssignGameId(rm) ==
  IF rm.player_uids = << >> THEN 1
  ELSE IF rm.game_id[rm.player_uids[1]] = 1 THEN 2 ELSE 1

AddPlayer(rm, u) ==
  IF HasPlayer(rm, u) THEN rm
  ELSE [rm EXCEPT !.player_uids = Append(@, u),
                  !.game_id[u]  = AssignGameId(rm)]

\* PushInput drops an input unless it passes all of these checks.  The frame
\* number it carries may lie ahead of the current frame: such an input is
\* stored in the current frame all the same.
AcceptsInput(rm, u, frame) ==
  /\ rm.state = "GAMING"
  /\ HasPlayer(rm, u)
  /\ frame >= rm.frame_id
  /\ rm.raw_inputs[rm.game_id[u]] = NoInput     \* first come, first served

PushInput(rm, u, frame) ==
  IF AcceptsInput(rm, u, frame)
  THEN [rm EXCEPT !.raw_inputs[rm.game_id[u]] = frame]
  ELSE rm

\* The end of Tick, after the broadcast of the current frame.
NextFrame(rm) == [rm EXCEPT !.frame_id = @ + 1, !.raw_inputs = NoInputs]

CheckAllReady(rm) ==
  /\ Len(rm.player_uids) >= 2
  /\ \A u \in Uids : HasPlayer(rm, u) => u \in rm.ready

StartGame(rm) ==
  [rm EXCEPT !.state = "GAMING", !.frame_id = 0, !.raw_inputs = NoInputs]

StopGame(rm) == [rm EXCEPT !.state = "IDLE", !.ready = {}]
=============================================================================
