-------------------------- MODULE GameServerProofs --------------------------
(***************************************************************************)
(* Safety of GameServer for every number of players, streams, rooms and    *)
(* frames.                                                                 *)
(***************************************************************************)
EXTENDS GameServer, ListLemmas, SequenceTheorems, TLAPS

-----------------------------------------------------------------------------
(* The inductive invariant.                                                 *)

\* Between CreateRoom and the end of its loop the players u and v move from
\* `adding' to the seats of the room.
FirstSide(u)    == [x \in Uids |-> IF x = u THEN 1 ELSE 0]
BothSides(u, v) == [x \in Uids |-> IF x = u THEN 1 ELSE IF x = v THEN 2 ELSE 0]

SeatingOf(rm, add, u, v) ==
  \/ /\ rm.player_uids = << >>
     /\ add = <<u, v>>
     /\ rm.game_id = [x \in Uids |-> 0]
  \/ /\ rm.player_uids = <<u>>
     /\ add = <<v>>
     /\ rm.game_id = FirstSide(u)
  \/ /\ rm.player_uids = <<u, v>>
     /\ add = << >>
     /\ rm.game_id = BothSides(u, v)

Empty(rm) == rm.player_uids = << >> /\ rm.game_id = [x \in Uids |-> 0]

Seating ==
  \A r \in RoomIds :
    \/ r >= next_room_id /\ Empty(room[r]) /\ adding[r] = << >>
    \/ /\ r < next_room_id
       /\ \E u, v \in Uids : u # v /\ SeatingOf(room[r], adding[r], u, v)

\* Only two players play, whoever destroys the room meanwhile.
Games ==
  /\ \A r \in RoomIds : room[r].state = "GAMING" => Len(room[r].player_uids) = 2
  /\ loop.pc \in {"tick", "start"} => loop.at \in RoomIds
  /\ loop.pc = "tick" => room[loop.at].frame_id < MaxFrame
  /\ loop.pc = "start" => Len(room[loop.at].player_uids) = 2

\* A room pointer that a handler or the map holds, however old it is by now,
\* points to a room in which the player of the handler or the entry has a seat.
MappingHasSeat ==
  \A u \in Uids : uid_to_room[u] # None => HasPlayer(room[uid_to_room[u]], u)

InRoom(s) == h[s].pc \in {"map", "ready", "push", "stop", "destroy", "unmap", "leave"}

PointersOf(s) ==
  /\ InRoom(s) => h[s].at \in RoomIds /\ HasPlayer(room[h[s].at], UidOf[s])
  /\ h[s].pc \in {"new", "read"} => ~h[s].closing
  /\ h[s].pc = "push" => h[s].arg \in Frames
  /\ h[s].pc = "stop" => h[s].arg \in Uids
  /\ h[s].pc = "stop" /\ h[s].closing =>
        HasPlayer(room[h[s].at], h[s].arg) /\ h[s].arg # UidOf[s]

Pointers ==
  /\ \A s \in Streams : PointersOf(s)
  /\ MappingHasSeat

IInv == TypeOK /\ Seating /\ Games /\ Pointers

-----------------------------------------------------------------------------
(* What the steps do to the rooms.                                          *)

\* Every step but CreateRoom and CreateRoomAdds leaves the seats alone.
SameSeats ==
  /\ \A r \in RoomIds : /\ room'[r].player_uids = room[r].player_uids
                        /\ room'[r].game_id = room[r].game_id
  /\ UNCHANGED <<adding, next_room_id>>

\* Every step of the game server after a room has been filled keeps the
\* players of every room and their sides.
LEMMA SeatsKept ==
  ASSUME TypeOK, Games, Pointers, [Next]_vars,
         ~(\E m \in Matches : CreateRoom(m)),
         ~(\E r \in RoomIds : CreateRoomAdds(r))
  PROVE  SameSeats
PROOF
  <1> USE DEF TypeOK, Games, Pointers, PointersOf, InRoom, RoomType
  <1>1. CASE UNCHANGED <<room, adding, next_room_id>>
    BY <1>1 DEF SameSeats
  <1>2. ASSUME NEW s \in Streams, SetReady(s) PROVE SameSeats
    BY <1>2 DEF SetReady, SameSeats, control
  <1>3. ASSUME NEW s \in Streams, RoomPushInput(s) PROVE SameSeats
    BY <1>3 DEF RoomPushInput, PushInput, SameSeats, control
  <1>4. ASSUME NEW s \in Streams, RoomStopGame(s) PROVE SameSeats
    BY <1>4 DEF RoomStopGame, StopGame, SameSeats, control
  <1>5. CASE RoomTick
    BY <1>5 DEF RoomTick, NextFrame, SameSeats, control
  <1>6. CASE RoomStartGame
    BY <1>6 DEF RoomStartGame, StartGame, SameSeats, control
  <1>7. QED
    BY <1>1, <1>2, <1>3, <1>4, <1>5, <1>6
    DEF Next, Lobby, Client, Handler, RunLoop, RegisterSession, EnterRoom,
        MapUidToRoom, PlayerReady, FrameInput, GameOver, DestroyRoomGone,
        DestroyRoom, UnmapUid, RemoveRoom, StreamEnd, LeaveGame,
        LeaveIdleRoom, UnmapSelf, UnregisterSession, LoopSnapshot,
        LoopSeesGaming, LoopSeesReady, LoopPasses, RoomTickReturns,
        LoopSleeps, vars, manager, control

\* AddPlayer takes no seat from anyone.
LEMMA AddPlayerKeeps ==
  ASSUME NEW rm \in RoomType, NEW u \in Uids, NEW x \in Uids, rm.game_id[x] # 0
  PROVE  AddPlayer(rm, u).game_id[x] = rm.game_id[x]
PROOF
  <1>1. CASE HasPlayer(rm, u)
    BY <1>1 DEF AddPlayer
  <1>2. CASE ~HasPlayer(rm, u)
    <2>1. x # u
      BY <1>2 DEF HasPlayer
    <2>2. AddPlayer(rm, u).game_id = [rm.game_id EXCEPT ![u] = AssignGameId(rm)]
      BY <1>2 DEF AddPlayer, RoomType
    <2>3. QED
      BY <2>1, <2>2 DEF RoomType
  <1>3. QED
    BY <1>1, <1>2

\* AddPlayer seats the first player as 1P.
LEMMA FirstPlayer ==
  ASSUME NEW rm \in RoomType, NEW u \in Uids, Empty(rm)
  PROVE  /\ AddPlayer(rm, u).player_uids = <<u>>
         /\ AddPlayer(rm, u).game_id = FirstSide(u)
PROOF
  <1>1. ~HasPlayer(rm, u) /\ AssignGameId(rm) = 1
    BY DEF Empty, HasPlayer, AssignGameId
  <1>2. AddPlayer(rm, u) =
          [rm EXCEPT !.player_uids = Append(@, u), !.game_id[u] = 1]
    BY <1>1 DEF AddPlayer
  <1>3. Append(rm.player_uids, u) = <<u>>
    BY DEF Empty
  <1>4. [rm.game_id EXCEPT ![u] = 1] = FirstSide(u)
    BY DEF Empty, FirstSide
  <1>5. QED
    BY <1>2, <1>3, <1>4 DEF RoomType

\* AddPlayer seats the second player as 2P.
LEMMA SecondPlayer ==
  ASSUME NEW rm \in RoomType, NEW u \in Uids, NEW v \in Uids, u # v,
         rm.player_uids = <<u>>,
         rm.game_id = FirstSide(u)
  PROVE  /\ AddPlayer(rm, v).player_uids = <<u, v>>
         /\ AddPlayer(rm, v).game_id = BothSides(u, v)
PROOF
  <1>1. ~HasPlayer(rm, v) /\ AssignGameId(rm) = 2
    <2>1. rm.game_id[v] = 0 /\ rm.game_id[u] = 1
      BY DEF FirstSide
    <2>2. rm.player_uids # << >> /\ rm.player_uids[1] = u
      OBVIOUS
    <2>3. QED
      BY <2>1, <2>2 DEF HasPlayer, AssignGameId
  <1>2. AddPlayer(rm, v) =
          [rm EXCEPT !.player_uids = Append(@, v), !.game_id[v] = 2]
    BY <1>1 DEF AddPlayer
  <1>3. Append(rm.player_uids, v) = <<u, v>>
    BY AppendSecond
  <1>4. [rm.game_id EXCEPT ![v] = 2] = BothSides(u, v)
    BY DEF FirstSide, BothSides
  <1>5. QED
    BY <1>2, <1>3, <1>4 DEF RoomType

\* No room has a player before CreateRoom creates one.
LEMMA SeatingInit == Init => Seating
  BY DEF Init, Seating, Empty, NewRoom, RoomIds

\* CreateRoom seats its two different players in the order of the list, and no
\* other step touches a seat.
LEMMA SeatingOfStays ==
  ASSUME TypeOK, Games, Pointers, [Next]_vars, ServerAssumption,
         NEW r \in RoomIds, r < next_room_id,
         NEW u \in Uids, NEW v \in Uids, u # v,
         SeatingOf(room[r], adding[r], u, v)
  PROVE  /\ SeatingOf(room'[r], adding'[r], u, v)
         /\ adding[r] = << >> => adding'[r] = << >>
         /\ r < next_room_id'
PROOF
  <1> DEFINE Goal == /\ SeatingOf(room'[r], adding'[r], u, v)
                     /\ adding[r] = << >> => adding'[r] = << >>
                     /\ r < next_room_id'
  <1> USE DEF TypeOK
  <1>a. next_room_id \in Int /\ r \in Int
    BY ServerAssumption DEF ServerAssumption, RoomIds
  <1>1. ASSUME NEW m \in Matches, CreateRoom(m) PROVE Goal
    <2>1. /\ r # next_room_id
          /\ next_room_id' = next_room_id + 1
          /\ room'[r] = room[r] /\ adding'[r] = adding[r]
      BY <1>1, <1>a DEF CreateRoom
    <2>2. r < next_room_id'
      BY <1>a, <2>1
    <2>3. QED
      BY <2>1, <2>2
  <1>2. ASSUME NEW q \in RoomIds, CreateRoomAdds(q) PROVE Goal
    <2>1. /\ adding[q] # << >>
          /\ room'[q] = AddPlayer(room[q], Head(adding[q]))
          /\ adding'[q] = Tail(adding[q])
          /\ q # r => room'[r] = room[r] /\ adding'[r] = adding[r]
          /\ next_room_id' = next_room_id
      BY <1>2 DEF CreateRoomAdds
    <2>2. CASE q # r
      BY <2>1, <2>2
    <2>3. CASE q = r /\ adding[r] = <<u, v>>
      <3>0. room[r] \in RoomType /\ Empty(room[r])
        BY <2>3 DEF SeatingOf, Empty
      <3>1. Head(adding[r]) = u /\ Tail(adding[r]) = <<v>>
        BY <2>3
      <3>2. /\ room'[r].player_uids = <<u>>
            /\ room'[r].game_id = FirstSide(u)
        BY <2>1, <2>3, <3>0, <3>1, FirstPlayer
      <3>3. SeatingOf(room'[r], adding'[r], u, v)
        BY <2>1, <2>3, <3>1, <3>2 DEF SeatingOf
      <3>4. QED
        BY <2>1, <2>3, <3>3
    <2>4. CASE q = r /\ adding[r] = <<v>>
      <3>0. /\ room[r] \in RoomType
            /\ room[r].player_uids = <<u>>
            /\ room[r].game_id = FirstSide(u)
        BY <2>4 DEF SeatingOf
      <3>1. Head(adding[r]) = v /\ Tail(adding[r]) = << >>
        BY <2>4
      <3>2. /\ room'[r].player_uids = <<u, v>>
            /\ room'[r].game_id = BothSides(u, v)
        BY <2>1, <2>4, <3>0, <3>1, SecondPlayer
      <3>3. SeatingOf(room'[r], adding'[r], u, v)
        BY <2>1, <2>4, <3>1, <3>2 DEF SeatingOf
      <3>4. QED
        BY <2>1, <2>4, <3>3
    <2>5. QED
      BY <2>1, <2>2, <2>3, <2>4 DEF SeatingOf
  <1>3. CASE SameSeats
    BY <1>3 DEF SameSeats, SeatingOf
  <1>4. QED
    BY <1>1, <1>2, <1>3, SeatsKept

\* So every room stays untouched or in the making for two different players.
LEMMA SeatingStep ==
  ASSUME TypeOK, Games, Pointers, Seating, [Next]_vars, ServerAssumption
  PROVE  Seating'
PROOF
  <1> SUFFICES ASSUME NEW r \in RoomIds
               PROVE  \/ r >= next_room_id' /\ Empty(room'[r]) /\ adding'[r] = << >>
                      \/ /\ r < next_room_id'
                         /\ \E u, v \in Uids :
                              u # v /\ SeatingOf(room'[r], adding'[r], u, v)
    BY DEF Seating
  <1>a. MaxRooms \in Nat /\ next_room_id \in Int /\ r \in Int
    BY ServerAssumption DEF ServerAssumption, RoomIds, TypeOK
  <1>1. CASE r < next_room_id
    BY <1>a, <1>1, SeatingOfStays DEF Seating
  <1>2. CASE r >= next_room_id /\ Empty(room[r]) /\ adding[r] = << >>
    <2>1. ASSUME NEW m \in Matches, CreateRoom(m)
          PROVE  \/ r >= next_room_id' /\ Empty(room'[r]) /\ adding'[r] = << >>
                 \/ /\ r < next_room_id'
                    /\ \E u, v \in Uids :
                         u # v /\ SeatingOf(room'[r], adding'[r], u, v)
      <3>1. /\ next_room_id' = next_room_id + 1
            /\ r # next_room_id => room'[r] = room[r] /\ adding'[r] = adding[r]
            /\ r = next_room_id => room'[r] = NewRoom /\ adding'[r] = m
        BY <2>1 DEF CreateRoom, TypeOK
      <3>2. CASE r = next_room_id
        <4>1. PICK u \in Uids, v \in Uids : m = <<u, v>> /\ u # v
          BY ServerAssumption DEF ServerAssumption
        <4>2. SeatingOf(NewRoom, <<u, v>>, u, v)
          BY DEF SeatingOf, NewRoom
        <4>3. r < next_room_id'
          BY <1>a, <3>1, <3>2
        <4>4. QED
          BY <3>1, <3>2, <4>1, <4>2, <4>3
      <3>3. CASE r # next_room_id
        <4>1. r >= next_room_id'
          BY <1>a, <1>2, <3>1, <3>3
        <4>2. QED
          BY <1>2, <3>1, <3>3, <4>1
      <3>4. QED
        BY <3>2, <3>3
    <2>2. ASSUME NEW q \in RoomIds, CreateRoomAdds(q)
          PROVE  r >= next_room_id' /\ Empty(room'[r]) /\ adding'[r] = << >>
      BY <1>2, <2>2 DEF CreateRoomAdds, TypeOK
    <2>3. CASE SameSeats
      BY <1>2, <2>3 DEF SameSeats, Empty
    <2>4. QED
      BY <2>1, <2>2, <2>3, SeatsKept
  <1>3. QED
    BY <1>a, <1>1, <1>2 DEF Seating

-----------------------------------------------------------------------------
(* Types.                                                                   *)

\* A frame without inputs has the type of raw_inputs.
LEMMA NoInputsType ==
  MaxFrame \in Nat => NoInputs \in [GameIds -> Frames \cup {NoInput}] /\ 0 \in Frames
  BY DEF NoInputs, Frames

\* The constructor of Room returns a room.
LEMMA NewRoomType == ASSUME MaxFrame \in Nat PROVE NewRoom \in RoomType
PROOF
  <1>1. << >> \in Seq(Uids) /\ [u \in Uids |-> 0] \in [Uids -> GameIds \cup {0}]
    OBVIOUS
  <1>2. QED
    BY <1>1, NoInputsType DEF NewRoom, RoomType, RoomStates

\* AddPlayer returns a room, whether or not the player has a seat already.
LEMMA AddPlayerType ==
  ASSUME NEW rm \in RoomType, NEW u \in Uids
  PROVE  AddPlayer(rm, u) \in RoomType
PROOF
  <1>1. AssignGameId(rm) \in GameIds \cup {0}
    BY DEF AssignGameId, GameIds
  <1>2. rm.player_uids \in Seq(Uids) /\ rm.game_id \in [Uids -> GameIds \cup {0}]
    BY DEF RoomType
  <1>3. /\ Append(rm.player_uids, u) \in Seq(Uids)
        /\ [rm.game_id EXCEPT ![u] = AssignGameId(rm)] \in [Uids -> GameIds \cup {0}]
    BY <1>1, <1>2
  <1>4. QED
    BY <1>3 DEF AddPlayer, RoomType

\* The unlocked write of PlayerReadyReq leaves a room.
LEMMA SetReadyType ==
  ASSUME NEW rm \in RoomType, NEW u \in Uids
  PROVE  [rm EXCEPT !.ready = @ \cup {u}] \in RoomType
  BY DEF RoomType

\* PushInput returns a room, whether it stores or drops the input.
LEMMA PushInputType ==
  ASSUME NEW rm \in RoomType, NEW u \in Uids, NEW f \in Frames
  PROVE  PushInput(rm, u, f) \in RoomType
  BY DEF PushInput, RoomType

\* StopGame returns a room.
LEMMA StopGameType ==
  ASSUME NEW rm \in RoomType PROVE StopGame(rm) \in RoomType
  BY DEF StopGame, RoomType, RoomStates

\* StartGame returns a room.
LEMMA StartGameType ==
  ASSUME NEW rm \in RoomType, MaxFrame \in Nat PROVE StartGame(rm) \in RoomType
  BY NoInputsType DEF StartGame, RoomType, RoomStates

\* The end of Tick returns a room as long as the frame number has not reached
\* its bound.
LEMMA NextFrameType ==
  ASSUME NEW rm \in RoomType, MaxFrame \in Nat, rm.frame_id < MaxFrame
  PROVE  NextFrame(rm) \in RoomType
PROOF
  <1>1. rm.frame_id + 1 \in Frames
    BY DEF RoomType, Frames
  <1>2. QED
    BY <1>1, NoInputsType DEF NextFrame, RoomType

\* Moving a handler to another step keeps its locals in shape.
LEMMA GotoType ==
  ASSUME NEW x \in HandlerType, NEW pc \in HandlerPc
  PROVE  [x EXCEPT !.pc = pc] \in HandlerType
  BY DEF HandlerType

\* So does taking a room pointer and an argument along,
LEMMA GotoWithType ==
  ASSUME NEW x \in HandlerType, NEW pc \in HandlerPc,
         NEW at \in RoomIds \cup {None}, NEW arg \in Frames \cup Uids \cup {None}
  PROVE  [x EXCEPT !.pc = pc, !.at = at, !.arg = arg] \in HandlerType
  BY DEF HandlerType

\* fetching the list of players DestroyRoom has to unmap,
LEMMA TodoType ==
  ASSUME NEW x \in HandlerType, NEW pc \in HandlerPc, NEW todo \in Seq(Uids)
  PROVE  /\ [x EXCEPT !.pc = pc, !.todo = todo] \in HandlerType
         /\ [x EXCEPT !.todo = todo] \in HandlerType
  BY DEF HandlerType

\* and noticing that the stream has ended.
LEMMA ClosingType ==
  ASSUME NEW x \in HandlerType, NEW pc \in HandlerPc, NEW at \in RoomIds \cup {None}
  PROVE  [x EXCEPT !.closing = TRUE, !.at = at, !.pc = pc] \in HandlerType
  BY DEF HandlerType

\* A handler back at stream->Read has locals in shape.
LEMMA RestType == ASSUME NEW s PROVE Rest(s) \in HandlerType
PROOF
  <1>1. << >> \in Seq(Uids)
    OBVIOUS
  <1>2. QED
    BY <1>1 DEF Rest, Idle, HandlerType, HandlerPc

\* So does one that DestroyRoom has returned to.
LEMMA FinishType ==
  ASSUME NEW s, h[s] \in HandlerType PROVE Finish(s) \in HandlerType
PROOF
  <1>1. "unmap_self" \in HandlerPc /\ None \in RoomIds \cup {None}
          /\ None \in Frames \cup Uids \cup {None}
    BY DEF HandlerPc
  <1>2. QED
    BY <1>1, GotoWithType, RestType DEF Finish

\* What the handlers hold when they take a step.
LEMMA HeldTypes ==
  ASSUME IInv, ServerAssumption
  PROVE  /\ MaxFrame \in Nat
         /\ \A s \in Streams : h[s] \in HandlerType /\ UidOf[s] \in Uids
         /\ \A s \in Streams : InRoom(s) => h[s].at \in RoomIds
         /\ \A r \in RoomIds : room[r] \in RoomType
         /\ \A u \in Uids : RoomByUid(u) \in RoomIds \cup {None}
PROOF
  <1>1. MaxFrame \in Nat /\ UidOf \in [Streams -> Uids]
    BY ServerAssumption DEF ServerAssumption
  <1>2. QED
    BY <1>1 DEF IInv, TypeOK, Pointers, PointersOf, RoomByUid

\* Every step leaves a room under every id.
LEMMA RoomTypeStep ==
  ASSUME IInv, [Next]_vars, ServerAssumption
  PROVE  room' \in [RoomIds -> RoomType]
PROOF
  <1>0. room \in [RoomIds -> RoomType]
    BY DEF IInv, TypeOK
  <1> USE <1>0, HeldTypes
  <1>1. CASE UNCHANGED room
    BY <1>1
  <1>2. ASSUME NEW m \in Matches, CreateRoom(m)
        PROVE  room' \in [RoomIds -> RoomType]
    BY <1>2, NewRoomType DEF CreateRoom
  <1>3. ASSUME NEW r \in RoomIds, CreateRoomAdds(r)
        PROVE  room' \in [RoomIds -> RoomType]
    <2>1. Head(adding[r]) \in Uids
      BY <1>3 DEF CreateRoomAdds, IInv, TypeOK
    <2>2. QED
      BY <1>3, <2>1, AddPlayerType DEF CreateRoomAdds
  <1>4. ASSUME NEW s \in Streams, SetReady(s)
        PROVE  room' \in [RoomIds -> RoomType]
    BY <1>4, SetReadyType DEF SetReady, InRoom
  <1>5. ASSUME NEW s \in Streams, RoomPushInput(s)
        PROVE  room' \in [RoomIds -> RoomType]
    <2>1. h[s].at \in RoomIds /\ h[s].arg \in Frames
      BY <1>5 DEF RoomPushInput, IInv, Pointers, PointersOf, InRoom
    <2>2. QED
      BY <1>5, <2>1, PushInputType DEF RoomPushInput
  <1>6. ASSUME NEW s \in Streams, RoomStopGame(s)
        PROVE  room' \in [RoomIds -> RoomType]
    BY <1>6, StopGameType DEF RoomStopGame, InRoom
  <1>7. CASE RoomTick
    <2>1. loop.at \in RoomIds /\ room[loop.at].frame_id < MaxFrame
      BY <1>7 DEF RoomTick, IInv, Games
    <2>2. QED
      BY <1>7, <2>1, NextFrameType DEF RoomTick
  <1>8. CASE RoomStartGame
    <2>1. loop.at \in RoomIds
      BY <1>8 DEF RoomStartGame, IInv, Games
    <2>2. QED
      BY <1>8, <2>1, StartGameType DEF RoomStartGame
  <1>9. QED
    BY <1>1, <1>2, <1>3, <1>4, <1>5, <1>6, <1>7, <1>8
    DEF Next, Lobby, Client, Handler, RunLoop, RegisterSession, EnterRoom,
        MapUidToRoom, PlayerReady, FrameInput, GameOver, DestroyRoomGone,
        DestroyRoom, UnmapUid, RemoveRoom, StreamEnd, LeaveGame,
        LeaveIdleRoom, UnmapSelf, UnregisterSession, LoopSnapshot,
        LoopSeesGaming, LoopSeesReady, LoopPasses, RoomTickReturns,
        LoopSleeps, vars, manager

\* Every step leaves every handler's locals in shape.
LEMMA HandlerTypeStep ==
  ASSUME IInv, [Next]_vars, ServerAssumption
  PROVE  h' \in [Streams -> HandlerType]
PROOF
  <1>0. h \in [Streams -> HandlerType]
    BY DEF IInv, TypeOK
  <1>a. HandlerPc = {"new", "read", "map", "ready", "push", "stop", "destroy",
                     "unmap", "leave", "unmap_self", "unregister", "done"}
    BY DEF HandlerPc
  <1> USE <1>0, HeldTypes
  <1>1. CASE UNCHANGED h
    BY <1>1
  <1>2. ASSUME NEW s \in Streams,
               RegisterSession(s) \/ RoomStopGame(s) \/ UnmapSelf(s)
                 \/ UnregisterSession(s)
        PROVE  h' \in [Streams -> HandlerType]
    <2>1. \A pc \in HandlerPc : [h[s] EXCEPT !.pc = pc] \in HandlerType
      BY GotoType
    <2>2. QED
      BY <1>2, <1>a, <2>1
      DEF RegisterSession, RoomStopGame, UnmapSelf, UnregisterSession, Goto
  <1>3. ASSUME NEW s \in Streams, NEW pc \in HandlerPc,
               NEW r \in RoomIds \cup {None},
               NEW arg \in Frames \cup Uids \cup {None},
               GotoWith(s, pc, r, arg)
        PROVE  h' \in [Streams -> HandlerType]
    <2>1. [h[s] EXCEPT !.pc = pc, !.at = r, !.arg = arg] \in HandlerType
      BY GotoWithType
    <2>2. QED
      BY <1>3, <2>1 DEF GotoWith
  <1>4. ASSUME NEW s \in Streams, NEW r \in RoomIds,
               EnterRoom(s, r) \/ PlayerReady(s, r)
        PROVE  h' \in [Streams -> HandlerType]
    BY <1>3, <1>4, <1>a DEF EnterRoom, PlayerReady
  <1>5. ASSUME NEW s \in Streams, NEW f \in InputFrames, FrameInput(s, f)
        PROVE  h' \in [Streams -> HandlerType]
    BY <1>3, <1>5, <1>a, ServerAssumption DEF FrameInput, ServerAssumption
  <1>6. ASSUME NEW s \in Streams, NEW w \in Winners, GameOver(s, w)
        PROVE  h' \in [Streams -> HandlerType]
    BY <1>3, <1>6, <1>a, ServerAssumption DEF GameOver, ServerAssumption
  <1>7. ASSUME NEW s \in Streams, LeaveIdleRoom(s)
        PROVE  h' \in [Streams -> HandlerType]
    BY <1>3, <1>7, <1>a DEF LeaveIdleRoom
  <1>8. ASSUME NEW s \in Streams, LeaveGame(s)
        PROVE  h' \in [Streams -> HandlerType]
    <2>1. h[s].at \in RoomIds /\ room[h[s].at].player_uids \in Seq(Uids)
      BY <1>8 DEF LeaveGame, InRoom, RoomType
    <2>2. PICK i \in DOMAIN room[h[s].at].player_uids :
            GotoWith(s, "stop", h[s].at, room[h[s].at].player_uids[i])
      BY <1>8 DEF LeaveGame
    <2>3. room[h[s].at].player_uids[i] \in Uids
      BY <2>1
    <2>4. QED
      BY <1>3, <1>a, <2>1, <2>2, <2>3
  <1>9. ASSUME NEW s \in Streams, MapUidToRoom(s) \/ SetReady(s) \/ RoomPushInput(s)
        PROVE  h' \in [Streams -> HandlerType]
    BY <1>9, RestType DEF MapUidToRoom, SetReady, RoomPushInput
  <1>10. ASSUME NEW s \in Streams, DestroyRoomGone(s) \/ RemoveRoom(s)
         PROVE  h' \in [Streams -> HandlerType]
    BY <1>10, FinishType DEF DestroyRoomGone, RemoveRoom
  <1>11. ASSUME NEW s \in Streams, DestroyRoom(s)
         PROVE  h' \in [Streams -> HandlerType]
    <2>1. room[h[s].at].player_uids \in Seq(Uids)
      BY <1>11 DEF DestroyRoom, InRoom, RoomType
    <2>2. QED
      BY <1>11, <1>a, <2>1, TodoType DEF DestroyRoom
  <1>12. ASSUME NEW s \in Streams, UnmapUid(s)
         PROVE  h' \in [Streams -> HandlerType]
    <2>1. h[s].todo \in Seq(Uids) /\ h[s].todo # << >> /\ h[s].pc \in HandlerPc
      BY <1>12 DEF UnmapUid, HandlerType
    <2>2. Tail(h[s].todo) \in Seq(Uids)
      BY <2>1
    <2>3. QED
      BY <1>12, <2>1, <2>2, TodoType DEF UnmapUid
  <1>13. ASSUME NEW s \in Streams, StreamEnd(s)
         PROVE  h' \in [Streams -> HandlerType]
    <2>1. RoomByUid(UidOf[s]) \in RoomIds \cup {None}
      OBVIOUS
    <2>2. \A pc \in HandlerPc :
            [h[s] EXCEPT !.closing = TRUE, !.at = RoomByUid(UidOf[s]), !.pc = pc]
               \in HandlerType
      BY <2>1, ClosingType
    <2>3. QED
      BY <1>13, <1>a, <2>2 DEF StreamEnd
  <1>14. QED
    BY <1>1, <1>2, <1>4, <1>5, <1>6, <1>7, <1>8, <1>9, <1>10, <1>11, <1>12, <1>13
    DEF Next, Lobby, Client, Handler, RunLoop, CreateRoom, CreateRoomAdds,
        LoopSnapshot, LoopSeesGaming, LoopSeesReady, LoopPasses, RoomTick,
        RoomTickReturns, RoomStartGame, LoopSleeps, vars

\* Every step leaves the two maps of RoomManager in shape.
LEMMA MapTypeStep ==
  ASSUME IInv, [Next]_vars, ServerAssumption
  PROVE  /\ rooms' \subseteq RoomIds
         /\ uid_to_room' \in [Uids -> RoomIds \cup {None}]
         /\ sessions' \in [Uids -> Streams \cup {None}]
PROOF
  <1>0. /\ rooms \subseteq RoomIds
        /\ uid_to_room \in [Uids -> RoomIds \cup {None}]
        /\ sessions \in [Uids -> Streams \cup {None}]
        /\ h \in [Streams -> HandlerType]
    BY DEF IInv, TypeOK
  <1> USE <1>0, HeldTypes
  <1>1. CASE UNCHANGED <<rooms, uid_to_room, sessions>>
    BY <1>1
  <1>2. ASSUME NEW m \in Matches, CreateRoom(m) PROVE rooms' \subseteq RoomIds
    BY <1>2 DEF CreateRoom
  <1>3. ASSUME NEW s \in Streams, RegisterSession(s)
        PROVE  sessions' \in [Uids -> Streams \cup {None}]
    BY <1>3 DEF RegisterSession
  <1>4. ASSUME NEW s \in Streams, UnregisterSession(s)
        PROVE  sessions' \in [Uids -> Streams \cup {None}]
    BY <1>4 DEF UnregisterSession
  <1>5. ASSUME NEW s \in Streams, MapUidToRoom(s)
        PROVE  uid_to_room' \in [Uids -> RoomIds \cup {None}]
    BY <1>5 DEF MapUidToRoom, InRoom
  <1>6. ASSUME NEW s \in Streams, UnmapUid(s) \/ UnmapSelf(s)
        PROVE  uid_to_room' \in [Uids -> RoomIds \cup {None}]
    BY <1>6 DEF UnmapUid, UnmapSelf
  <1>7. ASSUME NEW s \in Streams, RemoveRoom(s) PROVE rooms' \subseteq RoomIds
    BY <1>7 DEF RemoveRoom
  <1>8. QED
    BY <1>0, <1>1, <1>2, <1>3, <1>4, <1>5, <1>6, <1>7
    DEF Next, Lobby, Client, Handler, RunLoop, CreateRoom, CreateRoomAdds,
        RegisterSession, EnterRoom, MapUidToRoom, PlayerReady, SetReady,
        FrameInput, RoomPushInput, GameOver, RoomStopGame, DestroyRoomGone,
        DestroyRoom, UnmapUid, RemoveRoom, StreamEnd, LeaveGame,
        LeaveIdleRoom, UnmapSelf, UnregisterSession, LoopSnapshot,
        LoopSeesGaming, LoopSeesReady, LoopPasses, RoomTick, RoomTickReturns,
        RoomStartGame, LoopSleeps, vars, manager

\* Every step leaves CreateRoom's counter and lists, and RunLoop's locals, in
\* shape.
LEMMA ControlTypeStep ==
  ASSUME IInv, [Next]_vars, ServerAssumption
  PROVE  /\ next_room_id' \in 1 .. MaxRooms + 1
         /\ adding' \in [RoomIds -> Seq(Uids)]
         /\ loop' \in LoopType
PROOF
  <1>0. /\ next_room_id \in 1 .. MaxRooms + 1
        /\ adding \in [RoomIds -> Seq(Uids)]
        /\ loop \in LoopType
        /\ rooms \subseteq RoomIds
        /\ MaxRooms \in Nat
    BY ServerAssumption DEF IInv, TypeOK, ServerAssumption
  <1> USE <1>0
  <1>1. CASE UNCHANGED <<next_room_id, adding, loop>>
    BY <1>1
  <1>2. ASSUME NEW m \in Matches, CreateRoom(m)
        PROVE  /\ next_room_id' \in 1 .. MaxRooms + 1
               /\ adding' \in [RoomIds -> Seq(Uids)]
    <2>1. m \in Seq(Uids)
      <3>1. PICK u \in Uids, v \in Uids : m = <<u, v>>
        BY ServerAssumption DEF ServerAssumption
      <3>2. <<u, v>> \in Seq(Uids)
        OBVIOUS
      <3>3. QED
        BY <3>1, <3>2
    <2>2. QED
      BY <1>2, <2>1 DEF CreateRoom, RoomIds
  <1>3. ASSUME NEW r \in RoomIds, CreateRoomAdds(r)
        PROVE  adding' \in [RoomIds -> Seq(Uids)]
    <2>1. Tail(adding[r]) \in Seq(Uids)
      BY <1>3 DEF CreateRoomAdds
    <2>2. QED
      BY <1>3, <2>1 DEF CreateRoomAdds
  <1>4. CASE RunLoop
    <2>1. \A r \in RoomIds, pc \in {"tick", "start"} :
            [pc |-> pc, todo |-> loop.todo \ {r}, at |-> r] \in LoopType
      BY DEF LoopType
    <2>2. [loop EXCEPT !.pc = "sleep"] \in LoopType
            /\ [pc |-> "scan", todo |-> rooms, at |-> None] \in LoopType
            /\ \A r \in RoomIds : [loop EXCEPT !.todo = @ \ {r}] \in LoopType
      BY DEF LoopType
    <2>3. Scan \in LoopType
      BY DEF Scan, LoopType
    <2>4. QED
      BY <1>4, <2>1, <2>2, <2>3 DEF RunLoop, LoopSnapshot, LoopSeesGaming,
         LoopSeesReady, LoopPasses, RoomTick, RoomTickReturns, RoomStartGame,
         LoopSleeps, control
  <1>5. QED
    BY <1>1, <1>2, <1>3, <1>4
    DEF Next, Lobby, Client, Handler, CreateRoom, CreateRoomAdds,
        RegisterSession, EnterRoom, MapUidToRoom, PlayerReady, SetReady,
        FrameInput, RoomPushInput, GameOver, RoomStopGame, DestroyRoomGone,
        DestroyRoom, UnmapUid, RemoveRoom, StreamEnd, LeaveGame,
        LeaveIdleRoom, UnmapSelf, UnregisterSession, vars, control

\* Every step leaves what clients have been told in shape.
LEMMA ObserverTypeStep ==
  ASSUME IInv, [Next]_vars, ServerAssumption
  PROVE  /\ verdicts' \in [RoomIds -> SUBSET Uids]
         /\ expects' \in [Streams -> [RoomIds -> Frames \cup {None}]]
PROOF
  <1>0. /\ verdicts \in [RoomIds -> SUBSET Uids]
        /\ expects \in [Streams -> [RoomIds -> Frames \cup {None}]]
    BY DEF IInv, TypeOK
  <1> USE <1>0
  <1>1. CASE UNCHANGED <<verdicts, expects>>
    BY <1>1
  <1>2. ASSUME NEW s \in Streams, RoomStopGame(s)
        PROVE  verdicts' \in [RoomIds -> SUBSET Uids]
    <2>1. h[s].at \in RoomIds /\ h[s].arg \in Uids
      BY <1>2 DEF RoomStopGame, IInv, Pointers, PointersOf, InRoom
    <2>2. QED
      BY <1>2, <2>1 DEF RoomStopGame
  <1>3. ASSUME NEW r \in RoomIds, NEW f \in Frames, Told(r, f)
        PROVE  expects' \in [Streams -> [RoomIds -> Frames \cup {None}]]
    BY <1>3 DEF Told
  <1>4. CASE RoomTick
    <2>1. loop.at \in RoomIds /\ room[loop.at].frame_id < MaxFrame
      BY <1>4 DEF RoomTick, IInv, Games
    <2>2. room[loop.at].frame_id + 1 \in Frames
      BY <2>1, HeldTypes DEF RoomType, Frames
    <2>3. QED
      BY <1>3, <1>4, <2>1, <2>2 DEF RoomTick
  <1>5. CASE RoomStartGame
    <2>1. loop.at \in RoomIds /\ 0 \in Frames
      BY <1>5, HeldTypes, NoInputsType DEF RoomStartGame, IInv, Games
    <2>2. expects' \in [Streams -> [RoomIds -> Frames \cup {None}]]
      BY <1>3, <1>5, <2>1 DEF RoomStartGame
    <2>3. verdicts' \in [RoomIds -> SUBSET Uids]
      BY <1>5 DEF RoomStartGame
    <2>4. QED
      BY <2>2, <2>3
  <1>6. QED
    BY <1>0, <1>1, <1>2, <1>4, <1>5
    DEF Next, Lobby, Client, Handler, RunLoop, CreateRoom, CreateRoomAdds,
        RegisterSession, EnterRoom, MapUidToRoom, PlayerReady, SetReady,
        FrameInput, RoomPushInput, GameOver, RoomStopGame, DestroyRoomGone,
        DestroyRoom, UnmapUid, RemoveRoom, StreamEnd, LeaveGame,
        LeaveIdleRoom, UnmapSelf, UnregisterSession, LoopSnapshot,
        LoopSeesGaming, LoopSeesReady, LoopPasses, RoomTick, RoomTickReturns,
        LoopSleeps, vars, observer

\* The state before the first request has every variable in shape.
LEMMA TypeInit == ASSUME ServerAssumption, Init PROVE TypeOK
PROOF
  <1>1. MaxRooms \in Nat /\ MaxFrame \in Nat
    BY ServerAssumption DEF ServerAssumption
  <1>2. Idle \in HandlerType
    <2>1. << >> \in Seq(Uids)
      OBVIOUS
    <2>2. QED
      BY <2>1 DEF Idle, HandlerType, HandlerPc
  <1>3. room \in [RoomIds -> RoomType]
    BY <1>1, NewRoomType DEF Init
  <1>4. h \in [Streams -> HandlerType]
    BY <1>2 DEF Init
  <1>5. adding \in [RoomIds -> Seq(Uids)]
    <2>1. << >> \in Seq(Uids)
      OBVIOUS
    <2>2. QED
      BY <2>1 DEF Init
  <1>6. loop \in LoopType
    BY DEF Init, LoopType
  <1>7. QED
    BY <1>1, <1>3, <1>4, <1>5, <1>6 DEF Init, TypeOK

\* Every step keeps every variable in shape.
LEMMA TypeStep ==
  ASSUME IInv, [Next]_vars, ServerAssumption
  PROVE  TypeOK'
  BY RoomTypeStep, HandlerTypeStep, MapTypeStep, ControlTypeStep,
     ObserverTypeStep DEF TypeOK

-----------------------------------------------------------------------------
(* Games and pointers.                                                      *)

\* A seat is never lost, and a full room stays as it is.
LEMMA SeatStays ==
  ASSUME IInv, [Next]_vars, ServerAssumption, NEW r \in RoomIds
  PROVE  /\ \A u \in Uids : HasPlayer(room[r], u) => HasPlayer(room'[r], u)
         /\ Len(room[r].player_uids) = 2 => Len(room'[r].player_uids) = 2
PROOF
  <1> DEFINE Goal ==
        /\ \A u \in Uids : HasPlayer(room[r], u) => HasPlayer(room'[r], u)
        /\ Len(room[r].player_uids) = 2 => Len(room'[r].player_uids) = 2
  <1>0. /\ room \in [RoomIds -> RoomType]
        /\ adding \in [RoomIds -> Seq(Uids)]
        /\ Len(<< >>) = 0 /\ \A u \in Uids : Len(<<u>>) = 1
    BY DEF IInv, TypeOK
  <1>1. ASSUME NEW m \in Matches, CreateRoom(m) PROVE Goal
    <2>1. CASE r = next_room_id
      <3>1. Empty(room[r])
        BY <1>1, <2>1, ServerAssumption
        DEF IInv, TypeOK, Seating, RoomIds, ServerAssumption
      <3>2. QED
        BY <1>0, <3>1 DEF Empty, HasPlayer
    <2>2. CASE r # next_room_id
      BY <1>0, <1>1, <2>2 DEF CreateRoom
    <2>3. QED
      BY <2>1, <2>2
  <1>2. ASSUME NEW q \in RoomIds, CreateRoomAdds(q) PROVE Goal
    <2>1. CASE r # q
      BY <1>0, <1>2, <2>1 DEF CreateRoomAdds
    <2>2. CASE r = q
      <3>1. /\ room[r] \in RoomType
            /\ adding[r] # << >>
            /\ Head(adding[r]) \in Uids
            /\ room'[r] = AddPlayer(room[r], Head(adding[r]))
        BY <1>0, <1>2, <2>2 DEF CreateRoomAdds
      <3>2. \A u \in Uids : HasPlayer(room[r], u) => HasPlayer(room'[r], u)
        BY <3>1, AddPlayerKeeps DEF HasPlayer
      <3>3. PICK u \in Uids, v \in Uids : SeatingOf(room[r], adding[r], u, v)
        BY <3>1 DEF IInv, Seating
      <3>4. room[r].player_uids = << >> \/ room[r].player_uids = <<u>>
        BY <3>1, <3>3 DEF SeatingOf
      <3>5. Len(room[r].player_uids) # 2
        <4>1. Len(room[r].player_uids) \in {0, 1}
          BY <1>0, <3>4, Zenon
        <4>2. QED
          BY <4>1
      <3>6. QED
        BY <3>2, <3>5
    <2>3. QED
      BY <2>1, <2>2
  <1>3. CASE SameSeats
    BY <1>3 DEF SameSeats, HasPlayer
  <1>4. QED
    BY <1>1, <1>2, <1>3, SeatsKept DEF IInv

\* Only StartGame turns a room to GAMING.
LEMMA OnlyStartGame ==
  ASSUME IInv, [Next]_vars, ServerAssumption, ~RoomStartGame,
         NEW r \in RoomIds, room'[r].state = "GAMING"
  PROVE  room[r].state = "GAMING"
PROOF
  <1>0. room \in [RoomIds -> RoomType] /\ loop.pc = "tick" => loop.at \in RoomIds
    BY DEF IInv, TypeOK, Games
  <1> USE <1>0, HeldTypes
  <1>1. CASE UNCHANGED room
    BY <1>1
  <1>2. ASSUME NEW m \in Matches, CreateRoom(m) PROVE room[r].state = "GAMING"
    BY <1>2 DEF CreateRoom, NewRoom
  <1>3. ASSUME NEW q \in RoomIds, CreateRoomAdds(q) PROVE room[r].state = "GAMING"
    BY <1>3 DEF CreateRoomAdds, AddPlayer, RoomType
  <1>4. ASSUME NEW s \in Streams, SetReady(s) PROVE room[r].state = "GAMING"
    BY <1>4 DEF SetReady, RoomType
  <1>5. ASSUME NEW s \in Streams, RoomPushInput(s) PROVE room[r].state = "GAMING"
    BY <1>5 DEF RoomPushInput, PushInput, RoomType
  <1>6. ASSUME NEW s \in Streams, RoomStopGame(s) PROVE room[r].state = "GAMING"
    BY <1>6 DEF RoomStopGame, StopGame, RoomType
  <1>7. CASE RoomTick
    BY <1>7 DEF RoomTick, NextFrame, RoomType
  <1>8. QED
    BY <1>1, <1>2, <1>3, <1>4, <1>5, <1>6, <1>7
    DEF Next, Lobby, Client, Handler, RunLoop, RegisterSession, EnterRoom,
        MapUidToRoom, PlayerReady, FrameInput, GameOver, DestroyRoomGone,
        DestroyRoom, UnmapUid, RemoveRoom, StreamEnd, LeaveGame,
        LeaveIdleRoom, UnmapSelf, UnregisterSession, LoopSnapshot,
        LoopSeesGaming, LoopSeesReady, LoopPasses, RoomTickReturns,
        LoopSleeps, vars, manager

\* Only RunLoop and the creation of a room set a frame number: while RunLoop
\* is elsewhere, the frame of a room with players stays.
LEMMA FrameStays ==
  ASSUME IInv, [Next]_vars, ServerAssumption, UNCHANGED loop,
         NEW r \in RoomIds, room[r].frame_id < MaxFrame
  PROVE  room'[r].frame_id < MaxFrame
PROOF
  <1>0. /\ room \in [RoomIds -> RoomType]
        /\ loop \in LoopType
    BY DEF IInv, TypeOK
  <1> USE <1>0, HeldTypes
  <1>1. CASE UNCHANGED room
    BY <1>1
  <1>2. ASSUME NEW m \in Matches, CreateRoom(m)
        PROVE  room'[r].frame_id < MaxFrame
    <2>1. CASE r = next_room_id
      <3>1. room'[r].frame_id = 0
        BY <1>2, <2>1 DEF CreateRoom, NewRoom
      <3>2. room[r].frame_id \in 0 .. MaxFrame
        BY DEF RoomType, Frames
      <3>3. QED
        BY <3>1, <3>2
    <2>2. CASE r # next_room_id
      BY <1>2, <2>2 DEF CreateRoom
    <2>3. QED
      BY <2>1, <2>2
  <1>3. ASSUME NEW q \in RoomIds, CreateRoomAdds(q)
        PROVE  room'[r].frame_id < MaxFrame
    BY <1>3 DEF CreateRoomAdds, AddPlayer, RoomType
  <1>4. ASSUME NEW s \in Streams, SetReady(s)
        PROVE  room'[r].frame_id < MaxFrame
    BY <1>4 DEF SetReady, RoomType
  <1>5. ASSUME NEW s \in Streams, RoomPushInput(s)
        PROVE  room'[r].frame_id < MaxFrame
    BY <1>5 DEF RoomPushInput, PushInput, RoomType
  <1>6. ASSUME NEW s \in Streams, RoomStopGame(s)
        PROVE  room'[r].frame_id < MaxFrame
    BY <1>6 DEF RoomStopGame, StopGame, RoomType
  <1>7. ~RoomTick /\ ~RoomStartGame
    BY DEF RoomTick, RoomStartGame, Scan, LoopType
  <1>8. QED
    BY <1>1, <1>2, <1>3, <1>4, <1>5, <1>6, <1>7
    DEF Next, Lobby, Client, Handler, RunLoop, RegisterSession, EnterRoom,
        MapUidToRoom, PlayerReady, FrameInput, GameOver, DestroyRoomGone,
        DestroyRoom, UnmapUid, RemoveRoom, StreamEnd, LeaveGame,
        LeaveIdleRoom, UnmapSelf, UnregisterSession, LoopSnapshot,
        LoopSeesGaming, LoopSeesReady, LoopPasses, RoomTickReturns,
        LoopSleeps, vars, manager

\* No room holds more than the two players it was created for.
LEMMA AtMostTwo ==
  ASSUME IInv, NEW r \in RoomIds
  PROVE  Len(room[r].player_uids) \in {0, 1, 2}
PROOF
  <1>1. /\ Len(<< >>) = 0
        /\ \A u \in Uids : Len(<<u>>) = 1
        /\ \A u, v \in Uids : Len(<<u, v>>) = 2
    OBVIOUS
  <1>2. \/ room[r].player_uids = << >>
        \/ \E u \in Uids : room[r].player_uids = <<u>>
        \/ \E u, v \in Uids : room[r].player_uids = <<u, v>>
    BY DEF IInv, Seating, SeatingOf, Empty
  <1>3. QED
    BY <1>1, <1>2, Zenon

\* No room is GAMING at the start.
LEMMA GamesInit == ASSUME ServerAssumption, Init PROVE Games
  BY DEF Init, Games, NewRoom

\* RunLoop starts and ticks rooms of two players only: a room it has chosen
\* under rooms_mutex_ keeps its players however long RunLoop takes.
LEMMA GamesStep ==
  ASSUME IInv, [Next]_vars, ServerAssumption
  PROVE  Games'
PROOF
  <1>0. /\ room \in [RoomIds -> RoomType]
        /\ loop \in LoopType
    BY DEF IInv, TypeOK
  <1>1. ASSUME NEW r \in RoomIds, room'[r].state = "GAMING"
        PROVE  Len(room'[r].player_uids) = 2
    <2>1. CASE RoomStartGame
      <3>1. CASE r = loop.at
        <4>1. Len(room[r].player_uids) = 2
          BY <2>1, <3>1 DEF RoomStartGame, IInv, Games
        <4>2. QED
          BY <4>1, SeatStays
      <3>2. CASE r # loop.at
        <4>1. room[r].state = "GAMING"
          BY <1>0, <1>1, <2>1, <3>2 DEF RoomStartGame
        <4>2. QED
          BY <4>1, SeatStays DEF IInv, Games
      <3>3. QED
        BY <3>1, <3>2
    <2>2. CASE ~RoomStartGame
      <3>1. room[r].state = "GAMING"
        BY <1>1, <2>2, OnlyStartGame
      <3>2. QED
        BY <3>1, SeatStays DEF IInv, Games
    <2>3. QED
      BY <2>1, <2>2
  <1> DEFINE LoopOK ==
        /\ loop.pc \in {"tick", "start"} => loop.at \in RoomIds
        /\ loop.pc = "tick" => room[loop.at].frame_id < MaxFrame
        /\ loop.pc = "start" => Len(room[loop.at].player_uids) = 2
  <1>2. CASE UNCHANGED loop
    <2>1. ASSUME loop.pc = "start"
          PROVE  Len(room'[loop.at].player_uids) = 2
      BY <2>1, SeatStays DEF IInv, Games
    <2>2. ASSUME loop.pc = "tick"
          PROVE  room'[loop.at].frame_id < MaxFrame
      BY <1>2, <2>2, FrameStays DEF IInv, Games
    <2>3. LoopOK'
      BY <1>2, <2>1, <2>2 DEF IInv, Games
    <2>4. QED
      BY <1>1, <2>3 DEF Games
  <1>3. CASE RunLoop
    <2>1. ASSUME NEW r \in RoomIds, LoopSeesGaming(r) PROVE LoopOK'
      BY <2>1 DEF LoopSeesGaming, manager
    <2>2. ASSUME NEW r \in RoomIds, LoopSeesReady(r) PROVE LoopOK'
      <3>1. Len(room[r].player_uids) = 2
        <4>1. Len(room[r].player_uids) >= 2
          BY <2>2 DEF LoopSeesReady, IsFull
        <4>2. Len(room[r].player_uids) \in {0, 1, 2}
          BY AtMostTwo
        <4>3. \A n \in {0, 1, 2} : n >= 2 => n = 2
          OBVIOUS
        <4>4. QED
          BY <4>1, <4>2, <4>3, Zenon
      <3>2. QED
        BY <2>2, <3>1 DEF LoopSeesReady, manager
    <2>3. ASSUME LoopSnapshot \/ LoopSleeps \/ RoomTick \/ RoomTickReturns
                   \/ RoomStartGame
          PROVE  LoopOK'
      <3>1. CASE LoopSnapshot
        <4>1. loop'.pc = "scan"
          BY <3>1 DEF LoopSnapshot
        <4>2. QED
          BY <4>1
      <3>2. CASE LoopSleeps
        <4>1. loop'.pc = "sleep"
          BY <1>0, <3>2 DEF LoopSleeps, LoopType
        <4>2. QED
          BY <4>1
      <3>3. CASE RoomTick \/ RoomTickReturns \/ RoomStartGame
        <4>1. loop' = Scan
          BY <3>3, Zenon DEF RoomTick, RoomTickReturns, RoomStartGame
        <4>2. Scan.pc = "scan"
          BY <1>0 DEF Scan, LoopType
        <4>3. loop'.pc = "scan"
          BY <4>1, <4>2
        <4>4. QED
          BY <4>3
      <3>4. QED
        BY <2>3, <3>1, <3>2, <3>3
    <2>4. ASSUME NEW r \in RoomIds, LoopPasses(r) PROVE LoopOK'
      <3>1. loop'.pc = "scan"
        BY <1>0, <2>4 DEF LoopPasses, LoopType
      <3>2. QED
        BY <3>1
    <2>5. LoopOK'
      BY <1>3, <2>1, <2>2, <2>3, <2>4 DEF RunLoop
    <2>6. QED
      BY <1>1, <2>5 DEF Games
  <1>4. QED
    BY <1>2, <1>3
    DEF Next, Lobby, Client, Handler, CreateRoom, CreateRoomAdds,
        RegisterSession, EnterRoom, MapUidToRoom, PlayerReady, SetReady,
        FrameInput, RoomPushInput, GameOver, RoomStopGame, DestroyRoomGone,
        DestroyRoom, UnmapUid, RemoveRoom, StreamEnd, LeaveGame,
        LeaveIdleRoom, UnmapSelf, UnregisterSession, vars

\* The fields of a handler after a step of its own; other handlers stay.
LEMMA Fields ==
  ASSUME NEW s \in Streams, NEW pc, NEW at, NEW arg,
         h \in [Streams -> HandlerType]
  PROVE  /\ Goto(s, pc) =>
              /\ \A t \in Streams \ {s} : h'[t] = h[t]
              /\ h'[s].pc = pc /\ h'[s].at = h[s].at /\ h'[s].arg = h[s].arg
              /\ h'[s].closing = h[s].closing
         /\ GotoWith(s, pc, at, arg) =>
              /\ \A t \in Streams \ {s} : h'[t] = h[t]
              /\ h'[s].pc = pc /\ h'[s].at = at /\ h'[s].arg = arg
              /\ h'[s].closing = h[s].closing
  BY DEF Goto, GotoWith, HandlerType

\* After its last step in a room a handler reads again, or is on its way out.
LEMMA FinishFields ==
  ASSUME NEW s \in Streams, h \in [Streams -> HandlerType]
  PROVE  /\ Rest(s).pc = "read" /\ Rest(s).closing = FALSE
         /\ Finish(s).pc \in {"read", "unmap_self"}
         /\ Finish(s).pc = "read" => Finish(s).closing = FALSE
  BY DEF Finish, Rest, Idle, HandlerType

\* No handler and no map entry points to a room at the start.
LEMMA PointersInit == ASSUME ServerAssumption, Init PROVE Pointers
  BY DEF Init, Pointers, PointersOf, MappingHasSeat, Idle, InRoom

\* While a handler stands still its pointers stay good.
LEMMA StandsStill ==
  ASSUME IInv, [Next]_vars, ServerAssumption, NEW t \in Streams, h'[t] = h[t]
  PROVE  PointersOf(t)'
PROOF
  <1>1. UidOf[t] \in Uids /\ PointersOf(t)
    BY HeldTypes DEF IInv, Pointers
  <1>2. \A r \in RoomIds, u \in Uids : HasPlayer(room[r], u) => HasPlayer(room'[r], u)
    BY SeatStays
  <1>3. h[t].pc = "stop" => InRoom(t)
    BY DEF InRoom
  <1>4. QED
    BY <1>1, <1>2, <1>3 DEF PointersOf, InRoom

\* A handler that reads, has returned, or is on its way out holds no room.
LEMMA HoldsNothing ==
  ASSUME NEW s \in Streams, h'[s].pc \in {"read", "unmap_self", "unregister", "done"},
         h'[s].pc = "read" => h'[s].closing = FALSE
  PROVE  PointersOf(s)'
PROOF
  <1>1. /\ ~InRoom(s)'
        /\ h'[s].pc # "push" /\ h'[s].pc # "stop" /\ h'[s].pc # "new"
    BY DEF InRoom
  <1>2. QED
    BY <1>1 DEF PointersOf

\* A handler that moves on with a room keeps a good pointer to it.
LEMMA MovesOn ==
  ASSUME IInv, [Next]_vars, ServerAssumption, NEW s \in Streams,
         h'[s].pc \in {"map", "ready", "destroy", "unmap", "leave"},
         h'[s].at \in RoomIds, HasPlayer(room[h'[s].at], UidOf[s])
  PROVE  PointersOf(s)'
PROOF
  <1>1. h'[s].pc \notin {"new", "read", "push", "stop"}
    OBVIOUS
  <1>2. HasPlayer(room'[h'[s].at], UidOf[s])
    BY SeatStays, HeldTypes
  <1>3. QED
    BY <1>1, <1>2 DEF PointersOf, InRoom

\* The room that GetRoomByUid finds has a seat for the player.
LEMMA FoundRoom ==
  ASSUME IInv, ServerAssumption, NEW u \in Uids, RoomByUid(u) # None
  PROVE  RoomByUid(u) \in RoomIds /\ HasPlayer(room[RoomByUid(u)], u)
PROOF
  <1>1. RoomByUid(u) = uid_to_room[u]
    BY DEF RoomByUid
  <1>2. RoomByUid(u) \in RoomIds
    BY HeldTypes
  <1>3. QED
    BY <1>1, <1>2 DEF IInv, Pointers, MappingHasSeat

\* The players in the list are the ones with a seat.
LEMMA ListedHasSeat ==
  ASSUME IInv, NEW r \in RoomIds, NEW i \in DOMAIN room[r].player_uids
  PROVE  HasPlayer(room[r], room[r].player_uids[i])
PROOF
  <1>1. CASE Empty(room[r])
    BY <1>1 DEF Empty
  <1>2. ASSUME NEW u \in Uids, NEW v \in Uids, u # v,
               SeatingOf(room[r], adding[r], u, v)
        PROVE  HasPlayer(room[r], room[r].player_uids[i])
    <2>1. CASE room[r].player_uids = << >>
      BY <2>1
    <2>2. CASE room[r].player_uids = <<u>> /\ room[r].game_id = FirstSide(u)
      <3>1. i = 1 /\ room[r].player_uids[i] = u
        BY <2>2
      <3>2. QED
        BY <2>2, <3>1 DEF HasPlayer, FirstSide
    <2>3. CASE room[r].player_uids = <<u, v>> /\ room[r].game_id = BothSides(u, v)
      <3>1. room[r].player_uids[i] \in {u, v}
        BY <2>3
      <3>2. QED
        BY <1>2, <2>3, <3>1 DEF HasPlayer, BothSides
    <2>4. QED
      BY <1>2, <2>1, <2>2, <2>3 DEF SeatingOf
  <1>3. QED
    BY <1>1, <1>2 DEF IInv, Seating

\* Every step leaves every handler with a pointer to a room its player has a
\* seat in, and with an opponent as the winner of a forfeit.
LEMMA HandlersStep ==
  ASSUME IInv, [Next]_vars, ServerAssumption, NEW t \in Streams
  PROVE  PointersOf(t)'
PROOF
  <1>0. h \in [Streams -> HandlerType]
    BY DEF IInv, TypeOK
  <1>1. CASE h'[t] = h[t]
    BY <1>1, StandsStill
  <1>2. ASSUME NEW s \in Streams, RegisterSession(s) PROVE PointersOf(t)'
    <2>1. CASE t = s
      <3>1. h'[s].pc = "read" /\ h'[s].closing = h[s].closing /\ h[s].pc = "new"
        BY <1>0, <1>2, Fields DEF RegisterSession
      <3>2. h[s].closing = FALSE
        BY <1>0, <3>1 DEF IInv, Pointers, PointersOf, HandlerType
      <3>3. QED
        BY <2>1, <3>1, <3>2, HoldsNothing
    <2>2. CASE t # s
      BY <1>0, <1>1, <1>2, <2>2, Fields DEF RegisterSession
    <2>3. QED
      BY <2>1, <2>2
  <1>3. ASSUME NEW s \in Streams, NEW r \in RoomIds,
               EnterRoom(s, r) \/ PlayerReady(s, r)
        PROVE  PointersOf(t)'
    <2>1. PICK pc \in {"map", "ready"} :
            GotoWith(s, pc, r, None) /\ HasPlayer(room[r], UidOf[s])
      BY <1>3 DEF EnterRoom, PlayerReady
    <2>2. CASE t = s
      <3>1. h'[s].pc = pc /\ h'[s].at = r
        BY <1>0, <2>1, Fields
      <3>2. QED
        BY <2>1, <2>2, <3>1, MovesOn
    <2>3. CASE t # s
      BY <1>0, <1>1, <2>1, <2>3, Fields
    <2>4. QED
      BY <2>2, <2>3
  <1>4. ASSUME NEW s \in Streams, NEW f \in InputFrames, FrameInput(s, f)
        PROVE  PointersOf(t)'
    <2> DEFINE r == RoomByUid(UidOf[s])
    <2>1. r \in RoomIds /\ HasPlayer(room[r], UidOf[s]) /\ f \in Frames
      BY <1>4, FoundRoom, HeldTypes, ServerAssumption
      DEF FrameInput, ServerAssumption
    <2>2. GotoWith(s, "push", r, f)
      BY <1>4 DEF FrameInput
    <2> HIDE DEF r
    <2>3. CASE t = s
      <3>1. h'[s].pc = "push" /\ h'[s].at = r /\ h'[s].arg = f
        BY <1>0, <2>2, Fields
      <3>2. HasPlayer(room'[r], UidOf[s])
        BY <2>1, SeatStays, HeldTypes
      <3>3. QED
        BY <2>1, <2>3, <3>1, <3>2 DEF PointersOf, InRoom
    <2>4. CASE t # s
      BY <1>0, <1>1, <2>2, <2>4, Fields
    <2>5. QED
      BY <2>3, <2>4
  <1>5. ASSUME NEW s \in Streams, NEW w \in Winners, GameOver(s, w)
        PROVE  PointersOf(t)'
    <2> DEFINE r == RoomByUid(UidOf[s])
    <2>1. r \in RoomIds /\ HasPlayer(room[r], UidOf[s]) /\ w \in Uids
      BY <1>5, FoundRoom, HeldTypes, ServerAssumption
      DEF GameOver, ServerAssumption
    <2>2. GotoWith(s, "stop", r, w) /\ h[s].pc = "read"
      BY <1>5 DEF GameOver
    <2> HIDE DEF r
    <2>3. CASE t = s
      <3>1. /\ h'[s].pc = "stop" /\ h'[s].at = r /\ h'[s].arg = w
            /\ h'[s].closing = h[s].closing
        BY <1>0, <2>2, Fields
      <3>2. ~h[s].closing
        BY <2>2 DEF IInv, Pointers, PointersOf
      <3>3. HasPlayer(room'[r], UidOf[s])
        BY <2>1, SeatStays, HeldTypes
      <3>4. QED
        BY <2>1, <2>3, <3>1, <3>2, <3>3 DEF PointersOf, InRoom
    <2>4. CASE t # s
      BY <1>0, <1>1, <2>2, <2>4, Fields
    <2>5. QED
      BY <2>3, <2>4
  <1>6. ASSUME NEW s \in Streams, LeaveGame(s) PROVE PointersOf(t)'
    <2> DEFINE r == h[s].at
    <2>1. r \in RoomIds /\ HasPlayer(room[r], UidOf[s])
      BY <1>6 DEF LeaveGame, IInv, Pointers, PointersOf, InRoom
    <2>2. PICK i \in DOMAIN room[r].player_uids :
            /\ room[r].player_uids[i] # UidOf[s]
            /\ GotoWith(s, "stop", r, room[r].player_uids[i])
      BY <1>6 DEF LeaveGame
    <2>3. /\ room[r].player_uids[i] \in Uids
          /\ HasPlayer(room[r], room[r].player_uids[i])
      <3>1. room[r].player_uids \in Seq(Uids)
        BY <2>1, HeldTypes DEF RoomType
      <3>2. QED
        BY <2>1, <3>1, ListedHasSeat
    <2> DEFINE w == room[r].player_uids[i]
    <2> HIDE DEF r, w
    <2>4. GotoWith(s, "stop", r, w) /\ w \in Uids /\ w # UidOf[s]
            /\ HasPlayer(room[r], w)
      BY <2>2, <2>3 DEF w
    <2>5. CASE t = s
      <3>1. h'[s].pc = "stop" /\ h'[s].at = r /\ h'[s].arg = w
        BY <1>0, <2>4, Fields
      <3>2. HasPlayer(room'[r], UidOf[s]) /\ HasPlayer(room'[r], w)
        BY <2>1, <2>4, SeatStays, HeldTypes
      <3>3. QED
        BY <2>1, <2>4, <2>5, <3>1, <3>2 DEF PointersOf, InRoom
    <2>6. CASE t # s
      BY <1>0, <1>1, <2>4, <2>6, Fields
    <2>7. QED
      BY <2>5, <2>6
  <1>7. ASSUME NEW s \in Streams,
               LeaveIdleRoom(s) \/ UnmapSelf(s) \/ UnregisterSession(s)
        PROVE  PointersOf(t)'
    <2>1. CASE t = s
      <3>1. h'[s].pc \in {"unmap_self", "unregister", "done"}
        BY <1>0, <1>7, Fields DEF LeaveIdleRoom, UnmapSelf, UnregisterSession
      <3>2. QED
        BY <2>1, <3>1, HoldsNothing
    <2>2. CASE t # s
      BY <1>0, <1>1, <1>7, <2>2, Fields
      DEF LeaveIdleRoom, UnmapSelf, UnregisterSession
    <2>3. QED
      BY <2>1, <2>2
  <1>8. ASSUME NEW s \in Streams, NEW x, h' = [h EXCEPT ![s] = x],
               x.pc \in {"read", "unmap_self"},
               x.pc = "read" => x.closing = FALSE
        PROVE  PointersOf(t)'
    <2>1. CASE t = s
      <3>1. h'[s] = x
        BY <1>0, <1>8
      <3>2. QED
        BY <1>8, <2>1, <3>1, HoldsNothing
    <2>2. CASE t # s
      BY <1>0, <1>1, <1>8, <2>2
    <2>3. QED
      BY <2>1, <2>2
  <1>9. ASSUME NEW s \in Streams,
               \/ MapUidToRoom(s) \/ SetReady(s) \/ RoomPushInput(s)
               \/ DestroyRoomGone(s) \/ RemoveRoom(s)
        PROVE  PointersOf(t)'
    <2>1. PICK x \in {Rest(s), Finish(s)} : h' = [h EXCEPT ![s] = x]
      BY <1>9, Zenon DEF MapUidToRoom, SetReady, RoomPushInput, DestroyRoomGone,
                         RemoveRoom
    <2>2. x.pc \in {"read", "unmap_self"} /\ (x.pc = "read" => x.closing = FALSE)
      BY <1>0, <2>1, FinishFields
    <2>3. QED
      BY <1>8, <2>1, <2>2
  <1>10. ASSUME NEW s \in Streams,
                RoomStopGame(s) \/ DestroyRoom(s) \/ UnmapUid(s)
         PROVE  PointersOf(t)'
    <2>1. /\ h[s].at \in RoomIds /\ HasPlayer(room[h[s].at], UidOf[s])
          /\ h[s].pc \in {"stop", "destroy", "unmap"}
      BY <1>10 DEF RoomStopGame, DestroyRoom, UnmapUid, IInv, Pointers,
                   PointersOf, InRoom
    <2>2. /\ h'[s].pc \in {"destroy", "unmap"} /\ h'[s].at = h[s].at
          /\ \A x \in Streams \ {s} : h'[x] = h[x]
      <3>1. CASE RoomStopGame(s)
        BY <1>0, <3>1, Fields DEF RoomStopGame
      <3>2. CASE DestroyRoom(s)
        BY <1>0, <3>2 DEF DestroyRoom, HandlerType
      <3>3. CASE UnmapUid(s)
        BY <1>0, <3>3 DEF UnmapUid, HandlerType
      <3>4. QED
        BY <1>10, <3>1, <3>2, <3>3
    <2>3. CASE t = s
      BY <2>1, <2>2, <2>3, MovesOn
    <2>4. CASE t # s
      BY <1>1, <2>2, <2>4
    <2>5. QED
      BY <2>3, <2>4
  <1>11. ASSUME NEW s \in Streams, StreamEnd(s) PROVE PointersOf(t)'
    <2> DEFINE r == RoomByUid(UidOf[s])
    <2>1. /\ h'[s].at = r
          /\ h'[s].pc = IF r = None THEN "unmap_self" ELSE "leave"
          /\ \A x \in Streams \ {s} : h'[x] = h[x]
      BY <1>0, <1>11 DEF StreamEnd, HandlerType
    <2>2. r # None => r \in RoomIds /\ HasPlayer(room[r], UidOf[s])
      BY FoundRoom, HeldTypes
    <2> HIDE DEF r
    <2>3. CASE t = s /\ r = None
      <3>1. h'[s].pc = "unmap_self"
        BY <2>1, <2>3
      <3>2. QED
        BY <2>3, <3>1, HoldsNothing
    <2>4. CASE t = s /\ r # None
      <3>1. h'[s].pc = "leave" /\ h'[s].at = r
        BY <2>1, <2>4
      <3>2. QED
        BY <2>2, <2>4, <3>1, MovesOn
    <2>5. CASE t # s
      BY <1>1, <2>1, <2>5
    <2>6. QED
      BY <2>3, <2>4, <2>5
  <1>12. CASE UNCHANGED h
    BY <1>1, <1>12
  <1>13. QED
    BY <1>2, <1>3, <1>4, <1>5, <1>6, <1>7, <1>9, <1>10, <1>11, <1>12
    DEF Next, Lobby, Client, Handler, RunLoop, CreateRoom, CreateRoomAdds,
        LoopSnapshot, LoopSeesGaming, LoopSeesReady, LoopPasses, RoomTick,
        RoomTickReturns, RoomStartGame, LoopSleeps, vars

\* Every step leaves uid_to_room_ with entries that name a seat of the uid.
LEMMA MappingStep ==
  ASSUME IInv, [Next]_vars, ServerAssumption
  PROVE  MappingHasSeat'
PROOF
  <1>0. /\ uid_to_room \in [Uids -> RoomIds \cup {None}]
        /\ MappingHasSeat
        /\ \A r \in RoomIds, u \in Uids :
              HasPlayer(room[r], u) => HasPlayer(room'[r], u)
    BY SeatStays DEF IInv, TypeOK, Pointers
  <1>1. CASE UNCHANGED uid_to_room
    BY <1>0, <1>1 DEF MappingHasSeat
  <1>2. ASSUME NEW s \in Streams, MapUidToRoom(s) PROVE MappingHasSeat'
    <2>1. h[s].at \in RoomIds /\ HasPlayer(room[h[s].at], UidOf[s])
      BY <1>2 DEF MapUidToRoom, IInv, Pointers, PointersOf, InRoom
    <2>2. QED
      BY <1>0, <1>2, <2>1, HeldTypes DEF MapUidToRoom, MappingHasSeat
  <1>3. ASSUME NEW s \in Streams, UnmapUid(s) \/ UnmapSelf(s)
        PROVE  MappingHasSeat'
    BY <1>0, <1>3 DEF UnmapUid, UnmapSelf, MappingHasSeat
  <1>4. QED
    BY <1>1, <1>2, <1>3
    DEF Next, Lobby, Client, Handler, RunLoop, CreateRoom, CreateRoomAdds,
        RegisterSession, EnterRoom, PlayerReady, SetReady, FrameInput,
        RoomPushInput, GameOver, RoomStopGame, DestroyRoomGone, DestroyRoom,
        RemoveRoom, StreamEnd, LeaveGame, LeaveIdleRoom, UnregisterSession,
        LoopSnapshot, LoopSeesGaming, LoopSeesReady, LoopPasses, RoomTick,
        RoomTickReturns, RoomStartGame, LoopSleeps, vars, manager

\* Where a step of its own, other than the first and the last, takes a handler.
LEMMA HandlerMoves ==
  ASSUME TypeOK, NEW s \in Streams, Client(s) \/ Handler(s),
         ~UnregisterSession(s)
  PROVE  /\ \A t \in Streams \ {s} : h'[t] = h[t]
         /\ h'[s].pc \notin {"new", "done"}
         /\ h'[s].pc = "unregister" => UnmapSelf(s)
PROOF
  <1>0. h \in [Streams -> HandlerType]
    BY DEF TypeOK
  <1> DEFINE Goal == /\ \A t \in Streams \ {s} : h'[t] = h[t]
                     /\ h'[s].pc \notin {"new", "done"}
                     /\ h'[s].pc = "unregister" => UnmapSelf(s)
  <1>1. CASE UnmapSelf(s)
    <2>1. /\ \A t \in Streams \ {s} : h'[t] = h[t]
          /\ h'[s].pc = "unregister"
      BY <1>0, <1>1, Fields DEF UnmapSelf
    <2>2. QED
      BY <1>1, <2>1
  <1>2. CASE RegisterSession(s) \/ RoomStopGame(s)
    <2>1. /\ \A t \in Streams \ {s} : h'[t] = h[t]
          /\ h'[s].pc \in {"read", "destroy"}
      BY <1>0, <1>2, Fields DEF RegisterSession, RoomStopGame
    <2>2. QED
      BY <2>1
  <1>3. ASSUME NEW pc \in {"map", "ready", "push", "stop", "unmap_self"},
               NEW r, NEW arg, GotoWith(s, pc, r, arg)
        PROVE  Goal
    <2>1. /\ \A t \in Streams \ {s} : h'[t] = h[t]
          /\ h'[s].pc = pc
      BY <1>0, <1>3, Fields
    <2>2. QED
      BY <2>1
  <1>4. CASE \/ \E r \in RoomIds : EnterRoom(s, r) \/ PlayerReady(s, r)
             \/ \E f \in InputFrames : FrameInput(s, f)
             \/ \E w \in Winners : GameOver(s, w)
             \/ LeaveGame(s) \/ LeaveIdleRoom(s)
    BY <1>3, <1>4 DEF EnterRoom, PlayerReady, FrameInput, GameOver, LeaveGame,
                      LeaveIdleRoom
  <1>5. CASE \/ MapUidToRoom(s) \/ SetReady(s) \/ RoomPushInput(s)
             \/ DestroyRoomGone(s) \/ RemoveRoom(s)
    <2>1. PICK x \in {Rest(s), Finish(s)} : h' = [h EXCEPT ![s] = x]
      BY <1>5, Zenon DEF MapUidToRoom, SetReady, RoomPushInput, DestroyRoomGone,
                         RemoveRoom
    <2>2. x.pc \in {"read", "unmap_self"}
      BY <1>0, <2>1, FinishFields
    <2>3. QED
      BY <1>0, <2>1, <2>2
  <1>6. CASE DestroyRoom(s) \/ UnmapUid(s) \/ StreamEnd(s)
    <2>1. /\ \A t \in Streams \ {s} : h'[t] = h[t]
          /\ h'[s].pc \in {"unmap", "unmap_self", "leave"}
      <3>1. CASE DestroyRoom(s)
        BY <1>0, <3>1 DEF DestroyRoom, HandlerType
      <3>2. CASE UnmapUid(s)
        BY <1>0, <3>2 DEF UnmapUid, HandlerType
      <3>3. CASE StreamEnd(s)
        BY <1>0, <3>3 DEF StreamEnd, HandlerType
      <3>4. QED
        BY <1>6, <3>1, <3>2, <3>3
    <2>2. QED
      BY <2>1
  <1>7. QED
    BY <1>1, <1>2, <1>4, <1>5, <1>6 DEF Client, Handler

\* A handler returns by UnregisterSession and in no other way, and no step
\* but RegisterSession and UnregisterSession touches sessions_.
LEMMA StaysRunning ==
  ASSUME TypeOK, [Next]_vars,
         ~(\E s \in Streams : RegisterSession(s)),
         ~(\E s \in Streams : UnregisterSession(s))
  PROVE  /\ UNCHANGED sessions
         /\ \A t \in Streams : h[t].pc \notin {"new", "done"} =>
                                 h'[t].pc \notin {"new", "done"}
PROOF
  <1>0. h \in [Streams -> HandlerType]
    BY DEF TypeOK
  <1> DEFINE Goal == \A t \in Streams : h[t].pc \notin {"new", "done"} =>
                                          h'[t].pc \notin {"new", "done"}
  <1>1. UNCHANGED sessions
    BY
    DEF Next, Lobby, Client, Handler, RunLoop, CreateRoom, CreateRoomAdds,
        EnterRoom, MapUidToRoom, PlayerReady, SetReady, FrameInput, RoomPushInput, GameOver,
        RoomStopGame, DestroyRoomGone, DestroyRoom, UnmapUid, RemoveRoom,
        StreamEnd, LeaveGame, LeaveIdleRoom, UnmapSelf,
        LoopSnapshot, LoopSeesGaming, LoopSeesReady, LoopPasses, RoomTick,
        RoomTickReturns, RoomStartGame, LoopSleeps, vars, manager
  <1>2. ASSUME UNCHANGED h PROVE Goal
    BY <1>2
  <1>3. ASSUME NEW s \in Streams, Client(s) \/ Handler(s) PROVE Goal
    <2>1. /\ \A t \in Streams \ {s} : h'[t] = h[t]
          /\ h'[s].pc \notin {"new", "done"}
      BY <1>3, HandlerMoves
    <2>2. QED
      BY <2>1
  <1>4. Goal
    BY <1>2, <1>3
    DEF Next, Lobby, RunLoop, CreateRoom, CreateRoomAdds, LoopSnapshot,
        LoopSeesGaming, LoopSeesReady, LoopPasses, RoomTick, RoomTickReturns,
        RoomStartGame, LoopSleeps, vars
  <1>5. QED
    BY <1>1, <1>4

\* No other step than UnmapSelf brings a handler to UnregisterSession, and no
\* other than MapUidToRoom adds an entry to uid_to_room_.
LEMMA StaysServed ==
  ASSUME TypeOK, [Next]_vars,
         ~(\E s \in Streams : MapUidToRoom(s)),
         ~(\E s \in Streams : UnmapSelf(s))
  PROVE  /\ \A u \in Uids : uid_to_room'[u] \in {uid_to_room[u], None}
         /\ \A t \in Streams :
              h[t].pc \notin {"new", "done", "unregister"} =>
                h'[t].pc \notin {"new", "done", "unregister"}
PROOF
  <1>0. h \in [Streams -> HandlerType] /\ uid_to_room \in [Uids -> RoomIds \cup {None}]
    BY DEF TypeOK
  <1> DEFINE Goal == \A t \in Streams :
                       h[t].pc \notin {"new", "done", "unregister"} =>
                         h'[t].pc \notin {"new", "done", "unregister"}
  <1>1. \A u \in Uids : uid_to_room'[u] \in {uid_to_room[u], None}
    <2>1. CASE UNCHANGED uid_to_room
      BY <2>1
    <2>2. ASSUME NEW s \in Streams, UnmapUid(s)
          PROVE  \A u \in Uids : uid_to_room'[u] \in {uid_to_room[u], None}
      BY <1>0, <2>2 DEF UnmapUid
    <2>3. QED
      BY <2>1, <2>2
      DEF Next, Lobby, Client, Handler, RunLoop, CreateRoom, CreateRoomAdds,
          RegisterSession, EnterRoom, PlayerReady, SetReady, FrameInput,
          RoomPushInput, GameOver, RoomStopGame, DestroyRoomGone, DestroyRoom,
          RemoveRoom, StreamEnd, LeaveGame, LeaveIdleRoom, UnregisterSession,
          LoopSnapshot, LoopSeesGaming, LoopSeesReady, LoopPasses, RoomTick,
          RoomTickReturns, RoomStartGame, LoopSleeps, vars, manager
  <1>2. ASSUME UNCHANGED h PROVE Goal
    BY <1>2
  <1>3. ASSUME NEW s \in Streams, Client(s) \/ Handler(s) PROVE Goal
    <2>1. CASE RegisterSession(s)
      <3>1. h[s].pc = "new" /\ \A t \in Streams \ {s} : h'[t] = h[t]
        BY <1>0, <2>1, Fields DEF RegisterSession
      <3>2. QED
        BY <3>1
    <2>2. CASE UnregisterSession(s)
      <3>1. h[s].pc = "unregister" /\ \A t \in Streams \ {s} : h'[t] = h[t]
        BY <1>0, <2>2, Fields DEF UnregisterSession
      <3>2. QED
        BY <3>1
    <2>3. CASE ~RegisterSession(s) /\ ~UnregisterSession(s)
      <3>1. /\ \A t \in Streams \ {s} : h'[t] = h[t]
            /\ h'[s].pc \notin {"new", "done"}
            /\ h'[s].pc # "unregister"
        BY <1>3, <2>3, HandlerMoves
      <3>2. QED
        BY <3>1
    <2>4. QED
      BY <2>1, <2>2, <2>3
  <1>4. Goal
    BY <1>2, <1>3
    DEF Next, Lobby, RunLoop, CreateRoom, CreateRoomAdds, LoopSnapshot,
        LoopSeesGaming, LoopSeesReady, LoopPasses, RoomTick, RoomTickReturns,
        RoomStartGame, LoopSleeps, vars
  <1>5. QED
    BY <1>1, <1>4

-----------------------------------------------------------------------------
(* The theorems.                                                            *)

\* IInv holds at the start.
LEMMA InvInit == ASSUME ServerAssumption, Init PROVE IInv
  BY TypeInit, SeatingInit, GamesInit, PointersInit DEF IInv

\* Every step keeps it: the parts need each other before the step only.
LEMMA InvStep == ASSUME IInv, [Next]_vars, ServerAssumption PROVE IInv'
PROOF
  <1>1. TypeOK' /\ Games' /\ Pointers'
    BY TypeStep, GamesStep, HandlersStep, MappingStep DEF Pointers
  <1>2. Seating'
    BY SeatingStep DEF IInv
  <1>3. QED
    BY <1>1, <1>2 DEF IInv

\* IInv holds in every state the server reaches.
LEMMA Inductive == Spec => []IInv
PROOF
  <1>1. Init => IInv
    BY ServerAssumption, InvInit
  <1>2. IInv /\ [Next]_vars => IInv'
    BY ServerAssumption, InvStep
  <1>3. QED
    BY <1>1, <1>2, PTL DEF Spec

\* Type correctness of the game server.
THEOREM TypeCorrect == Spec => []TypeOK
PROOF
  <1>1. IInv => TypeOK
    BY DEF IInv
  <1>2. QED
    BY <1>1, Inductive, PTL

\* The sides clients are announced are the ones their room gives them, and a
\* game runs between two players.
THEOREM SidesHold == Spec => []SidesAsAnnounced
PROOF
  <1>1. IInv => SidesAsAnnounced
    <2> SUFFICES ASSUME IInv, NEW r \in RoomIds
                 PROVE  /\ \A i \in DOMAIN room[r].player_uids :
                             room[r].game_id[room[r].player_uids[i]] = i
                        /\ room[r].state = "GAMING" => Len(room[r].player_uids) = 2
      BY DEF SidesAsAnnounced
    <2>1. CASE Empty(room[r])
      BY <2>1 DEF Empty, IInv, Games
    <2>2. ASSUME NEW u \in Uids, NEW v \in Uids, u # v,
                 SeatingOf(room[r], adding[r], u, v),
                 NEW i \in DOMAIN room[r].player_uids
          PROVE  room[r].game_id[room[r].player_uids[i]] = i
      <3>1. CASE room[r].player_uids = << >>
        BY <3>1
      <3>2. CASE room[r].player_uids = <<u>> /\ room[r].game_id = FirstSide(u)
        <4>1. i = 1 /\ room[r].player_uids[i] = u
          BY <3>2
        <4>2. QED
          BY <3>2, <4>1 DEF FirstSide
      <3>3. CASE room[r].player_uids = <<u, v>> /\ room[r].game_id = BothSides(u, v)
        <4>1. \/ i = 1 /\ room[r].player_uids[i] = u
              \/ i = 2 /\ room[r].player_uids[i] = v
          BY <3>3
        <4>2. QED
          BY <2>2, <3>3, <4>1 DEF BothSides
      <3>4. QED
        BY <2>2, <3>1, <3>2, <3>3 DEF SeatingOf
    <2>3. QED
      BY <2>1, <2>2 DEF IInv, Seating, Games
  <1>2. QED
    BY <1>1, Inductive, PTL

\* A game that a disconnect ends is decided for the player who stays.
THEOREM ForfeitHolds == Spec => []ForfeitGoesToOpponent
PROOF
  <1>1. IInv => ForfeitGoesToOpponent
    BY DEF IInv, Pointers, PointersOf, InRoom, ForfeitGoesToOpponent
  <1>2. QED
    BY <1>1, Inductive, PTL

\* SendToPlayers never writes to the stream of a handler that has returned, nor
\* to another player's stream, however the streams of a player overlap.
THEOREM StreamsAlive == Spec => []NoDanglingStream
PROOF
  <1>1. Init => NoDanglingStream
    BY ServerAssumption DEF Init, NoDanglingStream
  <1>2. TypeOK /\ NoDanglingStream /\ [Next]_vars => NoDanglingStream'
    <2> SUFFICES ASSUME TypeOK, NoDanglingStream, [Next]_vars
                 PROVE  NoDanglingStream'
      OBVIOUS
    <2>0. /\ UidOf \in [Streams -> Uids]
          /\ h \in [Streams -> HandlerType]
          /\ sessions \in [Uids -> Streams \cup {None}]
          /\ None \notin Streams
      BY ServerAssumption DEF ServerAssumption, TypeOK
    <2>1. ASSUME NEW s \in Streams, RegisterSession(s) PROVE NoDanglingStream'
      <3>1. /\ h'[s].pc = "read"
            /\ \A t \in Streams \ {s} : h'[t] = h[t]
        BY <2>0, <2>1, Fields DEF RegisterSession
      <3>2. /\ sessions'[UidOf[s]] = s
            /\ \A u \in Uids \ {UidOf[s]} : sessions'[u] = sessions[u]
            /\ h[s].pc = "new"
        BY <2>0, <2>1 DEF RegisterSession
      <3>3. QED
        BY <2>0, <3>1, <3>2 DEF NoDanglingStream, Running
    <2>2. ASSUME NEW s \in Streams, UnregisterSession(s) PROVE NoDanglingStream'
      <3>1. \A t \in Streams \ {s} : h'[t] = h[t]
        BY <2>0, <2>2, Fields DEF UnregisterSession
      <3>2. /\ sessions'[UidOf[s]] = None
            /\ \A u \in Uids \ {UidOf[s]} : sessions'[u] = sessions[u]
        BY <2>0, <2>2 DEF UnregisterSession
      <3>3. QED
        BY <2>0, <3>1, <3>2 DEF NoDanglingStream, Running
    <2>3. ASSUME UNCHANGED sessions,
                 \A t \in Streams : h[t].pc \notin {"new", "done"} =>
                                      h'[t].pc \notin {"new", "done"}
          PROVE  NoDanglingStream'
      BY <2>0, <2>3 DEF NoDanglingStream, Running
    <2>4. QED
      BY <2>1, <2>2, <2>3, StaysRunning
  <1>3. QED
    BY <1>1, <1>2, TypeCorrect, PTL DEF Spec

\* An entry of uid_to_room_ names a room its player has a seat in, and is gone
\* before the last stream of the player is.
THEOREM MappingHolds == Spec => []MappingOwned
PROOF
  <1> DEFINE Served ==
        \A u \in Uids : uid_to_room[u] # None =>
          \E s \in Streams : UidOf[s] = u /\ Running(s) /\ h[s].pc # "unregister"
  <1>1. Init => Served
    BY DEF Init
  <1>2. TypeOK /\ Served /\ [Next]_vars => Served'
    <2> SUFFICES ASSUME TypeOK, Served, [Next]_vars PROVE Served'
      OBVIOUS
    <2>0. /\ UidOf \in [Streams -> Uids]
          /\ h \in [Streams -> HandlerType]
          /\ uid_to_room \in [Uids -> RoomIds \cup {None}]
      BY ServerAssumption DEF ServerAssumption, TypeOK
    <2>1. ASSUME NEW s \in Streams, MapUidToRoom(s) PROVE Served'
      <3>1. /\ h'[s].pc = "read"
            /\ \A t \in Streams \ {s} : h'[t] = h[t]
            /\ h[s].pc = "map"
            /\ \A u \in Uids \ {UidOf[s]} : uid_to_room'[u] = uid_to_room[u]
        BY <2>0, <2>1, FinishFields DEF MapUidToRoom
      <3>2. QED
        BY <2>0, <3>1 DEF Running
    <2>2. ASSUME NEW s \in Streams, UnmapSelf(s) PROVE Served'
      <3>1. /\ \A t \in Streams \ {s} : h'[t] = h[t]
            /\ uid_to_room'[UidOf[s]] = None
            /\ \A u \in Uids \ {UidOf[s]} : uid_to_room'[u] = uid_to_room[u]
        BY <2>0, <2>2, Fields DEF UnmapSelf
      <3>2. QED
        BY <2>0, <3>1 DEF Running
    <2>3. ASSUME \A u \in Uids : uid_to_room'[u] \in {uid_to_room[u], None},
                 \A t \in Streams :
                   h[t].pc \notin {"new", "done", "unregister"} =>
                     h'[t].pc \notin {"new", "done", "unregister"}
          PROVE  Served'
      BY <2>0, <2>3 DEF Running
    <2>4. QED
      BY <2>1, <2>2, <2>3, StaysServed
  <1>3. IInv /\ Served => MappingOwned
    BY DEF IInv, Pointers, MappingHasSeat, MappingOwned
  <1>4. QED
    BY <1>1, <1>2, <1>3, TypeCorrect, Inductive, PTL DEF Spec
=============================================================================
