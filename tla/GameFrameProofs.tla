--------------------------- MODULE GameFrameProofs ---------------------------
(***************************************************************************)
(* The frames and the verdicts of a game, for every number of players,     *)
(* streams, rooms and frames: what clients have been told of a room, and   *)
(* what the room has stored, agree however StopGame, Tick, StartGame and   *)
(* the ends of streams interleave.                                         *)
(***************************************************************************)
EXTENDS GameServerProofs

\* A stream that a room has written to has a seat in it, and its handler is
\* past its first Read: a stream that registers later expects no frame yet.
Expecting ==
  \A s \in Streams, r \in RoomIds :
    expects[s][r] # None => HasPlayer(room[r], UidOf[s]) /\ h[s].pc # "new"

\* No input has been stored in a room that CreateRoom has not created.
Quiet == \A r \in RoomIds : r >= next_room_id => room[r].raw_inputs = NoInputs

\* The room that RunLoop has chosen to start is still idle when it does:
\* RunLoop alone starts games.
Starting == loop.pc = "start" => room[loop.at].state = "IDLE"

\* A running game is undecided, and an idle room keeps inputs only of a game
\* that has been decided.
Decided ==
  \A r \in RoomIds :
    /\ room[r].state = "GAMING" => verdicts[r] = {}
    /\ room[r].state = "IDLE" /\ room[r].raw_inputs # NoInputs => verdicts[r] # {}

FInv == Expecting /\ Quiet /\ Starting /\ Decided /\ RegisteredIsUpToDate

-----------------------------------------------------------------------------
(* What the steps do to a game.                                             *)

SameGame(r) ==
  /\ room'[r].state = room[r].state
  /\ room'[r].frame_id = room[r].frame_id
  /\ room'[r].raw_inputs = room[r].raw_inputs

\* CreateRoom empties an id that no game has used; every other room, what
\* clients have been told and the sessions stay.
LEMMA CreateEffect ==
  ASSUME IInv, ServerAssumption, NEW m \in Matches, CreateRoom(m)
  PROVE  /\ room'[next_room_id] = NewRoom /\ next_room_id \in RoomIds
         /\ \A r \in RoomIds \ {next_room_id} : SameGame(r)
         /\ next_room_id' = next_room_id + 1
         /\ UNCHANGED <<verdicts, expects, sessions, loop, h>>
  BY DEF CreateRoom, IInv, TypeOK, SameGame, observer

\* PushInput stores an input in a slot that is free, of a room that is GAMING
\* and that the player has a seat in.
LEMMA PushEffect ==
  ASSUME IInv, ServerAssumption, NEW s \in Streams, RoomPushInput(s),
         NEW r \in RoomIds
  PROVE  /\ room'[r].state = room[r].state
         /\ room'[r].frame_id = room[r].frame_id
         /\ \A g \in GameIds :
              room[r].raw_inputs[g] # NoInput =>
                room'[r].raw_inputs[g] = room[r].raw_inputs[g]
         /\ room'[r].raw_inputs # room[r].raw_inputs =>
              /\ room[r].state = "GAMING"
              /\ HasPlayer(room[r], UidOf[s])
         /\ UNCHANGED <<verdicts, expects, sessions, loop, next_room_id>>
PROOF
  <1>1. /\ room \in [RoomIds -> RoomType] /\ room[r] \in RoomType
        /\ h[s].at \in RoomIds
        /\ h[s].arg \in Frames
        /\ UidOf[s] \in Uids
    BY HeldTypes DEF IInv, TypeOK, RoomPushInput, InRoom, Pointers, PointersOf
  <1>2. room' = [room EXCEPT ![h[s].at] = PushInput(@, UidOf[s], h[s].arg)]
    BY DEF RoomPushInput
  <1>3. UNCHANGED <<verdicts, expects, sessions, loop, next_room_id>>
    BY DEF RoomPushInput, observer, control
  <1>4. CASE r # h[s].at
    BY <1>1, <1>2, <1>3, <1>4
  <1>5. CASE r = h[s].at
    <2>1. room'[r] = PushInput(room[r], UidOf[s], h[s].arg)
      BY <1>1, <1>2, <1>5
    <2>2. CASE AcceptsInput(room[r], UidOf[s], h[s].arg)
      <3> DEFINE mine == room[r].game_id[UidOf[s]]
      <3>1. /\ room'[r].state = room[r].state
            /\ room'[r].frame_id = room[r].frame_id
            /\ room'[r].raw_inputs = [room[r].raw_inputs EXCEPT ![mine] = h[s].arg]
        BY <1>1, <2>1, <2>2 DEF PushInput, RoomType
      <3>2. /\ room[r].state = "GAMING"
            /\ HasPlayer(room[r], UidOf[s])
            /\ room[r].raw_inputs[mine] = NoInput
        BY <2>2 DEF AcceptsInput
      <3>3. room[r].raw_inputs \in [GameIds -> Frames \cup {NoInput}]
        BY <1>1 DEF RoomType
      <3>4. QED
        BY <1>3, <3>1, <3>2, <3>3
    <2>3. CASE ~AcceptsInput(room[r], UidOf[s], h[s].arg)
      BY <1>3, <2>1, <2>3 DEF PushInput
    <2>4. QED
      BY <2>2, <2>3
  <1>6. QED
    BY <1>4, <1>5

\* StopGame leaves an idle room and a verdict.
LEMMA StopEffect ==
  ASSUME IInv, ServerAssumption, NEW s \in Streams, RoomStopGame(s),
         NEW r \in RoomIds
  PROVE  /\ room'[r].frame_id = room[r].frame_id
         /\ room'[r].raw_inputs = room[r].raw_inputs
         /\ \/ room'[r].state = room[r].state /\ verdicts'[r] = verdicts[r]
            \/ room'[r].state = "IDLE" /\ verdicts'[r] # {}
         /\ UNCHANGED <<expects, sessions, loop, next_room_id>>
PROOF
  <1>1. /\ room \in [RoomIds -> RoomType] /\ room[r] \in RoomType
        /\ h[s].at \in RoomIds
        /\ verdicts \in [RoomIds -> SUBSET Uids]
    BY HeldTypes DEF IInv, TypeOK, RoomStopGame, InRoom
  <1>2. CASE r # h[s].at
    BY <1>1, <1>2 DEF RoomStopGame, control
  <1>3. CASE r = h[s].at
    BY <1>1, <1>3 DEF RoomStopGame, control, StopGame, RoomType
  <1>4. QED
    BY <1>2, <1>3

\* Tick sends the frame that a running game collects and begins the next; it
\* tells every registered player of the room.
LEMMA TickEffect ==
  ASSUME IInv, ServerAssumption, RoomTick
  PROVE  /\ loop.at \in RoomIds
         /\ room[loop.at].state = "GAMING" /\ room'[loop.at].state = "GAMING"
         /\ room'[loop.at].frame_id = room[loop.at].frame_id + 1
         /\ room'[loop.at].raw_inputs = NoInputs
         /\ \A r \in RoomIds \ {loop.at} : SameGame(r)
         /\ Told(loop.at, room'[loop.at].frame_id)
         /\ UNCHANGED <<verdicts, sessions, h, next_room_id>>
         /\ loop'.pc = "scan"
PROOF
  <1>1. /\ room \in [RoomIds -> RoomType]
        /\ loop.at \in RoomIds /\ loop \in LoopType
    BY DEF IInv, TypeOK, RoomTick, Games
  <1>2. room' = [room EXCEPT ![loop.at] = NextFrame(@)]
    BY DEF RoomTick
  <1>3. /\ room'[loop.at].state = room[loop.at].state
        /\ room'[loop.at].frame_id = room[loop.at].frame_id + 1
        /\ room'[loop.at].raw_inputs = NoInputs
    BY <1>1, <1>2 DEF NextFrame, RoomType
  <1>4. \A r \in RoomIds \ {loop.at} : SameGame(r)
    BY <1>1, <1>2 DEF SameGame
  <1>5. loop'.pc = "scan"
    BY <1>1 DEF RoomTick, Scan, LoopType
  <1>6. /\ room[loop.at].state = "GAMING"
        /\ UNCHANGED <<verdicts, sessions, h, next_room_id>>
    BY DEF RoomTick, control
  <1>7. Told(loop.at, room'[loop.at].frame_id)
    BY <1>3 DEF RoomTick
  <1>8. QED
    BY <1>1, <1>3, <1>4, <1>5, <1>6, <1>7

\* StartGame begins a game at frame 0, undecided and without inputs; it tells
\* every registered player of the room.
LEMMA StartEffect ==
  ASSUME IInv, ServerAssumption, RoomStartGame
  PROVE  /\ loop.at \in RoomIds /\ loop.pc = "start"
         /\ room'[loop.at].state = "GAMING"
         /\ room'[loop.at].frame_id = 0
         /\ room'[loop.at].raw_inputs = NoInputs
         /\ verdicts'[loop.at] = {}
         /\ \A r \in RoomIds \ {loop.at} :
              SameGame(r) /\ verdicts'[r] = verdicts[r]
         /\ Told(loop.at, room'[loop.at].frame_id)
         /\ UNCHANGED <<sessions, h, next_room_id>>
         /\ loop'.pc = "scan"
PROOF
  <1>1. /\ room \in [RoomIds -> RoomType]
        /\ verdicts \in [RoomIds -> SUBSET Uids]
        /\ loop.at \in RoomIds /\ loop \in LoopType
    BY DEF IInv, TypeOK, RoomStartGame, Games
  <1>2. /\ room' = [room EXCEPT ![loop.at] = StartGame(@)]
        /\ verdicts' = [verdicts EXCEPT ![loop.at] = {}]
        /\ Told(loop.at, 0)
        /\ loop.pc = "start"
        /\ UNCHANGED <<sessions, h, next_room_id>>
    BY DEF RoomStartGame, control
  <1>3. /\ room'[loop.at].state = "GAMING"
        /\ room'[loop.at].frame_id = 0
        /\ room'[loop.at].raw_inputs = NoInputs
        /\ verdicts'[loop.at] = {}
    BY <1>1, <1>2 DEF StartGame, RoomType
  <1>4. \A r \in RoomIds \ {loop.at} : SameGame(r) /\ verdicts'[r] = verdicts[r]
    BY <1>1, <1>2 DEF SameGame
  <1>5. loop'.pc = "scan"
    BY <1>1 DEF RoomStartGame, Scan, LoopType
  <1>6. QED
    BY <1>1, <1>2, <1>3, <1>4, <1>5

\* Every other step leaves every game as it is.
LEMMA OtherEffect ==
  ASSUME IInv, [Next]_vars, ServerAssumption,
         ~(\E m \in Matches : CreateRoom(m)),
         ~(\E s \in Streams : RoomPushInput(s) \/ RoomStopGame(s)),
         ~RoomTick, ~RoomStartGame
  PROVE  /\ \A r \in RoomIds : SameGame(r)
         /\ UNCHANGED <<verdicts, expects, next_room_id>>
PROOF
  <1>0. room \in [RoomIds -> RoomType]
    BY DEF IInv, TypeOK
  <1>1. CASE UNCHANGED <<room, verdicts, expects, next_room_id>>
    BY <1>1 DEF SameGame
  <1>2. ASSUME NEW q \in RoomIds, CreateRoomAdds(q)
        PROVE  /\ \A r \in RoomIds : SameGame(r)
               /\ UNCHANGED <<verdicts, expects, next_room_id>>
    BY <1>0, <1>2 DEF CreateRoomAdds, AddPlayer, RoomType, SameGame, observer
  <1>3. ASSUME NEW s \in Streams, SetReady(s)
        PROVE  /\ \A r \in RoomIds : SameGame(r)
               /\ UNCHANGED <<verdicts, expects, next_room_id>>
    BY <1>0, <1>3 DEF SetReady, RoomType, SameGame, observer, control
  <1>4. QED
    BY <1>1, <1>2, <1>3
    DEF Next, Lobby, Client, Handler, RunLoop, RegisterSession, EnterRoom,
        MapUidToRoom, PlayerReady, FrameInput, GameOver, DestroyRoomGone,
        DestroyRoom, UnmapUid, RemoveRoom, StreamEnd, LeaveGame,
        LeaveIdleRoom, UnmapSelf, UnregisterSession, LoopSnapshot,
        LoopSeesGaming, LoopSeesReady, LoopPasses, RoomTickReturns,
        LoopSleeps, vars, manager, control, observer

\* A handler never returns to its first Read, and streams that register find
\* their handler there.
LEMMA NeverNew ==
  ASSUME TypeOK, [Next]_vars, NEW t \in Streams, h[t].pc # "new"
  PROVE  h'[t].pc # "new"
PROOF
  <1>0. h \in [Streams -> HandlerType]
    BY DEF TypeOK
  <1>1. CASE UNCHANGED h
    BY <1>1
  <1>2. ASSUME NEW s \in Streams, Client(s) \/ Handler(s) PROVE h'[t].pc # "new"
    <2>1. CASE UnregisterSession(s)
      BY <1>0, <2>1, Fields DEF UnregisterSession
    <2>2. CASE ~UnregisterSession(s)
      BY <1>2, <2>2, HandlerMoves
    <2>3. QED
      BY <2>1, <2>2
  <1>3. QED
    BY <1>1, <1>2
    DEF Next, Lobby, RunLoop, CreateRoom, CreateRoomAdds, LoopSnapshot,
        LoopSeesGaming, LoopSeesReady, LoopPasses, RoomTick, RoomTickReturns,
        RoomStartGame, LoopSleeps, vars

\* A broadcast sets what a stream expects to the frame told, if the stream is
\* registered for a player of the room, and changes nothing else.
LEMMA ToldEffect ==
  ASSUME IInv, NEW q \in RoomIds, NEW f, Told(q, f),
         NEW s \in Streams, NEW r \in RoomIds
  PROVE  \/ s \in Reached(q) /\ r = q /\ expects'[s][r] = f
         \/ (s \notin Reached(q) \/ r # q) /\ expects'[s][r] = expects[s][r]
  BY DEF Told, IInv, TypeOK

-----------------------------------------------------------------------------
(* The invariant is inductive.                                              *)

\* Nothing has been told, stored or decided at the start.
LEMMA FramesInit == ASSUME ServerAssumption, Init PROVE FInv
PROOF
  <1>1. Quiet /\ Starting /\ Decided
    BY DEF Init, Quiet, Starting, Decided, NewRoom
  <1>2. Expecting /\ RegisteredIsUpToDate
    BY DEF Init, Expecting, RegisteredIsUpToDate
  <1>3. QED
    BY <1>1, <1>2 DEF FInv

\* Only registered streams of players with a seat are told anything.
LEMMA ExpectingStep ==
  ASSUME IInv, Expecting, NoDanglingStream, [Next]_vars, ServerAssumption
  PROVE  Expecting'
PROOF
  <1> SUFFICES ASSUME NEW s \in Streams, NEW r \in RoomIds, expects'[s][r] # None
               PROVE  HasPlayer(room'[r], UidOf[s]) /\ h'[s].pc # "new"
    BY DEF Expecting
  <1>0. UidOf[s] \in Uids
    BY HeldTypes
  <1>1. CASE expects[s][r] # None
    BY <1>0, <1>1, SeatStays, NeverNew DEF Expecting, IInv
  <1>2. CASE expects[s][r] = None
    <2>1. RoomTick \/ RoomStartGame
      <3>1. UNCHANGED expects => FALSE
        BY <1>2
      <3>2. QED
        BY <3>1, CreateEffect, PushEffect, StopEffect, OtherEffect
    <2>2. /\ loop.at \in RoomIds
          /\ Told(loop.at, room'[loop.at].frame_id)
          /\ UNCHANGED h
      BY <2>1, TickEffect, StartEffect
    <2>3. s \in Reached(loop.at) /\ r = loop.at
      BY <1>2, <2>2, ToldEffect
    <2>4. HasPlayer(room[r], UidOf[s]) /\ sessions[UidOf[s]] = s
      BY <2>3 DEF Reached
    <2>5. h[s].pc # "new"
      <3>1. s # None
        BY ServerAssumption DEF ServerAssumption
      <3>2. QED
        BY <1>0, <2>4, <3>1 DEF NoDanglingStream, Running
    <2>6. QED
      BY <1>0, <2>2, <2>4, <2>5, SeatStays
  <1>3. QED
    BY <1>1, <1>2

\* An id of which no call of CreateRoom has taken hold has no players, and so
\* nobody who could push an input.
LEMMA QuietStep ==
  ASSUME IInv, Quiet, [Next]_vars, ServerAssumption
  PROVE  Quiet'
PROOF
  <1> SUFFICES ASSUME NEW r \in RoomIds, r >= next_room_id'
               PROVE  room'[r].raw_inputs = NoInputs
    BY DEF Quiet
  <1>0. r \in Int /\ next_room_id \in Int
    BY ServerAssumption DEF IInv, TypeOK, RoomIds, ServerAssumption
  <1>1. ASSUME NEW m \in Matches, CreateRoom(m)
        PROVE  room'[r].raw_inputs = NoInputs
    BY <1>0, <1>1, CreateEffect DEF Quiet, SameGame
  <1>2. ASSUME NEW s \in Streams, RoomPushInput(s)
        PROVE  room'[r].raw_inputs = NoInputs
    <2>1. r >= next_room_id
      BY <1>2, PushEffect
    <2>2. \A u \in Uids : ~HasPlayer(room[r], u)
      BY <1>0, <2>1 DEF IInv, Seating, Empty, HasPlayer
    <2>3. QED
      BY <1>2, <2>1, <2>2, PushEffect, HeldTypes DEF Quiet
  <1>3. ASSUME NEW s \in Streams, RoomStopGame(s)
        PROVE  room'[r].raw_inputs = NoInputs
    BY <1>3, StopEffect DEF Quiet
  <1>4. CASE RoomTick
    BY <1>4, TickEffect DEF Quiet, SameGame
  <1>5. CASE RoomStartGame
    BY <1>5, StartEffect DEF Quiet, SameGame
  <1>6. QED
    BY <1>1, <1>2, <1>3, <1>4, <1>5, OtherEffect DEF Quiet, SameGame

\* RunLoop comes to StartGame through its look at the room.
LEMMA StartsNext ==
  ASSUME IInv, [Next]_vars, ServerAssumption, loop'.pc = "start"
  PROVE  \/ UNCHANGED loop
         \/ \E r \in RoomIds : LoopSeesReady(r) /\ loop'.at = r
PROOF
  <1>0. loop \in LoopType /\ Scan.pc = "scan"
    BY DEF IInv, TypeOK, Scan, LoopType
  <1>1. ~RoomTick /\ ~RoomStartGame
    BY TickEffect, StartEffect
  <1>2. ~LoopSnapshot /\ ~LoopSleeps /\ ~RoomTickReturns
    <2>1. ~LoopSnapshot
      BY DEF LoopSnapshot
    <2>2. LoopSleeps => loop'.pc = "sleep"
      BY <1>0 DEF LoopSleeps, LoopType
    <2>3. ~RoomTickReturns
      BY <1>0, Zenon DEF RoomTickReturns
    <2>4. QED
      BY <2>1, <2>2, <2>3
  <1>3. ASSUME NEW r \in RoomIds, LoopSeesGaming(r) \/ LoopPasses(r)
        PROVE  FALSE
    BY <1>0, <1>3 DEF LoopSeesGaming, LoopPasses, LoopType
  <1>4. ASSUME NEW r \in RoomIds, LoopSeesReady(r) PROVE loop'.at = r
    BY <1>4 DEF LoopSeesReady
  <1>5. QED
    BY <1>1, <1>2, <1>3, <1>4
    DEF Next, Lobby, Client, Handler, RunLoop, CreateRoom, CreateRoomAdds,
        RegisterSession, EnterRoom, MapUidToRoom, PlayerReady, SetReady,
        FrameInput, RoomPushInput, GameOver, RoomStopGame, DestroyRoomGone,
        DestroyRoom, UnmapUid, RemoveRoom, StreamEnd, LeaveGame,
        LeaveIdleRoom, UnmapSelf, UnregisterSession, vars

\* RunLoop does not start a room twice, and nobody else starts one.
LEMMA StartingStep ==
  ASSUME IInv, Starting, [Next]_vars, ServerAssumption
  PROVE  Starting'
PROOF
  <1> SUFFICES ASSUME loop'.pc = "start"
               PROVE  room'[loop'.at].state = "IDLE"
    BY DEF Starting
  <1>1. ~RoomStartGame
    BY StartEffect
  <1>2. loop'.at \in RoomIds /\ room[loop'.at].state = "IDLE"
    <2>1. CASE UNCHANGED loop
      BY <2>1 DEF IInv, Games, Starting
    <2>2. ASSUME NEW r \in RoomIds, LoopSeesReady(r)
          PROVE  loop'.at \in RoomIds /\ room[loop'.at].state = "IDLE"
      BY <2>2 DEF LoopSeesReady
    <2>3. QED
      BY <2>1, <2>2, StartsNext
  <1>3. room'[loop'.at].state # "GAMING"
    BY <1>1, <1>2, OnlyStartGame
  <1>4. room'[loop'.at] \in RoomType
    BY <1>2, RoomTypeStep
  <1>5. QED
    BY <1>3, <1>4 DEF RoomType, RoomStates

\* StopGame, which ends a game, announces a winner, and StartGame, which begins
\* the next, withdraws the verdict of the last.
LEMMA DecidedStep ==
  ASSUME IInv, Decided, [Next]_vars, ServerAssumption
  PROVE  Decided'
PROOF
  <1> DEFINE Of(r) ==
        /\ room[r].state = "GAMING" => verdicts[r] = {}
        /\ room[r].state = "IDLE" /\ room[r].raw_inputs # NoInputs =>
             verdicts[r] # {}
  <1> SUFFICES ASSUME NEW r \in RoomIds PROVE Of(r)'
    BY DEF Decided
  <1>0. Of(r)
    BY DEF Decided
  <1>1. ASSUME SameGame(r), verdicts'[r] = verdicts[r] PROVE Of(r)'
    BY <1>0, <1>1 DEF SameGame
  <1>2. ASSUME NEW m \in Matches, CreateRoom(m) PROVE Of(r)'
    <2>1. CASE r = next_room_id
      BY <1>2, <2>1, CreateEffect DEF NewRoom
    <2>2. CASE r # next_room_id
      BY <1>1, <1>2, <2>2, CreateEffect
    <2>3. QED
      BY <2>1, <2>2
  <1>3. ASSUME NEW s \in Streams, RoomPushInput(s) PROVE Of(r)'
    BY <1>0, <1>3, PushEffect
  <1>4. ASSUME NEW s \in Streams, RoomStopGame(s) PROVE Of(r)'
    BY <1>0, <1>4, StopEffect
  <1>5. CASE RoomTick
    BY <1>0, <1>1, <1>5, TickEffect
  <1>6. CASE RoomStartGame
    BY <1>1, <1>6, StartEffect
  <1>7. QED
    BY <1>1, <1>2, <1>3, <1>4, <1>5, <1>6, OtherEffect

\* A registered stream hears every broadcast of its player's room, and a stream
\* that registers has heard none.
LEMMA UpToDateStep ==
  ASSUME IInv, FInv, [Next]_vars, ServerAssumption
  PROVE  RegisteredIsUpToDate'
PROOF
  <1> SUFFICES ASSUME NEW s \in Streams, NEW r \in RoomIds,
                      sessions'[UidOf[s]] = s,
                      expects'[s][r] # None,
                      room'[r].state = "GAMING"
               PROVE  expects'[s][r] = room'[r].frame_id
    BY DEF RegisteredIsUpToDate
  <1>0. /\ UidOf[s] \in Uids /\ s # None
        /\ sessions \in [Uids -> Streams \cup {None}]
        /\ UidOf \in [Streams -> Uids]
    BY HeldTypes, ServerAssumption DEF IInv, TypeOK, ServerAssumption
  <1>1. ASSUME UNCHANGED expects PROVE sessions[UidOf[s]] = s
    <2>1. ASSUME NEW q \in Streams, RegisterSession(q)
          PROVE  sessions[UidOf[s]] = s
      <3>1. q # s
        BY <1>1, <2>1 DEF RegisterSession, FInv, Expecting
      <3>2. QED
        BY <1>0, <2>1, <3>1 DEF RegisterSession
    <2>2. ASSUME NEW q \in Streams, UnregisterSession(q)
          PROVE  sessions[UidOf[s]] = s
      BY <1>0, <2>2 DEF UnregisterSession
    <2>3. QED
      BY <2>1, <2>2, StaysRunning DEF IInv
  <1>2. ASSUME UNCHANGED expects,
               room[r].state = "GAMING",
               room'[r].frame_id = room[r].frame_id
        PROVE  expects'[s][r] = room'[r].frame_id
    BY <1>1, <1>2 DEF FInv, RegisteredIsUpToDate
  <1>3. ASSUME RoomTick \/ RoomStartGame
        PROVE  expects'[s][r] = room'[r].frame_id
    <2>1. /\ loop.at \in RoomIds
          /\ Told(loop.at, room'[loop.at].frame_id)
          /\ r # loop.at => SameGame(r)
          /\ UNCHANGED sessions
      BY <1>3, TickEffect, StartEffect
    <2>2. CASE s \in Reached(loop.at) /\ r = loop.at
      BY <2>1, <2>2, ToldEffect
    <2>3. CASE r = loop.at /\ s \notin Reached(loop.at)
      <3>1. expects[s][r] # None
        BY <2>1, <2>3, ToldEffect
      <3>2. HasPlayer(room[r], UidOf[s])
        BY <3>1 DEF FInv, Expecting
      <3>3. QED
        BY <2>1, <2>3, <3>2 DEF Reached
    <2>4. CASE r # loop.at
      <3>1. expects'[s][r] = expects[s][r]
        BY <2>1, <2>4, ToldEffect
      <3>2. QED
        BY <2>1, <2>4, <3>1 DEF FInv, RegisteredIsUpToDate, SameGame
    <2>5. QED
      BY <2>2, <2>3, <2>4
  <1>4. ASSUME NEW m \in Matches, CreateRoom(m)
        PROVE  expects'[s][r] = room'[r].frame_id
    <2>1. r # next_room_id
      BY <1>4, CreateEffect DEF NewRoom
    <2>2. QED
      BY <1>2, <1>4, <2>1, CreateEffect DEF SameGame
  <1>5. ASSUME ~RoomStartGame PROVE room[r].state = "GAMING"
    BY <1>5, OnlyStartGame
  <1>6. ASSUME NEW q \in Streams, RoomPushInput(q)
        PROVE  expects'[s][r] = room'[r].frame_id
    BY <1>2, <1>6, PushEffect
  <1>7. ASSUME NEW q \in Streams, RoomStopGame(q), ~RoomStartGame
        PROVE  expects'[s][r] = room'[r].frame_id
    BY <1>2, <1>5, <1>7, StopEffect
  <1>8. QED
    BY <1>2, <1>3, <1>4, <1>6, <1>7, OtherEffect DEF SameGame

-----------------------------------------------------------------------------
(* A room leaves the map with its game.                                     *)

\* A game in the room is decided, or has begun since.
Over(r) == verdicts[r] # {} \/ room[r].state = "GAMING"

Destroying(s) == h[s].pc \in {"destroy", "unmap"}

\* DestroyRoom runs for decided games only, and so only rooms of decided games
\* are missing from the map.
Standing ==
  /\ \A s \in Streams : Destroying(s) => Over(h[s].at)
  /\ \A r \in RoomIds : r < next_room_id => r \in rooms \/ Over(r)

\* A verdict is withdrawn by the start of the next game only.
LEMMA OverStays ==
  ASSUME IInv, [Next]_vars, ServerAssumption, NEW r \in RoomIds,
         r < next_room_id, Over(r)
  PROVE  Over(r)'
PROOF
  <1>1. ASSUME SameGame(r), verdicts'[r] = verdicts[r] PROVE Over(r)'
    BY <1>1 DEF SameGame, Over
  <1>2. ASSUME NEW m \in Matches, CreateRoom(m) PROVE Over(r)'
    <2>1. r # next_room_id
      BY ServerAssumption DEF RoomIds, ServerAssumption
    <2>2. QED
      BY <1>1, <1>2, <2>1, CreateEffect
  <1>3. ASSUME NEW s \in Streams, RoomPushInput(s) PROVE Over(r)'
    BY <1>3, PushEffect DEF Over
  <1>4. ASSUME NEW s \in Streams, RoomStopGame(s) PROVE Over(r)'
    BY <1>4, StopEffect DEF Over
  <1>5. CASE RoomTick
    BY <1>1, <1>5, TickEffect DEF Over
  <1>6. CASE RoomStartGame
    BY <1>1, <1>6, StartEffect DEF Over
  <1>7. QED
    BY <1>1, <1>2, <1>3, <1>4, <1>5, <1>6, OtherEffect

\* DestroyRoom is reached through StopGame, with the same room.
LEMMA DestroyedIsStopped ==
  ASSUME IInv, [Next]_vars, ServerAssumption, NEW t \in Streams, Destroying(t)'
  PROVE  h'[t].at = h[t].at /\ (Destroying(t) \/ RoomStopGame(t))
PROOF
  <1> DEFINE Goal == h'[t].at = h[t].at /\ (Destroying(t) \/ RoomStopGame(t))
  <1>0. h \in [Streams -> HandlerType]
    BY DEF IInv, TypeOK
  <1>1. ASSUME h'[t] = h[t] PROVE Goal
    BY <1>1 DEF Destroying
  <1>2. ASSUME NEW s \in Streams, Client(s) \/ Handler(s) PROVE Goal
    <2>1. CASE s # t
      <3>1. CASE UnregisterSession(s)
        BY <1>0, <1>1, <2>1, <3>1, Fields DEF UnregisterSession
      <3>2. CASE ~UnregisterSession(s)
        <4>1. h'[t] = h[t]
          BY <1>2, <2>1, <3>2, HandlerMoves DEF IInv
        <4>2. QED
          BY <1>1, <4>1
      <3>3. QED
        BY <3>1, <3>2
    <2>2. CASE s = t
      <3>1. CASE RoomStopGame(t)
        BY <1>0, <3>1, Fields DEF RoomStopGame
      <3>2. CASE DestroyRoom(t) \/ UnmapUid(t)
        <4>1. h[t].pc \in {"destroy", "unmap"}
          BY <3>2 DEF DestroyRoom, UnmapUid
        <4>2. h'[t].at = h[t].at
          <5>1. CASE DestroyRoom(t)
            BY <1>0, <5>1 DEF DestroyRoom, HandlerType
          <5>2. CASE UnmapUid(t)
            BY <1>0, <5>2 DEF UnmapUid, HandlerType
          <5>3. QED
            BY <3>2, <5>1, <5>2
        <4>3. QED
          BY <4>1, <4>2 DEF Destroying
      <3>3. CASE RegisterSession(t) \/ UnmapSelf(t) \/ UnregisterSession(t)
        <4>1. h'[t].pc \in {"read", "unregister", "done"}
          BY <1>0, <3>3, Fields DEF RegisterSession, UnmapSelf, UnregisterSession
        <4>2. QED
          BY <4>1 DEF Destroying
      <3>4. ASSUME NEW pc \in {"map", "ready", "push", "stop", "unmap_self"},
                   NEW r, NEW arg, GotoWith(t, pc, r, arg)
            PROVE  FALSE
        BY <1>0, <3>4, Fields DEF Destroying
      <3>5. CASE \/ \E r \in RoomIds : EnterRoom(t, r) \/ PlayerReady(t, r)
                 \/ \E f \in InputFrames : FrameInput(t, f)
                 \/ \E w \in Winners : GameOver(t, w)
                 \/ LeaveGame(t) \/ LeaveIdleRoom(t)
        BY <3>4, <3>5 DEF EnterRoom, PlayerReady, FrameInput, GameOver,
                          LeaveGame, LeaveIdleRoom
      <3>6. CASE \/ MapUidToRoom(t) \/ SetReady(t) \/ RoomPushInput(t)
                 \/ DestroyRoomGone(t) \/ RemoveRoom(t)
        <4>1. PICK x \in {Rest(t), Finish(t)} : h' = [h EXCEPT ![t] = x]
          BY <3>6, Zenon DEF MapUidToRoom, SetReady, RoomPushInput,
                             DestroyRoomGone, RemoveRoom
        <4>2. h'[t].pc \in {"read", "unmap_self"}
          BY <1>0, <4>1, FinishFields
        <4>3. QED
          BY <4>2 DEF Destroying
      <3>7. CASE StreamEnd(t)
        <4>1. h'[t].pc \in {"unmap_self", "leave"}
          BY <1>0, <3>7 DEF StreamEnd, HandlerType
        <4>2. QED
          BY <4>1 DEF Destroying
      <3>8. QED
        BY <1>2, <2>2, <3>1, <3>2, <3>3, <3>5, <3>6, <3>7 DEF Client, Handler
    <2>3. QED
      BY <2>1, <2>2
  <1>3. CASE UNCHANGED h
    BY <1>1, <1>3
  <1>4. QED
    BY <1>2, <1>3
    DEF Next, Lobby, RunLoop, CreateRoom, CreateRoomAdds, LoopSnapshot,
        LoopSeesGaming, LoopSeesReady, LoopPasses, RoomTick, RoomTickReturns,
        RoomStartGame, LoopSleeps, vars

\* The room a handler holds has been created.
LEMMA HeldIsCreated ==
  ASSUME IInv, ServerAssumption, NEW s \in Streams, InRoom(s)
  PROVE  h[s].at \in RoomIds /\ h[s].at < next_room_id
PROOF
  <1>1. h[s].at \in RoomIds /\ HasPlayer(room[h[s].at], UidOf[s])
    BY DEF IInv, Pointers, PointersOf
  <1>2. UidOf[s] \in Uids
    BY HeldTypes
  <1>3. ~Empty(room[h[s].at])
    BY <1>1, <1>2 DEF Empty, HasPlayer
  <1>4. QED
    BY <1>1, <1>3 DEF IInv, Seating

\* There is no room at the start.
LEMMA StandingInit == ASSUME ServerAssumption, Init PROVE Standing
  BY DEF Init, Standing, Destroying, Idle, RoomIds, ServerAssumption

\* RemoveRoom follows the StopGame of its own request.
LEMMA StandingStep ==
  ASSUME IInv, Standing, [Next]_vars, ServerAssumption
  PROVE  Standing'
PROOF
  <1>1. ASSUME NEW s \in Streams, Destroying(s)' PROVE Over(h[s].at)'
    <2>1. h'[s].at = h[s].at /\ InRoom(s)
      BY <1>1, DestroyedIsStopped DEF Destroying, RoomStopGame, InRoom
    <2>2. h[s].at \in RoomIds /\ h[s].at < next_room_id
      BY <2>1, HeldIsCreated
    <2>3. CASE Destroying(s)
      BY <2>1, <2>2, <2>3, OverStays DEF Standing, Over
    <2>4. CASE RoomStopGame(s)
      <3>1. verdicts'[h[s].at] # {}
        BY <2>2, <2>4 DEF RoomStopGame, IInv, TypeOK
      <3>2. QED
        BY <2>1, <3>1 DEF Over
    <2>5. QED
      BY <1>1, <2>3, <2>4, DestroyedIsStopped
  <1>2. ASSUME NEW r \in RoomIds, r < next_room_id'
        PROVE  r \in rooms' \/ Over(r)'
    <2>1. CASE r < next_room_id /\ Over(r)
      BY <2>1, OverStays
    <2>2. CASE r < next_room_id /\ r \in rooms
      <3>1. ASSUME NEW s \in Streams, RemoveRoom(s), h[s].at = r PROVE Over(r)
        BY <3>1 DEF RemoveRoom, Standing, Destroying
      <3>2. CASE ~(\E s \in Streams : RemoveRoom(s) /\ h[s].at = r)
        <4>1. r \in rooms'
          BY <2>2, <3>2
          DEF Next, Lobby, Client, Handler, RunLoop, CreateRoom, CreateRoomAdds,
              RegisterSession, EnterRoom, MapUidToRoom, PlayerReady, SetReady,
              FrameInput, RoomPushInput, GameOver, RoomStopGame,
              DestroyRoomGone, DestroyRoom, UnmapUid, RemoveRoom, StreamEnd,
              LeaveGame, LeaveIdleRoom, UnmapSelf, UnregisterSession,
              LoopSnapshot, LoopSeesGaming, LoopSeesReady, LoopPasses, RoomTick,
              RoomTickReturns, RoomStartGame, LoopSleeps, vars, manager
        <4>2. QED
          BY <4>1
      <3>3. QED
        BY <2>1, <2>2, <3>1, <3>2
    <2>3. CASE ~(r < next_room_id)
      <3>1. PICK m \in Matches : CreateRoom(m)
        BY <1>2, <2>3, PushEffect, StopEffect, TickEffect, StartEffect, OtherEffect
      <3>2. /\ r \in Int /\ next_room_id \in Int
            /\ next_room_id' = next_room_id + 1
        BY <3>1, ServerAssumption, CreateEffect
        DEF RoomIds, ServerAssumption, IInv, TypeOK
      <3>3. r = next_room_id
        BY <1>2, <2>3, <3>2
      <3>4. QED
        BY <3>1, <3>3 DEF CreateRoom
    <2>4. QED
      BY <2>1, <2>2, <2>3 DEF Standing
  <1>3. QED
    BY <1>1, <1>2 DEF Standing

-----------------------------------------------------------------------------
(* The theorems.                                                            *)

\* FInv holds in every state the server reaches.
LEMMA FramesInductive == Spec => []FInv
PROOF
  <1>1. Init => FInv
    BY ServerAssumption, FramesInit
  <1>2. IInv /\ NoDanglingStream /\ FInv /\ [Next]_vars => FInv'
    <2> SUFFICES ASSUME IInv, NoDanglingStream, FInv, [Next]_vars PROVE FInv'
      OBVIOUS
    <2>1. Expecting' /\ Quiet' /\ Starting' /\ Decided'
      BY ServerAssumption, ExpectingStep, QuietStep, StartingStep, DecidedStep
      DEF FInv
    <2>2. RegisteredIsUpToDate'
      BY ServerAssumption, UpToDateStep
    <2>3. QED
      BY <2>1, <2>2 DEF FInv
  <1>3. QED
    BY <1>1, <1>2, Inductive, StreamsAlive, PTL DEF Spec

\* A stream that is registered while a game it has heard of runs has missed no
\* frame of it, whatever streams of the player came and went.
THEOREM UpToDateHolds == Spec => []RegisteredIsUpToDate
PROOF
  <1>1. FInv => RegisteredIsUpToDate
    BY DEF FInv
  <1>2. QED
    BY <1>1, FramesInductive, PTL

\* No frame of a game follows its verdict, although RunLoop reads the state of
\* the room before Tick takes the room's mutex.
THEOREM VerdictIsLast == Spec => NoFrameAfterVerdict
PROOF
  <1> DEFINE Silent ==
        \A r \in RoomIds :
          room'[r].frame_id = room[r].frame_id + 1 => verdicts[r] = {}
  <1>1. IInv /\ FInv /\ [Next]_vars => [Silent]_vars
    <2> SUFFICES ASSUME IInv, FInv, [Next]_vars,
                        NEW r \in RoomIds,
                        room'[r].frame_id = room[r].frame_id + 1
                 PROVE  verdicts[r] = {}
      OBVIOUS
    <2>1. room[r].frame_id \in Nat
      BY ServerAssumption, HeldTypes DEF RoomType, Frames
    <2>2. room'[r].frame_id # room[r].frame_id
      BY <2>1
    <2>3. ~SameGame(r)
      BY <2>2 DEF SameGame
    <2>4. ~(\E m \in Matches : CreateRoom(m))
      <3> SUFFICES ASSUME NEW m \in Matches, CreateRoom(m) PROVE FALSE
        OBVIOUS
      <3>1. CASE r = next_room_id
        <4>1. room'[r].frame_id = 0
          BY ServerAssumption, CreateEffect, <3>1 DEF NewRoom
        <4>2. QED
          BY <2>1, <4>1
      <3>2. CASE r # next_room_id
        BY ServerAssumption, CreateEffect, <2>3, <3>2
      <3>3. QED
        BY <3>1, <3>2
    <2>5. ~(\E s \in Streams : RoomPushInput(s) \/ RoomStopGame(s))
      BY ServerAssumption, PushEffect, StopEffect, <2>2
    <2>6. ASSUME RoomStartGame PROVE FALSE
      <3>1. r = loop.at /\ room'[r].frame_id = 0
        BY ServerAssumption, StartEffect, <2>3, <2>6
      <3>2. QED
        BY <2>1, <3>1
    <2>7. RoomTick
      BY ServerAssumption, OtherEffect, <2>3, <2>4, <2>5, <2>6
    <2>8. r = loop.at /\ room[r].state = "GAMING"
      BY ServerAssumption, TickEffect, <2>3, <2>7
    <2>9. QED
      BY <2>8 DEF FInv, Decided
  <1>2. QED
    BY <1>1, Inductive, FramesInductive, PTL DEF Spec, NoFrameAfterVerdict

\* An input that PushInput has stored leaves the room by the Tick that sends
\* it, or after the game has been decided.
THEOREM InputsAreKept == Spec => InputKept
PROOF
  <1> DEFINE Kept ==
        \A r \in RoomIds, g \in GameIds :
          LET before == room[r].raw_inputs[g]
              after  == room'[r].raw_inputs[g]
          IN before # NoInput /\ after # before =>
               \/ room'[r].frame_id = room[r].frame_id + 1
               \/ verdicts[r] # {}
  <1>1. IInv /\ FInv /\ [Next]_vars => [Kept]_vars
    <2> SUFFICES ASSUME IInv, FInv, [Next]_vars,
                        NEW r \in RoomIds, NEW g \in GameIds,
                        room[r].raw_inputs[g] # NoInput,
                        room'[r].raw_inputs[g] # room[r].raw_inputs[g]
                 PROVE  \/ room'[r].frame_id = room[r].frame_id + 1
                        \/ verdicts[r] # {}
      OBVIOUS
    <2>1. room[r].raw_inputs # NoInputs
      BY DEF NoInputs
    <2>2. ~SameGame(r)
      BY DEF SameGame
    <2>3. ~(\E m \in Matches : CreateRoom(m))
      <3> SUFFICES ASSUME NEW m \in Matches, CreateRoom(m) PROVE FALSE
        OBVIOUS
      <3>1. r = next_room_id
        BY ServerAssumption, CreateEffect, <2>2
      <3>2. r >= next_room_id
        BY <3>1, ServerAssumption DEF RoomIds, ServerAssumption
      <3>3. QED
        BY <2>1, <3>2 DEF FInv, Quiet
    <2>4. ~(\E s \in Streams : RoomPushInput(s) \/ RoomStopGame(s))
      BY ServerAssumption, PushEffect, StopEffect
    <2>5. CASE RoomTick
      BY ServerAssumption, TickEffect, <2>2, <2>5
    <2>6. CASE RoomStartGame
      <3>1. r = loop.at /\ loop.pc = "start"
        BY ServerAssumption, StartEffect, <2>2, <2>6
      <3>2. room[r].state = "IDLE"
        BY <3>1 DEF FInv, Starting
      <3>3. QED
        BY <2>1, <3>2 DEF FInv, Decided
    <2>7. QED
      BY ServerAssumption, OtherEffect, <2>2, <2>3, <2>4, <2>5, <2>6
  <1>2. QED
    BY <1>1, Inductive, FramesInductive, PTL DEF Spec, InputKept

\* A room that CreateRoom has made is in the map unless a game in it has been
\* decided or, started after that, runs: nothing else removes one.
THEOREM RoomsStand ==
  Spec => [](\A r \in RoomIds : r < next_room_id => r \in rooms \/ Over(r))
PROOF
  <1>1. Init => Standing
    BY ServerAssumption, StandingInit
  <1>2. IInv /\ Standing /\ [Next]_vars => Standing'
    BY ServerAssumption, StandingStep
  <1>3. Standing => \A r \in RoomIds : r < next_room_id => r \in rooms \/ Over(r)
    BY DEF Standing
  <1>4. QED
    BY <1>1, <1>2, <1>3, Inductive, PTL DEF Spec

-----------------------------------------------------------------------------
(* Rooms that nobody has touched, and rooms about to start.                 *)

\* An id that CreateRoom has not taken has the room of Init.
Fresh == \A r \in RoomIds : r >= next_room_id => room[r] = NewRoom

\* RunLoop starts a room whose players are ready, unless StopGame has come
\* between its look at the room and StartGame.
StartReady ==
  loop.pc = "start" => CheckAllReady(room[loop.at]) \/ verdicts[loop.at] # {}

\* The steps of a handler that write to the room it holds.
Writes(s) == SetReady(s) \/ RoomPushInput(s) \/ RoomStopGame(s)

\* Who writes to a room, and to which.
LEMMA RoomSteps ==
  ASSUME IInv, [Next]_vars, ServerAssumption, NEW r \in RoomIds,
         room'[r] # room[r]
  PROVE  \/ r = next_room_id /\ \E m \in Matches : CreateRoom(m)
         \/ CreateRoomAdds(r)
         \/ \E s \in Streams : Writes(s) /\ InRoom(s) /\ h[s].at = r
         \/ RoomTick /\ loop.at = r
         \/ RoomStartGame /\ loop.at = r
PROOF
  <1> USE DEF IInv, TypeOK
  <1>1. ASSUME NEW m \in Matches, CreateRoom(m) PROVE r = next_room_id
    BY <1>1 DEF CreateRoom
  <1>2. ASSUME NEW q \in RoomIds, CreateRoomAdds(q) PROVE r = q
    BY <1>2 DEF CreateRoomAdds
  <1>3. ASSUME NEW s \in Streams, Writes(s) PROVE InRoom(s) /\ h[s].at = r
    BY <1>3 DEF Writes, SetReady, RoomPushInput, RoomStopGame, InRoom
  <1>4. ASSUME RoomTick \/ RoomStartGame PROVE loop.at = r
    BY <1>4 DEF RoomTick, RoomStartGame
  <1>5. QED
    BY <1>1, <1>2, <1>3, <1>4
    DEF Next, Lobby, Client, Handler, RunLoop, RegisterSession, EnterRoom,
        MapUidToRoom, PlayerReady, FrameInput, GameOver, DestroyRoomGone,
        DestroyRoom, UnmapUid, RemoveRoom, StreamEnd, LeaveGame, LeaveIdleRoom,
        UnmapSelf, UnregisterSession, LoopSnapshot, LoopSeesGaming,
        LoopSeesReady, LoopPasses, RoomTickReturns, LoopSleeps, vars, manager,
        Writes

\* A room that RunLoop starts or ticks has its two players.
LEMMA LoopIsCreated ==
  ASSUME IInv, ServerAssumption, RoomTick \/ loop.pc = "start"
  PROVE  /\ loop.at \in RoomIds /\ loop.at < next_room_id
         /\ Len(room[loop.at].player_uids) = 2
         /\ adding[loop.at] = << >>
PROOF
  <1>1. loop.at \in RoomIds /\ Len(room[loop.at].player_uids) = 2
    BY DEF IInv, Games, RoomTick
  <1>2. ~Empty(room[loop.at])
    BY <1>1 DEF Empty
  <1>3. PICK u \in Uids, v \in Uids :
          /\ loop.at < next_room_id
          /\ SeatingOf(room[loop.at], adding[loop.at], u, v)
    BY <1>1, <1>2 DEF IInv, Seating
  <1>4. adding[loop.at] = << >>
    <2>1. Len(<< >>) = 0 /\ Len(<<u>>) = 1
      OBVIOUS
    <2>2. room[loop.at].player_uids \notin {<< >>, <<u>>}
      BY <1>1, <2>1
    <2>3. QED
      BY <1>3, <2>2 DEF SeatingOf
  <1>5. QED
    BY <1>1, <1>3, <1>4

\* Nobody holds a room that CreateRoom has not made.
LEMMA FreshStep ==
  ASSUME IInv, Fresh, [Next]_vars, ServerAssumption
  PROVE  Fresh'
PROOF
  <1> SUFFICES ASSUME NEW r \in RoomIds, r >= next_room_id'
               PROVE  room'[r] = NewRoom
    BY DEF Fresh
  <1>0. /\ r \in Int /\ next_room_id \in Int
        /\ \A q \in RoomIds : q < next_room_id => q # r /\ q < next_room_id'
    <2>1. MaxRooms \in Nat /\ next_room_id \in Int
      BY ServerAssumption DEF ServerAssumption, IInv, TypeOK
    <2>2. next_room_id' \in {next_room_id, next_room_id + 1}
      BY CreateEffect, PushEffect, StopEffect, TickEffect, StartEffect, OtherEffect
    <2>3. \A q \in RoomIds : q \in Int
      BY <2>1 DEF RoomIds
    <2>4. QED
      BY <2>1, <2>2, <2>3
  <1>1. r >= next_room_id /\ room[r] = NewRoom
    <2>1. ~(r < next_room_id)
      BY <1>0
    <2>2. QED
      BY <1>0, <2>1 DEF Fresh
  <1>2. ~CreateRoomAdds(r)
    BY <1>0, <1>1 DEF CreateRoomAdds, IInv, Seating
  <1>3. ASSUME NEW m \in Matches, CreateRoom(m) PROVE r # next_room_id
    BY <1>0, <1>3 DEF CreateRoom
  <1>4. ASSUME NEW s \in Streams, InRoom(s) PROVE h[s].at # r
    BY <1>0, <1>1, <1>4, HeldIsCreated
  <1>5. ASSUME RoomTick \/ RoomStartGame PROVE loop.at # r
    BY <1>0, <1>1, <1>5, LoopIsCreated DEF RoomStartGame
  <1>6. QED
    BY <1>1, <1>2, <1>3, <1>4, <1>5, RoomSteps

\* The players of a full room stay ready until StopGame.
LEMMA ReadyStays ==
  ASSUME IInv, [Next]_vars, ServerAssumption,
         NEW r \in RoomIds, r < next_room_id, adding[r] = << >>,
         CheckAllReady(room[r]),
         ~(\E s \in Streams : RoomStopGame(s) /\ h[s].at = r)
  PROVE  CheckAllReady(room'[r])
PROOF
  <1>0. /\ room \in [RoomIds -> RoomType] /\ room[r] \in RoomType
        /\ r \in Int
    BY ServerAssumption DEF IInv, TypeOK, RoomIds, ServerAssumption
  <1>1. CASE room'[r] = room[r]
    BY <1>1
  <1>2. ASSUME NEW s \in Streams, Writes(s), h[s].at = r
        PROVE  CheckAllReady(room'[r])
    <2>1. CASE SetReady(s)
      <3>1. room'[r] = [room[r] EXCEPT !.ready = @ \cup {UidOf[s]}]
        BY <1>0, <1>2, <2>1 DEF SetReady
      <3>2. QED
        BY <1>0, <3>1 DEF CheckAllReady, HasPlayer, RoomType
    <2>2. CASE RoomPushInput(s)
      <3>1. room'[r] = PushInput(room[r], UidOf[s], h[s].arg)
        BY <1>0, <1>2, <2>2 DEF RoomPushInput
      <3>2. QED
        BY <1>0, <3>1 DEF CheckAllReady, HasPlayer, PushInput, RoomType
    <2>3. QED
      BY <1>2, <2>1, <2>2 DEF Writes
  <1>3. CASE RoomTick /\ loop.at = r
    BY <1>0, <1>3 DEF RoomTick, NextFrame, CheckAllReady, HasPlayer, RoomType
  <1>4. CASE RoomStartGame /\ loop.at = r
    BY <1>0, <1>4 DEF RoomStartGame, StartGame, CheckAllReady, HasPlayer, RoomType
  <1>5. ~CreateRoomAdds(r) /\ r # next_room_id
    BY <1>0 DEF CreateRoomAdds
  <1>6. QED
    BY <1>1, <1>2, <1>3, <1>4, <1>5, RoomSteps

\* A room about to start is ready or has been decided since.
LEMMA StartReadyStep ==
  ASSUME IInv, StartReady, [Next]_vars, ServerAssumption
  PROVE  StartReady'
PROOF
  <1> SUFFICES ASSUME loop'.pc = "start"
               PROVE  CheckAllReady(room'[loop'.at]) \/ verdicts'[loop'.at] # {}
    BY DEF StartReady, CheckAllReady, HasPlayer
  <1>1. ASSUME NEW r \in RoomIds, LoopSeesReady(r), loop'.at = r
        PROVE  CheckAllReady(room'[loop'.at])
    BY <1>1 DEF LoopSeesReady, manager
  <1>2. CASE UNCHANGED loop
    <2>1. /\ loop.at \in RoomIds /\ loop.at < next_room_id
          /\ adding[loop.at] = << >>
      BY <1>2, LoopIsCreated
    <2>2. ASSUME NEW s \in Streams, RoomStopGame(s), h[s].at = loop.at
          PROVE  verdicts'[loop.at] # {}
      BY <2>1, <2>2 DEF RoomStopGame, IInv, TypeOK
    <2>3. CASE CheckAllReady(room[loop.at])
      BY <1>2, <2>1, <2>2, <2>3, ReadyStays
    <2>4. CASE verdicts[loop.at] # {}
      <3>1. ~RoomStartGame
        BY <1>2, StartEffect
      <3>2. verdicts'[loop.at] # {}
        BY <2>1, <2>4, <3>1, CreateEffect, PushEffect, StopEffect, TickEffect,
           OtherEffect
      <3>3. QED
        BY <1>2, <3>2
    <2>5. QED
      BY <1>2, <2>3, <2>4 DEF StartReady
  <1>3. QED
    BY <1>1, <1>2, StartsNext

-----------------------------------------------------------------------------
(* The game server implements Battle: the state of a room.                  *)

\* The seats of a room are those CreateRoom was called with, however many of them
\* have been taken.
LEMMA SeatsOf ==
  ASSUME NEW rm, NEW add, NEW a \in Uids, NEW b \in Uids, SeatingOf(rm, add, a, b)
  PROVE  rm.player_uids \o add = <<a, b>>
PROOF
  <1>1. /\ << >> \o <<a, b>> = <<a, b>>
        /\ <<a>> \o <<b>> = <<a, b>>
        /\ <<a, b>> \o << >> = <<a, b>>
    BY ConcatPair
  <1>2. QED
    BY <1>1, Zenon DEF SeatingOf

\* A room that CreateRoom has made is for two different players.
LEMMA SeatsMade ==
  ASSUME IInv, ServerAssumption, NEW r \in RoomIds, r < next_room_id
  PROVE  \E a, b \in Uids : /\ a # b
                            /\ SeatingOf(room[r], adding[r], a, b)
                            /\ Seats[r] = <<a, b>>
PROOF
  <1>0. r \in Int /\ next_room_id \in Int
    BY ServerAssumption DEF IInv, TypeOK, RoomIds, ServerAssumption
  <1>1. PICK a \in Uids, b \in Uids : a # b /\ SeatingOf(room[r], adding[r], a, b)
    BY <1>0 DEF IInv, Seating
  <1>2. room[r].player_uids \o adding[r] = <<a, b>>
    BY <1>1, SeatsOf
  <1>3. QED
    BY <1>1, <1>2 DEF Seats

\* Any other room has no seats.
LEMMA SeatsUnmade ==
  ASSUME IInv, NEW r \in RoomIds, ~(r < next_room_id)
  PROVE  Seats[r] = << >> /\ adding[r] = << >>
PROOF
  <1>1. Empty(room[r]) /\ adding[r] = << >>
    BY DEF IInv, Seating
  <1>2. << >> \o << >> = << >>
    BY ConcatEmptySeq
  <1>3. QED
    BY <1>1, <1>2 DEF Seats, Empty

\* CreateRoom alone changes the seats: a player who moves from the list of
\* CreateRoom to the room has had the seat before.
LEMMA SeatsStay ==
  ASSUME IInv, [Next]_vars, ServerAssumption,
         ~(\E m \in Matches : CreateRoom(m))
  PROVE  Seats' = Seats
PROOF
  <1>1. next_room_id' = next_room_id
    BY SeatsKept DEF IInv, SameSeats, CreateRoomAdds
  <1>2. IInv'
    BY InvStep
  <1>3. ASSUME NEW r \in RoomIds PROVE Seats'[r] = Seats[r]
    <2>1. CASE r < next_room_id
      <3>1. PICK a \in Uids, b \in Uids :
              /\ a # b
              /\ SeatingOf(room[r], adding[r], a, b)
              /\ Seats[r] = <<a, b>>
        BY <2>1, SeatsMade
      <3>2. SeatingOf(room'[r], adding'[r], a, b)
        BY <2>1, <3>1, SeatingOfStays DEF IInv
      <3>3. room'[r].player_uids \o adding'[r] = <<a, b>>
        BY <3>2, SeatsOf
      <3>4. QED
        BY <3>1, <3>3 DEF Seats
    <2>2. CASE ~(r < next_room_id)
      <3>1. Empty(room'[r]) /\ adding'[r] = << >>
        BY <1>1, <1>2, <2>2 DEF IInv, Seating
      <3>2. << >> \o << >> = << >>
        BY ConcatEmptySeq
      <3>3. QED
        BY <2>2, <3>1, <3>2, SeatsUnmade DEF Seats, Empty
    <2>3. QED
      BY <2>1, <2>2
  <1>4. QED
    BY <1>3 DEF Seats

\* Who has a seat in the room plays in the battle, and in a full room nobody else.
LEMMA PlaysSeat ==
  ASSUME IInv, ServerAssumption, NEW r \in RoomIds, NEW u \in Uids
  PROVE  /\ HasPlayer(room[r], u) => Battles!Plays(u, r)
         /\ Len(room[r].player_uids) = 2 =>
              (HasPlayer(room[r], u) <=> Battles!Plays(u, r))
PROOF
  <1>1. CASE ~(r < next_room_id)
    BY <1>1 DEF IInv, Seating, Empty, HasPlayer
  <1>2. CASE r < next_room_id
    <2>1. PICK a \in Uids, b \in Uids :
            /\ a # b
            /\ SeatingOf(room[r], adding[r], a, b)
            /\ Seats[r] = <<a, b>>
      BY <1>2, SeatsMade
    <2>2. Battles!Plays(u, r) <=> u \in {a, b}
      BY <2>1 DEF Battles!Plays
    <2>3. HasPlayer(room[r], u) => u \in {a, b}
      BY <2>1 DEF SeatingOf, HasPlayer, FirstSide, BothSides
    <2>4. Len(room[r].player_uids) = 2 => (u \in {a, b} => HasPlayer(room[r], u))
      <3>1. Len(<< >>) = 0 /\ Len(<<a>>) = 1
        OBVIOUS
      <3>2. ASSUME Len(room[r].player_uids) = 2 PROVE room[r].game_id = BothSides(a, b)
        BY <2>1, <3>1, <3>2 DEF SeatingOf
      <3>3. QED
        BY <3>2 DEF BothSides, HasPlayer
    <2>5. QED
      BY <2>2, <2>3, <2>4
  <1>3. QED
    BY <1>1, <1>2

\* A broadcast reaches those who listen and play.
LEMMA ToldIsSent ==
  ASSUME IInv, ServerAssumption, NEW r \in RoomIds, NEW n, Told(r, n),
         Len(room[r].player_uids) = 2
  PROVE  Battles!Send(r, n)
PROOF
  <1>1. \A s \in Streams : s \in Reached(r) <=>
          s \in Listening /\ Battles!Plays(UidOf[s], r)
    BY PlaysSeat, HeldTypes DEF Reached, Listening
  <1>2. QED
    BY <1>1 DEF Told, Battles!Send

\* A step that leaves the counter alone is not a CreateRoom.
LEMMA NotCreated ==
  ASSUME IInv, ServerAssumption, UNCHANGED next_room_id
  PROVE  ~(\E m \in Matches : CreateRoom(m))
PROOF
  <1>1. next_room_id \in Int
    BY ServerAssumption DEF IInv, TypeOK, ServerAssumption
  <1>2. QED
    BY <1>1 DEF CreateRoom

\* A write to one room writes one entry of each map of the battle.
LEMMA OneRoom ==
  ASSUME IInv, NEW q \in RoomIds, NEW new,
         room' = [room EXCEPT ![q] = new]
  PROVE  /\ IsReady' = [IsReady EXCEPT ![q] = new.ready]
         /\ Playing' = [Playing EXCEPT ![q] = (new.state = "GAMING")]
         /\ Frame' = [Frame EXCEPT ![q] = new.frame_id]
         /\ Inputs' = [Inputs EXCEPT ![q] = new.raw_inputs]
         /\ new.ready = room[q].ready => UNCHANGED IsReady
         /\ new.state = room[q].state => UNCHANGED Playing
         /\ new.frame_id = room[q].frame_id => UNCHANGED Frame
         /\ new.raw_inputs = room[q].raw_inputs => UNCHANGED Inputs
PROOF
  <1>1. room'[q] = new /\ \A r \in RoomIds \ {q} : room'[r] = room[r]
    BY DEF IInv, TypeOK
  <1>2. \A r \in RoomIds : r # q => r \in RoomIds \ {q}
    OBVIOUS
  <1>3. /\ IsReady' = [IsReady EXCEPT ![q] = new.ready]
        /\ Frame' = [Frame EXCEPT ![q] = new.frame_id]
        /\ Inputs' = [Inputs EXCEPT ![q] = new.raw_inputs]
    <2>1. \A r \in RoomIds : room'[r] = IF r = q THEN new ELSE room[r]
      BY <1>1, <1>2
    <2>2. IsReady' = [r \in RoomIds |-> IF r = q THEN new.ready ELSE IsReady[r]]
      BY <2>1 DEF IsReady
    <2>3. Frame' = [r \in RoomIds |-> IF r = q THEN new.frame_id ELSE Frame[r]]
      BY <2>1 DEF Frame
    <2>4. Inputs' = [r \in RoomIds |-> IF r = q THEN new.raw_inputs ELSE Inputs[r]]
      BY <2>1 DEF Inputs
    <2>5. /\ DOMAIN IsReady = RoomIds /\ DOMAIN Frame = RoomIds
          /\ DOMAIN Inputs = RoomIds
      BY DEF IsReady, Frame, Inputs
    <2>6. QED
      BY <2>2, <2>3, <2>4, <2>5
  <1>4. Playing' = [Playing EXCEPT ![q] = (new.state = "GAMING")]
    BY <1>1, <1>2 DEF Playing
  <1>5. /\ new.ready = room[q].ready => UNCHANGED IsReady
        /\ new.frame_id = room[q].frame_id => UNCHANGED Frame
        /\ new.raw_inputs = room[q].raw_inputs => UNCHANGED Inputs
    BY <1>1, <1>2 DEF IsReady, Frame, Inputs
  <1>6. new.state = room[q].state => UNCHANGED Playing
    BY <1>1, <1>2 DEF Playing
  <1>7. QED
    BY <1>3, <1>4, <1>5, <1>6

-----------------------------------------------------------------------------
(* The game server implements Battle: the steps.                            *)

\* CreateRoom gives two players a room that nobody has had.
LEMMA OpenStep ==
  ASSUME IInv, Fresh, ServerAssumption, NEW m \in Matches, CreateRoom(m)
  PROVE  \E r \in RoomIds : \E a, b \in Uids : Battles!Open(r, a, b)
PROOF
  <1>1. PICK a \in Uids, b \in Uids : m = <<a, b>> /\ a # b
    BY ServerAssumption DEF ServerAssumption
  <1>2. PICK q \in RoomIds : q = next_room_id
    BY DEF CreateRoom
  <1>3. room' = room
    BY <1>2, ServerAssumption
    DEF CreateRoom, Fresh, IInv, TypeOK, RoomIds, ServerAssumption
  <1>4. Seats[q] = << >>
    BY <1>2, SeatsUnmade, ServerAssumption DEF RoomIds, ServerAssumption
  <1>5. adding' = [adding EXCEPT ![q] = <<a, b>>] /\ adding \in [RoomIds -> Seq(Uids)]
    BY <1>1, <1>2 DEF CreateRoom, IInv, TypeOK
  <1>6. Seats' = [Seats EXCEPT ![q] = <<a, b>>]
    <2>1. room[q].player_uids = << >>
      BY <1>2, ServerAssumption DEF Fresh, NewRoom, RoomIds, ServerAssumption
    <2>2. << >> \o <<a, b>> = <<a, b>>
      BY ConcatPair
    <2>3. Seats'[q] = <<a, b>>
      BY <1>3, <1>5, <2>1, <2>2 DEF Seats
    <2>4. \A r \in RoomIds \ {q} : Seats'[r] = Seats[r]
      BY <1>3, <1>5 DEF Seats
    <2>5. QED
      BY <2>3, <2>4 DEF Seats
  <1>7. rooms' = rooms \cup {q} /\ UNCHANGED <<sessions, verdicts, expects>>
    BY <1>2 DEF CreateRoom, observer
  <1>8. UNCHANGED <<Battles!game, Listening>>
    BY <1>3, <1>7 DEF Battles!game, IsReady, Playing, Frame, Inputs, Listening
  <1>9. Battles!Open(q, a, b)
    BY <1>1, <1>4, <1>6, <1>7, <1>8 DEF Battles!Open
  <1>10. QED
    BY <1>9

\* A room pointer that a handler holds is of a room with seats.
LEMMA HeldPlays ==
  ASSUME IInv, ServerAssumption, NEW s \in Streams, InRoom(s)
  PROVE  /\ h[s].at \in RoomIds /\ UidOf[s] \in Uids
         /\ Battles!Plays(UidOf[s], h[s].at)
         /\ Seats[h[s].at] # << >>
PROOF
  <1>1. /\ h[s].at \in RoomIds /\ h[s].at < next_room_id
        /\ UidOf[s] \in Uids /\ HasPlayer(room[h[s].at], UidOf[s])
    BY HeldIsCreated, HeldTypes DEF IInv, Pointers, PointersOf
  <1>2. PICK a \in Uids, b \in Uids : Seats[h[s].at] = <<a, b>>
    BY <1>1, SeatsMade
  <1>3. QED
    BY <1>1, <1>2, PlaysSeat

\* The unlocked write of PlayerReadyReq.
LEMMA ReadyStep ==
  ASSUME IInv, [Next]_vars, ServerAssumption, NEW s \in Streams, SetReady(s)
  PROVE  Battles!Ready(h[s].at, UidOf[s])
PROOF
  <1> DEFINE q == h[s].at
  <1>1. /\ q \in RoomIds /\ Battles!Plays(UidOf[s], q)
        /\ room \in [RoomIds -> RoomType]
    BY HeldPlays DEF SetReady, InRoom, IInv, TypeOK
  <1>2. /\ room' = [room EXCEPT ![q].ready = @ \cup {UidOf[s]}]
        /\ UNCHANGED <<rooms, adding, sessions, verdicts, expects>>
    BY DEF SetReady, control, observer
  <1>3. Seats' = Seats
    BY <1>1, <1>2 DEF Seats, RoomType
  <1>4. IsReady' = [IsReady EXCEPT ![q] = @ \cup {UidOf[s]}]
    BY <1>1, <1>2 DEF IsReady, RoomType
  <1>5. UNCHANGED <<Playing, Frame, Inputs, Listening>>
    BY <1>1, <1>2 DEF Playing, Frame, Inputs, Listening, RoomType
  <1>6. QED
    BY <1>1, <1>2, <1>3, <1>4, <1>5 DEF Battles!Ready

\* PushInput stores an input of a player in the player's slot, or does nothing.
LEMMA InputStep ==
  ASSUME IInv, [Next]_vars, ServerAssumption, NEW s \in Streams, RoomPushInput(s)
  PROVE  \/ UNCHANGED Battles!vars
         \/ \E n \in {1, 2}, f \in Frames : Battles!Input(h[s].at, n, f)
PROOF
  <1> DEFINE q == h[s].at
             u == UidOf[s]
             f == h[s].arg
             n == room[q].game_id[u]
  <1>1. /\ q \in RoomIds /\ u \in Uids /\ f \in Frames
        /\ room \in [RoomIds -> RoomType] /\ room[q] \in RoomType
    BY HeldTypes DEF RoomPushInput, InRoom, IInv, TypeOK, Pointers, PointersOf
  <1>2. /\ room' = [room EXCEPT ![q] = PushInput(@, u, f)]
        /\ UNCHANGED <<rooms, adding, sessions, verdicts, expects, next_room_id>>
    BY DEF RoomPushInput, control, observer
  <1>3. CASE ~AcceptsInput(room[q], u, f)
    <2>1. UNCHANGED room
      BY <1>1, <1>2, <1>3 DEF PushInput
    <2>2. QED
      BY <1>2, <2>1
      DEF Battles!vars, Battles!game, Seats, IsReady, Playing, Frame, Inputs,
          Listening
  <1>4. CASE AcceptsInput(room[q], u, f)
    <2>1. /\ room[q].state = "GAMING" /\ n # 0
          /\ f >= room[q].frame_id /\ room[q].raw_inputs[n] = NoInput
      BY <1>4 DEF AcceptsInput, HasPlayer
    <2>2. n \in {1, 2}
      BY <1>1, <2>1 DEF RoomType, GameIds
    <2>3. q < next_room_id
      BY HeldIsCreated DEF RoomPushInput, InRoom
    <2>4. PICK a \in Uids, b \in Uids : Seats[q] = <<a, b>>
      BY <1>1, <2>3, SeatsMade
    <2>5. /\ room' = [room EXCEPT ![q] = PushInput(room[q], u, f)]
          /\ PushInput(room[q], u, f) =
               [room[q] EXCEPT !.raw_inputs = [@ EXCEPT ![n] = f]]
      BY <1>1, <1>2, <1>4 DEF PushInput, RoomType
    <2> DEFINE new == PushInput(room[q], u, f)
    <2> HIDE DEF q, u, f, n, new
    <2>6. /\ Inputs' = [Inputs EXCEPT ![q] = new.raw_inputs]
          /\ UNCHANGED <<IsReady, Playing, Frame>>
      <3>1. /\ new.ready = room[q].ready /\ new.state = room[q].state
            /\ new.frame_id = room[q].frame_id
        BY <1>1, <2>5 DEF RoomType, new
      <3>2. room' = [room EXCEPT ![q] = new]
        BY <2>5 DEF new
      <3>3. QED
        BY <1>1, <3>1, <3>2, OneRoom
    <2>7. /\ Inputs' = [Inputs EXCEPT ![q][n] = f]
          /\ UNCHANGED <<Seats, Listening>>
      <3>1. new.raw_inputs = [room[q].raw_inputs EXCEPT ![n] = f]
        BY <1>1, <2>5 DEF RoomType, new
      <3>2. room[q].raw_inputs = Inputs[q]
        BY <1>1 DEF Inputs
      <3>3. ~(\E m \in Matches : CreateRoom(m))
        BY <1>2, NotCreated
      <3>4. QED
        BY <1>2, <2>6, <3>1, <3>2, <3>3, SeatsStay DEF Listening
    <2>8. Playing[q] /\ Inputs[q][n] = NoInput /\ f >= Frame[q]
      <3>1. Playing[q]
        BY <1>1, <2>1 DEF Playing
      <3>2. Inputs[q] = room[q].raw_inputs /\ Frame[q] = room[q].frame_id
        BY <1>1 DEF Inputs, Frame
      <3>3. QED
        BY <2>1, <3>1, <3>2
    <2>9. Battles!Input(q, n, f)
      <3>1. n \in DOMAIN Seats[q]
        BY <2>2, <2>4
      <3>2. QED
        BY <1>2, <2>6, <2>7, <2>8, <3>1 DEF Battles!Input
    <2>10. QED
      BY <1>1, <2>2, <2>9 DEF q
  <1>5. QED
    BY <1>3, <1>4

\* StopGame decides the game.
LEMMA DecideStep ==
  ASSUME IInv, [Next]_vars, ServerAssumption, NEW s \in Streams, RoomStopGame(s)
  PROVE  h[s].arg \in Uids /\ Battles!Decide(h[s].at, h[s].arg)
PROOF
  <1> DEFINE q == h[s].at
             w == h[s].arg
  <1>1. /\ q \in RoomIds /\ Seats[q] # << >> /\ w \in Uids
        /\ room \in [RoomIds -> RoomType] /\ verdicts \in [RoomIds -> SUBSET Uids]
    BY HeldPlays DEF RoomStopGame, InRoom, IInv, TypeOK, Pointers, PointersOf
  <1>2. /\ room' = [room EXCEPT ![q] = [@ EXCEPT !.state = "IDLE", !.ready = {}]]
        /\ verdicts' = [verdicts EXCEPT ![q] = @ \cup {w}]
        /\ UNCHANGED <<rooms, adding, sessions, expects>>
    BY DEF RoomStopGame, control, StopGame
  <1> HIDE DEF q, w
  <1>3. /\ Playing' = [Playing EXCEPT ![q] = FALSE]
        /\ IsReady' = [IsReady EXCEPT ![q] = {}]
    BY <1>1, <1>2 DEF Playing, IsReady, RoomType
  <1>4. UNCHANGED <<Seats, Frame, Inputs, Listening>>
    BY <1>1, <1>2 DEF Seats, Frame, Inputs, Listening, RoomType
  <1>5. Battles!Decide(q, w)
    BY <1>1, <1>2, <1>3, <1>4 DEF Battles!Decide
  <1>6. QED
    BY <1>1, <1>5 DEF q, w

\* RemoveRoom follows a StopGame.
LEMMA GoAwayStep ==
  ASSUME IInv, Standing, ServerAssumption, NEW s \in Streams, RemoveRoom(s)
  PROVE  h[s].at \in RoomIds /\ Battles!GoAway(h[s].at)
PROOF
  <1>1. h[s].at \in RoomIds
    BY HeldTypes DEF RemoveRoom, InRoom
  <1>2. verdicts[h[s].at] # {} \/ Playing[h[s].at]
    BY <1>1 DEF Standing, Over, Destroying, RemoveRoom, Playing
  <1>3. UNCHANGED <<room, adding, sessions, verdicts, expects>>
    BY DEF RemoveRoom, control, observer
  <1>4. UNCHANGED <<Seats, IsReady, Playing, Frame, Inputs, Listening>>
    BY <1>3 DEF Seats, IsReady, Playing, Frame, Inputs, Listening
  <1>5. rooms' = rooms \ {h[s].at}
    BY DEF RemoveRoom
  <1>6. QED
    BY <1>1, <1>2, <1>3, <1>4, <1>5 DEF Battles!GoAway, Battles!game

\* The first Read registers the stream in the place of another one.
LEMMA ListenStep ==
  ASSUME IInv, Expecting, ServerAssumption, NEW s \in Streams, RegisterSession(s)
  PROVE  Battles!Listen(s)
PROOF
  <1>1. \A r \in RoomIds : expects[s][r] = None
    BY DEF Expecting, RegisterSession
  <1>2. /\ sessions' = [sessions EXCEPT ![UidOf[s]] = s]
        /\ UNCHANGED <<rooms, room, adding, verdicts, expects>>
    BY DEF RegisterSession, control, observer
  <1>3. Listening' = {t \in Listening : UidOf[t] # UidOf[s]} \cup {s}
    BY <1>2, HeldTypes DEF Listening, IInv, TypeOK
  <1>4. UNCHANGED <<Seats, IsReady, Playing, Frame, Inputs>>
    BY <1>2 DEF Seats, IsReady, Playing, Frame, Inputs
  <1>5. QED
    BY <1>1, <1>2, <1>3, <1>4 DEF Battles!Listen, Battles!game

\* The last step of a handler erases the entry, whichever stream it names.
LEMMA LeaveStep ==
  ASSUME IInv, ServerAssumption, NEW s \in Streams, UnregisterSession(s)
  PROVE  Battles!Leave(UidOf[s])
PROOF
  <1>1. /\ sessions' = [sessions EXCEPT ![UidOf[s]] = None]
        /\ UNCHANGED <<rooms, room, adding, verdicts, expects>>
    BY DEF UnregisterSession, control, observer
  <1>2. None \notin Streams
    BY ServerAssumption DEF ServerAssumption
  <1>3. Listening' = {t \in Listening : UidOf[t] # UidOf[s]}
    BY <1>1, <1>2, HeldTypes DEF Listening, IInv, TypeOK
  <1>4. UNCHANGED <<Seats, IsReady, Playing, Frame, Inputs>>
    BY <1>1 DEF Seats, IsReady, Playing, Frame, Inputs
  <1>5. QED
    BY <1>1, <1>3, <1>4 DEF Battles!Leave, Battles!game

\* Tick sends the frame to those who listen, and begins the next.
LEMMA TickStep ==
  ASSUME IInv, [Next]_vars, ServerAssumption, RoomTick
  PROVE  loop.at \in RoomIds /\ Battles!Tick(loop.at)
PROOF
  <1> DEFINE q == loop.at
             new == NextFrame(room[q])
  <1>1. /\ q \in RoomIds /\ Len(room[q].player_uids) = 2
        /\ room \in [RoomIds -> RoomType] /\ room[q] \in RoomType
    BY LoopIsCreated DEF IInv, TypeOK
  <1>2. /\ room' = [room EXCEPT ![q] = new]
        /\ room[q].state = "GAMING"
        /\ Told(q, room[q].frame_id + 1)
        /\ UNCHANGED <<rooms, adding, sessions, verdicts, next_room_id>>
    BY <1>1 DEF RoomTick, control
  <1>3. /\ new.ready = room[q].ready /\ new.state = room[q].state
        /\ new.frame_id = room[q].frame_id + 1
        /\ new.raw_inputs = Battles!Nothing
    BY <1>1 DEF RoomType, NextFrame, NoInputs, GameIds, Battles!Nothing
  <1> HIDE DEF q, new
  <1>4. Frame[q] = room[q].frame_id /\ Playing[q]
    BY <1>1, <1>2 DEF Frame, Playing
  <1>5. Battles!Send(q, Frame[q] + 1)
    BY <1>1, <1>2, <1>4, ToldIsSent
  <1>6. /\ Frame' = [Frame EXCEPT ![q] = @ + 1]
        /\ Inputs' = [Inputs EXCEPT ![q] = Battles!Nothing]
        /\ UNCHANGED <<IsReady, Playing>>
    <2>1. /\ Frame' = [Frame EXCEPT ![q] = new.frame_id]
          /\ Inputs' = [Inputs EXCEPT ![q] = new.raw_inputs]
          /\ UNCHANGED <<IsReady, Playing>>
      BY <1>1, <1>2, <1>3, OneRoom
    <2>2. QED
      BY <1>3, <1>4, <2>1
  <1>7. UNCHANGED <<Seats, Listening>>
    BY <1>2, NotCreated, SeatsStay DEF Listening
  <1>8. Battles!Tick(q)
    BY <1>2, <1>4, <1>5, <1>6, <1>7 DEF Battles!Tick
  <1>9. QED
    BY <1>1, <1>8 DEF q

\* StartGame finds a room that is idle, and ready or decided.
LEMMA BeginStep ==
  ASSUME IInv, Starting, StartReady, [Next]_vars, ServerAssumption, RoomStartGame
  PROVE  loop.at \in RoomIds /\ Battles!Start(loop.at)
PROOF
  <1> DEFINE q == loop.at
             new == StartGame(room[q])
  <1>0. loop.pc = "start"
    BY DEF RoomStartGame
  <1>1. /\ q \in RoomIds /\ q < next_room_id /\ Len(room[q].player_uids) = 2
        /\ room[q] \in RoomType /\ verdicts \in [RoomIds -> SUBSET Uids]
    BY <1>0, LoopIsCreated DEF IInv, TypeOK
  <1>2. /\ room' = [room EXCEPT ![q] = new]
        /\ verdicts' = [verdicts EXCEPT ![q] = {}]
        /\ Told(q, 0)
        /\ UNCHANGED <<rooms, adding, sessions, next_room_id>>
    BY <1>1 DEF RoomStartGame, control
  <1>3. room[q].state = "IDLE" /\ (CheckAllReady(room[q]) \/ verdicts[q] # {})
    BY <1>0 DEF Starting, StartReady
  <1>4. /\ new.ready = room[q].ready /\ new.state = "GAMING"
        /\ new.frame_id = 0 /\ new.raw_inputs = Battles!Nothing
    BY <1>1 DEF RoomType, StartGame, NoInputs, GameIds, Battles!Nothing
  <1> HIDE DEF q, new
  <1>5. Battles!Send(q, 0)
    BY <1>1, <1>2, ToldIsSent
  <1>6. \A u \in Uids :
          Battles!Plays(u, q) => u \in IsReady[q] \/ verdicts[q] # {}
    <2> SUFFICES ASSUME NEW u \in Uids, Battles!Plays(u, q), verdicts[q] = {}
                 PROVE  u \in IsReady[q]
      OBVIOUS
    <2>1. HasPlayer(room[q], u)
      BY <1>1, PlaysSeat
    <2>2. u \in room[q].ready
      BY <1>3, <2>1 DEF CheckAllReady
    <2>3. QED
      BY <1>1, <2>2 DEF IsReady
  <1>7. ~Playing[q] /\ Seats[q] # << >>
    <2>1. PICK a \in Uids, b \in Uids : Seats[q] = <<a, b>>
      BY <1>1, SeatsMade
    <2>2. ~Playing[q]
      BY <1>1, <1>3 DEF Playing
    <2>3. QED
      BY <2>1, <2>2
  <1>8. /\ Playing' = [Playing EXCEPT ![q] = TRUE]
        /\ Frame' = [Frame EXCEPT ![q] = 0]
        /\ Inputs' = [Inputs EXCEPT ![q] = Battles!Nothing]
        /\ UNCHANGED IsReady
    <2>1. Playing' = [Playing EXCEPT ![q] = (new.state = "GAMING")]
      BY <1>1, <1>2, OneRoom
    <2>2. Playing' = [Playing EXCEPT ![q] = TRUE]
      BY <1>4, <2>1
    <2>3. QED
      BY <1>1, <1>2, <1>4, <2>2, OneRoom
  <1>9. UNCHANGED <<Seats, Listening>>
    BY <1>2, NotCreated, SeatsStay DEF Listening
  <1>10. Battles!Start(q)
    BY <1>2, <1>5, <1>6, <1>7, <1>8, <1>9 DEF Battles!Start
  <1>11. QED
    BY <1>1, <1>10 DEF q

\* AddPlayer seats a player who has had the seat since CreateRoom.
LEMMA AddsStep ==
  ASSUME IInv, [Next]_vars, ServerAssumption, NEW r \in RoomIds, CreateRoomAdds(r)
  PROVE  UNCHANGED Battles!vars
PROOF
  <1> DEFINE new == AddPlayer(room[r], Head(adding[r]))
  <1>1. /\ room' = [room EXCEPT ![r] = new] /\ room[r] \in RoomType
        /\ UNCHANGED <<rooms, sessions, verdicts, expects, next_room_id>>
    BY DEF CreateRoomAdds, observer, IInv, TypeOK
  <1>2. /\ new.ready = room[r].ready /\ new.state = room[r].state
        /\ new.frame_id = room[r].frame_id
        /\ new.raw_inputs = room[r].raw_inputs
    BY <1>1 DEF RoomType, AddPlayer
  <1> HIDE DEF new
  <1>3. UNCHANGED <<IsReady, Playing, Frame, Inputs>>
    BY <1>1, <1>2, OneRoom
  <1>4. UNCHANGED <<Seats, Listening>>
    BY <1>1, NotCreated, SeatsStay DEF Listening
  <1>5. QED
    BY <1>1, <1>3, <1>4 DEF Battles!vars, Battles!game

\* Every other step is between two critical sections that clients can tell.
LEMMA HiddenStep ==
  ASSUME UNCHANGED <<rooms, room, adding, sessions, verdicts, expects>>
  PROVE  UNCHANGED Battles!vars
  BY DEF Battles!vars, Battles!game, Seats, IsReady, Playing, Frame, Inputs,
         Listening

\* The game server starts as Battle does.
LEMMA BattleInit == ASSUME ServerAssumption, Init PROVE Battles!Init
PROOF
  <1>1. << >> \o << >> = << >>
    BY ConcatEmptySeq
  <1>2. None \notin Streams
    BY DEF ServerAssumption
  <1>3. Listening = {}
    BY <1>2 DEF Init, Listening, ServerAssumption
  <1>4. Seats = [r \in RoomIds |-> << >>]
    BY <1>1 DEF Init, Seats, NewRoom
  <1>5. /\ IsReady = [r \in RoomIds |-> {}]
        /\ Playing = [r \in RoomIds |-> FALSE]
        /\ Frame = [r \in RoomIds |-> 0]
        /\ Inputs = [r \in RoomIds |-> Battles!Nothing]
    BY DEF Init, IsReady, Playing, Frame, Inputs, NewRoom, NoInputs, GameIds,
           Battles!Nothing
  <1>6. QED
    BY <1>3, <1>4, <1>5 DEF Init, Battles!Init

\* Every step of the game server is a step of Battle or shows nothing.
LEMMA BattleStep ==
  ASSUME IInv, FInv, Standing, Fresh, StartReady, [Next]_vars, ServerAssumption
  PROVE  [Battles!Next]_(Battles!vars)
PROOF
  <1>1. CASE UNCHANGED <<rooms, room, adding, sessions, verdicts, expects>>
    BY <1>1, HiddenStep
  <1>2. CASE Lobby
    <2>1. ASSUME NEW m \in Matches, CreateRoom(m) PROVE Battles!Next
      BY <2>1, OpenStep DEF Battles!Next
    <2>2. ASSUME NEW r \in RoomIds, CreateRoomAdds(r) PROVE UNCHANGED Battles!vars
      BY <2>2, AddsStep
    <2>3. QED
      BY <1>2, <2>1, <2>2 DEF Lobby
  <1>3. ASSUME NEW s \in Streams, RegisterSession(s) PROVE Battles!Next
    BY <1>3, ListenStep DEF FInv, Battles!Next
  <1>4. ASSUME NEW s \in Streams, SetReady(s) PROVE Battles!Next
    <2>1. h[s].at \in RoomIds /\ UidOf[s] \in Uids
      BY <1>4, HeldPlays DEF SetReady, InRoom
    <2>2. QED
      BY <1>4, <2>1, ReadyStep DEF Battles!Next
  <1>5. ASSUME NEW s \in Streams, RoomPushInput(s)
        PROVE  Battles!Next \/ UNCHANGED Battles!vars
    <2>1. h[s].at \in RoomIds
      BY <1>5, HeldTypes DEF RoomPushInput, InRoom
    <2>2. QED
      BY <1>5, <2>1, InputStep DEF Battles!Next
  <1>6. ASSUME NEW s \in Streams, RoomStopGame(s) PROVE Battles!Next
    <2>1. h[s].at \in RoomIds
      BY <1>6, HeldTypes DEF RoomStopGame, InRoom
    <2>2. QED
      BY <1>6, <2>1, DecideStep DEF Battles!Next
  <1>7. ASSUME NEW s \in Streams, RemoveRoom(s) PROVE Battles!Next
    BY <1>7, GoAwayStep DEF Battles!Next
  <1>8. ASSUME NEW s \in Streams, UnregisterSession(s) PROVE Battles!Next
    BY <1>8, LeaveStep, HeldTypes DEF Battles!Next
  <1>9. CASE RoomTick
    BY <1>9, TickStep DEF Battles!Next
  <1>10. CASE RoomStartGame
    BY <1>10, BeginStep DEF FInv, Battles!Next
  <1>11. CASE \E s \in Streams : Client(s)
    BY <1>1, <1>3, <1>11
    DEF Client, EnterRoom, PlayerReady, FrameInput, GameOver, StreamEnd,
        manager, control, observer
  <1>12. CASE \E s \in Streams : Handler(s)
    BY <1>1, <1>4, <1>5, <1>6, <1>7, <1>8, <1>12
    DEF Handler, MapUidToRoom, DestroyRoomGone, DestroyRoom, UnmapUid, LeaveGame,
        LeaveIdleRoom, UnmapSelf, manager, control, observer
  <1>13. CASE RunLoop
    BY <1>1, <1>9, <1>10, <1>13
    DEF RunLoop, LoopSnapshot, LoopSeesGaming, LoopSeesReady, LoopPasses,
        RoomTickReturns, LoopSleeps, manager, control, observer
  <1>14. CASE UNCHANGED vars
    BY <1>1, <1>14 DEF vars, manager, control, observer
  <1>15. QED
    BY <1>2, <1>11, <1>12, <1>13, <1>14 DEF Next

\* What clients are told by the threads of the game server, which act on
\* pointers, lists and states they have read some steps ago, is the course of
\* the games of Battle.
THEOREM RefinesBattle == Spec => ImplementsBattle
PROOF
  <1>1. Init => Battles!Init /\ Standing /\ Fresh /\ StartReady
    BY ServerAssumption, BattleInit, StandingInit DEF Init, Fresh, StartReady
  <1>2. IInv /\ FInv /\ Standing /\ Fresh /\ StartReady /\ [Next]_vars =>
          Standing' /\ Fresh' /\ StartReady'
    BY ServerAssumption, StandingStep, FreshStep, StartReadyStep
  <1>3. IInv /\ FInv /\ Standing /\ Fresh /\ StartReady /\ [Next]_vars =>
          [Battles!Next]_(Battles!vars)
    BY ServerAssumption, BattleStep
  <1>4. QED
    BY <1>1, <1>2, <1>3, Inductive, FramesInductive, PTL
    DEF Spec, ImplementsBattle, Battles!Spec
=============================================================================
