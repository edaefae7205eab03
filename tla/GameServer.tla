----------------------------- MODULE GameServer -----------------------------
(***************************************************************************)
(* game_server: the singleton RoomManager, the StreamBattle handler that   *)
(* gRPC runs on a thread of its own for every gateway session, the         *)
(* CreateRoom handler the lobby calls, and the thread of RunLoop.          *)
(*                                                                         *)
(* A step is one critical section of one thread (rooms_mutex_,             *)
(* mapping_mutex_, sessions_mutex_ or a room's room_mutex_), or one        *)
(* unlocked read or write of a room.  Between two of them a handler keeps  *)
(* what it read in local variables, which other threads may make stale.    *)
(*                                                                         *)
(* A broadcast runs under the room's mutex and sessions_mutex_, so it      *)
(* reaches every registered player of the room in one step.  What clients  *)
(* are told is kept in the observer variables `verdicts' and `expects'.    *)
(* Replies to the requesting client, a request that does not parse, and a  *)
(* lookup that only earns the client an error reply change none of the     *)
(* state: the handler is back at its Read.                                 *)
(***************************************************************************)
EXTENDS Room

CONSTANTS Streams,     \* StreamBattle calls, one per gateway session
          UidOf,       \* the uid of that session
          Matches,     \* the pairs of players the lobby creates rooms for
          MaxRooms,    \* bound on the rooms created; ids do not wrap below it
          InputFrames, \* bound: the frame numbers clients stamp on inputs
          Winners,     \* bound: the players clients report as winners
          None

RoomIds == 1 .. MaxRooms

ASSUME ServerAssumption ==
  /\ UidOf \in [Streams -> Uids]
  /\ Matches \subseteq {m \in Uids \X Uids : m[1] # m[2]}
  /\ MaxRooms \in Nat
  /\ MaxFrame \in Nat
  /\ InputFrames \subseteq Frames
  /\ Winners \subseteq Uids
  /\ None \notin Streams \cup Uids \cup Nat

VARIABLES
  rooms,         \* rooms_: the ids in the map
  room,          \* the Room objects; a shared_ptr keeps one alive after its
                 \* id has left the map
  uid_to_room,   \* uid_to_room_, None where the map has no entry
  sessions,      \* sessions_: the registered stream of a uid, or None
  next_room_id,  \* the counter of CreateRoom
  adding,        \* players a CreateRoom call has still to add to its room
  h,             \* the local state of the StreamBattle handlers
  loop,          \* the local state of RunLoop
  verdicts,      \* observer: winners announced since the room's last start
  expects        \* observer: the frame a stream expects next from a room,
                 \* None before the room has sent it anything

manager  == <<rooms, room, uid_to_room, sessions>>
control  == <<next_room_id, adding>>
observer == <<verdicts, expects>>
vars     == <<manager, control, h, loop, observer>>

HandlerPc == {"new", "read", "map", "ready", "push", "stop", "destroy",
              "unmap", "leave", "unmap_self", "unregister", "done"}

HandlerType ==
  [pc      : HandlerPc,
   at      : RoomIds \cup {None},          \* the room pointer it holds
   arg     : Frames \cup Uids \cup {None}, \* frame of an input, or winner
   todo    : Seq(Uids),                    \* uids DestroyRoom has to unmap
   closing : BOOLEAN]                      \* Read has returned false

LoopType ==
  [pc   : {"sleep", "scan", "tick", "start"},
   todo : SUBSET RoomIds,                  \* rooms_to_process
   at   : RoomIds \cup {None}]

Idle == [pc |-> "new", at |-> None, arg |-> None, todo |-> << >>,
         closing |-> FALSE]

Init ==
  /\ rooms = {}
  /\ room = [r \in RoomIds |-> NewRoom]
  /\ uid_to_room = [u \in Uids |-> None]
  /\ sessions = [u \in Uids |-> None]
  /\ next_room_id = 1
  /\ adding = [r \in RoomIds |-> << >>]
  /\ h = [s \in Streams |-> Idle]
  /\ loop = [pc |-> "sleep", todo |-> {}, at |-> None]
  /\ verdicts = [r \in RoomIds |-> {}]
  /\ expects = [s \in Streams |-> [r \in RoomIds |-> None]]

-----------------------------------------------------------------------------
(* Who is reached by Broadcast of room r: SendToPlayers on player_uids_.    *)

Reached(r) ==
  {s \in Streams : sessions[UidOf[s]] = s /\ HasPlayer(room[r], UidOf[s])}

Told(r, frame) ==
  expects' = [s \in Streams |->
                IF s \in Reached(r) THEN [expects[s] EXCEPT ![r] = frame]
                ELSE expects[s]]

\* GetRoomByUid holds mapping_mutex_ while it takes rooms_mutex_.
RoomByUid(u) == IF uid_to_room[u] \in rooms THEN uid_to_room[u] ELSE None

-----------------------------------------------------------------------------
(* CreateRoom, called by the lobby for the two players it has matched.      *)

\* The counter, GetOrCreateRoom and the parsed player list.
CreateRoom(players) ==
  /\ next_room_id \in RoomIds
  /\ next_room_id' = next_room_id + 1
  /\ rooms' = rooms \cup {next_room_id}
  /\ room' = [room EXCEPT ![next_room_id] = NewRoom]
  /\ adding' = [adding EXCEPT ![next_room_id] = players]
  /\ UNCHANGED <<uid_to_room, sessions, h, loop, observer>>

\* One AddPlayer of CreateRoom's loop.
CreateRoomAdds(r) ==
  /\ adding[r] # << >>
  /\ room' = [room EXCEPT ![r] = AddPlayer(@, Head(adding[r]))]
  /\ adding' = [adding EXCEPT ![r] = Tail(@)]
  /\ UNCHANGED <<rooms, uid_to_room, sessions, next_room_id, h, loop, observer>>

\* A client learns a room id once CreateRoom has returned it to the lobby.
Announced(r) == r < next_room_id /\ adding[r] = << >>

-----------------------------------------------------------------------------
(* StreamBattle.  Goto(s, pc) ends a step of the handler of s.             *)

Goto(s, pc) == h' = [h EXCEPT ![s].pc = pc]

GotoWith(s, pc, r, arg) ==
  h' = [h EXCEPT ![s].pc = pc, ![s].at = r, ![s].arg = arg]

\* Back at stream->Read: the handler's locals go out of scope.
Rest(s) == [Idle EXCEPT !.pc = "read"]

\* The first Read succeeds and the stream is registered for its uid.
RegisterSession(s) ==
  /\ h[s].pc = "new"
  /\ sessions' = [sessions EXCEPT ![UidOf[s]] = s]
  /\ Goto(s, "read")
  /\ UNCHANGED <<rooms, room, uid_to_room, control, loop, observer>>

(* 2001 EnterRoomReq: GetRoom and HasPlayer, then MapUidToRoom.             *)

EnterRoom(s, r) ==
  /\ h[s].pc = "read"
  /\ Announced(r)
  /\ r \in rooms
  /\ HasPlayer(room[r], UidOf[s])
  /\ GotoWith(s, "map", r, None)
  /\ UNCHANGED <<manager, control, loop, observer>>

MapUidToRoom(s) ==
  /\ h[s].pc = "map"
  /\ uid_to_room' = [uid_to_room EXCEPT ![UidOf[s]] = h[s].at]
  /\ h' = [h EXCEPT ![s] = Rest(s)]
  /\ UNCHANGED <<rooms, room, sessions, control, loop, observer>>

(* 2002 PlayerReadyReq: GetRoom and HasPlayer, then an unlocked write.      *)

PlayerReady(s, r) ==
  /\ h[s].pc = "read"
  /\ Announced(r)
  /\ r \in rooms
  /\ HasPlayer(room[r], UidOf[s])
  /\ GotoWith(s, "ready", r, None)
  /\ UNCHANGED <<manager, control, loop, observer>>

SetReady(s) ==
  /\ h[s].pc = "ready"
  /\ room' = [room EXCEPT ![h[s].at].ready = @ \cup {UidOf[s]}]
  /\ h' = [h EXCEPT ![s] = Rest(s)]
  /\ UNCHANGED <<rooms, uid_to_room, sessions, control, loop, observer>>

(* 2004 PlayerFrameInput: GetRoomByUid, then PushInput.                     *)

FrameInput(s, frame) ==
  /\ h[s].pc = "read"
  /\ RoomByUid(UidOf[s]) # None
  /\ GotoWith(s, "push", RoomByUid(UidOf[s]), frame)
  /\ UNCHANGED <<manager, control, loop, observer>>

RoomPushInput(s) ==
  /\ h[s].pc = "push"
  /\ room' = [room EXCEPT ![h[s].at] = PushInput(@, UidOf[s], h[s].arg)]
  /\ h' = [h EXCEPT ![s] = Rest(s)]
  /\ UNCHANGED <<rooms, uid_to_room, sessions, control, loop, observer>>

(* 2006 GameOverReq: GetRoomByUid, StopGame, DestroyRoom.  The winner is    *)
(* whom the client says; neither it nor the room's state is checked.        *)

GameOver(s, winner) ==
  /\ h[s].pc = "read"
  /\ RoomByUid(UidOf[s]) # None
  /\ GotoWith(s, "stop", RoomByUid(UidOf[s]), winner)
  /\ UNCHANGED <<manager, control, loop, observer>>

\* StopGame under room_mutex_, whatever state_ is by now; it broadcasts 2007.
RoomStopGame(s) ==
  /\ h[s].pc = "stop"
  /\ room' = [room EXCEPT ![h[s].at] = StopGame(@)]
  /\ verdicts' = [verdicts EXCEPT ![h[s].at] = @ \cup {h[s].arg}]
  /\ Goto(s, "destroy")
  /\ UNCHANGED <<rooms, uid_to_room, sessions, control, loop, expects>>

(* DestroyRoom: GetRoom; UnmapUid of every player; RemoveRoom.              *)

\* After DestroyRoom the request is done, or the handler is on its way out.
Finish(s) ==
  IF h[s].closing THEN [h[s] EXCEPT !.pc = "unmap_self", !.at = None, !.arg = None]
                  ELSE Rest(s)

DestroyRoomGone(s) ==
  /\ h[s].pc = "destroy"
  /\ h[s].at \notin rooms
  /\ h' = [h EXCEPT ![s] = Finish(s)]
  /\ UNCHANGED <<manager, control, loop, observer>>

DestroyRoom(s) ==
  /\ h[s].pc = "destroy"
  /\ h[s].at \in rooms
  /\ h' = [h EXCEPT ![s].pc = "unmap", ![s].todo = room[h[s].at].player_uids]
  /\ UNCHANGED <<manager, control, loop, observer>>

\* UnmapUid erases the entry whichever room it names.
UnmapUid(s) ==
  /\ h[s].pc = "unmap"
  /\ h[s].todo # << >>
  /\ uid_to_room' = [uid_to_room EXCEPT ![Head(h[s].todo)] = None]
  /\ h' = [h EXCEPT ![s].todo = Tail(@)]
  /\ UNCHANGED <<rooms, room, sessions, control, loop, observer>>

RemoveRoom(s) ==
  /\ h[s].pc = "unmap"
  /\ h[s].todo = << >>
  /\ rooms' = rooms \ {h[s].at}
  /\ h' = [h EXCEPT ![s] = Finish(s)]
  /\ UNCHANGED <<room, uid_to_room, sessions, control, loop, observer>>

(* Read returns false: the client's gateway session has closed the stream.  *)

StreamEnd(s) ==
  /\ h[s].pc = "read"
  /\ h' = [h EXCEPT ![s].closing = TRUE,
                    ![s].at = RoomByUid(UidOf[s]),
                    ![s].pc = IF RoomByUid(UidOf[s]) = None THEN "unmap_self"
                                                            ELSE "leave"]
  /\ UNCHANGED <<manager, control, loop, observer>>

\* Defect: the winner is the first player of the list, whoever left.
LeaveGame_FirstPlayer(s) ==
  /\ h[s].pc = "leave"
  /\ room[h[s].at].state = "GAMING"
  /\ GotoWith(s, "stop", h[s].at, room[h[s].at].player_uids[1])
  /\ UNCHANGED <<manager, control, loop, observer>>

\* Defect: the game goes on without the player.
LeaveGame_GoesOn(s) ==
  /\ h[s].pc = "leave"
  /\ room[h[s].at].state = "GAMING"
  /\ GotoWith(s, "unmap_self", None, None)
  /\ UNCHANGED <<manager, control, loop, observer>>

\* The unlocked GetState, and the first player that is not the leaving one:
\* a room that is GAMING has two (SidesAsAnnounced), so there is one.
LeaveGame(s) ==
  LET r      == h[s].at
      others == {i \in DOMAIN room[r].player_uids :
                    room[r].player_uids[i] # UidOf[s]}
  IN /\ h[s].pc = "leave"
     /\ room[r].state = "GAMING"
     /\ \E i \in others : /\ \A j \in others : i <= j
                          /\ GotoWith(s, "stop", r, room[r].player_uids[i])
     /\ UNCHANGED <<manager, control, loop, observer>>

\* Defect: a room whose player leaves before the start is destroyed.
LeaveIdleRoom_Destroys(s) ==
  /\ h[s].pc = "leave"
  /\ room[h[s].at].state # "GAMING"
  /\ Goto(s, "destroy")
  /\ UNCHANGED <<manager, control, loop, observer>>

LeaveIdleRoom(s) ==
  /\ h[s].pc = "leave"
  /\ room[h[s].at].state # "GAMING"
  /\ GotoWith(s, "unmap_self", None, None)
  /\ UNCHANGED <<manager, control, loop, observer>>

\* Defect: only a room that has ended takes its players out of the map.
UnmapSelf_Keeps(s) ==
  /\ h[s].pc = "unmap_self"
  /\ Goto(s, "unregister")
  /\ UNCHANGED <<manager, control, loop, observer>>

UnmapSelf(s) ==
  /\ h[s].pc = "unmap_self"
  /\ uid_to_room' = [uid_to_room EXCEPT ![UidOf[s]] = None]
  /\ Goto(s, "unregister")
  /\ UNCHANGED <<rooms, room, sessions, control, loop, observer>>

\* Defect: the handler returns and leaves its stream registered.
UnregisterSession_Forgets(s) ==
  /\ h[s].pc = "unregister"
  /\ Goto(s, "done")
  /\ UNCHANGED <<manager, control, loop, observer>>

\* Erases the uid's entry whichever stream it names.  The handler returns
\* and gRPC destroys the stream object that GrpcSessionStream points to.
UnregisterSession(s) ==
  /\ h[s].pc = "unregister"
  /\ sessions' = [sessions EXCEPT ![UidOf[s]] = None]
  /\ Goto(s, "done")
  /\ UNCHANGED <<rooms, room, uid_to_room, control, loop, observer>>

-----------------------------------------------------------------------------
(* RunLoop.                                                                 *)

LoopSnapshot ==
  /\ loop.pc = "sleep"
  /\ loop' = [pc |-> "scan", todo |-> rooms, at |-> None]
  /\ UNCHANGED <<manager, control, h, observer>>

\* The unlocked GetState sees GAMING: Tick is called next.
LoopSeesGaming(r) ==
  /\ loop.pc = "scan"
  /\ r \in loop.todo
  /\ room[r].state = "GAMING"
  /\ room[r].frame_id < MaxFrame                              \* bound
  /\ loop' = [pc |-> "tick", todo |-> loop.todo \ {r}, at |-> r]
  /\ UNCHANGED <<manager, control, h, observer>>

\* An IDLE room that IsFull and passes CheckAllReady: StartGame comes next.
LoopSeesReady(r) ==
  /\ loop.pc = "scan"
  /\ r \in loop.todo
  /\ room[r].state = "IDLE"
  /\ IsFull(room[r])
  /\ CheckAllReady(room[r])
  /\ loop' = [pc |-> "start", todo |-> loop.todo \ {r}, at |-> r]
  /\ UNCHANGED <<manager, control, h, observer>>

LoopPasses(r) ==
  /\ loop.pc = "scan"
  /\ r \in loop.todo
  /\ \/ room[r].state = "IDLE" /\ ~(IsFull(room[r]) /\ CheckAllReady(room[r]))
     \/ room[r].state = "GAMING" /\ room[r].frame_id = MaxFrame   \* bound
  /\ loop' = [loop EXCEPT !.todo = @ \ {r}]
  /\ UNCHANGED <<manager, control, h, observer>>

Scan == [loop EXCEPT !.pc = "scan", !.at = None]

\* Defect: Tick trusts the state RunLoop has read without the mutex.
RoomTick_NoRecheck ==
  /\ loop.pc = "tick"
  /\ room' = [room EXCEPT ![loop.at] = NextFrame(@)]
  /\ Told(loop.at, room[loop.at].frame_id + 1)
  /\ loop' = Scan
  /\ UNCHANGED <<rooms, uid_to_room, sessions, control, h, verdicts>>

\* Defect: the frame number advances before the broadcast.
RoomTick_AdvancesFirst ==
  /\ loop.pc = "tick"
  /\ room[loop.at].state = "GAMING"
  /\ room' = [room EXCEPT ![loop.at] = NextFrame(@)]
  /\ Told(loop.at, NextFrame(room[loop.at]).frame_id + 1)
  /\ loop' = Scan
  /\ UNCHANGED <<rooms, uid_to_room, sessions, control, h, verdicts>>

\* Tick reads state_ again, under room_mutex_; it broadcasts 2005.
RoomTick ==
  /\ loop.pc = "tick"
  /\ room[loop.at].state = "GAMING"
  /\ room' = [room EXCEPT ![loop.at] = NextFrame(@)]
  /\ Told(loop.at, room[loop.at].frame_id + 1)
  /\ loop' = Scan
  /\ UNCHANGED <<rooms, uid_to_room, sessions, control, h, verdicts>>

RoomTickReturns ==
  /\ loop.pc = "tick"
  /\ room[loop.at].state # "GAMING"
  /\ loop' = Scan
  /\ UNCHANGED <<manager, control, h, observer>>

\* StartGame does not look at the room again; it broadcasts 2003.
RoomStartGame ==
  /\ loop.pc = "start"
  /\ room' = [room EXCEPT ![loop.at] = StartGame(@)]
  /\ Told(loop.at, 0)
  /\ verdicts' = [verdicts EXCEPT ![loop.at] = {}]
  /\ loop' = Scan
  /\ UNCHANGED <<rooms, uid_to_room, sessions, control, h>>

LoopSleeps ==
  /\ loop.pc = "scan"
  /\ loop.todo = {}
  /\ loop' = [loop EXCEPT !.pc = "sleep"]
  /\ UNCHANGED <<manager, control, h, observer>>

-----------------------------------------------------------------------------
Lobby == \/ \E m \in Matches : CreateRoom(m)
         \/ \E r \in RoomIds : CreateRoomAdds(r)

\* What the client on the other side of stream s decides.
Client(s) ==
  \/ RegisterSession(s)
  \/ \E r \in RoomIds : EnterRoom(s, r)
  \/ \E r \in RoomIds : PlayerReady(s, r)
  \/ \E f \in InputFrames : FrameInput(s, f)
  \/ \E w \in Winners : GameOver(s, w)
  \/ StreamEnd(s)

\* What the handler of s does on its own once it has a request.
Handler(s) ==
  \/ MapUidToRoom(s)
  \/ SetReady(s)
  \/ RoomPushInput(s)
  \/ RoomStopGame(s)
  \/ DestroyRoomGone(s)
  \/ DestroyRoom(s)
  \/ UnmapUid(s)
  \/ RemoveRoom(s)
  \/ LeaveGame(s)
  \/ LeaveIdleRoom(s)
  \/ UnmapSelf(s)
  \/ UnregisterSession(s)

RunLoop ==
  \/ LoopSnapshot
  \/ \E r \in RoomIds : LoopSeesGaming(r) \/ LoopSeesReady(r) \/ LoopPasses(r)
  \/ RoomTick
  \/ RoomTickReturns
  \/ RoomStartGame
  \/ LoopSleeps

Next ==
  \/ Lobby
  \/ \E s \in Streams : Client(s) \/ Handler(s)
  \/ RunLoop

Spec == Init /\ [][Next]_vars

\* Server threads are scheduled; nothing obliges a client or the lobby to act.
FairSpec ==
  /\ Spec
  /\ WF_vars(RunLoop)
  /\ \A s \in Streams : WF_vars(Handler(s))
-----------------------------------------------------------------------------
(* Properties.                                                             *)

\* Every variable keeps its shape.
TypeOK ==
  /\ rooms \subseteq RoomIds
  /\ room \in [RoomIds -> RoomType]
  /\ uid_to_room \in [Uids -> RoomIds \cup {None}]
  /\ sessions \in [Uids -> Streams \cup {None}]
  /\ next_room_id \in 1 .. MaxRooms + 1
  /\ adding \in [RoomIds -> Seq(Uids)]
  /\ h \in [Streams -> HandlerType]
  /\ loop \in LoopType
  /\ verdicts \in [RoomIds -> SUBSET Uids]
  /\ expects \in [Streams -> [RoomIds -> Frames \cup {None}]]

Running(s) == h[s].pc \notin {"new", "done"}

\* GrpcSessionStream keeps a raw pointer to the stream of its handler.  A
\* stream that sessions_ names belongs to a handler that has not returned and
\* that serves this uid, although handlers of the same uid overwrite and erase
\* each other's entry: SendToPlayers never writes to a dead stream, nor to
\* another player's.
NoDanglingStream ==
  \A u \in Uids : sessions[u] # None =>
    UidOf[sessions[u]] = u /\ Running(sessions[u])

\* uid_to_room_ never outlives the streams of its uid, and never names a room
\* the uid was not matched into, although DestroyRoom, MapUidToRoom and the
\* end of a stream race for the entry.
MappingOwned ==
  \A u \in Uids : uid_to_room[u] # None =>
    /\ HasPlayer(room[uid_to_room[u]], u)
    /\ \E s \in Streams :
          UidOf[s] = u /\ Running(s) /\ h[s].pc # "unregister"

\* A handler about to stop a game because its stream ended names the player
\* who stays as the winner, and acts on a room its own player is in.
ForfeitGoesToOpponent ==
  \A s \in Streams : h[s].pc = "stop" /\ h[s].closing =>
    /\ HasPlayer(room[h[s].at], UidOf[s])
    /\ HasPlayer(room[h[s].at], h[s].arg)
    /\ h[s].arg # UidOf[s]

\* The first player of the list is 1P and the second 2P, the positions the
\* lobby announces in its MatchGameNtf; a game runs only between two players.
SidesAsAnnounced ==
  \A r \in RoomIds :
    LET uids == room[r].player_uids
    IN /\ \A i \in DOMAIN uids : room[r].game_id[uids[i]] = i
       /\ room[r].state = "GAMING" => Len(uids) = 2

\* An input the room has stored is neither overwritten nor dropped: it leaves
\* current_frame_ by the Tick that broadcasts it, or after the game has ended.
InputKept ==
  [][\A r \in RoomIds, g \in GameIds :
       LET before == room[r].raw_inputs[g]
           after  == room'[r].raw_inputs[g]
       IN before # NoInput /\ after # before =>
            \/ room'[r].frame_id = room[r].frame_id + 1
            \/ verdicts[r] # {}]_vars

\* A stream that is still registered has missed no frame of the game in
\* progress: the frame it expects is the frame the room collects.
RegisteredIsUpToDate ==
  \A s \in Streams, r \in RoomIds :
    /\ sessions[UidOf[s]] = s
    /\ expects[s][r] # None
    /\ room[r].state = "GAMING"
    => expects[s][r] = room[r].frame_id

\* No frame of a game is sent after a winner has been announced for it: Tick
\* may be on its way when StopGame gets the room's mutex first.
NoFrameAfterVerdict ==
  [][\A r \in RoomIds :
       room'[r].frame_id = room[r].frame_id + 1 => verdicts[r] = {}]_vars

\* A room in the map whose two players are ready starts, unless a request to
\* end the game comes first.
ReadyRoomStarts ==
  \A r \in RoomIds :
    (r \in rooms /\ IsFull(room[r]) /\ CheckAllReady(room[r]))
      ~> (room[r].state = "GAMING" \/ verdicts[r] # {})

\* A running game whose player's stream has ended, as the handler of that
\* stream has seen, leaves the map.
ForfeitEndsGame ==
  \A s \in Streams, r \in RoomIds :
    (h[s].pc = "leave" /\ h[s].at = r /\ room[r].state = "GAMING")
      ~> r \notin rooms

\* The state of Battle as the game server keeps it.
Seats     == [r \in RoomIds |-> room[r].player_uids \o adding[r]]
IsReady   == [r \in RoomIds |-> room[r].ready]
Playing   == [r \in RoomIds |-> room[r].state = "GAMING"]
Frame     == [r \in RoomIds |-> room[r].frame_id]
Inputs    == [r \in RoomIds |-> room[r].raw_inputs]
Listening == {s \in Streams : sessions[UidOf[s]] = s}

Battles == INSTANCE Battle WITH
             open <- rooms, seats <- Seats, ready <- IsReady, playing <- Playing,
             frame <- Frame, inputs <- Inputs, winners <- verdicts,
             listening <- Listening, heard <- expects

\* Handlers that act on rooms they have looked up some steps ago, RunLoop with
\* its list of rooms and what it has read without a mutex, and streams that
\* replace each other show to clients nothing but the games of Battle.
ImplementsBattle == Battles!Spec

-----------------------------------------------------------------------------
(* What the repository says of the program, and the code does not keep.    *)

\* game_server.md:116: a tick is broadcast to all valid players of the room.
\* A player's only open stream is the one the broadcasts of its rooms reach.
OpenStreamIsReached ==
  \A s \in Streams :
    /\ h[s].pc = "read"
    /\ \A t \in Streams \ {s} :
         UidOf[t] = UidOf[s] => h[t].pc \in {"new", "done"}
    => sessions[UidOf[s]] = s

\* game_server.md:74: once all are ready the server broadcasts the start and
\* sends frames from then on.
StartedGameSendsFrames ==
  \A r \in RoomIds :
    (room[r].state = "GAMING" /\ room[r].frame_id = 0)
      ~> (room[r].frame_id > 0 \/ room[r].state = "IDLE")
=============================================================================
