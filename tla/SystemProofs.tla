---------------------------- MODULE SystemProofs ----------------------------
(***************************************************************************)
(* The composition keeps to the specifications of its parts: what is       *)
(* proved of the lobby and of the game server alone holds in it too.       *)
(***************************************************************************)
EXTENDS System, LobbyPresenceProofs

-----------------------------------------------------------------------------
(* The lobby.                                                               *)

\* A step of the system is a step of the lobby, or leaves the lobby alone.
LEMMA LobbyStep == ASSUME [SystemNext]_systemVars PROVE [Next]_vars
PROOF
  <1>1. CASE UNCHANGED vars
    BY <1>1
  <1>2. CASE LobbyAlone
    BY <1>2 DEF LobbyAlone, Next, Gateway, Continue
  <1>3. ASSUME NEW k \in Calls, Matchmaking(k) PROVE [Next]_vars
    BY <1>3
    DEF Matchmaking, CreateRoom, CreateRoomAnswers, CreateRoomFails,
        FirstIsPushed, SecondIsPushed, Next, Continue
  <1>4. CASE \E s \in Subs : PushStreamBreaks(s)
    BY <1>4 DEF PushStreamBreaks, Next, Gateway
  <1>5. CASE LobbyRestarts
    BY <1>5 DEF LobbyRestarts, Next
  <1>6. QED
    BY <1>1, <1>2, <1>3, <1>4, <1>5
    DEF SystemNext, RunLoop, CreateRoomAdds, Handler, Playing, OpenGameStream,
        EnterRoom, PlayerReady, GameOver, GameStreamCancelled, GameStreamFails,
        Deliver, systemVars

\* In the composition the lobby does what Lobby says: every theorem about it
\* holds there, whatever the game server and the game streams do.
THEOREM LobbyAsSpecified == SystemSpec => Spec
PROOF
  <1>1. SystemInit => Init
    BY DEF SystemInit
  <1>2. [SystemNext]_systemVars => [Next]_vars
    BY LobbyStep
  <1>3. QED
    BY <1>1, <1>2, PTL DEF SystemSpec, Spec

-----------------------------------------------------------------------------
(* The game server.                                                         *)

\* The two requests of a match are of two players.
PairUids ==
  \A k \in Calls : call[k].pair # None =>
    /\ call[call[k].pair[1]].conn \in Conns
    /\ call[call[k].pair[2]].conn \in Conns
    /\ Uid(call[k].pair[1]) # Uid(call[k].pair[2])

\* A request that has begun keeps its session.
LEMMA ConnStays ==
  ASSUME IInv, [Next]_vars, NEW k \in Calls, call[k].pc \notin {"unused", "sent"}
  PROVE  call'[k].conn = call[k].conn
PROOF
  <1>1. ASSUME NEW j \in Calls, NEW c \in Conns, Dispatch(j, c)
        PROVE  call'[k].conn = call[k].conn
    BY <1>1, CallFields
  <1>2. QED
    BY <1>1, CallSteps, CallFields, RestartFields DEF CallStep

\* A match is set by HandleMatchGame, for its request and the one that waits.
LEMMA PairSet ==
  ASSUME IInv, [Next]_vars, NEW k \in Calls, call'[k].pair # call[k].pair
  PROVE  \E w \in Calls : /\ Uid(w) # Uid(k)
                           /\ call[w].pc = "done" /\ call[k].pc = "sent"
                           /\ call'[k].pair = <<w, k>>
                           /\ call'[w].conn = call[w].conn
                           /\ call'[k].conn = call[k].conn
PROOF
  <1>1. ASSUME NEW j \in Calls, NEW c \in Conns, Dispatch(j, c)
        PROVE  call'[k].pair = call[k].pair
    BY <1>1, CallFields
  <1>2. ASSUME NEW j \in Calls, NEW pc \in CallPc, Moves(j, pc)
        PROVE  call'[k].pair = call[k].pair
    BY <1>2, CallFields
  <1>3. ASSUME Restart PROVE call'[k].pair = call[k].pair
    BY <1>3, RestartFields
  <1>4. PICK j \in Calls : HandleMatchGamePairs(j)
    BY <1>1, <1>2, <1>3, CallSteps DEF CallStep
  <1>5. k = j
    BY <1>4, CallFields
  <1>6. QED
    BY <1>4, <1>5, CallFields

\* The players of a match are those of its requests, and stay so.
LEMMA PairUidsStep ==
  ASSUME IInv, PairUids, [Next]_vars PROVE PairUids'
PROOF
  <1>1. ASSUME NEW k \in Calls, call'[k].pair # None
        PROVE  \E a, b \in Calls :
                 /\ call'[k].pair = <<a, b>>
                 /\ call'[a].conn \in Conns /\ call'[b].conn \in Conns
                 /\ UidOf[call'[a].conn] # UidOf[call'[b].conn]
    <2>1. CASE call'[k].pair # call[k].pair
      <3>1. PICK w \in Calls : /\ Uid(w) # Uid(k)
                               /\ call[w].pc = "done" /\ call[k].pc = "sent"
                               /\ call'[k].pair = <<w, k>>
                               /\ call'[w].conn = call[w].conn
                               /\ call'[k].conn = call[k].conn
        BY <1>1, <2>1, PairSet
      <3>2. call[w].conn \in Conns /\ call[k].conn \in Conns
        BY <3>1 DEF IInv, CallsOK, TypeOK, CallType
      <3>3. QED
        BY <3>1, <3>2 DEF Uid
    <2>2. CASE call'[k].pair = call[k].pair
      <3>1. PICK a \in Calls, b \in Calls : call[k].pair = <<a, b>>
        BY <1>1, <2>2 DEF IInv, TypeOK, CallType
      <3>2. call[k].pair # None /\ call[k].pair[1] = a /\ call[k].pair[2] = b
        BY <1>1, <2>2, <3>1
      <3>3. call[a].pc \notin {"unused", "sent"} /\ call[b].pc \notin {"unused", "sent"}
        BY <3>2 DEF IInv, PairsOK
      <3>4. call'[a].conn = call[a].conn /\ call'[b].conn = call[b].conn
        BY <3>3, ConnStays
      <3>5. call[a].conn \in Conns /\ call[b].conn \in Conns /\ Uid(a) # Uid(b)
        BY <3>2 DEF PairUids
      <3>6. QED
        BY <2>2, <3>1, <3>4, <3>5 DEF Uid
    <2>3. QED
      BY <2>1, <2>2
  <1>2. QED
    BY <1>1 DEF PairUids, Uid

\* The game server is called for two different players.
LEMMA OpponentsDiffer ==
  ASSUME IInv, PairUids, NEW k \in Calls, call[k].pc = "create"
  PROVE  Opponents(k) \in Pairs
PROOF
  <1>1. call[k].pair # None
    BY DEF IInv, CallsOK
  <1>2. \A c \in Conns : UidOf[c] \in Uids
    BY LobbyAssumption
  <1>3. QED
    BY <1>1, <1>2 DEF PairUids, Opponents, Pairs, Uid

\* A step of the system is a step of the game server, or leaves it alone.
LEMMA GameStep ==
  ASSUME IInv, PairUids, [SystemNext]_systemVars PROVE [G!Next]_G!vars
PROOF
  <1>1. CASE UNCHANGED gameVars
    BY <1>1 DEF gameVars, G!vars, G!manager, G!control, G!observer
  <1>2. ASSUME NEW k \in Calls, CreateRoom(k) PROVE G!Next
    BY <1>2, OpponentsDiffer DEF CreateRoom, G!Next, G!Lobby
  <1>3. CASE RunLoop
    BY <1>3 DEF RunLoop, G!Next
  <1>4. CASE \E r \in G!RoomIds : CreateRoomAdds(r)
    BY <1>4 DEF CreateRoomAdds, G!Next, G!Lobby
  <1>5. CASE \E c \in Conns : Handler(c)
    BY <1>5 DEF Handler, G!Next
  <1>6. ASSUME NEW c \in Conns, Playing(c) PROVE G!Next
    BY <1>6
    DEF Playing, OpenGameStream, EnterRoom, PlayerReady, GameOver,
        GameStreamCancelled, GameStreamFails, G!Next, G!Client
  <1>7. QED
    BY <1>1, <1>2, <1>3, <1>4, <1>5, <1>6
    DEF SystemNext, LobbyAlone, Matchmaking, CreateRoomAnswers,
        CreateRoomFails, FirstIsPushed, SecondIsPushed, PushStreamBreaks,
        LobbyRestarts, Deliver, systemVars

\* In the composition the game server does what GameServer says, for the only
\* caller it has: a lobby with any number of players, requests and restarts never
\* asks for a room with one player twice.
THEOREM GameServerAsSpecified == SystemSpec => GameServerAsAssumed
PROOF
  <1>1. SystemInit => IInv /\ PairUids /\ G!Init
    BY InitInv, LobbyAssumption DEF SystemInit, Init, PairUids, Unused
  <1>2. IInv /\ PairUids /\ [SystemNext]_systemVars => (IInv /\ PairUids)'
    BY LobbyStep, InvStep, PairUidsStep, LobbyAssumption
  <1>3. IInv /\ PairUids /\ [SystemNext]_systemVars => [G!Next]_G!vars
    BY GameStep
  <1>4. QED
    BY <1>1, <1>2, <1>3, PTL DEF SystemSpec, GameServerAsAssumed, G!Spec

-----------------------------------------------------------------------------
(* Invitations.                                                             *)

\* What is proved of GameServer, of the instance that System runs.
GP == INSTANCE GameFrameProofs WITH
        Streams <- Conns, Matches <- Pairs, InputFrames <- {}

\* System and these proofs mean the same game server.
LEMMA SameInit == G!Init <=> GP!Init
  BY DEF G!Init, GP!Init, G!NewRoom, GP!NewRoom, G!NoInputs, GP!NoInputs,
         G!NoInput, GP!NoInput, G!GameIds, GP!GameIds, G!RoomIds, GP!RoomIds,
         G!Idle, GP!Idle

\* So they do of its steps.
LEMMA SameNext == [G!Next]_G!vars <=> [GP!Next]_(GP!vars)
  BY Zenon
  DEF G!NoInput, GP!NoInput, G!NoInputs, GP!NoInputs, G!NewRoom, GP!NewRoom,
      G!HasPlayer, GP!HasPlayer, G!IsFull, GP!IsFull, G!AssignGameId,
      GP!AssignGameId, G!AddPlayer, GP!AddPlayer, G!AcceptsInput,
      GP!AcceptsInput, G!PushInput, GP!PushInput, G!NextFrame, GP!NextFrame,
      G!CheckAllReady, GP!CheckAllReady, G!StartGame, GP!StartGame,
      G!StopGame, GP!StopGame, G!RoomIds, GP!RoomIds, G!manager, GP!manager,
      G!control, GP!control, G!observer, GP!observer, G!vars, GP!vars, G!Idle,
      GP!Idle, G!Reached, GP!Reached, G!Told, GP!Told, G!RoomByUid,
      GP!RoomByUid, G!CreateRoom, GP!CreateRoom, G!CreateRoomAdds,
      GP!CreateRoomAdds, G!Announced, GP!Announced, G!Goto, GP!Goto,
      G!GotoWith, GP!GotoWith, G!Rest, GP!Rest, G!RegisterSession,
      GP!RegisterSession, G!EnterRoom, GP!EnterRoom, G!MapUidToRoom,
      GP!MapUidToRoom, G!PlayerReady, GP!PlayerReady, G!SetReady, GP!SetReady,
      G!FrameInput, GP!FrameInput, G!RoomPushInput, GP!RoomPushInput,
      G!GameOver, GP!GameOver, G!RoomStopGame, GP!RoomStopGame, G!Finish,
      GP!Finish, G!DestroyRoomGone, GP!DestroyRoomGone, G!DestroyRoom,
      GP!DestroyRoom, G!UnmapUid, GP!UnmapUid, G!RemoveRoom, GP!RemoveRoom,
      G!StreamEnd, GP!StreamEnd, G!LeaveGame, GP!LeaveGame, G!LeaveIdleRoom,
      GP!LeaveIdleRoom, G!UnmapSelf, GP!UnmapSelf, G!UnregisterSession,
      GP!UnregisterSession, G!LoopSnapshot, GP!LoopSnapshot, G!LoopSeesGaming,
      GP!LoopSeesGaming, G!LoopSeesReady, GP!LoopSeesReady, G!LoopPasses,
      GP!LoopPasses, G!Scan, GP!Scan, G!RoomTick, GP!RoomTick,
      G!RoomTickReturns, GP!RoomTickReturns, G!RoomStartGame,
      GP!RoomStartGame, G!LoopSleeps, GP!LoopSleeps, G!Lobby, GP!Lobby,
      G!Client, GP!Client, G!Handler, GP!Handler, G!RunLoop, GP!RunLoop,
      G!Next, GP!Next, G!GameIds, GP!GameIds

\* The constants of System are as GameServer assumes.
LEMMA GameAssumption == GP!ServerAssumption
  BY LobbyAssumption, SystemAssumption
  DEF LobbyAssumption, SystemAssumption, GP!ServerAssumption, Pairs

\* Room r has been made for a and b, who have their seats or are being added.
Seated(r, a, b) ==
  /\ r \in GP!RoomIds
  /\ r < next_room_id
  /\ a # b
  /\ GP!SeatingOf(room[r], adding[r], a, b)

Sits(u, n, a, b) == \/ n = 1 /\ u = a
                    \/ n = 2 /\ u = b

\* Player u has seat n of room r, and the other is taken.
HasSeat(r, u, n) ==
  /\ adding[r] = << >>
  /\ \E a, b \in Uids : Seated(r, a, b) /\ Sits(u, n, a, b)

MadeType == made \in [Calls -> GP!RoomIds \cup {None}]

\* The room of a request is for the players of its match, and full by the time
\* they are told.
MadeFor(k) ==
  made[k] # None =>
    /\ call[k].pair # None
    /\ \E a, b \in Uids : Opponents(k) = <<a, b>> /\ Seated(made[k], a, b)
    /\ call[k].pc \in {"push1", "push2"} => adding[made[k]] = << >>

Ntf == [conn : Conns, room : GP!RoomIds, position : {1, 2}]

PushesOK ==
  /\ pushes \in Seq(Ntf)
  /\ \A i \in DOMAIN pushes :
       HasSeat(pushes[i].room, UidOf[pushes[i].conn], pushes[i].position)

InvitedOK ==
  /\ invited \in [Uids -> SUBSET (GP!RoomIds \X {1, 2})]
  /\ \A u \in Uids : \A i \in invited[u] : HasSeat(i[1], u, i[2])

Links == MadeType /\ (\A k \in Calls : MadeFor(k)) /\ PushesOK /\ InvitedOK

ServersOK == IInv /\ PairUids /\ GP!IInv /\ GP!Standing

\* The players of a room stay the same two, in the same order.
LEMMA SeatedStays ==
  ASSUME GP!IInv, [GP!Next]_(GP!vars), NEW r, NEW a \in Uids, NEW b \in Uids,
         Seated(r, a, b)
  PROVE  /\ Seated(r, a, b)'
         /\ adding[r] = << >> => adding'[r] = << >>
PROOF
  <1>1. /\ GP!SeatingOf(room'[r], adding'[r], a, b)
        /\ adding[r] = << >> => adding'[r] = << >>
        /\ r < next_room_id'
    BY GameAssumption, GP!SeatingOfStays DEF Seated, GP!IInv
  <1>2. QED
    BY <1>1 DEF Seated

\* A seat, once taken, stays.
LEMMA HasSeatStays ==
  ASSUME GP!IInv, [GP!Next]_(GP!vars), NEW r, NEW u, NEW n, HasSeat(r, u, n)
  PROVE  HasSeat(r, u, n)'
PROOF
  <1>1. PICK a \in Uids, b \in Uids :
          Seated(r, a, b) /\ Sits(u, n, a, b)
    BY DEF HasSeat
  <1>2. Seated(r, a, b)' /\ adding'[r] = << >>
    BY <1>1, SeatedStays DEF HasSeat
  <1>3. QED
    BY <1>1, <1>2 DEF HasSeat

\* A match stays with its players.
LEMMA MatchStays ==
  ASSUME IInv, PairUids, [Next]_vars, NEW k \in Calls, call[k].pair # None
  PROVE  call'[k].pair = call[k].pair /\ Opponents(k)' = Opponents(k)
PROOF
  <1>1. call'[k].pair = call[k].pair
    <2>1. call[k].pc \notin {"unused", "sent"}
      BY DEF IInv, CallsOK
    <2>2. QED
      BY <2>1, PairSet
  <1>2. PICK a \in Calls, b \in Calls : call[k].pair = <<a, b>>
    BY DEF IInv, TypeOK, CallType
  <1>3. call[k].pair[1] = a /\ call[k].pair[2] = b
    BY <1>2
  <1>4. call[a].pc \notin {"unused", "sent"} /\ call[b].pc \notin {"unused", "sent"}
    BY <1>3 DEF IInv, PairsOK
  <1>5. call'[a].conn = call[a].conn /\ call'[b].conn = call[b].conn
    BY <1>4, ConnStays
  <1>6. QED
    BY <1>1, <1>3, <1>5 DEF Opponents, Uid

\* A request begins to notify when CreateRoom returns to it.
LEMMA NotifiesNext ==
  ASSUME IInv, [Next]_vars, NEW k \in Calls,
         call'[k].pc \in {"push1", "push2"},
         call[k].pc \notin {"push1", "push2"}
  PROVE  CreateRoomReturns(k)
PROOF
  <1>1. ASSUME NEW j \in Calls, Start(j) PROVE FALSE
    <2>1. CASE HandleMatchGamePairs(j)
      BY <2>1, CallFields
    <2>2. ASSUME NEW pc \in {"insert", "done"}, Moves(j, pc) PROVE FALSE
      BY <2>2, CallFields DEF CallPc
    <2>3. QED
      BY <1>1, <2>1, <2>2, StartMoves
  <1>2. ASSUME NEW j \in Calls, Continue(j) PROVE CreateRoomReturns(k)
    <2>0. call \in [Calls -> CallType]
      BY DEF IInv, TypeOK
    <2>1. j = k
      BY <1>2, <2>0
      DEF Continue, LoginInserts, CreateRoomReturns, PushFirst, PushSecond, Goto
    <2>2. ~LoginInserts(k) /\ ~PushFirst(k) /\ ~PushSecond(k)
      BY <2>0 DEF LoginInserts, PushFirst, PushSecond, Goto, CallType
    <2>3. QED
      BY <1>2, <2>1, <2>2 DEF Continue
  <1>3. ASSUME NEW j \in Calls, RequestLost(j) PROVE FALSE
    BY <1>3 DEF RequestLost, IInv, TypeOK, CallType
  <1>4. ASSUME NEW j \in Calls, NEW c \in Conns, Dispatch(j, c) PROVE FALSE
    BY <1>4, CallFields
  <1>5. ASSUME Restart PROVE FALSE
    BY <1>5, RestartFields
  <1>6. QED
    BY <1>1, <1>2, <1>3, <1>4, <1>5
    DEF Next, Gateway, Connect, CloseSession, NotifyLost, GatewaySubscribes,
        StreamBreaks, SubscribeSets, SubscribeReturns, ClientDisconnect,
        ClientDisconnectQueue, vars

\* The answer that counts comes after the room has been filled.
LEMMA AnsweredIsFull ==
  ASSUME IInv, [SystemNext]_systemVars, NEW k \in Calls,
         call[k].pc \notin {"push1", "push2"},
         call'[k].pc \in {"push1", "push2"},
         MadeType,
         made'[k] # None
  PROVE  made'[k] = made[k] /\ adding[made[k]] = << >>
PROOF
  <1>0. call[k].pc = "create" /\ call'[k].pc = "push1"
    BY LobbyStep, NotifiesNext DEF CreateRoomReturns, Goto, IInv, TypeOK, CallType
  <1>1. ASSUME NEW j \in Calls, CreateRoomReturns(j) PROVE j = k
    BY <1>0, <1>1 DEF CreateRoomReturns, Goto, IInv, TypeOK, CallType
  <1>2. \E j \in Calls : CreateRoomAnswers(j) \/ CreateRoomFails(j)
    <2>1. call' # call
      BY <1>0
    <2>2. ~LobbyAlone
      <3>1. ASSUME NEW j \in Calls, Start(j) PROVE FALSE
        <4>1. CASE HandleMatchGamePairs(j)
          BY <1>0, <4>1, CallFields
        <4>2. ASSUME NEW pc \in {"insert", "done"}, Moves(j, pc) PROVE FALSE
          BY <1>0, <4>2, CallFields DEF CallPc
        <4>3. QED
          BY <3>1, <4>1, <4>2, StartMoves
      <3>2. ASSUME NEW j \in Calls, LoginInserts(j) PROVE FALSE
        BY <1>0, <3>2 DEF LoginInserts, Goto, IInv, TypeOK, CallType
      <3>3. ASSUME NEW j \in Calls, NEW c \in Conns, Dispatch(j, c) PROVE FALSE
        BY <1>0, <3>3, CallFields
      <3>4. QED
        BY <2>1, <3>1, <3>2, <3>3
        DEF LobbyAlone, Connect, CloseSession, ClientDisconnect,
            ClientDisconnectQueue, GatewaySubscribes, SubscribeSets,
            SubscribeReturns
    <2>3. ~LobbyRestarts
      BY <1>0, RestartFields DEF LobbyRestarts
    <2>4. ASSUME NEW j \in Calls, FirstIsPushed(j) \/ SecondIsPushed(j) PROVE FALSE
      BY <1>0, <2>4
      DEF FirstIsPushed, SecondIsPushed, PushFirst, PushSecond, Goto, IInv,
          TypeOK, CallType
    <2>5. QED
      BY <2>1, <2>2, <2>3, <2>4
      DEF SystemNext, RunLoop, CreateRoomAdds, Handler, Matchmaking, CreateRoom,
          Playing, OpenGameStream, EnterRoom, PlayerReady, GameOver,
          GameStreamCancelled, GameStreamFails, PushStreamBreaks, StreamBreaks,
          Deliver, systemVars, vars
  <1>3. CreateRoomAnswers(k) \/ CreateRoomFails(k)
    BY <1>1, <1>2 DEF CreateRoomAnswers, CreateRoomFails
  <1>4. CASE CreateRoomAnswers(k)
    BY <1>4 DEF CreateRoomAnswers, linkVars, G!Announced
  <1>5. CASE CreateRoomFails(k)
    BY <1>5 DEF CreateRoomFails, MadeType
  <1>6. QED
    BY <1>3, <1>4, <1>5

-----------------------------------------------------------------------------
(* What a step leaves on the way to the players.                            *)

\* Only CreateRoom and its failure touch the rooms of requests.
LEMMA MadeTypeStep ==
  ASSUME MadeType, [SystemNext]_systemVars PROVE MadeType'
PROOF
  <1>1. CASE UNCHANGED made
    BY <1>1 DEF MadeType
  <1>2. ASSUME NEW k \in Calls, CreateRoom(k) PROVE MadeType'
    BY <1>2 DEF CreateRoom, G!CreateRoom, MadeType, G!RoomIds, GP!RoomIds
  <1>3. ASSUME NEW k \in Calls, CreateRoomFails(k) PROVE MadeType'
    BY <1>3 DEF CreateRoomFails, MadeType
  <1>4. QED
    BY <1>1, <1>2, <1>3
    DEF SystemNext, LobbyAlone, RunLoop, CreateRoomAdds, Handler, Matchmaking,
        CreateRoomAnswers, FirstIsPushed, SecondIsPushed, Playing,
        OpenGameStream, EnterRoom, PlayerReady, GameOver, GameStreamCancelled,
        GameStreamFails, PushStreamBreaks, LobbyRestarts, Deliver, systemVars,
        linkVars

\* CreateRoom makes the room of a match for its players.
LEMMA CreatedFor ==
  ASSUME ServersOK, MadeType, NEW k \in Calls, CreateRoom(k)
  PROVE  /\ \A j \in Calls \ {k} : made'[j] = made[j]
         /\ \E r \in GP!RoomIds, a, b \in Uids :
              made'[k] = r /\ Opponents(k) = <<a, b>> /\ Seated(r, a, b)'
         /\ call[k].pc = "create" /\ UNCHANGED call
PROOF
  <1>1. /\ made' = [made EXCEPT ![k] = next_room_id]
        /\ call[k].pc = "create" /\ UNCHANGED call
        /\ next_room_id' = next_room_id + 1
        /\ room' = [room EXCEPT ![next_room_id] = G!NewRoom]
        /\ adding' = [adding EXCEPT ![next_room_id] = Opponents(k)]
    BY DEF CreateRoom, G!CreateRoom, vars
  <1>2. PICK a \in Uids, b \in Uids : Opponents(k) = <<a, b>> /\ a # b
    BY <1>1, OpponentsDiffer DEF ServersOK, Pairs
  <1>3. PICK r \in GP!RoomIds : r = next_room_id
    BY DEF CreateRoom, G!CreateRoom, G!RoomIds, GP!RoomIds
  <1>4. room'[r] = G!NewRoom /\ adding'[r] = <<a, b>>
    BY <1>1, <1>2, <1>3 DEF ServersOK, GP!IInv, GP!TypeOK
  <1>5. GP!SeatingOf(room'[r], adding'[r], a, b)
    BY <1>4 DEF GP!SeatingOf, G!NewRoom
  <1>6. r < next_room_id'
    BY <1>1, <1>3, SystemAssumption DEF GP!RoomIds, SystemAssumption
  <1>7. Seated(r, a, b)'
    BY <1>2, <1>5, <1>6 DEF Seated, GP!RoomIds
  <1>8. QED
    BY <1>1, <1>2, <1>3, <1>7 DEF MadeType

\* A step of the system is a step of each server.
LEMMA BothStep ==
  ASSUME ServersOK, [SystemNext]_systemVars
  PROVE  [Next]_vars /\ [GP!Next]_(GP!vars)
  BY LobbyStep, GameStep, SameNext DEF ServersOK

\* A room stays with the request it was made for; when CreateRoom has failed, the
\* request has none.
LEMMA MadeForStep ==
  ASSUME ServersOK, Links, [SystemNext]_systemVars, NEW k \in Calls
  PROVE  MadeFor(k)'
PROOF
  <1>0. [Next]_vars /\ [GP!Next]_(GP!vars) /\ IInv /\ PairUids /\ GP!IInv
    BY BothStep DEF ServersOK
  <1>1. ASSUME made'[k] = made[k], made[k] # None PROVE MadeFor(k)'
    <2>1. PICK a \in Uids, b \in Uids :
            Opponents(k) = <<a, b>> /\ Seated(made[k], a, b)
      BY <1>1 DEF Links, MadeFor
    <2>2. PICK r \in GP!RoomIds : r = made[k]
      BY <1>1 DEF Links, MadeType
    <2>3. call'[k].pair # None /\ Opponents(k)' = <<a, b>>
      BY <1>0, <1>1, <2>1, MatchStays DEF Links, MadeFor
    <2>4. Seated(r, a, b)' /\ (adding[r] = << >> => adding'[r] = << >>)
      BY <1>0, <2>1, <2>2, SeatedStays
    <2>5. ASSUME call'[k].pc \in {"push1", "push2"} PROVE adding'[r] = << >>
      <3>1. CASE call[k].pc \in {"push1", "push2"}
        BY <1>1, <2>2, <2>4, <3>1 DEF Links, MadeFor
      <3>2. CASE call[k].pc \notin {"push1", "push2"}
        BY <1>0, <1>1, <2>2, <2>4, <2>5, <3>2, AnsweredIsFull DEF Links
      <3>3. QED
        BY <3>1, <3>2
    <2>6. made'[k] = r
      BY <1>1, <2>2
    <2>7. QED
      BY <2>3, <2>4, <2>5, <2>6 DEF MadeFor
  <1>2. ASSUME NEW j \in Calls, CreateRoom(j) PROVE MadeFor(k)'
    <2>1. CASE j = k
      <3>1. PICK r \in GP!RoomIds, a \in Uids, b \in Uids :
              made'[k] = r /\ Opponents(k) = <<a, b>> /\ Seated(r, a, b)'
        BY <1>2, <2>1, CreatedFor DEF Links
      <3>2. call[k].pc = "create" /\ UNCHANGED call
        BY <1>2, <2>1, CreatedFor DEF Links
      <3>3. call'[k].pair # None /\ Opponents(k)' = <<a, b>>
        BY <1>0, <3>1, <3>2, MatchStays DEF IInv, CallsOK
      <3>4. QED
        BY <3>1, <3>2, <3>3 DEF MadeFor
    <2>2. CASE j # k
      BY <1>1, <1>2, <2>2, CreatedFor DEF Links, MadeFor
    <2>3. QED
      BY <2>1, <2>2
  <1>3. ASSUME NEW j \in Calls, CreateRoomFails(j) PROVE MadeFor(k)'
    <2>1. made'[k] \in {made[k], None}
      BY <1>3 DEF CreateRoomFails, Links, MadeType
    <2>2. QED
      BY <1>1, <2>1 DEF MadeFor
  <1>4. CASE UNCHANGED made
    BY <1>1, <1>4 DEF MadeFor
  <1>5. QED
    BY <1>2, <1>3, <1>4
    DEF SystemNext, LobbyAlone, RunLoop, CreateRoomAdds, Handler, Matchmaking,
        CreateRoomAnswers, FirstIsPushed, SecondIsPushed, Playing,
        OpenGameStream, EnterRoom, PlayerReady, GameOver, GameStreamCancelled,
        GameStreamFails, PushStreamBreaks, LobbyRestarts, Deliver, systemVars,
        linkVars

\* A notification names the seat that its player has.
LEMMA NotifiedHasSeat ==
  ASSUME ServersOK, Links, NEW k \in Calls, NEW n \in {1, 2},
         call[k].pc \in {"push1", "push2"}
  PROVE  \/ Notify(k, n) = pushes
         \/ \E ntf \in Ntf : /\ Notify(k, n) = Append(pushes, ntf)
                             /\ HasSeat(ntf.room, UidOf[ntf.conn], ntf.position)
PROOF
  <1> DEFINE ntf == [conn |-> call[call[k].pair[n]].conn, room |-> made[k],
                     position |-> n]
  <1>1. SUFFICES ASSUME Notify(k, n) # pushes
                 PROVE  /\ ntf \in Ntf
                        /\ Notify(k, n) = Append(pushes, ntf)
                        /\ HasSeat(ntf.room, UidOf[ntf.conn], ntf.position)
    BY DEF Notify
  <1>2. made[k] # None /\ Notify(k, n) = Append(pushes, ntf)
    BY <1>1 DEF Notify
  <1>3. PICK a \in Uids, b \in Uids :
          Opponents(k) = <<a, b>> /\ Seated(made[k], a, b)
    BY <1>2 DEF Links, MadeFor
  <1>4. call[k].pair # None /\ adding[made[k]] = << >> /\ made[k] \in GP!RoomIds
    BY <1>2 DEF Links, MadeFor, MadeType
  <1>5. call[call[k].pair[n]].conn \in Conns
    BY <1>4 DEF ServersOK, PairUids
  <1>6. UidOf[ntf.conn] = Opponents(k)[n]
    BY DEF Opponents, Uid
  <1>7. Sits(UidOf[ntf.conn], n, a, b)
    <2>1. <<a, b>>[1] = a /\ <<a, b>>[2] = b
      OBVIOUS
    <2>2. UidOf[ntf.conn] = <<a, b>>[n]
      BY <1>3, <1>6
    <2> HIDE DEF ntf
    <2>3. CASE n = 1
      BY <2>1, <2>2, <2>3 DEF Sits
    <2>4. CASE n = 2
      BY <2>1, <2>2, <2>4 DEF Sits
    <2>5. QED
      BY <2>3, <2>4
  <1>8. HasSeat(made[k], UidOf[ntf.conn], n)
    BY <1>3, <1>4, <1>7 DEF HasSeat
  <1>9. QED
    BY <1>2, <1>4, <1>5, <1>8 DEF Ntf

\* Every notification on its way names a seat of its player.
LEMMA PushesStep ==
  ASSUME ServersOK, Links, [SystemNext]_systemVars
  PROVE  PushesOK'
PROOF
  <1>0. /\ pushes \in Seq(Ntf)
        /\ \A i \in DOMAIN pushes :
             HasSeat(pushes[i].room, UidOf[pushes[i].conn], pushes[i].position)
    BY DEF Links, PushesOK
  <1>1. ASSUME NEW r, NEW u, NEW n, HasSeat(r, u, n) PROVE HasSeat(r, u, n)'
    BY <1>1, BothStep, HasSeatStays DEF ServersOK
  <1>2. ASSUME NEW s \in Seq(Ntf), pushes' = s,
               \A i \in DOMAIN s :
                 HasSeat(s[i].room, UidOf[s[i].conn], s[i].position)
        PROVE  PushesOK'
    <2>1. ASSUME NEW i \in DOMAIN s
          PROVE  HasSeat(s[i].room, UidOf[s[i].conn], s[i].position)'
      BY <1>1, <1>2
    <2>2. QED
      BY <1>2, <2>1 DEF PushesOK, Ntf, GP!RoomIds
  <1>3. CASE UNCHANGED pushes
    BY <1>0, <1>2, <1>3
  <1>4. CASE pushes' = << >>
    <2>1. << >> \in Seq(Ntf) /\ DOMAIN << >> = {}
      OBVIOUS
    <2>2. QED
      BY <1>2, <1>4, <2>1
  <1>5. ASSUME NEW k \in Calls, FirstIsPushed(k) \/ SecondIsPushed(k)
        PROVE  PushesOK'
    <2>1. PICK n \in {1, 2} : pushes' = Notify(k, n)
      BY <1>5 DEF FirstIsPushed, SecondIsPushed
    <2>2. call[k].pc \in {"push1", "push2"}
      BY <1>5 DEF FirstIsPushed, SecondIsPushed, PushFirst, PushSecond
    <2>3. CASE Notify(k, n) = pushes
      BY <1>3, <2>1, <2>3
    <2>4. ASSUME NEW ntf \in Ntf, Notify(k, n) = Append(pushes, ntf),
                 HasSeat(ntf.room, UidOf[ntf.conn], ntf.position)
          PROVE  PushesOK'
      <3>1. /\ Append(pushes, ntf) \in Seq(Ntf)
            /\ \A i \in DOMAIN Append(pushes, ntf) :
                 \/ i \in DOMAIN pushes /\ Append(pushes, ntf)[i] = pushes[i]
                 \/ Append(pushes, ntf)[i] = ntf
        BY <1>0
      <3>2. \A i \in DOMAIN Append(pushes, ntf) :
              HasSeat(Append(pushes, ntf)[i].room,
                      UidOf[Append(pushes, ntf)[i].conn],
                      Append(pushes, ntf)[i].position)
        BY <1>0, <2>4, <3>1
      <3>3. QED
        BY <1>2, <2>1, <2>4, <3>1, <3>2
    <2>5. QED
      BY <2>2, <2>3, <2>4, NotifiedHasSeat
  <1>6. CASE Deliver
    <2>1. pushes # << >> /\ pushes' = Tail(pushes)
      BY <1>6 DEF Deliver
    <2>2. /\ Tail(pushes) \in Seq(Ntf)
          /\ \A i \in DOMAIN Tail(pushes) :
               i + 1 \in DOMAIN pushes /\ Tail(pushes)[i] = pushes[i + 1]
      BY <1>0, <2>1
    <2>3. QED
      BY <1>0, <1>2, <2>1, <2>2
  <1>7. QED
    BY <1>3, <1>4, <1>5, <1>6
    DEF SystemNext, LobbyAlone, RunLoop, CreateRoomAdds, Handler, Matchmaking,
        CreateRoom, CreateRoomAnswers, CreateRoomFails, Playing,
        OpenGameStream, EnterRoom, PlayerReady, GameOver, GameStreamCancelled,
        GameStreamFails, PushStreamBreaks, LobbyRestarts, systemVars, linkVars

\* And so does every one that has arrived.
LEMMA InvitedStep ==
  ASSUME ServersOK, Links, [SystemNext]_systemVars
  PROVE  InvitedOK'
PROOF
  <1>0. /\ invited \in [Uids -> SUBSET (GP!RoomIds \X {1, 2})]
        /\ \A u \in Uids : \A i \in invited[u] : HasSeat(i[1], u, i[2])
    BY DEF Links, InvitedOK
  <1>1. ASSUME NEW r, NEW u, NEW n, HasSeat(r, u, n) PROVE HasSeat(r, u, n)'
    BY <1>1, BothStep, HasSeatStays DEF ServersOK
  <1>2. CASE UNCHANGED invited
    BY <1>0, <1>1, <1>2 DEF InvitedOK, GP!RoomIds
  <1>3. CASE Deliver /\ ~UNCHANGED invited
    <2> DEFINE ntf == Head(pushes)
               w == UidOf[ntf.conn]
    <2>1. /\ pushes # << >>
          /\ invited' = [invited EXCEPT ![w] = @ \cup {<<ntf.room, ntf.position>>}]
      BY <1>3 DEF Deliver
    <2>2. ntf \in Ntf /\ HasSeat(ntf.room, w, ntf.position)
      BY <2>1 DEF Links, PushesOK
    <2>3. w \in Uids
      BY <2>2, LobbyAssumption DEF Ntf, LobbyAssumption
    <2>4. <<ntf.room, ntf.position>> \in GP!RoomIds \X {1, 2}
      BY <2>2 DEF Ntf
    <2>5. invited' \in [Uids -> SUBSET (GP!RoomIds \X {1, 2})]
      BY <1>0, <2>1, <2>3, <2>4
    <2>6. ASSUME NEW u \in Uids, NEW i \in invited'[u] PROVE HasSeat(i[1], u, i[2])
      <3>1. i \in invited[u] \/ (u = w /\ i = <<ntf.room, ntf.position>>)
        BY <1>0, <2>1
      <3>2. QED
        BY <1>0, <2>2, <3>1
    <2>7. QED
      BY <1>1, <2>5, <2>6 DEF InvitedOK, GP!RoomIds
  <1>4. QED
    BY <1>2, <1>3
    DEF SystemNext, LobbyAlone, RunLoop, CreateRoomAdds, Handler, Matchmaking,
        CreateRoom, CreateRoomAnswers, CreateRoomFails, FirstIsPushed,
        SecondIsPushed, Playing, OpenGameStream, EnterRoom, PlayerReady,
        GameOver, GameStreamCancelled, GameStreamFails, PushStreamBreaks,
        LobbyRestarts, systemVars, linkVars

-----------------------------------------------------------------------------
\* Both servers and what connects them keep to all of the above.
LEMMA SystemInductive == SystemSpec => [](ServersOK /\ Links)
PROOF
  <1>1. SystemInit => ServersOK /\ Links
    <2> SUFFICES ASSUME SystemInit PROVE ServersOK /\ Links
      OBVIOUS
    <2>1. IInv /\ PairUids
      BY InitInv, LobbyAssumption DEF SystemInit, Init, PairUids, Unused
    <2>2. GP!IInv /\ GP!Standing
      BY SameInit, GameAssumption, GP!InvInit, GP!StandingInit DEF SystemInit
    <2>3. Links
      BY DEF SystemInit, Links, MadeType, MadeFor, PushesOK, InvitedOK
    <2>4. QED
      BY <2>1, <2>2, <2>3 DEF ServersOK
  <1>2. ServersOK /\ Links /\ [SystemNext]_systemVars => (ServersOK /\ Links)'
    <2> SUFFICES ASSUME ServersOK, Links, [SystemNext]_systemVars
                 PROVE  ServersOK' /\ Links'
      OBVIOUS
    <2>1. [Next]_vars /\ [GP!Next]_(GP!vars)
      BY BothStep
    <2>2. IInv' /\ PairUids'
      BY <2>1, InvStep, PairUidsStep, LobbyAssumption DEF ServersOK
    <2>3. GP!IInv' /\ GP!Standing'
      BY <2>1, GameAssumption, GP!InvStep, GP!StandingStep DEF ServersOK
    <2>4. MadeType' /\ (\A k \in Calls : MadeFor(k)')
      BY MadeTypeStep, MadeForStep DEF Links
    <2>5. PushesOK' /\ InvitedOK'
      BY PushesStep, InvitedStep
    <2>6. QED
      BY <2>2, <2>3, <2>4, <2>5 DEF ServersOK, Links
  <1>3. QED
    BY <1>1, <1>2, PTL DEF SystemSpec

\* A player who has been told of a room has the seat that was named, opposite
\* another player, for any number of players, sessions, requests and rooms.
THEOREM InvitationsHold == SystemSpec => []InvitationHolds
PROOF
  <1>1. ServersOK /\ Links => InvitationHolds
    <2> SUFFICES ASSUME Links, NEW u \in Uids, NEW i \in invited[u]
                 PROVE  /\ Len(room[i[1]].player_uids) = 2
                        /\ room[i[1]].player_uids[i[2]] = u
                        /\ room[i[1]].game_id[u] = i[2]
      BY DEF InvitationHolds
    <2>1. HasSeat(i[1], u, i[2])
      BY DEF Links, InvitedOK
    <2>2. PICK a \in Uids, b \in Uids :
            /\ a # b
            /\ GP!SeatingOf(room[i[1]], << >>, a, b)
            /\ Sits(u, i[2], a, b)
      BY <2>1 DEF HasSeat, Seated
    <2>3. << >> # <<b>> /\ << >> # <<a, b>>
      OBVIOUS
    <2>4. /\ room[i[1]].player_uids = <<a, b>>
          /\ room[i[1]].game_id = GP!BothSides(a, b)
      BY <2>2, <2>3 DEF GP!SeatingOf
    <2>5. CASE i[2] = 1 /\ u = a
      BY <2>4, <2>5 DEF GP!BothSides
    <2>6. CASE i[2] = 2 /\ u = b
      BY <2>2, <2>4, <2>6 DEF GP!BothSides
    <2>7. QED
      BY <2>2, <2>5, <2>6 DEF Sits
  <1>2. QED
    BY <1>1, SystemInductive, PTL

\* And that room is in the map unless a game in it has been decided or, started
\* after its room was destroyed, runs.
THEOREM InvitedRoomsExist == SystemSpec => []InvitedRoomExists
PROOF
  <1>1. ServersOK /\ Links => InvitedRoomExists
    BY DEF ServersOK, Links, InvitedOK, HasSeat, Seated, GP!Standing, GP!Over,
           InvitedRoomExists
  <1>2. QED
    BY <1>1, SystemInductive, PTL

\* The players whom the lobby has brought together see the games of Battle, for
\* any number of them.
THEOREM MatchesPlayBattles == SystemSpec => GP!ImplementsBattle
PROOF
  <1>1. GP!Spec => GP!ImplementsBattle
    BY GameAssumption, GP!RefinesBattle
  <1>2. G!Spec => GP!Spec
    BY SameInit, SameNext, PTL DEF G!Spec, GP!Spec
  <1>3. QED
    BY <1>1, <1>2, GameServerAsSpecified, PTL DEF GameServerAsAssumed

-----------------------------------------------------------------------------
(* The notifications of a match reach its players.                          *)

\* The notification is in the push stream, or the player has it.
OnItsWay(c, r, n) ==
  \/ <<r, n>> \in invited[UidOf[c]]
  \/ \E i \in DOMAIN pushes : pushes[i] = [conn |-> c, room |-> r, position |-> n]

\* While no stream has broken, what is on its way is in one that is served.
StreamHeld == pushes # << >> /\ broken = {} => \E s \in Subs : sub[s] = "serving"

\* What has been sent to an open session is not lost on its way.
SentOK ==
  \A k, p \in Calls : \A n \in {1, 2} :
    /\ Part(k, n, p)
    /\ made[k] # None
    /\ told[p] = "sent"
    /\ broken = {}
    /\ conn[call[p].conn] = "open"
    => OnItsWay(call[p].conn, made[k], n)

NotifyOK == StreamHeld /\ SentOK

\* What is proved of the lobby alone.
LobbyOK == WriterAlive /\ TellsOK /\ BegunOK

Notifies(k, n) == \/ n = 1 /\ FirstIsPushed(k)
                  \/ n = 2 /\ SecondIsPushed(k)

\* What happens to notifications.
LEMMA NotifySteps ==
  ASSUME [SystemNext]_systemVars
  PROVE  \/ UNCHANGED <<pushes, invited>>
         \/ \E k \in Calls, n \in {1, 2} : Notifies(k, n)
         \/ Deliver
         \/ \E s \in Subs : PushStreamBreaks(s)
         \/ LobbyRestarts
  BY DEF SystemNext, LobbyAlone, RunLoop, CreateRoomAdds, Handler, Matchmaking,
         CreateRoom, CreateRoomAnswers, CreateRoomFails, Notifies, Playing,
         OpenGameStream, EnterRoom, PlayerReady, GameOver, GameStreamCancelled,
         GameStreamFails, systemVars, linkVars

\* Nobody is told but by a notification.
LEMMA TellingSteps ==
  ASSUME [SystemNext]_systemVars
  PROVE  \/ UNCHANGED told
         \/ \E k \in Calls, n \in {1, 2} : Notifies(k, n)
         \/ Restart
PROOF
  <1>1. ASSUME LobbyAlone PROVE UNCHANGED told
    BY <1>1
    DEF LobbyAlone, Connect, Dispatch, CloseSession, Start, LoginInserts,
        GatewaySubscribes, SubscribeSets, SubscribeReturns, ClientDisconnect,
        ClientDisconnectQueue, HandleLogin, HandleLoginRefuses, HandleLogout,
        CreatePlayer, CreatePlayerUpdatesOther, CreatePlayerFails,
        HandleMatchGameWaits, HandleMatchGamePairs, HandleMatchStop,
        HandleGetPlayerData, HandleGetOnlineCount, observer
  <1>2. QED
    BY <1>1
    DEF SystemNext, RunLoop, CreateRoomAdds, Handler, Matchmaking, Notifies,
        CreateRoom, CreateRoomAnswers, CreateRoomFails, CreateRoomReturns,
        Playing, OpenGameStream, EnterRoom, PlayerReady, GameOver,
        GameStreamCancelled, GameStreamFails, PushStreamBreaks, StreamBreaks,
        LobbyRestarts, Deliver, systemVars, vars, observer

\* A stream that is served is served until it breaks, and a broken stream is
\* never whole again.
LEMMA ServingStays ==
  ASSUME TypeOK, [Next]_vars
  PROVE  /\ broken' = {} => broken = {}
         /\ broken' = {} => \A s \in Subs : sub[s] = "serving" => sub'[s] = "serving"
PROOF
  <1> USE DEF TypeOK
  <1>1. CASE UNCHANGED <<sub, broken>>
    BY <1>1
  <1>2. ASSUME NEW s \in Subs, SubscribeSets(s) \/ GatewaySubscribes(s)
        PROVE  /\ broken' = broken
               /\ \A t \in Subs : sub[t] = "serving" => sub'[t] = "serving"
    BY <1>2 DEF SubscribeSets, GatewaySubscribes
  <1>3. ASSUME NEW s \in Subs, SubscribeReturns(s) PROVE broken' # {} /\ broken' = broken
    BY <1>3 DEF SubscribeReturns
  <1>4. ASSUME NEW s \in Subs, StreamBreaks(s) PROVE broken' # {}
    BY <1>4 DEF StreamBreaks
  <1>5. CASE Restart
    BY <1>5 DEF Restart, InLobby
  <1>6. QED
    BY <1>1, <1>2, <1>3, <1>4, <1>5, OnlySubscribe

\* The request that a step notifies.
LEMMA NotifiedPart ==
  ASSUME IInv, TellsOK, NEW k \in Calls, NEW n \in {1, 2}, Notifies(k, n)
  PROVE  \E p \in Calls :
           /\ Part(k, n, p) /\ told[p] = "no"
           /\ \A q \in Calls \ {p} : told'[q] = told[q]
           /\ UNCHANGED <<made, sub, broken>>
           /\ told'[p] = "sent" => push_writer \in Subs
           /\ pushes' = IF told'[p] = "sent" /\ made[k] # None
                        THEN Append(pushes, [conn |-> call[p].conn, room |-> made[k],
                                             position |-> n])
                        ELSE pushes
PROOF
  <1>1. (n = 1 /\ PushFirst(k)) \/ (n = 2 /\ PushSecond(k))
    BY DEF Notifies, FirstIsPushed, SecondIsPushed
  <1>2. PICK p \in Calls :
          /\ Part(k, n, p) /\ told[p] = "no" /\ told'[p] \in {"sent", "dropped"}
          /\ \A q \in Calls \ {p} : told'[q] = told[q]
    BY <1>1, PushTells
  <1>3. call[k].pair[n] = p
    BY <1>2 DEF Part
  <1>4. pushes' = Notify(k, n) /\ UNCHANGED made
    BY DEF Notifies, FirstIsPushed, SecondIsPushed
  <1>5. PushToGateway(p) /\ UNCHANGED <<sub, broken>>
    BY <1>1, <1>3 DEF PushFirst, PushSecond, gateway
  <1>6. told'[p] = "sent" => push_writer # None
    BY <1>5 DEF PushToGateway, IInv, TypeOK
  <1>7. QED
    BY <1>2, <1>3, <1>4, <1>5, <1>6 DEF Notify, IInv, TypeOK

\* Nothing is on its way in a stream that nobody serves.
LEMMA StreamHeldStep ==
  ASSUME ServersOK, LobbyOK, StreamHeld, [SystemNext]_systemVars
  PROVE  StreamHeld'
PROOF
  <1>0. TypeOK /\ IInv /\ [Next]_vars
    BY BothStep DEF ServersOK, IInv
  <1> SUFFICES ASSUME pushes' # << >>, broken' = {}
               PROVE  \E s \in Subs : sub'[s] = "serving"
    BY DEF StreamHeld
  <1>1. CASE pushes # << >>
    BY <1>0, <1>1, ServingStays DEF StreamHeld
  <1>2. CASE pushes = << >>
    <2>1. ~Deliver /\ ~UNCHANGED <<pushes, invited>> /\ ~LobbyRestarts
      BY <1>2 DEF Deliver, LobbyRestarts
    <2>2. \A s \in Subs : ~PushStreamBreaks(s)
      BY DEF PushStreamBreaks
    <2>3. PICK k \in Calls, n \in {1, 2} : Notifies(k, n)
      BY <2>1, <2>2, NotifySteps
    <2>4. PICK p \in Calls :
            /\ UNCHANGED sub
            /\ told'[p] = "sent" => push_writer \in Subs
            /\ told'[p] # "sent" => pushes' = pushes
      BY <1>0, <2>3, NotifiedPart DEF LobbyOK
    <2>5. push_writer \in Subs
      BY <1>2, <2>4
    <2>6. push_writer # None
      BY <2>5, LobbyAssumption DEF LobbyAssumption
    <2>7. QED
      BY <2>4, <2>5, <2>6 DEF LobbyOK, WriterAlive
  <1>3. QED
    BY <1>1, <1>2

\* A notification to an open session stays on its way until it arrives, unless a
\* stream breaks.
LEMMA OnItsWayStays ==
  ASSUME ServersOK, Links, LobbyOK, StreamHeld, [SystemNext]_systemVars,
         NEW c \in Conns, NEW r, NEW n, OnItsWay(c, r, n),
         conn[c] = "open", broken' = {}
  PROVE  OnItsWay(c, r, n)'
PROOF
  <1>0. /\ TypeOK /\ IInv /\ [Next]_vars
        /\ UidOf[c] \in Uids
        /\ pushes \in Seq(Ntf) /\ invited \in [Uids -> SUBSET (GP!RoomIds \X {1, 2})]
    BY BothStep, LobbyAssumption
    DEF ServersOK, IInv, Links, PushesOK, InvitedOK, LobbyAssumption
  <1>1. CASE UNCHANGED <<pushes, invited>>
    BY <1>1 DEF OnItsWay
  <1>2. ASSUME NEW k \in Calls, NEW m \in {1, 2}, Notifies(k, m)
        PROVE  OnItsWay(c, r, n)'
    <2>1. UNCHANGED invited
      BY <1>2 DEF Notifies, FirstIsPushed, SecondIsPushed
    <2>2. pushes' = pushes \/ \E e : pushes' = Append(pushes, e)
      BY <1>0, <1>2, NotifiedPart DEF LobbyOK
    <2>3. \A i \in DOMAIN pushes : i \in DOMAIN pushes' /\ pushes'[i] = pushes[i]
      BY <1>0, <2>2
    <2>4. QED
      BY <2>1, <2>3 DEF OnItsWay
  <1>3. CASE Deliver
    <2> DEFINE ntf == Head(pushes)
               w == UidOf[ntf.conn]
    <2>1. /\ pushes # << >> /\ pushes' = Tail(pushes)
          /\ invited' = IF conn[ntf.conn] = "open"
                        THEN [invited EXCEPT ![w] = @ \cup {<<ntf.room, ntf.position>>}]
                        ELSE invited
      BY <1>3 DEF Deliver
    <2>2. CASE <<r, n>> \in invited[UidOf[c]]
      <3> HIDE DEF ntf, w
      <3>1. invited[UidOf[c]] \subseteq invited'[UidOf[c]]
        BY <1>0, <2>1
      <3>2. QED
        BY <2>2, <3>1 DEF OnItsWay
    <2>3. ASSUME NEW i \in DOMAIN pushes,
                 pushes[i] = [conn |-> c, room |-> r, position |-> n]
          PROVE  OnItsWay(c, r, n)'
      <3>1. CASE i = 1
        <4>1. ntf = [conn |-> c, room |-> r, position |-> n]
          BY <1>0, <2>1, <2>3, <3>1
        <4>2. ntf.conn = c /\ ntf.room = r /\ ntf.position = n
          BY <4>1
        <4> HIDE DEF ntf
        <4>3. invited' = [invited EXCEPT ![UidOf[c]] = @ \cup {<<r, n>>}]
          BY <2>1, <4>2
        <4>4. QED
          BY <1>0, <4>3 DEF OnItsWay
      <3>2. CASE i # 1
        <4>1. i - 1 \in DOMAIN pushes' /\ pushes'[i - 1] = pushes[i]
          BY <1>0, <2>1, <2>3, <3>2
        <4>2. QED
          BY <2>3, <4>1 DEF OnItsWay
      <3>3. QED
        BY <3>1, <3>2
    <2>4. QED
      BY <2>2, <2>3 DEF OnItsWay
  <1>4. ASSUME NEW s \in Subs, PushStreamBreaks(s) PROVE FALSE
    BY <1>4 DEF PushStreamBreaks, StreamBreaks
  <1>5. CASE LobbyRestarts
    <2>1. \A s \in Subs : sub[s] # "serving"
      BY <1>5 DEF LobbyRestarts, Restart, InLobby
    <2>2. pushes = << >>
      BY <1>0, <2>1, ServingStays DEF StreamHeld
    <2>3. QED
      BY <1>5, <2>2 DEF LobbyRestarts, OnItsWay
  <1>6. QED
    BY <1>1, <1>2, <1>3, <1>4, <1>5, NotifySteps

\* The room of a request changes only while it waits for CreateRoom.
LEMMA MadeStays ==
  ASSUME MadeType, [SystemNext]_systemVars, NEW k \in Calls, call[k].pc # "create"
  PROVE  made'[k] = made[k]
PROOF
  <1>1. ASSUME NEW j \in Calls, CreateRoom(j) \/ CreateRoomFails(j)
        PROVE  made'[k] = made[k]
    BY <1>1 DEF CreateRoom, CreateRoomFails, CreateRoomReturns, MadeType
  <1>2. QED
    BY <1>1
    DEF SystemNext, LobbyAlone, RunLoop, CreateRoomAdds, Handler, Matchmaking,
        CreateRoomAnswers, FirstIsPushed, SecondIsPushed, Playing,
        OpenGameStream, EnterRoom, PlayerReady, GameOver, GameStreamCancelled,
        GameStreamFails, PushStreamBreaks, LobbyRestarts, Deliver, systemVars,
        linkVars

\* What has been sent stays on its way, and what is sent now joins it.
LEMMA SentStep ==
  ASSUME ServersOK, Links, LobbyOK, LobbyOK', NotifyOK, [SystemNext]_systemVars
  PROVE  SentOK'
PROOF
  <1>0. TypeOK /\ IInv /\ PairUids /\ PairsOK /\ [Next]_vars /\ OneMatch'
    BY BothStep DEF ServersOK, IInv, LobbyOK, TellsOK
  <1> SUFFICES ASSUME NEW k \in Calls, NEW p \in Calls, NEW n \in {1, 2},
                      Part(k, n, p)', made'[k] # None, told'[p] = "sent",
                      broken' = {}, conn'[call'[p].conn] = "open"
               PROVE  OnItsWay(call[p].conn, made[k], n)'
    BY DEF SentOK, OnItsWay
  \* The match is an old one: a new one has not told anybody.
  <1>1. PICK j \in Calls, m \in {1, 2} :
          Part(j, m, p) /\ (told[p] = "sent" \/ (told[p] = "no" /\ Notifies(j, m)))
    <2>1. CASE told[p] = "sent"
      BY <2>1, PartMatched DEF LobbyOK, TellsOK, ToldInTurn
    <2>2. CASE told[p] # "sent"
      <3>1. ~Restart /\ ~UNCHANGED told
        BY <1>0, <2>2 DEF Restart, TypeOK
      <3>2. PICK j \in Calls, m \in {1, 2} : Notifies(j, m)
        BY <3>1, TellingSteps
      <3>3. QED
        BY <1>0, <2>2, <3>2, NotifiedPart DEF LobbyOK
    <2>3. QED
      BY <2>1, <2>2
  <1>2. call[j].pair # None /\ call'[j].pair = call[j].pair
    BY <1>0, <1>1, MatchStays DEF Part
  <1>3. j = k /\ m = n
    BY <1>0, <1>1, <1>2 DEF OneMatch, Part
  <1>4. call[p].pc \notin {"unused", "sent"}
    BY <1>0, <1>1 DEF Part, PairsOK
  <1>5. call'[p].conn = call[p].conn
    BY <1>0, <1>4, ConnStays
  <1>6. PICK c \in Conns : c = call[p].conn
    BY <1>0, <1>4 DEF IInv, CallsOK, TypeOK, CallType
  <1>7. conn[c] = "open"
    BY <1>0, <1>4, <1>5, <1>6, OpensOnce DEF LobbyOK, BegunOK
  <1>8. broken = {}
    BY <1>0, ServingStays
  <1>9. CASE told[p] = "sent"
    <2>1. call[k].pc # "create"
      BY <1>1, <1>3, <1>9 DEF LobbyOK, TellsOK, ToldInTurn, Before
    <2>2. PICK r : r = made[k] /\ r = made'[k]
      BY <2>1, MadeStays DEF Links
    <2>3. OnItsWay(c, r, n)
      BY <1>1, <1>3, <1>6, <1>7, <1>8, <1>9, <2>2 DEF NotifyOK, SentOK
    <2>4. OnItsWay(c, r, n)'
      BY <1>7, <2>3, OnItsWayStays DEF NotifyOK
    <2>5. QED
      BY <1>5, <1>6, <2>2, <2>4 DEF OnItsWay
  <1>10. CASE told[p] = "no" /\ Notifies(k, n)
    <2> DEFINE ntf == [conn |-> c, room |-> made[k], position |-> n]
    <2>1. PICK q \in Calls :
            /\ Part(k, n, q) /\ UNCHANGED made
            /\ pushes' = IF told'[q] = "sent" /\ made[k] # None
                         THEN Append(pushes, [conn |-> call[q].conn,
                                              room |-> made[k], position |-> n])
                         ELSE pushes
      BY <1>0, <1>10, NotifiedPart DEF LobbyOK
    <2>2. q = p
      BY <1>1, <1>3, <2>1 DEF Part
    <2>3. pushes' = Append(pushes, ntf)
      BY <1>6, <2>1, <2>2
    <2>4. \E i \in DOMAIN pushes' : pushes'[i] = ntf
      <3> HIDE DEF ntf
      <3>1. pushes \in Seq(Ntf)
        BY DEF Links, PushesOK
      <3>2. Len(pushes) + 1 \in DOMAIN pushes' /\ pushes'[Len(pushes) + 1] = ntf
        BY <2>3, <3>1
      <3>3. QED
        BY <3>2
    <2>5. QED
      BY <1>5, <1>6, <2>1, <2>4 DEF OnItsWay
  <1>11. QED
    BY <1>1, <1>3, <1>9, <1>10

\* NotifyOK holds in every state the system reaches.
LEMMA NotifyInductive == SystemSpec => []NotifyOK
PROOF
  <1>1. SystemInit => NotifyOK
    BY DEF SystemInit, Init, NotifyOK, StreamHeld, SentOK
  <1>2. /\ ServersOK /\ Links /\ LobbyOK /\ LobbyOK' /\ NotifyOK
        /\ [SystemNext]_systemVars
        => NotifyOK'
    BY StreamHeldStep, SentStep DEF NotifyOK
  <1>3. SystemSpec => []LobbyOK
    BY LobbyAsSpecified, WriterHolds, TellsInductive, BegunInductive, PTL
    DEF LobbyOK
  <1>4. QED
    BY <1>1, <1>2, <1>3, SystemInductive, PTL DEF SystemSpec

\* For any number of players, sessions, requests, rooms, subscriptions and
\* restarts: when a match has been seen to and nothing is on its way, each of its
\* players whose session is open has been told of the room, unless the game server
\* did not answer, a push stream broke or was down, or the lobby was restarted.
THEOREM MatchedInvited == SystemSpec => []MatchedAreInvited
PROOF
  <1>1. IInv /\ PairUids /\ TellsOK /\ NotifyOK => MatchedAreInvited
    <2> SUFFICES ASSUME IInv, TellsOK, NotifyOK,
                        NEW k \in Calls, call[k].pc = "done", call[k].pair # None,
                        made[k] # None, pushes = << >>, broken = {},
                        \A p \in Calls : told[p] \notin {"dropped", "forgotten"},
                        NEW n \in {1, 2}, conn[call[call[k].pair[n]].conn] = "open"
                 PROVE  <<made[k], n>> \in invited[UidOf[call[call[k].pair[n]].conn]]
      BY DEF MatchedAreInvited
    <2>1. PICK p \in Calls : p = call[k].pair[n] /\ Part(k, n, p)
      <3>1. call[k].pair \in Calls \X Calls
        BY DEF IInv, TypeOK, CallType
      <3>2. call[k].pair[1] \in Calls /\ call[k].pair[2] \in Calls
        BY <3>1
      <3>3. call[k].pair[n] \in Calls
        BY <3>2
      <3>4. QED
        BY <3>3 DEF Part
    <2>2. told[p] # "no"
      BY <2>1 DEF TellsOK, ToldInTurn, Before
    <2>3. told[p] = "sent"
      BY <2>2 DEF IInv, TypeOK
    <2>4. OnItsWay(call[p].conn, made[k], n)
      BY <2>1, <2>3 DEF NotifyOK, SentOK
    <2>5. DOMAIN pushes = {}
      OBVIOUS
    <2>6. <<made[k], n>> \in invited[UidOf[call[p].conn]]
      BY <2>4, <2>5, Zenon DEF OnItsWay
    <2>7. QED
      BY <2>1, <2>6
  <1>2. SystemSpec => []TellsOK
    BY LobbyAsSpecified, TellsInductive, PTL
  <1>3. QED
    BY <1>1, <1>2, SystemInductive, NotifyInductive, PTL DEF ServersOK
=============================================================================
