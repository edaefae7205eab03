------------------------------- MODULE System -------------------------------
(***************************************************************************)
(* From a match to the game: lobby_server, game_server and the gateway's   *)
(* push loop together.  The lobby asks the game server for a room, tells   *)
(* the two players through the push stream, and the players enter the room *)
(* over the game streams of their sessions.                                *)
(*                                                                         *)
(* The two servers share no state.  A step is a step of one of them, of    *)
(* the network between them, or the call and the answer of CreateRoom, in  *)
(* which both take part.  A session has at most one game stream in its     *)
(* life, so the streams of GameServer are the sessions of Lobby.           *)
(***************************************************************************)
EXTENDS Lobby

CONSTANTS MaxRooms, MaxFrame, Winners,
          Leavers    \* bound: the sessions that close or lose their game stream

\* What GameServer asks of the same constants; its streams are the sessions.
ASSUME SystemAssumption ==
  /\ MaxRooms \in Nat
  /\ MaxFrame \in Nat
  /\ Winners \subseteq Uids
  /\ Leavers \subseteq Conns
  /\ None \notin Nat

VARIABLES
  rooms, room, uid_to_room, sessions, next_room_id, adding, h, loop,
  verdicts, expects,                                    \* game_server
  made,     \* the room that the CreateRoom of a request has made, None if it
            \* has not made one or has been answered with an error
  pushes,   \* the notifications on their way to the gateway, oldest first
  invited,  \* the rooms a player has been told of, each with the position
  orphan    \* sessions whose game stream nobody will close any more

gameVars   == <<rooms, room, uid_to_room, sessions, next_room_id, adding, h,
                loop, verdicts, expects>>
linkVars   == <<made, pushes, invited, orphan>>
systemVars == <<vars, gameVars, linkVars>>

\* What CreateRoom asks of its caller: two different players.
Pairs == {m \in Uids \X Uids : m[1] # m[2]}

\* The inputs of a battle are the game server's own affair.
G == INSTANCE GameServer WITH
       Streams <- Conns, Matches <- Pairs, InputFrames <- {}

SystemInit ==
  /\ Init
  /\ G!Init
  /\ made = [k \in Calls |-> None]
  /\ pushes = << >>
  /\ invited = [u \in Uids |-> {}]
  /\ orphan = {}

Opponents(k) == <<Uid(call[k].pair[1]), Uid(call[k].pair[2])>>

-----------------------------------------------------------------------------
(* CreateRoom, from the lobby to the game server and back.                  *)

CreateRoom(k) ==
  /\ call[k].pc = "create"
  /\ made[k] = None
  /\ G!CreateRoom(Opponents(k))
  /\ made' = [made EXCEPT ![k] = next_room_id]
  /\ UNCHANGED <<vars, pushes, invited, orphan>>

\* Defect: the answer is sent before the players are in the room.
CreateRoomAnswers_Early(k) ==
  /\ made[k] # None
  /\ CreateRoomReturns(k)
  /\ UNCHANGED <<gameVars, linkVars>>

CreateRoomAnswers(k) ==
  /\ made[k] # None
  /\ G!Announced(made[k])
  /\ CreateRoomReturns(k)
  /\ UNCHANGED <<gameVars, linkVars>>

\* The game server is out of reach, or its answer is lost with the connection:
\* the room, if there is one, stays behind.
CreateRoomFails(k) ==
  /\ CreateRoomReturns(k)
  /\ made' = [made EXCEPT ![k] = None]
  /\ UNCHANGED <<gameVars, pushes, invited, orphan>>

-----------------------------------------------------------------------------
(* The push stream: what PushToGateway writes and the gateway receives.     *)

\* Defect: both notifications go to the session of the first player.
Notify_First(k, position) ==
  IF told'[call[k].pair[position]] = "sent" /\ made[k] # None
  THEN Append(pushes, [conn |-> call[call[k].pair[1]].conn, room |-> made[k],
                       position |-> position])
  ELSE pushes

\* The notification of an error invites nobody.
Notify(k, position) ==
  LET p == call[k].pair[position]
  IN IF told'[p] = "sent" /\ made[k] # None
     THEN Append(pushes, [conn |-> call[p].conn, room |-> made[k],
                          position |-> position])
     ELSE pushes

FirstIsPushed(k) ==
  /\ PushFirst(k)
  /\ pushes' = Notify(k, 1)
  /\ UNCHANGED <<gameVars, made, invited, orphan>>

SecondIsPushed(k) ==
  /\ PushSecond(k)
  /\ pushes' = Notify(k, 2)
  /\ UNCHANGED <<gameVars, made, invited, orphan>>

\* The push loop looks the session up and sends over its WebSocket.
Deliver ==
  /\ pushes # << >>
  /\ LET ntf == Head(pushes)
         u   == UidOf[ntf.conn]
     IN invited' = IF conn[ntf.conn] = "open"
                   THEN [invited EXCEPT ![u] = @ \cup {<<ntf.room, ntf.position>>}]
                   ELSE invited
  /\ pushes' = Tail(pushes)
  /\ UNCHANGED <<vars, gameVars, made, orphan>>

\* What is on its way is lost with the stream, and with the lobby.
PushStreamBreaks(s) ==
  /\ StreamBreaks(s)
  /\ pushes' = << >>
  /\ UNCHANGED <<gameVars, made, invited, orphan>>

LobbyRestarts ==
  /\ Restart
  /\ pushes' = << >>
  /\ UNCHANGED <<gameVars, made, invited, orphan>>

-----------------------------------------------------------------------------
(* The game stream of a session.                                            *)

\* The first packet for the game server: a client has something to say to it
\* once its player has been told of a room.  Close may have run between the check
\* of Connected and the opening of the stream: then nothing cancels it.
OpenGameStream(c) ==
  /\ conn[c] # "new"
  /\ invited[UidOf[c]] # {}
  /\ G!RegisterSession(c)
  /\ \/ orphan' = orphan
     \/ conn[c] # "open" /\ orphan' = orphan \cup {c}
  /\ UNCHANGED <<vars, made, pushes, invited>>

Knows(c, r) == \E i \in invited[UidOf[c]] : i[1] = r

\* A client asks for the rooms it has been told of.
EnterRoom(c, r) ==
  /\ Knows(c, r)
  /\ G!EnterRoom(c, r)
  /\ UNCHANGED <<vars, linkVars>>

PlayerReady(c, r) ==
  /\ Knows(c, r)
  /\ G!PlayerReady(c, r)
  /\ UNCHANGED <<vars, linkVars>>

\* A client reports the end of a game that it has seen start.
GameOver(c, winner) ==
  /\ \E r \in G!RoomIds : expects[c][r] # None
  /\ G!GameOver(c, winner)
  /\ UNCHANGED <<vars, linkVars>>

\* GameCancel, called by Close.
GameStreamCancelled(c) ==
  /\ conn[c] \notin {"new", "open"}
  /\ c \notin orphan
  /\ G!StreamEnd(c)
  /\ UNCHANGED <<vars, linkVars>>

\* The network fails under an open session, which keeps the dead stream.
GameStreamFails(c) ==
  /\ c \in Leavers
  /\ G!StreamEnd(c)
  /\ UNCHANGED <<vars, linkVars>>

-----------------------------------------------------------------------------
\* A request or a disconnect that is lost on its way to the lobby is one that
\* the lobby never gets to.
LobbyAlone ==
  /\ \/ \E c \in Conns : \/ Connect(c)
                         \/ \E k \in Calls : Dispatch(k, c)
                         \/ c \in Leavers /\ CloseSession(c)
                         \/ ClientDisconnect(c)
                         \/ ClientDisconnectQueue(c)
     \/ \E k \in Calls : Start(k) \/ LoginInserts(k)
     \/ \E s \in Subs : \/ GatewaySubscribes(s)
                        \/ SubscribeSets(s)
                        \/ SubscribeReturns(s)
  /\ UNCHANGED <<gameVars, linkVars>>

CreateRoomAdds(r) == G!CreateRoomAdds(r) /\ UNCHANGED <<vars, linkVars>>

Handler(c) == G!Handler(c) /\ UNCHANGED <<vars, linkVars>>

RunLoop == G!RunLoop /\ UNCHANGED <<vars, linkVars>>

Matchmaking(k) ==
  CreateRoom(k) \/ CreateRoomAnswers(k) \/ CreateRoomFails(k)
  \/ FirstIsPushed(k) \/ SecondIsPushed(k)

Playing(c) ==
  \/ OpenGameStream(c)
  \/ \E r \in G!RoomIds : EnterRoom(c, r) \/ PlayerReady(c, r)
  \/ \E w \in Winners : GameOver(c, w)
  \/ GameStreamCancelled(c)
  \/ GameStreamFails(c)

SystemNext ==
  \/ LobbyAlone
  \/ RunLoop
  \/ \E r \in G!RoomIds : CreateRoomAdds(r)
  \/ \E c \in Conns : Handler(c)
  \/ \E k \in Calls : Matchmaking(k)
  \/ \E c \in Conns : Playing(c)
  \/ \E s \in Subs : PushStreamBreaks(s)
  \/ LobbyRestarts
  \/ Deliver

SystemSpec == SystemInit /\ [][SystemNext]_systemVars

\* The threads of StreamBattle are scheduled, and only finitely many packets of
\* a cancelled stream are left to be read: Read returns false in the end.  No
\* client, and nobody else in the system, has to do anything.
FairSystemSpec ==
  /\ SystemSpec
  /\ \A c \in Conns : WF_systemVars(Handler(c)) /\ SF_systemVars(GameStreamCancelled(c))
-----------------------------------------------------------------------------
(* Properties.                                                             *)

\* A player who has been told of a room has the seat that the notification
\* names, opposite another player, although the lobby's list of players, the
\* rooms' and the notifications pass through three processes.
InvitationHolds ==
  \A u \in Uids : \A i \in invited[u] :
    LET uids == room[i[1]].player_uids
    IN Len(uids) = 2 /\ uids[i[2]] = u /\ room[i[1]].game_id[u] = i[2]

\* And the room is there until a game in it has been decided: requests that are
\* cancelled or lost, sessions that close and restarts of the lobby never take
\* it away.
InvitedRoomExists ==
  \A u \in Uids : \A i \in invited[u] :
    \/ i[1] \in rooms
    \/ verdicts[i[1]] # {}
    \/ room[i[1]].state = "GAMING"      \* started after it was destroyed

\* The lobby keeps its side of CreateRoom: the game server sees only pairs of
\* two different players, whatever else the system does to it.
GameServerAsAssumed == G!Spec

\* When a match has been seen to and nothing is on its way, each of its players
\* whose session is still open has been told of the room, unless the game server
\* did not answer, the push stream was down or broke, or the lobby was restarted.
MatchedAreInvited ==
  \A k \in Calls :
    /\ call[k].pc = "done"
    /\ call[k].pair # None
    /\ made[k] # None
    /\ pushes = << >>
    /\ broken = {}
    /\ \A p \in Calls : told[p] \notin {"dropped", "forgotten"}
    => \A n \in {1, 2} :
         LET c == call[call[k].pair[n]].conn
         IN conn[c] = "open" => <<made[k], n>> \in invited[UidOf[c]]

\* A player whose session is closed loses the game that is running: with no
\* other stream of the player, the room leaves the map.
LeaverForfeits ==
  \A c \in Leavers, r \in G!RoomIds :
    /\ conn[c] = "closed"
    /\ h[c].pc = "read"
    /\ c \notin orphan
    /\ uid_to_room[UidOf[c]] = r
    /\ room[r].state = "GAMING"
    ~> r \notin rooms
=============================================================================
