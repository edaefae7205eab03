# KiHanServer-Distributed: a TLA+ model of the servers

KiHan is a two-player fighting game. Its back end is four processes: a login
server (Go), a gateway (Go), a lobby server (C++) and a game server (C++).
Clients get a token from the login server, hold one WebSocket (and optionally a
UDP/KCP channel) to the gateway, and never talk to lobby or game server
directly. This directory holds TLA+ modules translated from that code, TLC
configurations that check them, and TLAPS proofs about them.

## 1. Inventory

### game_server

| part | state | operations |
| --- | --- | --- |
| `Room` (room.cpp) | `state_`, `players_` (game id, ready), `player_uids_`, `current_frame_`, all under `room_mutex_` | `AddPlayer`, `PushInput`, `Tick`, `CheckAllReady`, `StartGame`, `StopGame` |
| `RoomManager` (room_manager.cpp) | `rooms_`, `uid_to_room_`, `sessions_`, each under a mutex of its own | lookups, `DestroyRoom` (four separate critical sections), `SendToPlayers`, `RunLoop` on a thread of its own |
| `GameServiceImpl::StreamBattle` | local: uid, the room it has looked up | one thread per gateway stream: register, requests 2001, 2002, 2004, 2006, end of stream |
| `GameControlServiceImpl::CreateRoom` | `next_room_id` | called by the lobby |

Hard: almost every operation is several critical sections long, so a handler or
the loop acts on a room another thread has just stopped or destroyed; a player
who reconnects has two handlers that share table entries keyed by uid;
`sessions_` points into the stack of a handler.
Correct means: a game is decided for the right player and goes silent once it is
decided; no input or frame is lost; the tables name only what is alive; a ready
room starts and an abandoned one ends.

### lobby_server

| part | state | operations |
| --- | --- | --- |
| request handlers (lobby_service.cpp) | `online_players_` | `HandleRequest` 1001 to 1009 |
| match queue | `match_queue_` | `HandleMatchGame`, `HandleMatchStop`, then `CreateRoom` on the game server and two pushes |
| push stream | `push_writer_` | `Subscribe` (polls for its end once a second), `PushToGateway` |
| disconnects | both | `ClientDisconnect`, with nested locks |
| `DBManager` (db_manager.cpp) | table `kihan_game_players`, unique nicknames | `CreatePlayer`, `GetPlayerData` |

Hard: requests of one player overlap each other and its disconnect, since the
gateway gives up on a request after five seconds while the lobby goes on;
a subscription that has ended still has a handler for up to a second; everything
but the table is lost when the process is restarted.
Correct means: a request is matched once and with somebody else, both players
hear of it, nobody who has left is online or queued, and the writer is alive and
is the current one.

### gateway

| part | state | operations |
| --- | --- | --- |
| `Session` (session.go) | `Connected`, `UDPAddr`, `KCPConn` (under `mu`, often read without it), `GameStream`, `GameCancel` | `DispatchPacket`, `Send`, `Close` |
| `SessionManager` (manager.go) | `sessions`, `addrMap` | `AddSession`, `GetSessionByAddr`, `MapUDPAddr`, `RemoveSession` |
| readers (ws_server.go, udp_server.go) | the session they were started for | one goroutine per WebSocket and per KCP connection |
| `UDPServer` loops | the session they have just looked up | `readLoop`, `acceptKCPLoop` |
| push loop, kick subscriber (main.go) | none | find sessions, `Send`, `Close` |
| RPC client (rpc/client.go) | none | deadlines of 5 s and 3 s |
| packet.go, kcp_conn.go | `readCh` | framing; bridge to kcp-go |

Hard: several goroutines may close one session while others dispatch its packets
or hand it an address or a connection.
Correct means: it is closed once, forgotten completely, and addresses and
connections never lead to the wrong session.

### login_server

| part | state | operations |
| --- | --- | --- |
| accounts (main.go) | table `users` in MySQL, unique usernames; `LAST_INSERT_ID()` of each pooled connection | `/api/register`, `/api/login`, `/api/update_email`, `/api/update_password` |
| tokens (main.go) | keys `token:<uid>` and `auth:<token>` in Redis, for 24 hours | `saveTokenToRedis`, `getUidByToken`; ServeHTTP of the gateway |
| kick message, version check | none | `Publish` on every login; `CompareVersion` |

Hard: a request is several statements and commands long, each may fail or take
effect without an answer, each statement may use another connection, and a token
may expire between its lookup and the update.
Correct means: a token stands for the account it was given out for, and only who
holds it changes the account.

### How they interact

Client to gateway (WebSocket, UDP, KCP); gateway to lobby (`HandleRequest`,
`ClientDisconnect`, `Subscribe` stream); gateway to game server (`StreamBattle`
stream per session); lobby to game server (`CreateRoom`); login server to gateway
(Redis tokens, kick channel). Inside a process, threads share state under
mutexes.

`PROJECT.json` lists the components, and every hazard at its line.

## 2. Modules

| module | models | uses |
| --- | --- | --- |
| `Room` | the class Room as operators on a record | |
| `Battle` | abstract: the games of a room as its players see them | |
| `GameServer` | RoomManager, StreamBattle handlers, CreateRoom, RunLoop | extends `Room`, instance of `Battle` |
| `Matchmaking` | abstract: what the lobby promises to players who ask for a game | |
| `Lobby` | lobby_server with the part of the gateway that drives it | instance of `Matchmaking` |
| `System` | from a match to the game: lobby, game server and push loop together | extends `Lobby`, instance of `GameServer` |
| `SessionLife` | abstract: the life of a session as the other servers are told of it | |
| `Gateway` | sessions, manager, readers, UDP loops | instance of `SessionLife` |
| `Login` | login_server with the token check of the gateway | |
| `MCGameServer`, `MCLobby`, `MCSystem`, `MCGateway`, `MCLogin` | values of the constants, symmetry | extend the above |
| `GameServerProofs`, `GameFrameProofs`, `LobbyProofs`, `LobbyPresenceProofs`, `SystemProofs`, `GatewayProofs`, `LoginProofs` | theorems | extend the above, TLAPS |
| `ListLemmas` | facts about short sequences the proofs share | |

**Grain.** A step is one critical section (one locked region) of one thread, or
one unlocked access to shared state. What a thread has read in one step and uses
in a later one is in its local state: `h[s]` for a handler, `loop` for RunLoop,
`call[k]` for a lobby request, `reader[t]`, `udp` and `accept` in the gateway.
So the model has every stale read the code has. A data race on a single word
(`GetState`, `ready`, `KCPConn`) is read as one of the values it has had.

**GameServer.** `rooms`, `uid_to_room` and `sessions` are the three tables. `room`
holds every room object, destroyed or not, since a `shared_ptr` keeps it alive
in the hands of whoever has looked it up. An input is represented by the frame
number it is stamped with. `verdicts` and `expects` are observers: the winners
announced for the current game of a room, and the next frame each stream waits
for, as clients would see it. Actions are grouped by who takes them: `Lobby`,
`Client(s)` (what the other end decides), `Handler(s)`, `RunLoop`.

**Battle.** The promise of the game server to the players of a room, without threads,
mutexes and pointers: seats never change; a game starts when both players are
ready, takes at most one input of each per frame, and sends each frame once, in
order, to whoever listens; nothing is sent of a game that is decided; a room goes
away only after a verdict. It states what the code does where that is less than
one would hope for: anybody's name may be decided as the winner (`Decide`), a room
whose game has been decided between the look at it and the start starts all the
same (the second disjunct of `Start`'s guard), and a player who leaves stops
listening whichever stream is newest (`Leave`). `GameServer` maps its state to it with `Seats`
(player list and players still to be added), `IsReady`, `Playing`, `Frame`,
`Inputs` and `Listening` (the streams that `sessions` names); a handler's lookups and
the loop's scan are stutters.

**Lobby.** `call[k]` is one HandleRequest call with its command, `conn[c]` follows
a gateway session from open to the end of its `ClientDisconnect`, `sub[s]` is a
Subscribe handler and `broken` the streams the gateway has lost. The queue holds
calls, so that an entry stands for player and session at once. Calls may be
lost, delayed past the disconnect, or overlap. `Restart` ends the process: the
handlers, the online set, the queue and the push stream go, the table and the
gateway's sessions stay, and a request that was sent but not yet run may reach
the new process. `told`, `overtaken` and `fresh` are observers.

**Matchmaking.** Requests wait, one at a time, are matched with one of another
player, withdraw, and both requests of a match are answered, or forgotten by a
restart. `Lobby` maps its
state to it with `Who`, `Waiting`, `Matches` and `Answered`.

**System.** The two servers share no state. Each step is a step of one of them, with
the other's state unchanged, except for the call of `CreateRoom` and its answer,
in which both take part. `made[k]` is the room that request k's `CreateRoom` has
made, `pushes` the notifications between the lobby and the gateway, `invited[u]` what
a player has been told, `orphan` the sessions whose stream nobody closes. A session
opens at most one game stream in its life (DispatchPacket keeps a dead one), so
the streams of `GameServer` are the sessions of `Lobby`. Clients are honest: the
first packet for the game server follows an invitation, a room is entered by who
was told of it, and GameOverReq is sent for a game that has been seen to start.
A request or a disconnect that is lost is one the lobby never gets to.

**Login.** A uid is the number of a row, 0 the uid of no row. `last_id[d]` is
`LAST_INSERT_ID()` of a pooled connection. A token is named by the request that
generated it, which makes tokens unique as their random bytes do. Writes may fail
before or after they take effect. Left out: the key `token:<uid>` and
`last_login_time`, which no code reads, and the kick message.

**Gateway.** `game[s]` stands for GameStream with GameCancel and what has become of
the stream, `kcp[c]` for a connection of the kcp-go listener (external, modelled
from how the code uses it: one open connection per address; a new conversation
from the same address closes the old connection), `told[s]` counts
NotifyDisconnect calls, `late` remembers streams opened after Close. The
WebSocket closes in the step that notifies the lobby.

**SessionLife.** What `Lobby` and `System` take the sessions of the gateway to be: opened
once, closed once, a game stream at most, cancelled before the lobby is told unless it
was opened too late, and found by lookups until the lobby has been told. `Gateway` maps a
session to a `Stage` that the code keeps nowhere: it is spread over Connected, the
program counter of whichever goroutine runs Close, the call to the lobby and the
manager's map.

Definitions whose name has a suffix after an underscore and the comment "Defect"
are bugs a maintainer might introduce. Nothing uses them; `PROJECT.json` pairs
each with the property that catches it.

## 3. Runs

| run | instance | checks |
| --- | --- | --- |
| `GameBattle` | 2 players, 1 stream each, 1 room, frames 0 to 2 | `TypeOK`, `ForfeitGoesToOpponent`, `SidesAsAnnounced`, `NoFrameAfterVerdict`, `InputKept`, `ImplementsBattle`; `ReadyRoomStarts`, `ForfeitEndsGame` under fairness |
| `GameReconnect` | 2 players, one with 2 streams, 1 room, frames 0 to 1, no inputs | `NoDanglingStream`, `MappingOwned`, `RegisteredIsUpToDate`, `ImplementsBattle` |
| `LobbyPresence` | 2 players, 3 sessions, 3 requests of any kind, 2 nicknames (one blank), 1 restart | `TypeOK`, `LeaversAreGone`, `MatchesSafely`, `OpenSessionKeepsPlace` |
| `LobbyPush` | 2 players, 2 requests, 2 subscriptions, 1 restart | `ImplementsMatchmaking` (with liveness), `WriterAlive`, `FreshStreamServes` |
| `SystemMatch` | 2 players with a session each, 2 requests, 1 subscription, 1 room, 1 restart, one session that leaves | `InvitationHolds`, `InvitedRoomExists`, `MatchedAreInvited`, `GameServerAsAssumed`; `LeaverForfeits` under fairness |
| `LoginTokens` | 3 requests, 2 usernames, 2 values, 2 database connections, any table to begin with | `TypeOK`, `LoginTokenIsOwn`, `ChangedByItsOwner` |
| `GatewaySession` | 2 sessions, 2 addresses, 1 KCP connection | `TypeOK`, `AddrOwned`, `AddrReaches`, `KcpConnServed`, `ClosedOnce`, `ClosedIsForgotten`, `ImplementsSessionLife` |

What they show. In a battle (`GameBattle`) the loop, two handlers and the lobby act
on one room in any order: a forfeit always names the player who stays, sides are
those announced, nothing is sent after a verdict, an accepted input is
broadcast, a ready room starts and a forfeit takes the room away. All of it is a game
of `Battle` to the clients.
With overlapping streams (`GameReconnect`) a player may lose its registration
(see below), but no broadcast ever goes through a dead stream or to another
player, the map names only rooms of the player, and a stream that is registered
has missed no frame; each frame still goes once, in order, to those who listen
(`ImplementsBattle`). With overlapping requests (`LobbyPresence`) whoever has left in good order is gone,
each request is matched at most once and with another player, and nobody loses a
place in the queue by what another player does.
`LobbyPush` adds that both players of a match are notified, whether or not the
game server had a room, that the push writer is never a dangling pointer, and
that after a restart, or once the old handlers are gone, a new stream is served.
`SystemMatch` follows a match through three processes: a player who is told of a
room has the seat in it that the notification names, the room stays until a game
in it is decided, both players are told unless one of the named failures has
happened, and a player who leaves loses the game. `LoginTokens` shows that no
failure between MySQL and Redis gives the token of a login to another account.
`GatewaySession` shows that concurrent closers agree on one, that a closed session
leaves nothing behind but a stream opened too late, and that stale session
pointers in the UDP loops mislead nobody. To the other servers each session has the
life that `SessionLife` describes.

Five more runs show where the program does not do what its documentation or a
comment says; each has one property and ends in a counterexample:

| run | what happens |
| --- | --- |
| `GameStaleStream` | the old stream's end unregisters the new one: the player gets no more broadcasts |
| `GameOrphanRoom` | a room starts after it was destroyed: GameStartNtf and never a frame |
| `LobbyResubscribe` | a broken subscription's handler clears the writer of the live one: notifications are dropped until the next reconnect |
| `GatewayOrphanStream` | a packet dispatched during Close opens a game stream nobody cancels: the opponent never wins by forfeit |
| `LoginUid` | a registration asks another connection for its LAST_INSERT_ID: its token opens a session for a uid no user has |

Other consequences of the code that the model has, and no property states: a
player who chooses a taken nickname is answered LOBBY_ERR_OK, resets the other
player's data and has no row (`CreatePlayerUpdatesOther`); a login that finishes
after its session's disconnect leaves the player online (`LeaversAreGone` excepts
it by `overtaken`); a stream that ends while a game is being decided may decide it
a second time, since its handler read the state before; the end of an old stream
forfeits the game its player has entered with a new one; a player who has left an
IDLE room is still in it, so that the game may start without the player and ticks
until somebody ends it; the old session of a player who logs in again is not
closed by the kick message; an update is answered with success while Redis is
down, though no row changes; a token stays valid when the password changes.

**Bounds.** Every bound is a constant: `MaxRooms`, `MaxFrame`, `InputFrames`,
`Calls`, `Commands`, `Subs`, `MaxRestarts`, `Leavers`, `Winners`, `Requests`, `DbConns`, `KConns`, `Addrs` and the finite sets of players, streams
and sessions. The hazards are races between two actors over one entry, so two
players, with a second stream or session for one of them, a second address and a
second subscription reach each of them. Frames 0 to 2 give a start, a middle and
an end, with inputs of the current and of a later frame. At `MaxFrame` the loop
passes a running room by, so the model's games may idle at the bound but not
disappear. In `GameReconnect` the inputs are left out, since no table depends on
them. One room suffices for the races inside a game; the proofs cover any number
of rooms. One restart suffices for each of its places between two steps; a second
one finds what the first has left. `SystemMatch` has one request per player, hence
one match, and lets one session leave (`Leavers`) and one winner be reported; its
frames stop at 0, since the frames have runs of their own. In `LoginTokens` three
requests are a registration or login, an update with its token, and one that
interferes. `GatewaySession` has one KCP connection, so it does not meet an old
connection's deferred `SetKCPConn(nil)` racing with a new connection; the theorems cover any number.

**Deadlock** is checked in the game server's runs. The other instances
are finite (each request, subscription and session happens once), so they do stop; those runs say CHECK_DEADLOCK FALSE.

**Symmetry** is used in safety runs only, over interchangeable sessions, requests
and addresses.

**Fairness.** `GameServer!FairSpec`: the loop thread and every handler that has
something to do are scheduled; nothing obliges a client or the lobby to send.
`Lobby!FairSpec`: a handler that has begun goes on, which includes that the game
server answers `CreateRoom`, a call the code makes without a deadline. `FairSystemSpec`: the
StreamBattle threads are scheduled, and a stream that has been cancelled ends:
gRPC delivers the finitely many packets that are left, then Read returns false.
The client may fill these reads with other steps, so this is strong fairness of
`GameStreamCancelled`. `Gateway` and `Login` have safety properties only.

## 4. Proofs

TLAPS proves, for all values of the constants that satisfy the named
assumptions (`ServerAssumption`, `LobbyAssumption`, `SystemAssumption`, `GatewayAssumption`,
`LoginAssumption`):

| theorem | property |
| --- | --- |
| `GameServerProofs!TypeCorrect` | `TypeOK` |
| `GameServerProofs!SidesHold` | `SidesAsAnnounced` |
| `GameServerProofs!ForfeitHolds` | `ForfeitGoesToOpponent` |
| `GameServerProofs!StreamsAlive` | `NoDanglingStream` |
| `GameServerProofs!MappingHolds` | `MappingOwned` |
| `GameFrameProofs!UpToDateHolds` | `RegisteredIsUpToDate` |
| `GameFrameProofs!VerdictIsLast` | `NoFrameAfterVerdict` |
| `GameFrameProofs!InputsAreKept` | `InputKept` |
| `GameFrameProofs!RoomsStand` | a created room is in the map unless its game is decided, or runs again |
| `GameFrameProofs!RefinesBattle` | `ImplementsBattle`: every step is a step of `Battle` or a stutter |
| `LobbyProofs!TypeCorrect` | `TypeOK` |
| `LobbyProofs!WriterHolds` | `WriterAlive` |
| `LobbyProofs!FreshStreamHolds` | `FreshStreamServes` |
| `LobbyProofs!RefinesMatchmaking` | `MatchesSafely`: every step is a step of `Matchmaking` or a stutter |
| `LobbyPresenceProofs!LeaversGone` | `LeaversAreGone` |
| `LobbyPresenceProofs!PlaceKept` | `OpenSessionKeepsPlace` |
| `SystemProofs!LobbyAsSpecified` | `SystemSpec => Spec` of `Lobby`: the lobby of the composition is the lobby |
| `SystemProofs!GameServerAsSpecified` | `GameServerAsAssumed`: `SystemSpec` implies the specification of `GameServer` |
| `SystemProofs!InvitationsHold` | `InvitationHolds` |
| `SystemProofs!InvitedRoomsExist` | `InvitedRoomExists` |
| `SystemProofs!MatchesPlayBattles` | `SystemSpec => ImplementsBattle` of the instance of `GameServer` |
| `SystemProofs!MatchedInvited` | `MatchedAreInvited` |
| `LoginProofs!TypeCorrect` | `TypeOK` |
| `LoginProofs!LoginTokenHolds` | `LoginTokenIsOwn` |
| `LoginProofs!OwnersChange` | `ChangedByItsOwner` |
| `GatewayProofs!TypeCorrect` | `TypeOK` |
| `GatewayProofs!AddrOwnedHolds` | `AddrOwned` |
| `GatewayProofs!AddrReachesHolds` | `AddrReaches` |
| `GatewayProofs!KcpServedHolds` | `KcpConnServed` |
| `GatewayProofs!ClosedOnceHolds` | `ClosedOnce` |
| `GatewayProofs!ForgottenHolds` | `ClosedIsForgotten` |
| `GatewayProofs!RefinesSessionLife` | `ImplementsSessionLife`: every step is a step of `SessionLife` or a stutter |

**Game server.** The inductive invariant has four parts. `Seating`: a room is
untouched, or two different players are between `adding` and its seats, in the
order of the list; this is what makes sides equal positions. `Games`: only rooms
with two players run, even if destroyed. `Pointers`: a room a handler or the map
holds has a seat for its player, however old the pointer is. `TypeOK`. The
properties do not carry themselves: `ForfeitGoesToOpponent` needs that a running room
has two players and that the handler's player is one of them. `SeatsKept` (no
step but CreateRoom's touches a seat) carries pointers across other threads'
steps. `StreamsAlive` and `MappingHolds` add that a registered entry is erased
by its own handler before that returns.

`GameFrameProofs` adds what clients have been told. `Expecting`: a stream a room has
written to has a seat in it and has registered before, so a stream that registers
has heard of no frame, and one that stays registered is reached by every broadcast.
`Decided`: a running game has no verdict, an idle room keeps inputs of a decided game
only. `Starting`: the room RunLoop is about to start is idle, since RunLoop alone
starts games; without it StartGame could wipe the inputs of a running one. `Quiet`: a
room not yet created has no input. One lemma per step that touches a game says what
it does (`PushEffect`, `StopEffect`, `TickEffect`, `StartEffect`), `OtherEffect` that no
other does.

`RefinesBattle` has one lemma per step of `Battle` (`OpenStep` to `BeginStep`), named for
the step, and `HiddenStep` for the rest. Four facts on top of the invariants above
make it go through. `Fresh`: an id that CreateRoom has not taken has the room of
`Init`, so making a room touches nothing but its seats. `StartReady`: a room that RunLoop is about to
start is ready, or has been decided since RunLoop looked, because nothing but
StopGame takes readiness away; without it `Start` would need no player's consent.
`Standing`: DestroyRoom runs only for decided games. And seats, as player list plus
players still to be added, are the same before and after every AddPlayer
(`SeatsStay`). `OneRoom` turns a write to one room object into writes to the maps of
`Battle`.

**Lobby.** `QueueOK` says that the queue holds at most one entry, of a call that
is over and unmatched; with it `Without` and `AfterPair` act on lists of at most
two elements, and `HandleMatchGame` can only pair two different players. `CallsOK`
and `PairsOK` tie a call's place to its match. `RefinesMatchmaking` takes each
lobby step to `Ask`, `Wait`, `Match`, `Withdraw`, `Answer`, `Restart` or a stutter.
`LobbyPresenceProofs` adds what a player who is online or queued still has: a
session that is not cleared away, or a request that its disconnect has overtaken.

**System.** Every step of the composition is a step of the lobby and a step of the
game server, or leaves either unchanged; `CreateRoom` is called for a pair of
different players because `PairsOK` of `LobbyProofs` holds in the lobby. With these
two theorems all that is proved of `Lobby` and `GameServer` holds in the composition.
`SystemProofs` also follows a match through the three processes. `MadeFor`: the room
made for a request is for the players of its match, in their order, and full before
the request notifies, because CreateRoom answers after its loop. `PushesOK` and
`InvitedOK` carry that to the notifications on their way and to the players: seats, once
taken, stay (`SeatingOfStays` of `GameServerProofs`), and so do a match's players
(`MatchStays`). `Standing` of `GameFrameProofs`, DestroyRoom runs for decided games only,
gives that the room still is in the map. The game server's lemmas are used through
an instance of `GameFrameProofs`.

`MatchedAreInvited` needs the whole path of a notification. In the lobby, `TellsOK` (of
`LobbyProofs`): a request is in one match at most, and a request whose match is being
seen to tells its players in turn, so that one that is done has sent to both, dropped
or forgotten; `BegunOK` (of `LobbyPresenceProofs`): a request belongs to a session that
has been opened, and sessions open once. In between, `NotifyOK`: what has been sent for an open
session is in `pushes` or has been delivered (`SentOK`), and while no stream has
broken the one that carries `pushes` is served (`StreamHeld`), so that nothing on it is lost.
`Restart`, the loss of a stream and the failure of `CreateRoom` each leave the mark
that the property's premises name.

**Login.** A request of a login that has got past its password holds the uid of the row
with its name; names are unique and rows are never renamed or removed, so the
row found once stays the account's; a key in Redis, a session and the uid of an
update are copies of it.

**Gateway.** `ReadersOK` says which session a goroutine works for, and that this
session has been made; `AddrOK` that what the two UDP loops have read of an
address is still so when they write; `CloseOK` how far the closing of a session
is: one reader at most is past the check of Connected, the lobby has been told
once that reader is past `notify`, and the stream is cancelled once it is past
`cancel`, unless it was opened after Connected was cleared. The properties
themselves complete the invariant. `RefinesSessionLife` follows from it: since one
reader at most is closing a session (`OneCloser`), its place in Close, `told` and the
map agree on the stage (`StageReads`), each step of Close moves the stage of its own
session by one (`CloserMoves`, `OthersStay`), and no other reader moves any (`ReadersMove`).

Only model-checked: liveness (`ReadyRoomStarts`, `ForfeitEndsGame`, `LeaverForfeits`, the
fair half of `ImplementsMatchmaking`), which needs ENABLED and fairness, both out of
the prover's reach. Every safety property of the passing runs is a theorem.

## 5. Not modelled

Message layouts, JSON, logging and error replies that change no state; the
WebSocket upgrade and the AuthResponse; the data column of the players' table
(`UpdateBattleStats` has no caller, `ReportGameResult` is never sent); Send's
choice of channel, blocking writes and the panics they may cause; restarts of
the gateway and of the game server, after which every session or every game is
gone and nothing is recovered; room ids beyond 10^9; `Room::RemovePlayer` and
`SendToPlayer`, which nothing calls. The kick subscriber skips every message, since it
decodes a string into a number, so it changes no state. The packet codec and
`CompareVersion` are functions without state: the models use of the codec that a
read may fail. Hash, salt and token generation are taken to be free of collisions.

## 6. Plan

Done: `GameServer` with `Room` and `Battle`, `Lobby` with `Matchmaking`, `Gateway` with `SessionLife`,
`Login`, the composition `System`; the proofs above. Next, in this order:

1. frame and header codec of packet.go with 16-bit lengths, and `CompareVersion`, as
   operators checked against reference definitions over bounded inputs;
2. Send in the gateway: channels, concurrent writers, the unlocked KCPConn.
