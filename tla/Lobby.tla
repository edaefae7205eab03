------------------------------- MODULE Lobby -------------------------------
(***************************************************************************)
(* lobby_server: LobbyServiceImpl with its set of online players, the      *)
(* match queue, the writer of the push stream and the players' table, as   *)
(* the gateway's calls drive it.  gRPC runs every call on a thread of its  *)
(* own, so requests of one player overlap each other and its disconnect:   *)
(* the gateway stops waiting for a reply after 5 s, a session may send     *)
(* over two channels, and a session may be closed while it waits.          *)
(*                                                                         *)
(* A step is one critical section of one call (online_mutex_,              *)
(* match_mutex_, push_mutex_ or db_mutex_), or the CreateRoom call to the  *)
(* game server.  Replies to the requesting client change no state of the   *)
(* lobby: a reply that is lost at the gateway is no different from one     *)
(* that arrives.                                                           *)
(***************************************************************************)
EXTENDS Naturals, Sequences, FiniteSets

CONSTANTS Uids,       \* the players
          Conns,      \* gateway sessions; AddSession never reuses an id in use
          UidOf,      \* the player of a session
          Calls,      \* bound: HandleRequest calls, each made once
          Commands,   \* bound: the commands clients send
          Nicknames,  \* bound: the nicknames clients choose
          Blank,      \* the nicknames that the lobby reads as empty
          Subs,       \* bound: Subscribe calls
          MaxRestarts, \* bound: restarts of the lobby
          None

AllCommands == {"login", "logout", "role", "match", "stop", "data", "count"}

ASSUME LobbyAssumption ==
  /\ UidOf \in [Conns -> Uids]
  /\ Commands \subseteq AllCommands
  /\ MaxRestarts \in Nat
  /\ None \notin Uids \cup Conns \cup Calls \cup Nicknames \cup Subs
  /\ None \notin Calls \X Calls

VARIABLES
  online,       \* online_players_
  queue,        \* match_queue_; an entry is the call that has enqueued it
  push_writer,  \* push_writer_: the Subscribe call whose stream it is, or None
  nickname,     \* kihan_game_players: the nickname of a uid, None for no row
  call,         \* the local state of the HandleRequest calls
  conn,         \* the sessions of the gateway
  sub,          \* the Subscribe calls
  broken,       \* the Subscribe calls whose stream the gateway has lost
  told,         \* observer: what became of the MatchGameNtf of a request
  overtaken,    \* observer: sessions whose disconnect has overtaken a request
  fresh,        \* observer: Subscribe calls taken up with no other in the lobby
  restarts      \* how often the lobby has been restarted

service  == <<online, queue, push_writer>>
gateway  == <<conn, sub, broken>>
observer == <<told, overtaken, fresh, restarts>>
vars     == <<service, nickname, call, gateway, observer>>

\* "insert": HandleLogin has read the row; "create": HandleMatchGame is in
\* its call of CreateRoom; "push1" and "push2": it has still to notify.
CallPc == {"unused", "sent", "insert", "create", "push1", "push2", "done"}

CallType ==
  [pc   : CallPc,
   conn : Conns \cup {None},
   pair : (Calls \X Calls) \cup {None}]   \* p1 and p2 of HandleMatchGame

Unused == [pc |-> "unused", conn |-> None, pair |-> None]

\* A session is "closed" until its ClientDisconnect runs or is "lost"; at
\* "erased" that handler holds online_mutex_; "left" is its end.
ConnStates == {"new", "open", "closed", "erased", "left", "lost"}

SubStates == {"new", "called", "serving", "returned"}

\* The table outlives the process; its index keeps nicknames apart.
Tables ==
  {t \in [Uids -> Nicknames \cup {None}] :
     \A u, v \in Uids : t[u] = t[v] /\ t[u] # None => u = v}

Init ==
  /\ online = {}
  /\ queue = << >>
  /\ push_writer = None
  /\ nickname \in Tables
  /\ call = [k \in Calls |-> Unused]
  /\ conn = [c \in Conns |-> "new"]
  /\ sub = [s \in Subs |-> "new"]
  /\ broken = {}
  /\ told = [k \in Calls |-> "no"]
  /\ overtaken = {}
  /\ fresh = {}
  /\ restarts = 0

-----------------------------------------------------------------------------
(* The gateway: sessions, requests and the loop that keeps a Subscribe call *)
(* open.                                                                    *)

Connect(c) ==
  /\ conn[c] = "new"
  /\ conn' = [conn EXCEPT ![c] = "open"]
  /\ UNCHANGED <<service, nickname, call, sub, broken, observer>>

\* DispatchPacket calls HandleRequest.  A goroutine that has read its packet
\* before Close and calls later is one whose call is slow to arrive.
Dispatch(k, c) ==
  /\ call[k].pc = "unused"
  /\ conn[c] = "open"
  /\ call' = [call EXCEPT ![k].pc = "sent", ![k].conn = c]
  /\ UNCHANGED <<service, nickname, gateway, observer>>

\* The deadline passes, or the connection fails, before the lobby runs it; or
\* the payload does not parse.
RequestLost(k) ==
  /\ call[k].pc = "sent"
  /\ call' = [call EXCEPT ![k].pc = "done"]
  /\ UNCHANGED <<service, nickname, gateway, observer>>

\* Session.Close: the client has left, or has been kicked after a Logout.
CloseSession(c) ==
  /\ conn[c] = "open"
  /\ conn' = [conn EXCEPT ![c] = "closed"]
  /\ UNCHANGED <<service, nickname, call, sub, broken, observer>>

\* NotifyDisconnect gives up after 3 s, and nobody calls again.
NotifyLost(c) ==
  /\ conn[c] = "closed"
  /\ conn' = [conn EXCEPT ![c] = "lost"]
  /\ UNCHANGED <<service, nickname, call, sub, broken, observer>>

\* The push loop of the gateway has one stream at a time.
GatewaySubscribes(s) ==
  /\ sub[s] = "new"
  /\ \A t \in Subs : sub[t] # "new" => t \in broken
  /\ sub' = [sub EXCEPT ![s] = "called"]
  /\ UNCHANGED <<service, nickname, call, conn, broken, observer>>

\* Recv returns an error to the gateway; the lobby learns of it later.
StreamBreaks(s) ==
  /\ sub[s] \in {"called", "serving"}
  /\ broken' = broken \cup {s}
  /\ UNCHANGED <<service, nickname, call, conn, sub, observer>>

-----------------------------------------------------------------------------
(* Subscribe and PushToGateway.                                             *)

SubscribeSets(s) ==
  /\ sub[s] = "called"
  /\ push_writer' = s
  /\ sub' = [sub EXCEPT ![s] = "serving"]
  /\ fresh' = IF \A t \in Subs \ {s} : sub[t] \in {"new", "returned"}
                THEN fresh \cup {s} ELSE fresh
  /\ UNCHANGED <<online, queue, nickname, call, conn, broken, told, overtaken,
                 restarts>>

\* Defect: the handler returns and leaves its writer behind.
SubscribeReturns_Keeps(s) ==
  /\ sub[s] = "serving"
  /\ s \in broken
  /\ sub' = [sub EXCEPT ![s] = "returned"]
  /\ UNCHANGED <<service, nickname, call, conn, broken, observer>>

\* Defect: the handler does not wait for the gateway to leave.
SubscribeReturns_AtOnce(s) ==
  /\ sub[s] = "serving"
  /\ push_writer' = None
  /\ sub' = [sub EXCEPT ![s] = "returned"]
  /\ UNCHANGED <<online, queue, nickname, call, conn, broken, observer>>

\* IsCancelled is seen once a second; whose writer it clears is not checked.
SubscribeReturns(s) ==
  /\ sub[s] = "serving"
  /\ s \in broken
  /\ push_writer' = None
  /\ sub' = [sub EXCEPT ![s] = "returned"]
  /\ UNCHANGED <<online, queue, nickname, call, conn, broken, observer>>

\* The MatchGameNtf of request p.  The result of Write is not looked at.
PushToGateway(p) ==
  told' = [told EXCEPT ![p] =
             IF push_writer # None /\ push_writer \notin broken THEN "sent"
                                                                ELSE "dropped"]

-----------------------------------------------------------------------------
(* The handlers.                                                            *)

Uid(k) == UidOf[call[k].conn]

Goto(k, pc) == call' = [call EXCEPT ![k].pc = pc]

Handles(k, command) == call[k].pc = "sent" /\ command \in Commands

\* ClientDisconnect keeps online_mutex_ while it takes match_mutex_.
OnlineFree == \A c \in Conns : conn[c] # "erased"

(* 1001: GetPlayerData, then the insertion for a player with a nickname.    *)

\* What the row tells of the player; without a row, None.
GetPlayerData(u) == nickname[u]

HandleLogin(k) ==
  /\ Handles(k, "login")
  /\ GetPlayerData(Uid(k)) \notin Blank \cup {None}
  /\ Goto(k, "insert")
  /\ UNCHANGED <<service, nickname, gateway, observer>>

\* There is no such row, or reading it has failed: PLAYER_NOT_EXISTS.
HandleLoginRefuses(k) ==
  /\ Handles(k, "login")
  /\ Goto(k, "done")
  /\ UNCHANGED <<service, nickname, gateway, observer>>

LoginInserts(k) ==
  /\ call[k].pc = "insert"
  /\ OnlineFree
  /\ online' = online \cup {Uid(k)}
  /\ Goto(k, "done")
  /\ UNCHANGED <<queue, push_writer, nickname, gateway, observer>>

(* 1002                                                                     *)

HandleLogout(k) ==
  /\ Handles(k, "logout")
  /\ OnlineFree
  /\ online' = online \ {Uid(k)}
  /\ Goto(k, "done")
  /\ UNCHANGED <<queue, push_writer, nickname, gateway, observer>>

(* 1003: INSERT ... ON DUPLICATE KEY UPDATE nickname, data.  The row that    *)
(* is updated is the one whose uid, or else whose nickname, is in the way.  *)

Taken(n, u) == \E v \in Uids \ {u} : nickname[v] = n

\* Defect: the table has no UNIQUE index on the nickname.
CreatePlayer_NoIndex(k, n) ==
  /\ Handles(k, "role")
  /\ nickname' = [nickname EXCEPT ![Uid(k)] = n]
  /\ Goto(k, "done")
  /\ UNCHANGED <<service, gateway, observer>>

\* A new row, or another nickname for the player's row.
CreatePlayer(k, n) ==
  /\ Handles(k, "role")
  /\ ~Taken(n, Uid(k))
  /\ nickname' = [nickname EXCEPT ![Uid(k)] = n]
  /\ Goto(k, "done")
  /\ UNCHANGED <<service, gateway, observer>>

\* The nickname is in another player's row, whose data the statement resets;
\* the reply is LOBBY_ERR_OK, and the player has no row.
CreatePlayerUpdatesOther(k, n) ==
  /\ Handles(k, "role")
  /\ Taken(n, Uid(k))
  /\ nickname[Uid(k)] = None
  /\ Goto(k, "done")
  /\ UNCHANGED <<service, nickname, gateway, observer>>

\* The update of the player's own row breaks the index, or the database is
\* out of reach: PLAYER_EXISTS.
CreatePlayerFails(k) ==
  /\ Handles(k, "role")
  /\ Goto(k, "done")
  /\ UNCHANGED <<service, nickname, gateway, observer>>

(* 1005: HandleMatchGame.  The nickname it reads first only goes into the   *)
(* player list of the room.                                                 *)

Queued(u) == \E i \in DOMAIN queue : Uid(queue[i]) = u

\* Defect: a player who waits is enqueued again.
Enqueued_Again(k) == Append(queue, k)

Enqueued(k) == IF Queued(Uid(k)) THEN queue ELSE Append(queue, k)

AfterPair(q) == SubSeq(q, 3, Len(q))

HandleMatchGameWaits(k) ==
  /\ Handles(k, "match")
  /\ Len(Enqueued(k)) < 2
  /\ queue' = Enqueued(k)
  /\ Goto(k, "done")
  /\ UNCHANGED <<online, push_writer, nickname, gateway, observer>>

HandleMatchGamePairs(k) ==
  /\ Handles(k, "match")
  /\ Len(Enqueued(k)) >= 2
  /\ queue' = AfterPair(Enqueued(k))
  /\ call' = [call EXCEPT ![k].pc = "create",
                          ![k].pair = <<Enqueued(k)[1], Enqueued(k)[2]>>]
  /\ UNCHANGED <<online, push_writer, nickname, gateway, observer>>

\* Defect: nobody is told that there is no room.
CreateRoomReturns_ForgetsError(k) ==
  /\ call[k].pc = "create"
  /\ Goto(k, "push1") \/ Goto(k, "done")
  /\ UNCHANGED <<service, nickname, gateway, observer>>

\* With a room or with an error: either way two notifications follow.
CreateRoomReturns(k) ==
  /\ call[k].pc = "create"
  /\ Goto(k, "push1")
  /\ UNCHANGED <<service, nickname, gateway, observer>>

PushFirst(k) ==
  /\ call[k].pc = "push1"
  /\ PushToGateway(call[k].pair[1])
  /\ Goto(k, "push2")
  /\ UNCHANGED <<service, nickname, gateway, overtaken, fresh, restarts>>

PushSecond(k) ==
  /\ call[k].pc = "push2"
  /\ PushToGateway(call[k].pair[2])
  /\ Goto(k, "done")
  /\ UNCHANGED <<service, nickname, gateway, overtaken, fresh, restarts>>

(* 1008 and 1009 only read.                                                 *)

HandleGetPlayerData(k) ==
  /\ Handles(k, "data")
  /\ Goto(k, "done")
  /\ UNCHANGED <<service, nickname, gateway, observer>>

HandleGetOnlineCount(k) ==
  /\ Handles(k, "count")
  /\ OnlineFree
  /\ Goto(k, "done")
  /\ UNCHANGED <<service, nickname, gateway, observer>>

(* 1006: HandleMatchStop, and the end of ClientDisconnect.                  *)

\* Defect: the uids are not compared.
Without_Everyone(u) == << >>

\* The entries of other players, in their order.
Without(u) ==
  LET kept == {i \in DOMAIN queue : Uid(queue[i]) # u}
      Place(i) == Cardinality({j \in kept : j <= i})
  IN [n \in 1 .. Cardinality(kept) |->
        queue[CHOOSE i \in kept : Place(i) = n]]

HandleMatchStop(k) ==
  /\ Handles(k, "stop")
  /\ queue' = Without(Uid(k))
  /\ Goto(k, "done")
  /\ UNCHANGED <<online, push_writer, nickname, gateway, observer>>

(* ClientDisconnect.                                                        *)

\* Requests of the session that may still add the player somewhere.
Pending(c) == {k \in Calls : call[k].conn = c /\ call[k].pc \in {"sent", "insert"}}

ClientDisconnect(c) ==
  /\ conn[c] = "closed"
  /\ OnlineFree
  /\ online' = online \ {UidOf[c]}
  /\ conn' = [conn EXCEPT ![c] = "erased"]
  /\ overtaken' = IF Pending(c) = {} THEN overtaken ELSE overtaken \cup {c}
  /\ UNCHANGED <<queue, push_writer, nickname, call, sub, broken, told, fresh,
                 restarts>>

\* Defect: a player in the queue stays there.
ClientDisconnectQueue_Keeps(c) ==
  /\ conn[c] = "erased"
  /\ conn' = [conn EXCEPT ![c] = "left"]
  /\ UNCHANGED <<service, nickname, call, sub, broken, observer>>

ClientDisconnectQueue(c) ==
  /\ conn[c] = "erased"
  /\ queue' = Without(UidOf[c])
  /\ conn' = [conn EXCEPT ![c] = "left"]
  /\ UNCHANGED <<online, push_writer, nickname, call, sub, broken, observer>>

-----------------------------------------------------------------------------
(* The process ends and is started again.  Only the table is on disk: the   *)
(* handlers that run end with it, and so does what they had still to tell.  *)

Matched(p) == \E k \in Calls : call[k].pair # None /\ p \in {call[k].pair[1], call[k].pair[2]}

InLobby(s) == sub[s] \in {"called", "serving"}

Restart ==
  /\ restarts < MaxRestarts
  /\ restarts' = restarts + 1
  /\ online' = {}
  /\ queue' = << >>
  /\ push_writer' = None
  /\ call' = [k \in Calls |-> IF call[k].pc \in {"unused", "sent"} THEN call[k]
                              ELSE [call[k] EXCEPT !.pc = "done"]]
  /\ conn' = [c \in Conns |-> IF conn[c] = "erased" THEN "lost" ELSE conn[c]]
  /\ sub' = [s \in Subs |-> IF InLobby(s) THEN "returned" ELSE sub[s]]
  /\ broken' = broken \cup {s \in Subs : InLobby(s)}
  /\ told' = [p \in Calls |-> IF Matched(p) /\ told[p] = "no" THEN "forgotten"
                              ELSE told[p]]
  /\ UNCHANGED <<nickname, overtaken, fresh>>

-----------------------------------------------------------------------------
Gateway ==
  \/ \E c \in Conns : \/ Connect(c)
                      \/ \E k \in Calls : Dispatch(k, c)
                      \/ CloseSession(c)
                      \/ NotifyLost(c)
  \/ \E k \in Calls : RequestLost(k)
  \/ \E s \in Subs : GatewaySubscribes(s) \/ StreamBreaks(s)

\* The first step of a request.
Start(k) ==
  \/ HandleLogin(k)
  \/ HandleLoginRefuses(k)
  \/ HandleLogout(k)
  \/ \E n \in Nicknames : CreatePlayer(k, n) \/ CreatePlayerUpdatesOther(k, n)
  \/ CreatePlayerFails(k)
  \/ HandleMatchGameWaits(k)
  \/ HandleMatchGamePairs(k)
  \/ HandleMatchStop(k)
  \/ HandleGetPlayerData(k)
  \/ HandleGetOnlineCount(k)

\* The steps that follow.
Continue(k) ==
  \/ LoginInserts(k)
  \/ CreateRoomReturns(k)
  \/ PushFirst(k)
  \/ PushSecond(k)

Next ==
  \/ Gateway
  \/ \E k \in Calls : Start(k) \/ Continue(k)
  \/ \E s \in Subs : SubscribeSets(s) \/ SubscribeReturns(s)
  \/ \E c \in Conns : ClientDisconnect(c) \/ ClientDisconnectQueue(c)
  \/ Restart

Spec == Init /\ [][Next]_vars

\* A handler that has begun goes on, and the game server answers CreateRoom;
\* clients, the gateway and the network owe nothing.
FairSpec == Spec /\ \A k \in Calls : WF_vars(Continue(k))
-----------------------------------------------------------------------------
(* Properties.                                                             *)

\* Every variable keeps its shape.
TypeOK ==
  /\ online \subseteq Uids
  /\ queue \in Seq(Calls)
  /\ push_writer \in Subs \cup {None}
  /\ nickname \in Tables
  /\ call \in [Calls -> CallType]
  /\ conn \in [Conns -> ConnStates]
  /\ sub \in [Subs -> SubStates]
  /\ broken \subseteq Subs
  /\ told \in [Calls -> {"no", "sent", "dropped", "forgotten"}]
  /\ overtaken \subseteq Conns
  /\ fresh \subseteq Subs
  /\ restarts \in 0 .. MaxRestarts

\* PushToGateway dereferences push_writer_, which points into the stack of the
\* Subscribe handler that has set it: that handler is still in its loop,
\* although another handler may overwrite or clear the pointer meanwhile.
WriterAlive == push_writer # None => sub[push_writer] = "serving"

\* A Subscribe call that finds no other in the lobby is the one PushToGateway
\* writes to until the gateway loses it: after a restart, or once the handlers
\* of lost streams have returned, the new stream is served again.
FreshStreamServes == \A s \in fresh \ broken : push_writer = s

\* A player none of whose sessions is left is neither online nor waiting for
\* an opponent, if every disconnect has been notified and none has overtaken
\* a request of its session.
LeaversAreGone ==
  \A u \in Uids :
    (\A c \in Conns : UidOf[c] = u =>
        conn[c] = "new" \/ (conn[c] = "left" /\ c \notin overtaken))
    => u \notin online /\ ~Queued(u)

InQueue(k) == \E i \in DOMAIN queue : queue[i] = k

\* Who waits for an opponent with a session that is open goes on waiting until
\* the request is matched, the player asks to stop, another session of the same
\* player is cleared away (ClientDisconnect erases by uid), or the lobby is
\* restarted.  What other players do never costs a place.
OpenSessionKeepsPlace ==
  [][\A k \in Calls : InQueue(k) /\ ~InQueue(k)' /\ conn[call[k].conn] = "open" =>
       \/ Matched(k)'
       \/ \E j \in Calls : HandleMatchStop(j) /\ Uid(j) = Uid(k)
       \/ \E c \in Conns \ {call[k].conn} :
            UidOf[c] = Uid(k) /\ conn[c] = "erased" /\ conn'[c] = "left"
       \/ restarts' # restarts]_vars

\* The state of Matchmaking as the lobby keeps it.
Who      == [k \in Calls |-> IF call[k].conn = None THEN None ELSE Uid(k)]
Waiting  == IF queue = << >> THEN None ELSE queue[1]
Matches  == {call[k].pair : k \in {j \in Calls : call[j].pair # None}}
Answered == {k \in Calls : told[k] # "no"}

Matcher == INSTANCE Matchmaking WITH
             who <- Who, waiting <- Waiting, matches <- Matches, answered <- Answered

\* The match queue is a waiting room for one request: every request is matched
\* at most once and never with another request of its own player, although
\* players ask again, cancel, leave and return with another session; nobody is
\* told of a match that is not theirs.
MatchesSafely == Matcher!SafeSpec

\* And both players of a match are eventually pushed a notification, room or
\* no room, subscribed gateway or not, unless a restart has forgotten the match:
\* liveness under FairSpec.
ImplementsMatchmaking == Matcher!Spec

-----------------------------------------------------------------------------
(* What the repository says of the program, and the code does not keep.    *)

\* lobby_server/api.md:40: the lobby pushes to the gateway through the stream
\* of its Subscribe call.  The stream the gateway listens to is the one that
\* PushToGateway writes to.
SubscriberIsReached ==
  \A s \in Subs :
    /\ sub[s] = "serving"
    /\ s \notin broken
    /\ \A t \in Subs \ {s} : sub[t] \in {"new", "returned"}
    => push_writer = s
=============================================================================
