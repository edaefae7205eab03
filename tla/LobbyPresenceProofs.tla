------------------------ MODULE LobbyPresenceProofs ------------------------
(***************************************************************************)
(* Who is online and who waits for an opponent, against the sessions of    *)
(* the gateway, for every number of players, sessions and requests.        *)
(***************************************************************************)
EXTENDS LobbyProofs

-----------------------------------------------------------------------------
(* The inductive invariant.                                                 *)

\* A session that may still add its player to the lobby, or may have.
Live(c) == conn[c] \in {"open", "closed", "lost"} \/ c \in overtaken

PendingLive ==
  \A k \in Calls : call[k].pc \in {"sent", "insert"} => Live(call[k].conn)

OnlineLive ==
  \A u \in online : \E c \in Conns : UidOf[c] = u /\ Live(c)

\* ClientDisconnect clears the queue in its second step.
QueueLive ==
  \A k \in Calls : queue = <<k>> =>
    \E c \in Conns : UidOf[c] = Uid(k) /\ (Live(c) \/ conn[c] = "erased")

OvertakenBegun == \A c \in overtaken : conn[c] # "new"

PInv == IInv /\ PendingLive /\ OnlineLive /\ QueueLive /\ OvertakenBegun

-----------------------------------------------------------------------------
(* Steps.                                                                   *)

\* A session stops being live only when ClientDisconnect finds none of its
\* requests pending, and only ClientDisconnectQueue ends that handler, unless
\* the lobby is restarted.
LEMMA SessionSteps ==
  ASSUME IInv, [Next]_vars, NEW c \in Conns
  PROVE  /\ conn[c] # "new" => conn'[c] # "new"
         /\ overtaken \subseteq overtaken'
         /\ c \in overtaken' => c \in overtaken \/ ClientDisconnect(c)
         /\ Live(c) => \/ Live(c)'
                       \/ conn'[c] = "erased" /\ ClientDisconnect(c) /\ Pending(c) = {}
         /\ conn[c] = "erased" => \/ conn'[c] \in {"erased", "lost"}
                                  \/ ClientDisconnectQueue(c)
PROOF
  <1> USE DEF IInv, TypeOK, ConnStates, Live
  <1>1. CASE UNCHANGED <<conn, overtaken>>
    BY <1>1
  <1>2. CASE \E d \in Conns : Connect(d) \/ CloseSession(d) \/ NotifyLost(d)
    BY <1>2 DEF Connect, CloseSession, NotifyLost, observer
  <1>3. CASE \E d \in Conns : ClientDisconnect(d)
    BY <1>3 DEF ClientDisconnect
  <1>4. CASE \E d \in Conns : ClientDisconnectQueue(d)
    BY <1>4 DEF ClientDisconnectQueue, observer
  <1>5. CASE Restart
    BY <1>5 DEF Restart
  <1>6. QED
    BY <1>1, <1>2, <1>3, <1>4, <1>5
    DEF Next, Gateway, Start, Continue, Dispatch, RequestLost,
        GatewaySubscribes, StreamBreaks, SubscribeSets, SubscribeReturns,
        HandleLogin, HandleLoginRefuses, LoginInserts, HandleLogout,
        CreatePlayer, CreatePlayerUpdatesOther, CreatePlayerFails,
        HandleMatchGameWaits, HandleMatchGamePairs, HandleMatchStop,
        CreateRoomReturns, PushFirst, PushSecond, HandleGetPlayerData,
        HandleGetOnlineCount, vars, gateway, observer

\* A request is pending from its dispatch on, with one session.
LEMMA PendingSteps ==
  ASSUME IInv, [Next]_vars, NEW k \in Calls, call'[k].pc \in {"sent", "insert"}
  PROVE  \/ /\ call[k].pc \in {"sent", "insert"}
            /\ call'[k].conn = call[k].conn
         \/ \E c \in Conns : Dispatch(k, c) /\ call'[k].conn = c
PROOF
  <1>1. CASE UNCHANGED call
    BY <1>1
  <1>2. ASSUME NEW j \in Calls, NEW c \in Conns, Dispatch(j, c)
        PROVE  \/ /\ call[k].pc \in {"sent", "insert"}
                  /\ call'[k].conn = call[k].conn
               \/ \E d \in Conns : Dispatch(k, d) /\ call'[k].conn = d
    BY <1>2, CallFields
  <1>3. CASE \E j \in Calls : HandleMatchGamePairs(j)
    BY <1>3, CallFields
  <1>4. ASSUME NEW j \in Calls, NEW pc \in CallPc, Moves(j, pc)
        PROVE  call[k].pc \in {"sent", "insert"} /\ call'[k].conn = call[k].conn
    <2>1. call'[j].pc = pc /\ call'[j].conn = call[j].conn
      BY <1>4, CallFields
    <2>2. \A i \in Calls \ {j} : call'[i] = call[i]
      BY <1>4, CallFields
    <2>3. CASE k = j
      BY <1>4, <2>1, <2>3 DEF Moves
    <2>4. QED
      BY <2>2, <2>3
  <1>5. CASE Restart
    BY <1>5, RestartFields
  <1>6. QED
    BY <1>1, <1>2, <1>3, <1>4, <1>5, CallSteps DEF CallStep

\* Only a login adds a player, and ClientDisconnect takes one away.
LEMMA OnlineSteps ==
  ASSUME [Next]_vars
  PROVE  /\ \A u \in online' : \/ u \in online
                               \/ \E k \in Calls : LoginInserts(k) /\ u = Uid(k)
         /\ \A c \in Conns : ClientDisconnect(c) => UidOf[c] \notin online'
PROOF
  <1>1. \A u \in online' : \/ u \in online
                          \/ \E k \in Calls : LoginInserts(k) /\ u = Uid(k)
    BY DEF Next, Gateway, Start, Continue, Connect, Dispatch, RequestLost,
        CloseSession, NotifyLost, GatewaySubscribes, StreamBreaks,
        SubscribeSets, SubscribeReturns, HandleLogin, HandleLoginRefuses,
        LoginInserts, HandleLogout, CreatePlayer, CreatePlayerUpdatesOther,
        CreatePlayerFails, HandleMatchGameWaits, HandleMatchGamePairs,
        HandleMatchStop, CreateRoomReturns, PushFirst, PushSecond,
        HandleGetPlayerData, HandleGetOnlineCount, Restart, ClientDisconnect,
        ClientDisconnectQueue, vars, service
  <1>2. \A c \in Conns : ClientDisconnect(c) => UidOf[c] \notin online'
    BY DEF ClientDisconnect
  <1>3. QED
    BY <1>1, <1>2

\* A session opens once.
LEMMA OpensOnce ==
  ASSUME IInv, [Next]_vars, NEW c \in Conns, conn'[c] = "open"
  PROVE  conn[c] \in {"new", "open"}
PROOF
  <1> USE DEF IInv, TypeOK, ConnStates
  <1>1. CASE \E d \in Conns : Connect(d) \/ CloseSession(d) \/ NotifyLost(d)
    BY <1>1 DEF Connect, CloseSession, NotifyLost
  <1>2. CASE \E d \in Conns : ClientDisconnect(d) \/ ClientDisconnectQueue(d)
    BY <1>2 DEF ClientDisconnect, ClientDisconnectQueue
  <1>3. CASE Restart
    BY <1>3 DEF Restart
  <1>4. QED
    BY <1>1, <1>2, <1>3
    DEF Next, Gateway, Start, Continue, Dispatch, RequestLost,
        GatewaySubscribes, StreamBreaks, SubscribeSets, SubscribeReturns,
        HandleLogin, HandleLoginRefuses, LoginInserts, HandleLogout,
        CreatePlayer, CreatePlayerUpdatesOther, CreatePlayerFails,
        HandleMatchGameWaits, HandleMatchGamePairs, HandleMatchStop,
        CreateRoomReturns, PushFirst, PushSecond, HandleGetPlayerData,
        HandleGetOnlineCount, vars, gateway

\* The session of a request that has been sent has been opened.
BegunOK == \A k \in Calls : call[k].pc # "unused" => conn[call[k].conn] # "new"

\* BegunOK holds in every state the lobby reaches.
LEMMA BegunInductive == Spec => []BegunOK
PROOF
  <1>1. Init => BegunOK
    BY DEF Init, Unused, BegunOK
  <1>2. IInv /\ BegunOK /\ [Next]_vars => BegunOK'
    <2> SUFFICES ASSUME IInv, BegunOK, [Next]_vars,
                        NEW k \in Calls, call'[k].pc # "unused"
                 PROVE  conn'[call'[k].conn] # "new"
      BY DEF BegunOK
    <2>1. ASSUME NEW c \in Conns, Dispatch(k, c) PROVE conn'[call'[k].conn] # "new"
      BY <2>1, CallFields DEF Dispatch, gateway
    <2>2. CASE call[k].pc # "unused" /\ call'[k].conn = call[k].conn
      <3>1. call[k].conn \in Conns
        BY <2>2 DEF IInv, CallsOK, TypeOK, CallType
      <3>2. QED
        BY <2>2, <3>1, SessionSteps DEF BegunOK
    <2>3. ASSUME NEW j \in Calls, NEW c \in Conns, Dispatch(j, c)
          PROVE  conn'[call'[k].conn] # "new"
      BY <2>1, <2>2, <2>3, CallFields
    <2>4. QED
      BY <2>2, <2>3, CallSteps, CallFields, RestartFields DEF CallStep
  <1>3. QED
    BY <1>1, <1>2, Inductive, PTL DEF Spec

-----------------------------------------------------------------------------
(* The invariant.                                                           *)

LEMMA PendingStep ==
  ASSUME PInv, [Next]_vars PROVE PendingLive'
PROOF
  <1>1. ASSUME NEW k \in Calls, call'[k].pc \in {"sent", "insert"}
        PROVE  \E c \in Conns : c = call'[k].conn /\ Live(c)'
    <2>1. CASE \E c \in Conns : Dispatch(k, c) /\ call'[k].conn = c
      BY <2>1 DEF Dispatch, Live, gateway
    <2>2. CASE call[k].pc \in {"sent", "insert"} /\ call'[k].conn = call[k].conn
      <3>1. PICK c \in Conns : c = call[k].conn /\ Live(c)
        BY <2>2 DEF PInv, PendingLive, IInv, CallsOK, TypeOK, CallType
      <3>2. k \in Pending(c)
        BY <2>2, <3>1 DEF Pending
      <3>3. Live(c)'
        BY <3>1, <3>2, SessionSteps DEF PInv
      <3>4. QED
        BY <2>2, <3>1, <3>3
    <2>3. QED
      BY <1>1, <2>1, <2>2, PendingSteps DEF PInv
  <1>2. QED
    BY <1>1 DEF PendingLive, Live

LEMMA OnlineStep ==
  ASSUME PInv, [Next]_vars PROVE OnlineLive'
PROOF
  <1> SUFFICES ASSUME NEW u \in online'
               PROVE  \E c \in Conns : UidOf[c] = u /\ Live(c)'
    BY DEF OnlineLive
  <1>1. CASE u \in online
    <2>1. PICK c \in Conns : UidOf[c] = u /\ Live(c)
      BY <1>1 DEF PInv, OnlineLive
    <2>2. ~ClientDisconnect(c)
      BY <2>1, OnlineSteps
    <2>3. Live(c)'
      BY <2>1, <2>2, SessionSteps DEF PInv
    <2>4. QED
      BY <2>1, <2>3
  <1>2. CASE \E k \in Calls : LoginInserts(k) /\ u = Uid(k)
    <2>1. PICK k \in Calls : LoginInserts(k) /\ u = Uid(k)
      BY <1>2
    <2>2. call[k].pc = "insert" /\ UNCHANGED <<conn, overtaken>>
      BY <2>1 DEF LoginInserts, gateway, observer
    <2>3. PICK c \in Conns : c = call[k].conn /\ Live(c)
      BY <2>2 DEF PInv, PendingLive, IInv, CallsOK, TypeOK, CallType
    <2>4. Live(c)'
      BY <2>2, <2>3 DEF Live
    <2>5. QED
      BY <2>1, <2>3, <2>4 DEF Uid
  <1>3. QED
    BY <1>1, <1>2, OnlineSteps

\* A request in the queue keeps its session.
LEMMA QueuedConn ==
  ASSUME IInv, [Next]_vars, NEW k \in Calls, queue = <<k>>
  PROVE  call'[k].conn = call[k].conn
PROOF
  <1>1. call[k].pc = "done"
    BY DEF IInv, QueueOK
  <1>2. ASSUME NEW j \in Calls, NEW c \in Conns, Dispatch(j, c)
        PROVE  call'[k].conn = call[k].conn
    BY <1>1, <1>2, CallFields
  <1>3. QED
    BY <1>2, CallSteps, CallFields, RestartFields DEF CallStep

LEMMA QueueLiveStep ==
  ASSUME PInv, [Next]_vars, LobbyAssumption PROVE QueueLive'
PROOF
  <1> SUFFICES ASSUME NEW k \in Calls, queue' = <<k>>
               PROVE  \E c \in Conns : /\ UidOf[c] = UidOf[call'[k].conn]
                                       /\ Live(c)' \/ conn'[c] = "erased"
    BY DEF QueueLive, Uid
  <1>1. CASE queue = <<k>>
    <2>1. PICK c \in Conns : UidOf[c] = Uid(k) /\ (Live(c) \/ conn[c] = "erased")
      BY <1>1 DEF PInv, QueueLive
    <2>2. ~ClientDisconnectQueue(c)
      <3>1. ASSUME ClientDisconnectQueue(c) PROVE FALSE
        <4>1. queue' = << >>
          BY <1>1, <2>1, <3>1, WithoutOne DEF ClientDisconnectQueue
        <4>2. QED
          BY <4>1
      <3>2. QED
        BY <3>1
    <2>3. Live(c)' \/ conn'[c] = "erased"
      BY <2>1, <2>2, SessionSteps DEF PInv, Live
    <2>4. QED
      BY <1>1, <2>1, <2>3, QueuedConn DEF PInv, Uid
  <1>2. CASE HandleMatchGameWaits(k)
    <2>1. call[k].pc = "sent" /\ UNCHANGED <<conn, overtaken>>
      BY <1>2 DEF HandleMatchGameWaits, Handles, gateway, observer
    <2>2. call'[k].conn = call[k].conn
      BY <1>2 DEF HandleMatchGameWaits, Goto, PInv, IInv, TypeOK, CallType
    <2>3. PICK c \in Conns : c = call[k].conn /\ Live(c)
      BY <2>1 DEF PInv, PendingLive, IInv, CallsOK, TypeOK, CallType
    <2>4. Live(c)'
      BY <2>1, <2>3 DEF Live
    <2>5. QED
      BY <2>2, <2>3, <2>4
  <1>3. QED
    <2>1. \A j \in Calls : <<j>> = <<k>> => j = k
      OBVIOUS
    <2>2. queue' # << >>
      OBVIOUS
    <2>3. QED
      BY <1>1, <1>2, <2>1, <2>2, QueueStep DEF PInv

LEMMA PInvStep ==
  ASSUME PInv, [Next]_vars, LobbyAssumption PROVE PInv'
PROOF
  <1>1. IInv'
    BY InvStep DEF PInv
  <1>2. OvertakenBegun'
    <2>1. \A c \in overtaken' : c \in Conns
      BY <1>1 DEF IInv, TypeOK
    <2>2. \A c \in Conns : ClientDisconnect(c) => conn[c] # "new"
      BY DEF ClientDisconnect
    <2>3. QED
      BY <2>1, <2>2, SessionSteps DEF PInv, OvertakenBegun
  <1>3. QED
    BY <1>1, <1>2, PendingStep, OnlineStep, QueueLiveStep DEF PInv

LEMMA PresenceInductive == Spec => []PInv
PROOF
  <1>1. Init => PInv
    BY LobbyAssumption, InitInv
    DEF Init, PInv, PendingLive, OnlineLive, QueueLive, OvertakenBegun, Unused
  <1>2. PInv /\ [Next]_vars => PInv'
    BY LobbyAssumption, PInvStep
  <1>3. QED
    BY <1>1, <1>2, PTL DEF Spec

-----------------------------------------------------------------------------
(* The results.                                                             *)

\* For any number of players, sessions and requests: a player none of whose
\* sessions is left is neither online nor waiting, when each disconnect has been
\* notified and has overtaken no request.
THEOREM LeaversGone == Spec => []LeaversAreGone
PROOF
  <1>1. ASSUME PInv, NEW u \in Uids,
               \A c \in Conns : UidOf[c] = u =>
                  conn[c] = "new" \/ (conn[c] = "left" /\ c \notin overtaken)
        PROVE  u \notin online /\ ~Queued(u)
    <2>1. \A c \in Conns : UidOf[c] = u => ~Live(c) /\ conn[c] # "erased"
      BY <1>1 DEF PInv, OvertakenBegun, Live
    <2>2. u \notin online
      BY <1>1, <2>1 DEF PInv, OnlineLive
    <2>3. \A k \in Calls : queue = <<k>> => Uid(k) # u
      BY <1>1, <2>1 DEF PInv, QueueLive
    <2>4. ~Queued(u)
      BY <1>1, <2>3 DEF PInv, IInv, QueueOK, Queued
    <2>5. QED
      BY <2>2, <2>4
  <1>2. PInv => LeaversAreGone
    BY <1>1 DEF LeaversAreGone
  <1>3. QED
    BY <1>2, PresenceInductive, PTL

\* For any number of players, sessions and requests: who waits with an open
\* session keeps the place until a match, a request to stop, the end of another
\* session of the same player, or a restart.
THEOREM PlaceKept == Spec => OpenSessionKeepsPlace
PROOF
  <1>1. ASSUME IInv, [Next]_vars, NEW k \in Calls, InQueue(k), ~InQueue(k)',
               conn[call[k].conn] = "open"
        PROVE  \/ Matched(k)'
               \/ \E j \in Calls : HandleMatchStop(j) /\ Uid(j) = Uid(k)
               \/ \E c \in Conns \ {call[k].conn} :
                    UidOf[c] = Uid(k) /\ conn[c] = "erased" /\ conn'[c] = "left"
               \/ restarts' # restarts
    <2>1. queue = <<k>>
      BY <1>1 DEF IInv, QueueOK, InQueue
    <2>2. queue' # queue
      BY <1>1 DEF InQueue
    <2>3. CASE \E j \in Calls : HandleMatchGameWaits(j)
      <3>1. PICK j \in Calls : HandleMatchGameWaits(j)
        BY <2>3
      <3>2. Enqueued(j) # queue
        BY <2>2, <3>1 DEF HandleMatchGameWaits
      <3>3. Enqueued(j) = <<k, j>>
        BY <1>1, <2>1, <3>2, QueueAfterPush DEF IInv
      <3>4. QED
        BY <3>1, <3>3 DEF HandleMatchGameWaits
    <2>4. CASE \E j \in Calls : HandleMatchGamePairs(j)
      <3>1. PICK j \in Calls : HandleMatchGamePairs(j)
        BY <2>4
      <3>2. PICK w \in Calls : queue = <<w>> /\ call'[j].pair = <<w, j>>
        BY <1>1, <3>1, CallFields
      <3>3. w = k
        BY <2>1, <3>2
      <3>4. call'[j].pair # None /\ call'[j].pair[1] = k
        BY <3>2, <3>3, LobbyAssumption
      <3>5. QED
        BY <3>4 DEF Matched
    <2>5. CASE \E j \in Calls : HandleMatchStop(j)
      <3>1. PICK j \in Calls : HandleMatchStop(j)
        BY <2>5
      <3>2. queue' = Without(Uid(j))
        BY <3>1 DEF HandleMatchStop
      <3>3. Uid(k) = Uid(j)
        BY <2>1, <2>2, <3>2, WithoutOne
      <3>4. QED
        BY <3>1, <3>3
    <2>6. CASE \E c \in Conns : ClientDisconnectQueue(c)
      <3>1. PICK c \in Conns : ClientDisconnectQueue(c)
        BY <2>6
      <3>2. queue' = Without(UidOf[c]) /\ conn[c] = "erased" /\ conn'[c] = "left"
        BY <1>1, <3>1 DEF ClientDisconnectQueue, IInv, TypeOK
      <3>3. Uid(k) = UidOf[c]
        BY <2>1, <2>2, <3>2, WithoutOne
      <3>4. c # call[k].conn
        BY <1>1, <3>2
      <3>5. QED
        BY <3>2, <3>3, <3>4
    <2>7. CASE Restart
      BY <1>1, <2>7 DEF Restart, IInv, TypeOK
    <2>8. QED
      BY <1>1, <2>2, <2>3, <2>4, <2>5, <2>6, <2>7
      DEF Next, Gateway, Start, Continue, Connect, Dispatch, RequestLost,
          CloseSession, NotifyLost, GatewaySubscribes, StreamBreaks,
          SubscribeSets, SubscribeReturns, HandleLogin, HandleLoginRefuses,
          LoginInserts, HandleLogout, CreatePlayer, CreatePlayerUpdatesOther,
          CreatePlayerFails, CreateRoomReturns, PushFirst, PushSecond,
          HandleGetPlayerData, HandleGetOnlineCount, ClientDisconnect, vars,
          service
  <1>2. IInv /\ [Next]_vars =>
          [\A k \in Calls : InQueue(k) /\ ~InQueue(k)' /\ conn[call[k].conn] = "open" =>
             \/ Matched(k)'
             \/ \E j \in Calls : HandleMatchStop(j) /\ Uid(j) = Uid(k)
             \/ \E c \in Conns \ {call[k].conn} :
                  UidOf[c] = Uid(k) /\ conn[c] = "erased" /\ conn'[c] = "left"
             \/ restarts' # restarts]_vars
    BY <1>1
  <1>3. QED
    BY <1>2, Inductive, PTL DEF Spec, OpenSessionKeepsPlace
=============================================================================
