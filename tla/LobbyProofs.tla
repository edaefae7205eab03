---------------------------- MODULE LobbyProofs ----------------------------
(***************************************************************************)
(* Safety of Lobby, and that it implements Matchmaking, for every number   *)
(* of players, sessions, requests and Subscribe calls.                     *)
(***************************************************************************)
EXTENDS Lobby, ListLemmas, FiniteSetTheorems, TLAPS

-----------------------------------------------------------------------------
(* The inductive invariant.                                                 *)

\* A request that has not been started is in no list and leads no match.
CallsOK ==
  \A k \in Calls :
    /\ call[k].conn = None <=> call[k].pc = "unused"
    /\ call[k].pc \in {"unused", "sent"} => call[k].pair = None
    /\ call[k].pc \in {"create", "push1", "push2"} => call[k].pair # None

\* The queue is empty, or holds one request, which is over and unmatched.
QueueOK ==
  \/ queue = << >>
  \/ \E k \in Calls : queue = <<k>> /\ call[k].pc = "done"

\* The requests of a match are two requests that have begun.
PairsOK ==
  \A k \in Calls : call[k].pair # None =>
    /\ call[call[k].pair[1]].pc \notin {"unused", "sent"}
    /\ call[call[k].pair[2]].pc \notin {"unused", "sent"}

IInv == TypeOK /\ CallsOK /\ QueueOK /\ PairsOK

-----------------------------------------------------------------------------
(* The queue.                                                               *)

\* Erasing the entries of a player leaves the queue of one request as it is, or
\* empty.
LEMMA WithoutOne ==
  ASSUME NEW k \in Calls, queue = <<k>>, NEW u
  PROVE  Without(u) = IF Uid(k) = u THEN << >> ELSE queue
PROOF
  <1> DEFINE kept == {i \in DOMAIN queue : Uid(queue[i]) # u}
             Place(i) == Cardinality({j \in kept : j <= i})
  <1>1. DOMAIN queue = {1} /\ queue[1] = k
    OBVIOUS
  <1>2. CASE Uid(k) = u
    <2>1. kept = {}
      BY <1>1, <1>2
    <2>2. Cardinality(kept) = 0
      BY <2>1, FS_EmptySet
    <2>3. Without(u) = [n \in 1 .. 0 |-> queue[CHOOSE i \in kept : Place(i) = n]]
      BY <2>2 DEF Without
    <2>4. QED
      BY <1>2, <2>3
  <1>3. CASE Uid(k) # u
    <2>1. kept = {1}
      BY <1>1, <1>3
    <2>2. Cardinality(kept) = 1
      BY <2>1, FS_Singleton
    <2>3. {j \in kept : j <= 1} = {1}
      BY <2>1
    <2>4. Place(1) = 1
      BY <2>3, FS_Singleton
    <2>5. (CHOOSE i \in kept : Place(i) = 1) = 1
      BY <2>1, <2>4
    <2>6. Without(u) = [n \in 1 .. 1 |-> queue[CHOOSE i \in kept : Place(i) = n]]
      BY <2>2 DEF Without
    <2> HIDE DEF kept, Place
    <2>7. Without(u) = [n \in 1 .. 1 |-> k]
      <3>1. \A n \in 1 .. 1 : n = 1
        OBVIOUS
      <3>2. \A n \in 1 .. 1 : queue[CHOOSE i \in kept : Place(i) = n] = k
        BY <1>1, <2>5, <3>1
      <3>3. QED
        BY <2>6, <3>2
    <2>8. QED
      BY <1>3, <2>7
  <1>4. QED
    BY <1>2, <1>3

\* Nothing is erased from an empty queue.
LEMMA WithoutNone == ASSUME queue = << >>, NEW u PROVE Without(u) = << >>
PROOF
  <1> DEFINE kept == {i \in DOMAIN queue : Uid(queue[i]) # u}
             Place(i) == Cardinality({j \in kept : j <= i})
  <1>1. kept = {}
    OBVIOUS
  <1>2. Cardinality(kept) = 0
    BY <1>1, FS_EmptySet
  <1>3. Without(u) = [n \in 1 .. 0 |-> queue[CHOOSE i \in kept : Place(i) = n]]
    BY <1>2 DEF Without
  <1>4. QED
    BY <1>3

\* What HandleMatchGame finds after its push_back.
LEMMA QueueAfterPush ==
  ASSUME QueueOK, NEW k \in Calls
  PROVE  \/ queue = << >> /\ Enqueued(k) = <<k>>
         \/ \E w \in Calls : /\ queue = <<w>> /\ call[w].pc = "done"
                             /\ \/ Uid(w) = Uid(k) /\ Enqueued(k) = <<w>>
                                \/ Uid(w) # Uid(k) /\ Enqueued(k) = <<w, k>>
PROOF
  <1>1. CASE queue = << >>
    <2>1. ~Queued(Uid(k))
      BY <1>1 DEF Queued
    <2>2. QED
      BY <1>1, <2>1 DEF Enqueued
  <1>2. ASSUME NEW w \in Calls, queue = <<w>>, call[w].pc = "done"
        PROVE  \/ Uid(w) = Uid(k) /\ Enqueued(k) = <<w>>
               \/ Uid(w) # Uid(k) /\ Enqueued(k) = <<w, k>>
    <2>1. DOMAIN queue = {1} /\ queue[1] = w
      BY <1>2
    <2>2. Queued(Uid(k)) <=> Uid(w) = Uid(k)
      BY <2>1 DEF Queued
    <2>3. Append(<<w>>, k) = <<w, k>>
      BY AppendSecond
    <2>4. QED
      BY <1>2, <2>2, <2>3 DEF Enqueued
  <1>3. QED
    BY <1>1, <1>2 DEF QueueOK

\* A match leaves nobody behind.
LEMMA QueueAfterPair ==
  ASSUME NEW a \in Calls, NEW b \in Calls PROVE AfterPair(<<a, b>>) = << >>
  BY DEF AfterPair

-----------------------------------------------------------------------------
(* Types.                                                                   *)

\* Nothing has happened at the start.
LEMMA InitInv == ASSUME LobbyAssumption, Init PROVE IInv
PROOF
  <1>1. TypeOK
    <2>1. Unused \in CallType
      BY DEF Unused, CallType, CallPc
    <2>2. QED
      BY <2>1 DEF Init, TypeOK, ConnStates, SubStates
  <1>2. CallsOK /\ QueueOK /\ PairsOK
    BY DEF Init, Unused, CallsOK, QueueOK, PairsOK
  <1>3. QED
    BY <1>1, <1>2 DEF IInv

\* HandleMatchGame pairs its own request with the one that waits, which is of
\* another player.
LEMMA PairStep ==
  ASSUME IInv, NEW k \in Calls, HandleMatchGamePairs(k)
  PROVE  \E w \in Calls :
           /\ queue = <<w>> /\ queue' = << >>
           /\ call[w].pc = "done" /\ Uid(w) # Uid(k)
           /\ call' = [call EXCEPT ![k].pc = "create", ![k].pair = <<w, k>>]
PROOF
  <1>1. ASSUME NEW w \in Calls, Enqueued(k) = <<w>> PROVE FALSE
    BY <1>1 DEF HandleMatchGamePairs
  <1>2. PICK w \in Calls : /\ queue = <<w>> /\ call[w].pc = "done"
                           /\ Uid(w) # Uid(k) /\ Enqueued(k) = <<w, k>>
    BY <1>1, QueueAfterPush DEF IInv
  <1>3. queue' = << >>
    BY <1>2, QueueAfterPair DEF HandleMatchGamePairs
  <1>4. Enqueued(k)[1] = w /\ Enqueued(k)[2] = k
    BY <1>2
  <1>5. call' = [call EXCEPT ![k].pc = "create", ![k].pair = <<w, k>>]
    BY <1>4 DEF HandleMatchGamePairs
  <1>6. QED
    BY <1>2, <1>3, <1>5

\* The queue after each of the steps that change it.
LEMMA QueueStep ==
  ASSUME IInv, [Next]_vars, LobbyAssumption
  PROVE  \/ queue' = queue
         \/ queue' = << >>
         \/ \E k \in Calls : HandleMatchGameWaits(k) /\ queue = << >> /\ queue' = <<k>>
PROOF
  <1>1. ASSUME NEW u PROVE Without(u) \in {queue, << >>}
    BY WithoutOne, WithoutNone DEF IInv, QueueOK
  <1>2. ASSUME NEW k \in Calls, HandleMatchGameWaits(k)
        PROVE  queue' = queue \/ (queue = << >> /\ queue' = <<k>>)
    <2>1. ASSUME NEW w \in Calls, Enqueued(k) = <<w, k>> PROVE FALSE
      BY <1>2, <2>1 DEF HandleMatchGameWaits
    <2>2. QED
      BY <1>2, <2>1, QueueAfterPush DEF HandleMatchGameWaits, IInv
  <1>3. ASSUME NEW k \in Calls, HandleMatchGamePairs(k)
        PROVE  queue' = << >>
    BY <1>3, PairStep
  <1>4. ASSUME NEW k \in Calls, HandleMatchStop(k) PROVE queue' \in {queue, << >>}
    BY <1>1, <1>4 DEF HandleMatchStop
  <1>5. ASSUME NEW c \in Conns, ClientDisconnectQueue(c) PROVE queue' \in {queue, << >>}
    BY <1>1, <1>5 DEF ClientDisconnectQueue
  <1>6. QED
    BY <1>2, <1>3, <1>4, <1>5
    DEF Next, Gateway, Start, Continue, Connect, Dispatch, RequestLost,
        CloseSession, NotifyLost, GatewaySubscribes, StreamBreaks,
        SubscribeSets, SubscribeReturns, HandleLogin, HandleLoginRefuses,
        LoginInserts, HandleLogout, CreatePlayer, CreatePlayerUpdatesOther,
        CreatePlayerFails, CreateRoomReturns, PushFirst, PushSecond,
        HandleGetPlayerData, HandleGetOnlineCount, Restart, ClientDisconnect,
        Goto, vars, service

\* What a step does to the calls: one call moves on, or none does.  A call gets
\* its session when it is dispatched, and its match in HandleMatchGame.
Moves(k, pc) ==
  /\ call[k].pc \notin {"unused", "done"} /\ pc \in CallPc \ {"unused", "sent"}
  /\ pc \in {"create", "push1", "push2"} => call[k].pair # None
  /\ pc = "insert" => call[k].pc = "sent"
  /\ call' = [call EXCEPT ![k].pc = pc]

CallStep ==
  \/ UNCHANGED call
  \/ \E k \in Calls, c \in Conns : Dispatch(k, c)
  \/ \E k \in Calls : HandleMatchGamePairs(k)
  \/ \E k \in Calls, pc \in CallPc : Moves(k, pc)
  \/ Restart

\* Where the first step of a request takes it.
LEMMA StartMoves ==
  ASSUME IInv, NEW k \in Calls, Start(k)
  PROVE  HandleMatchGamePairs(k) \/ Moves(k, "insert") \/ Moves(k, "done")
PROOF
  <1> USE DEF IInv, CallsOK, CallPc
  <1>1. CASE HandleLogin(k)
    BY <1>1 DEF HandleLogin, Moves, Handles, Goto
  <1>2. CASE ~HandleMatchGamePairs(k) /\ ~HandleLogin(k)
    BY <1>2
    DEF Start, HandleLoginRefuses, HandleLogout, CreatePlayer,
        CreatePlayerUpdatesOther, CreatePlayerFails, HandleMatchGameWaits,
        HandleMatchStop, HandleGetPlayerData, HandleGetOnlineCount,
        Handles, Goto, Moves
  <1>3. QED
    BY <1>1, <1>2

\* Every step moves one request, none, or ends them all.
LEMMA CallSteps ==
  ASSUME IInv, [Next]_vars PROVE CallStep
PROOF
  <1> USE DEF IInv, CallsOK, CallPc
  <1>1. ASSUME NEW k \in Calls, Start(k) PROVE CallStep
    BY <1>1, StartMoves DEF CallStep
  <1>2. ASSUME NEW k \in Calls, Continue(k) PROVE CallStep
    <2>1. Moves(k, "done") \/ Moves(k, "push1") \/ Moves(k, "push2")
      BY <1>2
      DEF Continue, LoginInserts, CreateRoomReturns, PushFirst, PushSecond,
          Goto, Moves
    <2>2. QED
      BY <2>1 DEF CallStep
  <1>3. ASSUME NEW k \in Calls, RequestLost(k) PROVE CallStep
    <2>1. Moves(k, "done")
      BY <1>3 DEF RequestLost, Goto, Moves
    <2>2. QED
      BY <2>1 DEF CallStep
  <1>4. QED
    BY <1>1, <1>2, <1>3
    DEF Next, Gateway, Connect, CloseSession, NotifyLost, GatewaySubscribes,
        StreamBreaks, SubscribeSets, SubscribeReturns, ClientDisconnect,
        ClientDisconnectQueue, vars, CallStep

\* What the fields of a call are after its step, and that other calls stay.
LEMMA CallFields ==
  ASSUME IInv, NEW k \in Calls
  PROVE  /\ \A c \in Conns : Dispatch(k, c) =>
              /\ call[k].pc = "unused" /\ call[k].pair = None
              /\ call'[k].pc = "sent" /\ call'[k].conn = c
              /\ call'[k].pair = None
              /\ \A j \in Calls \ {k} : call'[j] = call[j]
         /\ \A pc \in CallPc : Moves(k, pc) =>
              /\ call'[k].pc = pc /\ call'[k].conn = call[k].conn
              /\ call'[k].pair = call[k].pair
              /\ call[k].pc # "unused" /\ pc \notin {"unused", "sent"}
              /\ pc \in {"create", "push1", "push2"} => call[k].pair # None
              /\ \A j \in Calls \ {k} : call'[j] = call[j]
         /\ HandleMatchGamePairs(k) => \E w \in Calls :
              /\ queue = <<w>> /\ queue' = << >> /\ w # k
              /\ call[k].pc = "sent" /\ call[w].pc = "done"
              /\ Uid(w) # Uid(k)
              /\ call'[k].pc = "create" /\ call'[k].conn = call[k].conn
              /\ call'[k].pair = <<w, k>>
              /\ \A j \in Calls \ {k} : call'[j] = call[j]
PROOF
  <1> USE DEF IInv, TypeOK, CallType
  <1>1. ASSUME NEW c \in Conns, Dispatch(k, c)
        PROVE  /\ call[k].pc = "unused" /\ call[k].pair = None
               /\ call'[k].pc = "sent" /\ call'[k].conn = c
               /\ call'[k].pair = None
               /\ \A j \in Calls \ {k} : call'[j] = call[j]
    BY <1>1 DEF Dispatch, CallsOK
  <1>2. ASSUME NEW pc \in CallPc, Moves(k, pc)
        PROVE  /\ call'[k].pc = pc /\ call'[k].conn = call[k].conn
               /\ call'[k].pair = call[k].pair
               /\ call[k].pc # "unused" /\ pc \notin {"unused", "sent"}
               /\ pc \in {"create", "push1", "push2"} => call[k].pair # None
               /\ \A j \in Calls \ {k} : call'[j] = call[j]
    BY <1>2 DEF Moves
  <1>3. ASSUME HandleMatchGamePairs(k)
        PROVE  \E w \in Calls :
                 /\ queue = <<w>> /\ queue' = << >> /\ w # k
                 /\ call[k].pc = "sent" /\ call[w].pc = "done"
                 /\ Uid(w) # Uid(k)
                 /\ call'[k].pc = "create" /\ call'[k].conn = call[k].conn
                 /\ call'[k].pair = <<w, k>>
                 /\ \A j \in Calls \ {k} : call'[j] = call[j]
    <2>1. PICK w \in Calls :
            /\ queue = <<w>> /\ queue' = << >>
            /\ call[w].pc = "done" /\ Uid(w) # Uid(k)
            /\ call' = [call EXCEPT ![k].pc = "create", ![k].pair = <<w, k>>]
      BY <1>3, PairStep
    <2>2. call[k].pc = "sent"
      BY <1>3 DEF HandleMatchGamePairs, Handles
    <2>3. QED
      BY <2>1, <2>2
  <1>4. QED
    BY <1>1, <1>2, <1>3

\* A restart ends the requests that have begun, and leaves their sessions and
\* their matches as they are.
LEMMA RestartFields ==
  ASSUME IInv, Restart, NEW k \in Calls
  PROVE  /\ call'[k].conn = call[k].conn /\ call'[k].pair = call[k].pair
         /\ \/ call[k].pc \in {"unused", "sent"} /\ call'[k].pc = call[k].pc
            \/ call[k].pc \notin {"unused", "sent"} /\ call'[k].pc = "done"
  BY DEF Restart, IInv, TypeOK, CallType

\* Every step leaves every call in shape.
LEMMA CallTypeStep ==
  ASSUME IInv, [Next]_vars, LobbyAssumption
  PROVE  call' \in [Calls -> CallType]
PROOF
  <1>0. call \in [Calls -> CallType]
    BY DEF IInv, TypeOK
  <1>2. ASSUME NEW k \in Calls, NEW c \in Conns, Dispatch(k, c)
        PROVE  call' \in [Calls -> CallType]
    <2>1. "sent" \in CallPc /\ c \in Conns \cup {None}
      BY DEF CallPc
    <2>2. [call[k] EXCEPT !.pc = "sent", !.conn = c] \in CallType
      BY <1>0, <2>1 DEF CallType
    <2>3. call' = [call EXCEPT ![k] = [call[k] EXCEPT !.pc = "sent", !.conn = c]]
      BY <1>0, <1>2 DEF Dispatch
    <2>4. QED
      BY <1>0, <2>2, <2>3
  <1>3. ASSUME NEW k \in Calls, NEW pc \in CallPc, Moves(k, pc)
        PROVE  call' \in [Calls -> CallType]
    BY <1>0, <1>3 DEF Moves, CallType
  <1>4. ASSUME NEW k \in Calls, HandleMatchGamePairs(k)
        PROVE  call' \in [Calls -> CallType]
    <2>1. PICK w \in Calls :
            call' = [call EXCEPT ![k].pc = "create", ![k].pair = <<w, k>>]
      BY <1>4, PairStep
    <2>2. <<w, k>> \in Calls \X Calls /\ "create" \in CallPc
      BY DEF CallPc
    <2>3. QED
      BY <1>0, <2>1, <2>2 DEF CallType
  <1>5. ASSUME Restart PROVE call' \in [Calls -> CallType]
    <2>1. \A k \in Calls : [call[k] EXCEPT !.pc = "done"] \in CallType
      BY <1>0 DEF CallType, CallPc
    <2>2. QED
      BY <1>0, <1>5, <2>1 DEF Restart
  <1>6. QED
    BY <1>0, <1>2, <1>3, <1>4, <1>5, CallSteps DEF CallStep

\* A table with one more nickname keeps the nicknames apart.
LEMMA TableStep ==
  ASSUME IInv, NEW k \in Calls, NEW n \in Nicknames, CreatePlayer(k, n),
         LobbyAssumption
  PROVE  nickname' \in Tables
PROOF
  <1>1. /\ nickname \in [Uids -> Nicknames \cup {None}]
        /\ \A u, v \in Uids : nickname[u] = nickname[v] /\ nickname[u] # None => u = v
    BY DEF IInv, TypeOK, Tables
  <1>2. /\ nickname' = [nickname EXCEPT ![Uid(k)] = n]
        /\ \A v \in Uids \ {Uid(k)} : nickname[v] # n
    BY DEF CreatePlayer, Taken
  <1> DEFINE w == Uid(k)
  <1> HIDE DEF w
  <1>3. nickname' \in [Uids -> Nicknames \cup {None}]
    BY <1>1, <1>2 DEF w
  <1>4. ASSUME NEW u \in Uids, NEW v \in Uids,
               nickname'[u] = nickname'[v], nickname'[u] # None
        PROVE  u = v
    BY <1>1, <1>2, <1>4 DEF w
  <1>5. QED
    BY <1>3, <1>4 DEF Tables

\* Every step leaves every variable in shape.
LEMMA TypeStep ==
  ASSUME IInv, [Next]_vars, LobbyAssumption PROVE TypeOK'
PROOF
  <1>0. UidOf \in [Conns -> Uids]
    BY DEF LobbyAssumption
  <1>1. call' \in [Calls -> CallType]
    BY CallTypeStep
  <1>2. queue' \in Seq(Calls)
    <2>1. << >> \in Seq(Calls) /\ \A k \in Calls : <<k>> \in Seq(Calls)
      OBVIOUS
    <2>2. queue \in Seq(Calls)
      BY DEF IInv, TypeOK
    <2>3. QED
      BY <2>1, <2>2, QueueStep
  <1> USE DEF IInv, TypeOK
  <1>3. nickname' \in Tables
    <2>1. CASE UNCHANGED nickname
      BY <2>1
    <2>2. CASE \E k \in Calls, n \in Nicknames : CreatePlayer(k, n)
      BY <2>2, TableStep
    <2>3. QED
      BY <2>1, <2>2
      DEF Next, Gateway, Start, Continue, Connect, Dispatch, RequestLost,
          CloseSession, NotifyLost, GatewaySubscribes, StreamBreaks,
          SubscribeSets, SubscribeReturns, HandleLogin, HandleLoginRefuses,
          LoginInserts, HandleLogout, CreatePlayerUpdatesOther,
          CreatePlayerFails, HandleMatchGameWaits, HandleMatchGamePairs,
          CreateRoomReturns, PushFirst, PushSecond, HandleMatchStop,
          HandleGetPlayerData, HandleGetOnlineCount, Restart,
          ClientDisconnect, ClientDisconnectQueue, vars
  <1>4. online' \subseteq Uids
    <2>1. ASSUME NEW k \in Calls, LoginInserts(k) PROVE online' \subseteq Uids
      <3>1. call[k].conn \in Conns
        BY <2>1 DEF LoginInserts, CallsOK, CallType
      <3>2. QED
        BY <1>0, <2>1, <3>1 DEF LoginInserts, Uid
    <2>2. QED
      BY <2>1
      DEF Next, Gateway, Start, Continue, Connect, Dispatch, RequestLost,
          CloseSession, NotifyLost, GatewaySubscribes, StreamBreaks,
          SubscribeSets, SubscribeReturns, HandleLogin, HandleLoginRefuses,
          HandleLogout, CreatePlayer, CreatePlayerUpdatesOther,
          CreatePlayerFails, HandleMatchGameWaits, HandleMatchGamePairs,
          CreateRoomReturns, PushFirst, PushSecond, HandleMatchStop,
          HandleGetPlayerData, HandleGetOnlineCount, Restart,
          ClientDisconnect, ClientDisconnectQueue, vars, service
  <1>5. /\ push_writer' \in Subs \cup {None}
        /\ sub' \in [Subs -> SubStates]
        /\ broken' \subseteq Subs
    BY DEF Next, Gateway, Start, Continue, Connect, Dispatch, RequestLost,
          CloseSession, NotifyLost, GatewaySubscribes, StreamBreaks,
          SubscribeSets, SubscribeReturns, HandleLogin, HandleLoginRefuses,
          LoginInserts, HandleLogout, CreatePlayer, CreatePlayerUpdatesOther,
          CreatePlayerFails, HandleMatchGameWaits, HandleMatchGamePairs,
          CreateRoomReturns, PushFirst, PushSecond, HandleMatchStop,
          HandleGetPlayerData, HandleGetOnlineCount, Restart,
          ClientDisconnect, ClientDisconnectQueue, vars, service, gateway,
          SubStates, InLobby
  <1>6. conn' \in [Conns -> ConnStates] /\ overtaken' \subseteq Conns
    <2>1. CASE Restart
      BY <2>1 DEF Restart, ConnStates
    <2>2. CASE ~Restart
      BY <2>2 DEF Next, Gateway, Start, Continue, Connect, Dispatch, RequestLost,
            CloseSession, NotifyLost, GatewaySubscribes, StreamBreaks,
            SubscribeSets, SubscribeReturns, HandleLogin, HandleLoginRefuses,
            LoginInserts, HandleLogout, CreatePlayer, CreatePlayerUpdatesOther,
            CreatePlayerFails, HandleMatchGameWaits, HandleMatchGamePairs,
            CreateRoomReturns, PushFirst, PushSecond, HandleMatchStop,
            HandleGetPlayerData, HandleGetOnlineCount,
            ClientDisconnect, ClientDisconnectQueue, vars, gateway, observer,
            ConnStates
    <2>3. QED
      BY <2>1, <2>2
  <1>7. told' \in [Calls -> {"no", "sent", "dropped", "forgotten"}]
    BY DEF Next, Gateway, Start, Continue, Connect, Dispatch, RequestLost,
          CloseSession, NotifyLost, GatewaySubscribes, StreamBreaks,
          SubscribeSets, SubscribeReturns, HandleLogin, HandleLoginRefuses,
          LoginInserts, HandleLogout, CreatePlayer, CreatePlayerUpdatesOther,
          CreatePlayerFails, HandleMatchGameWaits, HandleMatchGamePairs,
          CreateRoomReturns, PushFirst, PushSecond, HandleMatchStop,
          HandleGetPlayerData, HandleGetOnlineCount, Restart,
          ClientDisconnect, ClientDisconnectQueue, vars, observer,
          PushToGateway
  <1>8. fresh' \subseteq Subs /\ restarts' \in 0 .. MaxRestarts
    <2>1. CASE Restart
      BY <2>1, LobbyAssumption DEF LobbyAssumption, Restart
    <2>2. CASE ~Restart
      BY <2>2 DEF Next, Gateway, Start, Continue, Connect, Dispatch,
          RequestLost, CloseSession, NotifyLost, GatewaySubscribes,
          StreamBreaks, SubscribeSets, SubscribeReturns, HandleLogin,
          HandleLoginRefuses, LoginInserts, HandleLogout, CreatePlayer,
          CreatePlayerUpdatesOther, CreatePlayerFails, HandleMatchGameWaits,
          HandleMatchGamePairs, CreateRoomReturns, PushFirst, PushSecond,
          HandleMatchStop, HandleGetPlayerData, HandleGetOnlineCount,
          ClientDisconnect, ClientDisconnectQueue, vars, observer
    <2>3. QED
      BY <2>1, <2>2
  <1>9. QED
    BY <1>1, <1>2, <1>3, <1>4, <1>5, <1>6, <1>7, <1>8

-----------------------------------------------------------------------------
(* The inductive invariant.                                                 *)

\* Every step keeps the queue a waiting room for one request, and matches only
\* requests that have begun.
LEMMA StructureStep ==
  ASSUME IInv, [Next]_vars, LobbyAssumption
  PROVE  CallsOK' /\ QueueOK' /\ PairsOK'
PROOF
  <1>0. /\ CallsOK /\ QueueOK /\ PairsOK
        /\ \A k \in Calls : call[k].pair # None =>
              call[k].pair[1] \in Calls /\ call[k].pair[2] \in Calls
        /\ \A c \in Conns : c # None
        /\ \A k, j \in Calls : <<k, j>> # None
    <2>1. \A k \in Calls : call[k].pair \in (Calls \X Calls) \cup {None}
      BY DEF IInv, TypeOK, CallType
    <2>2. QED
      BY <2>1 DEF IInv, LobbyAssumption
  <1>1. CASE UNCHANGED call
    <2>1. CallsOK' /\ PairsOK'
      BY <1>0, <1>1 DEF CallsOK, PairsOK
    <2>2. ASSUME NEW k \in Calls, HandleMatchGameWaits(k) PROVE FALSE
      BY <1>1, <2>2 DEF HandleMatchGameWaits, Handles, Goto, IInv, TypeOK, CallType
    <2>3. QueueOK'
      BY <1>0, <1>1, <2>2, QueueStep DEF QueueOK
    <2>4. QED
      BY <2>1, <2>3
  <1>2. ASSUME NEW k \in Calls, NEW c \in Conns, Dispatch(k, c)
        PROVE  CallsOK' /\ QueueOK' /\ PairsOK'
    <2>1. /\ call[k].pc = "unused" /\ call[k].pair = None
          /\ call'[k].pc = "sent" /\ call'[k].conn = c
          /\ call'[k].pair = None
          /\ \A j \in Calls \ {k} : call'[j] = call[j]
      BY <1>2, CallFields
    <2>2. queue' = queue
      BY <1>2 DEF Dispatch, service
    <2>3. CallsOK'
      BY <1>0, <2>1 DEF CallsOK
    <2>4. QueueOK'
      BY <1>0, <2>1, <2>2 DEF QueueOK
    <2>5. PairsOK'
      BY <1>0, <2>1 DEF PairsOK
    <2>6. QED
      BY <2>3, <2>4, <2>5
  <1>3. ASSUME NEW k \in Calls, NEW pc \in CallPc, Moves(k, pc)
        PROVE  CallsOK' /\ QueueOK' /\ PairsOK'
    <2>1. /\ call'[k].pc = pc /\ call'[k].conn = call[k].conn
          /\ call'[k].pair = call[k].pair
          /\ call[k].pc # "unused" /\ pc \notin {"unused", "sent"}
          /\ pc \in {"create", "push1", "push2"} => call[k].pair # None
          /\ \A j \in Calls \ {k} : call'[j] = call[j]
      BY <1>3, CallFields
    <2>2. CallsOK'
      BY <1>0, <2>1 DEF CallsOK
    <2>3. PairsOK'
      BY <1>0, <2>1 DEF PairsOK
    <2>4. ASSUME NEW j \in Calls, call[j].pc = "done" PROVE call'[j].pc = "done"
      <3>1. CASE j = k
        BY <1>3, <2>4, <3>1 DEF Moves
      <3>2. CASE j # k
        BY <2>1, <2>4, <3>2
      <3>3. QED
        BY <3>1, <3>2
    <2>5. ASSUME NEW j \in Calls, HandleMatchGameWaits(j) PROVE call'[j].pc = "done"
      BY <2>5 DEF HandleMatchGameWaits, Goto, IInv, TypeOK, CallType
    <2>6. QueueOK'
      BY <1>0, <2>4, <2>5, QueueStep DEF QueueOK
    <2>7. QED
      BY <2>2, <2>3, <2>6
  <1>4. ASSUME NEW k \in Calls, HandleMatchGamePairs(k)
        PROVE  CallsOK' /\ QueueOK' /\ PairsOK'
    <2>1. PICK w \in Calls :
            /\ queue = <<w>> /\ queue' = << >> /\ w # k
            /\ call[k].pc = "sent" /\ call[w].pc = "done"
            /\ call'[k].pc = "create" /\ call'[k].conn = call[k].conn
            /\ call'[k].pair = <<w, k>>
            /\ \A j \in Calls \ {k} : call'[j] = call[j]
      BY <1>4, CallFields
    <2>2. CallsOK'
      <3>1. call'[k].pair # None
        BY <1>0, <2>1
      <3>2. QED
        BY <1>0, <2>1, <3>1 DEF CallsOK
    <2>3. QueueOK'
      BY <2>1 DEF QueueOK
    <2>4. PairsOK'
      <3> SUFFICES ASSUME NEW j \in Calls, call'[j].pair # None
                   PROVE  /\ call'[call'[j].pair[1]].pc \notin {"unused", "sent"}
                          /\ call'[call'[j].pair[2]].pc \notin {"unused", "sent"}
        BY DEF PairsOK
      <3>1. CASE j = k
        BY <2>1, <3>1
      <3>2. CASE j # k
        BY <1>0, <2>1, <3>2 DEF PairsOK
      <3>3. QED
        BY <3>1, <3>2
    <2>5. QED
      BY <2>2, <2>3, <2>4
  <1>5. ASSUME Restart PROVE CallsOK' /\ QueueOK' /\ PairsOK'
    <2>1. CallsOK'
      BY <1>0, <1>5, RestartFields DEF CallsOK
    <2>2. QueueOK'
      BY <1>5 DEF Restart, QueueOK
    <2>3. PairsOK'
      BY <1>0, <1>5, RestartFields DEF PairsOK
    <2>4. QED
      BY <2>1, <2>2, <2>3
  <1>6. QED
    BY <1>1, <1>2, <1>3, <1>4, <1>5, CallSteps DEF CallStep

\* Every step keeps the invariant.
LEMMA InvStep == ASSUME IInv, [Next]_vars, LobbyAssumption PROVE IInv'
  BY TypeStep, StructureStep DEF IInv

\* IInv holds in every state the lobby reaches.
LEMMA Inductive == Spec => []IInv
PROOF
  <1>1. Init => IInv
    BY InitInv, LobbyAssumption
  <1>2. IInv /\ [Next]_vars => IInv'
    BY InvStep, LobbyAssumption
  <1>3. QED
    BY <1>1, <1>2, PTL DEF Spec

-----------------------------------------------------------------------------
(* The theorems.                                                            *)

\* Type correctness of the lobby.
THEOREM TypeCorrect == Spec => []TypeOK
PROOF
  <1>1. IInv => TypeOK
    BY DEF IInv
  <1>2. QED
    BY <1>1, Inductive, PTL

\* Only the gateway's push loop and the Subscribe handlers touch push_writer_
\* and the streams.
LEMMA OnlySubscribe ==
  ASSUME [Next]_vars
  PROVE  \/ UNCHANGED <<push_writer, sub, broken, fresh>>
         \/ \E s \in Subs : \/ SubscribeSets(s) \/ SubscribeReturns(s)
                            \/ GatewaySubscribes(s) \/ StreamBreaks(s)
         \/ Restart
  BY DEF Next, Gateway, Start, Continue, Connect, Dispatch, RequestLost,
         CloseSession, NotifyLost, HandleLogin, HandleLoginRefuses,
         LoginInserts, HandleLogout, CreatePlayer, CreatePlayerUpdatesOther,
         CreatePlayerFails, HandleMatchGameWaits, HandleMatchGamePairs,
         CreateRoomReturns, PushFirst, PushSecond, HandleMatchStop,
         HandleGetPlayerData, HandleGetOnlineCount, ClientDisconnect, ClientDisconnectQueue, vars, service, gateway,
         observer

\* Only PushToGateway tells players of a match.
LEMMA OnlyPush ==
  ASSUME [Next]_vars
  PROVE  \/ UNCHANGED told
         \/ \E k \in Calls : PushFirst(k) \/ PushSecond(k)
         \/ Restart
  BY DEF Next, Gateway, Start, Continue, Connect, Dispatch, RequestLost,
         CloseSession, NotifyLost, GatewaySubscribes, StreamBreaks,
         SubscribeSets, SubscribeReturns, HandleLogin, HandleLoginRefuses,
         LoginInserts, HandleLogout, CreatePlayer, CreatePlayerUpdatesOther,
         CreatePlayerFails, HandleMatchGameWaits, HandleMatchGamePairs,
         CreateRoomReturns, HandleMatchStop, HandleGetPlayerData,
          HandleGetOnlineCount, ClientDisconnect,
         ClientDisconnectQueue, vars, observer

\* PushToGateway never writes to the stream of a Subscribe handler that has
\* returned, however the subscriptions of a gateway overlap.
THEOREM WriterHolds == Spec => []WriterAlive
PROOF
  <1>1. Init => WriterAlive
    BY DEF Init, WriterAlive
  <1>2. TypeOK /\ WriterAlive /\ [Next]_vars => WriterAlive'
    <2> SUFFICES ASSUME TypeOK, WriterAlive, [Next]_vars PROVE WriterAlive'
      OBVIOUS
    <2>0. None \notin Subs /\ sub \in [Subs -> SubStates] /\ push_writer \in Subs \cup {None}
      BY LobbyAssumption DEF LobbyAssumption, TypeOK
    <2>1. ASSUME NEW s \in Subs, SubscribeSets(s) PROVE WriterAlive'
      BY <2>0, <2>1 DEF SubscribeSets, WriterAlive
    <2>2. ASSUME NEW s \in Subs, SubscribeReturns(s) PROVE WriterAlive'
      BY <2>2 DEF SubscribeReturns, WriterAlive
    <2>3. ASSUME NEW s \in Subs, GatewaySubscribes(s) PROVE WriterAlive'
      BY <2>0, <2>3 DEF GatewaySubscribes, service, WriterAlive
    <2>4. CASE UNCHANGED <<push_writer, sub>>
      BY <2>4 DEF WriterAlive
    <2>5. CASE Restart
      BY <2>5 DEF Restart, WriterAlive
    <2>6. QED
      BY <2>1, <2>2, <2>3, <2>4, <2>5, OnlySubscribe DEF StreamBreaks, service
  <1>3. QED
    BY <1>1, <1>2, TypeCorrect, PTL DEF Spec

\* A Subscribe call that finds no other in the lobby is pushed to until the
\* gateway loses it.  It stays alone: the gateway opens another stream only when
\* it has lost this one.
THEOREM FreshStreamHolds == Spec => []FreshStreamServes
PROOF
  <1> DEFINE Alone ==
        \A s \in fresh \ broken :
          /\ sub[s] = "serving"
          /\ push_writer = s
          /\ \A t \in Subs \ {s} : sub[t] \in {"new", "returned"}
  <1>1. Init => Alone
    BY DEF Init
  <1>2. TypeOK /\ Alone /\ [Next]_vars => Alone'
    <2> SUFFICES ASSUME TypeOK, Alone, [Next]_vars PROVE Alone'
      OBVIOUS
    <2>0. sub \in [Subs -> SubStates] /\ broken \subseteq Subs /\ fresh \subseteq Subs
      BY DEF TypeOK
    <2>1. ASSUME NEW s \in Subs, SubscribeSets(s) PROVE Alone'
      BY <2>0, <2>1 DEF SubscribeSets
    <2>2. ASSUME NEW s \in Subs, SubscribeReturns(s) PROVE Alone'
      BY <2>0, <2>2 DEF SubscribeReturns, observer
    <2>3. ASSUME NEW s \in Subs, GatewaySubscribes(s) PROVE Alone'
      BY <2>0, <2>3 DEF GatewaySubscribes, service, observer
    <2>4. ASSUME NEW s \in Subs, StreamBreaks(s) PROVE Alone'
      BY <2>0, <2>4 DEF StreamBreaks, service, observer
    <2>5. CASE UNCHANGED <<push_writer, sub, broken, fresh>>
      BY <2>5
    <2>6. CASE Restart
      BY <2>0, <2>6 DEF Restart, InLobby
    <2>7. QED
      BY <2>1, <2>2, <2>3, <2>4, <2>5, <2>6, OnlySubscribe
  <1>3. Alone => FreshStreamServes
    BY DEF FreshStreamServes
  <1>4. QED
    BY <1>1, <1>2, <1>3, TypeCorrect, PTL DEF Spec

-----------------------------------------------------------------------------
(* Who has been told of a match.                                            *)

\* Request p has place n in the match of request k.
Part(k, n, p) == call[k].pair # None /\ call[k].pair[n] = p

\* Where request k is before it notifies place n of its match.
Before(n) == IF n = 1 THEN {"create", "push1"} ELSE {"create", "push1", "push2"}

\* A request has a place in at most one match, and none while it is new or waits.
OneMatch ==
  /\ \A j, k, p \in Calls : \A m, n \in {1, 2} :
       Part(j, m, p) /\ Part(k, n, p) => j = k /\ m = n
  /\ \A k \in Calls : queue = <<k>> => ~Matched(k)
  /\ \A k \in Calls : call[k].pc = "insert" => call[k].pair = None

\* It is told when the request that leads the match has come to its place.
ToldInTurn ==
  /\ \A p \in Calls : ~Matched(p) => told[p] = "no"
  /\ \A k, p \in Calls : \A n \in {1, 2} :
       Part(k, n, p) => (told[p] = "no" <=> call[k].pc \in Before(n))

TellsOK == OneMatch /\ ToldInTurn

\* A step that notifies nobody and matches nobody.
Quietly ==
  /\ UNCHANGED told
  /\ \A k \in Calls :
       /\ call'[k].pair = call[k].pair
       /\ call'[k].pc = "insert" => call[k].pair = None
       /\ call[k].pair # None =>
            \A n \in {1, 2} : call'[k].pc \in Before(n) <=> call[k].pc \in Before(n)

\* What a step does to the matches and to who has been told.
LEMMA TellSteps ==
  ASSUME IInv, OneMatch, [Next]_vars
  PROVE  \/ Quietly
         \/ \E k \in Calls : \/ HandleMatchGamePairs(k)
                             \/ PushFirst(k) \/ PushSecond(k)
         \/ Restart
PROOF
  <1>0. /\ call \in [Calls -> CallType]
        /\ \A k \in Calls : /\ call[k].pc \in {"unused", "sent", "insert"} => call[k].pair = None
                            /\ call[k].pc \in CallPc
    BY DEF IInv, TypeOK, CallType, CallsOK, OneMatch
  <1>1. CASE UNCHANGED <<call, told>>
    BY <1>0, <1>1 DEF Quietly
  <1>2. ASSUME NEW k \in Calls, NEW c \in Conns, Dispatch(k, c) PROVE Quietly
    <2>1. UNCHANGED told
      BY <1>2 DEF Dispatch, observer
    <2>2. QED
      BY <1>0, <1>2, <2>1, CallFields DEF Quietly
  <1>3. ASSUME NEW k \in Calls, NEW pc \in CallPc, Moves(k, pc), UNCHANGED told,
               \/ call[k].pc \in {"sent", "insert"}
               \/ call[k].pc = "create" /\ pc = "push1"
        PROVE  Quietly
    <2>1. /\ call'[k].pc = pc /\ call'[k].pair = call[k].pair
          /\ \A j \in Calls \ {k} : call'[j] = call[j]
      BY <1>3, CallFields
    <2>2. pc = "insert" => call[k].pair = None
      BY <1>0, <1>3 DEF Moves
    <2>3. ASSUME call[k].pair # None, NEW n \in {1, 2}
          PROVE  pc \in Before(n) <=> call[k].pc \in Before(n)
      BY <1>0, <1>3, <2>3 DEF Before
    <2>4. QED
      BY <1>0, <1>3, <2>1, <2>2, <2>3 DEF Quietly
  <1>4. ASSUME NEW k \in Calls, Start(k), ~HandleMatchGamePairs(k) PROVE Quietly
    <2>1. UNCHANGED told /\ call[k].pc = "sent"
      BY <1>4
      DEF Start, HandleLogin, HandleLoginRefuses, HandleLogout, CreatePlayer,
          CreatePlayerUpdatesOther, CreatePlayerFails, HandleMatchGameWaits,
          HandleMatchStop, HandleGetPlayerData, HandleGetOnlineCount, Handles,
          observer
    <2>2. QED
      BY <1>3, <1>4, <2>1, StartMoves DEF CallPc
  <1>5. ASSUME NEW k \in Calls, LoginInserts(k) \/ CreateRoomReturns(k) \/ RequestLost(k)
        PROVE  Quietly
    <2>1. /\ UNCHANGED told
          /\ \/ call[k].pc \in {"sent", "insert"} /\ Moves(k, "done")
             \/ call[k].pc = "create" /\ Moves(k, "push1")
      BY <1>5
      DEF LoginInserts, CreateRoomReturns, RequestLost, Goto, Moves, observer,
          CallPc, IInv, CallsOK
    <2>2. QED
      BY <1>3, <2>1 DEF CallPc
  <1>6. QED
    BY <1>1, <1>2, <1>4, <1>5
    DEF Next, Gateway, Continue, Connect, CloseSession, NotifyLost,
        GatewaySubscribes, StreamBreaks, SubscribeSets, SubscribeReturns,
        ClientDisconnect, ClientDisconnectQueue, vars, observer

\* A new match has two places, of requests that had none.
LEMMA NewParts ==
  ASSUME IInv, OneMatch, NEW k \in Calls, HandleMatchGamePairs(k)
  PROVE  \E w \in Calls :
           /\ w # k /\ ~Matched(w) /\ ~Matched(k) /\ queue' = << >>
           /\ call[k].pair = None /\ call'[k].pc = "create"
           /\ UNCHANGED told
           /\ \A j \in Calls \ {k} : call'[j] = call[j]
           /\ \A n \in {1, 2}, p \in Calls :
                Part(k, n, p)' <=> (n = 1 /\ p = w) \/ (n = 2 /\ p = k)
PROOF
  <1>1. PICK w \in Calls :
          /\ queue = <<w>> /\ queue' = << >> /\ w # k
          /\ call[k].pc = "sent" /\ call'[k].pc = "create"
          /\ call'[k].pair = <<w, k>>
          /\ \A j \in Calls \ {k} : call'[j] = call[j]
    BY CallFields
  <1>2. <<w, k>> # None
    BY LobbyAssumption DEF LobbyAssumption
  <1>3. \A n \in {1, 2}, p \in Calls :
          Part(k, n, p)' <=> (n = 1 /\ p = w) \/ (n = 2 /\ p = k)
    BY <1>1, <1>2 DEF Part
  <1>4. ~Matched(w) /\ ~Matched(k)
    BY <1>1 DEF OneMatch, Matched, IInv, PairsOK
  <1>5. call[k].pair = None /\ UNCHANGED told
    BY <1>1 DEF IInv, CallsOK, HandleMatchGamePairs, observer
  <1>6. QED
    BY <1>1, <1>3, <1>4, <1>5

\* Who has a place in a match is matched.
LEMMA PartMatched ==
  ASSUME NEW p \in Calls
  PROVE  Matched(p) <=> \E k \in Calls : \E n \in {1, 2} : Part(k, n, p)
  BY DEF Matched, Part

\* Matches do not change but for a new one.
LEMMA OneMatchStep ==
  ASSUME IInv, OneMatch, [Next]_vars PROVE OneMatch'
PROOF
  <1>1. CASE \A k \in Calls : /\ call'[k].pair = call[k].pair
                              /\ call'[k].pc = "insert" => call[k].pair = None
    <2>1. /\ \A k, p \in Calls, n \in {1, 2} : Part(k, n, p)' <=> Part(k, n, p)
          /\ \A p \in Calls : Matched(p)' <=> Matched(p)
      BY <1>1 DEF Part, Matched
    <2>2. ASSUME NEW k \in Calls, queue' = <<k>> PROVE ~Matched(k)
      <3>1. CASE queue' = queue \/ queue' = << >>
        BY <2>2, <3>1 DEF OneMatch
      <3>2. CASE HandleMatchGameWaits(k)
        BY <3>2 DEF HandleMatchGameWaits, Handles, Matched, IInv, PairsOK
      <3>3. ASSUME NEW j \in Calls, HandleMatchGameWaits(j), queue' = <<j>>
            PROVE  ~Matched(k)
        BY <2>2, <3>2, <3>3
      <3>4. QED
        BY <3>1, <3>3, QueueStep, LobbyAssumption
    <2>3. QED
      BY <1>1, <2>1, <2>2 DEF OneMatch
  <1>2. ASSUME NEW k \in Calls, HandleMatchGamePairs(k) PROVE OneMatch'
    <2>1. PICK w \in Calls :
            /\ w # k /\ ~Matched(w) /\ ~Matched(k) /\ queue' = << >>
            /\ call[k].pair = None /\ call'[k].pc = "create"
            /\ \A j \in Calls \ {k} : call'[j] = call[j]
            /\ \A n \in {1, 2}, p \in Calls :
                 Part(k, n, p)' <=> (n = 1 /\ p = w) \/ (n = 2 /\ p = k)
      BY <1>2, NewParts
    <2>2. \A j \in Calls \ {k}, n \in {1, 2}, p \in Calls :
            /\ Part(j, n, p)' <=> Part(j, n, p)
            /\ Part(j, n, p) => p # w /\ p # k
      BY <2>1, PartMatched DEF Part
    <2>3. ASSUME NEW i \in Calls, NEW j \in Calls, NEW p \in Calls,
                 NEW m \in {1, 2}, NEW n \in {1, 2},
                 Part(i, m, p)', Part(j, n, p)'
          PROVE  i = j /\ m = n
      BY <2>1, <2>2, <2>3 DEF OneMatch
    <2>4. \A j \in Calls : call'[j].pc = "insert" => call'[j].pair = None
      BY <2>1 DEF OneMatch
    <2>5. QED
      BY <2>1, <2>3, <2>4 DEF OneMatch
  <1>3. ASSUME NEW k \in Calls, PushFirst(k) \/ PushSecond(k)
        PROVE  \A j \in Calls : /\ call'[j].pair = call[j].pair
                                /\ call'[j].pc = "insert" => call[j].pair = None
    BY <1>3
    DEF PushFirst, PushSecond, Goto, OneMatch, IInv, TypeOK, CallType
  <1>4. CASE Restart
    BY <1>1, <1>4, RestartFields
  <1>5. QED
    BY <1>1, <1>2, <1>3, <1>4, TellSteps DEF Quietly

\* PushToGateway tells the request whose turn it is, and no other.
LEMMA PushTells ==
  ASSUME IInv, TellsOK, NEW k \in Calls, NEW n \in {1, 2},
         (n = 1 /\ PushFirst(k)) \/ (n = 2 /\ PushSecond(k))
  PROVE  \E p \in Calls :
           /\ Part(k, n, p) /\ told[p] = "no" /\ told'[p] \in {"sent", "dropped"}
           /\ \A q \in Calls \ {p} : told'[q] = told[q]
PROOF
  <1>1. call[k].pair # None /\ call[k].pair \in Calls \X Calls
    BY DEF PushFirst, PushSecond, IInv, CallsOK, TypeOK, CallType
  <1>2. PICK p \in Calls : Part(k, n, p) /\ PushToGateway(p)
    <2>1. CASE n = 1
      BY <1>1, <2>1 DEF PushFirst, PushSecond, Part
    <2>2. CASE n = 2
      BY <1>1, <2>2 DEF PushFirst, PushSecond, Part
    <2>3. QED
      BY <2>1, <2>2
  <1>3. call[k].pc \in Before(n)
    BY DEF PushFirst, PushSecond, Before
  <1>4. told[p] = "no"
    BY <1>2, <1>3 DEF TellsOK, ToldInTurn
  <1>5. QED
    BY <1>2, <1>4 DEF PushToGateway, IInv, TypeOK

\* Everybody is told in turn, and once.
LEMMA ToldInTurnStep ==
  ASSUME IInv, TellsOK, [Next]_vars PROVE ToldInTurn'
PROOF
  <1> USE DEF TellsOK
  <1>1. CASE Quietly
    <2>1. /\ \A k, p \in Calls, n \in {1, 2} : Part(k, n, p)' <=> Part(k, n, p)
          /\ \A p \in Calls : Matched(p)' <=> Matched(p)
      BY <1>1 DEF Quietly, Part, Matched
    <2>2. ASSUME NEW k \in Calls, NEW p \in Calls, NEW n \in {1, 2}, Part(k, n, p)
          PROVE  told'[p] = "no" <=> call'[k].pc \in Before(n)
      BY <1>1, <2>2 DEF Quietly, ToldInTurn, Part
    <2>3. QED
      BY <1>1, <2>1, <2>2 DEF Quietly, ToldInTurn, Before
  <1>2. ASSUME NEW k \in Calls, HandleMatchGamePairs(k) PROVE ToldInTurn'
    <2>1. PICK w \in Calls :
            /\ w # k /\ ~Matched(w) /\ ~Matched(k)
            /\ call[k].pair = None /\ call'[k].pc = "create"
            /\ UNCHANGED told
            /\ \A j \in Calls \ {k} : call'[j] = call[j]
            /\ \A n \in {1, 2}, p \in Calls :
                 Part(k, n, p)' <=> (n = 1 /\ p = w) \/ (n = 2 /\ p = k)
      BY <1>2, NewParts
    <2>2. \A j \in Calls \ {k}, n \in {1, 2}, p \in Calls :
            Part(j, n, p)' <=> Part(j, n, p)
      BY <2>1 DEF Part
    <2>3. told[w] = "no" /\ told[k] = "no"
      BY <2>1 DEF ToldInTurn
    <2>4. ASSUME NEW p \in Calls, Matched(p) PROVE Matched(p)'
      BY <2>1, <2>4 DEF Matched
    <2>5. ASSUME NEW j \in Calls, NEW p \in Calls, NEW n \in {1, 2}, Part(j, n, p)'
          PROVE  told'[p] = "no" <=> call'[j].pc \in Before(n)
      <3>1. CASE j = k
        BY <2>1, <2>3, <2>5, <3>1 DEF Before
      <3>2. CASE j # k
        BY <2>1, <2>2, <2>5, <3>2 DEF ToldInTurn
      <3>3. QED
        BY <3>1, <3>2
    <2>6. QED
      BY <2>1, <2>4, <2>5 DEF ToldInTurn, Before
  <1>3. ASSUME NEW k \in Calls, NEW n \in {1, 2},
               (n = 1 /\ PushFirst(k)) \/ (n = 2 /\ PushSecond(k))
        PROVE  ToldInTurn'
    <2>1. PICK p \in Calls :
            /\ Part(k, n, p) /\ told[p] = "no" /\ told'[p] \in {"sent", "dropped"}
            /\ \A q \in Calls \ {p} : told'[q] = told[q]
      BY <1>3, PushTells
    <2>2. /\ call[k].pc = IF n = 1 THEN "push1" ELSE "push2"
          /\ call'[k].pc = IF n = 1 THEN "push2" ELSE "done"
          /\ \A j \in Calls : call'[j].pair = call[j].pair
          /\ \A j \in Calls \ {k} : call'[j] = call[j]
      BY <1>3 DEF PushFirst, PushSecond, Goto, IInv, TypeOK, CallType
    <2>3. /\ \A j, q \in Calls, m \in {1, 2} : Part(j, m, q)' <=> Part(j, m, q)
          /\ \A q \in Calls : Matched(q)' <=> Matched(q)
      BY <2>2 DEF Part, Matched
    <2>4. ASSUME NEW j \in Calls, NEW q \in Calls, NEW m \in {1, 2}, Part(j, m, q)
          PROVE  told'[q] = "no" <=> call'[j].pc \in Before(m)
      <3>1. CASE q = p
        <4>1. j = k /\ m = n
          BY <2>1, <2>4, <3>1 DEF OneMatch
        <4>2. QED
          BY <2>1, <2>2, <3>1, <4>1 DEF Before
      <3>2. CASE q # p
        <4>1. told'[q] = told[q] /\ (told[q] = "no" <=> call[j].pc \in Before(m))
          BY <2>1, <2>4, <3>2 DEF ToldInTurn
        <4>2. CASE j # k
          BY <2>2, <4>1, <4>2
        <4>3. CASE j = k
          <5>1. m # n
            BY <2>1, <2>4, <3>2, <4>3 DEF Part
          <5>2. QED
            BY <2>2, <4>1, <4>3, <5>1 DEF Before
        <4>4. QED
          BY <4>2, <4>3
      <3>3. QED
        BY <3>1, <3>2
    <2>5. Matched(p)
      BY <2>1, PartMatched
    <2>6. QED
      BY <2>1, <2>3, <2>4, <2>5 DEF ToldInTurn, Before
  <1>4. CASE Restart
    <2>1. \A k, p \in Calls, n \in {1, 2} : Part(k, n, p)' <=> Part(k, n, p)
      BY <1>4, RestartFields DEF Part
    <2>2. \A p \in Calls : Matched(p)' <=> Matched(p)
      BY <1>4, RestartFields DEF Matched
    <2>3. \A p \in Calls : /\ Matched(p) => told'[p] # "no"
                           /\ ~Matched(p) => told'[p] = told[p]
      BY <1>4 DEF Restart
    <2>4. ASSUME NEW k \in Calls, NEW p \in Calls, NEW n \in {1, 2}, Part(k, n, p)
          PROVE  told'[p] # "no" /\ call'[k].pc \notin Before(n)
      <3>1. call[k].pc \notin {"unused", "sent"}
        BY <2>4 DEF Part, IInv, CallsOK
      <3>2. call'[k].pc = "done"
        BY <1>4, <3>1, RestartFields
      <3>3. QED
        BY <2>3, <2>4, <3>2, PartMatched DEF Before
    <2>5. QED
      BY <2>1, <2>2, <2>3, <2>4 DEF ToldInTurn, Before
  <1>5. QED
    BY <1>1, <1>2, <1>3, <1>4, TellSteps

\* TellsOK holds in every state the lobby reaches.
LEMMA TellsInductive == Spec => []TellsOK
PROOF
  <1>1. Init => TellsOK
    <2> SUFFICES ASSUME Init PROVE TellsOK
      OBVIOUS
    <2>1. \A k \in Calls : call[k] = Unused /\ told[k] = "no"
      BY DEF Init
    <2>2. \A k \in Calls : queue # <<k>> /\ call[k].pair = None /\ call[k].pc = "unused"
      BY <2>1 DEF Init, Unused
    <2>3. QED
      BY <2>1, <2>2 DEF TellsOK, OneMatch, ToldInTurn, Part
  <1>2. IInv /\ TellsOK /\ [Next]_vars => TellsOK'
    BY OneMatchStep, ToldInTurnStep DEF TellsOK
  <1>3. QED
    BY <1>1, <1>2, Inductive, PTL DEF Spec

-----------------------------------------------------------------------------
(* The lobby implements Matchmaking.                                        *)

\* A step that neither dispatches a request nor pairs two leaves the players
\* of the requests and the matches as they are.
LEMMA SameMatches ==
  ASSUME IInv,
         \/ UNCHANGED call
         \/ \E k \in Calls, pc \in CallPc : Moves(k, pc)
         \/ Restart
  PROVE  UNCHANGED <<Who, Matches>>
PROOF
  <1>1. ASSUME NEW k \in Calls
        PROVE  call'[k].conn = call[k].conn /\ call'[k].pair = call[k].pair
    BY CallFields, RestartFields
  <1>2. QED
    BY <1>1 DEF Who, Matches, Uid

\* The step of a request that finds the queue empty, in the abstract.
LEMMA WaitStep ==
  ASSUME IInv, NEW k \in Calls, HandleMatchGameWaits(k),
         queue = << >>, queue' = <<k>>, LobbyAssumption,
         UNCHANGED <<Who, Matches>>
  PROVE  Matcher!Wait(k)
PROOF
  <1>1. call[k].pc = "sent" /\ UNCHANGED told
    BY DEF HandleMatchGameWaits, Handles, observer
  <1>2. Who[k] # None
    <2>1. call[k].conn \in Conns
      BY <1>1 DEF IInv, CallsOK, TypeOK, CallType
    <2>2. QED
      BY <2>1 DEF LobbyAssumption, Who, Uid
  <1>3. Waiting = None /\ Waiting' = k
    BY DEF Waiting
  <1>4. ~Matcher!Matched(k)
    BY <1>1 DEF Matcher!Matched, Matches, IInv, PairsOK
  <1>5. UNCHANGED Answered
    BY <1>1 DEF Answered
  <1>6. QED
    BY <1>2, <1>3, <1>4, <1>5 DEF Matcher!Wait

\* The step of a request that finds an opponent, in the abstract.
LEMMA MatchStep ==
  ASSUME IInv, NEW k \in Calls, HandleMatchGamePairs(k), LobbyAssumption
  PROVE  Matcher!Match(k)
PROOF
  <1>1. PICK w \in Calls :
          /\ queue = <<w>> /\ queue' = << >> /\ w # k
          /\ call[k].pc = "sent" /\ call[w].pc = "done"
          /\ Uid(w) # Uid(k)
          /\ call'[k].conn = call[k].conn
          /\ call'[k].pair = <<w, k>>
          /\ \A j \in Calls \ {k} : call'[j] = call[j]
    BY CallFields
  <1>2. call[k].conn \in Conns /\ call[w].conn \in Conns /\ call[k].pair = None
    BY <1>1 DEF IInv, CallsOK, TypeOK, CallType
  <1>3. Who[k] # None /\ Who[k] # Who[w] /\ Who' = Who
    <2>1. Uid(k) # None /\ call[k].conn # None /\ call[w].conn # None
      BY <1>2 DEF LobbyAssumption, Uid
    <2>2. \A j \in Calls : call'[j].conn = call[j].conn
      BY <1>1
    <2>3. QED
      BY <1>1, <2>1, <2>2 DEF Who, Uid
  <1>4. Waiting = w /\ Waiting' = None /\ w # None
    BY <1>1 DEF Waiting, LobbyAssumption
  <1>5. ~Matcher!Matched(k)
    BY <1>1 DEF Matcher!Matched, Matches, IInv, PairsOK
  <1>6. Matches' = Matches \cup {<<w, k>>}
    <2>1. <<w, k>> # None
      BY DEF LobbyAssumption
    <2>2. \A j \in Calls : call[j].pair # None <=> call'[j].pair # None /\ j # k
      BY <1>1, <1>2, <2>1
    <2>3. ASSUME NEW m PROVE m \in Matches' <=> m \in Matches \/ m = <<w, k>>
      <3>1. m \in Matches' <=> \E j \in Calls : call'[j].pair # None /\ m = call'[j].pair
        BY DEF Matches
      <3>2. m \in Matches <=> \E j \in Calls : call[j].pair # None /\ m = call[j].pair
        BY DEF Matches
      <3>3. QED
        BY <1>1, <1>2, <2>1, <3>1, <3>2
    <2>4. QED
      BY <2>3
  <1>7. UNCHANGED Answered
    BY DEF HandleMatchGamePairs, observer, Answered
  <1>8. QED
    BY <1>3, <1>4, <1>5, <1>6, <1>7 DEF Matcher!Match

\* A notification, in the abstract.
LEMMA AnswerStep ==
  ASSUME IInv, NEW k \in Calls, NEW p \in Calls, call[k].pair # None,
         p \in {call[k].pair[1], call[k].pair[2]},
         PushToGateway(p), UNCHANGED queue, UNCHANGED <<Who, Matches>>
  PROVE  Matcher!Answer(p)
PROOF
  <1>1. Matcher!Matched(p)
    BY DEF Matcher!Matched, Matches
  <1>2. Answered' = Answered \cup {p}
    BY DEF PushToGateway, Answered, IInv, TypeOK
  <1>3. QED
    BY <1>1, <1>2 DEF Matcher!Answer, Waiting

\* A restart, in the abstract.
LEMMA RestartStep ==
  ASSUME IInv, Restart, UNCHANGED <<Who, Matches>>, LobbyAssumption
  PROVE  Matcher!Restart
PROOF
  <1>1. ASSUME NEW p \in Calls PROVE Matched(p) <=> Matcher!Matched(p)
    BY DEF Matched, Matcher!Matched, Matches
  <1>2. told' = [p \in Calls |-> IF Matched(p) /\ told[p] = "no"
                                THEN "forgotten" ELSE told[p]]
    BY DEF Restart
  <1>3. Answered' = Answered \cup {p \in Calls : Matcher!Matched(p)}
    BY <1>1, <1>2 DEF Answered
  <1>4. Waiting' = None
    BY DEF Restart, Waiting
  <1>5. QED
    BY <1>3, <1>4 DEF Matcher!Restart

\* Every step of the lobby is a step of Matchmaking or leaves its state alone.
LEMMA StepRefines ==
  ASSUME IInv, [Next]_vars, LobbyAssumption
  PROVE  [Matcher!Next]_(Matcher!vars)
PROOF
  <1>1. ASSUME NEW k \in Calls, NEW c \in Conns, Dispatch(k, c)
        PROVE  Matcher!Ask(k, UidOf[c])
    <2>1. /\ call[k].conn = None /\ call[k].pair = None
          /\ call'[k].conn = c /\ call'[k].pair = None
          /\ \A j \in Calls \ {k} : call'[j] = call[j]
      BY <1>1, CallFields DEF IInv, CallsOK
    <2>2. c # None
      BY DEF LobbyAssumption
    <2>3. Who[k] = None /\ Who' = [Who EXCEPT ![k] = UidOf[c]]
      BY <2>1, <2>2 DEF Who, Uid
    <2>4. Matches' = Matches
      BY <2>1 DEF Matches
    <2>5. UNCHANGED <<Waiting, Answered>>
      BY <1>1 DEF Dispatch, service, observer, Waiting, Answered
    <2>6. QED
      BY <2>3, <2>4, <2>5 DEF Matcher!Ask
  <1>2. ASSUME \/ UNCHANGED call
               \/ \E k \in Calls, pc \in CallPc : Moves(k, pc)
               \/ Restart
        PROVE  [Matcher!Next]_(Matcher!vars)
    <2>1. UNCHANGED <<Who, Matches>>
      BY <1>2, SameMatches
    <2>2. ASSUME NEW k \in Calls, PushFirst(k) \/ PushSecond(k)
          PROVE  \E p \in Calls : Matcher!Answer(p)
      <3>1. call[k].pair # None /\ call[k].pair \in Calls \X Calls
        BY <2>2 DEF PushFirst, PushSecond, IInv, CallsOK, TypeOK, CallType
      <3>2. PICK p \in Calls : /\ p \in {call[k].pair[1], call[k].pair[2]}
                               /\ PushToGateway(p)
        BY <2>2, <3>1 DEF PushFirst, PushSecond
      <3>3. UNCHANGED queue
        BY <2>2 DEF PushFirst, PushSecond, service
      <3>4. QED
        BY <2>1, <3>1, <3>2, <3>3, AnswerStep
    <2>3. ASSUME Restart PROVE Matcher!Restart
      BY <2>1, <2>3, RestartStep
    <2>4. ASSUME UNCHANGED told, queue' = queue \/ queue' = << >>
          PROVE  Matcher!Withdraw \/ UNCHANGED Matcher!vars
      <3>1. UNCHANGED Answered
        BY <2>4 DEF Answered
      <3>2. Waiting' = Waiting \/ Waiting' = None
        BY <2>4 DEF Waiting
      <3>3. QED
        BY <2>1, <3>1, <3>2 DEF Matcher!Withdraw, Matcher!vars
    <2>5. ASSUME NEW k \in Calls, HandleMatchGameWaits(k),
                 queue = << >>, queue' = <<k>>
          PROVE  Matcher!Wait(k)
      BY <2>1, <2>5, WaitStep
    <2>6. QED
      BY <2>2, <2>3, <2>4, <2>5, QueueStep, OnlyPush DEF Matcher!Next
  <1>3. QED
    <2>1. Matcher!Next <=>
            \/ \E k \in Calls : \/ \E u \in Uids : Matcher!Ask(k, u)
                                \/ Matcher!Wait(k) \/ Matcher!Match(k)
                                \/ Matcher!Answer(k)
            \/ Matcher!Withdraw
            \/ Matcher!Restart
      BY DEF Matcher!Next
    <2>2. \A c \in Conns : UidOf[c] \in Uids
      BY DEF LobbyAssumption
    <2>3. QED
      BY <1>1, <1>2, <2>1, <2>2, MatchStep, CallSteps DEF CallStep

\* The match queue of the lobby implements Matchmaking: whatever players and
\* the gateway do, every request is matched at most once and with another
\* player's request.
THEOREM RefinesMatchmaking == Spec => MatchesSafely
PROOF
  <1>1. Init => Matcher!Init
    <2> SUFFICES ASSUME Init PROVE Matcher!Init
      OBVIOUS
    <2>1. \A k \in Calls : call[k] = Unused /\ told[k] = "no"
      BY DEF Init
    <2>2. Who = [k \in Calls |-> None] /\ Matches = {} /\ Answered = {}
      BY <2>1 DEF Who, Matches, Answered, Unused
    <2>3. Waiting = None
      BY DEF Init, Waiting
    <2>4. QED
      BY <2>2, <2>3 DEF Matcher!Init
  <1>2. IInv /\ [Next]_vars => [Matcher!Next]_(Matcher!vars)
    BY StepRefines, LobbyAssumption
  <1>3. QED
    BY <1>1, <1>2, Inductive, PTL DEF Spec, MatchesSafely, Matcher!SafeSpec
=============================================================================
