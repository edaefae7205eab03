------------------------------- MODULE Gateway -------------------------------
(***************************************************************************)
(* gateway: the Session objects and the SessionManager, shared by the      *)
(* goroutines that read a session's WebSocket, the goroutines that read    *)
(* its KCP connections, the loop that reads UDP packets and the loop that  *)
(* accepts KCP connections.                                                *)
(*                                                                         *)
(* A step is one critical section (a session's mu or the manager's mu), or *)
(* one unlocked read or write of a session's fields.  Send reads a session *)
(* under its mu and writes to the network: it changes no state here, nor   *)
(* do the receiver of the game stream and the lobby's pushes, which only   *)
(* Send (neither server asks to kick a client on these streams).  A frame  *)
(* still buffered when its connection closes counts as read before.        *)
(***************************************************************************)
EXTENDS Naturals

CONSTANTS Sessions,  \* WebSocket connections that pass the token check
          Addrs,     \* bound: UDP addresses of clients
          KConns,    \* bound: KCP connections
          None

ASSUME GatewayAssumption ==
  /\ Sessions \cap KConns = {}
  /\ None \notin Sessions \cup Addrs \cup KConns

\* A reader is the goroutine of a WebSocket or of a KCP connection.
Readers == Sessions \cup KConns

VARIABLES
  sessions,   \* SessionManager.sessions
  addr_map,   \* SessionManager.addrMap
  connected,  \* the sessions whose Connected is true
  udp_addr,   \* Session.UDPAddr
  kcp_conn,   \* Session.KCPConn
  game,       \* Session.GameStream, GameCancel and the state of that stream
  kcp,        \* the KCP listener's connections
  reader,     \* the local state of the readers
  udp,        \* the local state of readLoop
  accept,     \* the local state of acceptKCPLoop
  told,       \* NotifyDisconnect calls of a session
  late        \* observer: sessions whose stream was opened after their Close

manager == <<sessions, addr_map>>
session == <<connected, udp_addr, kcp_conn>>
threads == <<reader, udp, accept>>
vars    == <<manager, session, game, kcp, threads, told, late>>

\* "lobby" and "game": in DispatchPacket; "close" .. "remove": in Close;
\* "unset": the deferred SetKCPConn(nil).
ReaderPc == {"none", "read", "lobby", "game", "close", "cancel", "notify",
             "shut", "remove", "unset", "done"}

\* leaving: its Close is the deferred one.
ReaderType ==
  [pc : {"none", "done"}, at : Sessions \cup {None}, leaving : BOOLEAN] \cup
  [pc : ReaderPc, at : Sessions, leaving : BOOLEAN]

\* GameStream is nil at "none"; it is never set back to nil.
GameStates == {"none", "open", "cancelled", "broken"}

KcpType == [state : {"unused", "open", "closed"},
            addr  : Addrs \cup {None}]

Absent     == [pc |-> "none", at |-> None, leaving |-> FALSE]
UdpIdle    == [pc |-> "idle", at |-> None, addr |-> None]
AcceptIdle == [pc |-> "idle", at |-> None, conn |-> None]

UdpType ==
  {UdpIdle} \cup [pc : {"bind", "map", "inject"}, at : Sessions, addr : Addrs]

AcceptType == {AcceptIdle} \cup [pc : {"set"}, at : Sessions, conn : KConns]

Init ==
  /\ sessions = {}
  /\ addr_map = [a \in Addrs |-> None]
  /\ connected = {}
  /\ udp_addr = [s \in Sessions |-> None]
  /\ kcp_conn = [s \in Sessions |-> None]
  /\ game = [s \in Sessions |-> "none"]
  /\ kcp = [c \in KConns |-> [state |-> "unused", addr |-> None]]
  /\ reader = [t \in Readers |-> Absent]
  /\ udp = UdpIdle
  /\ accept = AcceptIdle
  /\ told = [s \in Sessions |-> 0]
  /\ late = {}

Goto(t, pc) == reader' = [reader EXCEPT ![t].pc = pc]

\* GetSessionByAddr.
ByAddr(a) == IF addr_map[a] \in sessions THEN addr_map[a] ELSE None

-----------------------------------------------------------------------------
(* ServeHTTP and the readers.                                               *)

\* AddSession, the AuthResponse, and wsReadLoop begins.  If the response cannot
\* be written the session is closed, as if its first read had failed.
AddSession(s) ==
  /\ reader[s].pc = "none"
  /\ sessions' = sessions \cup {s}
  /\ connected' = connected \cup {s}
  /\ reader' = [reader EXCEPT ![s].pc = "read", ![s].at = s]
  /\ UNCHANGED <<addr_map, udp_addr, kcp_conn, game, kcp, udp, accept, told, late>>

\* Close closes the WebSocket in the step that notifies the lobby.
Readable(t) == IF t \in Sessions THEN told[t] = 0 ELSE kcp[t].state = "open"

\* ReadMessage or ReadAppFrame gives a packet for the lobby or for the game
\* server, and DispatchPacket is called.
ReadPacket(t) ==
  /\ reader[t].pc = "read"
  /\ Readable(t)
  /\ Goto(t, "lobby") \/ Goto(t, "game")
  /\ UNCHANGED <<manager, session, game, kcp, udp, accept, told, late>>

\* The client has gone, or the connection has been closed.
WsReadFails(s) ==
  /\ reader[s].pc = "read"
  /\ reader' = [reader EXCEPT ![s].pc = "close", ![s].leaving = TRUE]
  /\ UNCHANGED <<manager, session, game, kcp, udp, accept, told, late>>

\* A frame of invalid length ends the loop too, with the connection open.
KcpReadFails(c) ==
  /\ reader[c].pc = "read"
  /\ Goto(c, "unset")
  /\ UNCHANGED <<manager, session, game, kcp, udp, accept, told, late>>

\* Defect: a connection that has ended stays the session's.
UnsetKCPConn_Keeps(c) ==
  /\ reader[c].pc = "unset"
  /\ Goto(c, "done")
  /\ UNCHANGED <<manager, session, game, kcp, udp, accept, told, late>>

\* The deferred SetKCPConn(nil), whichever connection is set by now.
UnsetKCPConn(c) ==
  /\ reader[c].pc = "unset"
  /\ kcp_conn' = [kcp_conn EXCEPT ![reader[c].at] = None]
  /\ Goto(c, "done")
  /\ UNCHANGED <<manager, connected, udp_addr, game, kcp, udp, accept, told, late>>

(* DispatchPacket.                                                          *)

\* RouteToLobby fails, or its reply is sent; the reply of a Logout kicks.
LobbyAnswers(t) ==
  /\ reader[t].pc = "lobby"
  /\ Goto(t, "read") \/ Goto(t, "close")
  /\ UNCHANGED <<manager, session, game, kcp, udp, accept, told, late>>

\* Defect: a stream that has ended is opened again.
RouteToGame_Again(t) ==
  LET s == reader[t].at
      opens == game[s] # "open"
  IN /\ reader[t].pc = "game"
     /\ \/ /\ game' = IF opens THEN [game EXCEPT ![s] = "open"] ELSE game
           /\ late' = IF opens /\ s \notin connected THEN late \cup {s} ELSE late
        \/ opens /\ UNCHANGED <<game, late>>
     /\ Goto(t, "read")
     /\ UNCHANGED <<manager, session, kcp, udp, accept, told>>

\* Under s.mu: the session's stream is opened unless it has one, connected or
\* not; or that fails, with a GameCancel that cancels nothing.
RouteToGame(t) ==
  LET s == reader[t].at
      opens == game[s] = "none"
  IN /\ reader[t].pc = "game"
     /\ \/ /\ game' = IF opens THEN [game EXCEPT ![s] = "open"] ELSE game
           /\ late' = IF opens /\ s \notin connected THEN late \cup {s} ELSE late
        \/ opens /\ UNCHANGED <<game, late>>
     /\ Goto(t, "read")
     /\ UNCHANGED <<manager, session, kcp, udp, accept, told>>

\* The game server ends the call, or the connection to it is lost.
GameStreamBreaks(s) ==
  /\ game[s] = "open"
  /\ game' = [game EXCEPT ![s] = "broken"]
  /\ UNCHANGED <<manager, session, kcp, threads, told, late>>

-----------------------------------------------------------------------------
(* Close, by a reader.                                                      *)

\* The reader ends, or is back at its next read.
CloseReturns(t) == Goto(t, IF reader[t].leaving THEN "done" ELSE "read")

AlreadyClosed(t) ==
  /\ reader[t].pc = "close"
  /\ reader[t].at \notin connected
  /\ CloseReturns(t)
  /\ UNCHANGED <<manager, session, game, kcp, udp, accept, told, late>>

\* Defect: Connected is not looked at.
Close_Again(t) ==
  /\ reader[t].pc = "close"
  /\ connected' = connected \ {reader[t].at}
  /\ Goto(t, "cancel")
  /\ UNCHANGED <<manager, udp_addr, kcp_conn, game, kcp, udp, accept, told, late>>

Close(t) ==
  /\ reader[t].pc = "close"
  /\ reader[t].at \in connected
  /\ connected' = connected \ {reader[t].at}
  /\ Goto(t, "cancel")
  /\ UNCHANGED <<manager, udp_addr, kcp_conn, game, kcp, udp, accept, told, late>>

\* Defect: the stream is left to end on its own.
CancelGame_Skips(t) ==
  /\ reader[t].pc = "cancel"
  /\ Goto(t, "notify")
  /\ UNCHANGED <<manager, session, game, kcp, udp, accept, told, late>>

\* GameCancel is read without s.mu.
CancelGame(t) ==
  /\ reader[t].pc = "cancel"
  /\ game' = [game EXCEPT ![reader[t].at] = IF @ = "open" THEN "cancelled" ELSE @]
  /\ Goto(t, "notify")
  /\ UNCHANGED <<manager, session, kcp, udp, accept, told, late>>

\* NotifyDisconnect on a goroutine of its own; the WebSocket is closed.
NotifyDisconnect(t) ==
  /\ reader[t].pc = "notify"
  /\ told' = [told EXCEPT ![reader[t].at] = @ + 1]
  /\ Goto(t, "shut")
  /\ UNCHANGED <<manager, session, game, kcp, udp, accept, late>>

\* KCPConn is read without s.mu; the nil check and the call read it once here.
CloseKCPConn(t) ==
  /\ reader[t].pc = "shut"
  /\ kcp' = [c \in KConns |-> IF kcp_conn[reader[t].at] = c
                              THEN [kcp[c] EXCEPT !.state = "closed"] ELSE kcp[c]]
  /\ Goto(t, "remove")
  /\ UNCHANGED <<manager, session, game, udp, accept, told, late>>

\* The entry of its address goes too, whichever session it names.
RemoveSession(t) ==
  /\ reader[t].pc = "remove"
  /\ addr_map' = [a \in Addrs |->
                    IF a = udp_addr[reader[t].at] THEN None ELSE addr_map[a]]
  /\ sessions' = sessions \ {reader[t].at}
  /\ CloseReturns(t)
  /\ UNCHANGED <<session, game, kcp, udp, accept, told, late>>

-----------------------------------------------------------------------------
(* readLoop.                                                                *)

\* A packet with the id and the key of a session in the map.
ReadUDP(s, a) ==
  /\ udp.pc = "idle"
  /\ s \in sessions
  /\ udp' = [pc |-> "bind", at |-> s, addr |-> a]
  /\ UNCHANGED <<manager, session, game, kcp, reader, accept, told, late>>

\* Defect: the address follows the client, and its old entry stays.
SetUDPAddr_Updates ==
  /\ udp.pc = "bind"
  /\ udp_addr' = [udp_addr EXCEPT ![udp.at] = udp.addr]
  /\ udp' = [udp EXCEPT !.pc = "map"]
  /\ UNCHANGED <<manager, connected, kcp_conn, game, kcp, reader, accept, told, late>>

SetUDPAddr ==
  /\ udp.pc = "bind"
  /\ udp_addr[udp.at] = None
  /\ udp_addr' = [udp_addr EXCEPT ![udp.at] = udp.addr]
  /\ udp' = [udp EXCEPT !.pc = "map"]
  /\ UNCHANGED <<manager, connected, kcp_conn, game, kcp, reader, accept, told, late>>

\* Defect: the address is mapped whether or not it has been bound.
UpdateHeartbeat_Maps ==
  /\ udp.pc = "bind"
  /\ udp_addr[udp.at] # None
  /\ udp' = [udp EXCEPT !.pc = "map"]
  /\ UNCHANGED <<manager, session, game, kcp, reader, accept, told, late>>

\* A session that has an address keeps it.
UpdateHeartbeat ==
  /\ udp.pc = "bind"
  /\ udp_addr[udp.at] # None
  /\ udp' = [udp EXCEPT !.pc = "inject"]
  /\ UNCHANGED <<manager, session, game, kcp, reader, accept, told, late>>

MapUDPAddr ==
  /\ udp.pc = "map"
  /\ addr_map' = [addr_map EXCEPT ![udp.addr] = udp.at]
  /\ udp' = [udp EXCEPT !.pc = "inject"]
  /\ UNCHANGED <<sessions, session, game, kcp, reader, accept, told, late>>

\* A handshake, raw UDP, KCP data of a known connection, or a full readCh.
DropUDP ==
  /\ udp.pc = "inject"
  /\ udp' = UdpIdle
  /\ UNCHANGED <<manager, session, game, kcp, reader, accept, told, late>>

\* KCP data that opens a conversation: the listener closes the connection it
\* has for this address and queues the new one.
InjectKCP(c) ==
  /\ udp.pc = "inject"
  /\ kcp[c].state = "unused"
  /\ kcp' = [d \in KConns |->
               IF d = c THEN [state |-> "open", addr |-> udp.addr]
               ELSE IF kcp[d].addr = udp.addr THEN [kcp[d] EXCEPT !.state = "closed"]
               ELSE kcp[d]]
  /\ udp' = UdpIdle
  /\ UNCHANGED <<manager, session, game, reader, accept, told, late>>

-----------------------------------------------------------------------------
(* acceptKCPLoop.                                                           *)

\* Defect: the result of GetSessionByAddr is not looked at.
AcceptKCP_Unchecked(c) ==
  /\ accept.pc = "idle"
  /\ kcp[c].addr # None
  /\ reader[c].pc = "none"
  /\ accept' = [pc |-> "set", at |-> ByAddr(kcp[c].addr), conn |-> c]
  /\ UNCHANGED <<manager, session, game, kcp, reader, udp, told, late>>

\* A connection may have been closed by the time it is accepted.
AcceptKCP(c) ==
  /\ accept.pc = "idle"
  /\ kcp[c].addr # None
  /\ reader[c].pc = "none"
  /\ ByAddr(kcp[c].addr) # None
  /\ accept' = [pc |-> "set", at |-> ByAddr(kcp[c].addr), conn |-> c]
  /\ UNCHANGED <<manager, session, game, kcp, reader, udp, told, late>>

\* No session has this address: the connection is closed.
RejectKCP(c) ==
  /\ accept.pc = "idle"
  /\ kcp[c].addr # None
  /\ reader[c].pc = "none"
  /\ ByAddr(kcp[c].addr) = None
  /\ kcp' = [kcp EXCEPT ![c].state = "closed"]
  /\ reader' = [reader EXCEPT ![c].pc = "done"]
  /\ UNCHANGED <<manager, session, game, udp, accept, told, late>>

\* The session may have been closed since.
SetKCPConn ==
  /\ accept.pc = "set"
  /\ kcp_conn' = [kcp_conn EXCEPT ![accept.at] = accept.conn]
  /\ reader' = [reader EXCEPT ![accept.conn].pc = "read", ![accept.conn].at = accept.at]
  /\ accept' = AcceptIdle
  /\ UNCHANGED <<manager, connected, udp_addr, game, kcp, udp, told, late>>

-----------------------------------------------------------------------------
\* What clients, the servers and the network decide.
Environment ==
  \/ \E s \in Sessions : \/ AddSession(s)
                         \/ WsReadFails(s)
                         \/ GameStreamBreaks(s)
                         \/ \E a \in Addrs : ReadUDP(s, a)
  \/ \E c \in KConns : KcpReadFails(c)
  \/ \E t \in Readers : ReadPacket(t)

\* What a reader does on its own.
Reader(t) ==
  \/ LobbyAnswers(t)
  \/ RouteToGame(t)
  \/ AlreadyClosed(t)
  \/ Close(t)
  \/ CancelGame(t)
  \/ NotifyDisconnect(t)
  \/ CloseKCPConn(t)
  \/ RemoveSession(t)

ReadLoop ==
  \/ SetUDPAddr
  \/ UpdateHeartbeat
  \/ MapUDPAddr
  \/ DropUDP
  \/ \E c \in KConns : InjectKCP(c)

AcceptLoop ==
  \/ \E c \in KConns : AcceptKCP(c) \/ RejectKCP(c)
  \/ SetKCPConn

Next ==
  \/ Environment
  \/ \E t \in Readers : Reader(t)
  \/ \E c \in KConns : UnsetKCPConn(c)
  \/ ReadLoop
  \/ AcceptLoop

Spec == Init /\ [][Next]_vars
-----------------------------------------------------------------------------
(* Properties.                                                             *)

\* Every variable keeps its shape.
TypeOK ==
  /\ sessions \subseteq Sessions
  /\ addr_map \in [Addrs -> Sessions \cup {None}]
  /\ connected \subseteq Sessions
  /\ udp_addr \in [Sessions -> Addrs \cup {None}]
  /\ kcp_conn \in [Sessions -> KConns \cup {None}]
  /\ game \in [Sessions -> GameStates]
  /\ kcp \in [KConns -> KcpType]
  /\ reader \in [Readers -> ReaderType]
  /\ udp \in UdpType
  /\ accept \in AcceptType
  /\ told \in [Sessions -> Nat]
  /\ late \subseteq Sessions

\* An address leads to the session that is bound to it, and a session sends
\* over a KCP connection of its own address only, although the loops look the
\* session up, bind it and hand it the connection in separate steps, and
\* sessions come and go between them.
AddrOwned ==
  /\ \A a \in Addrs : addr_map[a] # None => udp_addr[addr_map[a]] = a
  /\ \A s \in Sessions : kcp_conn[s] # None => kcp[kcp_conn[s]].addr = udp_addr[s]

\* A session in the map that alone has ever been bound to its address is found
\* by it, whatever else the manager adds and removes.
AddrReaches ==
  \A s \in sessions :
    /\ udp_addr[s] # None
    /\ \A q \in Sessions \ {s} : udp_addr[q] # udp_addr[s]
    => addr_map[udp_addr[s]] = s \/ (udp.pc = "map" /\ udp.at = s)

\* A session sends over a KCP connection only as long as a goroutine reads it
\* for this session, although an old connection's goroutine clears the field
\* that a new one may have set.
KcpConnServed ==
  \A s \in Sessions : kcp_conn[s] # None =>
    /\ reader[kcp_conn[s]].at = s
    /\ reader[kcp_conn[s]].pc \notin {"none", "done"}

Closing(t, s) ==
  reader[t].at = s /\ reader[t].pc \in {"cancel", "notify", "shut", "remove"}

\* Any of its readers may close a session, but one of them does: the lobby is
\* told at most once that the player has gone, and never while another reader
\* has still to run Close.
ClosedOnce ==
  \A s \in Sessions :
    /\ \A t, q \in Readers : Closing(t, s) /\ Closing(q, s) => t = q
    /\ told[s] <= 1
    /\ told[s] = 1 => s \notin connected

\* A session that is no longer connected, and that nobody is still closing,
\* is out of the map, the lobby has been told, and no call of the game server
\* that it has opened while it was connected is open.
ClosedIsForgotten ==
  \A s \in Sessions :
    /\ reader[s].pc # "none"
    /\ s \notin connected
    /\ \A t \in Readers : ~Closing(t, s)
    => s \notin sessions /\ told[s] = 1 /\ (s \in late \/ game[s] # "open")

\* How far the life of a session is: Connected, the program counter of whichever
\* goroutine closes it, the lobby's knowledge and the manager's map in one.
Stage ==
  [s \in Sessions |->
     IF reader[s].pc = "none" THEN "new"
     ELSE IF s \in connected THEN "open"
     ELSE IF \E t \in Readers : reader[t].at = s /\ reader[t].pc = "cancel"
          THEN "closing"
     ELSE IF told[s] = 0 THEN "cut"
     ELSE IF s \in sessions THEN "told"
     ELSE "gone"]

Life == INSTANCE SessionLife WITH stage <- Stage, stream <- game, orphan <- late

\* Readers that close a session together, dispatch its packets while it closes
\* and outlive it show the other servers one orderly life.
ImplementsSessionLife == Life!Spec

-----------------------------------------------------------------------------
(* What the repository says of the program, and the code does not keep.    *)

\* game_server.md:112: when a player's connection ends the game server ends
\* the game for the other, which takes the end of the session's stream.
StreamEndsWithSession ==
  \A s \in Sessions :
    reader[s].pc # "none" /\ s \notin sessions => game[s] # "open"
=============================================================================
