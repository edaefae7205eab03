--------------------------- MODULE GatewayProofs ---------------------------
(***************************************************************************)
(* Safety of Gateway, for any number of sessions, addresses and KCP        *)
(* connections.                                                            *)
(***************************************************************************)
EXTENDS Gateway, TLAPS

-----------------------------------------------------------------------------
(* The inductive invariant.                                                 *)

Made(s) == reader[s].pc # "none"

\* Which session a goroutine works for.
ReadersOK ==
  /\ \A s \in Sessions : Made(s) => reader[s].at = s
  /\ \A c \in KConns : ~reader[c].leaving
  /\ \A t \in Readers : reader[t].at # None => Made(reader[t].at)
  /\ \A s \in Sessions : s \in sessions \cup connected \/ udp_addr[s] # None => Made(s)
  /\ udp.at # None => Made(udp.at)
  /\ accept.pc = "set" => Made(accept.at) /\ reader[accept.conn].pc = "none"

\* What the loops have read of an address is still so when they write.
AddrOK ==
  /\ AddrOwned
  /\ udp.pc = "map" => udp_addr[udp.at] = udp.addr
  /\ \A c \in KConns : kcp[c].state = "unused" => kcp[c].addr = None
  /\ \A s \in Sessions : kcp_conn[s] # None => udp_addr[s] # None
  /\ accept.pc = "set" =>
       /\ udp_addr[accept.at] = kcp[accept.conn].addr
       /\ udp_addr[accept.at] # None

\* How far the closing of a session is.
CloseOK ==
  \A s \in Sessions :
    /\ s \in connected => s \in sessions
    /\ s \in connected \/ ~Made(s) => told[s] = 0 /\ \A t \in Readers : ~Closing(t, s)
    /\ \A t, q \in Readers : Closing(t, s) /\ Closing(q, s) => t = q
    /\ \A t \in Readers : Closing(t, s) =>
         /\ s \in sessions
         /\ told[s] = IF reader[t].pc \in {"cancel", "notify"} THEN 0 ELSE 1
         /\ reader[t].pc # "cancel" => s \in late \/ game[s] # "open"

IInv ==
  /\ TypeOK /\ ReadersOK /\ AddrOK /\ AddrReaches
  /\ KcpConnServed /\ CloseOK /\ ClosedIsForgotten
-----------------------------------------------------------------------------
(* Steps.                                                                   *)

\* A step is one of the actions.
LEMMA OneStep ==
  ASSUME [Next]_vars
  PROVE  \/ \E s \in Sessions : \/ AddSession(s) \/ WsReadFails(s)
                                \/ GameStreamBreaks(s)
                                \/ \E a \in Addrs : ReadUDP(s, a)
         \/ \E c \in KConns : \/ KcpReadFails(c) \/ UnsetKCPConn(c)
                              \/ InjectKCP(c) \/ AcceptKCP(c) \/ RejectKCP(c)
         \/ \E t \in Readers :
              \/ ReadPacket(t) \/ LobbyAnswers(t) \/ RouteToGame(t)
              \/ AlreadyClosed(t) \/ Close(t) \/ CancelGame(t)
              \/ NotifyDisconnect(t) \/ CloseKCPConn(t) \/ RemoveSession(t)
         \/ SetUDPAddr \/ UpdateHeartbeat \/ MapUDPAddr \/ DropUDP \/ SetKCPConn
         \/ UNCHANGED vars
  BY DEF Next, Environment, Reader, ReadLoop, AcceptLoop

-----------------------------------------------------------------------------
(* Types.                                                                   *)

\* A reader, wherever it is.
LEMMA AnyReader ==
  ASSUME TypeOK, NEW t \in Readers, NEW pc \in ReaderPc, NEW s \in Sessions
  PROVE  /\ [reader[t] EXCEPT !.pc = pc, !.at = s] \in ReaderType
         /\ reader[t].at \in Sessions =>
              [reader[t] EXCEPT !.pc = pc, !.leaving = TRUE] \in ReaderType
PROOF
  <1>1. reader[t] \in [pc : ReaderPc, at : Sessions \cup {None}, leaving : BOOLEAN]
    BY DEF TypeOK, ReaderType, ReaderPc
  <1>2. QED
    BY <1>1 DEF ReaderType

\* A reader that runs works for a session.
LEMMA HasSession ==
  ASSUME TypeOK, NEW t \in Readers, reader[t].pc \notin {"none", "done"}
  PROVE  reader[t] \in [pc : ReaderPc, at : Sessions, leaving : BOOLEAN]
  BY DEF TypeOK, ReaderType

\* Such a reader may be anywhere.
LEMMA GotoType ==
  ASSUME TypeOK, NEW t \in Readers, reader[t].pc \notin {"none", "done"},
         NEW pc \in ReaderPc, Goto(t, pc)
  PROVE  reader' \in [Readers -> ReaderType]
PROOF
  <1>1. [reader[t] EXCEPT !.pc = pc] \in ReaderType
    BY HasSession DEF ReaderType
  <1>2. QED
    BY <1>1 DEF TypeOK, Goto

\* The first and the last step of a WebSocket's reader.
LEMMA BeginsOrEnds ==
  ASSUME TypeOK, NEW s \in Sessions, AddSession(s) \/ WsReadFails(s)
  PROVE  reader' \in [Readers -> ReaderType]
PROOF
  <1>1. s \in Readers
    BY DEF Readers
  <1>2. CASE AddSession(s)
    <2>1. [reader[s] EXCEPT !.pc = "read", !.at = s] \in ReaderType
      BY <1>1, AnyReader DEF ReaderPc
    <2>2. QED
      BY <1>1, <1>2, <2>1 DEF AddSession, TypeOK
  <1>3. CASE WsReadFails(s)
    <2>1. reader[s].at \in Sessions
      BY <1>1, <1>3, HasSession DEF WsReadFails
    <2>2. [reader[s] EXCEPT !.pc = "close", !.leaving = TRUE] \in ReaderType
      BY <1>1, <2>1, AnyReader DEF ReaderPc
    <2>3. QED
      BY <1>1, <1>3, <2>2 DEF WsReadFails, TypeOK
  <1>4. QED
    BY <1>2, <1>3

\* Every step keeps the shape of the variables.
LEMMA TypeStep == ASSUME GatewayAssumption, TypeOK, [Next]_vars PROVE TypeOK'
PROOF
  <1> USE DEF TypeOK, Goto, ReaderType, ReaderPc, Readers, GameStates, KcpType,
              UdpType, AcceptType, UdpIdle, AcceptIdle, manager, session, threads
  <1>1. ASSUME NEW s \in Sessions, AddSession(s) PROVE TypeOK'
    BY <1>1, BeginsOrEnds DEF AddSession
  <1>2. ASSUME NEW t \in Readers, ReadPacket(t) PROVE TypeOK'
    BY <1>2 DEF ReadPacket
  <1>3. ASSUME NEW s \in Sessions, WsReadFails(s) PROVE TypeOK'
    BY <1>3, BeginsOrEnds DEF WsReadFails
  <1>4. ASSUME NEW c \in KConns, KcpReadFails(c) PROVE TypeOK'
    BY <1>4 DEF KcpReadFails
  <1>5. ASSUME NEW c \in KConns, UnsetKCPConn(c) PROVE TypeOK'
    BY <1>5 DEF UnsetKCPConn
  <1>6. ASSUME NEW t \in Readers, LobbyAnswers(t) PROVE TypeOK'
    <2>1. reader' \in [Readers -> ReaderType]
      BY <1>6, HasSession, GotoType DEF LobbyAnswers
    <2>2. QED
      BY <1>6, <2>1 DEF LobbyAnswers
  <1>7. ASSUME NEW t \in Readers, RouteToGame(t) PROVE TypeOK'
    BY <1>7 DEF RouteToGame
  <1>8. ASSUME NEW s \in Sessions, GameStreamBreaks(s) PROVE TypeOK'
    BY <1>8 DEF GameStreamBreaks
  <1>9. ASSUME NEW t \in Readers, AlreadyClosed(t) PROVE TypeOK'
    BY <1>9 DEF AlreadyClosed, CloseReturns
  <1>10. ASSUME NEW t \in Readers, Close(t) PROVE TypeOK'
    BY <1>10 DEF Close
  <1>11. ASSUME NEW t \in Readers, CancelGame(t) PROVE TypeOK'
    BY <1>11 DEF CancelGame
  <1>12. ASSUME NEW t \in Readers, NotifyDisconnect(t) PROVE TypeOK'
    BY <1>12 DEF NotifyDisconnect
  <1>13. ASSUME NEW t \in Readers, CloseKCPConn(t) PROVE TypeOK'
    BY <1>13 DEF CloseKCPConn
  <1>14. ASSUME NEW t \in Readers, RemoveSession(t) PROVE TypeOK'
    BY <1>14 DEF RemoveSession, CloseReturns
  <1>15. CASE SetUDPAddr
    BY <1>15 DEF SetUDPAddr
  <1>16. CASE UpdateHeartbeat
    BY <1>16 DEF UpdateHeartbeat
  <1>17. CASE MapUDPAddr
    BY <1>17 DEF MapUDPAddr
  <1>18. CASE DropUDP
    BY <1>18 DEF DropUDP
  <1>19. ASSUME NEW c \in KConns, InjectKCP(c) PROVE TypeOK'
    BY <1>19 DEF InjectKCP
  <1>20. ASSUME NEW c \in KConns, AcceptKCP(c) PROVE TypeOK'
    BY <1>20 DEF AcceptKCP, ByAddr
  <1>21. ASSUME NEW c \in KConns, RejectKCP(c) PROVE TypeOK'
    BY <1>21 DEF RejectKCP
  <1>22. CASE SetKCPConn
    BY <1>22 DEF SetKCPConn
  <1>23. ASSUME NEW s \in Sessions, NEW a \in Addrs, ReadUDP(s, a) PROVE TypeOK'
    BY <1>23 DEF ReadUDP
  <1>24. CASE UNCHANGED vars
    BY <1>24 DEF vars
  <1>25. QED
    BY <1>1, <1>2, <1>3, <1>4, <1>5, <1>6, <1>7, <1>8, <1>9, <1>10, <1>11,
       <1>12, <1>13, <1>14, <1>15, <1>16, <1>17, <1>18, <1>19, <1>20,
       <1>21, <1>22, <1>23, <1>24, OneStep

-----------------------------------------------------------------------------
(* Steps keep the invariant.                                                *)

\* Goroutines keep working for the session they were started for.
LEMMA StepReaders ==
  ASSUME GatewayAssumption, IInv, TypeOK', [Next]_vars PROVE ReadersOK'
PROOF
  <1> USE DEF IInv, TypeOK, Goto, Readers, manager, session, threads,
              ReadersOK, Made, ReaderType, UdpType, AcceptType, UdpIdle,
              AcceptIdle
  <1>1. ASSUME NEW s \in Sessions, AddSession(s) PROVE ReadersOK'
    BY <1>1 DEF AddSession
  <1>2. ASSUME NEW t \in Readers, ReadPacket(t) PROVE ReadersOK'
    <2>1. CASE Goto(t, "lobby")
      BY <1>2, <2>1 DEF ReadPacket
    <2>2. CASE Goto(t, "game")
      BY <1>2, <2>2 DEF ReadPacket
    <2>3. QED
      BY <1>2, <2>1, <2>2 DEF ReadPacket
  <1>3. ASSUME NEW s \in Sessions, WsReadFails(s) PROVE ReadersOK'
    BY <1>3 DEF WsReadFails
  <1>4. ASSUME NEW c \in KConns, KcpReadFails(c) PROVE ReadersOK'
    BY <1>4 DEF KcpReadFails
  <1>5. ASSUME NEW c \in KConns, UnsetKCPConn(c) PROVE ReadersOK'
    BY <1>5 DEF UnsetKCPConn
  <1>6. ASSUME NEW t \in Readers, LobbyAnswers(t) PROVE ReadersOK'
    <2>1. CASE Goto(t, "read")
      BY <1>6, <2>1 DEF LobbyAnswers
    <2>2. CASE Goto(t, "close")
      BY <1>6, <2>2 DEF LobbyAnswers
    <2>3. QED
      BY <1>6, <2>1, <2>2 DEF LobbyAnswers
  <1>7. ASSUME NEW t \in Readers, RouteToGame(t) PROVE ReadersOK'
    BY <1>7 DEF RouteToGame
  <1>8. ASSUME NEW s \in Sessions, GameStreamBreaks(s) PROVE ReadersOK'
    BY <1>8 DEF GameStreamBreaks
  <1>9. ASSUME NEW t \in Readers, AlreadyClosed(t) PROVE ReadersOK'
    BY <1>9 DEF AlreadyClosed, CloseReturns
  <1>10. ASSUME NEW t \in Readers, Close(t) PROVE ReadersOK'
    BY <1>10 DEF Close
  <1>11. ASSUME NEW t \in Readers, CancelGame(t) PROVE ReadersOK'
    BY <1>11 DEF CancelGame
  <1>12. ASSUME NEW t \in Readers, NotifyDisconnect(t) PROVE ReadersOK'
    BY <1>12 DEF NotifyDisconnect
  <1>13. ASSUME NEW t \in Readers, CloseKCPConn(t) PROVE ReadersOK'
    BY <1>13 DEF CloseKCPConn
  <1>14. ASSUME NEW t \in Readers, RemoveSession(t) PROVE ReadersOK'
    BY <1>14 DEF RemoveSession, CloseReturns
  <1>15. CASE SetUDPAddr
    BY <1>15 DEF SetUDPAddr
  <1>16. CASE UpdateHeartbeat
    BY <1>16 DEF UpdateHeartbeat
  <1>17. CASE MapUDPAddr
    BY <1>17 DEF MapUDPAddr
  <1>18. CASE DropUDP
    BY <1>18 DEF DropUDP
  <1>19. ASSUME NEW c \in KConns, InjectKCP(c) PROVE ReadersOK'
    BY <1>19 DEF InjectKCP
  <1>20. ASSUME NEW c \in KConns, AcceptKCP(c) PROVE ReadersOK'
    BY <1>20 DEF AcceptKCP, ByAddr
  <1>21. ASSUME NEW c \in KConns, RejectKCP(c) PROVE ReadersOK'
    BY <1>21 DEF RejectKCP, ByAddr
  <1>22. CASE SetKCPConn
    BY <1>22 DEF SetKCPConn
  <1>23. ASSUME NEW s \in Sessions, NEW a \in Addrs, ReadUDP(s, a) PROVE ReadersOK'
    BY <1>23 DEF ReadUDP
  <1>24. CASE UNCHANGED vars
    BY <1>24 DEF vars
  <1>25. QED
    BY <1>1, <1>2, <1>3, <1>4, <1>5, <1>6, <1>7, <1>8, <1>9, <1>10, <1>11,
       <1>12, <1>13, <1>14, <1>15, <1>16, <1>17, <1>18, <1>19, <1>20,
       <1>21, <1>22, <1>23, <1>24, OneStep

\* No step of the loops or of the manager leaves an address with the wrong
\* session.
LEMMA StepAddr ==
  ASSUME GatewayAssumption, IInv, TypeOK', [Next]_vars PROVE AddrOK'
PROOF
  <1> USE DEF IInv, TypeOK, Goto, Readers, manager, session, threads,
              AddrOK, AddrOwned, ReadersOK, KcpType, UdpType, AcceptType,
              UdpIdle, AcceptIdle
  <1>1. ASSUME NEW s \in Sessions, AddSession(s) PROVE AddrOK'
    BY <1>1 DEF AddSession
  <1>2. ASSUME NEW t \in Readers, ReadPacket(t) PROVE AddrOK'
    <2>1. CASE Goto(t, "lobby")
      BY <1>2, <2>1 DEF ReadPacket
    <2>2. CASE Goto(t, "game")
      BY <1>2, <2>2 DEF ReadPacket
    <2>3. QED
      BY <1>2, <2>1, <2>2 DEF ReadPacket
  <1>3. ASSUME NEW s \in Sessions, WsReadFails(s) PROVE AddrOK'
    BY <1>3 DEF WsReadFails
  <1>4. ASSUME NEW c \in KConns, KcpReadFails(c) PROVE AddrOK'
    BY <1>4 DEF KcpReadFails
  <1>5. ASSUME NEW c \in KConns, UnsetKCPConn(c) PROVE AddrOK'
    BY <1>5 DEF UnsetKCPConn
  <1>6. ASSUME NEW t \in Readers, LobbyAnswers(t) PROVE AddrOK'
    <2>1. CASE Goto(t, "read")
      BY <1>6, <2>1 DEF LobbyAnswers
    <2>2. CASE Goto(t, "close")
      BY <1>6, <2>2 DEF LobbyAnswers
    <2>3. QED
      BY <1>6, <2>1, <2>2 DEF LobbyAnswers
  <1>7. ASSUME NEW t \in Readers, RouteToGame(t) PROVE AddrOK'
    BY <1>7 DEF RouteToGame
  <1>8. ASSUME NEW s \in Sessions, GameStreamBreaks(s) PROVE AddrOK'
    BY <1>8 DEF GameStreamBreaks
  <1>9. ASSUME NEW t \in Readers, AlreadyClosed(t) PROVE AddrOK'
    BY <1>9 DEF AlreadyClosed, CloseReturns
  <1>10. ASSUME NEW t \in Readers, Close(t) PROVE AddrOK'
    BY <1>10 DEF Close
  <1>11. ASSUME NEW t \in Readers, CancelGame(t) PROVE AddrOK'
    BY <1>11 DEF CancelGame
  <1>12. ASSUME NEW t \in Readers, NotifyDisconnect(t) PROVE AddrOK'
    BY <1>12 DEF NotifyDisconnect
  <1>13. ASSUME NEW t \in Readers, CloseKCPConn(t) PROVE AddrOK'
    BY <1>13 DEF CloseKCPConn
  <1>14. ASSUME NEW t \in Readers, RemoveSession(t) PROVE AddrOK'
    BY <1>14 DEF RemoveSession, CloseReturns
  <1>15. CASE SetUDPAddr
    BY <1>15 DEF SetUDPAddr
  <1>16. CASE UpdateHeartbeat
    BY <1>16 DEF UpdateHeartbeat
  <1>17. CASE MapUDPAddr
    BY <1>17 DEF MapUDPAddr
  <1>18. CASE DropUDP
    BY <1>18 DEF DropUDP
  <1>19. ASSUME NEW c \in KConns, InjectKCP(c) PROVE AddrOK'
    BY <1>19 DEF InjectKCP
  <1>20. ASSUME NEW c \in KConns, AcceptKCP(c) PROVE AddrOK'
    BY <1>20 DEF AcceptKCP, ByAddr
  <1>21. ASSUME NEW c \in KConns, RejectKCP(c) PROVE AddrOK'
    BY <1>21 DEF RejectKCP, ByAddr
  <1>22. CASE SetKCPConn
    BY <1>22 DEF SetKCPConn
  <1>23. ASSUME NEW s \in Sessions, NEW a \in Addrs, ReadUDP(s, a) PROVE AddrOK'
    BY <1>23 DEF ReadUDP
  <1>24. CASE UNCHANGED vars
    BY <1>24 DEF vars
  <1>25. QED
    BY <1>1, <1>2, <1>3, <1>4, <1>5, <1>6, <1>7, <1>8, <1>9, <1>10, <1>11,
       <1>12, <1>13, <1>14, <1>15, <1>16, <1>17, <1>18, <1>19, <1>20,
       <1>21, <1>22, <1>23, <1>24, OneStep

\* Only the removal of a session of the same address takes an entry away.
LEMMA StepReaches ==
  ASSUME GatewayAssumption, IInv, TypeOK', [Next]_vars PROVE AddrReaches'
PROOF
  <1> USE DEF IInv, TypeOK, Goto, Readers, manager, session, threads,
              AddrReaches, AddrOK, AddrOwned, ReadersOK, Made, UdpType,
              AcceptType, UdpIdle, AcceptIdle
  <1>1. ASSUME NEW s \in Sessions, AddSession(s) PROVE AddrReaches'
    BY <1>1 DEF AddSession
  <1>2. ASSUME NEW t \in Readers, ReadPacket(t) PROVE AddrReaches'
    <2>1. CASE Goto(t, "lobby")
      BY <1>2, <2>1 DEF ReadPacket
    <2>2. CASE Goto(t, "game")
      BY <1>2, <2>2 DEF ReadPacket
    <2>3. QED
      BY <1>2, <2>1, <2>2 DEF ReadPacket
  <1>3. ASSUME NEW s \in Sessions, WsReadFails(s) PROVE AddrReaches'
    BY <1>3 DEF WsReadFails
  <1>4. ASSUME NEW c \in KConns, KcpReadFails(c) PROVE AddrReaches'
    BY <1>4 DEF KcpReadFails
  <1>5. ASSUME NEW c \in KConns, UnsetKCPConn(c) PROVE AddrReaches'
    BY <1>5 DEF UnsetKCPConn
  <1>6. ASSUME NEW t \in Readers, LobbyAnswers(t) PROVE AddrReaches'
    <2>1. CASE Goto(t, "read")
      BY <1>6, <2>1 DEF LobbyAnswers
    <2>2. CASE Goto(t, "close")
      BY <1>6, <2>2 DEF LobbyAnswers
    <2>3. QED
      BY <1>6, <2>1, <2>2 DEF LobbyAnswers
  <1>7. ASSUME NEW t \in Readers, RouteToGame(t) PROVE AddrReaches'
    BY <1>7 DEF RouteToGame
  <1>8. ASSUME NEW s \in Sessions, GameStreamBreaks(s) PROVE AddrReaches'
    BY <1>8 DEF GameStreamBreaks
  <1>9. ASSUME NEW t \in Readers, AlreadyClosed(t) PROVE AddrReaches'
    BY <1>9 DEF AlreadyClosed, CloseReturns
  <1>10. ASSUME NEW t \in Readers, Close(t) PROVE AddrReaches'
    BY <1>10 DEF Close
  <1>11. ASSUME NEW t \in Readers, CancelGame(t) PROVE AddrReaches'
    BY <1>11 DEF CancelGame
  <1>12. ASSUME NEW t \in Readers, NotifyDisconnect(t) PROVE AddrReaches'
    BY <1>12 DEF NotifyDisconnect
  <1>13. ASSUME NEW t \in Readers, CloseKCPConn(t) PROVE AddrReaches'
    BY <1>13 DEF CloseKCPConn
  <1>14. ASSUME NEW t \in Readers, RemoveSession(t) PROVE AddrReaches'
    <2>1. reader[t].at \in Sessions
      BY <1>14, HasSession DEF RemoveSession
    <2>2. UNCHANGED <<udp_addr, udp>> /\ sessions' = sessions \ {reader[t].at}
      BY <1>14 DEF RemoveSession
    <2>3. \A a \in Addrs : a # udp_addr[reader[t].at] => addr_map'[a] = addr_map[a]
      BY <1>14 DEF RemoveSession
    <2> QED
      BY <2>1, <2>2, <2>3
  <1>15. CASE SetUDPAddr
    BY <1>15 DEF SetUDPAddr
  <1>16. CASE UpdateHeartbeat
    BY <1>16 DEF UpdateHeartbeat
  <1>17. CASE MapUDPAddr
    BY <1>17 DEF MapUDPAddr
  <1>18. CASE DropUDP
    BY <1>18 DEF DropUDP
  <1>19. ASSUME NEW c \in KConns, InjectKCP(c) PROVE AddrReaches'
    BY <1>19 DEF InjectKCP
  <1>20. ASSUME NEW c \in KConns, AcceptKCP(c) PROVE AddrReaches'
    BY <1>20 DEF AcceptKCP, ByAddr
  <1>21. ASSUME NEW c \in KConns, RejectKCP(c) PROVE AddrReaches'
    BY <1>21 DEF RejectKCP, ByAddr
  <1>22. CASE SetKCPConn
    BY <1>22 DEF SetKCPConn
  <1>23. ASSUME NEW s \in Sessions, NEW a \in Addrs, ReadUDP(s, a) PROVE AddrReaches'
    BY <1>23 DEF ReadUDP
  <1>24. CASE UNCHANGED vars
    BY <1>24 DEF vars
  <1>25. QED
    BY <1>1, <1>2, <1>3, <1>4, <1>5, <1>6, <1>7, <1>8, <1>9, <1>10, <1>11,
       <1>12, <1>13, <1>14, <1>15, <1>16, <1>17, <1>18, <1>19, <1>20,
       <1>21, <1>22, <1>23, <1>24, OneStep

\* A reader that ends takes its connection out of the session first.
LEMMA StepKcp ==
  ASSUME GatewayAssumption, IInv, TypeOK', [Next]_vars PROVE KcpConnServed'
PROOF
  <1> USE DEF IInv, TypeOK, Goto, Readers, manager, session, threads,
              KcpConnServed, ReadersOK, Made, UdpType, AcceptType, UdpIdle,
              AcceptIdle
  <1>1. ASSUME NEW s \in Sessions, AddSession(s) PROVE KcpConnServed'
    BY <1>1 DEF AddSession
  <1>2. ASSUME NEW t \in Readers, ReadPacket(t) PROVE KcpConnServed'
    <2>1. CASE Goto(t, "lobby")
      BY <1>2, <2>1 DEF ReadPacket
    <2>2. CASE Goto(t, "game")
      BY <1>2, <2>2 DEF ReadPacket
    <2>3. QED
      BY <1>2, <2>1, <2>2 DEF ReadPacket
  <1>3. ASSUME NEW s \in Sessions, WsReadFails(s) PROVE KcpConnServed'
    BY <1>3 DEF WsReadFails
  <1>4. ASSUME NEW c \in KConns, KcpReadFails(c) PROVE KcpConnServed'
    BY <1>4 DEF KcpReadFails
  <1>5. ASSUME NEW c \in KConns, UnsetKCPConn(c) PROVE KcpConnServed'
    BY <1>5 DEF UnsetKCPConn
  <1>6. ASSUME NEW t \in Readers, LobbyAnswers(t) PROVE KcpConnServed'
    <2>1. CASE Goto(t, "read")
      BY <1>6, <2>1 DEF LobbyAnswers
    <2>2. CASE Goto(t, "close")
      BY <1>6, <2>2 DEF LobbyAnswers
    <2>3. QED
      BY <1>6, <2>1, <2>2 DEF LobbyAnswers
  <1>7. ASSUME NEW t \in Readers, RouteToGame(t) PROVE KcpConnServed'
    BY <1>7 DEF RouteToGame
  <1>8. ASSUME NEW s \in Sessions, GameStreamBreaks(s) PROVE KcpConnServed'
    BY <1>8 DEF GameStreamBreaks
  <1>9. ASSUME NEW t \in Readers, AlreadyClosed(t) PROVE KcpConnServed'
    BY <1>9 DEF AlreadyClosed, CloseReturns
  <1>10. ASSUME NEW t \in Readers, Close(t) PROVE KcpConnServed'
    BY <1>10 DEF Close
  <1>11. ASSUME NEW t \in Readers, CancelGame(t) PROVE KcpConnServed'
    BY <1>11 DEF CancelGame
  <1>12. ASSUME NEW t \in Readers, NotifyDisconnect(t) PROVE KcpConnServed'
    BY <1>12 DEF NotifyDisconnect
  <1>13. ASSUME NEW t \in Readers, CloseKCPConn(t) PROVE KcpConnServed'
    BY <1>13 DEF CloseKCPConn
  <1>14. ASSUME NEW t \in Readers, RemoveSession(t) PROVE KcpConnServed'
    BY <1>14 DEF RemoveSession, CloseReturns
  <1>15. CASE SetUDPAddr
    BY <1>15 DEF SetUDPAddr
  <1>16. CASE UpdateHeartbeat
    BY <1>16 DEF UpdateHeartbeat
  <1>17. CASE MapUDPAddr
    BY <1>17 DEF MapUDPAddr
  <1>18. CASE DropUDP
    BY <1>18 DEF DropUDP
  <1>19. ASSUME NEW c \in KConns, InjectKCP(c) PROVE KcpConnServed'
    BY <1>19 DEF InjectKCP
  <1>20. ASSUME NEW c \in KConns, AcceptKCP(c) PROVE KcpConnServed'
    BY <1>20 DEF AcceptKCP, ByAddr
  <1>21. ASSUME NEW c \in KConns, RejectKCP(c) PROVE KcpConnServed'
    BY <1>21 DEF RejectKCP, ByAddr
  <1>22. CASE SetKCPConn
    BY <1>22 DEF SetKCPConn
  <1>23. ASSUME NEW s \in Sessions, NEW a \in Addrs, ReadUDP(s, a) PROVE KcpConnServed'
    BY <1>23 DEF ReadUDP
  <1>24. CASE UNCHANGED vars
    BY <1>24 DEF vars
  <1>25. QED
    BY <1>1, <1>2, <1>3, <1>4, <1>5, <1>6, <1>7, <1>8, <1>9, <1>10, <1>11,
       <1>12, <1>13, <1>14, <1>15, <1>16, <1>17, <1>18, <1>19, <1>20,
       <1>21, <1>22, <1>23, <1>24, OneStep

\* Whoever closes a session does so alone.
LEMMA StepClose ==
  ASSUME GatewayAssumption, IInv, TypeOK', [Next]_vars PROVE CloseOK'
PROOF
  <1> USE DEF IInv, TypeOK, Goto, Readers, manager, session, threads,
              CloseOK, Closing, ReadersOK, Made, ReaderType, GameStates,
              UdpIdle, AcceptIdle
  <1>1. ASSUME NEW s \in Sessions, AddSession(s) PROVE CloseOK'
    BY <1>1 DEF AddSession
  <1>2. ASSUME NEW t \in Readers, ReadPacket(t) PROVE CloseOK'
    <2>1. CASE Goto(t, "lobby")
      BY <1>2, <2>1 DEF ReadPacket
    <2>2. CASE Goto(t, "game")
      BY <1>2, <2>2 DEF ReadPacket
    <2>3. QED
      BY <1>2, <2>1, <2>2 DEF ReadPacket
  <1>3. ASSUME NEW s \in Sessions, WsReadFails(s) PROVE CloseOK'
    BY <1>3 DEF WsReadFails
  <1>4. ASSUME NEW c \in KConns, KcpReadFails(c) PROVE CloseOK'
    BY <1>4 DEF KcpReadFails
  <1>5. ASSUME NEW c \in KConns, UnsetKCPConn(c) PROVE CloseOK'
    BY <1>5 DEF UnsetKCPConn
  <1>6. ASSUME NEW t \in Readers, LobbyAnswers(t) PROVE CloseOK'
    <2>1. CASE Goto(t, "read")
      BY <1>6, <2>1 DEF LobbyAnswers
    <2>2. CASE Goto(t, "close")
      BY <1>6, <2>2 DEF LobbyAnswers
    <2>3. QED
      BY <1>6, <2>1, <2>2 DEF LobbyAnswers
  <1>7. ASSUME NEW t \in Readers, RouteToGame(t) PROVE CloseOK'
    BY <1>7 DEF RouteToGame
  <1>8. ASSUME NEW s \in Sessions, GameStreamBreaks(s) PROVE CloseOK'
    BY <1>8 DEF GameStreamBreaks
  <1>9. ASSUME NEW t \in Readers, AlreadyClosed(t) PROVE CloseOK'
    BY <1>9 DEF AlreadyClosed, CloseReturns
  <1>10. ASSUME NEW t \in Readers, Close(t) PROVE CloseOK'
    BY <1>10 DEF Close
  <1>11. ASSUME NEW t \in Readers, CancelGame(t) PROVE CloseOK'
    BY <1>11 DEF CancelGame
  <1>12. ASSUME NEW t \in Readers, NotifyDisconnect(t) PROVE CloseOK'
    BY <1>12 DEF NotifyDisconnect
  <1>13. ASSUME NEW t \in Readers, CloseKCPConn(t) PROVE CloseOK'
    BY <1>13 DEF CloseKCPConn
  <1>14. ASSUME NEW t \in Readers, RemoveSession(t) PROVE CloseOK'
    BY <1>14 DEF RemoveSession, CloseReturns
  <1>15. CASE SetUDPAddr
    BY <1>15 DEF SetUDPAddr
  <1>16. CASE UpdateHeartbeat
    BY <1>16 DEF UpdateHeartbeat
  <1>17. CASE MapUDPAddr
    BY <1>17 DEF MapUDPAddr
  <1>18. CASE DropUDP
    BY <1>18 DEF DropUDP
  <1>19. ASSUME NEW c \in KConns, InjectKCP(c) PROVE CloseOK'
    BY <1>19 DEF InjectKCP
  <1>20. ASSUME NEW c \in KConns, AcceptKCP(c) PROVE CloseOK'
    BY <1>20 DEF AcceptKCP, ByAddr
  <1>21. ASSUME NEW c \in KConns, RejectKCP(c) PROVE CloseOK'
    BY <1>21 DEF RejectKCP, ByAddr
  <1>22. CASE SetKCPConn
    BY <1>22 DEF SetKCPConn
  <1>23. ASSUME NEW s \in Sessions, NEW a \in Addrs, ReadUDP(s, a) PROVE CloseOK'
    BY <1>23 DEF ReadUDP
  <1>24. CASE UNCHANGED vars
    BY <1>24 DEF vars
  <1>25. QED
    BY <1>1, <1>2, <1>3, <1>4, <1>5, <1>6, <1>7, <1>8, <1>9, <1>10, <1>11,
       <1>12, <1>13, <1>14, <1>15, <1>16, <1>17, <1>18, <1>19, <1>20,
       <1>21, <1>22, <1>23, <1>24, OneStep

\* Nobody goes back to a session that has been forgotten.
LEMMA StepForgotten ==
  ASSUME GatewayAssumption, IInv, TypeOK', [Next]_vars PROVE ClosedIsForgotten'
PROOF
  <1> USE DEF IInv, TypeOK, Goto, Readers, manager, session, threads,
              ClosedIsForgotten, CloseOK, Closing, ReadersOK, Made,
              ReaderType, GameStates, UdpIdle, AcceptIdle
  <1>1. ASSUME NEW s \in Sessions, AddSession(s) PROVE ClosedIsForgotten'
    BY <1>1 DEF AddSession
  <1>2. ASSUME NEW t \in Readers, ReadPacket(t) PROVE ClosedIsForgotten'
    <2>1. CASE Goto(t, "lobby")
      BY <1>2, <2>1 DEF ReadPacket
    <2>2. CASE Goto(t, "game")
      BY <1>2, <2>2 DEF ReadPacket
    <2>3. QED
      BY <1>2, <2>1, <2>2 DEF ReadPacket
  <1>3. ASSUME NEW s \in Sessions, WsReadFails(s) PROVE ClosedIsForgotten'
    BY <1>3 DEF WsReadFails
  <1>4. ASSUME NEW c \in KConns, KcpReadFails(c) PROVE ClosedIsForgotten'
    BY <1>4 DEF KcpReadFails
  <1>5. ASSUME NEW c \in KConns, UnsetKCPConn(c) PROVE ClosedIsForgotten'
    BY <1>5 DEF UnsetKCPConn
  <1>6. ASSUME NEW t \in Readers, LobbyAnswers(t) PROVE ClosedIsForgotten'
    <2>1. CASE Goto(t, "read")
      BY <1>6, <2>1 DEF LobbyAnswers
    <2>2. CASE Goto(t, "close")
      BY <1>6, <2>2 DEF LobbyAnswers
    <2>3. QED
      BY <1>6, <2>1, <2>2 DEF LobbyAnswers
  <1>7. ASSUME NEW t \in Readers, RouteToGame(t) PROVE ClosedIsForgotten'
    BY <1>7 DEF RouteToGame
  <1>8. ASSUME NEW s \in Sessions, GameStreamBreaks(s) PROVE ClosedIsForgotten'
    BY <1>8 DEF GameStreamBreaks
  <1>9. ASSUME NEW t \in Readers, AlreadyClosed(t) PROVE ClosedIsForgotten'
    BY <1>9 DEF AlreadyClosed, CloseReturns
  <1>10. ASSUME NEW t \in Readers, Close(t) PROVE ClosedIsForgotten'
    BY <1>10 DEF Close
  <1>11. ASSUME NEW t \in Readers, CancelGame(t) PROVE ClosedIsForgotten'
    BY <1>11 DEF CancelGame
  <1>12. ASSUME NEW t \in Readers, NotifyDisconnect(t) PROVE ClosedIsForgotten'
    BY <1>12 DEF NotifyDisconnect
  <1>13. ASSUME NEW t \in Readers, CloseKCPConn(t) PROVE ClosedIsForgotten'
    BY <1>13 DEF CloseKCPConn
  <1>14. ASSUME NEW t \in Readers, RemoveSession(t) PROVE ClosedIsForgotten'
    BY <1>14 DEF RemoveSession, CloseReturns
  <1>15. CASE SetUDPAddr
    BY <1>15 DEF SetUDPAddr
  <1>16. CASE UpdateHeartbeat
    BY <1>16 DEF UpdateHeartbeat
  <1>17. CASE MapUDPAddr
    BY <1>17 DEF MapUDPAddr
  <1>18. CASE DropUDP
    BY <1>18 DEF DropUDP
  <1>19. ASSUME NEW c \in KConns, InjectKCP(c) PROVE ClosedIsForgotten'
    BY <1>19 DEF InjectKCP
  <1>20. ASSUME NEW c \in KConns, AcceptKCP(c) PROVE ClosedIsForgotten'
    BY <1>20 DEF AcceptKCP, ByAddr
  <1>21. ASSUME NEW c \in KConns, RejectKCP(c) PROVE ClosedIsForgotten'
    BY <1>21 DEF RejectKCP, ByAddr
  <1>22. CASE SetKCPConn
    <2>1. accept.at \in Sessions /\ accept.conn \in KConns
      BY <1>22 DEF SetKCPConn, AcceptType
    <2>2. \A s \in Sessions : reader'[s] = reader[s]
      BY <1>22, <2>1 DEF SetKCPConn
    <2>3. \A s \in Sessions, t \in Readers : Closing(t, s)' <=> Closing(t, s)
      <3>1. \A t \in Readers : t # accept.conn => reader'[t] = reader[t]
        BY <1>22, <2>1 DEF SetKCPConn
      <3>2. reader[accept.conn].pc = "none" /\ reader'[accept.conn].pc = "read"
        BY <1>22, <2>1 DEF SetKCPConn
      <3>3. QED
        BY <3>1, <3>2
    <2>4. UNCHANGED <<sessions, connected, game, told, late>>
      BY <1>22 DEF SetKCPConn
    <2> HIDE DEF Closing
    <2>5. QED
      BY <2>2, <2>3, <2>4
  <1>23. ASSUME NEW s \in Sessions, NEW a \in Addrs, ReadUDP(s, a) PROVE ClosedIsForgotten'
    BY <1>23 DEF ReadUDP
  <1>24. CASE UNCHANGED vars
    BY <1>24 DEF vars
  <1>25. QED
    BY <1>1, <1>2, <1>3, <1>4, <1>5, <1>6, <1>7, <1>8, <1>9, <1>10, <1>11,
       <1>12, <1>13, <1>14, <1>15, <1>16, <1>17, <1>18, <1>19, <1>20,
       <1>21, <1>22, <1>23, <1>24, OneStep

\* Nothing has happened at the start.
LEMMA InitInv == ASSUME GatewayAssumption, Init PROVE IInv
PROOF
  <1>1. TypeOK
    BY DEF Init, TypeOK, ReaderType, GameStates, KcpType, UdpType, AcceptType,
           UdpIdle, AcceptIdle, Absent
  <1>2. ReadersOK /\ AddrOK /\ AddrReaches /\ KcpConnServed
    BY DEF Init, ReadersOK, Made, AddrOK, AddrOwned, AddrReaches, KcpConnServed,
           Readers, UdpIdle, AcceptIdle, Absent
  <1>3. CloseOK /\ ClosedIsForgotten
    BY DEF Init, CloseOK, ClosedIsForgotten, Closing, Made, Readers, Absent
  <1>4. QED
    BY <1>1, <1>2, <1>3 DEF IInv

\* The invariant holds in every reachable state.
LEMMA Inductive == Spec => []IInv
PROOF
  <1>1. Init => IInv
    BY InitInv, GatewayAssumption
  <1>2. IInv /\ [Next]_vars => IInv'
    <2>1. SUFFICES ASSUME IInv, [Next]_vars PROVE IInv'
      OBVIOUS
    <2>2. TypeOK'
      BY <2>1, TypeStep, GatewayAssumption DEF IInv
    <2>3. ReadersOK' /\ AddrOK' /\ AddrReaches'
      BY <2>1, <2>2, StepReaders, StepAddr, StepReaches, GatewayAssumption
    <2>4. KcpConnServed' /\ CloseOK' /\ ClosedIsForgotten'
      BY <2>1, <2>2, StepKcp, StepClose, StepForgotten, GatewayAssumption
    <2>5. QED
      BY <2>2, <2>3, <2>4 DEF IInv
  <1>3. QED
    BY <1>1, <1>2, PTL DEF Spec

-----------------------------------------------------------------------------
(* Theorems.                                                                *)

\* Every variable of the gateway keeps its shape.
THEOREM TypeCorrect == Spec => []TypeOK
PROOF
  <1>1. IInv => TypeOK
    BY DEF IInv
  <1>2. QED
    BY <1>1, Inductive, PTL

\* An address leads to the session that is bound to it, and a session sends
\* over a connection of its own address, however the two UDP loops, Close and
\* the readers' deferred SetKCPConn(nil) interleave.
THEOREM AddrOwnedHolds == Spec => []AddrOwned
PROOF
  <1>1. IInv => AddrOwned
    BY DEF IInv, AddrOK
  <1>2. QED
    BY <1>1, Inductive, PTL

\* A session that alone has ever had its address is found by it.
THEOREM AddrReachesHolds == Spec => []AddrReaches
PROOF
  <1>1. IInv => AddrReaches
    BY DEF IInv
  <1>2. QED
    BY <1>1, Inductive, PTL

\* A session sends only over a connection that a goroutine reads for it,
\* whichever connection the deferred SetKCPConn(nil) clears.
THEOREM KcpServedHolds == Spec => []KcpConnServed
PROOF
  <1>1. IInv => KcpConnServed
    BY DEF IInv
  <1>2. QED
    BY <1>1, Inductive, PTL

\* Close runs once for a session, and the lobby is told once.
THEOREM ClosedOnceHolds == Spec => []ClosedOnce
PROOF
  <1>1. ASSUME IInv PROVE ClosedOnce
    <2>1. ASSUME NEW s \in Sessions PROVE told[s] <= 1 /\ (told[s] = 1 => s \notin connected)
      BY <1>1 DEF IInv, CloseOK, ClosedIsForgotten, Made
    <2>2. QED
      BY <1>1, <2>1 DEF ClosedOnce, IInv, CloseOK
  <1>2. QED
    BY <1>1, Inductive, PTL

\* When Close has returned the session is out of the map, the lobby has been
\* told and the game stream it had is cancelled.
THEOREM ForgottenHolds == Spec => []ClosedIsForgotten
PROOF
  <1>1. IInv => ClosedIsForgotten
    BY DEF IInv
  <1>2. QED
    BY <1>1, Inductive, PTL

-----------------------------------------------------------------------------
(* The gateway implements SessionLife.                                      *)

Cancels(s) == \E t \in Readers : reader[t].at = s /\ reader[t].pc = "cancel"

\* What the stage of a session is read from.
StageParts(s) ==
  <<Made(s), s \in connected, Cancels(s), told[s] = 0, s \in sessions>>

\* The life of a session goes on only when one of them changes.
LEMMA StageStays ==
  ASSUME \A s \in Sessions : UNCHANGED StageParts(s)
  PROVE  UNCHANGED Stage
  BY DEF StageParts, Made, Cancels, Stage

\* What a stage says of its parts, while one goroutine closes the session.
LEMMA StageReads ==
  ASSUME IInv, NEW s \in Sessions
  PROVE  /\ Stage[s] = "new" <=> ~Made(s)
         /\ Stage[s] = "open" <=> s \in connected
         /\ \A t \in Readers : reader[t].at = s =>
              /\ reader[t].pc = "cancel" => Stage[s] = "closing"
              /\ reader[t].pc = "notify" => Stage[s] = "cut"
              /\ reader[t].pc \in {"shut", "remove"} => Stage[s] = "told"
PROOF
  <1>1. s \in connected => Made(s)
    BY DEF IInv, ReadersOK
  <1>2. (Stage[s] = "new" <=> ~Made(s)) /\ (Stage[s] = "open" <=> s \in connected)
    BY <1>1 DEF Stage, Made
  <1>3. ASSUME NEW t \in Readers, Closing(t, s)
        PROVE  /\ Made(s) /\ s \notin connected /\ s \in sessions
               /\ told[s] = IF reader[t].pc \in {"cancel", "notify"} THEN 0 ELSE 1
               /\ Cancels(s) <=> reader[t].pc = "cancel"
    BY <1>3 DEF IInv, CloseOK, Closing, Cancels
  <1>4. QED
    BY <1>2, <1>3 DEF Closing, Stage, Made, Cancels

\* Readers that neither begin nor are about to cancel a stream move no session.
LEMMA ReadersMove ==
  ASSUME UNCHANGED <<connected, told, sessions>>,
         \A s \in Sessions : UNCHANGED Made(s),
         \A q \in Readers : \/ reader'[q] = reader[q]
                            \/ reader[q].pc # "cancel" /\ reader'[q].pc # "cancel"
  PROVE  UNCHANGED Stage
PROOF
  <1>1. \A s \in Sessions : UNCHANGED Cancels(s)
    BY DEF Cancels
  <1>2. QED
    BY <1>1, StageStays DEF StageParts

\* So does a reader's step to another place of the kind.
LEMMA ReaderMoves ==
  ASSUME IInv, NEW t \in Readers, NEW pc \in ReaderPc \ {"none", "cancel"},
         reader[t].pc \notin {"none", "cancel"}, Goto(t, pc),
         UNCHANGED <<connected, told, sessions>>
  PROVE  UNCHANGED Stage
PROOF
  <1>1. /\ \A q \in Readers \ {t} : reader'[q] = reader[q]
        /\ reader'[t].pc = pc
    BY DEF Goto, IInv, TypeOK, ReaderType
  <1>2. \A s \in Sessions : UNCHANGED Made(s)
    BY <1>1 DEF Made, Readers
  <1>3. QED
    BY <1>1, <1>2, ReadersMove

\* One session goes on, when it alone has parts that change.
LEMMA StageMoves ==
  ASSUME NEW s \in Sessions, NEW to, Stage'[s] = to,
         \A q \in Sessions \ {s} : UNCHANGED StageParts(q)
  PROVE  Stage' = [Stage EXCEPT ![s] = to]
PROOF
  <1>1. \A q \in Sessions \ {s} : Stage'[q] = Stage[q]
    BY DEF StageParts, Made, Cancels, Stage
  <1>2. /\ Stage = [q \in Sessions |-> Stage[q]]
        /\ Stage' = [q \in Sessions |-> Stage'[q]]
    BY DEF Stage
  <1> HIDE DEF Stage
  <1>3. QED
    BY <1>1, <1>2

\* A step of a reader that works for session s leaves the others where they are.
LEMMA OthersStay ==
  ASSUME IInv, NEW t \in Readers, NEW pc, NEW s \in Sessions, Goto(t, pc),
         reader[t].at = s, reader[t].pc # "none", pc # "none",
         \A q \in Sessions \ {s} :
           UNCHANGED <<q \in connected, told[q], q \in sessions>>
  PROVE  \A q \in Sessions \ {s} : UNCHANGED StageParts(q)
PROOF
  <1>1. \A r \in Readers :
          /\ reader'[r].at = reader[r].at
          /\ reader'[r].pc = IF r = t THEN pc ELSE reader[r].pc
    BY DEF Goto, IInv, TypeOK, ReaderType
  <1>2. \A q \in Sessions \ {s} : UNCHANGED <<Made(q), Cancels(q)>>
    BY <1>1 DEF Made, Cancels, Readers
  <1>3. QED
    BY <1>2 DEF StageParts

\* AddSession opens the session.
LEMMA OpensStep ==
  ASSUME IInv, NEW s \in Sessions, AddSession(s) PROVE Life!Open(s)
PROOF
  <1>1. \A r \in Readers : r # s => reader'[r] = reader[r]
    BY DEF AddSession, IInv, TypeOK
  <1>2. s \in Readers /\ reader'[s].pc = "read"
    BY DEF AddSession, IInv, TypeOK, ReaderType, Readers
  <1>3. \A q \in Sessions : UNCHANGED Cancels(q)
    BY <1>1, <1>2 DEF AddSession, Cancels
  <1>4. \A q \in Sessions \ {s} : UNCHANGED StageParts(q)
    <2> SUFFICES ASSUME NEW q \in Sessions \ {s} PROVE UNCHANGED StageParts(q)
      OBVIOUS
    <2>1. q # s /\ reader'[q] = reader[q] /\ told' = told
      BY <1>1 DEF AddSession, Readers
    <2>2. sessions' = sessions \cup {s} /\ connected' = connected \cup {s}
      BY DEF AddSession
    <2>3. UNCHANGED <<q \in connected, q \in sessions>>
      BY <2>1, <2>2
    <2>4. QED
      BY <1>3, <2>1, <2>3 DEF StageParts, Made
  <1>5. Stage[s] = "new" /\ Stage'[s] = "open"
    BY <1>2 DEF AddSession, Stage
  <1>6. QED
    BY <1>4, <1>5, StageMoves DEF AddSession, Life!Open, Life!Advance

\* The critical section of Close begins the end.
LEMMA ClosesStep ==
  ASSUME IInv, NEW t \in Readers, Close(t)
  PROVE  reader[t].at \in Sessions /\ Life!Close(reader[t].at)
PROOF
  <1> DEFINE s == reader[t].at
  <1>1. s \in Sessions /\ s \in connected
    BY HasSession DEF Close, IInv
  <1>2. /\ reader'[t].at = s /\ reader'[t].pc = "cancel"
        /\ connected' = connected \ {s}
    BY DEF Close, Goto, IInv, TypeOK, ReaderType
  <1>3. Made(s)'
    BY <1>1, <1>2 DEF Close, Goto, Made, IInv, ReadersOK, TypeOK, Readers, ReaderType
  <1>4. Stage[s] = "open" /\ Stage'[s] = "closing"
    BY <1>1, <1>2, <1>3, StageReads DEF Stage, Made
  <1>5. \A q \in Sessions \ {s} : UNCHANGED StageParts(q)
    BY <1>1, <1>2, OthersStay DEF Close, manager
  <1>6. Life!Close(s)
    BY <1>1, <1>4, <1>5, StageMoves DEF Close, Life!Close, Life!Advance
  <1>7. QED
    BY <1>1, <1>6

\* The reader that closes a session is the only one.
LEMMA OneCloser ==
  ASSUME IInv, NEW t \in Readers, NEW s \in Sessions, Closing(t, s)
  PROVE  /\ Made(s) /\ s \notin connected /\ s \in sessions
         /\ told[s] = IF reader[t].pc \in {"cancel", "notify"} THEN 0 ELSE 1
         /\ \A q \in Readers \ {t} : reader[q].at = s => reader[q].pc # "cancel"
  BY DEF IInv, CloseOK, Closing

\* Where the closing reader's step leads its session.
LEMMA CloserMoves ==
  ASSUME IInv, NEW t \in Readers, NEW s \in Sessions, Closing(t, s),
         NEW pc \in ReaderPc \ {"none", "cancel"}, Goto(t, pc),
         UNCHANGED connected
  PROVE  Stage'[s] = IF told'[s] = 0 THEN "cut"
                     ELSE IF s \in sessions' THEN "told" ELSE "gone"
PROOF
  <1>1. \A r \in Readers :
          /\ reader'[r].at = reader[r].at
          /\ reader'[r].pc = IF r = t THEN pc ELSE reader[r].pc
    BY DEF Goto, IInv, TypeOK, ReaderType
  <1>2. reader'[s].pc # "none" /\ s \notin connected'
    BY <1>1, OneCloser DEF Made, Readers
  <1>3. ~(\E r \in Readers : reader'[r].at = s /\ reader'[r].pc = "cancel")
    BY <1>1, OneCloser
  <1>4. QED
    BY <1>2, <1>3 DEF Stage

\* After GameCancel the stream is not open, and the lobby not told.
LEMMA CancelsStep ==
  ASSUME IInv, NEW t \in Readers, CancelGame(t)
  PROVE  reader[t].at \in Sessions /\ Life!Cancel(reader[t].at)
PROOF
  <1> DEFINE s == reader[t].at
  <1>1. s \in Sessions /\ Closing(t, s)
    BY HasSession DEF CancelGame, Closing, IInv
  <1>2. Stage[s] = "closing" /\ Stage'[s] = "cut"
    BY <1>1, StageReads, OneCloser, CloserMoves
    DEF CancelGame, session, ReaderPc
  <1>3. \A q \in Sessions \ {s} : UNCHANGED StageParts(q)
    BY <1>1, OthersStay DEF CancelGame, manager, session
  <1>4. Life!Cancel(s)
    BY <1>1, <1>2, <1>3, StageMoves DEF CancelGame, Life!Cancel, Life!Advance
  <1>5. QED
    BY <1>1, <1>4

\* The lobby is told by the reader that closes the session.
LEMMA DisconnectsStep ==
  ASSUME IInv, NEW t \in Readers, NotifyDisconnect(t)
  PROVE  reader[t].at \in Sessions /\ Life!Disconnect(reader[t].at)
PROOF
  <1> DEFINE s == reader[t].at
  <1>1. s \in Sessions /\ Closing(t, s)
    BY HasSession DEF NotifyDisconnect, Closing, IInv
  <1>2. told' = [told EXCEPT ![s] = 1]
    <2>1. told[s] = 0
      BY <1>1, OneCloser DEF NotifyDisconnect
    <2>2. QED
      BY <1>1, <2>1 DEF NotifyDisconnect
  <1>3. Stage[s] = "cut"
    BY <1>1, StageReads DEF NotifyDisconnect
  <1>4. Stage'[s] = "told"
    <2>1. told'[s] = 1 /\ s \in sessions'
      BY <1>1, <1>2, OneCloser DEF NotifyDisconnect, manager, IInv, TypeOK
    <2>2. QED
      BY <1>1, <2>1, CloserMoves DEF NotifyDisconnect, session, ReaderPc
  <1>5. \A q \in Sessions \ {s} : UNCHANGED StageParts(q)
    BY <1>1, <1>2, OthersStay DEF NotifyDisconnect, manager, session, IInv, TypeOK
  <1>6. Life!Disconnect(s)
    BY <1>1, <1>3, <1>4, <1>5, StageMoves
    DEF NotifyDisconnect, Life!Disconnect, Life!Advance
  <1>7. QED
    BY <1>1, <1>6

\* RemoveSession is the last step of Close.
LEMMA ForgetsStep ==
  ASSUME IInv, NEW t \in Readers, RemoveSession(t)
  PROVE  reader[t].at \in Sessions /\ Life!Forget(reader[t].at)
PROOF
  <1> DEFINE s == reader[t].at
             pc == IF reader[t].leaving THEN "done" ELSE "read"
  <1>1. s \in Sessions /\ Closing(t, s)
    BY HasSession DEF RemoveSession, Closing, IInv
  <1>2. Goto(t, pc) /\ sessions' = sessions \ {s}
    BY DEF RemoveSession, CloseReturns
  <1>3. Stage[s] = "told" /\ told'[s] = 1
    BY <1>1, StageReads, OneCloser DEF RemoveSession
  <1>4. Stage'[s] = "gone"
    BY <1>1, <1>2, <1>3, CloserMoves DEF RemoveSession, session, ReaderPc
  <1>5. \A q \in Sessions \ {s} : UNCHANGED StageParts(q)
    BY <1>1, <1>2, OthersStay DEF RemoveSession, session
  <1>6. Life!Forget(s)
    BY <1>1, <1>3, <1>4, <1>5, StageMoves
    DEF RemoveSession, Life!Forget, Life!Advance
  <1>7. QED
    BY <1>1, <1>6

\* A packet for the game server opens the stream of the session, or does not.
LEMMA OpensStreamStep ==
  ASSUME IInv, NEW t \in Readers, RouteToGame(t)
  PROVE  \/ UNCHANGED Life!vars
         \/ reader[t].at \in Sessions /\ Life!OpenStream(reader[t].at)
PROOF
  <1> DEFINE s == reader[t].at
  <1>1. s \in Sessions /\ Made(s)
    BY HasSession, GatewayAssumption DEF RouteToGame, IInv, ReadersOK, GatewayAssumption
  <1>2. UNCHANGED Stage
    BY ReaderMoves DEF RouteToGame, manager, session, ReaderPc
  <1>3. Stage[s] # "new" /\ (Stage[s] = "open" <=> s \in connected)
    BY <1>1, StageReads
  <1>4. CASE UNCHANGED <<game, late>>
    BY <1>2, <1>4 DEF Life!vars
  <1>5. CASE game[s] = "none" /\ game' = [game EXCEPT ![s] = "open"]
             /\ late' = IF s \notin connected THEN late \cup {s} ELSE late
    BY <1>1, <1>2, <1>3, <1>5 DEF Life!OpenStream
  <1>6. QED
    BY <1>4, <1>5 DEF RouteToGame

\* Every step of the gateway is a step in the life of one session, or none.
LEMMA LifeStep ==
  ASSUME GatewayAssumption, IInv, [Next]_vars
  PROVE  [Life!Next]_(Life!vars)
PROOF
  <1> USE DEF Life!vars
  <1>1. ASSUME NEW s \in Sessions, AddSession(s) PROVE Life!Next
    BY <1>1, OpensStep DEF Life!Next
  <1>2. ASSUME NEW t \in Readers, Close(t) PROVE Life!Next
    BY <1>2, ClosesStep DEF Life!Next
  <1>3. ASSUME NEW t \in Readers, CancelGame(t) PROVE Life!Next
    BY <1>3, CancelsStep DEF Life!Next
  <1>4. ASSUME NEW t \in Readers, NotifyDisconnect(t) PROVE Life!Next
    BY <1>4, DisconnectsStep DEF Life!Next
  <1>5. ASSUME NEW t \in Readers, RemoveSession(t) PROVE Life!Next
    BY <1>5, ForgetsStep DEF Life!Next
  <1>6. ASSUME NEW t \in Readers, RouteToGame(t)
        PROVE  Life!Next \/ UNCHANGED Life!vars
    BY <1>6, OpensStreamStep DEF Life!Next
  <1>7. ASSUME NEW s \in Sessions, GameStreamBreaks(s) PROVE Life!Next
    <2>1. UNCHANGED Stage
      BY <1>7 DEF GameStreamBreaks, Stage, manager, session, threads
    <2>2. QED
      BY <1>7, <2>1 DEF GameStreamBreaks, Life!StreamBreaks, Life!Next
  <1>8. CASE UNCHANGED <<reader, connected, told, sessions, game, late>>
    BY <1>8 DEF Stage
  <1>9. ASSUME NEW t \in Readers,
               \/ ReadPacket(t) \/ LobbyAnswers(t) \/ AlreadyClosed(t)
               \/ CloseKCPConn(t)
        PROVE  UNCHANGED Life!vars
    <2>1. PICK pc \in ReaderPc \ {"none", "cancel"} : Goto(t, pc)
      BY <1>9
      DEF ReadPacket, LobbyAnswers, AlreadyClosed, CloseReturns, CloseKCPConn,
          ReaderPc
    <2>2. /\ reader[t].pc \notin {"none", "cancel"}
          /\ UNCHANGED <<connected, told, sessions, game, late>>
      BY <1>9
      DEF ReadPacket, LobbyAnswers, AlreadyClosed, CloseKCPConn, manager, session
    <2>3. QED
      BY <2>1, <2>2, ReaderMoves
  <1>10. ASSUME NEW c \in KConns, KcpReadFails(c) \/ UnsetKCPConn(c)
         PROVE  UNCHANGED Life!vars
    <2>1. PICK pc \in ReaderPc \ {"none", "cancel"} : Goto(c, pc)
      BY <1>10 DEF KcpReadFails, UnsetKCPConn, ReaderPc
    <2>2. /\ c \in Readers /\ reader[c].pc \notin {"none", "cancel"}
          /\ UNCHANGED <<connected, told, sessions, game, late>>
      BY <1>10 DEF KcpReadFails, UnsetKCPConn, manager, session, Readers
    <2>3. QED
      BY <2>1, <2>2, ReaderMoves
  <1>11. ASSUME NEW s \in Sessions, WsReadFails(s) PROVE UNCHANGED Life!vars
    <2>1. /\ \A q \in Readers \ {s} : reader'[q] = reader[q]
          /\ s \in Readers /\ reader[s].pc = "read" /\ reader'[s].pc = "close"
      BY <1>11 DEF WsReadFails, IInv, TypeOK, ReaderType, Readers
    <2>2. \A q \in Sessions : UNCHANGED Made(q)
      BY <2>1 DEF Made, Readers
    <2>3. UNCHANGED <<connected, told, sessions, game, late>>
      BY <1>11 DEF WsReadFails, manager, session
    <2>4. QED
      BY <2>1, <2>2, <2>3, ReadersMove
  <1>12. ASSUME NEW c \in KConns, RejectKCP(c) PROVE UNCHANGED Life!vars
    <2>1. /\ \A q \in Readers \ {c} : reader'[q] = reader[q]
          /\ reader[c].pc = "none" /\ reader'[c].pc = "done"
      BY <1>12 DEF RejectKCP, IInv, TypeOK, ReaderType, Readers
    <2>2. \A q \in Sessions : UNCHANGED Made(q)
      BY <2>1, GatewayAssumption DEF Made, Readers, GatewayAssumption
    <2>3. UNCHANGED <<connected, told, sessions, game, late>>
      BY <1>12 DEF RejectKCP, manager, session
    <2>4. QED
      BY <2>1, <2>2, <2>3, ReadersMove
  <1>13. CASE SetKCPConn
    <2> DEFINE c == accept.conn
    <2>1. c \in KConns /\ reader[c].pc = "none"
      BY <1>13 DEF SetKCPConn, IInv, ReadersOK, TypeOK, AcceptType, AcceptIdle
    <2>2. /\ \A q \in Readers \ {c} : reader'[q] = reader[q]
          /\ reader'[c].pc = "read"
      BY <1>13, <2>1 DEF SetKCPConn, IInv, TypeOK, ReaderType, Readers
    <2>3. \A q \in Sessions : UNCHANGED Made(q)
      BY <2>1, <2>2, GatewayAssumption DEF Made, Readers, GatewayAssumption
    <2>4. UNCHANGED <<connected, told, sessions, game, late>>
      BY <1>13 DEF SetKCPConn, manager
    <2>5. QED
      BY <2>1, <2>2, <2>3, <2>4, ReadersMove
  <1>14. CASE \E s \in Sessions, a \in Addrs : ReadUDP(s, a)
    BY <1>8, <1>14 DEF ReadUDP, manager, session
  <1>15. CASE SetUDPAddr \/ UpdateHeartbeat \/ MapUDPAddr \/ DropUDP
    BY <1>8, <1>15
    DEF SetUDPAddr, UpdateHeartbeat, MapUDPAddr, DropUDP, manager, session
  <1>16. CASE \E c \in KConns : InjectKCP(c) \/ AcceptKCP(c)
    BY <1>8, <1>16 DEF InjectKCP, AcceptKCP, manager, session
  <1>17. CASE UNCHANGED vars
    BY <1>8, <1>17 DEF vars, manager, session, threads
  <1>18. QED
    BY <1>1, <1>2, <1>3, <1>4, <1>5, <1>6, <1>7, <1>9, <1>10, <1>11, <1>12,
       <1>13, <1>14, <1>15, <1>16, <1>17, OneStep

\* What the lobby and the game server see of a session, any number of readers and
\* stale session pointers behind it, is one orderly life: it closes once, its
\* stream is cancelled before the lobby is told, and it is found until then.
THEOREM RefinesSessionLife == Spec => ImplementsSessionLife
PROOF
  <1>1. Init => Life!Init
    BY DEF Init, Life!Init, Stage, Readers, Absent
  <1>2. IInv /\ [Next]_vars => [Life!Next]_(Life!vars)
    BY LifeStep, GatewayAssumption
  <1>3. QED
    BY <1>1, <1>2, Inductive, PTL DEF Spec, ImplementsSessionLife, Life!Spec
=============================================================================
