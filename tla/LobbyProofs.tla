---------------------------- MODULE LobbyProofs ----------------------------
(***************************************************************************)
(* Proofs about Lobby for every finite set of connections and rooms: types,*)
(* the inductive invariant of LobbyInv, the safety properties that follow  *)
(* from it, and the refinement of RoomSeats.                               *)
(***************************************************************************)
EXTENDS LobbyInv, FiniteSetTheorems, TLAPS

USE DEF playerVars, roomVars, connVars, sweepVars

(***************************************************************************)
(* Types.                                                                  *)
(***************************************************************************)
\* The initial state is well typed.
LEMMA TypeInit == Init => TypeOK
  BY DEF Init, TypeOK, PC, AwaitPoints

\* A request keeps the types.
LEMMA TypeRequest ==
  ASSUME TypeOK, NEW c \in Conn, Request(c)
  PROVE  TypeOK'
  <1> USE DEF TypeOK, Goto, PC, AwaitPoints
  <1>1. CASE Connect(c)
    BY <1>1 DEF Connect
  <1>2. CASE Register(c)
    BY <1>2 DEF Register
  <1>3. CASE Heartbeat(c)
    BY <1>3 DEF Heartbeat
  <1>4. CASE CreateRoom(c)
    BY <1>4 DEF CreateRoom
  <1>5. CASE CloseRoom(c)
    BY <1>5 DEF CloseRoom
  <1>6. ASSUME NEW r \in Room, JoinRoom(c, r) PROVE TypeOK'
    BY <1>6 DEF JoinRoom
  <1> QED BY <1>1, <1>2, <1>3, <1>4, <1>5, <1>6 DEF Request

\* A step of a handler keeps the types.
LEMMA TypeHandler ==
  ASSUME TypeOK, OpenTarget, NEW c \in Conn, Handler(c)
  PROVE  TypeOK'
  <1> USE DEF TypeOK, Goto, PC, AwaitPoints
  <1>1. CASE RegisterInsert(c)
    BY <1>1 DEF RegisterInsert
  <1>2. CASE RegisterWelcome(c)
    BY <1>2 DEF RegisterWelcome
  <1>3. ASSUME NEW r \in Room, CreateCapacity(c, r) PROVE TypeOK'
    BY <1>3 DEF CreateCapacity
  <1>4. ASSUME NEW cap \in Caps, CreateOpen(c, cap) PROVE TypeOK'
    <2>1. cap \in Nat
      BY LobbyAssumption DEF LobbyAssumption
    <2>2. rcount' \in [Room -> Nat] /\ rmax' \in [Room -> Nat]
      BY <1>4, <2>1 DEF CreateOpen
    <2>3. rooms' \subseteq Room /\ rhost' \in [Room -> Conn \cup {None}]
      <3>1. target[c] \in Room
        BY <1>4 DEF CreateOpen, OpenTarget
      <3> QED BY <1>4, <3>1 DEF CreateOpen
    <2> QED BY <1>4, <2>2, <2>3 DEF CreateOpen
  <1>5. CASE CreateHost(c)
    BY <1>5 DEF CreateHost
  <1>6. CASE CloseUnlist(c)
    BY <1>6 DEF CloseUnlist, EraseRoom
  <1>7. CASE JoinPeers(c)
    BY <1>7 DEF JoinPeers
  <1>8. CASE JoinReserve(c)
    BY <1>8 DEF JoinReserve
  <1>9. CASE JoinToken(c)
    BY <1>9 DEF JoinToken
  <1>10. CASE JoinSeat(c)
    BY <1>10 DEF JoinSeat
  <1>11. CASE JoinRefund(c)
    BY <1>11 DEF JoinRefund, Vacate
  <1>12. CASE LeaveGrace(c)
    BY <1>12 DEF LeaveGrace
  <1>13. CASE LeaveViewer(c)
    BY <1>13 DEF LeaveViewer, ErasePlayer
  <1> QED BY <1>1, <1>2, <1>3, <1>4, <1>5, <1>6, <1>7, <1>8, <1>9, <1>10,
             <1>11, <1>12, <1>13 DEF Handler

\* The end of a request or of a connection, and time, keep the types.
LEMMA TypeRest ==
  ASSUME TypeOK, NEW c \in Conn, Disconnect(c) \/ Lapse(c) \/ Announce(c) \/ Farewell(c)
  PROVE  TypeOK'
  <1> USE DEF TypeOK, Goto, PC, AwaitPoints
  <1>1. CASE Disconnect(c)
    BY <1>1 DEF Disconnect
  <1>2. CASE Lapse(c)
    BY <1>2 DEF Lapse
  <1>3. CASE Announce(c)
    BY <1>3 DEF Announce
  <1>4. CASE Farewell(c)
    BY <1>4 DEF Farewell
  <1> QED BY <1>1, <1>2, <1>3, <1>4

\* The cleanup task keeps the types.
LEMMA TypeSweep ==
  ASSUME TypeOK, Sweep \/ SweepAnnounce
  PROVE  TypeOK'
  <1> USE DEF TypeOK, AfterRemoval
  <1>1. CASE SweepFind
    BY <1>1 DEF SweepFind, Expired
  <1>2. ASSUME NEW p \in Conn, SweepPlayer(p) PROVE TypeOK'
    <2>1. CASE p \in players
      <3>1. /\ ErasePlayer(p)
            /\ expired' = expired \ {p}
            /\ reapHost' = hosting[p] /\ reapJoin' = joined[p]
            /\ sweep' = "rooms"
            /\ UNCHANGED <<roomVars, connVars>>
        BY <1>2, <2>1 DEF SweepPlayer
      <3> QED BY <3>1 DEF ErasePlayer
    <2>2. CASE p \notin players
      BY <1>2, <2>2 DEF SweepPlayer
    <2> QED BY <2>1, <2>2
  <1>3. CASE SweepRooms
    BY <1>3 DEF SweepRooms, EraseRoom, Vacate
  <1>4. CASE SweepAnnounce
    BY <1>4 DEF SweepAnnounce
  <1> QED BY <1>1, <1>2, <1>3, <1>4 DEF Sweep

\* A handler that is about to insert a room has drawn its id.
LEMMA OpenTargetStep ==
  ASSUME TypeOK, OpenTarget, [Next]_vars
  PROVE  OpenTarget'
  <1> USE DEF TypeOK, OpenTarget, Goto, PC, AwaitPoints
  <1>1. ASSUME NEW c \in Conn, Request(c) PROVE OpenTarget'
    BY <1>1 DEF Request, Connect, Register, Heartbeat, CreateRoom, CloseRoom, JoinRoom
  <1>2. ASSUME NEW c \in Conn, Handler(c) PROVE OpenTarget'
    <2>1. ASSUME NEW r \in Room, CreateCapacity(c, r) PROVE OpenTarget'
      BY <2>1, LobbyAssumption DEF LobbyAssumption, CreateCapacity
    <2>2. ASSUME NEW cap \in Caps, CreateOpen(c, cap) PROVE OpenTarget'
      BY <2>2 DEF CreateOpen
    <2>3. CASE RegisterInsert(c) \/ RegisterWelcome(c) \/ CreateHost(c) \/ CloseUnlist(c)
      BY <2>3 DEF RegisterInsert, RegisterWelcome, CreateHost, CloseUnlist
    <2>4. CASE JoinPeers(c) \/ JoinReserve(c) \/ JoinToken(c)
      BY <2>4 DEF JoinPeers, JoinReserve, JoinToken
    <2>5. CASE JoinSeat(c) \/ JoinRefund(c)
      BY <2>5 DEF JoinSeat, JoinRefund
    <2>6. CASE LeaveGrace(c) \/ LeaveViewer(c)
      BY <2>6 DEF LeaveGrace, LeaveViewer
    <2> QED BY <1>2, <2>1, <2>2, <2>3, <2>4, <2>5, <2>6 DEF Handler
  <1>3. ASSUME NEW c \in Conn, Disconnect(c) \/ Lapse(c) \/ Announce(c) \/ Farewell(c)
        PROVE  OpenTarget'
    BY <1>3 DEF Disconnect, Lapse, Announce, Farewell
  <1>4. CASE Sweep \/ SweepAnnounce
    BY <1>4 DEF Sweep, SweepFind, SweepPlayer, SweepRooms, SweepAnnounce
  <1>5. CASE UNCHANGED vars
    BY <1>5 DEF vars
  <1> QED BY <1>1, <1>2, <1>3, <1>4, <1>5 DEF Next, Broadcast

\* Every step keeps the types.
LEMMA TypeStep ==
  ASSUME TypeOK, OpenTarget, [Next]_vars
  PROVE  TypeOK'
  <1>1. CASE UNCHANGED vars
    BY <1>1 DEF vars, TypeOK
  <1>2. CASE Next
    BY <1>2, TypeRequest, TypeHandler, TypeRest, TypeSweep DEF Next, Broadcast
  <1> QED BY <1>1, <1>2

\* Types and drawn ids are invariant together.
LEMMA TypeInvariant == Spec => [](TypeOK /\ OpenTarget)
  <1>1. Init => TypeOK /\ OpenTarget
    BY TypeInit DEF Init, OpenTarget
  <1>2. TypeOK /\ OpenTarget /\ [Next]_vars => (TypeOK /\ OpenTarget)'
    BY TypeStep, OpenTargetStep
  <1> QED BY <1>1, <1>2, PTL DEF Spec

\* The variables of the lobby keep their types; in particular no counter of
\* players in a room falls below zero.
THEOREM TypeCorrect == Spec => []TypeOK
  BY TypeInvariant, PTL

(***************************************************************************)
(* The parts of the inductive invariant, one lemma each, one step per      *)
(* group of actions.                                                       *)
(***************************************************************************)
\* No step leaves values behind for an entry it removes.
LEMMA CanonicalStep ==
  ASSUME TypeOK, OpenTarget, Inv, [Next]_vars
  PROVE  Canonical'
  <1> USE LobbyAssumption
          DEF LobbyAssumption, TypeOK, OpenTarget, Goto, PC, AwaitPoints, Inv, Canonical
  <1>1. ASSUME NEW c \in Conn, Connect(c) \/ Disconnect(c) \/ LeaveGrace(c) \/
               LeaveViewer(c) \/ Farewell(c)
        PROVE  Canonical'
    BY <1>1
       DEF Connect, FreshConn, Disconnect, LeaveGrace, LeaveViewer, ErasePlayer,
           Farewell
  <1>2. ASSUME NEW c \in Conn, Register(c) \/ RegisterInsert(c) \/ RegisterWelcome(c)
        PROVE  Canonical'
    BY <1>2 DEF Register, RegisterInsert, RegisterWelcome
  <1>3. ASSUME NEW c \in Conn, Heartbeat(c) \/ Lapse(c) \/ Announce(c)
        PROVE  Canonical'
    BY <1>3 DEF Heartbeat, Lapse, Announce
  <1>4. ASSUME NEW c \in Conn, CreateRoom(c) \/ (\E r \in Room : CreateCapacity(c, r))
        PROVE  Canonical'
    BY <1>4 DEF CreateRoom, CreateCapacity, FreshRoom
  <1>5. ASSUME NEW c \in Conn, NEW cap \in Caps, CreateOpen(c, cap)
        PROVE  Canonical'
    BY <1>5 DEF CreateOpen
  <1>6. ASSUME NEW c \in Conn, CreateHost(c)
        PROVE  Canonical'
    BY <1>6 DEF CreateHost
  <1>7. ASSUME NEW c \in Conn, CloseRoom(c) \/ CloseUnlist(c)
        PROVE  Canonical'
    BY <1>7 DEF CloseRoom, CloseUnlist, EraseRoom
  <1>8. ASSUME NEW c \in Conn, (\E r \in Room : JoinRoom(c, r)) \/ JoinPeers(c) \/
               JoinReserve(c)
        PROVE  Canonical'
    BY <1>8 DEF JoinRoom, JoinPeers, Admissible, JoinReserve, HasSeat
  <1>9. ASSUME NEW c \in Conn, JoinToken(c) \/ JoinSeat(c) \/ JoinRefund(c)
        PROVE  Canonical'
    BY <1>9 DEF JoinToken, JoinSeat, JoinRefund, Vacate
  <1>10. ASSUME SweepFind \/ (\E p \in Conn : SweepPlayer(p))
        PROVE  Canonical'
    BY <1>10 DEF SweepFind, Expired, SweepPlayer, ErasePlayer, AfterRemoval
  <1>11. ASSUME SweepRooms \/ SweepAnnounce
        PROVE  Canonical'
    BY <1>11 DEF SweepRooms, EraseRoom, Vacate, AfterRemoval, SweepAnnounce
  <1>12. ASSUME UNCHANGED vars
        PROVE  Canonical'
    BY <1>12 DEF vars
  <1> QED BY <1>1, <1>2, <1>3, <1>4, <1>5, <1>6, <1>7, <1>8, <1>9, <1>10,
             <1>11, <1>12
          DEF Next, Request, Handler, Sweep, Broadcast

\* target[c] is set exactly while a request needs it; viewers host and join
\* nothing.
LEMMA RegistersStep ==
  ASSUME TypeOK, OpenTarget, Inv, [Next]_vars
  PROVE  Registers'
  <1> USE LobbyAssumption
          DEF LobbyAssumption, TypeOK, OpenTarget, Goto, PC, AwaitPoints, Inv,
              Registers, Canonical
  <1>1. ASSUME NEW c \in Conn, Connect(c) \/ Disconnect(c) \/ LeaveGrace(c) \/
               LeaveViewer(c) \/ Farewell(c)
        PROVE  Registers'
    BY <1>1
       DEF Connect, FreshConn, Disconnect, LeaveGrace, LeaveViewer, ErasePlayer,
           Farewell
  <1>2. ASSUME NEW c \in Conn, Register(c) \/ RegisterInsert(c) \/ RegisterWelcome(c)
        PROVE  Registers'
    BY <1>2 DEF Register, RegisterInsert, RegisterWelcome
  <1>3. ASSUME NEW c \in Conn, Heartbeat(c) \/ Lapse(c) \/ Announce(c)
        PROVE  Registers'
    BY <1>3 DEF Heartbeat, Lapse, Announce
  <1>4. ASSUME NEW c \in Conn, CreateRoom(c) \/ (\E r \in Room : CreateCapacity(c, r))
        PROVE  Registers'
    BY <1>4 DEF CreateRoom, CreateCapacity, FreshRoom
  <1>5. ASSUME NEW c \in Conn, NEW cap \in Caps, CreateOpen(c, cap)
        PROVE  Registers'
    BY <1>5 DEF CreateOpen
  <1>6. ASSUME NEW c \in Conn, CreateHost(c)
        PROVE  Registers'
    BY <1>6 DEF CreateHost
  <1>7. ASSUME NEW c \in Conn, CloseRoom(c) \/ CloseUnlist(c)
        PROVE  Registers'
    BY <1>7 DEF CloseRoom, CloseUnlist, EraseRoom
  <1>8. ASSUME NEW c \in Conn, (\E r \in Room : JoinRoom(c, r)) \/ JoinPeers(c) \/
               JoinReserve(c)
        PROVE  Registers'
    BY <1>8 DEF JoinRoom, JoinPeers, Admissible, JoinReserve, HasSeat
  <1>9. ASSUME NEW c \in Conn, JoinToken(c) \/ JoinSeat(c) \/ JoinRefund(c)
        PROVE  Registers'
    BY <1>9 DEF JoinToken, JoinSeat, JoinRefund, Vacate
  <1>10. ASSUME SweepFind \/ (\E p \in Conn : SweepPlayer(p))
        PROVE  Registers'
    BY <1>10 DEF SweepFind, Expired, SweepPlayer, ErasePlayer, AfterRemoval
  <1>11. ASSUME SweepRooms \/ SweepAnnounce
        PROVE  Registers'
    BY <1>11 DEF SweepRooms, EraseRoom, Vacate, AfterRemoval, SweepAnnounce
  <1>12. ASSUME UNCHANGED vars
        PROVE  Registers'
    BY <1>12 DEF vars
  <1> QED BY <1>1, <1>2, <1>3, <1>4, <1>5, <1>6, <1>7, <1>8, <1>9, <1>10,
             <1>11, <1>12
          DEF Next, Request, Handler, Sweep, Broadcast

\* Before its insertion a connection is no player and hosts no room.
LEMMA UnregisteredStep ==
  ASSUME TypeOK, OpenTarget, Inv, [Next]_vars
  PROVE  Unregistered'
  <1> USE LobbyAssumption
          DEF LobbyAssumption, TypeOK, OpenTarget, Goto, PC, AwaitPoints, Inv,
              Unregistered, Canonical, Registers
  <1>1. ASSUME NEW c \in Conn, Connect(c) \/ Disconnect(c) \/ LeaveGrace(c) \/
               LeaveViewer(c) \/ Farewell(c)
        PROVE  Unregistered'
    BY <1>1
       DEF Connect, FreshConn, Disconnect, LeaveGrace, LeaveViewer, ErasePlayer,
           Farewell
  <1>2. ASSUME NEW c \in Conn, Register(c) \/ RegisterInsert(c) \/ RegisterWelcome(c)
        PROVE  Unregistered'
    BY <1>2 DEF Register, RegisterInsert, RegisterWelcome
  <1>3. ASSUME NEW c \in Conn, Heartbeat(c) \/ Lapse(c) \/ Announce(c)
        PROVE  Unregistered'
    BY <1>3 DEF Heartbeat, Lapse, Announce
  <1>4. ASSUME NEW c \in Conn, CreateRoom(c) \/ (\E r \in Room : CreateCapacity(c, r))
        PROVE  Unregistered'
    BY <1>4 DEF CreateRoom, CreateCapacity, FreshRoom
  <1>5. ASSUME NEW c \in Conn, NEW cap \in Caps, CreateOpen(c, cap)
        PROVE  Unregistered'
    BY <1>5 DEF CreateOpen
  <1>6. ASSUME NEW c \in Conn, CreateHost(c)
        PROVE  Unregistered'
    BY <1>6 DEF CreateHost
  <1>7. ASSUME NEW c \in Conn, CloseRoom(c) \/ CloseUnlist(c)
        PROVE  Unregistered'
    BY <1>7 DEF CloseRoom, CloseUnlist, EraseRoom
  <1>8. ASSUME NEW c \in Conn, (\E r \in Room : JoinRoom(c, r)) \/ JoinPeers(c) \/
               JoinReserve(c)
        PROVE  Unregistered'
    BY <1>8 DEF JoinRoom, JoinPeers, Admissible, JoinReserve, HasSeat
  <1>9. ASSUME NEW c \in Conn, JoinToken(c) \/ JoinSeat(c) \/ JoinRefund(c)
        PROVE  Unregistered'
    BY <1>9 DEF JoinToken, JoinSeat, JoinRefund, Vacate
  <1>10. ASSUME SweepFind \/ (\E p \in Conn : SweepPlayer(p))
        PROVE  Unregistered'
    BY <1>10 DEF SweepFind, Expired, SweepPlayer, ErasePlayer, AfterRemoval
  <1>11. ASSUME SweepRooms \/ SweepAnnounce
        PROVE  Unregistered'
    BY <1>11 DEF SweepRooms, EraseRoom, Vacate, AfterRemoval, SweepAnnounce
  <1>12. ASSUME UNCHANGED vars
        PROVE  Unregistered'
    BY <1>12 DEF vars
  <1> QED BY <1>1, <1>2, <1>3, <1>4, <1>5, <1>6, <1>7, <1>8, <1>9, <1>10,
             <1>11, <1>12
          DEF Next, Request, Handler, Sweep, Broadcast

\* The id drawn in CreateRoom stays private until the room is inserted.
LEMMA OpenFreshStep ==
  ASSUME TypeOK, OpenTarget, Inv, [Next]_vars
  PROVE  OpenFresh'
  <1> USE LobbyAssumption
          DEF LobbyAssumption, TypeOK, OpenTarget, Goto, PC, AwaitPoints, Inv,
              OpenFresh, Registers
  <1>1. ASSUME NEW c \in Conn, Connect(c) \/ Disconnect(c) \/ LeaveGrace(c) \/
               LeaveViewer(c) \/ Farewell(c)
        PROVE  OpenFresh'
    BY <1>1
       DEF Connect, FreshConn, Disconnect, LeaveGrace, LeaveViewer, ErasePlayer,
           Farewell
  <1>2. ASSUME NEW c \in Conn, Register(c) \/ RegisterInsert(c) \/ RegisterWelcome(c)
        PROVE  OpenFresh'
    BY <1>2 DEF Register, RegisterInsert, RegisterWelcome
  <1>3. ASSUME NEW c \in Conn, Heartbeat(c) \/ Lapse(c) \/ Announce(c)
        PROVE  OpenFresh'
    BY <1>3 DEF Heartbeat, Lapse, Announce
  <1>4. ASSUME NEW c \in Conn, CreateRoom(c) \/ (\E r \in Room : CreateCapacity(c, r))
        PROVE  OpenFresh'
    BY <1>4 DEF CreateRoom, CreateCapacity, FreshRoom
  <1>5. ASSUME NEW c \in Conn, NEW cap \in Caps, CreateOpen(c, cap)
        PROVE  OpenFresh'
    BY <1>5 DEF CreateOpen
  <1>6. ASSUME NEW c \in Conn, CreateHost(c)
        PROVE  OpenFresh'
    BY <1>6 DEF CreateHost
  <1>7. ASSUME NEW c \in Conn, CloseRoom(c) \/ CloseUnlist(c)
        PROVE  OpenFresh'
    BY <1>7 DEF CloseRoom, CloseUnlist, EraseRoom
  <1>8. ASSUME NEW c \in Conn, (\E r \in Room : JoinRoom(c, r)) \/ JoinPeers(c) \/
               JoinReserve(c)
        PROVE  OpenFresh'
    BY <1>8 DEF JoinRoom, JoinPeers, Admissible, JoinReserve, HasSeat
  <1>9. ASSUME NEW c \in Conn, JoinToken(c) \/ JoinSeat(c) \/ JoinRefund(c)
        PROVE  OpenFresh'
    BY <1>9 DEF JoinToken, JoinSeat, JoinRefund, Vacate
  <1>10. ASSUME SweepFind \/ (\E p \in Conn : SweepPlayer(p))
        PROVE  OpenFresh'
    BY <1>10 DEF SweepFind, Expired, SweepPlayer, ErasePlayer, AfterRemoval
  <1>11. ASSUME SweepRooms \/ SweepAnnounce
        PROVE  OpenFresh'
    BY <1>11 DEF SweepRooms, EraseRoom, Vacate, AfterRemoval, SweepAnnounce
  <1>12. ASSUME UNCHANGED vars
        PROVE  OpenFresh'
    BY <1>12 DEF vars
  <1> QED BY <1>1, <1>2, <1>3, <1>4, <1>5, <1>6, <1>7, <1>8, <1>9, <1>10,
             <1>11, <1>12
          DEF Next, Request, Handler, Sweep, Broadcast

\* No other process touches the room a handler opens or closes.
LEMMA ExclusiveStep ==
  ASSUME TypeOK, OpenTarget, Inv, [Next]_vars
  PROVE  Exclusive'
  <1> USE LobbyAssumption
          DEF LobbyAssumption, TypeOK, OpenTarget, Goto, PC, AwaitPoints, Inv,
              Exclusive, HostLinked, OpenFresh, Registers, ReapOwned, Canonical
  <1>1. ASSUME NEW c \in Conn, Connect(c) \/ Disconnect(c) \/ LeaveGrace(c) \/
               LeaveViewer(c) \/ Farewell(c)
        PROVE  Exclusive'
    BY <1>1
       DEF Connect, FreshConn, Disconnect, LeaveGrace, LeaveViewer, ErasePlayer,
           Farewell
  <1>2. ASSUME NEW c \in Conn, Register(c) \/ RegisterInsert(c) \/ RegisterWelcome(c)
        PROVE  Exclusive'
    BY <1>2 DEF Register, RegisterInsert, RegisterWelcome
  <1>3. ASSUME NEW c \in Conn, Heartbeat(c) \/ Lapse(c) \/ Announce(c)
        PROVE  Exclusive'
    BY <1>3 DEF Heartbeat, Lapse, Announce
  <1>4. ASSUME NEW c \in Conn, CreateRoom(c) \/ (\E r \in Room : CreateCapacity(c, r))
        PROVE  Exclusive'
    BY <1>4 DEF CreateRoom, CreateCapacity, FreshRoom
  <1>5. ASSUME NEW c \in Conn, NEW cap \in Caps, CreateOpen(c, cap)
        PROVE  Exclusive'
    BY <1>5 DEF CreateOpen
  <1>6. ASSUME NEW c \in Conn, CreateHost(c)
        PROVE  Exclusive'
    BY <1>6 DEF CreateHost
  <1>7. ASSUME NEW c \in Conn, CloseRoom(c) \/ CloseUnlist(c)
        PROVE  Exclusive'
    BY <1>7 DEF CloseRoom, CloseUnlist, EraseRoom
  <1>8. ASSUME NEW c \in Conn, (\E r \in Room : JoinRoom(c, r)) \/ JoinPeers(c) \/
               JoinReserve(c)
        PROVE  Exclusive'
    BY <1>8 DEF JoinRoom, JoinPeers, Admissible, JoinReserve, HasSeat
  <1>9. ASSUME NEW c \in Conn, JoinToken(c) \/ JoinSeat(c) \/ JoinRefund(c)
        PROVE  Exclusive'
    BY <1>9 DEF JoinToken, JoinSeat, JoinRefund, Vacate
  <1>10. ASSUME SweepFind \/ (\E p \in Conn : SweepPlayer(p))
        PROVE  Exclusive'
    BY <1>10 DEF SweepFind, Expired, SweepPlayer, ErasePlayer, AfterRemoval
  <1>11. ASSUME SweepRooms \/ SweepAnnounce
        PROVE  Exclusive'
    BY <1>11 DEF SweepRooms, EraseRoom, Vacate, AfterRemoval, SweepAnnounce
  <1>12. ASSUME UNCHANGED vars
        PROVE  Exclusive'
    BY <1>12 DEF vars
  <1> QED BY <1>1, <1>2, <1>3, <1>4, <1>5, <1>6, <1>7, <1>8, <1>9, <1>10,
             <1>11, <1>12
          DEF Next, Request, Handler, Sweep, Broadcast

\* No other process touches the room the cleanup task removes.
LEMMA ReapOwnedStep ==
  ASSUME TypeOK, OpenTarget, Inv, [Next]_vars
  PROVE  ReapOwned'
  <1> USE LobbyAssumption
          DEF LobbyAssumption, TypeOK, OpenTarget, Goto, PC, AwaitPoints, Inv,
              ReapOwned, Exclusive, OpenFresh, Registers, HostLinked
  <1>1. ASSUME NEW c \in Conn, Connect(c) \/ Disconnect(c) \/ LeaveGrace(c) \/
               LeaveViewer(c) \/ Farewell(c)
        PROVE  ReapOwned'
    BY <1>1
       DEF Connect, FreshConn, Disconnect, LeaveGrace, LeaveViewer, ErasePlayer,
           Farewell
  <1>2. ASSUME NEW c \in Conn, Register(c) \/ RegisterInsert(c) \/ RegisterWelcome(c)
        PROVE  ReapOwned'
    BY <1>2 DEF Register, RegisterInsert, RegisterWelcome
  <1>3. ASSUME NEW c \in Conn, Heartbeat(c) \/ Lapse(c) \/ Announce(c)
        PROVE  ReapOwned'
    BY <1>3 DEF Heartbeat, Lapse, Announce
  <1>4. ASSUME NEW c \in Conn, CreateRoom(c) \/ (\E r \in Room : CreateCapacity(c, r))
        PROVE  ReapOwned'
    BY <1>4 DEF CreateRoom, CreateCapacity, FreshRoom
  <1>5. ASSUME NEW c \in Conn, NEW cap \in Caps, CreateOpen(c, cap)
        PROVE  ReapOwned'
    BY <1>5 DEF CreateOpen
  <1>6. ASSUME NEW c \in Conn, CreateHost(c)
        PROVE  ReapOwned'
    BY <1>6 DEF CreateHost
  <1>7. ASSUME NEW c \in Conn, CloseRoom(c) \/ CloseUnlist(c)
        PROVE  ReapOwned'
    BY <1>7 DEF CloseRoom, CloseUnlist, EraseRoom
  <1>8. ASSUME NEW c \in Conn, (\E r \in Room : JoinRoom(c, r)) \/ JoinPeers(c) \/
               JoinReserve(c)
        PROVE  ReapOwned'
    BY <1>8 DEF JoinRoom, JoinPeers, Admissible, JoinReserve, HasSeat
  <1>9. ASSUME NEW c \in Conn, JoinToken(c) \/ JoinSeat(c) \/ JoinRefund(c)
        PROVE  ReapOwned'
    BY <1>9 DEF JoinToken, JoinSeat, JoinRefund, Vacate
  <1>10. ASSUME SweepFind \/ (\E p \in Conn : SweepPlayer(p))
        PROVE  ReapOwned'
    BY <1>10 DEF SweepFind, Expired, SweepPlayer, ErasePlayer, AfterRemoval
  <1>11. ASSUME SweepRooms \/ SweepAnnounce
        PROVE  ReapOwned'
    BY <1>11 DEF SweepRooms, EraseRoom, Vacate, AfterRemoval, SweepAnnounce
  <1>12. ASSUME UNCHANGED vars
        PROVE  ReapOwned'
    BY <1>12 DEF vars
  <1> QED BY <1>1, <1>2, <1>3, <1>4, <1>5, <1>6, <1>7, <1>8, <1>9, <1>10,
             <1>11, <1>12
          DEF Next, Request, Handler, Sweep, Broadcast

\* A room stays with the owner that opened it.
LEMMA RoomOwnerStep ==
  ASSUME TypeOK, OpenTarget, Inv, [Next]_vars
  PROVE  RoomOwner'
  <1> USE LobbyAssumption
          DEF LobbyAssumption, TypeOK, OpenTarget, Goto, PC, AwaitPoints, Inv,
              RoomOwner, Exclusive, Canonical, Unregistered, OpenFresh, HostLinked
  <1>1. ASSUME NEW c \in Conn, Connect(c) \/ Disconnect(c) \/ LeaveGrace(c) \/
               LeaveViewer(c) \/ Farewell(c)
        PROVE  RoomOwner'
    BY <1>1
       DEF Connect, FreshConn, Disconnect, LeaveGrace, LeaveViewer, ErasePlayer,
           Farewell
  <1>2. ASSUME NEW c \in Conn, Register(c) \/ RegisterInsert(c) \/ RegisterWelcome(c)
        PROVE  RoomOwner'
    BY <1>2 DEF Register, RegisterInsert, RegisterWelcome
  <1>3. ASSUME NEW c \in Conn, Heartbeat(c) \/ Lapse(c) \/ Announce(c)
        PROVE  RoomOwner'
    BY <1>3 DEF Heartbeat, Lapse, Announce
  <1>4. ASSUME NEW c \in Conn, CreateRoom(c) \/ (\E r \in Room : CreateCapacity(c, r))
        PROVE  RoomOwner'
    BY <1>4 DEF CreateRoom, CreateCapacity, FreshRoom
  <1>5. ASSUME NEW c \in Conn, NEW cap \in Caps, CreateOpen(c, cap)
        PROVE  RoomOwner'
    BY <1>5 DEF CreateOpen
  <1>6. ASSUME NEW c \in Conn, CreateHost(c)
        PROVE  RoomOwner'
    BY <1>6 DEF CreateHost
  <1>7. ASSUME NEW c \in Conn, CloseRoom(c) \/ CloseUnlist(c)
        PROVE  RoomOwner'
    BY <1>7 DEF CloseRoom, CloseUnlist, EraseRoom
  <1>8. ASSUME NEW c \in Conn, (\E r \in Room : JoinRoom(c, r)) \/ JoinPeers(c) \/
               JoinReserve(c)
        PROVE  RoomOwner'
    BY <1>8 DEF JoinRoom, JoinPeers, Admissible, JoinReserve, HasSeat
  <1>9. ASSUME NEW c \in Conn, JoinToken(c) \/ JoinSeat(c) \/ JoinRefund(c)
        PROVE  RoomOwner'
    BY <1>9 DEF JoinToken, JoinSeat, JoinRefund, Vacate
  <1>10. ASSUME SweepFind \/ (\E p \in Conn : SweepPlayer(p))
        PROVE  RoomOwner'
    BY <1>10 DEF SweepFind, Expired, SweepPlayer, ErasePlayer, AfterRemoval
  <1>11. ASSUME SweepRooms \/ SweepAnnounce
        PROVE  RoomOwner'
    BY <1>11 DEF SweepRooms, EraseRoom, Vacate, AfterRemoval, SweepAnnounce
  <1>12. ASSUME UNCHANGED vars
        PROVE  RoomOwner'
    BY <1>12 DEF vars
  <1> QED BY <1>1, <1>2, <1>3, <1>4, <1>5, <1>6, <1>7, <1>8, <1>9, <1>10,
             <1>11, <1>12
          DEF Next, Request, Handler, Sweep, Broadcast

\* hosting_room names an open room of that player.
LEMMA HostLinkedStep ==
  ASSUME TypeOK, OpenTarget, Inv, [Next]_vars
  PROVE  HostLinked'
  <1> USE LobbyAssumption
          DEF LobbyAssumption, TypeOK, OpenTarget, Goto, PC, AwaitPoints, Inv,
              HostLinked, Exclusive, ReapOwned, OpenFresh, Canonical
  <1>1. ASSUME NEW c \in Conn, Connect(c) \/ Disconnect(c) \/ LeaveGrace(c) \/
               LeaveViewer(c) \/ Farewell(c)
        PROVE  HostLinked'
    BY <1>1
       DEF Connect, FreshConn, Disconnect, LeaveGrace, LeaveViewer, ErasePlayer,
           Farewell
  <1>2. ASSUME NEW c \in Conn, Register(c) \/ RegisterInsert(c) \/ RegisterWelcome(c)
        PROVE  HostLinked'
    BY <1>2 DEF Register, RegisterInsert, RegisterWelcome
  <1>3. ASSUME NEW c \in Conn, Heartbeat(c) \/ Lapse(c) \/ Announce(c)
        PROVE  HostLinked'
    BY <1>3 DEF Heartbeat, Lapse, Announce
  <1>4. ASSUME NEW c \in Conn, CreateRoom(c) \/ (\E r \in Room : CreateCapacity(c, r))
        PROVE  HostLinked'
    BY <1>4 DEF CreateRoom, CreateCapacity, FreshRoom
  <1>5. ASSUME NEW c \in Conn, NEW cap \in Caps, CreateOpen(c, cap)
        PROVE  HostLinked'
    BY <1>5 DEF CreateOpen
  <1>6. ASSUME NEW c \in Conn, CreateHost(c)
        PROVE  HostLinked'
    BY <1>6 DEF CreateHost
  <1>7. ASSUME NEW c \in Conn, CloseRoom(c) \/ CloseUnlist(c)
        PROVE  HostLinked'
    BY <1>7 DEF CloseRoom, CloseUnlist, EraseRoom
  <1>8. ASSUME NEW c \in Conn, (\E r \in Room : JoinRoom(c, r)) \/ JoinPeers(c) \/
               JoinReserve(c)
        PROVE  HostLinked'
    BY <1>8 DEF JoinRoom, JoinPeers, Admissible, JoinReserve, HasSeat
  <1>9. ASSUME NEW c \in Conn, JoinToken(c) \/ JoinSeat(c) \/ JoinRefund(c)
        PROVE  HostLinked'
    BY <1>9 DEF JoinToken, JoinSeat, JoinRefund, Vacate
  <1>10. ASSUME SweepFind \/ (\E p \in Conn : SweepPlayer(p))
        PROVE  HostLinked'
    BY <1>10 DEF SweepFind, Expired, SweepPlayer, ErasePlayer, AfterRemoval
  <1>11. ASSUME SweepRooms \/ SweepAnnounce
        PROVE  HostLinked'
    BY <1>11 DEF SweepRooms, EraseRoom, Vacate, AfterRemoval, SweepAnnounce
  <1>12. ASSUME UNCHANGED vars
        PROVE  HostLinked'
    BY <1>12 DEF vars
  <1> QED BY <1>1, <1>2, <1>3, <1>4, <1>5, <1>6, <1>7, <1>8, <1>9, <1>10,
             <1>11, <1>12
          DEF Next, Request, Handler, Sweep, Broadcast

\* No step gives a player a second room.
LEMMA OneRoomPerHostStep ==
  ASSUME TypeOK, OpenTarget, Inv, [Next]_vars
  PROVE  OneRoomPerHost'
  <1> USE LobbyAssumption
          DEF LobbyAssumption, TypeOK, OpenTarget, Goto, PC, AwaitPoints, Inv,
              OneRoomPerHost, RoomOwner, Exclusive, Canonical, OpenFresh
  <1>1. ASSUME NEW c \in Conn, Connect(c) \/ Disconnect(c) \/ LeaveGrace(c) \/
               LeaveViewer(c) \/ Farewell(c)
        PROVE  OneRoomPerHost'
    BY <1>1
       DEF Connect, FreshConn, Disconnect, LeaveGrace, LeaveViewer, ErasePlayer,
           Farewell
  <1>2. ASSUME NEW c \in Conn, Register(c) \/ RegisterInsert(c) \/ RegisterWelcome(c)
        PROVE  OneRoomPerHost'
    BY <1>2 DEF Register, RegisterInsert, RegisterWelcome
  <1>3. ASSUME NEW c \in Conn, Heartbeat(c) \/ Lapse(c) \/ Announce(c)
        PROVE  OneRoomPerHost'
    BY <1>3 DEF Heartbeat, Lapse, Announce
  <1>4. ASSUME NEW c \in Conn, CreateRoom(c) \/ (\E r \in Room : CreateCapacity(c, r))
        PROVE  OneRoomPerHost'
    BY <1>4 DEF CreateRoom, CreateCapacity, FreshRoom
  <1>5. ASSUME NEW c \in Conn, NEW cap \in Caps, CreateOpen(c, cap)
        PROVE  OneRoomPerHost'
    BY <1>5 DEF CreateOpen
  <1>6. ASSUME NEW c \in Conn, CreateHost(c)
        PROVE  OneRoomPerHost'
    BY <1>6 DEF CreateHost
  <1>7. ASSUME NEW c \in Conn, CloseRoom(c) \/ CloseUnlist(c)
        PROVE  OneRoomPerHost'
    BY <1>7 DEF CloseRoom, CloseUnlist, EraseRoom
  <1>8. ASSUME NEW c \in Conn, (\E r \in Room : JoinRoom(c, r)) \/ JoinPeers(c) \/
               JoinReserve(c)
        PROVE  OneRoomPerHost'
    BY <1>8 DEF JoinRoom, JoinPeers, Admissible, JoinReserve, HasSeat
  <1>9. ASSUME NEW c \in Conn, JoinToken(c) \/ JoinSeat(c) \/ JoinRefund(c)
        PROVE  OneRoomPerHost'
    BY <1>9 DEF JoinToken, JoinSeat, JoinRefund, Vacate
  <1>10. ASSUME SweepFind \/ (\E p \in Conn : SweepPlayer(p))
        PROVE  OneRoomPerHost'
    BY <1>10 DEF SweepFind, Expired, SweepPlayer, ErasePlayer, AfterRemoval
  <1>11. ASSUME SweepRooms \/ SweepAnnounce
        PROVE  OneRoomPerHost'
    BY <1>11 DEF SweepRooms, EraseRoom, Vacate, AfterRemoval, SweepAnnounce
  <1>12. ASSUME UNCHANGED vars
        PROVE  OneRoomPerHost'
    BY <1>12 DEF vars
  <1> QED BY <1>1, <1>2, <1>3, <1>4, <1>5, <1>6, <1>7, <1>8, <1>9, <1>10,
             <1>11, <1>12
          DEF Next, Request, Handler, Sweep, Broadcast

(***************************************************************************)
(* Seat accounting.                                                        *)
(***************************************************************************)
\* The claims on a room are finite in number.
LEMMA ClaimsType ==
  ASSUME TypeOK, NEW r \in Room
  PROVE  /\ IsFiniteSet(Members(r)) /\ Cardinality(Members(r)) \in Nat
         /\ IsFiniteSet(InFlight(r)) /\ Cardinality(InFlight(r)) \in Nat
         /\ Reaped(r) \in 0..1
         /\ Claims(r) \in Nat
  <1>1. Members(r) \subseteq Conn /\ InFlight(r) \subseteq Conn
    BY DEF Members, InFlight, TypeOK
  <1>2. IsFiniteSet(Members(r)) /\ IsFiniteSet(InFlight(r))
    BY <1>1, LobbyAssumption, FS_Subset DEF LobbyAssumption
  <1>3. Cardinality(Members(r)) \in Nat /\ Cardinality(InFlight(r)) \in Nat
    BY <1>2, FS_CardinalityType
  <1> QED BY <1>2, <1>3 DEF Claims, Reaped

\* A set grows by at most one when an element is added.
LEMMA AddOne ==
  ASSUME NEW S, IsFiniteSet(S), NEW x
  PROVE  Cardinality(S \cup {x}) <= Cardinality(S) + 1
  <1>1. Cardinality(S) \in Nat
    BY FS_CardinalityType
  <1>2. CASE x \in S
    <2>1. S \cup {x} = S
      BY <1>2
    <2> QED BY <1>1, <2>1
  <1>3. CASE x \notin S
    <2>1. Cardinality(S \cup {x}) = Cardinality(S) + 1
      BY <1>3, FS_AddElement
    <2> QED BY <1>1, <2>1
  <1> QED BY <1>2, <1>3

\* The same after a step.
LEMMA ClaimsTypeNext ==
  ASSUME TypeOK', NEW r \in Room
  PROVE  /\ Cardinality(Members(r)') \in Nat
         /\ Cardinality(InFlight(r)') \in Nat
         /\ Reaped(r)' \in 0..1
         /\ Claims(r)' = Cardinality(Members(r)') + Cardinality(InFlight(r)') + Reaped(r)'
  <1>1. Members(r)' \subseteq Conn /\ InFlight(r)' \subseteq Conn
    BY DEF Members, InFlight, TypeOK
  <1>2. IsFiniteSet(Members(r)') /\ IsFiniteSet(InFlight(r)')
    BY <1>1, LobbyAssumption, FS_Subset DEF LobbyAssumption
  <1> QED BY <1>2, FS_CardinalityType DEF Claims, Reaped

\* SeatsCovered for one room.
Covered(r) == 1 + Claims(r) <= rcount[r] /\ rcount[r] <= rmax[r]

\* A step that gives nobody a claim on r and does not touch its counter.
LEMMA Untouched ==
  ASSUME TypeOK, TypeOK', NEW r \in Room, Covered(r),
         rcount'[r] = rcount[r], rmax'[r] = rmax[r],
         Members(r)' \subseteq Members(r),
         InFlight(r)' \subseteq InFlight(r),
         reapJoin' = r => reapJoin = r
  PROVE  Covered(r)'
  <1>1. /\ Cardinality(Members(r)') <= Cardinality(Members(r))
        /\ Cardinality(InFlight(r)') <= Cardinality(InFlight(r))
    BY ClaimsType, FS_Subset
  <1>2. Reaped(r)' <= Reaped(r)
    BY DEF Reaped
  <1>3. Claims(r) = Cardinality(Members(r)) + Cardinality(InFlight(r)) + Reaped(r)
    BY DEF Claims
  <1>4. Claims(r)' <= Claims(r)
    BY <1>1, <1>2, <1>3, ClaimsType, ClaimsTypeNext
  <1>5. rcount[r] \in Nat /\ rmax[r] \in Nat /\ Claims(r) \in Nat /\ Claims(r)' \in Nat
    BY ClaimsType, ClaimsTypeNext DEF TypeOK
  <1> QED BY <1>4, <1>5 DEF Covered

\* JoinReserve: one claim more, one seat more.
LEMMA TakesSeat ==
  ASSUME TypeOK, TypeOK', NEW r \in Room, Covered(r), NEW c \in Conn,
         rcount[r] < rmax[r], rcount'[r] = rcount[r] + 1, rmax'[r] = rmax[r],
         Members(r)' = Members(r),
         InFlight(r)' = InFlight(r) \cup {c},
         reapJoin' = reapJoin
  PROVE  Covered(r)'
  <1>1. Cardinality(InFlight(r)') <= Cardinality(InFlight(r)) + 1
    BY ClaimsType, AddOne
  <1>2. Reaped(r)' = Reaped(r)
    BY DEF Reaped
  <1>3. Claims(r) = Cardinality(Members(r)) + Cardinality(InFlight(r)) + Reaped(r)
    BY DEF Claims
  <1>4. Claims(r)' <= Claims(r) + 1
    <2>1. Cardinality(Members(r)') = Cardinality(Members(r))
      OBVIOUS
    <2>2. /\ Cardinality(Members(r)) \in Nat /\ Cardinality(InFlight(r)) \in Nat
          /\ Cardinality(Members(r)') \in Nat /\ Cardinality(InFlight(r)') \in Nat
          /\ Reaped(r) \in 0..1 /\ Reaped(r)' \in 0..1
          /\ Claims(r)' = Cardinality(Members(r)') + Cardinality(InFlight(r)') + Reaped(r)'
      BY ClaimsType, ClaimsTypeNext
    <2> QED BY <1>1, <1>2, <1>3, <2>1, <2>2
  <1>5. rcount[r] \in Nat /\ rmax[r] \in Nat /\ Claims(r) \in Nat /\ Claims(r)' \in Nat
    BY ClaimsType, ClaimsTypeNext DEF TypeOK
  <1> QED BY <1>4, <1>5 DEF Covered

\* JoinSeat: a claim changes hands between a handler and its player.
LEMMA SeatRecorded ==
  ASSUME TypeOK, TypeOK', NEW r \in Room, Covered(r), NEW c \in Conn,
         rcount'[r] = rcount[r], rmax'[r] = rmax[r], reapJoin' = reapJoin,
         \/ /\ Members(r)' = Members(r) \cup {c}
            /\ InFlight(r)' = InFlight(r) \ {c} /\ c \in InFlight(r)
         \/ /\ Members(r)' = Members(r) \ {c} /\ c \in Members(r)
            /\ InFlight(r)' = InFlight(r) \cup {c}
  PROVE  Covered(r)'
  <1>1. Cardinality(Members(r)') + Cardinality(InFlight(r)')
          <= Cardinality(Members(r)) + Cardinality(InFlight(r))
    <2>1. CASE /\ Members(r)' = Members(r) \cup {c}
               /\ InFlight(r)' = InFlight(r) \ {c} /\ c \in InFlight(r)
      <3>1. Cardinality(Members(r)') <= Cardinality(Members(r)) + 1
        BY <2>1, ClaimsType, AddOne
      <3>2. Cardinality(InFlight(r)') = Cardinality(InFlight(r)) - 1
        BY <2>1, ClaimsType, FS_RemoveElement
      <3> QED BY <3>1, <3>2, ClaimsType, ClaimsTypeNext
    <2>2. CASE /\ Members(r)' = Members(r) \ {c} /\ c \in Members(r)
               /\ InFlight(r)' = InFlight(r) \cup {c}
      <3>1. Cardinality(Members(r)') = Cardinality(Members(r)) - 1
        BY <2>2, ClaimsType, FS_RemoveElement
      <3>2. Cardinality(InFlight(r)') <= Cardinality(InFlight(r)) + 1
        BY <2>2, ClaimsType, AddOne
      <3> QED BY <3>1, <3>2, ClaimsType, ClaimsTypeNext
    <2> QED BY <2>1, <2>2
  <1>2. Reaped(r)' = Reaped(r)
    BY DEF Reaped
  <1>3. Claims(r) = Cardinality(Members(r)) + Cardinality(InFlight(r)) + Reaped(r)
    BY DEF Claims
  <1>4. Claims(r)' <= Claims(r)
    BY <1>1, <1>2, <1>3, ClaimsType, ClaimsTypeNext
  <1>5. rcount[r] \in Nat /\ rmax[r] \in Nat /\ Claims(r) \in Nat /\ Claims(r)' \in Nat
    BY ClaimsType, ClaimsTypeNext DEF TypeOK
  <1> QED BY <1>4, <1>5 DEF Covered

\* The players half of remove_player: the claim passes to the cleanup task.
LEMMA SeatReaped ==
  ASSUME TypeOK, TypeOK', NEW r \in Room, Covered(r), NEW p \in Conn,
         rcount'[r] = rcount[r], rmax'[r] = rmax[r],
         Members(r)' = Members(r) \ {p}, p \in Members(r),
         InFlight(r)' = InFlight(r),
         reapJoin # r, reapJoin' = r
  PROVE  Covered(r)'
  <1>1. Cardinality(Members(r)') = Cardinality(Members(r)) - 1
    BY ClaimsType, FS_RemoveElement
  <1>2. Reaped(r) = 0 /\ Reaped(r)' = 1
    BY DEF Reaped
  <1>3. Claims(r) = Cardinality(Members(r)) + Cardinality(InFlight(r)) + Reaped(r)
    BY DEF Claims
  <1>4. Cardinality(InFlight(r)') = Cardinality(InFlight(r))
    OBVIOUS
  <1>5. Claims(r)' = Claims(r)
    <2>1. /\ Cardinality(Members(r)) \in Nat /\ Cardinality(InFlight(r)) \in Nat
          /\ Cardinality(Members(r)') \in Nat /\ Cardinality(InFlight(r)') \in Nat
          /\ Reaped(r) \in 0..1 /\ Reaped(r)' \in 0..1
          /\ Claims(r)' = Cardinality(Members(r)') + Cardinality(InFlight(r)') + Reaped(r)'
      BY ClaimsType, ClaimsTypeNext
    <2> QED BY <1>1, <1>2, <1>3, <1>4, <2>1
  <1> QED BY <1>5 DEF Covered

\* JoinRefund and the rooms half of remove_player: one claim less, one seat less.
LEMMA GivesSeatBack ==
  ASSUME TypeOK, TypeOK', NEW r \in Room, Covered(r),
         rcount'[r] = rcount[r] - 1, rmax'[r] = rmax[r],
         Members(r)' = Members(r),
         \/ /\ reapJoin' = reapJoin
            /\ \E c \in InFlight(r) : InFlight(r)' = InFlight(r) \ {c}
         \/ InFlight(r)' = InFlight(r) /\ reapJoin = r /\ reapJoin' # r
  PROVE  Covered(r)'
  <1>1. Cardinality(InFlight(r)') + Reaped(r)' = Cardinality(InFlight(r)) + Reaped(r) - 1
    <2>1. CASE InFlight(r)' = InFlight(r) /\ reapJoin = r /\ reapJoin' # r
      BY <2>1, ClaimsType DEF Reaped
    <2>2. ASSUME NEW c \in InFlight(r), InFlight(r)' = InFlight(r) \ {c},
                 reapJoin' = reapJoin
          PROVE  Cardinality(InFlight(r)') + Reaped(r)'
                   = Cardinality(InFlight(r)) + Reaped(r) - 1
      <3>1. Cardinality(InFlight(r)') = Cardinality(InFlight(r)) - 1
        BY <2>2, ClaimsType, FS_RemoveElement
      <3>2. Reaped(r)' = Reaped(r)
        BY <2>2 DEF Reaped
      <3> QED BY <3>1, <3>2, ClaimsType
    <2> QED BY <2>1, <2>2
  <1>2. Claims(r) = Cardinality(Members(r)) + Cardinality(InFlight(r)) + Reaped(r)
    BY DEF Claims
  <1>3. Claims(r)' = Claims(r) - 1
    BY <1>1, <1>2, ClaimsType, ClaimsTypeNext
  <1>4. rcount[r] \in Nat /\ rmax[r] \in Nat /\ Claims(r) \in Nat
    BY ClaimsType DEF TypeOK
  <1> QED BY <1>3, <1>4 DEF Covered

\* No step leaves a claim without a seat.
LEMMA SeatsCoveredStep ==
  ASSUME TypeOK, OpenTarget, TypeOK', Inv, [Next]_vars
  PROVE  SeatsCovered'
  <1> SUFFICES ASSUME NEW r \in rooms' PROVE Covered(r)'
    BY DEF SeatsCovered, Covered
  <1>0. r \in Room /\ (r \in rooms => Covered(r))
    BY DEF TypeOK, Inv, SeatsCovered, Covered
  <1> USE DEF TypeOK, Goto
  \* Steps that touch no counter, and after which nobody has a new claim.
  <1>a. ASSUME r \in rooms, rcount'[r] = rcount[r], rmax'[r] = rmax[r],
               Members(r)' \subseteq Members(r), InFlight(r)' \subseteq InFlight(r),
               reapJoin' = r => reapJoin = r
        PROVE  Covered(r)'
    BY <1>a, <1>0, Untouched
  <1>1. ASSUME NEW c \in Conn, Connect(c) \/ Disconnect(c) \/ LeaveGrace(c) \/
               LeaveViewer(c) \/ Farewell(c)
        PROVE  Covered(r)'
    BY <1>0, <1>1, <1>a DEF Members, InFlight, Connect, Disconnect, LeaveGrace,
       LeaveViewer, ErasePlayer, Farewell
  <1>2. ASSUME NEW c \in Conn, Register(c) \/ RegisterInsert(c) \/ RegisterWelcome(c)
        PROVE  Covered(r)'
    <2>1. c \notin players => joined[c] = None
      BY DEF Inv, Canonical
    <2> QED BY <1>0, <1>2, <1>a, <2>1, LobbyAssumption
        DEF LobbyAssumption, Members, InFlight, Register, RegisterInsert, RegisterWelcome
  <1>3. ASSUME NEW c \in Conn, Heartbeat(c) \/ Lapse(c) \/ Announce(c)
        PROVE  Covered(r)'
    BY <1>0, <1>3, <1>a DEF Members, InFlight, Heartbeat, Lapse, Announce
  <1>4. ASSUME NEW c \in Conn, CreateRoom(c) \/ (\E q \in Room : CreateCapacity(c, q))
        PROVE  Covered(r)'
    BY <1>0, <1>4, <1>a DEF Members, InFlight, CreateRoom, CreateCapacity
  <1>5. ASSUME NEW c \in Conn, NEW cap \in Caps, CreateOpen(c, cap)
        PROVE  Covered(r)'
    <2>1. CASE r # target[c]
      BY <1>0, <1>5, <1>a, <2>1 DEF Members, InFlight, CreateOpen
    <2>2. CASE r = target[c]
      <3>1. Members(r)' = {}
        BY <1>5, <2>2 DEF Inv, OpenFresh, Members, CreateOpen
      <3>2. InFlight(r)' = {}
        BY <1>5, <2>2 DEF Inv, OpenFresh, InFlight, CreateOpen
      <3>3. reapJoin' # r
        BY <1>5, <2>2 DEF Inv, OpenFresh, CreateOpen
      <3>4. Claims(r)' = 0
        BY <3>1, <3>2, <3>3, FS_EmptySet DEF Claims, Reaped
      <3>5. rcount'[r] = 1 /\ rmax'[r] = cap
        BY <1>0, <1>5, <2>2 DEF CreateOpen
      <3>6. cap \in Nat /\ cap >= 2
        BY LobbyAssumption DEF LobbyAssumption
      <3> QED BY <3>4, <3>5, <3>6 DEF Covered
    <2> QED BY <2>1, <2>2
  <1>6. ASSUME NEW c \in Conn, CreateHost(c)
        PROVE  Covered(r)'
    BY <1>0, <1>6, <1>a DEF Members, InFlight, CreateHost
  <1>7. ASSUME NEW c \in Conn, CloseRoom(c) \/ CloseUnlist(c)
        PROVE  Covered(r)'
    BY <1>0, <1>7, <1>a DEF Members, InFlight, CloseRoom, CloseUnlist, EraseRoom
  <1>8. ASSUME NEW c \in Conn, (\E q \in Room : JoinRoom(c, q)) \/ JoinPeers(c)
        PROVE  Covered(r)'
    BY <1>0, <1>8, <1>a DEF Members, InFlight, JoinRoom, JoinPeers
  <1>9. ASSUME NEW c \in Conn, JoinReserve(c)
        PROVE  Covered(r)'
    <2>1. CASE r = target[c] /\ HasSeat(target[c])
      <3>1. /\ r \in rooms /\ rcount[r] < rmax[r]
            /\ rcount'[r] = rcount[r] + 1 /\ rmax'[r] = rmax[r]
            /\ reapJoin' = reapJoin
        BY <1>0, <1>9, <2>1 DEF JoinReserve, HasSeat
      <3>2. Members(r)' = Members(r)
        BY <1>9 DEF Members, JoinReserve
      <3>3. InFlight(r)' = InFlight(r) \cup {c}
        BY <1>9, <2>1 DEF InFlight, JoinReserve
      <3> QED BY <1>0, <3>1, <3>2, <3>3, TakesSeat
    <2>2. CASE r # target[c] \/ ~HasSeat(target[c])
      BY <1>0, <1>9, <1>a, <2>2 DEF Members, InFlight, JoinReserve
    <2> QED BY <2>1, <2>2
  <1>10. ASSUME NEW c \in Conn, JoinToken(c)
        PROVE  Covered(r)'
    BY <1>0, <1>10, <1>a DEF Members, InFlight, JoinToken
  <1>11. ASSUME NEW c \in Conn, JoinSeat(c)
        PROVE  Covered(r)'
    <2>1. /\ r \in rooms /\ rcount'[r] = rcount[r] /\ rmax'[r] = rmax[r]
          /\ reapJoin' = reapJoin
      BY <1>11 DEF JoinSeat
    <2>2. CASE c \notin players
      BY <1>0, <1>11, <1>a, <2>1, <2>2 DEF Members, InFlight, JoinSeat
    <2>3. CASE c \in players /\ r = target[c] /\ r # joined[c]
      <3>1. Members(r)' = Members(r) \cup {c}
        BY <1>11, <2>3 DEF Members, JoinSeat
      <3>2. InFlight(r)' = InFlight(r) \ {c} /\ c \in InFlight(r)
        BY <1>11, <2>3 DEF InFlight, JoinSeat
      <3> QED BY <1>0, <2>1, <3>1, <3>2, SeatRecorded
    <2>4. CASE c \in players /\ r # target[c] /\ r = joined[c]
      <3>1. Members(r)' = Members(r) \ {c} /\ c \in Members(r)
        BY <1>11, <2>4 DEF Members, JoinSeat
      <3>2. InFlight(r)' = InFlight(r) \cup {c}
        BY <1>0, <1>11, <2>4, LobbyAssumption DEF LobbyAssumption, InFlight, JoinSeat
      <3> QED BY <1>0, <2>1, <3>1, <3>2, SeatRecorded
    <2>5. CASE c \in players /\ ((r = target[c]) <=> (r = joined[c]))
      <3>1. Members(r)' \subseteq Members(r)
        BY <1>11, <2>5 DEF Members, JoinSeat
      <3>2. InFlight(r)' \subseteq InFlight(r)
        BY <1>11, <2>5 DEF InFlight, JoinSeat
      <3> QED BY <1>a, <2>1, <3>1, <3>2
    <2> QED BY <2>2, <2>3, <2>4, <2>5
  <1>12. ASSUME NEW c \in Conn, JoinRefund(c)
        PROVE  Covered(r)'
    <2>1. CASE r = target[c]
      <3>1. c \in InFlight(r) /\ InFlight(r)' = InFlight(r) \ {c}
        BY <1>0, <1>12, <2>1, LobbyAssumption DEF LobbyAssumption, InFlight, JoinRefund
      <3>2. Members(r)' = Members(r) /\ reapJoin' = reapJoin /\ r \in rooms
        BY <1>12 DEF Members, JoinRefund
      <3>3. rcount[r] > 0
        BY <1>0, <3>2, ClaimsType DEF Covered
      <3>4. rcount'[r] = rcount[r] - 1 /\ rmax'[r] = rmax[r]
        BY <1>0, <1>12, <2>1, <3>2, <3>3 DEF JoinRefund, Vacate
      <3> QED BY <1>0, <3>1, <3>2, <3>4, GivesSeatBack
    <2>2. CASE r # target[c]
      BY <1>0, <1>12, <1>a, <2>2 DEF Members, InFlight, JoinRefund, Vacate
    <2> QED BY <2>1, <2>2
  <1>13. CASE SweepFind \/ SweepAnnounce
    BY <1>0, <1>13, <1>a DEF Members, InFlight, SweepFind, SweepAnnounce
  <1>14. ASSUME NEW p \in Conn, SweepPlayer(p)
        PROVE  Covered(r)'
    <2>1. /\ r \in rooms /\ rcount'[r] = rcount[r] /\ rmax'[r] = rmax[r]
          /\ InFlight(r)' = InFlight(r)
      BY <1>14 DEF SweepPlayer, InFlight
    <2>2. CASE p \in players /\ joined[p] = r
      <3>1. Members(r)' = Members(r) \ {p} /\ p \in Members(r)
        BY <1>0, <1>14, <2>2 DEF SweepPlayer, ErasePlayer, Members
      <3>2. reapJoin # r /\ reapJoin' = r
        BY <1>0, <1>14, <2>2, LobbyAssumption
           DEF LobbyAssumption, SweepPlayer, Inv, Registers
      <3> QED BY <1>0, <2>1, <3>1, <3>2, SeatReaped
    <2>3. CASE p \notin players \/ joined[p] # r
      BY <1>0, <1>14, <1>a, <2>1, <2>3 DEF Members, SweepPlayer, ErasePlayer
    <2> QED BY <2>2, <2>3
  <1>15. CASE SweepRooms
    <2>1. /\ r \in rooms /\ r # reapHost /\ rmax'[r] = rmax[r]
          /\ Members(r)' = Members(r) /\ InFlight(r)' = InFlight(r)
      BY <1>0, <1>15 DEF SweepRooms, EraseRoom, Members, InFlight
    <2>2. CASE r = reapJoin
      <3>1. rcount[r] > 0
        BY <1>0, <2>1, ClaimsType DEF Covered
      <3>2. rcount'[r] = rcount[r] - 1 /\ reapJoin' # r
        BY <1>0, <1>15, <2>1, <2>2, <3>1, LobbyAssumption
           DEF LobbyAssumption, SweepRooms, Vacate
      <3> QED BY <1>0, <2>1, <2>2, <3>2, GivesSeatBack
    <2>3. CASE r # reapJoin
      BY <1>0, <1>15, <1>a, <2>1, <2>3, LobbyAssumption
         DEF LobbyAssumption, SweepRooms, Vacate
    <2> QED BY <2>2, <2>3
  <1>16. CASE UNCHANGED vars
    BY <1>0, <1>16, <1>a DEF vars, Members, InFlight
  <1> QED BY <1>1, <1>2, <1>3, <1>4, <1>5, <1>6, <1>7, <1>8, <1>9, <1>10, <1>11,
             <1>12, <1>13, <1>14, <1>15, <1>16
          DEF Next, Request, Handler, Sweep, Broadcast

\* The inductive invariant holds initially.
LEMMA InvInit == Init => Inv
  <1> SUFFICES ASSUME Init PROVE Inv
    OBVIOUS
  <1> USE DEF Init
  <1>1. Canonical /\ Registers
    BY LobbyAssumption DEF LobbyAssumption, Canonical, Registers
  <1>2. Unregistered /\ OpenFresh /\ Exclusive
    BY DEF Unregistered, OpenFresh, Exclusive
  <1>3. ReapOwned /\ RoomOwner /\ HostLinked
    BY DEF ReapOwned, RoomOwner, HostLinked
  <1>4. OneRoomPerHost /\ SeatsCovered
    BY DEF OneRoomPerHost, SeatsCovered
  <1> QED BY <1>1, <1>2, <1>3, <1>4 DEF Inv

\* Every step preserves the inductive invariant.
LEMMA InvStep ==
  ASSUME TypeOK, OpenTarget, TypeOK', Inv, [Next]_vars
  PROVE  Inv'
  BY CanonicalStep, RegistersStep, UnregisteredStep, OpenFreshStep, ExclusiveStep,
     ReapOwnedStep, RoomOwnerStep, HostLinkedStep, OneRoomPerHostStep,
     SeatsCoveredStep DEF Inv

\* The inductive invariant holds for every set of connections and rooms.
THEOREM InvCorrect == Spec => []Inv
  <1>1. TypeOK /\ OpenTarget /\ TypeOK' /\ Inv /\ [Next]_vars => Inv'
    BY InvStep
  <1> QED BY InvInit, <1>1, TypeInvariant, PTL DEF Spec

\* Every claim on a seat is covered by the room's counter and the counter by
\* its capacity: a guest's departure never gives away the host's seat.
THEOREM SeatAccounting == Spec => []SeatsCovered
  <1>1. Inv => SeatsCovered
    BY DEF Inv
  <1> QED BY <1>1, InvCorrect, PTL

\* No room seats more players than max_players, whatever races with a join.
THEOREM NeverOverbooked == Spec => []NotOverbooked
  <1>1. TypeOK /\ Inv => NotOverbooked
    <2> SUFFICES ASSUME TypeOK, Inv, NEW r \in rooms
                 PROVE  1 + Cardinality(Members(r)) <= rmax[r]
      BY DEF NotOverbooked
    <2>1. r \in Room /\ Covered(r)
      BY DEF TypeOK, Inv, SeatsCovered, Covered
    <2>2. Claims(r) = Cardinality(Members(r)) + Cardinality(InFlight(r)) + Reaped(r)
      BY DEF Claims
    <2>3. rcount[r] \in Nat /\ rmax[r] \in Nat
      BY <2>1 DEF TypeOK
    <2> QED BY <2>1, <2>2, <2>3, ClaimsType DEF Covered
  <1> QED BY <1>1, TypeCorrect, InvCorrect, PTL

\* A player listed as hosting hosts an open room that names it as its host.
THEOREM HostLink == Spec => []HostLinked
  <1>1. Inv => HostLinked
    BY DEF Inv
  <1> QED BY <1>1, InvCorrect, PTL

\* No player ever owns two rooms, orphaned ones included.
THEOREM SingleRoom == Spec => []OneRoomPerHost
  <1>1. Inv => OneRoomPerHost
    BY DEF Inv
  <1> QED BY <1>1, InvCorrect, PTL

(***************************************************************************)
(* Versions.                                                               *)
(***************************************************************************)
\* The version compared in step 2 is still the one of the room in step 5.
LEMMA VersionStep ==
  ASSUME TypeOK, OpenTarget, Inv, JoinVersion, SameVersion, [Next]_vars
  PROVE  JoinVersion' /\ SameVersion'
  <1> USE LobbyAssumption
          DEF LobbyAssumption, TypeOK, OpenTarget, Goto, PC, AwaitPoints, Inv,
              Canonical, OpenFresh, ReapOwned, Exclusive, JoinVersion, SameVersion
  <1>1. ASSUME NEW c \in Conn, Connect(c) \/ Disconnect(c) \/ LeaveGrace(c) \/
               LeaveViewer(c) \/ Farewell(c)
        PROVE  JoinVersion' /\ SameVersion'
    BY <1>1
       DEF Connect, FreshConn, Disconnect, LeaveGrace, LeaveViewer, ErasePlayer,
           Farewell
  <1>2. ASSUME NEW c \in Conn, Register(c) \/ RegisterInsert(c) \/ RegisterWelcome(c)
        PROVE  JoinVersion' /\ SameVersion'
    BY <1>2 DEF Register, RegisterInsert, RegisterWelcome
  <1>3. ASSUME NEW c \in Conn, Heartbeat(c) \/ Lapse(c) \/ Announce(c)
        PROVE  JoinVersion' /\ SameVersion'
    BY <1>3 DEF Heartbeat, Lapse, Announce
  <1>4. ASSUME NEW c \in Conn, CreateRoom(c) \/ (\E r \in Room : CreateCapacity(c, r))
        PROVE  JoinVersion' /\ SameVersion'
    BY <1>4 DEF CreateRoom, CreateCapacity, FreshRoom
  <1>5. ASSUME NEW c \in Conn, NEW cap \in Caps, CreateOpen(c, cap)
        PROVE  JoinVersion' /\ SameVersion'
    BY <1>5 DEF CreateOpen
  <1>6. ASSUME NEW c \in Conn, CreateHost(c)
        PROVE  JoinVersion' /\ SameVersion'
    BY <1>6 DEF CreateHost
  <1>7. ASSUME NEW c \in Conn, CloseRoom(c) \/ CloseUnlist(c)
        PROVE  JoinVersion' /\ SameVersion'
    BY <1>7 DEF CloseRoom, CloseUnlist, EraseRoom
  <1>8. ASSUME NEW c \in Conn, (\E r \in Room : JoinRoom(c, r)) \/ JoinPeers(c) \/
               JoinReserve(c)
        PROVE  JoinVersion' /\ SameVersion'
    BY <1>8 DEF JoinRoom, JoinPeers, Admissible, JoinReserve, HasSeat
  <1>9. ASSUME NEW c \in Conn, JoinToken(c) \/ JoinSeat(c) \/ JoinRefund(c)
        PROVE  JoinVersion' /\ SameVersion'
    BY <1>9 DEF JoinToken, JoinSeat, JoinRefund, Vacate
  <1>10. ASSUME SweepFind \/ (\E p \in Conn : SweepPlayer(p))
        PROVE  JoinVersion' /\ SameVersion'
    BY <1>10 DEF SweepFind, Expired, SweepPlayer, ErasePlayer, AfterRemoval
  <1>11. ASSUME SweepRooms \/ SweepAnnounce
        PROVE  JoinVersion' /\ SameVersion'
    BY <1>11 DEF SweepRooms, EraseRoom, Vacate, AfterRemoval, SweepAnnounce
  <1>12. ASSUME UNCHANGED vars
        PROVE  JoinVersion' /\ SameVersion'
    BY <1>12 DEF vars
  <1> QED BY <1>1, <1>2, <1>3, <1>4, <1>5, <1>6, <1>7, <1>8, <1>9, <1>10,
             <1>11, <1>12
          DEF Next, Request, Handler, Sweep, Broadcast

\* Everyone seated in a room plays its host's version, however long ago the
\* version was compared.
THEOREM VersionsAgree == Spec => []SameVersion
  <1>1. Init => JoinVersion /\ SameVersion
    BY DEF Init, JoinVersion, SameVersion
  <1>2. TypeOK /\ OpenTarget /\ Inv /\ JoinVersion /\ SameVersion /\ [Next]_vars
          => JoinVersion' /\ SameVersion'
    BY VersionStep
  <1> QED BY <1>1, <1>2, TypeInvariant, InvCorrect, PTL DEF Spec

(***************************************************************************)
(* Refinement of RoomSeats.                                                *)
(***************************************************************************)
\* A room someone is about to leave has more than its host in it.
LEMMA GuestSeat ==
  ASSUME TypeOK, Inv, NEW r \in rooms, reapJoin = r \/ InFlight(r) # {}
  PROVE  rcount[r] > 1
  <1>1. r \in Room /\ Covered(r) /\ rcount[r] \in Nat
    BY DEF TypeOK, Inv, SeatsCovered, Covered
  <1>2. Claims(r) = Cardinality(Members(r)) + Cardinality(InFlight(r)) + Reaped(r)
    BY DEF Claims
  <1>3. Cardinality(InFlight(r)) + Reaped(r) >= 1
    <2>1. InFlight(r) # {} => Cardinality(InFlight(r)) # 0
      BY <1>1, ClaimsType, FS_EmptySet
    <2> QED BY <1>1, <2>1, ClaimsType DEF Reaped
  <1> QED BY <1>1, <1>2, <1>3, ClaimsType DEF Covered

\* Where nothing saturates, Vacate is a decrement.
LEMMA VacateDecrements ==
  ASSUME rcount \in [Room -> Nat], NEW q \in Room, q \in rooms, rcount[q] > 0
  PROVE  Vacate(q) = [rcount EXCEPT ![q] = rcount[q] - 1]
  <1> DEFINE f == [rcount EXCEPT ![q] = rcount[q] - 1]
  <1>1. \A x \in Room : Vacate(q)[x] = f[x]
    <2> TAKE x \in Room
    <2>1. Vacate(q)[x] = IF x = q /\ x \in rooms /\ rcount[x] > 0
                           THEN rcount[x] - 1 ELSE rcount[x]
      BY DEF Vacate
    <2>2. f[x] = IF x = q THEN rcount[q] - 1 ELSE rcount[x]
      OBVIOUS
    <2> QED BY <2>1, <2>2
  <1>2. Vacate(q) \in [Room -> Int] /\ f \in [Room -> Int]
    BY DEF Vacate
  <1> QED BY <1>1, <1>2

\* Clearing one counter after setting another one, as one update.
LEMMA ClearAndSet ==
  ASSUME NEW f \in [Room -> Nat], NEW g \in [Room -> Nat],
         NEW h \in Room, NEW j \in Room, NEW n \in Nat, h # j,
         g = [f EXCEPT ![j] = n]
  PROVE  [x \in Room |-> IF x = h THEN 0 ELSE g[x]] = [f EXCEPT ![h] = 0, ![j] = n]
  <1> DEFINE u == [x \in Room |-> IF x = h THEN 0 ELSE g[x]]
             v == [f EXCEPT ![h] = 0, ![j] = n]
  <1>1. \A x \in Room : u[x] = v[x]
    OBVIOUS
  <1>2. u \in [Room -> Nat] /\ v \in [Room -> Nat]
    OBVIOUS
  <1> QED BY <1>1, <1>2

\* Every step of the lobby is a step of RoomSeats or changes no room.
LEMMA SeatsStep ==
  ASSUME TypeOK, OpenTarget, Inv, [Next]_vars
  PROVE  [Seats!Next]_(Seats!vars)
  <1> USE DEF TypeOK, Goto, Seats!vars
  <1>1. ASSUME NEW c \in Conn, Request(c) \/ Disconnect(c) \/ Lapse(c) \/
               Announce(c) \/ Farewell(c)
        PROVE  UNCHANGED Seats!vars
    BY <1>1 DEF Request, Connect, Register, Heartbeat, CreateRoom, CloseRoom,
       JoinRoom, Disconnect, Lapse, Announce, Farewell
  <1>2. ASSUME NEW c \in Conn, RegisterInsert(c) \/ RegisterWelcome(c) \/
               (\E r \in Room : CreateCapacity(c, r)) \/ CreateHost(c) \/
               JoinPeers(c) \/ JoinToken(c) \/ JoinSeat(c) \/ LeaveGrace(c) \/
               LeaveViewer(c)
        PROVE  UNCHANGED Seats!vars
    BY <1>2 DEF RegisterInsert, RegisterWelcome, CreateCapacity, CreateHost,
       JoinPeers, JoinToken, JoinSeat, LeaveGrace, LeaveViewer
  <1>3. ASSUME NEW c \in Conn, NEW cap \in Caps, CreateOpen(c, cap)
        PROVE  Seats!Open(target[c], cap) /\ target[c] \in Room
    BY <1>3, LobbyAssumption
       DEF LobbyAssumption, CreateOpen, Seats!Open, Inv, OpenFresh, OpenTarget
  <1>4. ASSUME NEW c \in Conn, CloseUnlist(c)
        PROVE  Seats!Close(target[c]) /\ target[c] \in Room
    BY <1>4 DEF CloseUnlist, EraseRoom, Seats!Close, Inv, Exclusive
  <1>5. ASSUME NEW c \in Conn, JoinReserve(c)
        PROVE  (Seats!Take(target[c]) /\ target[c] \in Room) \/ UNCHANGED Seats!vars
    BY <1>5 DEF JoinReserve, HasSeat, Seats!Take
  <1>6. ASSUME NEW c \in Conn, JoinRefund(c)
        PROVE  (Seats!GiveBack(target[c]) /\ target[c] \in Room) \/ UNCHANGED Seats!vars
    <2>1. CASE target[c] \in rooms
      <3>1. rcount[target[c]] > 1
        BY <1>6, <2>1, GuestSeat DEF JoinRefund, InFlight
      <3> QED BY <1>6, <2>1, <3>1 DEF JoinRefund, Vacate, Seats!GiveBack
    <2>2. CASE target[c] \notin rooms
      BY <1>6, <2>2 DEF JoinRefund, Vacate
    <2> QED BY <2>1, <2>2
  <1>7. CASE SweepFind \/ (\E p \in Conn : SweepPlayer(p)) \/ SweepAnnounce
    BY <1>7 DEF SweepFind, SweepPlayer, SweepAnnounce
  <1>8. CASE SweepRooms
    <2> DEFINE h == reapHost
               j == reapJoin
    <2>1. h \in rooms \/ (h = None /\ h \notin Room)
      BY LobbyAssumption DEF LobbyAssumption, Inv, ReapOwned
    <2>2. j \in rooms => rcount[j] > 1
      BY GuestSeat
    <2>0. h \in rooms => h \in Room
      OBVIOUS
    <2>00. j \in rooms => j \in Room
      OBVIOUS
    <2>3. CASE h \in rooms /\ j \in rooms /\ h # j
      <3>1. Seats!CloseAndGiveBack(h, j)
        <4>1. rooms' = rooms \ {h} /\ rcount[j] > 1
          BY <1>8, <2>2, <2>3 DEF SweepRooms, EraseRoom
        <4>2. rcount' = [rcount EXCEPT ![h] = 0, ![j] = rcount[j] - 1]
          <5>1. rcount' = [q \in Room |-> IF q = h THEN 0 ELSE Vacate(j)[q]]
            BY <1>8 DEF SweepRooms
          <5>2. Vacate(j) = [rcount EXCEPT ![j] = rcount[j] - 1]
            BY <2>00, <2>3, <4>1, VacateDecrements
          <5>3. Vacate(j) \in [Room -> Nat] /\ rcount[j] - 1 \in Nat
            BY <2>00, <2>3, <4>1 DEF Vacate
          <5> HIDE DEF h, j
          <5> QED BY <2>0, <2>00, <2>3, <5>1, <5>2, <5>3, ClearAndSet
        <4>3. rmax' = [rmax EXCEPT ![h] = 0]
          BY <1>8, <2>0, <2>3 DEF SweepRooms, EraseRoom
        <4> QED BY <2>0, <2>00, <2>3, <4>1, <4>2, <4>3 DEF Seats!CloseAndGiveBack
      <3> QED BY <2>3, <2>0, <2>00, <3>1 DEF Seats!Next
    <2>4. CASE h \in rooms /\ (j \notin rooms \/ h = j)
      <3>1. Seats!Close(h)
        BY <1>8, <2>0, <2>4 DEF SweepRooms, EraseRoom, Vacate, Seats!Close
      <3> QED BY <2>4, <2>0, <3>1 DEF Seats!Next
    <2>5. CASE h \notin rooms /\ j \in rooms
      <3>1. rooms' = rooms /\ rmax' = rmax /\ rcount[j] > 1
        BY <1>8, <2>1, <2>2, <2>5 DEF SweepRooms, EraseRoom
      <3>2. rcount' = [rcount EXCEPT ![j] = rcount[j] - 1]
        <4>1. rcount' = [q \in Room |-> IF q = h THEN 0 ELSE Vacate(j)[q]]
          BY <1>8 DEF SweepRooms
        <4>2. Vacate(j) = [rcount EXCEPT ![j] = rcount[j] - 1]
          BY <2>00, <2>5, <3>1, VacateDecrements
        <4>3. rcount' = [q \in Room |-> Vacate(j)[q]]
          BY <2>1, <2>5, <4>1
        <4> HIDE DEF h, j
        <4> QED BY <4>2, <4>3
      <3>3. Seats!GiveBack(j)
        BY <2>00, <2>5, <3>1, <3>2 DEF Seats!GiveBack
      <3> QED BY <2>5, <2>00, <3>3 DEF Seats!Next
    <2>6. CASE h \notin rooms /\ j \notin rooms
      BY <1>8, <2>1, <2>6 DEF SweepRooms, EraseRoom, Vacate
    <2> QED BY <2>3, <2>4, <2>5, <2>6
  <1>9. CASE UNCHANGED vars
    BY <1>9 DEF vars
  <1> QED BY <1>1, <1>2, <1>3, <1>4, <1>5, <1>6, <1>7, <1>8, <1>9
          DEF Next, Handler, Sweep, Broadcast, Seats!Next

\* The lobby implements RoomSeats: seats are taken and given back one at a
\* time, never past the capacity and never down to the host's own.
THEOREM LobbyImplementsRoomSeats == Spec => SeatsSpec
  <1>1. Init => Seats!Init
    BY DEF Init, Seats!Init
  <1>2. TypeOK /\ OpenTarget /\ Inv /\ [Next]_vars => [Seats!Next]_(Seats!vars)
    BY SeatsStep
  <1> QED BY <1>1, <1>2, TypeInvariant, InvCorrect, PTL DEF Spec, SeatsSpec, Seats!Spec

(***************************************************************************)
(* While no handler is cut short.  CalmSpec allows less than Spec, so all  *)
(* of the above holds; what is proved besides is what a cancelled handler  *)
(* breaks.                                                                 *)
(***************************************************************************)
\* A calm step is a step.
LEMMA CalmIsNext == [CalmNext]_vars => [Next]_vars
  BY DEF CalmNext, Next

\* What holds of every lobby holds of a calm one.
LEMMA CalmInvariant == CalmSpec => [](TypeOK /\ OpenTarget /\ Inv)
  <1>1. CalmSpec => Spec
    BY CalmIsNext, PTL DEF CalmSpec, Spec
  <1> QED BY <1>1, TypeInvariant, InvCorrect, PTL

\* Only a disconnected player expires, and nobody else removes it.
LEMMA CalmClocksStep ==
  ASSUME TypeOK, Inv, CalmClocks, [CalmNext]_vars
  PROVE  CalmClocks'
  <1> USE DEF TypeOK, Goto, Inv, Unregistered, CalmClocks
  <1>1. ASSUME NEW c \in Conn, Request(c)
        PROVE  CalmClocks'
    BY <1>1 DEF Request, Connect, Register, Heartbeat, CreateRoom, CloseRoom, JoinRoom
  <1>2. ASSUME NEW c \in Conn, Handler(c)
        PROVE  CalmClocks'
    <2>1. CASE RegisterInsert(c) \/ RegisterWelcome(c) \/ CreateHost(c) \/ CloseUnlist(c) \/
               (\E r \in Room : CreateCapacity(c, r)) \/ (\E cap \in Caps : CreateOpen(c, cap))
      BY <2>1 DEF RegisterInsert, RegisterWelcome, CreateHost, CloseUnlist,
         CreateCapacity, CreateOpen
    <2>2. CASE JoinPeers(c) \/ JoinReserve(c) \/ JoinToken(c) \/ JoinSeat(c) \/ JoinRefund(c)
      BY <2>2 DEF JoinPeers, JoinReserve, JoinToken, JoinSeat, JoinRefund
    <2>3. CASE LeaveGrace(c)
      BY <2>3 DEF LeaveGrace
    <2>4. CASE LeaveViewer(c)
      <3>1. c \notin expired
        BY <2>4 DEF LeaveViewer
      <3> QED BY <2>4, <3>1 DEF LeaveViewer, ErasePlayer
    <2> QED BY <1>2, <2>1, <2>2, <2>3, <2>4 DEF Handler
  <1>3. ASSUME NEW c \in Conn,
               Disconnect(c) \/ (disconnected[c] /\ Lapse(c)) \/ Announce(c) \/ Farewell(c)
        PROVE  CalmClocks'
    BY <1>3 DEF Disconnect, Lapse, Announce, Farewell
  <1>4. CASE SweepFind \/ SweepRooms \/ SweepAnnounce
    BY <1>4 DEF SweepFind, Expired, SweepRooms, SweepAnnounce
  <1>5. ASSUME NEW p \in Conn, SweepPlayer(p)
        PROVE  CalmClocks'
    BY <1>5 DEF SweepPlayer, ErasePlayer
  <1>6. CASE UNCHANGED vars
    BY <1>6 DEF vars
  <1> QED BY <1>1, <1>2, <1>3, <1>4, <1>5, <1>6 DEF CalmNext, Sweep, Broadcast

\* A handler's player is in the map until the handler itself says farewell.
LEMMA CalmPresentStep ==
  ASSUME TypeOK, Inv, CalmClocks, CalmPresent, [CalmNext]_vars
  PROVE  CalmPresent'
  <1> USE DEF TypeOK, Goto, Inv, Unregistered, CalmPresent
  <1>1. ASSUME NEW c \in Conn, Request(c)
        PROVE  CalmPresent'
    BY <1>1 DEF Request, Connect, Register, Heartbeat, CreateRoom, CloseRoom, JoinRoom
  <1>2. ASSUME NEW c \in Conn, Handler(c)
        PROVE  CalmPresent'
    <2>1. CASE RegisterInsert(c) \/ RegisterWelcome(c) \/ CreateHost(c) \/ CloseUnlist(c) \/
               (\E r \in Room : CreateCapacity(c, r)) \/ (\E cap \in Caps : CreateOpen(c, cap))
      BY <2>1 DEF RegisterInsert, RegisterWelcome, CreateHost, CloseUnlist,
         CreateCapacity, CreateOpen
    <2>2. CASE JoinPeers(c) \/ JoinReserve(c) \/ JoinToken(c) \/ JoinSeat(c) \/ JoinRefund(c)
      BY <2>2 DEF JoinPeers, JoinReserve, JoinToken, JoinSeat, JoinRefund
    <2>3. CASE LeaveGrace(c) \/ LeaveViewer(c)
      BY <2>3 DEF LeaveGrace, LeaveViewer, ErasePlayer
    <2> QED BY <1>2, <2>1, <2>2, <2>3 DEF Handler
  <1>3. ASSUME NEW c \in Conn, Disconnect(c) \/ Lapse(c) \/ Announce(c) \/ Farewell(c)
        PROVE  CalmPresent'
    BY <1>3 DEF Disconnect, Lapse, Announce, Farewell, AwaitPoints
  <1>4. CASE SweepFind \/ SweepRooms \/ SweepAnnounce
    BY <1>4 DEF SweepFind, SweepRooms, SweepAnnounce
  <1>5. ASSUME NEW p \in Conn, SweepPlayer(p)
        PROVE  CalmPresent'
    <2>1. pc[p] \in {"farewell", "closed"}
      BY <1>5 DEF SweepPlayer, CalmClocks
    <2> QED BY <1>5, <2>1 DEF SweepPlayer, ErasePlayer
  <1>6. CASE UNCHANGED vars
    BY <1>6 DEF vars
  <1> QED BY <1>1, <1>2, <1>3, <1>4, <1>5, <1>6 DEF CalmNext, Sweep, Broadcast

\* A room is handed over, never let go of.
LEMMA CalmOwnerStep ==
  ASSUME TypeOK, OpenTarget, Inv, CalmPresent, CalmOwner, [CalmNext]_vars
  PROVE  CalmOwner'
  <1> USE LobbyAssumption
          DEF LobbyAssumption, TypeOK, Goto, Inv, Canonical, CalmOwner
  <1>1. ASSUME NEW c \in Conn, Connect(c) \/ Register(c) \/ Heartbeat(c) \/ CreateRoom(c) \/
               (\E r \in Room : JoinRoom(c, r))
        PROVE  CalmOwner'
    BY <1>1 DEF Connect, Register, Heartbeat, CreateRoom, JoinRoom
  <1>2. ASSUME NEW c \in Conn, CloseRoom(c)
        PROVE  CalmOwner'
    BY <1>2 DEF CloseRoom
  <1>3. ASSUME NEW c \in Conn, RegisterInsert(c) \/ RegisterWelcome(c) \/
               (\E r \in Room : CreateCapacity(c, r))
        PROVE  CalmOwner'
    BY <1>3 DEF RegisterInsert, RegisterWelcome, CreateCapacity
  <1>4. ASSUME NEW c \in Conn, NEW cap \in Caps, CreateOpen(c, cap)
        PROVE  CalmOwner'
    BY <1>4 DEF CreateOpen, OpenTarget, OpenFresh
  <1>5. ASSUME NEW c \in Conn, CreateHost(c)
        PROVE  CalmOwner'
    <2>1. c \in players /\ hosting[c] = None
      BY <1>5 DEF CreateHost, CalmPresent, Unregistered, Exclusive
    <2> QED BY <1>5, <2>1 DEF CreateHost
  <1>6. ASSUME NEW c \in Conn, CloseUnlist(c)
        PROVE  CalmOwner'
    BY <1>6 DEF CloseUnlist, EraseRoom, Exclusive
  <1>7. ASSUME NEW c \in Conn, JoinPeers(c) \/ JoinReserve(c) \/ JoinToken(c) \/ JoinSeat(c) \/
               JoinRefund(c)
        PROVE  CalmOwner'
    BY <1>7 DEF JoinPeers, JoinReserve, JoinToken, JoinSeat, JoinRefund
  <1>8. ASSUME NEW c \in Conn, LeaveGrace(c) \/ LeaveViewer(c)
        PROVE  CalmOwner'
    BY <1>8 DEF LeaveGrace, LeaveViewer, ErasePlayer, Registers
  <1>9. ASSUME NEW c \in Conn,
               (pc[c] = "idle" /\ Disconnect(c)) \/ Lapse(c) \/ Announce(c) \/ Farewell(c)
        PROVE  CalmOwner'
    BY <1>9 DEF Disconnect, Lapse, Announce, Farewell
  <1>10. CASE SweepFind \/ SweepAnnounce
    BY <1>10 DEF SweepFind, SweepAnnounce
  <1>11. ASSUME NEW p \in Conn, SweepPlayer(p)
        PROVE  CalmOwner'
    BY <1>11 DEF SweepPlayer, ErasePlayer, Registers
  <1>12. CASE SweepRooms
    BY <1>12 DEF SweepRooms, EraseRoom
  <1>13. CASE UNCHANGED vars
    BY <1>13 DEF vars
  <1> QED BY <1>1, <1>2, <1>3, <1>4, <1>5, <1>6, <1>7, <1>8, <1>9, <1>10, <1>11,
             <1>12, <1>13
          DEF CalmNext, Request, Handler, Sweep, Broadcast

\* A set one element has come to has one element more.
LEMMA OneMore ==
  ASSUME NEW S, IsFiniteSet(S), NEW T, NEW x, x \notin S, T = S \cup {x}
  PROVE  Cardinality(T) = Cardinality(S) + 1
  BY FS_AddElement

\* A set one element has gone from has one element less.
LEMMA OneLess ==
  ASSUME NEW S, IsFiniteSet(S), NEW T, NEW x, x \in S, T = S \ {x}
  PROVE  Cardinality(T) = Cardinality(S) - 1
  BY FS_RemoveElement

\* SeatsExact for one room.
Exact(r) == rcount[r] = 1 + Claims(r)

\* The counter stays exact when it moves by as much as the claims do.
LEMMA ExactMoves ==
  ASSUME TypeOK, TypeOK', NEW r \in Room, Exact(r), NEW d \in Int,
         rcount'[r] = rcount[r] + d,
         Cardinality(Members(r)') + Cardinality(InFlight(r)') + Reaped(r)'
           = Cardinality(Members(r)) + Cardinality(InFlight(r)) + Reaped(r) + d
  PROVE  Exact(r)'
  <1>1. rcount'[r] = 1 + Claims(r) + d /\ Claims(r) \in Nat
    BY ClaimsType DEF Exact
  <1>2. Claims(r)' = Claims(r) + d
    BY ClaimsTypeNext DEF Claims
  <1> QED BY <1>1, <1>2 DEF Exact

\* A step that touches neither the counter nor a claim.
LEMMA ExactKept ==
  ASSUME TypeOK, TypeOK', NEW r \in Room, Exact(r), rcount'[r] = rcount[r],
         Members(r)' = Members(r), InFlight(r)' = InFlight(r),
         reapJoin' = r <=> reapJoin = r
  PROVE  Exact(r)'
  <1>1. Reaped(r)' = Reaped(r)
    BY DEF Reaped
  <1>2. /\ rcount[r] \in Nat /\ Cardinality(Members(r)) \in Nat
        /\ Cardinality(InFlight(r)) \in Nat /\ Reaped(r) \in 0..1
    BY ClaimsType DEF TypeOK
  <1>3. /\ rcount'[r] = rcount[r] + 0
        /\ Cardinality(Members(r)') + Cardinality(InFlight(r)') + Reaped(r)'
             = Cardinality(Members(r)) + Cardinality(InFlight(r)) + Reaped(r) + 0
    BY <1>1, <1>2
  <1> QED BY <1>3, ExactMoves

\* No step moves a claim without its seat or a seat without its claim.
LEMMA SeatsExactStep ==
  ASSUME TypeOK, OpenTarget, TypeOK', Inv, CalmPresent, SeatsExact, [CalmNext]_vars
  PROVE  SeatsExact'
  <1> SUFFICES ASSUME NEW r \in rooms' PROVE Exact(r)'
    BY DEF SeatsExact, Exact
  <1>0. r \in Room /\ (r \in rooms => Exact(r))
    BY DEF TypeOK, SeatsExact, Exact
  <1>n. r # None
    BY <1>0, LobbyAssumption DEF LobbyAssumption
  <1> USE DEF TypeOK, Goto
  \* Steps that touch no counter and no claim.
  <1>a. ASSUME r \in rooms, rcount'[r] = rcount[r], Members(r)' = Members(r),
               InFlight(r)' = InFlight(r), reapJoin' = r <=> reapJoin = r
        PROVE  Exact(r)'
    BY <1>a, <1>0, ExactKept
  \* Steps that move the counter and the claims by d.
  <1>b. ASSUME r \in rooms, NEW d \in Int, rcount'[r] = rcount[r] + d,
               Cardinality(Members(r)') + Cardinality(InFlight(r)') + Reaped(r)'
                 = Cardinality(Members(r)) + Cardinality(InFlight(r)) + Reaped(r) + d
        PROVE  Exact(r)'
    BY <1>b, <1>0, ExactMoves
  <1>t. /\ IsFiniteSet(Members(r)) /\ Cardinality(Members(r)) \in Nat
        /\ IsFiniteSet(InFlight(r)) /\ Cardinality(InFlight(r)) \in Nat
        /\ Reaped(r) \in 0..1 /\ rcount[r] \in Nat
    BY <1>0, ClaimsType
  <1>1. ASSUME NEW c \in Conn, Connect(c) \/ (pc[c] = "idle" /\ Disconnect(c)) \/
               LeaveGrace(c) \/ Farewell(c)
        PROVE  Exact(r)'
    BY <1>0, <1>1, <1>a DEF Members, InFlight, Connect, Disconnect, LeaveGrace, Farewell
  <1>2. ASSUME NEW c \in Conn, LeaveViewer(c)
        PROVE  Exact(r)'
    <2>1. joined[c] = None
      BY <1>2 DEF LeaveViewer, Inv, Registers
    <2> QED BY <1>0, <1>2, <1>a, <1>n, <2>1 DEF Members, InFlight, LeaveViewer, ErasePlayer
  <1>3. ASSUME NEW c \in Conn, Register(c) \/ RegisterInsert(c) \/ RegisterWelcome(c)
        PROVE  Exact(r)'
    <2>1. c \notin players => joined[c] = None
      BY DEF Inv, Canonical
    <2> QED BY <1>0, <1>3, <1>a, <1>n, <2>1
        DEF Members, InFlight, Register, RegisterInsert, RegisterWelcome
  <1>4. ASSUME NEW c \in Conn, Heartbeat(c) \/ Lapse(c) \/ Announce(c)
        PROVE  Exact(r)'
    BY <1>0, <1>4, <1>a DEF Members, InFlight, Heartbeat, Lapse, Announce
  <1>5. ASSUME NEW c \in Conn, CreateRoom(c) \/ (\E q \in Room : CreateCapacity(c, q)) \/
               CreateHost(c)
        PROVE  Exact(r)'
    BY <1>0, <1>5, <1>a DEF Members, InFlight, CreateRoom, CreateCapacity, CreateHost
  <1>6. ASSUME NEW c \in Conn, NEW cap \in Caps, CreateOpen(c, cap)
        PROVE  Exact(r)'
    <2>1. CASE r # target[c]
      BY <1>0, <1>6, <1>a, <2>1 DEF Members, InFlight, CreateOpen
    <2>2. CASE r = target[c]
      <3>1. Members(r)' = {}
        BY <1>6, <2>2 DEF Inv, OpenFresh, Members, CreateOpen
      <3>2. InFlight(r)' = {}
        BY <1>6, <2>2 DEF Inv, OpenFresh, InFlight, CreateOpen
      <3>3. reapJoin' # r
        BY <1>6, <2>2 DEF Inv, OpenFresh, CreateOpen
      <3>4. Claims(r)' = 0
        BY <3>1, <3>2, <3>3, FS_EmptySet DEF Claims, Reaped
      <3>5. rcount'[r] = 1
        BY <1>0, <1>6, <2>2 DEF CreateOpen
      <3> QED BY <3>4, <3>5 DEF Exact
    <2> QED BY <2>1, <2>2
  <1>7. ASSUME NEW c \in Conn, CloseRoom(c) \/ CloseUnlist(c)
        PROVE  Exact(r)'
    BY <1>0, <1>7, <1>a DEF Members, InFlight, CloseRoom, CloseUnlist, EraseRoom
  <1>8. ASSUME NEW c \in Conn, (\E q \in Room : JoinRoom(c, q)) \/ JoinPeers(c) \/ JoinToken(c)
        PROVE  Exact(r)'
    BY <1>0, <1>8, <1>a DEF Members, InFlight, JoinRoom, JoinPeers, JoinToken
  <1>9. ASSUME NEW c \in Conn, JoinReserve(c)
        PROVE  Exact(r)'
    <2>1. CASE r = target[c] /\ HasSeat(target[c])
      <3>1. /\ r \in rooms /\ rcount'[r] = rcount[r] + 1
            /\ Members(r)' = Members(r) /\ Reaped(r)' = Reaped(r)
        BY <1>0, <1>9, <2>1 DEF JoinReserve, HasSeat, Members, Reaped
      <3>2. InFlight(r)' = InFlight(r) \cup {c} /\ c \notin InFlight(r)
        BY <1>9, <2>1 DEF InFlight, JoinReserve
      <3>3. Cardinality(InFlight(r)') = Cardinality(InFlight(r)) + 1
        BY <1>t, <3>2, OneMore
      <3> QED BY <1>b, <1>t, <3>1, <3>3
    <2>2. CASE r # target[c] \/ ~HasSeat(target[c])
      BY <1>0, <1>9, <1>a, <2>2 DEF Members, InFlight, JoinReserve
    <2> QED BY <2>1, <2>2
  <1>10. ASSUME NEW c \in Conn, JoinSeat(c)
        PROVE  Exact(r)'
    <2>1. /\ r \in rooms /\ rcount'[r] = rcount[r] + 0 /\ Reaped(r)' = Reaped(r)
          /\ rcount'[r] = rcount[r] /\ reapJoin' = reapJoin
      BY <1>10, <1>t DEF JoinSeat, Reaped
    <2>2. c \in players
      BY <1>10 DEF JoinSeat, CalmPresent, Inv, Unregistered
    <2>3. CASE r = target[c] /\ r # joined[c]
      <3>1. Members(r)' = Members(r) \cup {c} /\ c \notin Members(r)
        BY <1>10, <2>2, <2>3 DEF Members, JoinSeat
      <3>2. InFlight(r)' = InFlight(r) \ {c} /\ c \in InFlight(r)
        BY <1>10, <2>2, <2>3 DEF InFlight, JoinSeat
      <3>3. /\ Cardinality(Members(r)') = Cardinality(Members(r)) + 1
            /\ Cardinality(InFlight(r)') = Cardinality(InFlight(r)) - 1
        BY <1>t, <3>1, <3>2, OneMore, OneLess
      <3> QED BY <1>b, <1>t, <2>1, <3>3
    <2>4. CASE r # target[c] /\ r = joined[c]
      <3>1. Members(r)' = Members(r) \ {c} /\ c \in Members(r)
        BY <1>10, <2>2, <2>4 DEF Members, JoinSeat
      <3>2. InFlight(r)' = InFlight(r) \cup {c} /\ c \notin InFlight(r)
        BY <1>n, <1>10, <2>2, <2>4 DEF InFlight, JoinSeat
      <3>3. /\ Cardinality(Members(r)') = Cardinality(Members(r)) - 1
            /\ Cardinality(InFlight(r)') = Cardinality(InFlight(r)) + 1
        BY <1>t, <3>1, <3>2, OneMore, OneLess
      <3> QED BY <1>b, <1>t, <2>1, <3>3
    <2>5. CASE (r = target[c]) <=> (r = joined[c])
      <3>1. Members(r)' = Members(r)
        BY <1>10, <2>2, <2>5 DEF Members, JoinSeat
      <3>2. InFlight(r)' = InFlight(r)
        BY <1>n, <1>10, <2>2, <2>5 DEF InFlight, JoinSeat
      <3> QED BY <1>a, <2>1, <3>1, <3>2
    <2> QED BY <2>3, <2>4, <2>5
  <1>11. ASSUME NEW c \in Conn, JoinRefund(c)
        PROVE  Exact(r)'
    <2>1. CASE r = target[c]
      <3>1. c \in InFlight(r) /\ InFlight(r)' = InFlight(r) \ {c}
        BY <1>n, <1>11, <2>1 DEF InFlight, JoinRefund
      <3>2. Members(r)' = Members(r) /\ Reaped(r)' = Reaped(r) /\ r \in rooms
        BY <1>11 DEF Members, Reaped, JoinRefund
      <3>3. rcount[r] > 0
        BY <1>0, <3>2, ClaimsType DEF Exact
      <3>4. rcount'[r] = rcount[r] + (-1)
        BY <1>0, <1>t, <1>11, <2>1, <3>2, <3>3 DEF JoinRefund, Vacate
      <3>5. Cardinality(InFlight(r)') = Cardinality(InFlight(r)) - 1
        BY <1>t, <3>1, OneLess
      <3> QED BY <1>b, <1>t, <3>2, <3>4, <3>5
    <2>2. CASE r # target[c]
      BY <1>0, <1>11, <1>a, <2>2 DEF Members, InFlight, JoinRefund, Vacate
    <2> QED BY <2>1, <2>2
  <1>12. CASE SweepFind \/ SweepAnnounce
    BY <1>0, <1>12, <1>a DEF Members, InFlight, SweepFind, SweepAnnounce
  <1>13. ASSUME NEW p \in Conn, SweepPlayer(p)
        PROVE  Exact(r)'
    <2>1. /\ r \in rooms /\ rcount'[r] = rcount[r] /\ rcount'[r] = rcount[r] + 0
          /\ InFlight(r)' = InFlight(r) /\ reapJoin # r
      BY <1>n, <1>t, <1>13 DEF SweepPlayer, InFlight, Inv, Registers
    <2>2. CASE p \in players /\ joined[p] = r
      <3>1. Members(r)' = Members(r) \ {p} /\ p \in Members(r)
        BY <1>0, <1>13, <2>2 DEF SweepPlayer, ErasePlayer, Members
      <3>2. Cardinality(Members(r)') = Cardinality(Members(r)) - 1
        BY <1>t, <3>1, OneLess
      <3>3. Reaped(r) = 0 /\ Reaped(r)' = 1
        BY <1>13, <2>1, <2>2 DEF SweepPlayer, Reaped
      <3> QED BY <1>b, <1>t, <2>1, <3>2, <3>3
    <2>3. CASE p \notin players \/ joined[p] # r
      BY <1>0, <1>13, <1>a, <2>1, <2>3 DEF Members, SweepPlayer, ErasePlayer
    <2> QED BY <2>2, <2>3
  <1>14. CASE SweepRooms
    <2>1. /\ r \in rooms /\ r # reapHost /\ reapJoin' # r
          /\ Members(r)' = Members(r) /\ InFlight(r)' = InFlight(r)
      BY <1>n, <1>0, <1>14 DEF SweepRooms, EraseRoom, Members, InFlight
    <2>2. CASE r = reapJoin
      <3>1. rcount[r] > 0
        BY <1>0, <2>1, ClaimsType DEF Exact
      <3>2. rcount'[r] = rcount[r] + (-1)
        BY <1>0, <1>t, <1>14, <2>1, <2>2, <3>1 DEF SweepRooms, Vacate
      <3>3. Reaped(r) = 1 /\ Reaped(r)' = 0
        BY <2>1, <2>2 DEF Reaped
      <3> QED BY <1>b, <1>t, <2>1, <3>2, <3>3
    <2>3. CASE r # reapJoin
      BY <1>0, <1>14, <1>a, <2>1, <2>3 DEF SweepRooms, Vacate
    <2> QED BY <2>2, <2>3
  <1>15. CASE UNCHANGED vars
    BY <1>0, <1>15, <1>a DEF vars, Members, InFlight
  <1> QED BY <1>1, <1>2, <1>3, <1>4, <1>5, <1>6, <1>7, <1>8, <1>9, <1>10, <1>11,
             <1>12, <1>13, <1>14, <1>15
          DEF CalmNext, Request, Handler, Sweep, Broadcast

\* The four parts are inductive together with Inv.
LEMMA CalmCorrect == CalmSpec => []Calm
  <1>1. Init => Calm
    BY DEF Init, Calm, CalmClocks, CalmPresent, CalmOwner, SeatsExact
  <1>2. TypeOK /\ OpenTarget /\ Inv /\ TypeOK' /\ Calm /\ [CalmNext]_vars => Calm'
    BY CalmClocksStep, CalmPresentStep, CalmOwnerStep, SeatsExactStep DEF Calm
  <1> QED BY <1>1, <1>2, CalmInvariant, PTL DEF CalmSpec

\* As long as no handler is cut short, a room's counter is exactly its host
\* and the claims on its seats: no seat is lost, however joins, room changes
\* and evictions interleave.
THEOREM SeatsAreExact == CalmSpec => []SeatsExact
  <1>1. Calm => SeatsExact
    BY DEF Calm
  <1> QED BY <1>1, CalmCorrect, PTL

\* As long as no handler is cut short, no room outlives the entry of its host,
\* but for the request or the removal that is under way.
THEOREM NoRoomIsOrphaned == CalmSpec => []NoOrphanRoom
  <1>1. TypeOK /\ Inv /\ Calm => NoOrphanRoom
    BY LobbyAssumption
       DEF LobbyAssumption, TypeOK, Inv, Canonical, HostLinked, Calm, CalmOwner, NoOrphanRoom
  <1> QED BY <1>1, CalmCorrect, CalmInvariant, PTL

\* As long as connected clients keep their heartbeat up, no step removes a
\* player whose grace period has not run out.
THEOREM OnlyExpiredEvicted == CalmSpec => EvictsOnlyExpired
  <1>1. ASSUME TypeOK, Inv, Calm, [CalmNext]_vars, NEW p \in players,
               p \notin players', p \notin Viewers
        PROVE  stale[p]
    <2>1. PICK q \in Conn : LeaveViewer(q) \/ SweepPlayer(q)
      <3> USE DEF Goto
      <3>1. ASSUME NEW c \in Conn, Request(c) \/ Disconnect(c) \/ Lapse(c) \/ Announce(c) \/
                   Farewell(c)
            PROVE  players' = players
        BY <3>1 DEF Request, Connect, Register, Heartbeat, CreateRoom, CloseRoom,
           JoinRoom, Disconnect, Lapse, Announce, Farewell
      <3>2. ASSUME NEW c \in Conn, Handler(c), ~LeaveViewer(c)
            PROVE  players \subseteq players'
        BY <3>2 DEF Handler, RegisterInsert, RegisterWelcome, CreateCapacity, CreateOpen,
           CreateHost, CloseUnlist, JoinPeers, JoinReserve, JoinToken, JoinSeat,
           JoinRefund, LeaveGrace
      <3>3. SweepFind \/ SweepRooms \/ SweepAnnounce \/ UNCHANGED vars => players' = players
        BY DEF SweepFind, SweepRooms, SweepAnnounce, vars
      <3> QED BY <1>1, <3>1, <3>2, <3>3 DEF CalmNext, Sweep, Broadcast
    <2>2. CASE LeaveViewer(q)
      BY <1>1, <2>2 DEF LeaveViewer, ErasePlayer
    <2>3. CASE SweepPlayer(q)
      BY <1>1, <2>3 DEF SweepPlayer, ErasePlayer, Calm, CalmClocks
    <2> QED BY <2>1, <2>2, <2>3
  <1>2. TypeOK /\ Inv /\ Calm /\ [CalmNext]_vars =>
          [\A p \in players : p \notin players' /\ p \notin Viewers => stale[p]]_vars
    BY <1>1
  <1> QED BY <1>2, CalmCorrect, CalmInvariant, PTL DEF CalmSpec, EvictsOnlyExpired
=============================================================================
