----------------------------- MODULE FeedProofs -----------------------------
(***************************************************************************)
(* Proofs about LobbyFeed for every finite set of connections and rooms:   *)
(* the feed adds nothing to the lobby but what is shown, so the invariants *)
(* of LobbyProofs hold of it, and with them the lists converge.            *)
(***************************************************************************)
EXTENDS LobbyFeed, LobbyProofs

USE DEF playerVars, roomVars, connVars, sweepVars

\* A step of the lobby with its feed is a step of the lobby.
LEMMA FeedIsLobby == [FeedNext]_feedVars => [Next]_vars
  BY DEF FeedNext, FeedBroadcast, feedVars, Next, Broadcast

\* What holds of the lobby holds of the lobby with its feed.
LEMMA FeedInvariant == FeedSpec => [](TypeOK /\ Inv)
  <1>1. FeedInit => Init
    BY DEF FeedInit
  <1>2. FeedSpec => Spec
    BY <1>1, FeedIsLobby, PTL DEF FeedSpec, Spec
  <1> QED BY <1>2, TypeCorrect, InvCorrect, PTL

(***************************************************************************)
(* A connection that says farewell is no longer online, so that it is not  *)
(* owed the broadcast its own task can no longer deliver to it.            *)
(***************************************************************************)
LeftOffline == \A c \in Conn : pc[c] = "farewell" => c \notin Online

\* Nobody comes back online before the task is closed.
LEMMA LeftOfflineStep ==
  ASSUME TypeOK, Inv, LeftOffline, [Next]_vars
  PROVE  LeftOffline'
  <1> USE DEF TypeOK, Goto, Inv, LeftOffline, Online
  <1>1. ASSUME NEW c \in Conn, Request(c)
        PROVE  LeftOffline'
    BY <1>1 DEF Request, Connect, Register, Heartbeat, CreateRoom, CloseRoom, JoinRoom
  <1>2. ASSUME NEW c \in Conn, Handler(c)
        PROVE  LeftOffline'
    <2>1. CASE RegisterInsert(c) \/ RegisterWelcome(c) \/ CreateHost(c) \/ CloseUnlist(c) \/
               (\E r \in Room : CreateCapacity(c, r)) \/ (\E cap \in Caps : CreateOpen(c, cap))
      BY <2>1 DEF RegisterInsert, RegisterWelcome, CreateHost, CloseUnlist,
         CreateCapacity, CreateOpen
    <2>2. CASE JoinPeers(c) \/ JoinReserve(c) \/ JoinToken(c) \/ JoinSeat(c) \/ JoinRefund(c)
      BY <2>2 DEF JoinPeers, JoinReserve, JoinToken, JoinSeat, JoinRefund
    <2>3. CASE LeaveGrace(c) \/ LeaveViewer(c)
      BY <2>3 DEF LeaveGrace, LeaveViewer, ErasePlayer
    <2> QED BY <1>2, <2>1, <2>2, <2>3 DEF Handler
  <1>3. ASSUME NEW c \in Conn, Disconnect(c) \/ Lapse(c) \/ Announce(c) \/ Farewell(c)
        PROVE  LeftOffline'
    BY <1>3 DEF Disconnect, Lapse, Announce, Farewell
  <1>4. CASE SweepFind \/ SweepRooms \/ SweepAnnounce
    BY <1>4 DEF SweepFind, SweepRooms, SweepAnnounce
  <1>5. ASSUME NEW p \in Conn, SweepPlayer(p)
        PROVE  LeftOffline'
    BY <1>5 DEF SweepPlayer, ErasePlayer
  <1>6. CASE UNCHANGED vars
    BY <1>6 DEF vars
  <1> QED BY <1>1, <1>2, <1>3, <1>4, <1>5, <1>6 DEF Next, Sweep, Broadcast

(***************************************************************************)
(* Convergence: a broadcast shows the lobby as it is, and any other step   *)
(* either leaves the maps alone or leaves a broadcast owed.                *)
(***************************************************************************)
Quiet == sweep = "sleep" /\ \A c \in Conn : ~Unannounced(c)

\* The state that has been broadcast to everybody.
Delivered ==
  \A c \in Online : /\ shownPlayers[c] \in {Behind, PlayerUpdate}
                    /\ shownRooms[c] \in {Behind, RoomUpdate}

\* A broadcast of unchanged maps delivers them to everybody it is sent to.
LEMMA BroadcastDelivers ==
  ASSUME TypeOK, NEW lostP, NEW lostR, BroadcastState(lostP, lostR),
         UNCHANGED playerVars, UNCHANGED roomVars
  PROVE  Delivered'
  <1>1. Online' = Online /\ PlayerUpdate' = PlayerUpdate /\ RoomUpdate' = RoomUpdate
    BY DEF Online, PlayerUpdate, RoomUpdate
  <1>2. Online \subseteq Conn
    BY DEF Online, TypeOK
  <1>3. ASSUME NEW c \in Online
        PROVE  shownPlayers'[c] \in {Behind, PlayerUpdate} /\ shownRooms'[c] \in {Behind, RoomUpdate}
    BY <1>2, <1>3 DEF BroadcastState, Shown
  <1> QED BY <1>1, <1>3 DEF Delivered

\* So does the last broadcast of a connection, to everybody but itself.
LEMMA FarewellDelivers ==
  ASSUME TypeOK, LeftOffline, NEW d \in Conn, Farewell(d),
         NEW lostP, NEW lostR, LastBroadcast(d, lostP, lostR)
  PROVE  Delivered'
  <1>1. UNCHANGED playerVars /\ UNCHANGED roomVars /\ d \notin Online
    BY DEF Farewell, LeftOffline
  <1>2. Online' = Online /\ PlayerUpdate' = PlayerUpdate /\ RoomUpdate' = RoomUpdate
    BY <1>1 DEF Online, PlayerUpdate, RoomUpdate
  <1>3. Online \subseteq Conn
    BY DEF Online, TypeOK
  <1>4. ASSUME NEW c \in Online
        PROVE  shownPlayers'[c] \in {Behind, PlayerUpdate} /\ shownRooms'[c] \in {Behind, RoomUpdate}
    BY <1>1, <1>3, <1>4 DEF LastBroadcast, Shown
  <1> QED BY <1>2, <1>4 DEF Delivered

\* The maps a client is shown, and who is shown them, are left alone.
SameView ==
  /\ Online' \subseteq Online
  /\ PlayerUpdate' = PlayerUpdate
  /\ RoomUpdate' = RoomUpdate

\* Any other step that ends with no broadcast owed began so and changed nothing
\* that is shown: what changes a map, or ends a handler that may have, is
\* followed by a broadcast of the same handler.
LEMMA QuietStep ==
  ASSUME TypeOK, Inv, Quiet',
         \/ \E c \in Conn : Request(c) \/ Handler(c) \/ Disconnect(c) \/ Lapse(c)
         \/ Sweep
         \/ UNCHANGED vars
  PROVE  Quiet /\ SameView
  <1> USE DEF TypeOK, Goto, PC, AwaitPoints, Inv, Unregistered, Quiet, Unannounced
  <1> DEFINE Same == UNCHANGED <<players, disconnected, hosting, rooms, rhost, rcount>>
  <1>0. Same => SameView
    BY DEF SameView, Online, PlayerUpdate, RoomUpdate
  <1>1. ASSUME NEW c \in Conn, Request(c)
        PROVE  Quiet /\ Same
    BY <1>1 DEF Request, Connect, Register, Heartbeat, CreateRoom, CloseRoom, JoinRoom
  <1>2. ASSUME NEW c \in Conn, Handler(c)
        PROVE  Quiet /\ Same
    <2>1. CASE RegisterInsert(c) \/ RegisterWelcome(c) \/ CreateHost(c) \/ CloseUnlist(c)
      BY <2>1 DEF RegisterInsert, RegisterWelcome, CreateHost, CloseUnlist
    <2>2. CASE (\E r \in Room : CreateCapacity(c, r)) \/ (\E cap \in Caps : CreateOpen(c, cap))
      BY <2>2 DEF CreateCapacity, CreateOpen
    <2>3. CASE JoinPeers(c) \/ JoinReserve(c)
      BY <2>3 DEF JoinPeers, JoinReserve
    <2>4. CASE JoinToken(c) \/ JoinSeat(c) \/ JoinRefund(c) \/ LeaveGrace(c) \/ LeaveViewer(c)
      BY <2>4 DEF JoinToken, JoinSeat, JoinRefund, LeaveGrace, LeaveViewer
    <2> QED BY <1>2, <2>1, <2>2, <2>3, <2>4 DEF Handler
  <1>3. ASSUME NEW c \in Conn, Disconnect(c) \/ Lapse(c)
        PROVE  Quiet /\ Same
    BY <1>3 DEF Disconnect, Lapse
  <1>4. ~Sweep
    <2>1. \A rest : AfterRemoval(rest) # "sleep"
      BY DEF AfterRemoval
    <2> QED BY <2>1 DEF Sweep, SweepFind, SweepPlayer, SweepRooms
  <1>5. ASSUME UNCHANGED vars
        PROVE  Quiet /\ Same
    BY <1>5 DEF vars
  <1> QED BY <1>0, <1>1, <1>2, <1>3, <1>4, <1>5

\* Every step ends with a broadcast owed or everybody served.
LEMMA FeedConvergesStep ==
  ASSUME TypeOK, Inv, LeftOffline, FeedConverges, [FeedNext]_feedVars
  PROVE  FeedConverges'
  <1> SUFFICES ASSUME Quiet' PROVE Delivered'
    BY DEF FeedConverges, Quiet, Delivered
  <1>1. CASE FeedBroadcast
    <2>1. ASSUME NEW lostP, NEW lostR, NEW c \in Conn, Announce(c), BroadcastState(lostP, lostR)
          PROVE  Delivered'
      BY <2>1, BroadcastDelivers DEF Announce
    <2>2. ASSUME NEW lostP, NEW lostR, SweepAnnounce, BroadcastState(lostP, lostR)
          PROVE  Delivered'
      BY <2>2, BroadcastDelivers DEF SweepAnnounce
    <2> QED BY <1>1, <2>1, <2>2, FarewellDelivers DEF FeedBroadcast
  <1>2. CASE ~FeedBroadcast
    <2>1. /\ UNCHANGED shownVars
          /\ \/ \E c \in Conn : Request(c) \/ Handler(c) \/ Disconnect(c) \/ Lapse(c)
             \/ Sweep
             \/ UNCHANGED vars
      BY <1>2 DEF FeedNext, feedVars
    <2>2. Quiet /\ SameView
      BY <2>1, QuietStep
    <2>3. Delivered
      BY <2>2 DEF FeedConverges, Quiet, Delivered
    <2> QED BY <2>1, <2>2, <2>3 DEF SameView, Delivered, shownVars
  <1> QED BY <1>1, <1>2

\* Whenever no handler owes a broadcast, every online player whose last update
\* was not dropped is shown the lobby as it is: every change of the maps, those
\* of cancelled handlers and of the cleanup task included, is broadcast after
\* it was made.
THEOREM EveryChangeIsShown == FeedSpec => []FeedConverges
  <1>1. FeedInit => LeftOffline /\ FeedConverges
    BY DEF FeedInit, Init, LeftOffline, FeedConverges, Online
  <1>2. TypeOK /\ Inv /\ LeftOffline /\ FeedConverges /\ [FeedNext]_feedVars
          => (LeftOffline /\ FeedConverges)'
    BY LeftOfflineStep, FeedConvergesStep, FeedIsLobby
  <1> QED BY <1>1, <1>2, FeedInvariant, PTL DEF FeedSpec
=============================================================================
