----------------------------- MODULE LobbyFeed -----------------------------
(***************************************************************************)
(* What the players of Lobby are shown.  broadcast_state takes a snapshot  *)
(* of both maps under both read locks and offers it to every connected     *)
(* player as two messages, PlayerUpdate and RoomUpdate, with try_send: a   *)
(* message that does not fit into the player's queue is dropped.  A queue  *)
(* is FIFO and a message replaces the whole list, so the state of a client *)
(* is the last snapshot its queue accepted.                                *)
(***************************************************************************)
EXTENDS Lobby

CONSTANTS
  Nothing,   \* no list received yet
  Behind     \* the last list was dropped

ASSUME FeedAssumption == Nothing # Behind

VARIABLES
  shownPlayers,  \* shownPlayers[c]: the player list client c shows
  shownRooms     \* shownRooms[c]: the room list client c shows

shownVars == <<shownPlayers, shownRooms>>
feedVars == <<vars, shownVars>>

Online == {p \in players : ~disconnected[p]}

\* Web viewers are in no player list; is_hosting comes from hosting_room.
PlayerUpdate == {<<p, hosting[p] # None>> : p \in Online \ Viewers}

\* A room is listed while its host is connected.
RoomUpdate == {<<r, rcount[r]>> : r \in {q \in rooms : rhost[q] \in Online}}

\* The new contents of a list when the players in lost miss the update.
Shown(old, update, lost) ==
  [c \in Conn |-> IF c \notin Online THEN old[c]
                  ELSE IF c \in lost THEN Behind ELSE update]

FeedInit ==
  /\ Init
  /\ shownPlayers = [c \in Conn |-> Nothing]
  /\ shownRooms = [c \in Conn |-> Nothing]

BroadcastState(lostP, lostR) ==
  /\ shownPlayers' = Shown(shownPlayers, PlayerUpdate, lostP)
  /\ shownRooms' = Shown(shownRooms, RoomUpdate, lostR)

\* The last broadcast of a connection; its client is gone with it.
LastBroadcast(c, lostP, lostR) ==
  /\ shownPlayers' = [Shown(shownPlayers, PlayerUpdate, lostP) EXCEPT ![c] = Nothing]
  /\ shownRooms' = [Shown(shownRooms, RoomUpdate, lostR) EXCEPT ![c] = Nothing]

FeedBroadcast ==
  \E lostP \in SUBSET Online : \E lostR \in SUBSET Online :
    \/ \E c \in Conn : Announce(c) /\ BroadcastState(lostP, lostR)
    \/ \E c \in Conn : Farewell(c) /\ LastBroadcast(c, lostP, lostR)
    \/ SweepAnnounce /\ BroadcastState(lostP, lostR)

FeedNext ==
  \/ /\ \/ \E c \in Conn : Request(c) \/ Handler(c) \/ Disconnect(c) \/ Lapse(c)
        \/ Sweep
     /\ UNCHANGED shownVars
  \/ FeedBroadcast

FeedSpec == FeedInit /\ [][FeedNext]_feedVars

(***************************************************************************)
(* Properties.                                                             *)
(***************************************************************************)
\* A handler that has changed a map, or may have, and has not broadcast yet.
Unannounced(c) ==
  pc[c] \in {"welcome", "host", "unlist", "token", "seat", "refund",
             "announce", "leave", "farewell"}

\* When nobody owes a broadcast, every connected player whose last update was
\* not dropped shows the lobby as it is: no change of the maps, not even by a
\* handler that was cut short, is left without a broadcast after it.
FeedConverges ==
  sweep = "sleep" /\ (\A c \in Conn : ~Unannounced(c)) =>
    \A c \in Online : /\ shownPlayers[c] \in {Behind, PlayerUpdate}
                      /\ shownRooms[c] \in {Behind, RoomUpdate}
=============================================================================
