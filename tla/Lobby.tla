------------------------------- MODULE Lobby -------------------------------
(***************************************************************************)
(* The lobby of the matchmaking server: the two lock-protected maps of     *)
(* AppState (players and rooms, state.rs), the WebSocket handlers that     *)
(* work on them (ws.rs) and the cleanup task that evicts silent players    *)
(* (main.rs).                                                              *)
(*                                                                         *)
(* The two maps have a lock each and no handler holds both for writing, so *)
(* a request is a sequence of critical sections.  A critical section is    *)
(* one action here; pc[c] names the section connection c waits to enter,   *)
(* and every such wait is a point where the tokio::select! of              *)
(* handle_socket may drop the handler.  A request the server answers with  *)
(* an error and no change of state is no step.                             *)
(*                                                                         *)
(* A connection owns one player id, so Conn is also the set of player ids. *)
(* Ids are UUIDs: a connection or a room gets an id nothing refers to any  *)
(* more (FreshConn, FreshRoom), which lets a finite set of them stand for  *)
(* an unbounded supply.                                                    *)
(***************************************************************************)
EXTENDS Integers, FiniteSets

CONSTANTS
  Conn,              \* WebSocket connections, and the player ids they carry
  Room,              \* room ids
  Caps,              \* the max_players values hosts ask for
  Version,           \* Version[c]: the War3 version c registers with
  Viewers,           \* the connections that register as web viewers
  MAX_TOTAL_PLAYERS,
  MAX_TOTAL_ROOMS,
  None               \* Option::None

ASSUME LobbyAssumption ==
  /\ IsFiniteSet(Conn)
  /\ IsFiniteSet(Room)
  /\ Caps \subseteq 2..12          \* ClientMessage::validate
  /\ Viewers \subseteq Conn
  /\ DOMAIN Version = Conn
  /\ MAX_TOTAL_PLAYERS \in Nat
  /\ MAX_TOTAL_ROOMS \in Nat
  /\ None \notin Conn
  /\ None \notin Room

VARIABLES
  players,       \* keys of AppState.players
  disconnected,  \* disconnected[p]: disconnected_at is set
  stale,         \* stale[p]: the timeout that applies to p has run out
  hosting,       \* hosting[p]: ConnectedPlayer.hosting_room
  joined,        \* joined[p]: ConnectedPlayer.joined_room
  rooms,         \* keys of AppState.rooms
  rhost,         \* rhost[r]: Room.host_player_id
  rcount,        \* rcount[r]: Room.current_players
  rmax,          \* rmax[r]: Room.max_players
  registered,    \* registered[c]: the handler's own flag
  pc,            \* pc[c]: the critical section c waits to enter
  target,        \* target[c]: the room the request of c is about
  peer,          \* peer[c]: host_player_id as JoinRoom read it
  sweep,         \* where the cleanup task is
  expired,       \* ids find_expired returned that are still to be removed
  reapHost,      \* hosting_room of the player the task has just removed
  reapJoin       \* joined_room of that player

playerVars == <<players, disconnected, stale, hosting, joined>>
roomVars   == <<rooms, rhost, rcount, rmax>>
connVars   == <<registered, pc, target, peer>>
sweepVars  == <<sweep, expired, reapHost, reapJoin>>
vars == <<playerVars, roomVars, connVars, sweepVars>>

(***************************************************************************)
(* States of a connection.  AwaitPoints are the states in which the        *)
(* receive loop is suspended and may be dropped.                           *)
(***************************************************************************)
AwaitPoints ==
  {"idle",                                   \* waiting for a frame
   "insert",                                 \* Register
   "capacity", "open", "host",               \* CreateRoom
   "unlist",                                 \* CloseRoom
   "peers", "reserve", "token", "seat", "refund",  \* JoinRoom
   "announce"}                               \* broadcast_state of any of them
PC == AwaitPoints \cup {"closed", "welcome", "leave", "farewell"}

TypeOK ==
  /\ players \subseteq Conn
  /\ disconnected \in [Conn -> BOOLEAN]
  /\ stale \in [Conn -> BOOLEAN]
  /\ hosting \in [Conn -> Room \cup {None}]
  /\ joined \in [Conn -> Room \cup {None}]
  /\ rooms \subseteq Room
  /\ rhost \in [Room -> Conn \cup {None}]
  /\ rcount \in [Room -> Nat]
  /\ rmax \in [Room -> Nat]
  /\ registered \in [Conn -> BOOLEAN]
  /\ pc \in [Conn -> PC]
  /\ target \in [Conn -> Room \cup {None}]
  /\ peer \in [Conn -> Conn \cup {None}]
  /\ sweep \in {"sleep", "remove", "rooms", "announce"}
  /\ expired \subseteq Conn
  /\ reapHost \in Room \cup {None}
  /\ reapJoin \in Room \cup {None}

Init ==
  /\ players = {}
  /\ disconnected = [c \in Conn |-> FALSE]
  /\ stale = [c \in Conn |-> FALSE]
  /\ hosting = [c \in Conn |-> None]
  /\ joined = [c \in Conn |-> None]
  /\ rooms = {}
  /\ rhost = [r \in Room |-> None]
  /\ rcount = [r \in Room |-> 0]
  /\ rmax = [r \in Room |-> 0]
  /\ registered = [c \in Conn |-> FALSE]
  /\ pc = [c \in Conn |-> "closed"]
  /\ target = [c \in Conn |-> None]
  /\ peer = [c \in Conn |-> None]
  /\ sweep = "sleep"
  /\ expired = {}
  /\ reapHost = None
  /\ reapJoin = None

(***************************************************************************)
(* Fresh UUIDs: nothing in the server refers to the id.                    *)
(***************************************************************************)
FreshConn(c) ==
  /\ c \notin players \cup expired
  /\ \A r \in Room : rhost[r] # c
  /\ \A d \in Conn : peer[d] # c

FreshRoom(r) ==
  /\ r \notin rooms
  /\ r \notin {reapHost, reapJoin}
  /\ \A c \in Conn : r \notin {hosting[c], joined[c], target[c]}

(***************************************************************************)
(* Pieces shared by several operations.                                    *)
(***************************************************************************)
Goto(c, state) == pc' = [pc EXCEPT ![c] = state]

\* HashMap::remove on players; the fields go with the entry.
ErasePlayer(p) ==
  /\ players' = players \ {p}
  /\ disconnected' = [disconnected EXCEPT ![p] = FALSE]
  /\ stale' = [stale EXCEPT ![p] = FALSE]
  /\ hosting' = [hosting EXCEPT ![p] = None]
  /\ joined' = [joined EXCEPT ![p] = None]

\* Mutant of EraseRoom: the entry stays.
EraseRoomNot(r) == UNCHANGED <<rooms, rhost, rmax>>

\* HashMap::remove on rooms, for a key that may be absent.
EraseRoom(r) ==
  /\ rooms' = rooms \ {r}
  /\ rhost' = [q \in Room |-> IF q = r THEN None ELSE rhost[q]]
  /\ rmax' = [q \in Room |-> IF q = r THEN 0 ELSE rmax[q]]

\* Mutants of Vacate: the room is not looked up; nothing is given back.
VacateUnchecked(r) == [q \in Room |-> IF q = r THEN rcount[q] - 1 ELSE rcount[q]]
VacateNothing(r) == rcount

\* current_players.saturating_sub(1) of room r where it exists.
Vacate(r) ==
  [q \in Room |-> IF q = r /\ q \in rooms /\ rcount[q] > 0
                    THEN rcount[q] - 1 ELSE rcount[q]]

(***************************************************************************)
(* A connection opens.                                                     *)
(***************************************************************************)
Connect(c) ==
  /\ pc[c] = "closed"
  /\ FreshConn(c)
  /\ Goto(c, "idle")
  /\ UNCHANGED <<playerVars, roomVars, registered, target, peer, sweepVars>>

(***************************************************************************)
(* Register: the player cap is checked under the read lock, the entry is   *)
(* inserted later under the write lock; the welcome messages go out after  *)
(* the lock is released, without an await.                                 *)
(***************************************************************************)
Register(c) ==
  /\ pc[c] = "idle"
  /\ ~registered[c]
  /\ Cardinality(players) < MAX_TOTAL_PLAYERS
  /\ Goto(c, "insert")
  /\ UNCHANGED <<playerVars, roomVars, registered, target, peer, sweepVars>>

RegisterInsert(c) ==
  /\ pc[c] = "insert"
  /\ players' = players \cup {c}
  /\ registered' = [registered EXCEPT ![c] = TRUE]
  /\ Goto(c, "welcome")
  /\ UNCHANGED <<disconnected, stale, hosting, joined,
                 roomVars, target, peer, sweepVars>>

RegisterWelcome(c) ==
  /\ pc[c] = "welcome"
  /\ Goto(c, "announce")
  /\ UNCHANGED <<playerVars, roomVars, registered, target, peer, sweepVars>>

(***************************************************************************)
(* Heartbeat: restarts the clock of a player that is still in the map.     *)
(***************************************************************************)
Heartbeat(c) ==
  /\ pc[c] = "idle"
  /\ c \in players
  /\ stale' = [stale EXCEPT ![c] = FALSE]
  /\ UNCHANGED <<players, disconnected, hosting, joined,
                 roomVars, connVars, sweepVars>>

(***************************************************************************)
(* CreateRoom: player data, room cap, insertion of the room and the        *)
(* player's hosting_room are four critical sections.                       *)
(***************************************************************************)
\* Mutant of CreateRoom: a host may open another room.
CreateRoomAgain(c) ==
  /\ pc[c] = "idle"
  /\ registered[c] /\ c \notin Viewers
  /\ c \in players
  /\ Goto(c, "capacity")
  /\ UNCHANGED <<playerVars, roomVars, registered, target, peer, sweepVars>>

CreateRoom(c) ==
  /\ pc[c] = "idle"
  /\ registered[c] /\ c \notin Viewers
  /\ c \in players /\ hosting[c] = None
  /\ Goto(c, "capacity")
  /\ UNCHANGED <<playerVars, roomVars, registered, target, peer, sweepVars>>

CreateCapacity(c, r) ==
  /\ pc[c] = "capacity"
  /\ IF Cardinality(rooms) < MAX_TOTAL_ROOMS
       THEN /\ FreshRoom(r)
            /\ target' = [target EXCEPT ![c] = r]
            /\ Goto(c, "open")
       ELSE /\ Goto(c, "idle")
            /\ UNCHANGED target
  /\ UNCHANGED <<playerVars, roomVars, registered, peer, sweepVars>>

CreateOpen(c, cap) ==
  /\ pc[c] = "open"
  /\ LET r == target[c]
     IN  /\ rooms' = rooms \cup {r}
         /\ rhost' = [rhost EXCEPT ![r] = c]
         /\ rcount' = [rcount EXCEPT ![r] = 1]
         /\ rmax' = [rmax EXCEPT ![r] = cap]
  /\ Goto(c, "host")
  /\ UNCHANGED <<playerVars, registered, target, peer, sweepVars>>

CreateHost(c) ==
  /\ pc[c] = "host"
  /\ hosting' = IF c \in players
                  THEN [hosting EXCEPT ![c] = target[c]] ELSE hosting
  /\ target' = [target EXCEPT ![c] = None]
  /\ Goto(c, "announce")
  /\ UNCHANGED <<players, disconnected, stale, joined,
                 roomVars, registered, peer, sweepVars>>

(***************************************************************************)
(* CloseRoom: hosting_room is taken, then the room is removed.             *)
(***************************************************************************)
\* Mutant of CloseRoom: hosting_room is read and not taken.
CloseRoomKept(c) ==
  /\ pc[c] = "idle"
  /\ registered[c] /\ c \notin Viewers
  /\ c \in players /\ hosting[c] # None
  /\ target' = [target EXCEPT ![c] = hosting[c]]
  /\ Goto(c, "unlist")
  /\ UNCHANGED <<playerVars, roomVars, registered, peer, sweepVars>>

CloseRoom(c) ==
  /\ pc[c] = "idle"
  /\ registered[c] /\ c \notin Viewers
  /\ c \in players /\ hosting[c] # None
  /\ target' = [target EXCEPT ![c] = hosting[c]]
  /\ hosting' = [hosting EXCEPT ![c] = None]
  /\ Goto(c, "unlist")
  /\ UNCHANGED <<players, disconnected, stale, joined,
                 roomVars, registered, peer, sweepVars>>

\* Mutant of CloseUnlist: the room goes without a broadcast.
CloseUnlistSilent(c) ==
  /\ pc[c] = "unlist"
  /\ EraseRoom(target[c])
  /\ rcount' = [q \in Room |-> IF q = target[c] THEN 0 ELSE rcount[q]]
  /\ target' = [target EXCEPT ![c] = None]
  /\ Goto(c, "idle")
  /\ UNCHANGED <<playerVars, registered, peer, sweepVars>>

CloseUnlist(c) ==
  /\ pc[c] = "unlist"
  /\ EraseRoom(target[c])
  /\ rcount' = [q \in Room |-> IF q = target[c] THEN 0 ELSE rcount[q]]
  /\ target' = [target EXCEPT ![c] = None]
  /\ Goto(c, "announce")
  /\ UNCHANGED <<playerVars, registered, peer, sweepVars>>

(***************************************************************************)
(* JoinRoom, steps 1 to 5 of the handler.  JOIN_COOLDOWN between two     *)
(* joins only delays a request.                                            *)
(***************************************************************************)
JoinRoom(c, r) ==
  /\ pc[c] = "idle"
  /\ registered[c] /\ c \notin Viewers
  /\ r \in rooms
  /\ target' = [target EXCEPT ![c] = r]
  /\ peer' = [peer EXCEPT ![c] = rhost[r]]
  /\ Goto(c, "peers")
  /\ UNCHANGED <<playerVars, roomVars, registered, sweepVars>>

\* Mutant of Admissible: the versions are not compared.
AdmissibleAnyVersion(c, host) ==
  /\ c \in players
  /\ host \in players
  /\ ~disconnected[host]

\* A room copies the version of its host, so the room's version is the host's.
Admissible(c, host) ==
  /\ c \in players
  /\ Version[c] = Version[host]
  /\ host \in players
  /\ ~disconnected[host]

JoinPeers(c) ==
  /\ pc[c] = "peers"
  /\ peer' = [peer EXCEPT ![c] = None]
  /\ \/ /\ Admissible(c, peer[c])
        /\ Goto(c, "reserve")
        /\ UNCHANGED target
     \/ /\ ~Admissible(c, peer[c])
        /\ Goto(c, "idle")
        /\ target' = [target EXCEPT ![c] = None]
  /\ UNCHANGED <<playerVars, roomVars, registered, sweepVars>>

\* Mutant of HasSeat: the counter is not compared with the capacity.
HasSeatAlways(r) == r \in rooms

HasSeat(r) == r \in rooms /\ rcount[r] < rmax[r]

JoinReserve(c) ==
  /\ pc[c] = "reserve"
  /\ \/ /\ HasSeat(target[c])
        /\ rcount' = [rcount EXCEPT ![target[c]] = @ + 1]
        /\ Goto(c, "token")
        /\ UNCHANGED target
     \/ /\ ~HasSeat(target[c])
        /\ Goto(c, "idle")
        /\ target' = [target EXCEPT ![c] = None]
        /\ UNCHANGED rcount
  /\ UNCHANGED <<playerVars, rooms, rhost, rmax, registered, peer, sweepVars>>

\* The token goes to the tunnel registry; the messages to both players' queues.
JoinToken(c) ==
  /\ pc[c] = "token"
  /\ Goto(c, "seat")
  /\ UNCHANGED <<playerVars, roomVars, registered, target, peer, sweepVars>>

\* Mutant of JoinSeat: joined_room is overwritten before the old room is read.
JoinSeatSwapped(c) ==
  /\ pc[c] = "seat"
  /\ \/ /\ c \in players
        /\ joined' = [joined EXCEPT ![c] = target[c]]
        /\ Goto(c, "refund")
        /\ UNCHANGED target
     \/ /\ c \notin players
        /\ target' = [target EXCEPT ![c] = None]
        /\ Goto(c, "announce")
        /\ UNCHANGED joined
  /\ UNCHANGED <<players, disconnected, stale, hosting,
                 roomVars, registered, peer, sweepVars>>

\* From here on target[c] is the room c leaves (None: it was in no room).
JoinSeat(c) ==
  /\ pc[c] = "seat"
  /\ \/ /\ c \in players
        /\ joined' = [joined EXCEPT ![c] = target[c]]
        /\ target' = [target EXCEPT ![c] = joined[c]]
        /\ Goto(c, IF joined[c] = None THEN "announce" ELSE "refund")
     \/ /\ c \notin players
        /\ target' = [target EXCEPT ![c] = None]
        /\ Goto(c, "announce")
        /\ UNCHANGED joined
  /\ UNCHANGED <<players, disconnected, stale, hosting,
                 roomVars, registered, peer, sweepVars>>

JoinRefund(c) ==
  /\ pc[c] = "refund"
  /\ rcount' = Vacate(target[c])
  /\ target' = [target EXCEPT ![c] = None]
  /\ Goto(c, "announce")
  /\ UNCHANGED <<playerVars, rooms, rhost, rmax, registered, peer, sweepVars>>

(***************************************************************************)
(* broadcast_state at the end of a request.  What it sends is the subject  *)
(* of LobbyFeed.                                                           *)
(***************************************************************************)
Announce(c) ==
  /\ pc[c] = "announce"
  /\ Goto(c, "idle")
  /\ UNCHANGED <<playerVars, roomVars, registered, target, peer, sweepVars>>

(***************************************************************************)
(* The handler ends: a Close frame or a broken stream while it waits for a *)
(* frame, or a send failure or the viewer's time limit at any await.  What *)
(* the dropped handler had read or reserved is forgotten.                  *)
(***************************************************************************)
Disconnect(c) ==
  /\ pc[c] \in AwaitPoints
  /\ target' = [target EXCEPT ![c] = None]
  /\ peer' = [peer EXCEPT ![c] = None]
  /\ Goto(c, IF registered[c] THEN "leave" ELSE "closed")
  /\ UNCHANGED <<playerVars, roomVars, registered, sweepVars>>

\* mark_disconnected: the grace period starts.
LeaveGrace(c) ==
  /\ pc[c] = "leave"
  /\ c \notin Viewers
  /\ disconnected' = IF c \in players
                       THEN [disconnected EXCEPT ![c] = TRUE] ELSE disconnected
  /\ stale' = [stale EXCEPT ![c] = FALSE]
  /\ Goto(c, "farewell")
  /\ UNCHANGED <<players, hosting, joined,
                 roomVars, registered, target, peer, sweepVars>>

\* remove_player for a viewer: it hosts and joins nothing, so the rooms half
\* of remove_player finds nothing to do.
LeaveViewer(c) ==
  /\ pc[c] = "leave"
  /\ c \in Viewers
  /\ ErasePlayer(c)
  /\ Goto(c, "farewell")
  /\ UNCHANGED <<roomVars, registered, target, peer, sweepVars>>

\* The last broadcast; the task ends and its locals are gone.
Farewell(c) ==
  /\ pc[c] = "farewell"
  /\ registered' = [registered EXCEPT ![c] = FALSE]
  /\ Goto(c, "closed")
  /\ UNCHANGED <<playerVars, roomVars, target, peer, sweepVars>>

(***************************************************************************)
(* Time: HEARTBEAT_TIMEOUT passes without a heartbeat, or GRACE_PERIOD     *)
(* since the disconnect.                                                   *)
(***************************************************************************)
Lapse(p) ==
  /\ p \in players
  /\ ~stale[p]
  /\ stale' = [stale EXCEPT ![p] = TRUE]
  /\ UNCHANGED <<players, disconnected, hosting, joined,
                 roomVars, connVars, sweepVars>>

(***************************************************************************)
(* The cleanup task: find_expired under the read lock, then remove_player  *)
(* for each id in turn (players first, rooms after), then a broadcast.     *)
(***************************************************************************)
\* Mutant of Expired: only the heartbeat timeout is looked at.
ExpiredConnected == {p \in players : stale[p] /\ ~disconnected[p]}

\* Mutant of Expired: the grace period is not waited for.
ExpiredAtOnce == {p \in players : stale[p] \/ disconnected[p]}

Expired == {p \in players : stale[p]}

SweepFind ==
  /\ sweep = "sleep"
  /\ Expired # {}
  /\ expired' = Expired
  /\ sweep' = "remove"
  /\ UNCHANGED <<playerVars, roomVars, connVars, reapHost, reapJoin>>

AfterRemoval(rest) == IF rest = {} THEN "announce" ELSE "remove"

\* Mutant of SweepPlayer: it leaves the room of the player to a later removal.
SweepPlayerOnly(p) ==
  /\ sweep = "remove" /\ p \in expired
  /\ expired' = expired \ {p}
  /\ \/ /\ p \in players
        /\ ErasePlayer(p)
        /\ reapHost' = hosting[p] /\ reapJoin' = joined[p]
     \/ /\ p \notin players
        /\ UNCHANGED <<playerVars, reapHost, reapJoin>>
  /\ sweep' = AfterRemoval(expired')
  /\ UNCHANGED <<roomVars, connVars>>

SweepPlayer(p) ==
  /\ sweep = "remove"
  /\ p \in expired
  /\ expired' = expired \ {p}
  /\ \/ /\ p \in players
        /\ ErasePlayer(p)
        /\ reapHost' = hosting[p]
        /\ reapJoin' = joined[p]
        /\ sweep' = "rooms"
     \/ /\ p \notin players
        /\ sweep' = AfterRemoval(expired')
        /\ UNCHANGED <<playerVars, reapHost, reapJoin>>
  /\ UNCHANGED <<roomVars, connVars>>

SweepRooms ==
  /\ sweep = "rooms"
  /\ EraseRoom(reapHost)
  /\ rcount' = [q \in Room |-> IF q = reapHost THEN 0 ELSE Vacate(reapJoin)[q]]
  /\ reapHost' = None
  /\ reapJoin' = None
  /\ sweep' = AfterRemoval(expired)
  /\ UNCHANGED <<playerVars, connVars, expired>>

SweepAnnounce ==
  /\ sweep = "announce"
  /\ sweep' = "sleep"
  /\ UNCHANGED <<playerVars, roomVars, connVars, expired, reapHost, reapJoin>>

(***************************************************************************)
(* Specification.                                                          *)
(***************************************************************************)
\* What a client asks for.
Request(c) ==
  \/ Connect(c)
  \/ Register(c)
  \/ Heartbeat(c)
  \/ CreateRoom(c)
  \/ CloseRoom(c)
  \/ \E r \in Room : JoinRoom(c, r)

\* What the server does for a request it has accepted, and at the end.
Handler(c) ==
  \/ RegisterInsert(c)
  \/ RegisterWelcome(c)
  \/ \E r \in Room : CreateCapacity(c, r)
  \/ \E cap \in Caps : CreateOpen(c, cap)
  \/ CreateHost(c)
  \/ CloseUnlist(c)
  \/ JoinPeers(c)
  \/ JoinReserve(c)
  \/ JoinToken(c)
  \/ JoinSeat(c)
  \/ JoinRefund(c)
  \/ LeaveGrace(c)
  \/ LeaveViewer(c)

Sweep ==
  \/ SweepFind
  \/ \E p \in Conn : SweepPlayer(p)
  \/ SweepRooms

\* The steps that end in a broadcast.
Broadcast ==
  \/ \E c \in Conn : Announce(c) \/ Farewell(c)
  \/ SweepAnnounce

Next ==
  \/ \E c \in Conn : Request(c) \/ Handler(c) \/ Disconnect(c) \/ Lapse(c)
  \/ Sweep
  \/ Broadcast

Spec == Init /\ [][Next]_vars

\* The runtime keeps polling every task it has, and clocks run.
Fairness ==
  /\ \A c \in Conn : WF_vars(Handler(c) \/ Announce(c) \/ Farewell(c))
  /\ \A p \in Conn : WF_vars(disconnected[p] /\ Lapse(p))
  /\ WF_vars(Sweep \/ SweepAnnounce)

FairSpec == Spec /\ Fairness

\* The lobby when nothing is cut short: connections end between requests, and
\* a connected client keeps its heartbeat up.
CalmNext ==
  \/ \E c \in Conn : Request(c) \/ Handler(c)
  \/ \E c \in Conn : pc[c] = "idle" /\ Disconnect(c)
  \/ \E p \in Conn : disconnected[p] /\ Lapse(p)
  \/ Sweep
  \/ Broadcast

CalmSpec == Init /\ [][CalmNext]_vars

(***************************************************************************)
(* Who has a claim on a seat of room r, apart from its host: the players   *)
(* whose joined_room it is, the handlers between taking the seat and       *)
(* recording it or between leaving it and giving it back, and the cleanup  *)
(* task between the two halves of remove_player.                           *)
(***************************************************************************)
Members(r) == {p \in players : joined[p] = r}
InFlight(r) == {c \in Conn : pc[c] \in {"token", "seat", "refund"} /\ target[c] = r}
Reaped(r) == IF reapJoin = r THEN 1 ELSE 0
Claims(r) == Cardinality(Members(r)) + Cardinality(InFlight(r)) + Reaped(r)

\* Every claim on a seat is covered by the counter and the counter by the
\* capacity, whatever order joins, room changes, cancelled handlers and
\* evictions come in: the host's own seat is never given away, and
\* saturating_sub never has to saturate (ws.rs steps 3 and 5, remove_player).
SeatsCovered ==
  \A r \in rooms : 1 + Claims(r) <= rcount[r] /\ rcount[r] <= rmax[r]

\* The host and the players whose joined_room is r never exceed max_players
\* (the race that the atomic check-and-increment of step 3 removes).
NotOverbooked ==
  \A r \in rooms : 1 + Cardinality(Members(r)) <= rmax[r]

\* A player that believes to be hosting hosts a room that exists and that
\* names it as the host, although hosting_room and the room are written in
\* different critical sections.
HostLinked ==
  \A p \in Conn : hosting[p] # None =>
     /\ p \in players
     /\ hosting[p] \in rooms
     /\ rhost[hosting[p]] = p

\* No player is the host of two rooms, even counting rooms that are being
\* opened or closed and rooms whose host has lost track of them.
OneRoomPerHost ==
  \A r, s \in rooms : rhost[r] = rhost[s] => r = s

\* Everyone seated in a room plays the version of its host: the version is
\* compared in step 2, the seat recorded in step 5, and the room may have been
\* closed and others opened in between.
SameVersion ==
  \A p \in players : joined[p] \in rooms => Version[p] = Version[rhost[joined[p]]]

\* The counter is exactly the host plus the claims.  True as long as no handler
\* is cut short (see MCLobby); SeatsCovered is what remains of it otherwise.
SeatsExact ==
  \A r \in rooms : rcount[r] = 1 + Claims(r)

(***************************************************************************)
(* Action properties and what holds only while no handler is cut short     *)
(* (CalmSpec).                                                             *)
(***************************************************************************)
\* remove_player says it cleans up the player's room: no room outlives the
\* entry of its host, but for the removal or the request being under way.  It
\* takes handlers that are not cut short: CreateRoom dropped between its steps
\* leaves a room that nobody closes.
NoOrphanRoom ==
  \A r \in rooms :
     \/ rhost[r] \in players
     \/ reapHost = r
     \/ pc[rhost[r]] \in {"host", "unlist"} /\ target[rhost[r]] = r

\* The cleanup task logs that the player it removes has timed out: only a
\* player whose timeout has run out is evicted.
EvictsOnlyExpired ==
  [][\A p \in players : p \notin players' /\ p \notin Viewers => stale[p]]_vars

(***************************************************************************)
(* Liveness, under Fairness.                                               *)
(***************************************************************************)
\* A player whose connection is gone is eventually removed: nobody stays in the list
\* without a connection.
DisconnectedLeaves == \A p \in Conn : []<>~(p \in players /\ disconnected[p])

\* The room of a host that is gone is eventually closed: before its host has been
\* removed, or by the second half of that removal.
AbandonedRoomCloses ==
  \A r \in Room :
    []<>~(r \in rooms /\ (reapHost = r \/ \E p \in Conn : disconnected[p] /\ hosting[p] = r))
=============================================================================
