------------------------------ MODULE LobbyInv ------------------------------
(***************************************************************************)
(* The inductive invariant behind the safety properties of Lobby, and the  *)
(* refinement of RoomSeats.  The invariants of Lobby are about the two     *)
(* maps; what makes them inductive is what a suspended handler may still   *)
(* rely on about the room in its register target[c].                       *)
(***************************************************************************)
EXTENDS Lobby

\* A room id has been drawn when the room is inserted.
OpenTarget ==
  \A c \in Conn : pc[c] = "open" => target[c] # None

\* Fields of an entry that is not in its map have no value of their own.
Canonical ==
  /\ \A p \in Conn \ players :
       ~disconnected[p] /\ ~stale[p] /\ hosting[p] = None /\ joined[p] = None
  /\ \A r \in Room \ rooms : rhost[r] = None /\ rcount[r] = 0 /\ rmax[r] = 0
  /\ \A r \in rooms : rhost[r] \in Conn /\ rmax[r] \in Caps

\* Which connection states go with which register contents.
Registers ==
  /\ \A c \in Conn :
       target[c] # None <=>
         pc[c] \in {"open", "host", "unlist", "peers", "reserve",
                    "token", "seat", "refund"}
  /\ sweep # "rooms" => reapHost = None /\ reapJoin = None
  /\ \A c \in Viewers : hosting[c] = None /\ joined[c] = None
  /\ \A c \in Conn : pc[c] \in {"peers", "reserve", "token", "seat", "refund",
                                "capacity", "open", "host", "unlist"} => c \notin Viewers

\* A connection that has not registered is no player and hosts nothing; the
\* handler's flag outlives the entry in the map.
Unregistered ==
  \A c \in Conn :
    /\ pc[c] \in {"closed", "insert"} => ~registered[c]
    /\ pc[c] \notin {"closed", "idle", "insert"} => registered[c]
    /\ pc[c] # "closed" /\ ~registered[c] =>
         c \notin players /\ \A r \in rooms : rhost[r] # c
    /\ pc[c] \notin {"farewell", "closed"} => ~disconnected[c]

\* The id of a room that is about to be opened is known to its handler only.
OpenFresh ==
  \A c \in Conn : pc[c] = "open" =>
    /\ target[c] \notin rooms
    /\ target[c] \notin {reapHost, reapJoin}
    /\ \A d \in Conn : target[c] \notin {hosting[d], joined[d]}
    /\ \A d \in Conn \ {c} : target[d] # target[c]

\* A handler in the middle of CreateRoom or CloseRoom has the room to itself,
\* and the player it works for is listed as hosting nothing.
Exclusive ==
  \A c \in Conn :
    /\ pc[c] \in {"capacity", "open", "host", "unlist"} => hosting[c] = None
    /\ pc[c] \in {"host", "unlist"} => target[c] \in rooms /\ rhost[target[c]] = c

\* The room the cleanup task is about to remove is nobody's any more.
ReapOwned ==
  reapHost # None =>
    /\ reapHost \in rooms
    /\ \A p \in Conn : hosting[p] # reapHost
    /\ \A c \in Conn : pc[c] \in {"host", "unlist"} => target[c] # reapHost

\* Where the owner of an open room can be.
RoomOwner ==
  \A r \in rooms :
    LET c == rhost[r]
    IN  \/ c \in players /\ hosting[c] = r
        \/ pc[c] \in {"host", "unlist"} /\ target[c] = r
        \/ pc[c] \in {"leave", "farewell", "closed"}
        \/ c \notin players /\ pc[c] \notin {"insert", "capacity", "open", "host", "unlist"}

\* Version agreement from the check in step 2 to the seat.
JoinVersion ==
  \A c \in Conn :
    /\ pc[c] = "peers" /\ target[c] \in rooms => peer[c] = rhost[target[c]]
    /\ pc[c] \in {"reserve", "token", "seat"} /\ target[c] \in rooms =>
         Version[c] = Version[rhost[target[c]]]

\* The conjunction is inductive; TypeOK is proved first and separately.
Inv ==
  /\ Canonical
  /\ Registers
  /\ Unregistered
  /\ OpenFresh
  /\ Exclusive
  /\ ReapOwned
  /\ RoomOwner
  /\ HostLinked
  /\ OneRoomPerHost
  /\ SeatsCovered

(***************************************************************************)
(* What holds besides while no handler is cut short, under CalmSpec.       *)
(***************************************************************************)
\* Only the grace period runs out, and what the cleanup task has found stays
\* expired until it comes to it.
CalmClocks ==
  /\ \A p \in Conn : stale[p] => disconnected[p]
  /\ \A p \in expired : p \in players /\ stale[p]

\* The entry of a registered player outlives every handler that works for it.
CalmPresent ==
  \A c \in Conn :
    registered[c] /\ pc[c] \notin {"farewell", "closed"} => c \in players

\* A room is in the hands of its host, of the request that opens or closes it,
\* or of the cleanup task.
CalmOwner ==
  \A r \in rooms :
    LET c == rhost[r]
    IN  \/ hosting[c] = r
        \/ reapHost = r
        \/ pc[c] \in {"host", "unlist"} /\ target[c] = r

Calm == CalmClocks /\ CalmPresent /\ CalmOwner /\ SeatsExact

\* The lobby's rooms as the abstract rooms of RoomSeats.
Seats == INSTANCE RoomSeats WITH open <- rooms, taken <- rcount, size <- rmax

\* Every step of the lobby is a step of RoomSeats or changes no room: the
\* occupancy of a room moves by one seat at a time, never past the capacity
\* and never below the host's seat.
SeatsSpec == Seats!Spec
=============================================================================
