------------------------------ MODULE MCLobby ------------------------------
(***************************************************************************)
(* Small instances of Lobby for TLC.                                       *)
(***************************************************************************)
EXTENDS LobbyInv, TLC

CONSTANTS a, b, w, r1, r2

\* Everyone plays the same version, or w another one.
OneVersion == [c \in Conn |-> 1]
OddVersion == [c \in Conn |-> IF c = w THEN 2 ELSE 1]

\* Rooms are interchangeable, and so are a and b, which never differ in version
\* or in being viewers.
PairSymmetry == Permutations({a, b})
CalmSymmetry == Permutations(Room) \cup Permutations({a, b})

\* Orphaned rooms and joined_room fields can use up the finite supply of ids.
\* When every connection waits for an id and every id is still referred to, the
\* instance is at its end, not the server: the state repeats, so that any other
\* deadlock is still reported.
OutOfIds ==
  /\ \A c \in Conn : \/ pc[c] = "closed" /\ ~FreshConn(c)
                     \/ pc[c] = "capacity" /\ \A r \in Room : ~FreshRoom(r)
  /\ sweep = "sleep"
  /\ UNCHANGED vars

MCSpec == Init /\ [][Next \/ OutOfIds]_vars
MCFairSpec == MCSpec /\ Fairness
MCCalmSpec == Init /\ [][CalmNext \/ OutOfIds]_vars
=============================================================================
