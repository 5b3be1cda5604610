----------------------------- MODULE RoomSeats -----------------------------
(***************************************************************************)
(* What the lobby promises about the seats of its rooms, without players,  *)
(* handlers or locks: an open room has a size and a number of taken seats; *)
(* the first seat is the host's and stays taken as long as the room is     *)
(* open, a seat is taken only while one is free, and seats are taken and   *)
(* given back one at a time.  Lobby implements this (see MCLobby and       *)
(* LobbyProofs).                                                           *)
(***************************************************************************)
EXTENDS Integers

CONSTANTS Room, Caps

VARIABLES
  open,   \* the rooms that are open
  taken,  \* taken[r]: seats in use, the host's included
  size    \* size[r]: seats there are

vars == <<open, taken, size>>

Init ==
  /\ open = {}
  /\ taken = [r \in Room |-> 0]
  /\ size = [r \in Room |-> 0]

Open(r, n) ==
  /\ r \notin open
  /\ open' = open \cup {r}
  /\ taken' = [taken EXCEPT ![r] = 1]
  /\ size' = [size EXCEPT ![r] = n]

Take(r) ==
  /\ r \in open
  /\ taken[r] < size[r]
  /\ taken' = [taken EXCEPT ![r] = @ + 1]
  /\ UNCHANGED <<open, size>>

GiveBack(r) ==
  /\ r \in open
  /\ taken[r] > 1
  /\ taken' = [taken EXCEPT ![r] = @ - 1]
  /\ UNCHANGED <<open, size>>

Close(r) ==
  /\ r \in open
  /\ open' = open \ {r}
  /\ taken' = [taken EXCEPT ![r] = 0]
  /\ size' = [size EXCEPT ![r] = 0]

\* A player that hosts one room and sits in another goes.
CloseAndGiveBack(r, q) ==
  /\ r \in open /\ q \in open /\ r # q
  /\ taken[q] > 1
  /\ open' = open \ {r}
  /\ taken' = [taken EXCEPT ![r] = 0, ![q] = @ - 1]
  /\ size' = [size EXCEPT ![r] = 0]

Next ==
  \E r \in Room :
    \/ \E n \in Caps : Open(r, n)
    \/ Take(r)
    \/ GiveBack(r)
    \/ Close(r)
    \/ \E q \in Room : CloseAndGiveBack(r, q)

Spec == Init /\ [][Next]_vars
=============================================================================
