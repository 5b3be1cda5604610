---------------------------- MODULE MCLobbyFeed ----------------------------
(***************************************************************************)
(* Small instances of LobbyFeed for TLC.                                   *)
(***************************************************************************)
EXTENDS LobbyFeed

CONSTANTS a, b, w, r1, r2

OneVersion == [c \in Conn |-> 1]
=============================================================================
