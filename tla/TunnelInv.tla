----------------------------- MODULE TunnelInv -----------------------------
(***************************************************************************)
(* The inductive invariant behind WaitersWait and RelaysPair of Tunnel.    *)
(***************************************************************************)
EXTENDS Tunnel

\* Handlers that have not offered a sender of their queue to anybody yet.
Early == {"check", "lookup", "claim", "insert"}

\* A handler knows its peer from the moment it takes the entry or is notified.
PeerWhile ==
  \A c \in Conn : peer[c] # None <=> pc[c] \in {"claim"} \cup Relaying

\* Nobody holds a sender of a handler that has not offered one, nor refers to
\* a handler whose entry is still in the map.
Offered ==
  \A c, d \in Conn :
    d = peer[c] \/ d = notified[c] => pc[d] \notin Early /\ waiting[TokenOf[d]] # d

\* Everyone has at most one holder, be it by peer or by the oneshot channel.
OneHolder ==
  \A c, d \in Conn :
    /\ peer[c] # None /\ peer[c] = peer[d] => c = d
    /\ notified[c] # None /\ notified[c] = notified[d] => c = d
    /\ peer[c] # None => peer[c] # notified[d]

\* What c knows of d, once it has taken the entry of d or been notified by d.
Claims(c, d) ==
  pc[c] = "claim" => pc[d] \in {"wait", "expire", "closed"} /\ notified[d] = None

Answered(c, d) ==
  pc[c] = "relaySecond" =>
    \/ pc[d] \in {"expire", "closed"}
    \/ pc[d] = "wait" /\ notified[d] = c
    \/ pc[d] = "relayFirst" /\ peer[d] = c

Answers(c, d) ==
  pc[c] = "relayFirst" =>
    \/ pc[d] = "closed"
    \/ pc[d] = "relaySecond" /\ peer[d] = c

Pairs ==
  \A c, d \in Conn : peer[c] = d =>
    /\ TokenOf[c] = TokenOf[d]
    /\ Claims(c, d) /\ Answered(c, d) /\ Answers(c, d)

\* What a waiter finds in its oneshot channel.
Notices ==
  \A c, d \in Conn : notified[c] = d =>
    /\ pc[c] = "wait" /\ waiting[TokenOf[c]] # c
    /\ TokenOf[c] = TokenOf[d]
    /\ \/ pc[d] = "closed"
       \/ pc[d] = "relaySecond" /\ peer[d] = c

(***************************************************************************)
(* The inductive invariant: whoever holds a sender of somebody's queue is  *)
(* known to that somebody, is about to be, or is too late.  It is about    *)
(* the hand-over of pairing (take the entry, notify, be notified), each    *)
(* step of which may come after the other side has gone.                   *)
(***************************************************************************)
TunnelInvariant ==
  /\ WaitersWait
  /\ PeerWhile
  /\ Offered
  /\ OneHolder
  /\ Pairs
  /\ Notices
=============================================================================
