----------------------------- MODULE SwapBridge -----------------------------
(***************************************************************************)
(* bridge_tcp_ws_with_swap of the client (net/tunnel.rs), at both ends of  *)
(* one game: each end copies between the TCP connection of its Warcraft    *)
(* and the WebSocket of the server's relay, and moves to a QUIC stream in  *)
(* the middle of the game when its swap channel delivers one.              *)
(*                                                                         *)
(* The bytes that one read returns are a chunk; the chunks of a game are   *)
(* numbered, so that order and loss can be told.  The path through the     *)
(* server is one FIFO per direction, from which the server may drop a      *)
(* frame (full queue, byte rate limit).  The strategies that make the QUIC *)
(* connection are the environment here; see Strategies.                    *)
(*                                                                         *)
(* The measurement of the latency is left out, but for what it does to the *)
(* drain: a Pong ends it (DrainOver).                                      *)
(***************************************************************************)
EXTENDS Integers, Sequences, FiniteSets

CONSTANTS
  MaxSent,    \* bound on the chunks that the two games send
  MaxDropped  \* bound on the frames that the server drops

End == {"host", "join"}
Other(e) == IF e = "host" THEN "join" ELSE "host"

ASSUME BridgeAssumption ==
  /\ MaxSent \in Nat
  /\ MaxDropped \in Nat

VARIABLES
  sent,     \* sent[e]: how many chunks the game at e has written
  open,     \* open[e]: the game at e has not closed its TCP connection
  tcp,      \* tcp[e]: chunks from the game at e that its bridge has not read
  ws,       \* ws[e]: frames on their way from e through the server
  quic,     \* quic[e]: chunks on their way from e on the QUIC stream
  tbuf,     \* tbuf[e]: tcp_outbound_buffer
  qbuf,     \* qbuf[e]: quic_buffer
  got,      \* got[e]: chunks that the game at e has received
  phase,    \* phase[e]: where the bridge is
  swap,     \* swap[e]: the swap channel of the bridge
  relay,    \* the path through the server is up
  link,     \* the QUIC connection
  dropped   \* dropped[e]: chunks from e that the server has dropped

gameVars == <<sent, open>>
pathVars == <<ws, quic, dropped>>
bufVars == <<tbuf, qbuf>>
netVars == <<relay, link>>
bridgeVars == <<sent, open, tcp, ws, quic, tbuf, qbuf, got, phase, swap, relay, link, dropped>>

Phase == {"relay", "drain", "flush", "quic", "done"}
Swapped == {"drain", "flush", "quic"}   \* the bridge owns the QUIC stream

Chunk == Nat \ {0}

BridgeTypeOK ==
  /\ sent \in [End -> Nat] /\ open \in [End -> BOOLEAN]
  /\ tcp \in [End -> Seq(Chunk)] /\ ws \in [End -> Seq(Chunk)]
  /\ quic \in [End -> Seq(Chunk)] /\ got \in [End -> Seq(Chunk)]
  /\ tbuf \in [End -> Seq(Chunk)] /\ qbuf \in [End -> Seq(Chunk)]
  /\ phase \in [End -> Phase]
  /\ swap \in [End -> {"open", "ready", "taken", "closed"}]
  /\ relay \in BOOLEAN
  /\ link \in {"none", "up", "down"}
  /\ dropped \in [End -> SUBSET Chunk]

\* What a bridge keeps for later it keeps only while it drains, and has written out before
\* it goes on with QUIC.
BuffersFlushed == \A e \in End : phase[e] \in {"relay", "quic"} => tbuf[e] = <<>> /\ qbuf[e] = <<>>

BridgeInit ==
  /\ sent = [e \in End |-> 0] /\ open = [e \in End |-> TRUE]
  /\ tcp = [e \in End |-> <<>>] /\ ws = [e \in End |-> <<>>]
  /\ quic = [e \in End |-> <<>>] /\ got = [e \in End |-> <<>>]
  /\ tbuf = [e \in End |-> <<>>] /\ qbuf = [e \in End |-> <<>>]
  /\ phase = [e \in End |-> "relay"]
  /\ swap = [e \in End |-> "open"]
  /\ relay = TRUE
  /\ link = "none"
  /\ dropped = [e \in End |-> {}]

Goto(e, p) == phase' = [phase EXCEPT ![e] = p]

\* The head of queue q[a] becomes the last element of queue r[b].
Move(q, a, r, b) ==
  /\ q[a] # <<>>
  /\ q' = [q EXCEPT ![a] = Tail(@)]
  /\ r' = [r EXCEPT ![b] = Append(@, Head(q[a]))]

\* The bridge of e returns: its sockets and its receiver of the swap channel are
\* dropped, and with them a QUIC stream it holds or was about to be given.
Return(e) ==
  /\ Goto(e, "done")
  /\ relay' = FALSE
  /\ link' = IF phase[e] \in Swapped \/ swap[e] = "ready" THEN "down" ELSE link
  /\ UNCHANGED <<gameVars, tcp, pathVars, bufVars, got, swap>>

(***************************************************************************)
(* The games and the networks.                                             *)
(***************************************************************************)
GameSends(e) ==
  /\ open[e] /\ sent["host"] + sent["join"] < MaxSent
  /\ sent' = [sent EXCEPT ![e] = @ + 1]
  /\ tcp' = [tcp EXCEPT ![e] = Append(@, sent[e] + 1)]
  /\ UNCHANGED <<open, pathVars, bufVars, got, phase, swap, netVars>>

GameCloses(e) ==
  /\ open[e]
  /\ open' = [open EXCEPT ![e] = FALSE]
  /\ UNCHANGED <<sent, tcp, pathVars, bufVars, got, phase, swap, netVars>>

\* The relay of the server: the receiver's queue is full, or the sender too fast.
ServerDrops(e) ==
  /\ Cardinality(dropped[e]) < MaxDropped
  /\ \E i \in 1..Len(ws[e]) :
       /\ dropped' = [dropped EXCEPT ![e] = @ \cup {ws[e][i]}]
       /\ ws' = [ws EXCEPT ![e] = SubSeq(@, 1, i - 1) \o SubSeq(@, i + 1, Len(@))]
  /\ UNCHANGED <<gameVars, tcp, quic, bufVars, got, phase, swap, netVars>>

RelayBreaks ==
  /\ relay
  /\ relay' = FALSE
  /\ UNCHANGED <<gameVars, tcp, pathVars, bufVars, got, phase, swap, link>>

LinkBreaks ==
  /\ link = "up"
  /\ link' = "down"
  /\ UNCHANGED <<gameVars, tcp, pathVars, bufVars, got, phase, swap, relay>>

(***************************************************************************)
(* What the strategies do to the bridges.  A stream that is given up at    *)
(* one end closes the connection.                                          *)
(***************************************************************************)
Connect ==
  /\ link = "none"
  /\ \A e \in End : swap[e] = "open"
  /\ link' = "up"
  /\ UNCHANGED <<gameVars, tcp, pathVars, bufVars, got, phase, swap, relay>>

\* Mutant of Offer: a bridge that has ended keeps the stream in its channel.
OfferToAnyone(e) ==
  /\ swap[e] = "open" /\ link # "none"
  /\ swap' = [swap EXCEPT ![e] = "ready"]
  /\ UNCHANGED <<gameVars, tcp, pathVars, bufVars, got, phase, netVars>>

\* swap_tx.send fails when the bridge has ended, and drops the stream.
Offer(e) ==
  /\ swap[e] = "open" /\ link # "none"
  /\ IF phase[e] = "done"
       THEN swap' = [swap EXCEPT ![e] = "closed"] /\ link' = "down"
       ELSE swap' = [swap EXCEPT ![e] = "ready"] /\ link' = link
  /\ UNCHANGED <<gameVars, tcp, pathVars, bufVars, got, phase, relay>>

Withdraw(e) ==
  /\ swap[e] = "open"
  /\ swap' = [swap EXCEPT ![e] = "closed"]
  /\ link' = IF link = "up" THEN "down" ELSE link
  /\ UNCHANGED <<gameVars, tcp, pathVars, bufVars, got, phase, relay>>

(***************************************************************************)
(* Phase 1: TCP and WebSocket.                                             *)
(***************************************************************************)
RelaySend(e) ==
  /\ phase[e] = "relay"
  /\ Move(tcp, e, ws, e)
  /\ UNCHANGED <<gameVars, quic, bufVars, got, phase, swap, netVars, dropped>>

\* WebSocket to the game, in phase 1 and while draining.
WsToGame(e) ==
  /\ open[e]
  /\ Move(ws, Other(e), got, e)
  /\ UNCHANGED <<gameVars, tcp, quic, bufVars, phase, swap, netVars, dropped>>

RelayReceive(e) == phase[e] = "relay" /\ WsToGame(e)

RelayEof(e) ==
  /\ phase[e] = "relay"
  /\ ~open[e] /\ tcp[e] = <<>>
  /\ Return(e)

RelayFails(e) ==
  /\ phase[e] = "relay"
  /\ ~relay
  /\ Return(e)

Swap(e) ==
  /\ phase[e] = "relay" /\ swap[e] = "ready"
  /\ swap' = [swap EXCEPT ![e] = "taken"]
  /\ Goto(e, "drain")
  /\ UNCHANGED <<gameVars, tcp, pathVars, bufVars, got, netVars>>

(***************************************************************************)
(* Phase 2: the WebSocket is drained; what comes from the QUIC stream and  *)
(* from the game is kept for later.                                        *)
(***************************************************************************)
DrainWs(e) == phase[e] = "drain" /\ WsToGame(e)

\* Mutant of DrainQuic: the chunk goes to the game at once.
DrainQuicThrough(e) ==
  /\ phase[e] = "drain" /\ open[e]
  /\ Move(quic, Other(e), got, e)
  /\ UNCHANGED <<gameVars, tcp, ws, bufVars, phase, swap, netVars, dropped>>

DrainQuic(e) ==
  /\ phase[e] = "drain"
  /\ Move(quic, Other(e), qbuf, e)
  /\ UNCHANGED <<gameVars, tcp, ws, tbuf, got, phase, swap, netVars, dropped>>

DrainTcp(e) ==
  /\ phase[e] = "drain"
  /\ Move(tcp, e, tbuf, e)
  /\ UNCHANGED <<gameVars, pathVars, qbuf, got, phase, swap, netVars>>

\* Mutant of DrainOver: without the deadline.
DrainOverOnEnd(e) ==
  /\ phase[e] = "drain"
  /\ ~relay \/ (~open[e] /\ tcp[e] = <<>>)
  /\ Goto(e, "flush")
  /\ UNCHANGED <<gameVars, tcp, pathVars, bufVars, got, swap, netVars>>

\* Mutant of DrainOver: the buffers are not written out.
DrainOverUnflushed(e) ==
  /\ phase[e] = "drain"
  /\ Goto(e, "quic")
  /\ UNCHANGED <<gameVars, tcp, pathVars, bufVars, got, swap, netVars>>

\* The ways out of the drain loop that go on with QUIC: the deadline, anything on
\* the WebSocket but data (the Pong of an earlier Ping, the end of the relay), the
\* end of the game's connection.
DrainOver(e) ==
  /\ phase[e] = "drain"
  /\ Goto(e, "flush")
  /\ UNCHANGED <<gameVars, tcp, pathVars, bufVars, got, swap, netVars>>

\* Mutant of Flush: tcp_outbound_buffer is forgotten.
FlushHalf(e) ==
  /\ phase[e] = "flush"
  /\ qbuf[e] = <<>> \/ open[e]
  /\ got' = [got EXCEPT ![e] = @ \o qbuf[e]]
  /\ qbuf' = [qbuf EXCEPT ![e] = <<>>]
  /\ tbuf' = [tbuf EXCEPT ![e] = <<>>]
  /\ Goto(e, "quic")
  /\ UNCHANGED <<gameVars, tcp, pathVars, swap, netVars>>

\* Both buffers are written out: quic_buffer to the game, then tcp_outbound_buffer
\* to the stream.
Flush(e) ==
  /\ phase[e] = "flush"
  /\ qbuf[e] = <<>> \/ open[e]
  /\ tbuf[e] = <<>> \/ link # "down"
  /\ got' = [got EXCEPT ![e] = @ \o qbuf[e]]
  /\ qbuf' = [qbuf EXCEPT ![e] = <<>>]
  /\ quic' = [quic EXCEPT ![e] = @ \o tbuf[e]]
  /\ tbuf' = [tbuf EXCEPT ![e] = <<>>]
  /\ Goto(e, "quic")
  /\ UNCHANGED <<gameVars, tcp, ws, swap, netVars, dropped>>

FlushFails(e) ==
  /\ phase[e] = "flush"
  /\ \/ qbuf[e] # <<>> /\ ~open[e]
     \/ tbuf[e] # <<>> /\ link = "down"
  /\ Return(e)

(***************************************************************************)
(* Phase 3: TCP and QUIC.                                                  *)
(***************************************************************************)
QuicSend(e) ==
  /\ phase[e] = "quic"
  /\ Move(tcp, e, quic, e)
  /\ UNCHANGED <<gameVars, ws, bufVars, got, phase, swap, netVars, dropped>>

\* Mutant of QuicReceive: it does not wait for the flush of quic_buffer.
QuicReceiveEarly(e) ==
  /\ phase[e] \in {"flush", "quic"} /\ open[e]
  /\ Move(quic, Other(e), got, e)
  /\ UNCHANGED <<gameVars, tcp, ws, bufVars, phase, swap, netVars, dropped>>

QuicReceive(e) ==
  /\ phase[e] = "quic" /\ open[e]
  /\ Move(quic, Other(e), got, e)
  /\ UNCHANGED <<gameVars, tcp, ws, bufVars, phase, swap, netVars, dropped>>

QuicEof(e) ==
  /\ phase[e] = "quic"
  /\ ~open[e] /\ tcp[e] = <<>>
  /\ Return(e)

\* The stream has ended or failed, while draining or in phase 3.
QuicGone(e) ==
  /\ phase[e] \in {"drain", "quic"}
  /\ link = "down"
  /\ Return(e)

\* A write to the game fails: it has closed its connection.
WriteFails(e) ==
  /\ ~open[e]
  /\ \/ phase[e] \in {"relay", "drain"} /\ ws[Other(e)] # <<>>
     \/ phase[e] = "quic" /\ quic[Other(e)] # <<>>
  /\ Return(e)

\* The application aborts the task of the tunnel.
Abort(e) == phase[e] # "done" /\ Return(e)

Games == \E e \in End : GameSends(e) \/ GameCloses(e)

Faults ==
  \/ \E e \in End : ServerDrops(e) \/ Abort(e)
  \/ RelayBreaks
  \/ LinkBreaks

Bridge(e) ==
  \/ RelaySend(e) \/ RelayReceive(e) \/ RelayEof(e) \/ RelayFails(e)
  \/ Swap(e)
  \/ DrainWs(e) \/ DrainQuic(e) \/ DrainTcp(e)
  \/ DrainOver(e)
  \/ Flush(e) \/ FlushFails(e)
  \/ QuicSend(e) \/ QuicReceive(e) \/ QuicEof(e) \/ QuicGone(e) \/ WriteFails(e)

BridgeNext ==
  \/ Games
  \/ Faults
  \/ Connect
  \/ \E e \in End : Offer(e) \/ Withdraw(e) \/ Bridge(e)

BridgeSpec == BridgeInit /\ [][BridgeNext]_bridgeVars

(***************************************************************************)
(* Properties.                                                             *)
(***************************************************************************)
Chunks(s) == {s[i] : i \in DOMAIN s}

\* Nothing vanishes while both bridges run: what the game at e has sent is with the
\* other game, in a buffer, under way, or was dropped by the server.
NothingVanishes ==
  \A e \in End :
    phase[e] # "done" /\ phase[Other(e)] # "done" =>
      1..sent[e] = dropped[e] \cup UNION {Chunks(q) : q \in {tcp[e], ws[e], tbuf[e], quic[e],
                                                           qbuf[Other(e)], got[Other(e)]}}

\* A game that misses a chunk and has a later one misses what the server dropped, or
\* what was still on the relay when the drain was over.  Nothing else can be lost in
\* the middle of a game.
GapHasCause ==
  \A e \in End : \A j \in Chunks(got[e]) : \A k \in 1..(j - 1) :
    \/ k \in Chunks(got[e]) \cup dropped[Other(e)]
    \/ k \in Chunks(ws[Other(e)]) /\ phase[e] \in {"quic", "done"}

\* The test of the swap (swap_poc.rs) and the list of what is done (TODOS.md): the transport
\* is swapped with zero data loss.  A game that has a chunk has the earlier ones.
NoLoss == \A e \in End : \A j \in Chunks(got[e]) : 1..j \subseteq Chunks(got[e])

\* What the bridges promise: each direction is a stream that is in order and without
\* duplicates, across the move from the relay to QUIC.
Stream == INSTANCE OrderedStream

StreamSpec == Stream!Spec
=============================================================================
