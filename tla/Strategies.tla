----------------------------- MODULE Strategies -----------------------------
(***************************************************************************)
(* The two tunnel tasks of one game (run_host_tunnel, run_joiner_tunnel)   *)
(* and the background tasks they spawn: the host opens a QUIC endpoint and *)
(* a UPnP port mapping, the joiner tries the host's address and the mapped *)
(* one at the same time, and the two agree on the stream with READY and    *)
(* ACK before their bridges move to it.  Extends SwapBridge, whose         *)
(* environment this is.                                                    *)
(*                                                                         *)
(* The diagnostics that the tasks report (StrategyResults) are left out.   *)
(***************************************************************************)
EXTENDS SwapBridge

Path == {"direct", "upnp"}
OtherPath(p) == IF p = "direct" THEN "upnp" ELSE "direct"

VARIABLES
  task,       \* task[e]: whether the tunnel task of e has reached its bridge
  hs,         \* where background_quic_host is
  js,         \* where background_quic_joiner is
  path,       \* path[p]: the attempt of the joiner on path p
  ready, ack, \* SWAP_READY and SWAP_ACK are on the stream
  upnp        \* the host's router has mapped the port

raceVars == <<js, path>>
signalVars == <<ready, ack>>
strategyVars == <<task, hs, raceVars, signalVars, upnp>>
allVars == <<bridgeVars, strategyVars>>

Attempt == {"none", "waiting", "trying", "up", "failed", "dropped"}

StrategyTypeOK ==
  /\ task \in [End -> {"setup", "bridge"}]
  /\ hs \in {"off", "bind", "accept", "stream", "handshake", "offer", "done"}
  /\ js \in {"off", "race", "handshake", "done"}
  /\ path \in [Path -> Attempt]
  /\ ready \in BOOLEAN /\ ack \in BOOLEAN
  /\ upnp \in BOOLEAN

TypeOK == BridgeTypeOK /\ BuffersFlushed /\ StrategyTypeOK

Init ==
  /\ BridgeInit
  /\ task = [e \in End |-> "setup"]
  /\ hs = "off" /\ js = "off"
  /\ path = [p \in Path |-> "none"]
  /\ ready = FALSE /\ ack = FALSE
  /\ upnp = FALSE

(***************************************************************************)
(* run_joiner_tunnel, run_host_tunnel.                                     *)
(***************************************************************************)
\* One of the steps before the bridge fails: the port is taken, the server cannot
\* be reached, Warcraft does not answer or does not come within two minutes.
SetupFails(e) ==
  /\ task[e] = "setup" /\ phase[e] # "done"
  /\ Return(e)
  /\ UNCHANGED strategyVars

\* The WebSocket to the relay and the TCP connection to Warcraft are open.
HostStarts ==
  /\ task["host"] = "setup" /\ phase["host"] # "done"
  /\ task' = [task EXCEPT !["host"] = "bridge"]
  /\ hs' = "bind"
  /\ UNCHANGED <<bridgeVars, raceVars, signalVars, upnp>>

\* Without the host's address (StunInfo) only the UPnP path is tried.
JoinStarts ==
  /\ task["join"] = "setup" /\ phase["join"] # "done"
  /\ task' = [task EXCEPT !["join"] = "bridge"]
  /\ js' = "race"
  /\ \E direct \in {"trying", "none"} : path' = [direct |-> direct, upnp |-> "waiting"]
  /\ UNCHANGED <<bridgeVars, hs, signalVars, upnp>>

BridgeStep(e) ==
  /\ task[e] = "bridge"
  /\ Bridge(e)
  /\ UNCHANGED strategyVars

\* The games talk to the bridges once those are there.
GameStep(e) ==
  /\ task[e] = "bridge"
  /\ GameSends(e) \/ GameCloses(e)
  /\ UNCHANGED strategyVars

Fault == Faults /\ UNCHANGED strategyVars

(***************************************************************************)
(* background_quic_host.                                                   *)
(***************************************************************************)
HostBinds ==
  /\ hs = "bind"
  /\ hs' = "accept"
  /\ UNCHANGED <<bridgeVars, task, raceVars, signalVars, upnp>>

HostGivesUp ==
  /\ hs' = "done"
  /\ Withdraw("host")
  /\ UNCHANGED <<task, raceVars, signalVars, upnp>>

HostBindFails == hs = "bind" /\ HostGivesUp

AcceptTimeout == hs = "accept" /\ HostGivesUp

\* accept_bi returns once the joiner has written to the stream.
HostStream ==
  /\ hs = "stream" /\ ready
  /\ hs' = "handshake"
  /\ UNCHANGED <<bridgeVars, task, raceVars, signalVars, upnp>>

\* Mutant of HostHandshakeFails: the three seconds cover the hand-over to the bridge.
HostFailsLate ==
  /\ \/ hs = "stream" /\ link = "down"
     \/ hs \in {"handshake", "offer"}
  /\ HostGivesUp

\* The connection is lost, or the three seconds are over.
HostHandshakeFails ==
  /\ \/ hs = "stream" /\ link = "down"
     \/ hs = "handshake"
  /\ HostGivesUp

\* READY is read, ACK written.
HostAcks ==
  /\ hs = "handshake" /\ link = "up"
  /\ hs' = "offer"
  /\ ack' = TRUE
  /\ UNCHANGED <<bridgeVars, task, raceVars, ready, upnp>>

HostOffers ==
  /\ hs = "offer"
  /\ hs' = "done"
  /\ Offer("host")
  /\ UNCHANGED <<task, raceVars, signalVars, upnp>>

\* The gateway is found, is not behind a carrier-grade NAT, and maps the port.  The
\* task is spawned once the endpoint is bound, so it outlives everything else.
UpnpMaps ==
  /\ hs \notin {"off", "bind"} /\ ~upnp
  /\ upnp' = TRUE
  /\ UNCHANGED <<bridgeVars, task, hs, raceVars, signalVars>>

(***************************************************************************)
(* background_quic_joiner.                                                 *)
(***************************************************************************)
\* The mapped address has come through both applications and the server, where it
\* may also have been lost.
AddrArrives ==
  /\ js = "race" /\ path["upnp"] = "waiting" /\ upnp
  /\ path' = [path EXCEPT !["upnp"] = "trying"]
  /\ UNCHANGED <<bridgeVars, task, hs, js, signalVars, upnp>>

\* The application drops the sender of the address when a tunnel has ended, or replaces it
\* for the next one, which may be while this task still runs.
SenderDropped ==
  /\ js = "race" /\ path["upnp"] = "waiting"
  /\ path' = [path EXCEPT !["upnp"] = "failed"]
  /\ UNCHANGED <<bridgeVars, task, hs, js, signalVars, upnp>>

\* The host takes one connection, whichever path it comes on.
Connected(p) ==
  /\ js = "race" /\ hs = "accept"
  /\ path[p] = "trying"
  /\ path' = [path EXCEPT ![p] = "up"]
  /\ hs' = "stream"
  /\ Connect
  /\ UNCHANGED <<task, js, signalVars, upnp>>

TryFails(p) ==
  /\ js = "race" /\ path[p] = "trying"
  /\ path' = [path EXCEPT ![p] = "failed"]
  /\ UNCHANGED <<bridgeVars, task, hs, js, signalVars, upnp>>

\* select! takes a path that has finished and drops the other one.
Take(p) ==
  path' = [path EXCEPT ![OtherPath(p)] =
             IF @ \in {"waiting", "trying", "up"} THEN "dropped" ELSE @]

TakeUp(p) ==
  /\ js = "race" /\ path[p] = "up"
  /\ Take(p)
  /\ js' = "handshake"
  /\ ready' = TRUE
  /\ UNCHANGED <<bridgeVars, task, hs, ack, upnp>>

\* Mutant of TakeFailed: the connection of the dropped path stays open.
TakeFailedKeepsLink(p) ==
  /\ js = "race" /\ path[p] = "failed"
  /\ Take(p)
  /\ js' = "done"
  /\ swap' = [swap EXCEPT !["join"] = "closed"]
  /\ UNCHANGED <<gameVars, tcp, pathVars, bufVars, got, phase, netVars,
                 task, hs, signalVars, upnp>>

TakeFailed(p) ==
  /\ js = "race" /\ path[p] = "failed"
  /\ Take(p)
  /\ js' = "done"
  /\ Withdraw("join")
  /\ UNCHANGED <<task, hs, signalVars, upnp>>

JoinAcked ==
  /\ js = "handshake" /\ ack /\ link = "up"
  /\ js' = "done"
  /\ Offer("join")
  /\ UNCHANGED <<task, hs, path, signalVars, upnp>>

\* The connection is lost, or the three seconds are over.
JoinHandshakeFails ==
  /\ js = "handshake"
  /\ js' = "done"
  /\ Withdraw("join")
  /\ UNCHANGED <<task, hs, path, signalVars, upnp>>

HostTask == HostBinds \/ HostBindFails \/ AcceptTimeout \/ HostStream \/ HostHandshakeFails \/ HostAcks \/ HostOffers
JoinTask ==
  \/ AddrArrives \/ SenderDropped
  \/ \E p \in Path : Connected(p) \/ TryFails(p) \/ TakeUp(p) \/ TakeFailed(p)
  \/ JoinAcked \/ JoinHandshakeFails

TunnelTask(e) == SetupFails(e) \/ BridgeStep(e)

Next ==
  \/ \E e \in End : TunnelTask(e) \/ GameStep(e)
  \/ HostStarts \/ JoinStarts
  \/ HostTask \/ UpnpMaps \/ JoinTask
  \/ Fault

Spec == Init /\ [][Next]_allVars

\* A bridge that has left the relay goes on by itself: the deadline of the drain, the
\* flush (the games read what is written to them), a connection that is down.
BridgeTimers(e) ==
  /\ DrainOver(e) \/ Flush(e) \/ FlushFails(e) \/ QuicGone(e)
  /\ UNCHANGED strategyVars

\* Every wait of the joiner's strategies has a deadline, but the one for the mapped
\* address.
JoinTimers == (\E p \in Path : TryFails(p) \/ TakeUp(p) \/ TakeFailed(p)) \/ JoinHandshakeFails

\* Tasks that can go on do.  Nothing makes the network or the games act.
Fairness ==
  /\ \A e \in End : WF_allVars(BridgeTimers(e))
  /\ WF_allVars(HostTask)
  /\ WF_allVars(JoinTimers)

FairSpec == Spec /\ Fairness

\* Nothing fails but the strategies, and nobody ends the game.
CalmNext ==
  \/ \E e \in End : BridgeStep(e) \/ (GameStep(e) /\ open' = open)
  \/ HostStarts \/ JoinStarts
  \/ HostTask \/ UpnpMaps \/ JoinTask

CalmSpec == Init /\ [][CalmNext]_allVars

(***************************************************************************)
(* Properties.                                                             *)
(***************************************************************************)
\* The two tasks never leave the joiner alone on the QUIC stream: once its bridge has
\* been given the stream, the host's has it too, is about to be given it, or has ended.
JoinerNotAlone ==
  swap["join"] \in {"ready", "taken"} =>
    \/ hs = "offer"
    \/ swap["host"] \in {"ready", "taken"}
    \/ phase["host"] = "done"

\* When one end of a game that runs on QUIC has ended, so does the other.
EndsTogether == \A e \in End : []<>~(phase[Other(e)] = "done" /\ phase[e] \in Swapped)

\* A drain is over some time, however long the other side goes on sending.
DrainEnds == \A e \in End : []<>(phase[e] # "drain")

\* The background tasks end, whatever the network and the other side do: the host's
\* once it is started, the joiner's if it knows the host's address.
StrategiesEnd ==
  /\ []<>(hs \in {"off", "done"})
  /\ []<>(js \in {"off", "done"} \/ path["direct"] = "none")

\* quic.rs, the comment of the module: when QUIC fails, the caller falls back to the
\* relay.  While nothing but the strategies fails, no bridge ends.
FallsBackToRelay == \A e \in End : phase[e] # "done"
=============================================================================
