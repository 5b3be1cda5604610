------------------------------ MODULE Tunnel -------------------------------
(***************************************************************************)
(* The tunnels of the server (tunnel.rs): JoinRoom registers a token, the  *)
(* two players connect to /tunnel with it, the handler that comes first    *)
(* waits in a map for the other one, and then both relay frames through    *)
(* one bounded queue each.                                                 *)
(*                                                                         *)
(* The maps have a lock each; a critical section is one action.  A queue   *)
(* ends (recv returns None) when it is empty and nobody holds a sender of  *)
(* it, so the model keeps track of who holds one.                          *)
(***************************************************************************)
EXTENDS Integers

CONSTANTS
  Conn,               \* connections to /tunnel
  Token,              \* tunnel tokens
  TokenOf,            \* TokenOf[c]: the token c presents
  Genuine,            \* the connections from the address its role is bound to
  RELAY_CHANNEL_SIZE,
  None

ASSUME TunnelAssumption ==
  /\ TokenOf \in [Conn -> Token]
  /\ Genuine \subseteq Conn
  /\ RELAY_CHANNEL_SIZE \in Nat \ {0}
  /\ None \notin Conn

VARIABLES
  issuing,   \* tokens whose JoinRoom is between the halves of register_token
  pending,   \* keys of upnp_pending
  stale,     \* those of them older than ten seconds
  bindings,  \* keys of token_bindings
  waiting,   \* waiting[t]: whose WaitingPeer is in the map
  pc,        \* pc[c]: where the handler of c is
  notified,  \* notified[c]: whose sender the oneshot channel of c carries
  peer,      \* peer[c]: the connection whose sender c holds to relay to
  queued,    \* queued[c]: messages in the queue that c forwards to its client
  late,      \* connections that have waited for PAIRING_TIMEOUT
  sweep,     \* where cleanup_expired is
  unpaired   \* expired_tokens of cleanup_expired

registryVars == <<issuing, pending, stale, bindings>>
handlerVars == <<pc, notified, peer, queued, late>>
sweepVars == <<sweep, unpaired>>
vars == <<registryVars, waiting, handlerVars, sweepVars>>

Relaying == {"relayFirst", "relaySecond"}
PC == {"closed", "check", "lookup", "claim", "insert", "wait", "expire"} \cup Relaying

TypeOK ==
  /\ issuing \subseteq Token /\ pending \subseteq Token
  /\ stale \subseteq pending /\ bindings \subseteq Token
  /\ waiting \in [Token -> Conn \cup {None}]
  /\ pc \in [Conn -> PC]
  /\ notified \in [Conn -> Conn \cup {None}]
  /\ peer \in [Conn -> Conn \cup {None}]
  /\ queued \in [Conn -> 0..RELAY_CHANNEL_SIZE]
  /\ late \subseteq Conn
  /\ sweep \in {"waiting", "bindings", "pending"}
  /\ unpaired \subseteq Token

Init ==
  /\ issuing = {} /\ pending = {} /\ stale = {} /\ bindings = {}
  /\ waiting = [t \in Token |-> None]
  /\ pc = [c \in Conn |-> "closed"]
  /\ notified = [c \in Conn |-> None]
  /\ peer = [c \in Conn |-> None]
  /\ queued = [c \in Conn |-> 0]
  /\ late = {}
  /\ sweep = "waiting"
  /\ unpaired = {}

Goto(c, state) == pc' = [pc EXCEPT ![c] = state]

\* A token is a UUID: nothing refers to the one that is drawn.
FreshToken(t) ==
  /\ t \notin issuing \cup pending \cup bindings \cup unpaired
  /\ waiting[t] = None
  /\ \A c \in Conn : TokenOf[c] = t => pc[c] = "closed"

\* A connection, too, is new: its name may be used again when it is over and
\* nobody holds a sender of its queue.
FreshConn(c) ==
  /\ pc[c] = "closed"
  /\ waiting[TokenOf[c]] # c
  /\ \A d \in Conn : c \notin {notified[d], peer[d]}

\* The handler of c returns; its locals are dropped.
Return(c) ==
  /\ Goto(c, "closed")
  /\ notified' = [notified EXCEPT ![c] = None]
  /\ peer' = [peer EXCEPT ![c] = None]
  /\ queued' = [queued EXCEPT ![c] = 0]
  /\ late' = late \ {c}

(***************************************************************************)
(* register_token: two critical sections.  The handler of JoinRoom may be  *)
(* dropped between them.  Clients learn of the token only afterwards.      *)
(***************************************************************************)
RegisterPending(t) ==
  /\ FreshToken(t)
  /\ issuing' = issuing \cup {t}
  /\ pending' = pending \cup {t}
  /\ UNCHANGED <<stale, bindings, waiting, handlerVars, sweepVars>>

RegisterBinding(t) ==
  /\ t \in issuing
  /\ issuing' = issuing \ {t}
  /\ bindings' = bindings \cup {t}
  /\ UNCHANGED <<pending, stale, waiting, handlerVars, sweepVars>>

RegisterDropped(t) ==
  /\ t \in issuing
  /\ issuing' = issuing \ {t}
  /\ UNCHANGED <<pending, stale, bindings, waiting, handlerVars, sweepVars>>

\* lookup_upnp_pending for the host of the token: read once.
LookupUpnpPending(t) ==
  /\ t \in pending
  /\ pending' = pending \ {t}
  /\ stale' = stale \ {t}
  /\ UNCHANGED <<issuing, bindings, waiting, handlerVars, sweepVars>>

(***************************************************************************)
(* handle_tunnel up to the pairing.                                        *)
(***************************************************************************)
Arrive(c) ==
  /\ FreshConn(c)
  /\ Goto(c, "check")
  /\ UNCHANGED <<registryVars, waiting, notified, peer, queued, late, sweepVars>>

CheckBinding(c) ==
  /\ pc[c] = "check"
  /\ Goto(c, IF TokenOf[c] \in bindings /\ c \in Genuine THEN "lookup" ELSE "closed")
  /\ UNCHANGED <<registryVars, waiting, notified, peer, queued, late, sweepVars>>

\* Mutant of TakeWaiting: the entry is read and stays in the map.
TakeWaitingKept(c) ==
  /\ pc[c] = "lookup"
  /\ peer' = [peer EXCEPT ![c] = waiting[TokenOf[c]]]
  /\ Goto(c, IF waiting[TokenOf[c]] = None THEN "insert" ELSE "claim")
  /\ UNCHANGED <<registryVars, waiting, notified, queued, late, sweepVars>>

\* waiting.remove: who was waiting, if anybody, is the peer.
TakeWaiting(c) ==
  /\ pc[c] = "lookup"
  /\ peer' = [peer EXCEPT ![c] = waiting[TokenOf[c]]]
  /\ waiting' = [waiting EXCEPT ![TokenOf[c]] = None]
  /\ Goto(c, IF waiting[TokenOf[c]] = None THEN "insert" ELSE "claim")
  /\ UNCHANGED <<registryVars, notified, queued, late, sweepVars>>

\* The second to arrive: the binding goes, the peer is given my_tx.  It fails
\* if the peer has stopped waiting.
Claim(c) ==
  /\ pc[c] = "claim"
  /\ bindings' = bindings \ {TokenOf[c]}
  /\ \/ /\ pc[peer[c]] = "wait"
        /\ notified' = [notified EXCEPT ![peer[c]] = c]
        /\ Goto(c, "relaySecond")
        /\ UNCHANGED <<peer, queued, late>>
     \/ /\ pc[peer[c]] # "wait"
        /\ Return(c)
  /\ UNCHANGED <<issuing, pending, stale, waiting, sweepVars>>

\* The first to arrive.  HashMap::insert replaces an entry that has been put
\* there since the lookup, and drops it.
InsertWaiting(c) ==
  /\ pc[c] = "insert"
  /\ waiting' = [waiting EXCEPT ![TokenOf[c]] = c]
  /\ Goto(c, "wait")
  /\ UNCHANGED <<registryVars, notified, peer, queued, late, sweepVars>>

\* notify_rx yields the sender of the peer; my_tx is dropped.
Paired(c) ==
  /\ pc[c] = "wait"
  /\ notified[c] # None
  /\ peer' = [peer EXCEPT ![c] = notified[c]]
  /\ notified' = [notified EXCEPT ![c] = None]
  /\ late' = late \ {c}
  /\ Goto(c, "relayFirst")
  /\ UNCHANGED <<registryVars, waiting, queued, sweepVars>>

\* Someone can still notify c: its entry is in the map or in a handler's hands.
Notifiable(c) ==
  \/ waiting[TokenOf[c]] = c
  \/ \E d \in Conn : pc[d] = "claim" /\ peer[d] = c

\* notify_rx fails: the entry was dropped.
Forgotten(c) ==
  /\ pc[c] = "wait"
  /\ notified[c] = None
  /\ ~Notifiable(c)
  /\ Return(c)
  /\ UNCHANGED <<registryVars, waiting, sweepVars>>

\* PAIRING_TIMEOUT since the entry was made.
Lapse(c) ==
  /\ pc[c] = "wait"
  /\ c \notin late
  /\ late' = late \cup {c}
  /\ UNCHANGED <<registryVars, waiting, pc, notified, peer, queued, sweepVars>>

\* Mutant of GiveUp: a waiter whose time is up starts to wait again.
GiveUpAgain(c) ==
  /\ pc[c] = "wait"
  /\ c \in late
  /\ late' = late \ {c}
  /\ UNCHANGED <<registryVars, waiting, pc, notified, peer, queued, sweepVars>>

\* The sleep of the select! ends; what notify_rx holds is dropped.
GiveUp(c) ==
  /\ pc[c] = "wait"
  /\ c \in late
  /\ notified' = [notified EXCEPT ![c] = None]
  /\ Goto(c, "expire")
  /\ UNCHANGED <<registryVars, waiting, peer, queued, late, sweepVars>>

\* Mutant of RemoveWaiting: the entry is left to the cleanup.
RemoveWaitingNot(c) ==
  /\ pc[c] = "expire"
  /\ Return(c)
  /\ UNCHANGED <<registryVars, waiting, sweepVars>>

\* waiting.remove, whosever entry it is.
RemoveWaiting(c) ==
  /\ pc[c] = "expire"
  /\ waiting' = [waiting EXCEPT ![TokenOf[c]] = None]
  /\ Return(c)
  /\ UNCHANGED <<registryVars, sweepVars>>

(***************************************************************************)
(* relay: frames are counted, not looked at.                               *)
(***************************************************************************)
\* Mutant of Senders: the first to arrive keeps my_tx as well.
SendersBoth(c) ==
  {d \in Conn : c \in {peer[d], notified[d]}} \cup
  (IF pc[c] \in Relaying THEN {c} ELSE {})

\* Who holds a sender of the queue of c while c relays: its peer, the oneshot
\* channel of its peer, and c itself if it came second.
Senders(c) ==
  {d \in Conn : c \in {peer[d], notified[d]}} \cup
  (IF pc[c] = "relaySecond" THEN {c} ELSE {})

\* Mutant of Receive: the queue has no bound.
ReceiveUnbounded(c) ==
  /\ pc[c] \in Relaying
  /\ pc[peer[c]] # "closed"
  /\ queued' = [queued EXCEPT ![peer[c]] = @ + 1]
  /\ UNCHANGED <<registryVars, waiting, pc, notified, peer, late, sweepVars>>

\* A frame of the client goes to the peer's queue, unless the queue is full or
\* gone, or the rate limit is exceeded: then it is dropped and nothing changes.
Receive(c) ==
  /\ pc[c] \in Relaying
  /\ pc[peer[c]] # "closed"
  /\ queued[peer[c]] < RELAY_CHANNEL_SIZE
  /\ queued' = [queued EXCEPT ![peer[c]] = @ + 1]
  /\ UNCHANGED <<registryVars, waiting, pc, notified, peer, late, sweepVars>>

Forward(c) ==
  /\ pc[c] \in Relaying
  /\ queued[c] > 0
  /\ queued' = [queued EXCEPT ![c] = @ - 1]
  /\ UNCHANGED <<registryVars, waiting, pc, notified, peer, late, sweepVars>>

\* rx.recv() returns None.
PeerGone(c) ==
  /\ pc[c] \in Relaying
  /\ queued[c] = 0 /\ Senders(c) = {}
  /\ Return(c)
  /\ UNCHANGED <<registryVars, waiting, sweepVars>>

\* The client closes, a socket fails or the tunnel was idle for too long.
Leave(c) ==
  /\ pc[c] \in Relaying
  /\ Return(c)
  /\ UNCHANGED <<registryVars, waiting, sweepVars>>

(***************************************************************************)
(* cleanup_expired: three critical sections.                               *)
(***************************************************************************)
Age(t) ==
  /\ t \in pending \ stale
  /\ stale' = stale \cup {t}
  /\ UNCHANGED <<issuing, pending, bindings, waiting, handlerVars, sweepVars>>

\* Mutant of CleanWaiting: returns early when nobody has waited too long.
CleanWaitingOnly ==
  /\ sweep = "waiting"
  /\ unpaired' = {t \in Token : waiting[t] \in late}
  /\ waiting' = [t \in Token |-> IF t \in unpaired' THEN None ELSE waiting[t]]
  /\ sweep' = IF unpaired' = {} THEN "waiting" ELSE "bindings"
  /\ UNCHANGED <<registryVars, handlerVars>>

CleanWaiting ==
  /\ sweep = "waiting"
  /\ unpaired' = {t \in Token : waiting[t] \in late}
  /\ waiting' = [t \in Token |-> IF t \in unpaired' THEN None ELSE waiting[t]]
  /\ sweep' = IF unpaired' = {} THEN "pending" ELSE "bindings"
  /\ UNCHANGED <<registryVars, handlerVars>>

CleanBindings ==
  /\ sweep = "bindings"
  /\ bindings' = bindings \ unpaired
  /\ unpaired' = {}
  /\ sweep' = "pending"
  /\ UNCHANGED <<issuing, pending, stale, waiting, handlerVars>>

CleanPending ==
  /\ sweep = "pending"
  /\ pending' = pending \ stale
  /\ stale' = {}
  /\ sweep' = "waiting"
  /\ UNCHANGED <<issuing, bindings, waiting, handlerVars, unpaired>>

(***************************************************************************)
(* Specification.                                                          *)
(***************************************************************************)
Registry ==
  \E t \in Token :
    \/ RegisterPending(t) \/ RegisterBinding(t) \/ RegisterDropped(t)
    \/ LookupUpnpPending(t)
    \/ Age(t)

\* The steps a handler takes by itself.
Handler(c) ==
  \/ CheckBinding(c) \/ TakeWaiting(c) \/ Claim(c) \/ InsertWaiting(c)
  \/ Paired(c) \/ Forgotten(c) \/ GiveUp(c) \/ RemoveWaiting(c)
  \/ Forward(c) \/ PeerGone(c)

Client(c) == Arrive(c) \/ Receive(c) \/ Leave(c)

Cleanup == CleanWaiting \/ CleanBindings \/ CleanPending

Next ==
  \/ Registry
  \/ \E c \in Conn : Handler(c) \/ Client(c) \/ Lapse(c)
  \/ Cleanup

Spec == Init /\ [][Next]_vars

\* The runtime polls every task, clocks run and the cleanup is on a timer.
\* Clients need not send, close or come at all.
Fairness ==
  /\ \A c \in Conn : WF_vars(Handler(c)) /\ WF_vars(Lapse(c))
  /\ \A t \in Token : WF_vars(Age(t))
  /\ WF_vars(Cleanup)

FairSpec == Spec /\ Fairness

(***************************************************************************)
(* Safety.                                                                 *)
(***************************************************************************)
\* An entry of the waiting map belongs to a handler with that token that waits
\* or has just given up: a peer taken from the map is never a stranger.
WaitersWait ==
  \A t \in Token : waiting[t] # None =>
    pc[waiting[t]] \in {"wait", "expire"} /\ TokenOf[waiting[t]] = t

\* The two ends of a relay have the same token and nobody else sends to either
\* of them, although they learn of each other at different times and either may
\* have left by then.
RelaysPair ==
  \A c, d \in Conn :
    /\ c # d /\ peer[c] # None => peer[c] # peer[d]
    /\ peer[c] = d => c # d /\ TokenOf[c] = TokenOf[d]
    /\ peer[c] = d /\ {pc[c], pc[d]} \subseteq Relaying => peer[d] = c
    /\ pc[c] \in Relaying => peer[c] # None

(***************************************************************************)
(* Liveness, under Fairness.                                               *)
(***************************************************************************)
\* When the second to arrive leaves, the first one is told: it gave up its own
\* sender, so its queue ends, also while its client keeps on sending.
FirstSeesTheEnd ==
  \A c \in Conn :
    (pc[c] = "relayFirst" /\ pc[peer[c]] = "closed") ~> (pc[c] = "closed")

\* Nobody waits for ever, whatever happens to the entry in the map.
WaitEnds ==
  \A c \in Conn : (pc[c] = "wait") ~> (pc[c] # "wait")

\* A UPnP request is pending for a bounded time only, answered or not.
PendingEnds ==
  \A t \in Token : (t \in pending) ~> (t \notin pending)
=============================================================================
