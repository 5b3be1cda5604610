----------------------------- MODULE ConnSlots -----------------------------
(***************************************************************************)
(* The front door of the server (main.rs): a request for a WebSocket is    *)
(* checked for its origin and takes one of the slots of its IP address     *)
(* before the connection is upgraded; the slot is released when the        *)
(* handler of the connection returns.  The two routes, /ws and /tunnel,    *)
(* work alike, each with a map of its own (state.rs, tunnel.rs); this is   *)
(* either of them.                                                         *)
(***************************************************************************)
EXTENDS Integers, FiniteSets

CONSTANTS
  Conn,      \* requests
  IP,        \* addresses, of clients and in the X-Real-IP header
  Loopback,  \* the address of nginx
  NoHeader,  \* no X-Real-IP header, or one that is not an address
  MaxPerIp   \* MAX_CONNECTIONS_PER_IP, MAX_TUNNEL_CONNECTIONS_PER_IP

ASSUME SlotAssumption ==
  /\ IsFiniteSet(Conn)
  /\ NoHeader \notin IP
  /\ MaxPerIp \in Nat \ {0}

VARIABLES
  stage,  \* stage[c]: how far the request has come
  from,   \* from[c]: client_ip
  slots   \* connections_per_ip: a map with an entry for some of the addresses

slotVars == <<stage, from, slots>>

Address == IP \cup {Loopback}
Stage == {"new", "denied", "refused", "accepted", "open", "ended", "closed", "lost"}
Holding == {"accepted", "open", "ended", "lost"}   \* the request has a slot

SlotsTypeOK ==
  /\ stage \in [Conn -> Stage]
  /\ from \in [Conn -> Address]
  /\ \E S \in SUBSET Address : slots \in [S -> 1..MaxPerIp]

SlotsInit ==
  /\ stage = [c \in Conn |-> "new"]
  /\ from = [c \in Conn |-> Loopback]
  /\ slots = [a \in {} |-> 0]

\* The header counts only if it comes from nginx.
RealIp(addr, header) == IF addr = Loopback /\ header # NoHeader THEN header ELSE addr

Count(a) == IF a \in DOMAIN slots THEN slots[a] ELSE 0

\* The map with n for a; an entry that comes down to zero is removed.
WithCount(a, n) ==
  IF n = 0 THEN [b \in DOMAIN slots \ {a} |-> slots[b]]
           ELSE [b \in DOMAIN slots \cup {a} |-> IF b = a THEN n ELSE slots[b]]

Deny(c) ==
  /\ stage[c] = "new"
  /\ stage' = [stage EXCEPT ![c] = "denied"]
  /\ UNCHANGED <<from, slots>>

Refuse(c, a) ==
  /\ stage[c] = "new" /\ Count(a) >= MaxPerIp
  /\ stage' = [stage EXCEPT ![c] = "refused"]
  /\ from' = [from EXCEPT ![c] = a]
  /\ UNCHANGED slots

Accept(c, a) ==
  /\ stage[c] = "new" /\ Count(a) < MaxPerIp
  /\ stage' = [stage EXCEPT ![c] = "accepted"]
  /\ from' = [from EXCEPT ![c] = a]
  /\ slots' = WithCount(a, Count(a) + 1)

\* A request with an origin that may connect, or without one.
Request(c) ==
  \E addr \in Address, header \in IP \cup {NoHeader} :
    Refuse(c, RealIp(addr, header)) \/ Accept(c, RealIp(addr, header))

Move(c, s, t) ==
  /\ stage[c] = s
  /\ stage' = [stage EXCEPT ![c] = t]
  /\ UNCHANGED <<from, slots>>

Upgrade(c) == Move(c, "accepted", "open")

HandlerReturns(c) == Move(c, "open", "ended")

\* The upgrade never comes, so that the closure of on_upgrade never runs, or the
\* handler panics: the release after it is not reached.
Lose(c) == Move(c, "accepted", "lost") \/ Move(c, "open", "lost")

\* Mutant of Release: an address without connections keeps its entry.
ReleaseKeepsEntry(c) ==
  /\ stage[c] = "ended"
  /\ stage' = [stage EXCEPT ![c] = "closed"]
  /\ slots' = [slots EXCEPT ![from[c]] = @ - 1]
  /\ UNCHANGED from

Release(c) ==
  /\ stage[c] = "ended"
  /\ stage' = [stage EXCEPT ![c] = "closed"]
  /\ slots' = IF from[c] \in DOMAIN slots THEN WithCount(from[c], slots[from[c]] - 1) ELSE slots
  /\ UNCHANGED from

SlotsNext ==
  \E c \in Conn :
    Deny(c) \/ Request(c) \/ Upgrade(c) \/ HandlerReturns(c) \/ Lose(c) \/ Release(c)

SlotsSpec == SlotsInit /\ [][SlotsNext]_slotVars

Holders(a) == {c \in Conn : stage[c] \in Holding /\ from[c] = a}

\* The map says exactly how many requests of each address hold a slot, never more than
\* the limit, and has no entry for an address with none: a slot that is not given back, or
\* given back twice, and an entry that stays behind would show here.
SlotsExact ==
  /\ \A a \in Address : Count(a) = Cardinality(Holders(a)) /\ Count(a) <= MaxPerIp
  /\ \A a \in DOMAIN slots : Holders(a) # {}
=============================================================================
