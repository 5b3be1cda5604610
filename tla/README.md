# War3 battle tool: formal model

`war3-battle-tool` lets Warcraft III players find each other over the internet.
A **server** keeps a lobby of players and rooms and relays game traffic through
WebSocket tunnels. A **client** shows the lobby, announces the host's game in the
joiner's LAN, and carries the game's TCP connection over a tunnel: first the
WebSocket relay of the server, later, if it can be had, a QUIC connection between
the two players. This directory holds TLA+ modules of both, at the grain of their
critical sections and of the events they handle, TLC configurations that check
them on small instances, and proofs for every instance.

Paths below are relative to `src/crates/`.

## Inventory

| component | state | operations | hard parts | module |
|---|---|---|---|---|
| lobby (`server/src/state.rs`, `ws.rs`, `main.rs`) | `players`, `rooms`: two maps, a `RwLock` each | Register, Heartbeat, CreateRoom, CloseRoom, JoinRoom, end of a connection, cleanup task | a request takes several critical sections; `select!` drops a handler at any await; the cleanup task works on ids it collected earlier | `Lobby` |
| lobby feed (`state.rs` `broadcast_state`) | one bounded queue per connection | snapshot under both read locks, `try_send` | dropped messages, order with respect to Welcome | `LobbyFeed` |
| tunnel registry, pairing and relay (`server/src/tunnel.rs`) | `waiting`, `token_bindings`, `upnp_pending`; two bounded channels per relay | register_token, handle_tunnel, UPnPMapped, cleanup_expired, forward, close | check-then-insert between two arrivals, a timeout that races an arrival, who holds which sender | `Tunnel` |
| slots per IP (`state.rs`, `tunnel.rs`, `main.rs`) | a counter per address | try_acquire, upgrade, release | an upgrade that never runs; counters against connections | `ConnSlots` |
| rate limiter (`ws.rs`) | window start, tokens | allow | window boundary | `RateLimit` |
| GAMEINFO parser (`protocol/src/war3.rs`) | none | decode_stat_string, parse_gameinfo | masks every eighth byte, packets cut off by the buffer | `Gameinfo` |
| network task of the client (`client/src/net/discovery.rs`) | a session, a command channel | connect, send, heartbeat, reconnect | commands that outlive their session; a new player id while the old one is in its grace period | `ClientApp` |
| client application (`client/src/app.rs`, `ui/lobby.rs`) | pending action, registration, tunnel handle, injection | server messages, tunnel events, clicks | events of an earlier session or of a replaced task, answers that cannot be told apart | `ClientApp` |
| client bridge (`client/src/net/tunnel.rs`) | two buffers, the transport in use | relay, swap, drain, flush, QUIC | order of bytes when the two ends swap at different times | `SwapBridge` |
| QUIC and UPnP tasks (`tunnel.rs`, `net/quic.rs`) | who has reached which step | bind, map, race of two paths, READY/ACK | timeouts at one end only; the first path to finish wins | `Strategies` |
| log panel (`client/src/ui/log_panel.rs`) | ring buffer, cached indices | push, clear, filter, search | indices that shift | `LogPanel` |
| injection, configuration, logging, drawing, spikes, web page | - | I/O | see "Not modelled" | - |

The lobby and the tunnels meet in `JoinRoom`, which registers a token with the
tunnel registry and sends it to both players, and in `UPnPMapped`; the cleanup task
serves both. A client talks to the server through messages only: its network task
sends commands and hands on what comes back as events, which the application handles
once per frame together with the events of its tunnel tasks. A tunnel task pairs with
that of the other player at the server and gets its QUIC stream, if any, through a
channel from a background task. `PROJECT.json` lists the hazards by source line and
the properties that would catch them. What makes each component correct:

* lobby: no seat is handed out twice or given back twice, a host and its room name
  each other, one room per host, members play the host's version, whoever has gone is
  removed with its room.
* feed: a client that keeps up shows the current lobby.
* tunnels: a relay has two ends that have each other, nobody waits for ever, an end
  learns of the other's departure.
* slots per IP: the counter equals the connections that hold a slot.
* rate limiter: never more than twice the limit in a second.
* parser: it reads what the game wrote, or nothing.
* client application: it takes itself for registered only while it is; it sends no more
  Registers than there are sessions; no spinner stays; a tunnel or an injection outlives its cause only in ways
  that are known.
* client bridge: each game receives the other's bytes in order and once, across the
  swap, and what is missing was lost in one of two known places.
* QUIC tasks: the two ends leave the relay together or not at all, every background
  task ends, a game that has ended at one end ends at the other.

## Modules

| module | what it is |
|---|---|
| `Lobby` | the lobby: state, one action per critical section, safety and liveness properties |
| `LobbyInv` | its inductive invariant, what it has besides while no handler is cut short, and the refinement mapping to `RoomSeats` |
| `RoomSeats` | abstract specification: seats of rooms, without players, handlers or locks |
| `LobbyFeed` | composes `Lobby` with `broadcast_state`: what each client is shown |
| `Tunnel`, `TunnelInv` | the tunnels: token registry, pairing, relay and their cleanup; the inductive invariant |
| `SwapBridge` | both bridges of a game and the paths between them |
| `OrderedStream` | abstract specification of `SwapBridge`: in order, at most once, per direction |
| `Strategies` | extends `SwapBridge` with the tasks that make the QUIC connection |
| `ClientApp` | the network task and the application |
| `ConnSlots`, `RateLimit`, `Gameinfo`, `LogPanel` | parts that stand on their own |
| `MCLobby`, `MCLobbyFeed`, `MCTunnel`, `MCStrategies`, `MCParts` | instances for TLC |
| `LobbyProofs`, `FeedProofs`, `TunnelProofs`, `SwapProofs`, `ClientProofs`, `LogPanelProofs`, `GameinfoProofs`, `ServerPartsProofs` (slots and rate limiter) | the proofs |

Operators named after another one with a suffix and commented "Mutant of" are
variants of the code with a defect; no specification uses them. They show that
the property listed with them in `PROJECT.json` can fail.

### Lobby: how state and actions correspond to the code

* `players`, `hosting`, `joined`, `disconnected` are the keys and the fields
  `hosting_room`, `joined_room`, `disconnected_at.is_some()` of
  `AppState.players`; `rooms`, `rhost`, `rcount`, `rmax` are the keys and the
  fields of `AppState.rooms`. Names, addresses, maps and GAMEINFO are left out.
* Clocks are reduced to `stale[p]`: the timeout that applies to the player (no
  heartbeat for `HEARTBEAT_TIMEOUT`, or `GRACE_PERIOD` since the disconnect) has
  run out. `Lapse` sets it at any time; a heartbeat and `mark_disconnected`
  restart the clock.
* `pc[c]` is where the handler of connection `c` is: which lock it waits for.
  `target[c]` and `peer[c]` are its local variables. Each lock acquisition is an
  await, so `Disconnect` may drop the handler there (the `select!` of
  `handle_socket` ends when the sending task fails or a viewer's time is up).
  Between the release of the write lock in Register and the queueing of Welcome
  there is no await but another task may run, hence the state `"welcome"`, at
  which a handler is not dropped.
* The cleanup task is `sweep`, `expired` (the ids collected by `find_expired`)
  and `reapHost`, `reapJoin` (the fields of the entry that `remove_player` has
  taken out, before it locks the rooms).
* Ids are UUIDs. `FreshConn` and `FreshRoom` let an id be used again only when
  nothing refers to it, so two or three ids stand for an endless supply. A stale
  `joined_room` or an orphaned room keeps its id in use, which can exhaust a
  finite instance; `OutOfIds` in the MC modules marks exactly those states, and
  every other deadlock is still an error.
* Requests answered with an error and no change of state are not steps.
  `JOIN_COOLDOWN`, the rate limiter and message sizes only delay or reject
  requests; every request may come at any time in the model.
* The receiver side of messages is in `LobbyFeed`; step 4 of JoinRoom
  (`JoinToken`) only hands a token out.

### LobbyFeed

`broadcast_state` holds both read locks while it builds the lists and offers
them to the queues, so it is one action. `lostP` and `lostR` are the players
whose queue is full. Queues are FIFO and every list replaces the one before, so
what a client shows once it has drained its queue is the last list accepted;
the model keeps that list.

### Tunnel: how state and actions correspond to the code

* `bindings`, `pending` and the domain of `waiting` are the keys of
  `token_bindings`, `upnp_pending` and `waiting` of `TunnelState`; `stale` and
  `late` say which entries of the latter two are past their time.
  `waiting[t] = c` is the `WaitingPeer` of the handler of `c`: its `my_tx` and its
  `notify` sender.
* `pc[c]` is where `handle_tunnel` is: `check` (binding), `lookup` (first lock of
  `waiting`), then `claim` for the second to arrive, or `insert` and `wait` for
  the first; `expire` is the arm of the `select!` that has timed out and waits for
  the lock. The task of an upgraded socket is never cancelled, and nobody reads the
  socket while it waits, so a client's departure shows only during the relay.
* Queues end when nobody holds a sender. `peer[c]` is the `peer_tx` that the
  handler of `c` holds, `notified[c]` the sender in its oneshot channel, and
  `Senders(c)` everyone who holds a sender of `my_rx` of `c` during the relay. The
  second to arrive holds one itself: `my_tx` is cloned at line 207 and never
  dropped. The first drops its own at line 264.
* `queued[c]` counts the frames in the queue of `c`. A frame that is dropped (full
  queue, byte rate limit) changes nothing. The end of the relay by a close frame,
  an error or the idle timer is `Leave`; by the end of the queue, `PeerGone`.
* `CheckBinding` reduces `verify_ip` to membership in `Genuine`: the connections
  whose address is the one bound to the role they give. The role is not used
  afterwards, so two connections of one side can be paired; the model has that.
* `cleanup_expired` locks the three maps one after the other, with the tokens it
  collected in `unpaired`.

### SwapBridge: how state and actions correspond to the code

* One module holds both ends, because what can go wrong lies between them. What one
  read returns is a chunk, and the chunks of a game are numbered.
* `tcp`, `ws`, `quic` are the connections: FIFOs, reliable except that the server may
  drop any frame of `ws` (`ServerDrops`: full queue, byte rate limit). `tbuf` and
  `qbuf` are `tcp_outbound_buffer` and `quic_buffer`; `got` is what the game has been
  written. `phase` is the place in `bridge_tcp_ws_with_swap`: the first loop, the
  drain loop, the two writes after it, the QUIC copy, returned.
* `swap` is the oneshot channel: open, with a stream in it, taken, or closed without one.
* Every arm of a `select!` is an action. The arms that leave the drain loop and go on
  with QUIC are one action, `DrainOver`, which is always possible: the deadline may
  have passed. Everything that makes the function return is `Return`; it drops the
  sockets, so the relay goes down at both ends (the server closes the other side) and
  so does a QUIC stream that the bridge holds.
* `Connect`, `Offer` and `Withdraw` are the environment in `SwapBridge` and parts of
  steps in `Strategies`.

### Strategies

* `task` is the part of `run_host_tunnel` and `run_joiner_tunnel` before the bridge,
  with one action for all its failures. `hs` and `js` are the background tasks, one
  value per await; `path` is the state of the two attempts that the joiner races,
  `upnp` the port mapping, `ready` and `ack` the two handshake messages.
* Timeouts are actions that are always possible while the wait lasts. The host's
  deadline for the ACK does not cover the hand-over (`HostOffers`), as in the code.
* `select!` takes whichever attempt has finished, even when it has failed, and drops
  the other: `TakeUp`, `TakeFailed`.

### ClientApp

* `cmdQ`, `evQ`, `evT` are the channels: commands, NetEvents, TunnelEvents. Only the
  first survives a session. The server is reduced to what it knows of this client
  (`srv`, `srvRoom`), and its treatment of a command and the answer are one step;
  `Evict` and `Others` are what it does unasked (a heartbeat or ping too many is answered
  with an Error). Any command may be refused (`ServerRefuses`: the rate limiter,
  `validate`, a cap). `Answer` drops what finds the queue of the connection full: every
  part of an answer may be missing, and `lost` remembers that one was since the last click.
* The lists may reach a new player before its Welcome (`ServerRegister`), and a join may
  succeed without the GAMEINFO that a tunnel needs (`JoinOkBare`).
* One action per event and per click. A frame of the code handles all waiting network
  events, then all tunnel events, then draws; here the three interleave one event at a
  time, which allows every order the code has and more.
* `running`, `dying` are the tunnel tasks that exist; `aborted` and `orphaned` are
  history. `TunnelEvent`s carry the number of their task for the properties; the
  handlers use it only to record history, since the code's events do not carry one.
* `pending` has a value for each variant of `pending_action`; `captures` counts the
  background tasks that look for a game.
* `configured` is `config.is_configured()`: the wizard sets it, and the settings tab may
  delete the nickname (`EditNickname`). `unnamed` remembers that the present session's
  Connected found none.

### ConnSlots, RateLimit, Gameinfo, LogPanel

`ConnSlots` stands for either route, `/ws` or `/tunnel`: they have a map each and the
same code. `RateLimit` counts time in ticks; `admitted` is history. `Gameinfo` holds
the parser and, marked external, the encoding that Warcraft uses; the width of a byte,
the group and the lengths of the headers are parameters. `Mask` says what the mask of a
group tells, not how the game computes it; that there is one is proved (`MaskTells`). In `LogPanel` the text of an
entry is the set of the queries it contains.

## Runs

| run | instance | what it checks |
|---|---|---|
| `lobby_safety` | 3 players, 2 versions, 1 room of 2 seats | `TypeOK`, `SeatsCovered`, `NotOverbooked`, `HostLinked`, `SameVersion` |
| `lobby_rooms` | 2 players, 2 rooms, fair | `OneRoomPerHost`, `Inv` (the inductive invariant), `SeatsSpec` (refinement), `DisconnectedLeaves`, `AbandonedRoomCloses` |
| `lobby_calm` | 2 players, a viewer, 2 rooms, nothing cut short | `SeatsExact`, `NoOrphanRoom`, `EvictsOnlyExpired` |
| `feed` | 1 player, 1 web viewer, 2 rooms | `FeedConverges` |
| `tunnel` | 3 connections, 1 token, queues of 1, fair | `TypeOK`, `WaitersWait`, `RelaysPair`, `TunnelInvariant`, `FirstSeesTheEnd`, `WaitEnds`, `PendingEnds` |
| `swap` | 2 chunks, 1 dropped frame, fair | `TypeOK`, `NothingVanishes`, `GapHasCause`, `JoinerNotAlone`, `StreamSpec` (refinement), `EndsTogether`, `DrainEnds`, `StrategiesEnd` |
| `client` | 2 sessions, 2 clicks, 2 tunnel tasks | `ClientTypeOK`, `GhostHasCause`, `InjectionHasTunnel`, `RegisteredIsTrue`, `RegistersOnce` |
| `client_live` | 2 sessions, 2 clicks, no tunnel, fair | `SpinnerEnds`, `RegisterHappens` |
| `parts` | 4 requests from 2 addresses and a proxy; 2 messages per 3 ticks; groups of 2; a buffer of 3 | `SlotsExact`, `BurstBounded`, `ReadsWhatWasAnnounced`, `ShowsWhatPasses` |
| `swap_fallback` | 1 chunk, nothing fails but the strategies | violates `FallsBackToRelay` |
| `swap_loss` | 2 chunks, nothing fails, no dropped frame | violates `NoLoss` |
| `client_ghost` | 1 session, 3 tunnel tasks | violates `NoGhost` |

`TypeOK` of `swap` includes `BuffersFlushed`: the buffers of the drain are empty on the
relay and on QUIC, since what is still in them when QUIC goes on would be lost or late.

**Bounds: server.** A room of two seats and three players is the smallest instance in
which two joiners race for one seat, a room is full, and a third party evicts or
closes. Two rooms are the smallest instance with a change of rooms, with a
player hosting one room while seated in another, and with a second room for one
host; two players suffice there since each may host, join and be evicted. Room
and connection ids are reused, so runs are not limited to a few joins. With one
room id a host can close its room and open another under the same id as soon as
no one refers to the old one. In `feed` the second client is a web viewer, which
receives every list, appears in none and leaves without a grace period. In `lobby_calm`
no step cuts a handler short (`CalmSpec` of `Lobby`): connections end between requests, and
only disconnected players time out. `MCCalmSpec` adds `OutOfIds`, which changes no state. In `tunnel` three connections share the token: two to be
paired and one more that races with them, replaces an entry or comes back later; a queue
of one frame is both empty and full within a step. Tokens do not interact (every map is
keyed by the token), so one is enough; it is issued again when nothing refers to it.

**Bounds: client.** `MaxSent` bounds the chunks of both games together, `MaxDropped` the
frames the server drops per direction. Two chunks suffice for a reordering or a
duplicate, and with one dropped frame for a gap; that order holds for any number is
proved. `MaxSessions` is 2, so that commands and events of one session meet
the next; `MaxClicks` is 2, so that an action may be replaced or its answer come late;
`MaxTunnels` is 2 for a task and its successor (3 in `client_ghost`, where the third
start finds no handle), and 0 in `client_live`: a tunnel changes neither the pending
action nor the registration, and a join that succeeds without one is there (`JoinOkBare`).
More bounds are in the guards of `ClientApp`: `ConnectFails` reports only when the report
would change something; `News` sends nothing before the earlier events are handled; one
CloseRoom waits at a time, and none is sent while an Error is on its way; the nickname is
edited when Connected is about to be handled, the only event that reads it, or has found
none.

**Bounds: parts.** Four requests and two slots per address fill an address and refuse a
third; nginx and a client without it give the same address in two ways (`Loopback`,
`NoHeader`). `Horizon` is three windows of the limiter. In `Gameinfo` a byte has three
bits, groups are of two, and texts of up to three bytes, odd and even, cross the border
of a group; a packet is truncated byte by byte to nothing. `MaxEntries` is 5 and is cut
down to `LargestEntries` = 3.

**Fairness.** `FairSpec` of `Lobby` assumes that a handler in the middle of a request, the
cleanup task and the clock of a disconnected player go on. tokio polls every
runnable task, its `RwLock` is FIFO so every waiter gets its turn, the cleanup
runs on an interval timer, and time passes. Clients are not assumed to do
anything: they may be silent or send requests for ever. `FairSpec` of `Tunnel`
assumes the same of the tunnel handlers, of the cleanup and of the clocks of
waiting entries and UPnP requests. `Forward` is among the fair steps: a client that
stops reading makes the socket fail in the end. No fairness is assumed of `Leave`,
so `FirstSeesTheEnd` does not lean on the idle timer. `FairSpec` of `Strategies` assumes
what has a deadline: a bridge leaves the drain, writes its buffers or fails, and notices
a connection that is down; the host's task and the joiner's attempts end. The wait for
the mapped address has no deadline in the code and no fairness here, so
`StrategiesEnd` speaks of a joiner that tries the direct path. Nothing makes the games or
the network act. `FairSpec` of `ClientApp` assumes that commands are sent while the
session lasts, that frames come and that the capture of a game ends; nothing makes the
user, the server or a tunnel act.

Most liveness properties say that something is not so for ever (`[]<>`): a drain, a player
without a connection, a task that has been started. Such a state ends in the one way the
property is about, so that this is what "leads to" would say, at a fraction of the cost for
TLC. `AbandonedRoomCloses` speaks of the two halves of a removal; that a removal leaves no
room behind at its end is `NoOrphanRoom`.

**Deadlock** is not checked in `swap`, `swap_fallback`, `swap_loss`, `client`,
`client_live`, `client_ghost` and `parts`: games end, windows are closed, requests are answered and
clocks reach their bound there. It is checked everywhere on the server, which never stops.

### What the violations mean

1. `FallsBackToRelay` (`swap_fallback`). The host writes ACK, gives its stream to the
   bridge and leaves the relay. If the ACK arrives after the joiner's three seconds, the
   joiner drops the stream: the host's bridge sees it end and returns, which closes the
   relay too. `net/quic.rs:5` says that on failure the caller falls back to the relay, and
   the help text at `ui/settings.rs:86` that the game then works all the same.
   `JoinerNotAlone` is the half of the handshake that does hold.
2. `NoGhost` (`client_ghost`). `TunnelEvent::Finished` does not say whose end it is. When
   it is handled after the next task has been started, it clears the new task's handle,
   and the task after that runs beside it. `app.rs:242` says that the old task is aborted
   so that no ghost goes on. `GhostHasCause` says that this is the only way to one.
3. `NoLoss` (`swap_loss`). The drain ends with whatever is not a Binary frame, such as the
   Pong that answers a Ping of the relay phase, or after half a second. What arrives on the
   relay later is never read, and the game gets what follows it over QUIC.
   `TODOS.md:10` (of the repository) says that the tests of `swap_poc.rs` cover zero data
   loss; those tests are about a bridge of their own, whose drain reads to the end of the
   stream. `GapHasCause` says that, but for frames the server drops, this is the only way to
   a gap, and `StreamSpec` that what does arrive is in order and not repeated.

### Limits of the code that the properties are stated around

* Both caps of the lobby are checked under a read lock and used under a later write
  lock: N connections that pass the check together overshoot by up to N - 1.
* CreateRoom inserts the room, then writes `hosting_room`. A handler dropped in between,
  or an entry evicted in between, leaves a room that no player names and that nothing
  removes. JoinRoom has the same gap (increment in step 3, `joined_room` in step 5) and
  leaks a seat. That is why `SeatsCovered` is an inequality, and why `SeatsExact`,
  `NoOrphanRoom` and `EvictsOnlyExpired` are checked of `CalmSpec`.
* A heartbeat that arrives after `find_expired` and before `remove_player` does not save
  the player. Its connection stays open without an entry, and its JoinRoom is ignored in
  silence. A player that was refused is not answered either, and an answer that finds the
  queue full (64 messages) is dropped. Nothing in the client ends the wait but the user, an
  Error or the end of the session: these three are the exceptions of `SpinnerEnds`.
* A slot of a connection whose upgrade never completes, or whose handler panics, is never
  given back. `SlotsExact` counts it as held: nothing else keeps one.
* A broadcast by another handler can put lists into a new player's queue before its
  Welcome. The client takes them in either order.
* The second to arrive at a tunnel keeps its own sender, so it does not notice that the
  first has left until it closes itself or sends nothing for five minutes.
  `FirstSeesTheEnd` is what does hold.
* Two ends that arrive at once both find the map empty: the second insert drops the first
  entry, and the other waits for a retry or the timeout.
* What is still on the relay when a drain is over is lost: one of the two causes in
  `GapHasCause`, and the subject of `NoLoss`.
* A Register that is queued when the session ends is sent in the next, which sends its
  own; the server refuses the second. `RegistersOnce` says that no order of events adds
  another: the Registers that wait, and the one that this session has acted on, are never
  more than the sessions.
* A session whose Connected finds the nickname deleted does not register, also when there
  is one again: the exception of `RegisterHappens`.
* `abort_tunnel` does not stop the injection of the task it aborts, and a ProxyReady of an
  earlier task starts that of the GAMEINFO that waits: the exceptions of
  `InjectionHasTunnel`.
* While the channel of a swap is closed without a stream, `recv` returns at once in every
  turn of the bridge's loop. The relay goes on; what is wasted is time.

## Proofs

`LobbyProofs` proves, for every finite `Conn` and `Room`, every `Caps` within
2..12 and every cap (`LobbyAssumption`; the range of `Caps` is what
`ClientMessage::validate` admits):

| theorem | statement |
|---|---|
| `TypeCorrect` | `Spec => []TypeOK` |
| `InvCorrect` | `Spec => []Inv` |
| `SeatAccounting`, `NeverOverbooked` | `SeatsCovered`, `NotOverbooked` |
| `HostLink`, `SingleRoom` | `HostLinked`, `OneRoomPerHost` |
| `VersionsAgree` | `SameVersion` |
| `LobbyImplementsRoomSeats` | `Spec => SeatsSpec` |

The properties are not inductive as they stand, because of handlers that are
suspended in the middle of a request. `Inv` adds what such a handler may rely on:

* `OpenFresh`: the id drawn by CreateRoom is known to nobody else; without it
  `CreateOpen` could overwrite a room with members.
* `Exclusive`, `ReapOwned`, `RoomOwner`: between the two halves of CreateRoom,
  CloseRoom and `remove_player` the room has one owner, which is the handler or
  the cleanup task; `HostLinked` and `OneRoomPerHost` follow case by case.
* `SeatsCovered` counts, besides the members, the handlers in the middle of
  JoinRoom and the cleanup task as claims; each step moves a claim from one of
  these sets to another or pairs it with a step of the counter. The lemmas
  `TakesSeat`, `SeatRecorded`, `SeatReaped` and `GivesSeatBack` are the four
  moves. It follows that `saturating_sub` never saturates (`GuestSeat`), which
  the refinement of `RoomSeats` needs.
* `JoinVersion` carries the comparison of step 2 to step 5.

Types come first (`TypeInvariant`, together with `OpenTarget`: a handler about to
insert a room has drawn its id), so every later step may use them.

Of `CalmSpec`, under the same assumptions:

| theorem | statement |
|---|---|
| `SeatsAreExact` | `CalmSpec => []SeatsExact` |
| `NoRoomIsOrphaned` | `CalmSpec => []NoOrphanRoom` |
| `OnlyExpiredEvicted` | `CalmSpec => EvictsOnlyExpired` |

Every step of `CalmSpec` is one of `Spec` (`CalmIsNext`), so `Inv` is at hand; `Calm` adds
what breaks as soon as a handler may be dropped. `CalmClocks`: what `find_expired` has
collected stays expired until its turn, because only a disconnected player times out and
nobody disconnected sends a heartbeat. `CalmPresent`: a registered connection has its entry.
`CalmOwner`: every room is in the hands of its host, of the request that opens or closes it,
or of the cleanup task; an orphaned room would be in nobody's. `SeatsExact` turns the claims
of `SeatsCovered` into an equation. The four moves of a claim are proved once more for
equality (the lemmas named `Exact...`), which they are only while nothing is cut short.

`FeedProofs` proves `EveryChangeIsShown` (`FeedSpec => []FeedConverges`) for every finite set
of connections and rooms. A step of the feed is a step of the lobby (`FeedIsLobby`), so `Inv`
holds. `FeedConverges` speaks of the states in which nobody owes a broadcast. A broadcast
reaches everybody in such a state (`BroadcastDelivers`, `FarewellDelivers`), and any other
step that ends in one began in one and left both lists alone (`QuietStep`): whoever changes
a map owes a broadcast from that step on, the cleanup task and a handler that is dropped
included. The one case of its own is the last broadcast of a connection, whose task no
longer delivers to itself: it is offline by then (`LeftOffline`).

`TunnelProofs` proves, for all sets of connections and tokens and every positive
queue size (`TunnelAssumption`):

| theorem | statement |
|---|---|
| `TunnelTypeCorrect` | `Spec => []TypeOK` |
| `TunnelInvariantCorrect` | `Spec => []TunnelInvariant` |
| `WaitersAreWaiting`, `RelaysArePairs` | `WaitersWait`, `RelaysPair` |

`RelaysPair` is about the end of the pairing; the invariant is about its way there.
A sender goes from a handler to the map, to whoever takes the entry, and back the
other way through the oneshot channel. `Offered` says that nobody holds one of a
handler that has not offered it, or whose entry is still in the map; `OneHolder`
that nobody's is held twice; `Pairs` and `Notices` what the holder may rely on: the
other one holds its sender in turn, is about to receive it, or has gone.
`TunnelReturn` is the lemma for every way a handler can end. The replacement of an
entry (`InsertWaiting`) and the removal of somebody else's (`RemoveWaiting`) keep
the invariant, so the race above costs an attempt and never mixes up two games.

`SwapProofs` proves, for games of any length and any number of dropped frames
(`BridgeAssumption`):

| theorem | statement |
|---|---|
| `BridgesAreAStream` | `BridgeSpec => StreamSpec`: the bridges implement `OrderedStream`, whatever makes and breaks the QUIC connection |
| `GamesSeeAStream` | `Spec => StreamSpec`: so do the tunnel tasks with their strategies |
| `StrategiesTypes`, `JoinerHasCompany` | `Spec => []TypeOK`, `Spec => []JoinerNotAlone` |
| `NoChunkVanishes`, `GapsHaveCauses` | `Spec => []NothingVanishes`, `Spec => []GapHasCause` |

The invariant `BridgeInv` puts the places of one direction behind each other: what the
other game has, what is on the relay *while it is read there*, `quic_buffer`, the QUIC
stream, `tcp_outbound_buffer`, and what is not yet read from the game. This `Line` is in
order at all times. A move between neighbouring places leaves it as it is; a move past
other places needs them to be empty, which is the second part of the invariant,
`Empties`: no chunk is on QUIC before the sender has flushed, and the buffers are empty
outside the drain and the flush (`BuffersFlushed`, which is a part of `TypeOK`). A dropped frame, or a relay that is no longer read,
takes a part out, which keeps the rest in order. The sequence lemmas at the top of the
module are one for each of these ways to change a line. `GamesSeeAStream` needs no more
than that every step of `Strategies` is a step of the bridges or leaves them alone.
`JoinerNotAlone` follows from `HandshakeInv`: an ACK is written only by a host that goes on
to hand over its stream, and a bridge never gives a stream back.

The other two are about what is lost. `Accounted` says that the chunks a game has sent are
those in its seven places, lost ones included, at all times; a bridge that returns leaves
what it has not passed on where it is, so the sum holds beyond the end. For a gap, the
missing chunk is by `Accounted` in one of these places, and by the order of `Line` in none
that comes after what was delivered; there remain what the server dropped and what stays
on a relay that is no longer read. `LeftBehind` carries the order over the flush, in which
the relay is outside of the line.

`ClientProofs` proves, for any number of sessions, clicks and tunnel tasks
(`ClientAssumption`):

| theorem | statement |
|---|---|
| `GhostsHaveCauses` | `Spec => []GhostHasCause` |
| `InjectionsHaveTunnels` | `Spec => []InjectionHasTunnel` |
| `RegisteredMeansKnown` | `Spec => []RegisteredIsTrue` |
| `ClientTypes` | `Spec => []ClientTypeOK` |
| `SessionsRegisterOnce` | `Spec => []RegistersOnce` |

The first three are about events on their way. `EndsInv` says that a reported end is that of a
task that no longer runs, `Waiting` that the GAMEINFO kept for a task is still waited
for, or the report of its proxy is in the queue *before* that of its end. `RegInv` says
that a Welcome in the queue is of this session, or the end of its session comes after it.
The lemmas on queues say what appending and handling an event does to "is in the queue"
and "comes before".

`ClientTypeOK` bounds the numbers of captures and of tunnel tasks, which are inductive only
with what `TypeInv` adds: no more captures than clicks, and no more tasks, started or still
announced by a message in the queue, than `MaxTunnels`. `RegistersOnce` follows from a count,
`Due`: the Registers in the channel, the Connected events that may send one, the wizard while it is
on the screen of a connected application, and the player that the server knows or has refused. It is never more than the number
of sessions (`OnceInv`): a new session adds its Connected and one to the bound, and every
other step moves a unit from one of the four to another or takes it away. An answer never
brings another Connected, whatever part of it is dropped (`LeftInSeq`, `AnswerKinds`).

`GameinfoProofs` proves, for bytes and groups of any width and headers of any length
(`GameinfoAssumption`):

| theorem | statement |
|---|---|
| `DecodeUndoesEncode` | `Decode(Encode(s)) = s` for every text `s` |
| `PacketsAreRead` | `GameinfoSpec => []ReadsWhatWasAnnounced` |

That there is a mask for every choice of odd bytes (`SomeMask`) is an induction over the
bits: an even multiple of `1 << b` does not change bit `b` (`EvenMultiple`, `BitsDivide`).
The induction is over sets (`Inductive`, from the least element of a set of naturals), since
the induction theorems of the library need operators as parameters. The rest is where
things are: the byte and the mask of position `k` (`Place`, `EncodedByte`), how many masks a
text has (`GroupsOf`, `MasksAdded`, `GroupsCover`), and the parts of a packet
(`PacketLayout`, `BodyLayout`). The invariant of the specification is that what is left of
a packet is a beginning of it; since what is encoded has no zero, its end is missing as soon
as one byte is (`PathNeedsAll`), and the parser then gives no path.

`ServerPartsProofs` proves `SlotsAreExact` for every finite set of requests, any addresses
and every limit: types and `SlotsExact` are inductive together, by the lemmas that a step
changes the holders of one address by one. It proves `BurstsAreBounded` of the limiter for
every limit and window; `Windows` divides what was admitted into the present window, the
one before, and what came a whole window earlier. `LogPanelProofs` proves
`PanelShowsWhatPasses` for every capacity; the case of its own is the entry that pushes
the oldest out.

Only model-checked is liveness, since fairness and ENABLED are outside the prover:
`DisconnectedLeaves`, `AbandonedRoomCloses`, `FirstSeesTheEnd`, `WaitEnds`, `PendingEnds`,
`EndsTogether`, `DrainEnds`, `StrategiesEnd`, `SpinnerEnds` and `RegisterHappens`. Every
other property of a passing run is a theorem.

## Not modelled

* Origin allowlist: that a request is denied before it takes a slot is in `ConnSlots`; the
  comparison itself is one pure check on headers. Field lengths in
  `ClientMessage::validate` are likewise; the range of `max_players` is an assumption of
  `Lobby`. The external address filter is a predicate on address blocks whose only
  reference definition would be itself.
* In the client: the addresses for QUIC that the application forwards, the removal of a
  UPnP mapping (its lease is the router's), certificates and ALPN, the measurement of
  latency (but for the Pong that ends a drain), the diagnostics of the strategies, join
  cool-downs, and the file name that is cut out of a map's path.
* Packet injection is the fact that it runs, and the buffer that may cut off a packet;
  sockets and interfaces are left out. Configuration and log files are file I/O.
* Drawing and the timeline show what the application keeps. The wizard, the buttons that
  send something and the nickname of the settings tab are actions of `ClientApp`; the other
  settings take effect at the next start or in what is sent.
* The spikes are experiments outside the product; the web page is a read-only view of the
  feed, whose server side is in `Lobby`.

What a further step could add: an abstract pairing that `Tunnel` implements, and the
composition of two `ClientApp`s with `Lobby` in one module, which the size of their state
spaces forbids for TLC today.
