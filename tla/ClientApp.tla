----------------------------- MODULE ClientApp -----------------------------
(***************************************************************************)
(* The client: the network task (net/discovery.rs), which keeps a          *)
(* WebSocket session with the server and opens a new one when it is lost,  *)
(* and the application (app.rs, ui/lobby.rs), which handles the events of  *)
(* that task and of the tunnel tasks frame by frame, and what the user     *)
(* clicks.                                                                 *)
(*                                                                         *)
(* Commands wait in a channel that outlives the sessions.  What the server *)
(* does with a command and its answer are one step, as far as this client  *)
(* is concerned (the Lobby module has the rest); a session may be lost     *)
(* before the answer is.                                                   *)
(*                                                                         *)
(* Left out: the addresses for QUIC, what is only displayed, and the names *)
(* of rooms and players.                                                   *)
(***************************************************************************)
EXTENDS Integers, Sequences, FiniteSets

CONSTANTS
  MaxSessions,  \* bound on the sessions that the network task opens
  MaxClicks,    \* bound on the joins and creates of the user
  MaxTunnels    \* bound on the tunnel tasks

ASSUME ClientAssumption ==
  MaxSessions \in Nat /\ MaxClicks \in Nat /\ MaxTunnels \in Nat

VARIABLES
  conn,       \* the session of the network task
  session,    \* how many sessions there have been
  cmdQ,       \* the command channel
  evQ,        \* the channel of NetEvents
  srv,        \* what the server knows of the player of this session
  srvRoom,    \* the player of this session hosts a room
  lost,       \* history: an answer of the server was dropped since the last click
  ui,         \* connection_state of the application
  wizard,     \* the wizard of the first start is on the screen
  configured, \* config.is_configured(): there is a nickname
  unnamed,    \* history: there was none when the last Connected was handled, nor a wizard
  me,         \* my_player_id is set
  listed,     \* rooms has a room of somebody else
  hosting,    \* players says that this player hosts
  pending,    \* pending_action
  clicks,     \* how often the user has clicked join or create
  captures,   \* background tasks that ask Warcraft for its GAMEINFO
  running,    \* the tunnel tasks that run
  dying,      \* those that were aborted and have not noticed
  handle,     \* tunnel_handle: the task it refers to, 0 for None
  started,    \* how many tunnel tasks there have been
  evT,        \* the channel of TunnelEvents
  unready,    \* the joiner's tasks that have not yet said that their proxy is ready
  gameinfo,   \* pending_gameinfo: the task whose GAMEINFO it is, 0 for None
  injection,  \* injection_handle: the task whose GAMEINFO is announced, 0 for None
  aborted,    \* history: the tasks that the application has aborted
  orphaned    \* history: tasks whose handle went with the end of another one

netVars == <<conn, session>>
srvVars == <<srv, srvRoom>>
setupVars == <<wizard, configured>>
userVars == <<setupVars, clicks>>
stateVars == <<ui, unnamed, me, listed, hosting>>
injectionVars == <<gameinfo, injection>>
tunnelVars == <<running, dying, handle, started, unready, injectionVars, aborted, orphaned>>
vars == <<netVars, cmdQ, evQ, srvVars, lost, stateVars, userVars, pending, captures, tunnelVars, evT>>

Command == {"Register", "Join", "Create", "Close"}
NetEvent == {"Connected", "Disconnected", "Reconnecting", "Welcome", "Update", "UpdateHosting",
             "JoinOk", "JoinOkBare", "JoinFail", "PlayerJoined", "Error"}
InFlight == {"Joining", "CreatingRoom"}
Told == {"JoinSuccess", "JoinFailed", "ServerError"}
Task == 1..MaxTunnels
TunnelEvent == {"ProxyReady", "Finished"} \X Task \cup {<<"Captured", b>> : b \in BOOLEAN}

ClientTypeOK ==
  /\ conn \in {"down", "up", "stopped"} /\ session \in 0..MaxSessions
  /\ cmdQ \in Seq(Command) /\ evQ \in Seq(NetEvent) /\ evT \in Seq(TunnelEvent)
  /\ srv \in {"none", "refused", "player", "evicted"} /\ srvRoom \in BOOLEAN /\ lost \in BOOLEAN
  /\ ui \in {"Disconnected", "Connected", "Reconnecting", "closed"}
  /\ wizard \in BOOLEAN /\ configured \in BOOLEAN /\ wizard => ~configured
  /\ unnamed \in BOOLEAN /\ me \in BOOLEAN /\ listed \in BOOLEAN /\ hosting \in BOOLEAN
  /\ pending \in InFlight \cup Told \cup {"None"}
  /\ clicks \in 0..MaxClicks /\ captures \in 0..MaxClicks
  /\ started \in 0..MaxTunnels /\ handle \in 0..started
  /\ gameinfo \in 0..started /\ injection \in 0..started
  /\ \A s \in {running, dying, unready, aborted, orphaned} : s \subseteq 1..started

Init ==
  /\ conn = "down" /\ session = 0
  /\ cmdQ = <<>> /\ evQ = <<>> /\ evT = <<>>
  /\ srv = "none" /\ srvRoom = FALSE /\ lost = FALSE
  /\ ui = "Disconnected" /\ unnamed = FALSE
  /\ configured \in BOOLEAN /\ wizard = ~configured
  /\ me = FALSE /\ listed = FALSE /\ hosting = FALSE
  /\ pending = "None" /\ clicks = 0 /\ captures = 0
  /\ running = {} /\ dying = {} /\ handle = 0 /\ started = 0
  /\ unready = {} /\ gameinfo = 0 /\ injection = 0
  /\ aborted = {} /\ orphaned = {}

Elems(s) == {s[i] : i \in DOMAIN s}
\* How many of what waits in queue s is of the kinds S.
Count(s, S) == Cardinality({i \in DOMAIN s : s[i] \in S})
Send(cmd) == cmdQ' = Append(cmdQ, cmd)
\* The tunnel tasks that there have been or that a message on its way will start.
Announced == started + Count(evQ, {"JoinOk", "PlayerJoined"})

Update(room) == IF room THEN "UpdateHosting" ELSE "Update"

(***************************************************************************)
(* run_connection and handle_session.                                      *)
(***************************************************************************)
Connect ==
  /\ conn = "down" /\ session < MaxSessions
  /\ conn' = "up" /\ session' = session + 1
  /\ srv' = "none" /\ srvRoom' = FALSE
  /\ evQ' = Append(evQ, "Connected")
  /\ UNCHANGED <<cmdQ, lost, stateVars, userVars, pending, captures, tunnelVars, evT>>

\* Bound: an attempt that fails adds nothing to an event of the last one.
ConnectFails ==
  /\ conn = "down" /\ evQ = <<>> /\ ui # "Reconnecting"
  /\ evQ' = Append(evQ, "Reconnecting")
  /\ UNCHANGED <<netVars, cmdQ, srvVars, lost, stateVars, userVars, pending, captures, tunnelVars, evT>>

\* handle_session returns true; the loop reports that it tries again.
EndSession ==
  /\ conn = "up"
  /\ conn' = "down"
  /\ srv' = "none" /\ srvRoom' = FALSE
  /\ evQ' = evQ \o <<"Disconnected", "Reconnecting">>
  /\ UNCHANGED <<session, lost, stateVars, userVars, pending, captures, tunnelVars, evT>>

SessionEnds == EndSession /\ UNCHANGED cmdQ

\* The command that was being sent is lost with the session.
SendFails == cmdQ # <<>> /\ EndSession /\ cmdQ' = Tail(cmdQ)

\* What is left of at most three messages when there is no room for some of them.
Left(s) ==
  LET Pairs == {p \in (DOMAIN s) \X (DOMAIN s) : p[1] < p[2]}
  IN {<<>>, s} \cup {<<s[i]>> : i \in DOMAIN s} \cup {<<s[p[1]], s[p[2]]>> : p \in Pairs}

\* try_send drops what finds the queue of the connection full.
Answer(s) ==
  \E t \in Left(s) :
    /\ evQ' = evQ \o t
    /\ lost' = (lost \/ t # s)

Silent == UNCHANGED <<evQ, lost>>

\* Too many messages, one that is not valid, a second Register, a lobby that is full, a room
\* that the host already has, a join that comes too soon.
ServerRefuses ==
  /\ srv' = IF srv = "none" /\ Head(cmdQ) = "Register" THEN "refused" ELSE srv
  /\ UNCHANGED srvRoom
  /\ Answer(<<"Error">>)

\* What the server answers to a command.  It says nothing to one of an unregistered or
\* evicted player, but for a room that does not exist.  The lists may be sent to a new
\* player, by the handler of another one, before its Welcome is.
ServerRegister ==
  /\ srv \in {"none", "refused"} /\ srv' = "player"
  /\ UNCHANGED srvRoom
  /\ Answer(<<"Welcome", "Update">>) \/ Answer(<<"Update", "Welcome", "Update">>)

ServerJoin ==
  /\ UNCHANGED srvVars
  /\ \/ srv # "player" /\ Silent
     \/ srv \in {"player", "evicted"} /\ Answer(<<"JoinFail">>)
     \/ srv = "player" /\ Answer(<<"JoinOkBare", Update(srvRoom)>>)
     \/ srv = "player" /\ Announced < MaxTunnels /\ Answer(<<"JoinOk", Update(srvRoom)>>)

ServerCreate ==
  /\ UNCHANGED srv
  /\ \/ srv # "player" /\ UNCHANGED srvRoom /\ Silent
     \/ srv = "player" /\ ~srvRoom /\ srvRoom' = TRUE /\ Answer(<<Update(TRUE)>>)

ServerClose ==
  /\ UNCHANGED srv
  /\ srvRoom' = FALSE
  /\ IF srvRoom THEN Answer(<<Update(FALSE)>>) ELSE Silent

SendCommand ==
  /\ conn = "up" /\ cmdQ # <<>>
  /\ cmdQ' = Tail(cmdQ)
  /\ \/ ServerRefuses
     \/ Head(cmdQ) = "Register" /\ ServerRegister
     \/ Head(cmdQ) = "Join" /\ ServerJoin
     \/ Head(cmdQ) = "Create" /\ ServerCreate
     \/ Head(cmdQ) = "Close" /\ ServerClose
  /\ UNCHANGED <<netVars, stateVars, userVars, pending, captures, tunnelVars, evT>>

(***************************************************************************)
(* The server by itself: what other players do, a heartbeat or ping that    *)
(* is one message too many, and the eviction of a player it has not heard  *)
(* of for long (a laptop that slept).                                      *)
(***************************************************************************)
\* Bound: no message of others is sent before the earlier ones are handled.
News(e) ==
  /\ conn = "up" /\ evQ = <<>>
  /\ evQ' = Append(evQ, e)
  /\ UNCHANGED <<netVars, cmdQ, srvVars, lost, stateVars, userVars, pending, captures, tunnelVars, evT>>

Others ==
  \/ srv = "player" /\ News(Update(srvRoom))
  \/ srv = "player" /\ srvRoom /\ Announced < MaxTunnels /\ News("PlayerJoined")
  \/ News("Error")

Evict ==
  /\ conn = "up" /\ srv = "player"
  /\ srv' = "evicted" /\ srvRoom' = FALSE
  /\ UNCHANGED <<netVars, cmdQ, evQ, lost, stateVars, userVars, pending, captures, tunnelVars, evT>>

(***************************************************************************)
(* process_network_events, handle_server_message.                          *)
(***************************************************************************)
\* Mutant of Cancelled: an action in flight is left to its answer.
CancelledNever == pending

Cancelled == IF pending \in InFlight THEN "ServerError" ELSE pending

\* The next event is e.
Handle(e) ==
  /\ ui # "closed"
  /\ evQ # <<>> /\ Head(evQ) = e
  /\ evQ' = Tail(evQ)
  /\ UNCHANGED <<netVars, srvVars, lost, userVars, captures, evT>>

HandleConnected ==
  /\ Handle("Connected")
  /\ ui' = "Connected"
  /\ unnamed' = ~(configured \/ wizard)
  /\ pending' = IF pending = "ServerError" THEN "None" ELSE pending
  /\ IF ~me /\ configured THEN Send("Register") ELSE UNCHANGED cmdQ
  /\ UNCHANGED <<me, listed, hosting, tunnelVars>>

\* Mutant of HandleDisconnected: my_player_id is kept.
HandleDisconnectedKeepsId ==
  /\ Handle("Disconnected")
  /\ ui' = "Disconnected"
  /\ listed' = FALSE /\ hosting' = FALSE
  /\ pending' = Cancelled
  /\ UNCHANGED <<cmdQ, unnamed, me, tunnelVars>>

HandleDisconnected ==
  /\ Handle("Disconnected")
  /\ ui' = "Disconnected"
  /\ me' = FALSE /\ listed' = FALSE /\ hosting' = FALSE
  /\ pending' = Cancelled
  /\ UNCHANGED <<cmdQ, unnamed, tunnelVars>>

HandleReconnecting ==
  /\ Handle("Reconnecting")
  /\ ui' = "Reconnecting"
  /\ pending' = Cancelled
  /\ UNCHANGED <<cmdQ, unnamed, me, listed, hosting, tunnelVars>>

HandleWelcome ==
  /\ Handle("Welcome")
  /\ me' = TRUE
  /\ UNCHANGED <<cmdQ, ui, unnamed, listed, hosting, pending, tunnelVars>>

\* PlayerUpdate and RoomUpdate.  A room may or may not be there to join.
HandleUpdate ==
  /\ \/ Handle("Update") /\ hosting' = FALSE
     \/ Handle("UpdateHosting") /\ hosting' = TRUE
  /\ listed' = TRUE
  /\ pending' = IF pending = "CreatingRoom" THEN "None" ELSE pending
  /\ UNCHANGED <<cmdQ, ui, unnamed, me, tunnelVars>>

\* Mutant of Replace: the old task is not aborted.
ReplaceOnly(tasks) ==
  /\ running' = running \cup tasks
  /\ UNCHANGED <<dying, aborted>>

\* abort_tunnel; the tasks are added to those that run.
Replace(tasks) ==
  /\ running' = (running \ {handle}) \cup tasks
  /\ dying' = dying \cup (running \cap {handle})
  /\ aborted' = aborted \cup (running \cap {handle})

StartTunnel ==
  /\ started' = started + 1
  /\ handle' = started + 1
  /\ Replace({started + 1})
  /\ UNCHANGED <<injection, orphaned>>

\* A success without the GAMEINFO of the room (JoinOkBare) starts nothing; neither does one
\* that answers what is no longer pending.
HandleJoinOk ==
  /\ \/ /\ Handle("JoinOk") /\ pending = "Joining"
        /\ pending' = "JoinSuccess"
        /\ StartTunnel
        /\ unready' = unready \cup {started + 1}
        /\ gameinfo' = started + 1
     \/ /\ Handle("JoinOkBare") /\ pending = "Joining"
        /\ pending' = "JoinSuccess" /\ UNCHANGED tunnelVars
     \/ /\ Handle("JoinOk") \/ Handle("JoinOkBare")
        /\ pending # "Joining"
        /\ UNCHANGED <<pending, tunnelVars>>
  /\ UNCHANGED <<cmdQ, stateVars>>

HandleJoinFail ==
  /\ Handle("JoinFail")
  /\ pending' = IF pending = "Joining" THEN "JoinFailed" ELSE pending
  /\ UNCHANGED <<cmdQ, stateVars, tunnelVars>>

HandlePlayerJoined ==
  /\ Handle("PlayerJoined")
  /\ StartTunnel
  /\ UNCHANGED <<cmdQ, stateVars, pending, unready, gameinfo>>

\* The message does not say which command it answers.
HandleError ==
  /\ Handle("Error")
  /\ pending' = CASE pending = "Joining" -> "JoinFailed"
                  [] pending \in {"CreatingRoom", "None"} -> "ServerError"
                  [] OTHER -> pending
  /\ UNCHANGED <<cmdQ, stateVars, tunnelVars>>

HandleNetEvent ==
  \/ HandleConnected \/ HandleDisconnected \/ HandleReconnecting
  \/ HandleWelcome \/ HandleUpdate \/ HandleError
  \/ HandleJoinOk \/ HandleJoinFail \/ HandlePlayerJoined

(***************************************************************************)
(* The background tasks and their events.                                  *)
(***************************************************************************)
\* The listener of a joiner's task is bound.
ProxyBinds(t) ==
  /\ t \in unready /\ t \in running \cup dying
  /\ unready' = unready \ {t}
  /\ evT' = Append(evT, <<"ProxyReady", t>>)
  /\ UNCHANGED <<netVars, cmdQ, evQ, srvVars, lost, stateVars, userVars, pending, captures,
                 running, dying, handle, started, injectionVars, aborted, orphaned>>

\* A task ends by itself, or notices that it was aborted: it may have sent its last
\* event before it does.
TunnelEnds(t) ==
  /\ \/ /\ t \in running
        /\ running' = running \ {t} /\ UNCHANGED dying
        /\ evT' = Append(evT, <<"Finished", t>>)
     \/ /\ t \in dying
        /\ dying' = dying \ {t} /\ UNCHANGED running
        /\ evT' \in {evT, Append(evT, <<"Finished", t>>)}
  /\ UNCHANGED <<netVars, cmdQ, evQ, srvVars, lost, stateVars, userVars, pending, captures,
                 handle, started, unready, injectionVars, aborted, orphaned>>

\* After three minutes.
InjectionEnds ==
  /\ injection # 0
  /\ injection' = 0
  /\ UNCHANGED <<netVars, cmdQ, evQ, srvVars, lost, stateVars, userVars, pending, captures, evT,
                 running, dying, handle, started, unready, gameinfo, aborted, orphaned>>

\* Mutant of CaptureEnds: a task may report more than once.
CaptureEndsTwice ==
  /\ captures' = captures - 1
  /\ \E found \in BOOLEAN : evT' = Append(evT, <<"Captured", found>>)
  /\ UNCHANGED <<netVars, cmdQ, evQ, srvVars, lost, stateVars, userVars, pending, tunnelVars>>

\* check_room has found a game, or none.
CaptureEnds ==
  /\ captures > 0
  /\ captures' = captures - 1
  /\ \E found \in BOOLEAN : evT' = Append(evT, <<"Captured", found>>)
  /\ UNCHANGED <<netVars, cmdQ, evQ, srvVars, lost, stateVars, userVars, pending, tunnelVars>>

HandleTunnelEvent ==
  /\ ui # "closed" /\ evT # <<>>
  /\ evT' = Tail(evT)
  /\ UNCHANGED <<netVars, evQ, srvVars, lost, stateVars, userVars, captures>>

\* start_gameinfo_injection: whatever task is ready, an old injection stops and the
\* pending GAMEINFO is announced, if there is one.
HandleProxyReady ==
  /\ HandleTunnelEvent
  /\ \E t \in Task : Head(evT) = <<"ProxyReady", t>>
  /\ injection' = gameinfo /\ gameinfo' = 0
  /\ UNCHANGED <<cmdQ, pending, running, dying, handle, started, unready, aborted, orphaned>>

\* Mutant of HandleFinished: the injection goes on.
HandleFinishedOnly ==
  /\ HandleTunnelEvent
  /\ \E t \in Task :
       /\ Head(evT) = <<"Finished", t>>
       /\ orphaned' = orphaned \cup ((running \cap {handle}) \ {t})
  /\ handle' = 0
  /\ UNCHANGED <<cmdQ, pending, running, dying, started, unready, injectionVars, aborted>>

\* The event does not say whose it is to the code that handles it.
HandleFinished ==
  /\ HandleTunnelEvent
  /\ \E t \in Task :
       /\ Head(evT) = <<"Finished", t>>
       /\ orphaned' = orphaned \cup ((running \cap {handle}) \ {t})
  /\ injection' = 0
  /\ handle' = 0
  /\ UNCHANGED <<cmdQ, pending, running, dying, started, unready, gameinfo, aborted>>

HandleCaptured ==
  /\ HandleTunnelEvent
  /\ \/ Head(evT) = <<"Captured", TRUE>> /\ Send("Create") /\ UNCHANGED pending
     \/ Head(evT) = <<"Captured", FALSE>> /\ pending' = "None" /\ UNCHANGED cmdQ
  /\ UNCHANGED tunnelVars

(***************************************************************************)
(* The user.                                                               *)
(***************************************************************************)
EverConnected == session > Count(evQ, {"Connected"})

\* The lobby is on the screen: neither the wizard nor the overlay of a connection that
\* is being made covers it.
LobbyShown ==
  /\ ~wizard
  /\ ui = "Connected" \/ (ui = "Disconnected" /\ EverConnected)

\* The button of a room is there whatever pending_action is.
ClickJoin ==
  /\ LobbyShown /\ listed /\ clicks < MaxClicks
  /\ clicks' = clicks + 1
  /\ Send("Join")
  /\ pending' = "Joining" /\ lost' = FALSE
  /\ UNCHANGED <<netVars, evQ, srvVars, stateVars, setupVars, captures, tunnelVars, evT>>

IsHosting == me /\ hosting

\* The dialog stays open whatever becomes of the room of this player.
ClickCreate ==
  /\ LobbyShown /\ clicks < MaxClicks
  /\ clicks' = clicks + 1
  /\ captures' = captures + 1
  /\ pending' = "CreatingRoom" /\ lost' = FALSE
  /\ UNCHANGED <<netVars, cmdQ, evQ, srvVars, stateVars, setupVars, tunnelVars, evT>>

\* Bound: one CloseRoom at a time, and none while an Error is on its way.
ClickClose ==
  /\ LobbyShown /\ IsHosting /\ "Close" \notin Elems(cmdQ) /\ "Error" \notin Elems(evQ)
  /\ Send("Close")
  /\ UNCHANGED <<netVars, evQ, srvVars, lost, stateVars, userVars, pending, captures, tunnelVars, evT>>

Dismiss ==
  /\ LobbyShown /\ pending \in Told
  /\ pending' = "None"
  /\ UNCHANGED <<netVars, cmdQ, evQ, srvVars, lost, stateVars, userVars, captures, tunnelVars, evT>>

\* Mutant of WizardDone: it registers whether there is a session or not.
WizardAlwaysRegisters ==
  /\ wizard /\ ui # "closed"
  /\ wizard' = FALSE /\ configured' = TRUE
  /\ Send("Register")
  /\ UNCHANGED <<netVars, evQ, srvVars, lost, stateVars, clicks, pending, captures, tunnelVars, evT>>

\* Mutant of WizardDone: it leaves the registration to the next session.
WizardNeverRegisters ==
  /\ wizard /\ ui # "closed"
  /\ wizard' = FALSE /\ configured' = TRUE
  /\ UNCHANGED <<netVars, cmdQ, evQ, srvVars, lost, stateVars, clicks, pending, captures, tunnelVars, evT>>

WizardDone ==
  /\ wizard /\ ui # "closed"
  /\ wizard' = FALSE /\ configured' = TRUE
  /\ IF ui = "Connected" THEN Send("Register") ELSE UNCHANGED cmdQ
  /\ UNCHANGED <<netVars, evQ, srvVars, lost, stateVars, clicks, pending, captures, tunnelVars, evT>>

\* The settings tab: the nickname is deleted, or there is one again.
\* Bound: only when the next event is of a new session, or the last one began without.
EditNickname ==
  /\ ~wizard /\ ui # "closed"
  /\ unnamed \/ (evQ # <<>> /\ Head(evQ) = "Connected")
  /\ configured' = ~configured
  /\ UNCHANGED <<netVars, cmdQ, evQ, srvVars, lost, stateVars, wizard, clicks, pending, captures,
                 tunnelVars, evT>>

\* The window is closed: the task of the handle is aborted, and the network task sees
\* that its channel is closed.
Quit ==
  /\ ui # "closed"
  /\ ui' = "closed"
  /\ Replace({}) /\ handle' = 0 /\ injection' = 0
  /\ conn' = "stopped"
  /\ UNCHANGED <<session, cmdQ, evQ, srvVars, lost, unnamed, me, listed, hosting, userVars, pending, captures,
                 started, unready, gameinfo, orphaned, evT>>

Network == Connect \/ ConnectFails \/ SessionEnds \/ SendFails \/ SendCommand
Tasks == CaptureEnds \/ InjectionEnds \/ \E t \in Task : ProxyBinds(t) \/ TunnelEnds(t)
HandleTaskEvent == HandleProxyReady \/ HandleFinished \/ HandleCaptured
User == ClickJoin \/ ClickCreate \/ ClickClose \/ Dismiss \/ WizardDone \/ EditNickname \/ Quit

Next ==
  \/ Network
  \/ Others \/ Evict
  \/ HandleNetEvent
  \/ HandleTaskEvent
  \/ Tasks
  \/ User

Spec == Init /\ [][Next]_vars

\* The tasks run and the frames come.  Nothing makes the user, the server or a tunnel act,
\* nor the network fail or recover.
Fairness ==
  /\ WF_vars(SendCommand)
  /\ WF_vars(HandleNetEvent)
  /\ WF_vars(HandleTaskEvent)
  /\ WF_vars(CaptureEnds)

FairSpec == Spec /\ Fairness

(***************************************************************************)
(* Properties.                                                             *)
(***************************************************************************)
\* abort_tunnel (app.rs) cancels the old task lest a ghost of it go on: one tunnel task
\* at a time.
NoGhost == Cardinality(running) <= 1

\* The only way to a ghost: the application handled the end of another task while it
\* held the handle of this one.
GhostHasCause == running \subseteq {handle} \cup orphaned

\* The GAMEINFO of a game is announced while its tunnel task runs, or until its end has
\* been handled.  Only an abort by the application itself leaves it on, and the proxy of
\* an earlier task, reported when this one has ended without one.
InjectionHasTunnel ==
  injection # 0 =>
    injection \in running \cup aborted \cup unready \/ <<"Finished", injection>> \in Elems(evT)

\* The application takes itself for registered only while the server has, in this
\* session, registered it, or the news that the session is over is on its way.
RegisteredIsTrue == me => srv \in {"player", "evicted"} \/ "Disconnected" \in Elems(evQ) \/ ui = "closed"

\* A stale Register, left in the channel by an earlier session, is sent in the next one
\* beside its own.  Each session accounts for one of them at most.
RegistersOnce ==
  Count(cmdQ, {"Register"}) + (IF srv = "none" THEN 0 ELSE 1) <= session

\* A spinner goes away, unless the server does not know the player any more or has
\* refused it, and so does not answer, or had no room in the queue for its answer.
SpinnerEnds ==
  []<>(pending \notin InFlight \/ ui = "closed" \/ (conn = "up" /\ (srv # "player" \/ lost)))

\* A player with a nickname is registered, or refused, in every session that lasts, unless
\* the nickname was missing when the application learned of the session.
RegisterHappens ==
  conn = "up" /\ configured ~> conn # "up" \/ srv # "none" \/ unnamed
=============================================================================
