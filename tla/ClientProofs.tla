---------------------------- MODULE ClientProofs ----------------------------
(***************************************************************************)
(* Proofs about ClientApp: what becomes of tunnel tasks and injections,    *)
(* for any number of them.                                                 *)
(***************************************************************************)
EXTENDS ClientApp, SequenceTheorems, FiniteSetTheorems, TLAPS

(***************************************************************************)
(* Events in a queue.                                                      *)
(***************************************************************************)
Has(s, e) == \E i \in 1..Len(s) : s[i] = e

Before(s, e, f) == \E i, j \in 1..Len(s) : i < j /\ s[i] = e /\ s[j] = f

\* An event is added.
LEMMA AfterAppend ==
  ASSUME NEW S, NEW s \in Seq(S), NEW x \in S
  PROVE  /\ Append(s, x) \in Seq(S)
         /\ Has(Append(s, x), x)
         /\ \A e : Has(s, e) => Has(Append(s, x), e) /\ Before(Append(s, x), e, x)
         /\ \A e : Has(Append(s, x), e) => Has(s, e) \/ e = x
         /\ \A e, f : Before(s, e, f) => Before(Append(s, x), e, f)
<1>1. /\ Append(s, x) \in Seq(S) /\ Len(s) \in Nat /\ Len(Append(s, x)) = Len(s) + 1
      /\ Append(s, x)[Len(s) + 1] = x
      /\ \A i \in 1..Len(s) : Append(s, x)[i] = s[i]
  BY AppendProperties, LenProperties
<1>2. \A i \in 1..Len(s) : i \in 1..(Len(s) + 1) /\ i < Len(s) + 1
  BY <1>1
<1>3. \A i \in 1..(Len(s) + 1) : i \in 1..Len(s) \/ i = Len(s) + 1
  BY <1>1
<1>4. Len(s) + 1 \in 1..(Len(s) + 1)
  BY <1>1
<1> QED
  BY <1>1, <1>2, <1>3, <1>4 DEF Has, Before

\* The first event is handled.
LEMMA AfterTail ==
  ASSUME NEW S, NEW s \in Seq(S), s # <<>>
  PROVE  /\ Tail(s) \in Seq(S)
         /\ \A e : Has(Tail(s), e) => Has(s, e)
         /\ \A e : Has(s, e) => Has(Tail(s), e) \/ e = Head(s)
         /\ \A e, f : Before(s, e, f) => Has(Tail(s), f)
         /\ \A e, f : Before(s, e, f) => Before(Tail(s), e, f) \/ e = Head(s)
<1>1. /\ Tail(s) \in Seq(S) /\ Len(s) \in Nat /\ Len(s) > 0
      /\ Len(Tail(s)) = Len(s) - 1 /\ Head(s) = s[1]
      /\ \A i \in 1..(Len(s) - 1) : Tail(s)[i] = s[i + 1]
  BY HeadTailProperties, LenProperties, EmptySeq
<1>2. \A i \in 1..(Len(s) - 1) : i + 1 \in 1..Len(s)
  BY <1>1
<1>3. \A i \in 1..Len(s) : i = 1 \/ (i - 1 \in 1..(Len(s) - 1) /\ Tail(s)[i - 1] = s[i])
  BY <1>1
<1>4. \A i, j \in 1..Len(s) : i < j => j # 1 /\ i - 1 < j - 1
  BY <1>1
<1>5. \A e : Has(Tail(s), e) => Has(s, e)
  BY <1>1, <1>2 DEF Has
<1>6. \A e : Has(s, e) => Has(Tail(s), e) \/ e = Head(s)
  BY <1>1, <1>3 DEF Has
<1>7. \A e, f : Before(s, e, f) => Has(Tail(s), f)
  BY <1>1, <1>3, <1>4 DEF Has, Before
<1>8. \A e, f : Before(s, e, f) => Before(Tail(s), e, f) \/ e = Head(s)
  <2> SUFFICES ASSUME NEW e, NEW f, Before(s, e, f), e # Head(s)
               PROVE  Before(Tail(s), e, f)
    OBVIOUS
  <2>1. PICK i \in 1..Len(s), j \in 1..Len(s) : i < j /\ s[i] = e /\ s[j] = f
    BY DEF Before
  <2>2. i # 1 /\ j # 1 /\ i - 1 < j - 1
    BY <1>1, <1>4, <2>1
  <2>3. /\ i - 1 \in 1..Len(Tail(s)) /\ Tail(s)[i - 1] = e
        /\ j - 1 \in 1..Len(Tail(s)) /\ Tail(s)[j - 1] = f
    BY <1>1, <1>3, <2>1, <2>2
  <2> QED
    BY <2>2, <2>3 DEF Before
<1> QED
  BY <1>1, <1>5, <1>6, <1>7, <1>8

(***************************************************************************)
(* The invariant.  An end that has been reported is the end of a task that *)
(* no longer runs; a GAMEINFO waits for a proxy that is not ready, or whose*)
(* report comes before the end of its task.                                *)
(***************************************************************************)
Ready(t) == <<"ProxyReady", t>>
End(t) == <<"Finished", t>>

TasksInv ==
  /\ started \in Nat
  /\ running \subseteq 1..started
  /\ dying \subseteq (1..started) \ running
  /\ dying \subseteq aborted

EndsInv ==
  /\ evT \in Seq(TunnelEvent)
  /\ \A t \in Task : Has(evT, End(t)) => t \in (1..started) \ running

Announcing == injection # 0 => injection \in running \cup aborted \cup unready \/ Has(evT, End(injection))

Waiting ==
  gameinfo # 0 =>
    \/ gameinfo \in aborted \cup unready
    \/ gameinfo \in running /\ Has(evT, Ready(gameinfo))
    \/ Before(evT, Ready(gameinfo), End(gameinfo))

ClientInv == TasksInv /\ EndsInv /\ GhostHasCause /\ Announcing /\ Waiting

\* The events of different kinds, and of different tasks, are different.
LEMMA EventsDiffer ==
  /\ \A t, u : Ready(t) # End(u)
  /\ \A t, u : End(t) = End(u) => t = u
  /\ \A b \in BOOLEAN : \A t : <<"Captured", b>> # End(t) /\ <<"Captured", b>> # Ready(t)
  BY DEF Ready, End

\* What is in the queue is an event.
LEMMA EventTypes ==
  /\ \A t \in Task : Ready(t) \in TunnelEvent /\ End(t) \in TunnelEvent
  /\ \A b \in BOOLEAN : <<"Captured", b>> \in TunnelEvent
  BY DEF TunnelEvent, Ready, End

USE DEF netVars, srvVars, setupVars, userVars, stateVars, injectionVars, tunnelVars

\* Steps that have nothing to do with tunnels.
LEMMA TunnelsApart ==
  ASSUME ClientInv, UNCHANGED <<tunnelVars, evT>>
  PROVE  ClientInv'
  BY DEF ClientInv, TasksInv, EndsInv, GhostHasCause, Announcing, Waiting

\* abort_tunnel and the start of the next task, if there is one.
LEMMA Replaced ==
  ASSUME ClientInv, NEW n \in {0, 1},
         started' = started + n, running' = (running \ {handle}) \cup ((started + 1)..started'),
         dying' = dying \cup (running \cap {handle}),
         aborted' = aborted \cup (running \cap {handle}),
         handle' = n * (started + 1), UNCHANGED <<evT, orphaned>>,
         injection' \in {injection, 0},
         \/ UNCHANGED <<unready, gameinfo>>
         \/ unready' = unready \cup {started + 1} /\ gameinfo' = started + 1
  PROVE  ClientInv'
<1>1. /\ started' \in Nat /\ 1..started \subseteq 1..started'
      /\ running' \subseteq 1..started' /\ ((started + 1)..started') \cap (1..started) = {}
      /\ (started + 1)..started' \subseteq {handle'}
  <2>1. started \in Nat /\ running \subseteq 1..started
    BY DEF ClientInv, TasksInv
  <2>2. CASE n = 0
    <3>1. started' = started /\ (started + 1)..started' = {}
      BY <2>1, <2>2
    <3>2. running' \subseteq running
      BY <3>1
    <3> QED
      BY <2>1, <3>1, <3>2
  <2>3. CASE n = 1
    <3>1. started' = started + 1 /\ (started + 1)..started' = {started + 1} /\ handle' = started + 1
      BY <2>1, <2>3
    <3>2. 1..started \subseteq 1..(started + 1) /\ started + 1 \in 1..(started + 1) /\ started + 1 \notin 1..started
      BY <2>1
    <3>3. running' \subseteq running \cup {started + 1} /\ started + 1 \in Nat
      BY <2>1, <3>1
    <3>4. {started + 1} \cap (1..started) = {}
      BY <3>2
    <3>5. running' \subseteq 1..(started + 1)
      <4>1. running \subseteq 1..(started + 1)
        BY <2>1, <3>2, Zenon
      <4> QED
        BY <3>2, <3>3, <4>1, Zenon
    <3>6. started' \in Nat
      BY <3>1, <3>3, Zenon
    <3> QED
      BY <3>1, <3>2, <3>4, <3>5, <3>6, Zenon
  <2> QED
    BY <2>2, <2>3
<1>2. TasksInv'
  BY <1>1 DEF ClientInv, TasksInv
<1>3. EndsInv'
  BY <1>1 DEF ClientInv, EndsInv, TasksInv
<1>4. GhostHasCause'
  BY <1>1 DEF ClientInv, GhostHasCause
<1>5. running \subseteq running' \cup aborted' /\ aborted \subseteq aborted' /\ unready \subseteq unready'
  OBVIOUS
<1>6. Announcing'
  BY <1>5 DEF ClientInv, Announcing
<1>7. Waiting'
  BY <1>5 DEF ClientInv, Waiting
<1> QED
  BY <1>2, <1>3, <1>4, <1>6, <1>7 DEF ClientInv

\* What the tasks report.
LEMMA Reported ==
  ASSUME ClientInv, (\E t \in Task : ProxyBinds(t) \/ TunnelEnds(t)) \/ CaptureEnds \/ InjectionEnds
  PROVE  ClientInv'
<1> USE DEF ClientInv, TasksInv, EndsInv, GhostHasCause, Announcing, Waiting
<1>1. ASSUME NEW t \in Task, ProxyBinds(t)
      PROVE  ClientInv'
  <2>1. /\ t \in running \cup dying /\ unready' = unready \ {t} /\ evT' = Append(evT, Ready(t))
        /\ UNCHANGED <<running, dying, handle, started, gameinfo, injection, aborted, orphaned>>
    BY <1>1 DEF ProxyBinds, Ready
  <2>2. /\ evT' \in Seq(TunnelEvent)
        /\ Has(evT', Ready(t))
        /\ \A e : Has(evT, e) => Has(evT', e)
        /\ \A e : Has(evT', e) => Has(evT, e) \/ e = Ready(t)
        /\ \A e, f : Before(evT, e, f) => Before(evT', e, f)
    BY <2>1, EventTypes, AfterAppend
  <2>3. EndsInv'
    BY <2>1, <2>2, EventsDiffer
  <2> QED
    BY <2>1, <2>2, <2>3
<1>2. ASSUME NEW t \in Task, TunnelEnds(t), evT' = Append(evT, End(t))
      PROVE  ClientInv'
  <2>1. /\ t \in running \cup dying /\ running' = running \ {t} /\ dying' = dying \ {t}
        /\ UNCHANGED <<unready, handle, started, gameinfo, injection, aborted, orphaned>>
    BY <1>2 DEF TunnelEnds
  <2>2. /\ evT' \in Seq(TunnelEvent)
        /\ Has(evT', End(t))
        /\ \A e : Has(evT, e) => Has(evT', e) /\ Before(evT', e, End(t))
        /\ \A e : Has(evT', e) => Has(evT, e) \/ e = End(t)
        /\ \A e, f : Before(evT, e, f) => Before(evT', e, f)
    BY <1>2, EventTypes, AfterAppend
  <2>3. EndsInv'
    BY <2>1, <2>2, EventsDiffer
  <2> QED
    BY <2>1, <2>2, <2>3
<1>3. ASSUME NEW t \in Task, TunnelEnds(t), evT' # Append(evT, End(t))
      PROVE  ClientInv'
  <2>1. /\ UNCHANGED <<running, evT>> /\ dying' = dying \ {t}
        /\ UNCHANGED <<unready, handle, started, gameinfo, injection, aborted, orphaned>>
    BY <1>3 DEF TunnelEnds, End
  <2> QED
    BY <2>1
<1>4. CASE CaptureEnds
  <2>1. UNCHANGED tunnelVars
    BY <1>4 DEF CaptureEnds
  <2>2. PICK b \in BOOLEAN : evT' = Append(evT, <<"Captured", b>>)
    BY <1>4 DEF CaptureEnds
  <2>3. /\ evT' \in Seq(TunnelEvent)
        /\ \A e : Has(evT, e) => Has(evT', e)
        /\ \A e : Has(evT', e) => Has(evT, e) \/ e = <<"Captured", b>>
        /\ \A e, f : Before(evT, e, f) => Before(evT', e, f)
    BY <2>2, EventTypes, AfterAppend
  <2>4. \A t : End(t) # <<"Captured", b>>
    BY EventsDiffer
  <2>5. EndsInv'
    BY <2>1, <2>3, <2>4
  <2> QED
    BY <2>1, <2>3, <2>5
<1>5. CASE InjectionEnds
  <2>1. injection' = 0 /\ UNCHANGED <<evT, running, dying, handle, started, unready, gameinfo, aborted, orphaned>>
    BY <1>5 DEF InjectionEnds
  <2> QED
    BY <2>1
<1> QED
  BY <1>1, <1>2, <1>3, <1>4, <1>5

\* What the application makes of it.
LEMMA Handled ==
  ASSUME ClientInv, HandleTaskEvent
  PROVE  ClientInv'
<1> USE DEF ClientInv, TasksInv, EndsInv, GhostHasCause, Announcing, Waiting
<1>1. evT # <<>> /\ evT' = Tail(evT)
  BY DEF HandleTaskEvent, HandleProxyReady, HandleFinished, HandleCaptured, HandleTunnelEvent
<1>2. /\ evT' \in Seq(TunnelEvent)
      /\ \A e : Has(evT', e) => Has(evT, e)
      /\ \A e : Has(evT, e) => Has(evT', e) \/ e = Head(evT)
      /\ \A e, f : Before(evT, e, f) => Has(evT', f)
      /\ \A e, f : Before(evT, e, f) => Before(evT', e, f) \/ e = Head(evT)
  BY <1>1, AfterTail
<1>3. CASE HandleProxyReady
  <2>1. PICK t \in Task : Head(evT) = Ready(t)
    BY <1>3 DEF HandleProxyReady, Ready
  <2>2. /\ injection' = gameinfo /\ gameinfo' = 0
        /\ UNCHANGED <<running, dying, handle, started, unready, aborted, orphaned>>
    BY <1>3 DEF HandleProxyReady
  <2> QED
    BY <1>2, <2>2
<1>4. CASE HandleFinished
  <2>1. PICK t \in Task : Head(evT) = End(t) /\ orphaned' = orphaned \cup ((running \cap {handle}) \ {t})
    BY <1>4 DEF HandleFinished, End
  <2>2. /\ injection' = 0 /\ handle' = 0
        /\ UNCHANGED <<running, dying, started, unready, gameinfo, aborted>>
    BY <1>4 DEF HandleFinished
  <2>3. Has(evT, End(t))
    <3>1. Len(evT) \in Nat /\ Len(evT) > 0 /\ Head(evT) = evT[1]
      BY <1>1, HeadTailProperties, LenProperties, EmptySeq
    <3> QED
      BY <2>1, <3>1 DEF Has
  <2>4. t \notin running
    BY <2>3
  <2>5. \A u : Head(evT) # Ready(u)
    BY <2>1, EventsDiffer
  <2> QED
    BY <1>2, <2>1, <2>2, <2>4, <2>5
<1>5. CASE HandleCaptured
  <2>1. UNCHANGED tunnelVars
    BY <1>5 DEF HandleCaptured
  <2>2. PICK b \in BOOLEAN : Head(evT) = <<"Captured", b>>
    BY <1>5 DEF HandleCaptured
  <2>3. \A t : Head(evT) # End(t) /\ Head(evT) # Ready(t)
    BY <2>2, EventsDiffer
  <2> QED
    BY <1>2, <2>1, <2>3
<1> QED
  BY <1>3, <1>4, <1>5 DEF HandleTaskEvent

\* Where tasks are started and aborted.
LEMMA Started ==
  ASSUME ClientInv, HandleJoinOk \/ HandlePlayerJoined \/ Quit
  PROVE  ClientInv'
<1>1. started \in Nat
  BY DEF ClientInv, TasksInv
<1>2. (started + 1)..(started + 1) = {started + 1} /\ (started + 1)..started = {} /\ 1 * (started + 1) = started + 1
      /\ 0 * (started + 1) = 0 /\ started + 0 = started
  BY <1>1
<1>3. CASE HandleJoinOk /\ StartTunnel
  BY <1>2, <1>3, Replaced DEF HandleJoinOk, Handle, StartTunnel, Replace
<1>4. CASE HandleJoinOk /\ ~StartTunnel
  BY <1>4, TunnelsApart DEF HandleJoinOk, Handle
<1>5. CASE HandlePlayerJoined
  BY <1>2, <1>5, Replaced DEF HandlePlayerJoined, Handle, StartTunnel, Replace
<1>6. CASE Quit
  BY <1>2, <1>6, Replaced DEF Quit, Replace
<1> QED
  BY <1>3, <1>4, <1>5, <1>6

\* The invariant is inductive.
LEMMA ClientInvStep ==
  ASSUME ClientInv, [Next]_vars
  PROVE  ClientInv'
<1>1. CASE Network \/ Others \/ Evict
  BY <1>1, TunnelsApart DEF Network, Others, News, Evict, Connect, ConnectFails, SessionEnds, SendFails,
                            EndSession, SendCommand
<1>2. CASE HandleNetEvent
  BY <1>2, TunnelsApart, Started
     DEF HandleNetEvent, HandleConnected, HandleDisconnected, HandleReconnecting, HandleWelcome,
         HandleUpdate, HandleError, HandleJoinFail, Handle
<1>3. CASE User
  BY <1>3, TunnelsApart, Started DEF User, ClickJoin, ClickCreate, ClickClose, Dismiss, WizardDone, EditNickname
<1>4. CASE Tasks \/ HandleTaskEvent
  BY <1>4, Reported, Handled DEF Tasks
<1>5. CASE UNCHANGED vars
  BY <1>5, TunnelsApart DEF vars
<1> QED
  BY <1>1, <1>2, <1>3, <1>4, <1>5 DEF Next

\* At the start there is nothing to tell.
LEMMA ClientInvInit == Init => ClientInv
<1> SUFFICES ASSUME Init
             PROVE  ClientInv
  OBVIOUS
<1>1. evT \in Seq(TunnelEvent) /\ \A e : ~Has(evT, e)
  BY EmptySeq DEF Init, Has
<1> QED
  BY <1>1 DEF Init, ClientInv, TasksInv, EndsInv, GhostHasCause, Announcing, Waiting

\* A tunnel task runs without being in tunnel_handle only when the application has handled
\* the end of another task while it was there (app.rs).
THEOREM GhostsHaveCauses == Spec => []GhostHasCause
<1>1. ClientInv => GhostHasCause
  BY DEF ClientInv
<1> QED
  BY <1>1, ClientInvInit, ClientInvStep, PTL DEF Spec

\* A GAMEINFO is announced only for a task that runs, whose proxy is not ready, whose end
\* is about to be handled, or that the application has aborted.
THEOREM InjectionsHaveTunnels == Spec => []InjectionHasTunnel
<1>1. ClientInv => InjectionHasTunnel
  <2> SUFFICES ASSUME ClientInv, injection # 0, Has(evT, End(injection))
               PROVE  <<"Finished", injection>> \in Elems(evT)
    BY DEF ClientInv, Announcing, InjectionHasTunnel
  <2>1. DOMAIN evT = 1..Len(evT)
    BY DEF ClientInv, EndsInv
  <2> QED
    BY <2>1 DEF Has, End, Elems
<1> QED
  BY <1>1, ClientInvInit, ClientInvStep, PTL DEF Spec

(***************************************************************************)
(* The registration: a Welcome on its way is one of this session, or the   *)
(* end of its session comes after it.                                      *)
(***************************************************************************)
Overcome(s) ==
  \A i \in 1..Len(s) :
    s[i] = "Welcome" => \E j \in 1..Len(s) : i < j /\ s[j] = "Disconnected"

\* More events come.
LEMMA AfterConcat ==
  ASSUME NEW S, NEW s \in Seq(S), NEW x \in Seq(S)
  PROVE  /\ s \o x \in Seq(S)
         /\ \A e : Has(s, e) => Has(s \o x, e)
         /\ Overcome(s) /\ ~Has(x, "Welcome") => Overcome(s \o x)
         /\ Has(x, "Disconnected") /\ ~Has(x, "Welcome")
              => Overcome(s \o x) /\ Has(s \o x, "Disconnected")
<1>1. /\ s \o x \in Seq(S) /\ Len(s) \in Nat /\ Len(x) \in Nat /\ Len(s \o x) = Len(s) + Len(x)
      /\ \A i \in 1..(Len(s) + Len(x)) : (s \o x)[i] = IF i <= Len(s) THEN s[i] ELSE x[i - Len(s)]
  BY ConcatProperties, LenProperties
<1> DEFINE t == s \o x
<1>2. /\ Len(t) = Len(s) + Len(x)
      /\ \A i \in 1..Len(s) : i \in 1..Len(t) /\ t[i] = s[i]
  BY <1>1
<1>3. \A i \in 1..Len(x) : i + Len(s) \in 1..Len(t) /\ t[i + Len(s)] = x[i]
  BY <1>1
<1>4. \A i \in 1..Len(t) : i \in 1..Len(s) \/ (i - Len(s) \in 1..Len(x) /\ t[i] = x[i - Len(s)])
  BY <1>1
<1> HIDE DEF t
<1>5. \A e : Has(s, e) => Has(t, e)
  BY <1>2 DEF Has
<1>6. ASSUME Overcome(s), ~Has(x, "Welcome")
      PROVE  Overcome(t)
  BY <1>2, <1>4, <1>6 DEF Overcome, Has
<1>7. ASSUME Has(x, "Disconnected"), ~Has(x, "Welcome")
      PROVE  Overcome(t) /\ Has(t, "Disconnected")
  <2>1. PICK k \in 1..Len(x) : x[k] = "Disconnected"
    BY <1>7 DEF Has
  <2>2. k + Len(s) \in 1..Len(t) /\ t[k + Len(s)] = "Disconnected"
    BY <1>3, <2>1
  <2>3. ASSUME NEW i \in 1..Len(t), t[i] = "Welcome"
        PROVE  i < k + Len(s)
    <3>1. i \in 1..Len(s)
      BY <1>4, <1>7, <2>3 DEF Has
    <3> QED
      BY <1>1, <2>1, <3>1
  <2> QED
    BY <2>2, <2>3 DEF Overcome, Has
<1> QED
  BY <1>1, <1>5, <1>6, <1>7 DEF t

\* An event is handled.
LEMMA OvercomeTail ==
  ASSUME NEW S, NEW s \in Seq(S), s # <<>>, Overcome(s)
  PROVE  /\ Overcome(Tail(s))
         /\ Head(s) = "Welcome" => Has(Tail(s), "Disconnected")
<1>1. /\ Len(s) \in Nat /\ Len(s) > 0
      /\ Len(Tail(s)) = Len(s) - 1 /\ Head(s) = s[1]
      /\ \A i \in 1..(Len(s) - 1) : Tail(s)[i] = s[i + 1]
  BY HeadTailProperties, LenProperties, EmptySeq
<1>2. \A i \in 1..Len(Tail(s)) : i + 1 \in 1..Len(s) /\ Tail(s)[i] = s[i + 1]
  BY <1>1
<1>3. ASSUME NEW i \in 0..Len(Tail(s)), s[i + 1] = "Welcome"
      PROVE  \E j \in 1..Len(Tail(s)) : i < j /\ Tail(s)[j] = "Disconnected"
  <2>1. i + 1 \in 1..Len(s)
    BY <1>1
  <2>2. PICK j \in 1..Len(s) : i + 1 < j /\ s[j] = "Disconnected"
    BY <1>3, <2>1 DEF Overcome
  <2>3. j - 1 \in 1..Len(Tail(s)) /\ i < j - 1 /\ (j - 1) + 1 = j
    BY <1>1, <2>2
  <2> QED
    BY <1>2, <2>2, <2>3
<1>4. Overcome(Tail(s))
  <2> SUFFICES ASSUME NEW i \in 1..Len(Tail(s)), Tail(s)[i] = "Welcome"
               PROVE  \E j \in 1..Len(Tail(s)) : i < j /\ Tail(s)[j] = "Disconnected"
    BY DEF Overcome
  <2>1. i \in 0..Len(Tail(s)) /\ s[i + 1] = "Welcome"
    BY <1>1, <1>2
  <2> QED
    BY <1>3, <2>1
<1>5. ASSUME Head(s) = "Welcome"
      PROVE  Has(Tail(s), "Disconnected")
  <2>1. 0 \in 0..Len(Tail(s)) /\ s[0 + 1] = "Welcome"
    BY <1>1, <1>5
  <2> QED
    BY <1>3, <2>1 DEF Has
<1> QED
  BY <1>4, <1>5

Known == srv \in {"player", "evicted"}

RegInv ==
  /\ evQ \in Seq(NetEvent)
  /\ conn = "down" => srv = "none"
  /\ Known \/ Overcome(evQ)
  /\ me => Known \/ Has(evQ, "Disconnected") \/ ui = "closed"

\* The queue grows by events that are no Welcome, and the server forgets nobody.
LEMMA MoreNews ==
  ASSUME RegInv, NEW x \in Seq(NetEvent), ~Has(x, "Welcome"), evQ' = evQ \o x,
         UNCHANGED <<me, ui>>, conn' = "down" => srv' = "none", Known => Known'
  PROVE  RegInv'
<1>1. /\ evQ' \in Seq(NetEvent)
      /\ \A e : Has(evQ, e) => Has(evQ', e)
      /\ Overcome(evQ) => Overcome(evQ')
  BY AfterConcat DEF RegInv
<1> QED
  BY <1>1 DEF RegInv

\* Nothing changes in the queue.
LEMMA NoNews ==
  ASSUME RegInv, UNCHANGED <<evQ, me>>, ui' \in {ui, "closed"}, conn' = "down" => srv' = "none",
         Known => Known', ui = "closed" => ui' = "closed"
  PROVE  RegInv'
  BY DEF RegInv

\* The session ends.
LEMMA Ended ==
  ASSUME RegInv, EndSession
  PROVE  RegInv'
<1> DEFINE x == <<"Disconnected", "Reconnecting">>
<1>1. x \in Seq(NetEvent) /\ Len(x) = 2 /\ x[1] = "Disconnected" /\ x[2] = "Reconnecting"
  BY DEF NetEvent
<1>2. evQ' = evQ \o x /\ srv' = "none" /\ UNCHANGED <<me, ui>>
  BY DEF EndSession
<1> HIDE DEF x
<1>3. Has(x, "Disconnected") /\ ~Has(x, "Welcome")
  BY <1>1 DEF Has
<1>4. evQ' \in Seq(NetEvent) /\ Overcome(evQ') /\ Has(evQ', "Disconnected")
  BY <1>1, <1>2, <1>3, AfterConcat DEF RegInv
<1> QED
  BY <1>2, <1>4 DEF RegInv

\* What is left of an answer is made of what the answer is made of.
LEMMA LeftInSeq ==
  ASSUME NEW S, NEW s \in Seq(S)
  PROVE  Left(s) \subseteq Seq(S)
<1>1. \A i \in DOMAIN s : s[i] \in S
  BY ElementOfSeq, LenProperties
<1>2. \A x \in S : <<x>> \in Seq(S)
  OBVIOUS
<1>3. \A x, y \in S : <<x, y>> \in Seq(S)
  OBVIOUS
<1>4. <<>> \in Seq(S)
  BY EmptySeq
<1> QED
  BY <1>1, <1>2, <1>3, <1>4 DEF Left

Calls == {"JoinOk", "PlayerJoined"}
Plain == NetEvent \ ({"Connected", "Welcome"} \cup Calls)

\* Most of what the server sends neither registers anybody nor starts a tunnel.
LEMMA PlainKinds ==
  /\ {"Disconnected", "Reconnecting", "Update", "UpdateHosting", "JoinOkBare", "JoinFail", "Error"} \subseteq Plain
  /\ \A b : Update(b) \in Plain
  BY DEF Plain, NetEvent, Calls, Update

\* The server sends a Welcome only to a player that it has just registered, and the news of
\* a join only while there is room for a tunnel.
LEMMA AnswerKinds ==
  ASSUME evQ \in Seq(NetEvent), SendCommand
  PROVE  \E t : /\ evQ' = evQ \o t
                /\ \/ t \in Seq(Plain) /\ (srv' = srv \/ (srv = "none" /\ srv' = "refused"))
                   \/ t \in Seq(Plain \cup {"Welcome"}) /\ srv' = "player"
                   \/ t \in Left(<<"JoinOk", Update(srvRoom)>>) /\ Announced < MaxTunnels /\ srv' = srv
<1> DEFINE Plainly == \E t \in Seq(Plain) : evQ' = evQ \o t
<1>1. ASSUME NEW s \in Seq(Plain), Answer(s)
      PROVE  Plainly
  BY <1>1, LeftInSeq DEF Answer
<1>2. ASSUME Silent
      PROVE  Plainly
  <2>1. evQ \o <<>> = evQ /\ <<>> \in Seq(Plain)
    BY ConcatEmptySeq, EmptySeq
  <2> QED
    BY <1>2, <2>1 DEF Silent
<1>3. /\ \A x \in Plain : <<x>> \in Seq(Plain)
      /\ \A x, y \in Plain : <<x, y>> \in Seq(Plain)
  OBVIOUS
<1> HIDE DEF Plainly
<1>4. CASE ServerRefuses
  <2>1. Plainly
    BY <1>1, <1>3, <1>4, PlainKinds DEF ServerRefuses
  <2> QED
    BY <1>4, <2>1 DEF ServerRefuses, Plainly
<1>5. CASE ServerRegister
  <2> DEFINE All == Plain \cup {"Welcome"}
  <2>1. "Welcome" \in All /\ "Update" \in All
    BY PlainKinds
  <2>2. <<"Welcome", "Update">> \in Seq(All) /\ <<"Update", "Welcome", "Update">> \in Seq(All)
    BY <2>1
  <2> HIDE DEF All
  <2>3. \E t \in Seq(All) : evQ' = evQ \o t
    BY <1>5, <2>2, LeftInSeq DEF ServerRegister, Answer
  <2> QED
    BY <1>5, <2>3 DEF ServerRegister, All
<1>6. CASE ServerJoin
  <2>1. Plainly \/ (Announced < MaxTunnels /\ Answer(<<"JoinOk", Update(srvRoom)>>))
    BY <1>1, <1>2, <1>3, <1>6, PlainKinds DEF ServerJoin
  <2>2. srv' = srv
    BY <1>6 DEF ServerJoin
  <2> QED
    BY <2>1, <2>2 DEF Plainly, Answer
<1>7. CASE ServerCreate
  <2>1. Plainly
    BY <1>1, <1>2, <1>3, <1>7, PlainKinds DEF ServerCreate
  <2> QED
    BY <1>7, <2>1 DEF ServerCreate, Plainly
<1>8. CASE ServerClose
  <2>1. Plainly
    BY <1>1, <1>2, <1>3, <1>8, PlainKinds DEF ServerClose
  <2> QED
    BY <1>8, <2>1 DEF ServerClose, Plainly
<1> QED
  BY <1>4, <1>5, <1>6, <1>7, <1>8 DEF SendCommand

\* What may be left of the answer to a join that was successful.
LEMMA LeftOfJoin ==
  \A x, y : Left(<<x, y>>) = {<<>>, <<x>>, <<y>>, <<x, y>>}
<1> TAKE x, y
<1>1. DOMAIN <<x, y>> = {1, 2}
  OBVIOUS
<1>2. {p \in {1, 2} \X {1, 2} : p[1] < p[2]} = {<<1, 2>>}
  OBVIOUS
<1> QED
  BY <1>1, <1>2 DEF Left

\* What the server answers.
LEMMA Answered ==
  ASSUME RegInv, SendCommand
  PROVE  RegInv'
<1>1. UNCHANGED <<conn, me, ui>> /\ conn = "up"
  BY DEF SendCommand
<1>2. ASSUME NEW x \in Seq(NetEvent), evQ' = evQ \o x, srv' = "player"
      PROVE  RegInv'
  <2>1. evQ' \in Seq(NetEvent) /\ \A e : Has(evQ, e) => Has(evQ', e)
    BY <1>2, AfterConcat DEF RegInv
  <2> QED
    BY <1>1, <1>2, <2>1 DEF RegInv, Known
<1>3. ASSUME NEW x \in Seq(NetEvent), evQ' = evQ \o x, ~Has(x, "Welcome"), Known => srv' = srv
      PROVE  RegInv'
  BY <1>1, <1>3, MoreNews DEF Known
<1>4. ASSUME NEW x \in Seq(NetEvent \ {"Welcome"})
      PROVE  x \in Seq(NetEvent) /\ ~Has(x, "Welcome")
  <2>1. \A i \in 1..Len(x) : x[i] \in NetEvent \ {"Welcome"}
    BY <1>4, ElementOfSeq
  <2>2. x \in Seq(NetEvent)
    BY <1>4, SeqMonotonic
  <2> QED
    BY <2>1, <2>2 DEF Has
<1>5. PICK t : /\ evQ' = evQ \o t
               /\ \/ t \in Seq(Plain) /\ (srv' = srv \/ (srv = "none" /\ srv' = "refused"))
                  \/ t \in Seq(Plain \cup {"Welcome"}) /\ srv' = "player"
                  \/ t \in Left(<<"JoinOk", Update(srvRoom)>>) /\ Announced < MaxTunnels /\ srv' = srv
  BY AnswerKinds DEF RegInv
<1>6. CASE t \in Seq(Plain) /\ (srv' = srv \/ (srv = "none" /\ srv' = "refused"))
  <2>1. t \in Seq(NetEvent \ {"Welcome"})
    BY <1>6, SeqMonotonic DEF Plain
  <2> QED
    BY <1>3, <1>4, <1>5, <1>6, <2>1 DEF Known
<1>7. CASE t \in Seq(Plain \cup {"Welcome"}) /\ srv' = "player"
  <2>1. t \in Seq(NetEvent)
    BY <1>7, SeqMonotonic DEF Plain, NetEvent
  <2> QED
    BY <1>2, <1>5, <1>7, <2>1
<1>8. CASE t \in Left(<<"JoinOk", Update(srvRoom)>>) /\ Announced < MaxTunnels /\ srv' = srv
  <2>1. "JoinOk" \in NetEvent \ {"Welcome"} /\ Update(srvRoom) \in NetEvent \ {"Welcome"}
    BY DEF NetEvent, Update
  <2>2. <<"JoinOk", Update(srvRoom)>> \in Seq(NetEvent \ {"Welcome"})
    BY <2>1
  <2>3. t \in Seq(NetEvent \ {"Welcome"})
    BY <1>8, <2>2, LeftInSeq
  <2> QED
    BY <1>3, <1>4, <1>5, <1>8, <2>3 DEF Known
<1> QED
  BY <1>5, <1>6, <1>7, <1>8

\* Events of the server and of the network, handled one by one.
LEMMA NewsHandled ==
  ASSUME RegInv, HandleNetEvent
  PROVE  RegInv'
<1>1. /\ evQ # <<>> /\ evQ' = Tail(evQ) /\ ui # "closed" /\ UNCHANGED <<conn, srv>>
  BY DEF HandleNetEvent, HandleConnected, HandleDisconnected, HandleReconnecting, HandleWelcome,
         HandleUpdate, HandleError, HandleJoinOk, HandleJoinFail, HandlePlayerJoined, Handle
<1>2. /\ evQ' \in Seq(NetEvent)
      /\ \A e : Has(evQ, e) => Has(evQ', e) \/ e = Head(evQ)
      /\ Overcome(evQ) => Overcome(evQ') /\ (Head(evQ) = "Welcome" => Has(evQ', "Disconnected"))
  BY <1>1, AfterTail, OvercomeTail DEF RegInv
<1>3. CASE HandleDisconnected
  <2>1. me' = FALSE
    BY <1>3 DEF HandleDisconnected
  <2> QED
    BY <1>1, <1>2, <2>1 DEF RegInv, Known
<1>4. CASE HandleWelcome
  <2>1. Head(evQ) = "Welcome"
    BY <1>4 DEF HandleWelcome, Handle
  <2> QED
    BY <1>1, <1>2, <2>1 DEF RegInv, Known
<1>5. CASE ~HandleDisconnected /\ ~HandleWelcome
  <2>1. UNCHANGED me /\ Head(evQ) # "Disconnected"
    BY <1>5 DEF HandleNetEvent, HandleConnected, HandleReconnecting, HandleUpdate, HandleError,
                HandleJoinOk, HandleJoinFail, HandlePlayerJoined, Handle
  <2> QED
    BY <1>1, <1>2, <2>1 DEF RegInv, Known
<1> QED
  BY <1>3, <1>4, <1>5

\* The invariant is inductive, ...
LEMMA RegInvStep ==
  ASSUME RegInv, [Next]_vars
  PROVE  RegInv'
<1>1. ASSUME NEW e \in NetEvent \ {"Welcome"}
      PROVE  <<e>> \in Seq(NetEvent) /\ ~Has(<<e>>, "Welcome")
  BY DEF Has
<1>2. {"Connected", "Reconnecting", "PlayerJoined", "Error"} \subseteq NetEvent \ {"Welcome"}
      /\ Update(srvRoom) \in NetEvent \ {"Welcome"}
  BY DEF NetEvent, Update
<1>3. CASE Connect
  <2>1. evQ' = evQ \o <<"Connected">>
    BY <1>1, <1>2, <1>3, AppendIsConcat DEF Connect, RegInv
  <2> QED
    BY <1>1, <1>2, <1>3, <2>1, MoreNews DEF Connect, RegInv, Known
<1>4. CASE ConnectFails
  <2>1. evQ' = evQ \o <<"Reconnecting">>
    BY <1>1, <1>2, <1>4, AppendIsConcat DEF ConnectFails, RegInv
  <2> QED
    BY <1>1, <1>2, <1>4, <2>1, MoreNews DEF ConnectFails, RegInv, Known
<1>5. CASE SessionEnds \/ SendFails \/ SendCommand
  BY <1>5, Ended, Answered DEF SessionEnds, SendFails
<1>6. CASE Others
  <2>1. PICK e \in NetEvent \ {"Welcome"} : News(e)
    BY <1>2, <1>6 DEF Others
  <2>2. evQ' = evQ \o <<e>>
    BY <2>1, AppendIsConcat DEF News, RegInv
  <2> QED
    BY <1>1, <2>1, <2>2, MoreNews DEF News, RegInv, Known
<1>7. CASE Evict
  BY <1>7, NoNews DEF Evict, RegInv, Known
<1>8. CASE HandleNetEvent
  BY <1>8, NewsHandled
<1>9. CASE HandleTaskEvent \/ Tasks
  <2>1. UNCHANGED <<evQ, me, ui, conn, srv>>
    BY <1>9 DEF HandleTaskEvent, HandleProxyReady, HandleFinished, HandleCaptured,
                HandleTunnelEvent, Tasks, CaptureEnds, InjectionEnds, ProxyBinds, TunnelEnds
  <2> QED
    BY <2>1, NoNews DEF RegInv, Known
<1>10. CASE User
  <2>1. /\ UNCHANGED <<evQ, me, srv>> /\ ui' \in {ui, "closed"} /\ conn' \in {conn, "stopped"}
    BY <1>10 DEF User, ClickJoin, ClickCreate, ClickClose, Dismiss, WizardDone, EditNickname, Quit
  <2> QED
    BY <2>1, NoNews DEF RegInv, Known
<1>11. CASE UNCHANGED vars
  BY <1>11, NoNews DEF vars, RegInv, Known
<1> QED
  BY <1>3, <1>4, <1>5, <1>6, <1>7, <1>8, <1>9, <1>10, <1>11 DEF Next, Network

\* ... and holds at the start.
LEMMA RegInvInit == Init => RegInv
<1> SUFFICES ASSUME Init
             PROVE  RegInv
  OBVIOUS
<1>1. evQ \in Seq(NetEvent) /\ Overcome(evQ)
  BY EmptySeq DEF Init, Overcome
<1> QED
  BY <1>1 DEF Init, RegInv

\* my_player_id of the application (app.rs) is of the present session, over any number of
\* sessions, or the news that the session is over is in the queue.
THEOREM RegisteredMeansKnown == Spec => []RegisteredIsTrue
<1>1. RegInv => RegisteredIsTrue
  <2> SUFFICES ASSUME RegInv, Has(evQ, "Disconnected")
               PROVE  "Disconnected" \in Elems(evQ)
    BY DEF RegInv, RegisteredIsTrue, Known
  <2>1. DOMAIN evQ = 1..Len(evQ)
    BY DEF RegInv
  <2> QED
    BY <2>1 DEF Has, Elems
<1> QED
  BY <1>1, RegInvInit, RegInvStep, PTL DEF Spec

(***************************************************************************)
(* Counting what waits in a queue.                                         *)
(***************************************************************************)
Places(s, S) == {i \in DOMAIN s : s[i] \in S}

\* The places of a queue are finitely many.
LEMMA PlacesFinite ==
  ASSUME NEW E, NEW s \in Seq(E), NEW S
  PROVE  /\ DOMAIN s = 1..Len(s) /\ Len(s) \in Nat
         /\ IsFiniteSet(Places(s, S)) /\ Count(s, S) = Cardinality(Places(s, S)) /\ Count(s, S) \in Nat
<1>1. DOMAIN s = 1..Len(s) /\ Len(s) \in Nat
  BY LenProperties
<1>2. IsFiniteSet(1..Len(s))
  BY <1>1, FS_Interval
<1>3. Places(s, S) \in SUBSET (1..Len(s))
  BY <1>1 DEF Places
<1>4. IsFiniteSet(Places(s, S))
  BY <1>2, <1>3, FS_Subset
<1>5. Count(s, S) = Cardinality(Places(s, S))
  BY DEF Count, Places
<1> QED
  BY <1>1, <1>4, <1>5, FS_CardinalityType

\* Nothing waits in an empty queue.
LEMMA CountEmpty == \A S : Count(<<>>, S) = 0
<1> TAKE S
<1>1. {i \in DOMAIN <<>> : <<>>[i] \in S} = {}
  OBVIOUS
<1>2. Cardinality({}) = 0
  BY FS_EmptySet
<1> QED
  BY <1>1, <1>2 DEF Count

\* One more waits.
LEMMA CountAppend ==
  ASSUME NEW E, NEW s \in Seq(E), NEW x \in E, NEW S
  PROVE  Count(Append(s, x), S) = Count(s, S) + IF x \in S THEN 1 ELSE 0
<1> DEFINE t == Append(s, x)
           n == Len(s) + 1
<1>1. /\ t \in Seq(E) /\ Len(s) \in Nat /\ DOMAIN s = 1..Len(s) /\ DOMAIN t = 1..n
      /\ t[n] = x /\ \A i \in 1..Len(s) : t[i] = s[i]
  BY AppendProperties, LenProperties
<1> HIDE DEF t
<1>2. /\ IsFiniteSet(Places(s, S)) /\ Count(s, S) = Cardinality(Places(s, S)) /\ Count(s, S) \in Nat
      /\ Count(t, S) = Cardinality(Places(t, S))
  BY <1>1, PlacesFinite
<1>3. n \notin 1..Len(s) /\ 1..n = 1..Len(s) \cup {n}
  BY <1>1
<1> HIDE DEF n
<1>4. CASE x \in S
  <2>1. Places(t, S) = Places(s, S) \cup {n} /\ n \notin Places(s, S)
    BY <1>1, <1>3, <1>4 DEF Places
  <2> QED
    BY <1>2, <1>4, <2>1, FS_AddElement DEF t
<1>5. CASE x \notin S
  <2>1. Places(t, S) = Places(s, S)
    BY <1>1, <1>3, <1>5 DEF Places
  <2> QED
    BY <1>2, <1>5, <2>1 DEF t
<1> QED
  BY <1>4, <1>5

\* The first one is taken.
LEMMA CountTail ==
  ASSUME NEW E, NEW s \in Seq(E), s # <<>>, NEW S
  PROVE  Count(s, S) = Count(Tail(s), S) + IF Head(s) \in S THEN 1 ELSE 0
<1> DEFINE t == Tail(s)
           n == Len(s)
           Later == {i \in 2..n : s[i] \in S}
           f == [i \in Places(t, S) |-> i + 1]
<1>1. /\ t \in Seq(E) /\ n \in Nat /\ n > 0 /\ DOMAIN s = 1..n /\ DOMAIN t = 1..(n - 1)
      /\ Head(s) = s[1] /\ \A i \in 1..(n - 1) : t[i] = s[i + 1]
  BY HeadTailProperties, LenProperties, EmptySeq
<1> HIDE DEF t
<1>2. /\ Count(s, S) = Cardinality(Places(s, S)) /\ IsFiniteSet(Places(t, S))
      /\ Count(t, S) = Cardinality(Places(t, S)) /\ Count(t, S) \in Nat
  BY <1>1, PlacesFinite
<1>3. \A i \in 2..n : i - 1 \in 1..(n - 1) /\ (i - 1) + 1 = i
  BY <1>1
<1>4. \A i \in 1..(n - 1) : i \in Nat /\ i + 1 \in 2..n
  BY <1>1
<1>5. 1..n = 2..n \cup {1} /\ 1 \notin 2..n
  BY <1>1
<1> HIDE DEF n
<1>6. f \in Bijection(Places(t, S), Later)
  <2>1. \A i \in Places(t, S) : i \in 1..(n - 1) /\ t[i] \in S
    BY <1>1 DEF Places
  <2>2. f \in [Places(t, S) -> Later]
    BY <1>1, <1>4, <2>1
  <2>3. \A i, j \in Places(t, S) : f[i] = f[j] => i = j
    BY <1>4, <2>1
  <2>4. ASSUME NEW i \in Later
        PROVE  \E j \in Places(t, S) : f[j] = i
    <3>1. i - 1 \in 1..(n - 1) /\ (i - 1) + 1 = i /\ s[i] \in S
      BY <1>3
    <3>2. i - 1 \in Places(t, S)
      BY <1>1, <3>1 DEF Places
    <3> QED
      BY <3>1, <3>2
  <2> QED
    BY <2>2, <2>3, <2>4 DEF Bijection, Injection, Surjection, IsInjective
<1> HIDE DEF f, Later
<1>7. IsFiniteSet(Later) /\ Cardinality(Later) = Count(t, S)
  BY <1>2, <1>6, FS_Bijection DEF ExistsBijection
<1>8. CASE Head(s) \in S
  <2>1. Places(s, S) = Later \cup {1} /\ 1 \notin Later
    BY <1>1, <1>5, <1>8 DEF Places, Later
  <2>2. Cardinality(Later \cup {1}) = Cardinality(Later) + 1
    BY <1>7, <2>1, FS_AddElement, Zenon
  <2> QED
    BY <1>2, <1>7, <1>8, <2>1, <2>2 DEF t
<1>9. CASE Head(s) \notin S
  <2>1. Places(s, S) = Later
    BY <1>1, <1>5, <1>9 DEF Places, Later
  <2> QED
    BY <1>2, <1>7, <1>9, <2>1 DEF t
<1> QED
  BY <1>8, <1>9

\* An answer of no, one or two events.
LEMMA CountAnswer ==
  ASSUME NEW E, NEW s \in Seq(E), NEW S
  PROVE  /\ s \o <<>> = s
         /\ \A x \in E : Count(s \o <<x>>, S) = Count(s, S) + IF x \in S THEN 1 ELSE 0
         /\ \A x, y \in E : Count(s \o <<x, y>>, S)
              = Count(s, S) + (IF x \in S THEN 1 ELSE 0) + IF y \in S THEN 1 ELSE 0
<1>1. s \o <<>> = s
  BY ConcatEmptySeq
<1>2. ASSUME NEW x \in E
      PROVE  s \o <<x>> = Append(s, x)
  BY AppendIsConcat
<1>3. ASSUME NEW x \in E, NEW y \in E
      PROVE  s \o <<x, y>> = Append(Append(s, x), y)
  <2>1. Append(s, x) = s \o <<x>> /\ Append(s, x) \in Seq(E)
    BY AppendIsConcat, AppendProperties
  <2>2. Append(Append(s, x), y) = (s \o <<x>>) \o <<y>>
    BY <2>1, AppendIsConcat
  <2>3. (s \o <<x>>) \o <<y>> = s \o (<<x>> \o <<y>>)
    <3>1. <<x>> \in Seq(E) /\ <<y>> \in Seq(E)
      OBVIOUS
    <3> QED
      BY <3>1, ConcatAssociative
  <2>4. <<x>> \o <<y>> = <<x, y>>
    <3>1. <<x>> \in Seq(E) /\ <<y>> \in Seq(E) /\ <<x, y>> \in Seq(E) /\ Len(<<x>>) = 1 /\ Len(<<y>>) = 1
      OBVIOUS
    <3>2. /\ <<x>> \o <<y>> \in Seq(E) /\ Len(<<x>> \o <<y>>) = 2
          /\ \A i \in 1..2 : (<<x>> \o <<y>>)[i] = IF i <= 1 THEN <<x>>[i] ELSE <<y>>[i - 1]
      BY <3>1, ConcatProperties
    <3>3. \A i \in 1..2 : (<<x>> \o <<y>>)[i] = <<x, y>>[i]
      BY <3>2
    <3> QED
      BY <3>1, <3>2, <3>3, SeqEqual
  <2> QED
    BY <2>2, <2>3, <2>4
<1>4. \A x \in E : Append(s, x) \in Seq(E) /\ Count(s, S) \in Nat
  BY AppendProperties, PlacesFinite
<1>5. ASSUME NEW x \in E, NEW y \in E
      PROVE  Count(s \o <<x, y>>, S) = Count(s, S) + (IF x \in S THEN 1 ELSE 0) + IF y \in S THEN 1 ELSE 0
  <2>1. Count(Append(s, x), S) = Count(s, S) + IF x \in S THEN 1 ELSE 0
    BY CountAppend
  <2>2. Count(Append(Append(s, x), y), S) = Count(Append(s, x), S) + IF y \in S THEN 1 ELSE 0
    BY <1>4, CountAppend
  <2> QED
    BY <1>3, <2>1, <2>2
<1>6. \A x \in E : Count(Append(s, x), S) = Count(s, S) + IF x \in S THEN 1 ELSE 0
  BY CountAppend
<1> QED
  BY <1>1, <1>2, <1>5, <1>6

\* Answers of other kinds.
LEMMA CountApart ==
  ASSUME NEW E, NEW s \in Seq(E), NEW S, NEW x \in Seq(E \ S)
  PROVE  s \o x \in Seq(E) /\ Count(s \o x, S) = Count(s, S)
<1> DEFINE t == s \o x
<1>1. x \in Seq(E) /\ Len(x) \in Nat /\ \A i \in 1..Len(x) : x[i] \in E \ S
  <2>1. x \in Seq(E)
    BY SeqMonotonic
  <2> QED
    BY <2>1, ElementOfSeq, LenProperties
<1>2. /\ t \in Seq(E) /\ Len(s) \in Nat /\ Len(t) = Len(s) + Len(x)
      /\ \A i \in 1..(Len(s) + Len(x)) : t[i] = IF i <= Len(s) THEN s[i] ELSE x[i - Len(s)]
  BY <1>1, ConcatProperties, LenProperties
<1> HIDE DEF t
<1>3. \A i \in 1..Len(t) : i \in 1..Len(s) \/ t[i] \notin S
  BY <1>1, <1>2
<1>4. \A i \in 1..Len(s) : i \in 1..Len(t) /\ t[i] = s[i]
  BY <1>1, <1>2
<1>5. DOMAIN s = 1..Len(s) /\ DOMAIN t = 1..Len(t)
  BY <1>2, LenProperties
<1>6. Places(t, S) = Places(s, S)
  BY <1>3, <1>4, <1>5 DEF Places
<1>7. Count(s, S) = Cardinality(Places(s, S)) /\ Count(t, S) = Cardinality(Places(t, S))
  BY <1>2, PlacesFinite
<1> QED
  BY <1>2, <1>6, <1>7 DEF t

(***************************************************************************)
(* The types: what makes them inductive is that every tunnel that a        *)
(* message on its way will start is within the bound, and every capture    *)
(* that runs was clicked.                                                  *)
(***************************************************************************)
TypeInv ==
  /\ ClientTypeOK
  /\ captures <= clicks
  /\ Announced <= MaxTunnels

NetTypes ==
  /\ conn \in {"down", "up", "stopped"} /\ session \in 0..MaxSessions
  /\ srv \in {"none", "refused", "player", "evicted"} /\ srvRoom \in BOOLEAN /\ lost \in BOOLEAN

AppTypes ==
  /\ ui \in {"Disconnected", "Connected", "Reconnecting", "closed"}
  /\ wizard \in BOOLEAN /\ configured \in BOOLEAN /\ wizard => ~configured
  /\ unnamed \in BOOLEAN /\ me \in BOOLEAN /\ listed \in BOOLEAN /\ hosting \in BOOLEAN
  /\ pending \in InFlight \cup Told \cup {"None"}
  /\ clicks \in 0..MaxClicks /\ captures \in 0..clicks

QueueTypes ==
  /\ cmdQ \in Seq(Command) /\ evQ \in Seq(NetEvent)
  /\ started \in Nat /\ started + Count(evQ, Calls) <= MaxTunnels

TunnelTypes ==
  /\ evT \in Seq(TunnelEvent)
  /\ started \in Nat /\ handle \in 0..started
  /\ gameinfo \in 0..started /\ injection \in 0..started
  /\ running \subseteq 1..started /\ dying \subseteq 1..started /\ unready \subseteq 1..started
  /\ aborted \subseteq 1..started /\ orphaned \subseteq 1..started

\* The parts of the invariant.
LEMMA TypeParts ==
  TypeInv <=> NetTypes /\ AppTypes /\ QueueTypes /\ TunnelTypes
<1>1. ASSUME TypeInv
      PROVE  NetTypes /\ AppTypes /\ QueueTypes /\ TunnelTypes
  <2>1. captures \in 0..clicks
    BY <1>1 DEF TypeInv, ClientTypeOK
  <2> QED
    BY <1>1, <2>1 DEF TypeInv, ClientTypeOK, NetTypes, AppTypes, QueueTypes, TunnelTypes, Announced, Calls
<1>2. ASSUME NetTypes, AppTypes, QueueTypes, TunnelTypes
      PROVE  TypeInv
  <2>1. Count(evQ, Calls) \in Nat
    BY <1>2, PlacesFinite DEF QueueTypes
  <2>2. started \in 0..MaxTunnels /\ Announced <= MaxTunnels
    BY <1>2, <2>1, ClientAssumption DEF QueueTypes, Announced, Calls
  <2>3. captures \in 0..MaxClicks /\ captures <= clicks
    BY <1>2, ClientAssumption DEF AppTypes
  <2>4. \A s \in {running, dying, unready, aborted, orphaned} : s \subseteq 1..started
    BY <1>2 DEF TunnelTypes
  <2> QED
    BY <1>2, <2>2, <2>3, <2>4 DEF TypeInv, ClientTypeOK, NetTypes, AppTypes, QueueTypes, TunnelTypes
<1> QED
  BY <1>1, <1>2

\* The network task and the server.
LEMMA NetTypesStep ==
  ASSUME NetTypes, [Next]_vars
  PROVE  NetTypes'
<1> USE DEF NetTypes
<1>1. CASE Network
  <2>1. CASE Connect
    <3>1. /\ conn' = "up" /\ session' = session + 1 /\ session < MaxSessions
          /\ srv' = "none" /\ srvRoom' = FALSE /\ UNCHANGED lost
      BY <2>1 DEF Connect
    <3>2. session + 1 \in 0..MaxSessions
      BY <3>1, ClientAssumption
    <3> QED
      BY <3>1, <3>2
  <2>2. CASE ConnectFails
    BY <2>2 DEF ConnectFails
  <2>3. CASE SessionEnds \/ SendFails
    BY <2>3 DEF SessionEnds, SendFails, EndSession
  <2>4. CASE SendCommand
    <3>1. ASSUME NEW s, Answer(s)
          PROVE  lost' \in BOOLEAN
      BY <3>1 DEF Answer
    <3>2. UNCHANGED <<conn, session>>
      BY <2>4 DEF SendCommand
    <3>3. lost' \in BOOLEAN
      BY <2>4, <3>1 DEF SendCommand, ServerRefuses, ServerRegister, ServerJoin, ServerCreate, ServerClose, Silent
    <3>4. srv' \in {srv, "refused", "player"} /\ srvRoom' \in BOOLEAN
      BY <2>4 DEF SendCommand, ServerRefuses, ServerRegister, ServerJoin, ServerCreate, ServerClose
    <3> QED
      BY <3>2, <3>3, <3>4
  <2> QED
    BY <1>1, <2>1, <2>2, <2>3, <2>4 DEF Network
<1>2. CASE Others \/ Evict
  BY <1>2 DEF Others, News, Evict
<1>3. CASE HandleNetEvent
  <2>1. UNCHANGED <<netVars, srvVars, lost>>
    BY <1>3 DEF HandleNetEvent, HandleConnected, HandleDisconnected, HandleReconnecting, HandleWelcome,
                HandleUpdate, HandleError, HandleJoinOk, HandleJoinFail, HandlePlayerJoined, Handle
  <2> QED
    BY <2>1
<1>4. CASE HandleTaskEvent \/ Tasks \/ UNCHANGED vars
  <2>1. UNCHANGED <<netVars, srvVars, lost>>
    BY <1>4 DEF HandleTaskEvent, HandleProxyReady, HandleFinished, HandleCaptured, HandleTunnelEvent,
                Tasks, CaptureEnds, InjectionEnds, ProxyBinds, TunnelEnds, vars
  <2> QED
    BY <2>1
<1>5. CASE User
  BY <1>5 DEF User, ClickJoin, ClickCreate, ClickClose, Dismiss, WizardDone, EditNickname, Quit
<1> QED
  BY <1>1, <1>2, <1>3, <1>4, <1>5 DEF Next

\* The application.
LEMMA AppTypesStep ==
  ASSUME AppTypes, [Next]_vars
  PROVE  AppTypes'
<1> USE DEF AppTypes
<1>1. CASE Network \/ Others \/ Evict \/ UNCHANGED vars
  <2>1. UNCHANGED <<stateVars, userVars, pending, captures>>
    BY <1>1 DEF Network, Others, News, Evict, Connect, ConnectFails, SessionEnds, SendFails, EndSession,
                SendCommand, vars
  <2> QED
    BY <2>1
<1>2. CASE HandleNetEvent
  <2>1. UNCHANGED <<userVars, captures>>
    BY <1>2 DEF HandleNetEvent, HandleConnected, HandleDisconnected, HandleReconnecting, HandleWelcome,
                HandleUpdate, HandleError, HandleJoinOk, HandleJoinFail, HandlePlayerJoined, Handle
  <2>2. /\ ui' \in {ui, "Disconnected", "Connected", "Reconnecting"}
        /\ unnamed' \in BOOLEAN /\ me' \in BOOLEAN /\ listed' \in BOOLEAN /\ hosting' \in BOOLEAN
    BY <1>2 DEF HandleNetEvent, HandleConnected, HandleDisconnected, HandleReconnecting, HandleWelcome,
                HandleUpdate, HandleError, HandleJoinOk, HandleJoinFail, HandlePlayerJoined, Handle
  <2>3. pending' \in {pending, "None", "JoinSuccess", "JoinFailed", "ServerError"}
    BY <1>2 DEF HandleNetEvent, HandleConnected, HandleDisconnected, HandleReconnecting, HandleWelcome,
                HandleUpdate, HandleError, HandleJoinOk, HandleJoinFail, HandlePlayerJoined, Cancelled
  <2> QED
    BY <2>1, <2>2, <2>3 DEF InFlight, Told
<1>3. CASE HandleTaskEvent
  <2>1. UNCHANGED <<stateVars, userVars, captures>> /\ pending' \in {pending, "None"}
    BY <1>3 DEF HandleTaskEvent, HandleProxyReady, HandleFinished, HandleCaptured, HandleTunnelEvent
  <2> QED
    BY <2>1
<1>4. CASE Tasks
  BY <1>4 DEF Tasks, CaptureEnds, InjectionEnds, ProxyBinds, TunnelEnds
<1>5. CASE User
  <2>1. CASE ClickJoin \/ ClickCreate
    <3>1. clicks' = clicks + 1 /\ clicks < MaxClicks /\ captures' \in {captures, captures + 1}
          /\ pending' \in InFlight /\ UNCHANGED <<stateVars, setupVars>>
      BY <2>1 DEF ClickJoin, ClickCreate, InFlight
    <3> QED
      BY <3>1, ClientAssumption
  <2>2. CASE ClickClose \/ Dismiss \/ WizardDone \/ EditNickname \/ Quit
    BY <2>2 DEF ClickClose, Dismiss, WizardDone, EditNickname, Quit
  <2> QED
    BY <1>5, <2>1, <2>2 DEF User
<1> QED
  BY <1>1, <1>2, <1>3, <1>4, <1>5 DEF Next

\* A command is taken, or one is added, or neither.
LEMMA CommandsStep ==
  ASSUME cmdQ \in Seq(Command), [Next]_vars
  PROVE  cmdQ' \in Seq(Command)
<1>1. CASE UNCHANGED cmdQ
  BY <1>1
<1>2. CASE cmdQ # <<>> /\ cmdQ' = Tail(cmdQ)
  BY <1>2, HeadTailProperties
<1>3. ASSUME NEW c \in Command, Send(c)
      PROVE  cmdQ' \in Seq(Command)
  BY <1>3, AppendProperties DEF Send
<1>4. {"Register", "Join", "Create", "Close"} = Command
  BY DEF Command
<1>5. CASE Network \/ Others \/ Evict
  BY <1>1, <1>2, <1>5 DEF Network, Others, News, Evict, Connect, ConnectFails, SessionEnds, SendFails, SendCommand
<1>6. CASE HandleNetEvent
  BY <1>1, <1>3, <1>4, <1>6
     DEF HandleNetEvent, HandleConnected, HandleDisconnected, HandleReconnecting, HandleWelcome,
         HandleUpdate, HandleError, HandleJoinOk, HandleJoinFail, HandlePlayerJoined
<1>7. CASE HandleTaskEvent \/ Tasks
  BY <1>1, <1>3, <1>4, <1>7
     DEF HandleTaskEvent, HandleProxyReady, HandleFinished, HandleCaptured,
         Tasks, CaptureEnds, InjectionEnds, ProxyBinds, TunnelEnds
<1>8. CASE User
  BY <1>1, <1>3, <1>4, <1>8 DEF User, ClickJoin, ClickCreate, ClickClose, Dismiss, WizardDone, EditNickname, Quit
<1> QED
  BY <1>1, <1>5, <1>6, <1>7, <1>8 DEF Next, vars

\* Events that start no tunnel.
LEMMA QuietKinds ==
  /\ Plain \subseteq NetEvent \ Calls
  /\ {"Connected", "Disconnected", "Reconnecting", "Welcome", "Error"} \subseteq NetEvent \ Calls
  /\ \A b : Update(b) \in NetEvent \ Calls
  /\ Calls \subseteq NetEvent
  BY DEF NetEvent, Calls, Plain, Update

\* One that starts a tunnel is only sent while there is room for one more.
LEMMA LoudNews ==
  ASSUME QueueTypes, Announced < MaxTunnels, UNCHANGED started,
         \/ evQ' = evQ \o <<"PlayerJoined">>
         \/ \E t \in Left(<<"JoinOk", Update(srvRoom)>>) : evQ' = evQ \o t
  PROVE  evQ' \in Seq(NetEvent) /\ started' + Count(evQ', Calls) <= MaxTunnels
<1> DEFINE u == Update(srvRoom)
<1>1. evQ \in Seq(NetEvent) /\ Count(evQ, Calls) \in Nat /\ started \in Nat
  BY PlacesFinite DEF QueueTypes
<1>2. started + Count(evQ, Calls) < MaxTunnels
  BY DEF Announced, Calls
<1>3. "PlayerJoined" \in Calls /\ "JoinOk" \in Calls /\ u \notin Calls
      /\ "PlayerJoined" \in NetEvent /\ "JoinOk" \in NetEvent /\ u \in NetEvent
  BY QuietKinds DEF Calls
<1> HIDE DEF u
<1>4. PICK t : /\ evQ' = evQ \o t
               /\ t \in {<<>>, <<"PlayerJoined">>, <<"JoinOk">>, <<u>>, <<"JoinOk", u>>}
  <2>1. Left(<<"JoinOk", u>>) = {<<>>, <<"JoinOk">>, <<u>>, <<"JoinOk", u>>}
    BY LeftOfJoin
  <2>2. CASE evQ' = evQ \o <<"PlayerJoined">>
    BY <2>2, Zenon
  <2>3. CASE \E t \in Left(<<"JoinOk", u>>) : evQ' = evQ \o t
    BY <2>1, <2>3, Zenon
  <2> QED
    BY <2>2, <2>3 DEF u
<1>5. t \in Seq(NetEvent)
  <2>1. \A x \in NetEvent : <<x>> \in Seq(NetEvent) /\ \A y \in NetEvent : <<x, y>> \in Seq(NetEvent)
    OBVIOUS
  <2>2. <<>> \in Seq(NetEvent)
    BY EmptySeq
  <2> QED
    BY <1>3, <1>4, <2>1, <2>2
<1>6. Count(evQ \o t, Calls) <= Count(evQ, Calls) + 1
  <2>1. evQ \o <<>> = evQ
    BY <1>1, CountAnswer
  <2>2. /\ Count(evQ \o <<"PlayerJoined">>, Calls) = Count(evQ, Calls) + 1
        /\ Count(evQ \o <<"JoinOk">>, Calls) = Count(evQ, Calls) + 1
        /\ Count(evQ \o <<u>>, Calls) = Count(evQ, Calls) + 0
    BY <1>1, <1>3, CountAnswer
  <2>3. Count(evQ \o <<"JoinOk", u>>, Calls) = Count(evQ, Calls) + 1 + 0
    BY <1>1, <1>3, CountAnswer
  <2> DEFINE n == Count(evQ \o t, Calls)
  <2>4. n \in {Count(evQ, Calls), Count(evQ, Calls) + 1, Count(evQ, Calls) + 0, Count(evQ, Calls) + 1 + 0}
    BY <1>4, <2>1, <2>2, <2>3, Zenon
  <2> HIDE DEF n
  <2>5. n <= Count(evQ, Calls) + 1
    BY <1>1, <2>4
  <2> QED
    BY <2>5 DEF n
<1>7. evQ' \in Seq(NetEvent)
  BY <1>1, <1>4, <1>5, ConcatProperties
<1>8. Count(evQ', Calls) \in Nat
  BY <1>7, PlacesFinite
<1> QED
  BY <1>1, <1>2, <1>4, <1>6, <1>7, <1>8, ClientAssumption

\* The queues, and the bound on the tunnels.
LEMMA QueueTypesStep ==
  ASSUME QueueTypes, [Next]_vars
  PROVE  QueueTypes'
<1>1. cmdQ' \in Seq(Command)
  BY CommandsStep DEF QueueTypes
<1>2. evQ \in Seq(NetEvent) /\ Count(evQ, Calls) \in Nat /\ started \in Nat
  BY PlacesFinite DEF QueueTypes
<1>3. ASSUME NEW s \in Seq(NetEvent \ Calls), evQ' = evQ \o s, UNCHANGED started
      PROVE  QueueTypes'
  <2>1. evQ' \in Seq(NetEvent) /\ Count(evQ', Calls) = Count(evQ, Calls)
    BY <1>2, <1>3, CountApart
  <2> QED
    BY <1>1, <1>3, <2>1 DEF QueueTypes, Calls
<1>4. ASSUME Announced < MaxTunnels, UNCHANGED started,
             \/ evQ' = evQ \o <<"PlayerJoined">>
             \/ \E t \in Left(<<"JoinOk", Update(srvRoom)>>) : evQ' = evQ \o t
      PROVE  QueueTypes'
  <2>1. evQ' \in Seq(NetEvent) /\ started' + Count(evQ', Calls) <= MaxTunnels
    BY <1>4, LoudNews
  <2> QED
    BY <1>1, <1>2, <1>4, <2>1 DEF QueueTypes, Calls
<1>5. CASE UNCHANGED <<evQ, started>>
  BY <1>1, <1>5 DEF QueueTypes, Calls
<1>6. CASE Network \/ Others
  <2>1. UNCHANGED started
    BY <1>6 DEF Network, Others, News, Connect, ConnectFails, SessionEnds, SendFails, EndSession, SendCommand
  <2>2. \A e \in NetEvent \ Calls : <<e>> \in Seq(NetEvent \ Calls)
    OBVIOUS
  <2>3. \A e \in NetEvent : Append(evQ, e) = evQ \o <<e>>
    BY <1>2, AppendIsConcat
  <2>4. CASE Connect \/ ConnectFails
    BY <1>3, <2>1, <2>2, <2>3, <2>4, QuietKinds DEF Connect, ConnectFails
  <2>5. CASE SessionEnds \/ SendFails
    <3>1. <<"Disconnected", "Reconnecting">> \in Seq(NetEvent \ Calls)
      BY QuietKinds
    <3> QED
      BY <1>3, <2>1, <2>5, <3>1 DEF SessionEnds, SendFails, EndSession
  <2>6. CASE SendCommand
    <3>1. PICK t : /\ evQ' = evQ \o t
                   /\ \/ t \in Seq(Plain) \/ t \in Seq(Plain \cup {"Welcome"})
                      \/ t \in Left(<<"JoinOk", Update(srvRoom)>>) /\ Announced < MaxTunnels
      BY <1>2, <2>6, AnswerKinds
    <3>2. CASE t \in Seq(Plain) \/ t \in Seq(Plain \cup {"Welcome"})
      <4>1. t \in Seq(NetEvent \ Calls)
        BY <3>2, QuietKinds, SeqMonotonic
      <4> QED
        BY <1>3, <2>1, <3>1, <4>1
    <3> QED
      BY <1>4, <2>1, <3>1, <3>2
  <2>7. CASE Others
    <3>1. CASE \E e \in NetEvent \ Calls : News(e)
      BY <1>3, <2>1, <2>2, <2>3, <3>1 DEF News
    <3>2. CASE Announced < MaxTunnels /\ News("PlayerJoined")
      BY <1>4, <2>1, <2>3, <3>2, QuietKinds DEF News, Calls
    <3> QED
      BY <2>7, <3>1, <3>2, QuietKinds DEF Others
  <2> QED
    BY <1>6, <2>4, <2>5, <2>6, <2>7 DEF Network
<1>7. CASE HandleNetEvent
  <2>1. evQ # <<>> /\ evQ' = Tail(evQ)
    BY <1>7 DEF HandleNetEvent, HandleConnected, HandleDisconnected, HandleReconnecting, HandleWelcome,
                HandleUpdate, HandleError, HandleJoinOk, HandleJoinFail, HandlePlayerJoined, Handle
  <2>2. evQ' \in Seq(NetEvent)
    BY <1>2, <2>1, HeadTailProperties
  <2>3. Count(evQ, Calls) = Count(Tail(evQ), Calls) + IF Head(evQ) \in Calls THEN 1 ELSE 0
    BY <1>2, <2>1, CountTail
  <2>4. Count(evQ', Calls) \in Nat
    BY <2>2, PlacesFinite
  <2>5. UNCHANGED started \/ (Head(evQ) \in Calls /\ started' = started + 1)
    <3>1. CASE HandleJoinOk \/ HandlePlayerJoined
      BY <3>1 DEF HandleJoinOk, HandlePlayerJoined, Handle, StartTunnel, Calls
    <3>2. CASE ~(HandleJoinOk \/ HandlePlayerJoined)
      BY <1>7, <3>2 DEF HandleNetEvent, HandleConnected, HandleDisconnected, HandleReconnecting,
                        HandleWelcome, HandleUpdate, HandleError, HandleJoinFail
    <3> QED
      BY <3>1, <3>2
  <2>6. started' \in Nat /\ started' + Count(evQ', Calls) <= started + Count(evQ, Calls)
    BY <1>2, <2>1, <2>3, <2>4, <2>5
  <2>7. started' + Count(evQ', Calls) <= MaxTunnels
    BY <1>2, <2>4, <2>6, ClientAssumption DEF QueueTypes
  <2> QED
    BY <1>1, <2>2, <2>6, <2>7 DEF QueueTypes, Calls
<1>8. CASE Evict \/ HandleTaskEvent \/ Tasks \/ User \/ UNCHANGED vars
  <2>1. UNCHANGED <<evQ, started>>
    BY <1>8 DEF Evict, HandleTaskEvent, HandleProxyReady, HandleFinished, HandleCaptured, HandleTunnelEvent,
                Tasks, CaptureEnds, InjectionEnds, ProxyBinds, TunnelEnds,
                User, ClickJoin, ClickCreate, ClickClose, Dismiss, WizardDone, EditNickname, Quit, vars
  <2> QED
    BY <1>5, <2>1
<1> QED
  BY <1>6, <1>7, <1>8 DEF Next

\* abort_tunnel and the start of a tunnel task keep the types.
LEMMA ReplaceTypes ==
  ASSUME TunnelTypes, UNCHANGED <<evT, orphaned>>,
         \/ StartTunnel /\ unready' = unready \cup {started + 1} /\ gameinfo' = started + 1
         \/ StartTunnel /\ UNCHANGED <<unready, gameinfo>>
         \/ Replace({}) /\ handle' = 0 /\ injection' = 0 /\ UNCHANGED <<started, unready, gameinfo>>
  PROVE  TunnelTypes'
<1> USE DEF TunnelTypes
<1>1. CASE StartTunnel
  <2>1. /\ started' = started + 1 /\ handle' = started + 1 /\ UNCHANGED injection
        /\ running' \subseteq running \cup {started + 1}
        /\ dying' \subseteq dying \cup running /\ aborted' \subseteq aborted \cup running
        /\ unready' \subseteq unready \cup {started + 1} /\ gameinfo' \in {gameinfo, started + 1}
    BY <1>1 DEF StartTunnel, Replace
  <2>2. /\ started + 1 \in Nat /\ started + 1 \in 0..(started + 1) /\ started + 1 \in 1..(started + 1)
        /\ 0..started \subseteq 0..(started + 1) /\ 1..started \subseteq 1..(started + 1)
    OBVIOUS
  <2> QED
    BY <2>1, <2>2
<1>2. CASE Replace({}) /\ handle' = 0 /\ injection' = 0 /\ UNCHANGED <<started, unready, gameinfo>>
  <2>1. /\ running' \subseteq running
        /\ dying' \subseteq dying \cup running /\ aborted' \subseteq aborted \cup running
    BY <1>2 DEF Replace
  <2> QED
    BY <1>2, <2>1
<1> QED
  BY <1>1, <1>2

\* The tunnels, the injections, and their events.
LEMMA TunnelTypesStep ==
  ASSUME TunnelTypes, [Next]_vars
  PROVE  TunnelTypes'
<1> USE DEF TunnelTypes
<1>1. CASE UNCHANGED <<tunnelVars, evT>>
  BY <1>1
<1>2. CASE Network \/ Others \/ Evict
  BY <1>1, <1>2 DEF Network, Others, News, Evict, Connect, ConnectFails, SessionEnds, SendFails, EndSession,
                    SendCommand
<1>3. CASE HandleNetEvent
  BY <1>1, <1>3, ReplaceTypes
     DEF HandleNetEvent, HandleConnected, HandleDisconnected, HandleReconnecting, HandleWelcome,
         HandleUpdate, HandleError, HandleJoinOk, HandleJoinFail, HandlePlayerJoined, Handle, StartTunnel
<1>4. CASE User
  BY <1>1, <1>4, ReplaceTypes DEF User, ClickJoin, ClickCreate, ClickClose, Dismiss, WizardDone, EditNickname, Quit
<1>5. ASSUME NEW t \in Task, ProxyBinds(t) \/ TunnelEnds(t)
      PROVE  TunnelTypes'
  <2>1. evT' \in Seq(TunnelEvent)
    <3>1. \/ evT' = evT \/ evT' = Append(evT, Ready(t)) \/ evT' = Append(evT, End(t))
      BY <1>5 DEF ProxyBinds, TunnelEnds, Ready, End
    <3> QED
      BY <3>1, EventTypes, AppendProperties
  <2> QED
    BY <1>5, <2>1 DEF ProxyBinds, TunnelEnds
<1>6. CASE CaptureEnds
  <2>1. PICK b \in BOOLEAN : evT' = Append(evT, <<"Captured", b>>)
    BY <1>6 DEF CaptureEnds
  <2>2. evT' \in Seq(TunnelEvent)
    BY <2>1, EventTypes, AppendProperties
  <2> QED
    BY <1>6, <2>2 DEF CaptureEnds
<1>7. CASE InjectionEnds
  BY <1>7 DEF InjectionEnds
<1>8. CASE HandleTaskEvent
  <2>1. evT # <<>> /\ evT' = Tail(evT)
    BY <1>8 DEF HandleTaskEvent, HandleProxyReady, HandleFinished, HandleCaptured, HandleTunnelEvent
  <2>2. evT' \in Seq(TunnelEvent)
    BY <2>1, HeadTailProperties
  <2>3. CASE HandleProxyReady
    <3>1. /\ injection' = gameinfo /\ gameinfo' = 0
          /\ UNCHANGED <<running, dying, handle, started, unready, aborted, orphaned>>
      BY <2>3 DEF HandleProxyReady
    <3> QED
      BY <2>2, <3>1
  <2>4. CASE HandleFinished
    <3>1. /\ injection' = 0 /\ handle' = 0 /\ orphaned' \subseteq orphaned \cup running
          /\ UNCHANGED <<running, dying, started, unready, gameinfo, aborted>>
      BY <2>4 DEF HandleFinished
    <3> QED
      BY <2>2, <3>1
  <2>5. CASE HandleCaptured
    BY <2>2, <2>5 DEF HandleCaptured
  <2> QED
    BY <1>8, <2>3, <2>4, <2>5 DEF HandleTaskEvent
<1> QED
  BY <1>1, <1>2, <1>3, <1>4, <1>5, <1>6, <1>7, <1>8 DEF Next, Tasks, vars

\* The invariant is inductive, ...
LEMMA TypeInvStep ==
  ASSUME TypeInv, [Next]_vars
  PROVE  TypeInv'
<1>1. NetTypes /\ AppTypes /\ QueueTypes /\ TunnelTypes
  BY TypeParts
<1>2. (NetTypes /\ AppTypes /\ QueueTypes /\ TunnelTypes)'
  BY <1>1, NetTypesStep, AppTypesStep, QueueTypesStep, TunnelTypesStep
<1> QED
  BY <1>2, TypeParts, PTL

\* ... and holds at the start.
LEMMA TypeInvInit == Init => TypeInv
<1> SUFFICES ASSUME Init
             PROVE  TypeInv
  OBVIOUS
<1>1. /\ cmdQ \in Seq(Command) /\ evQ \in Seq(NetEvent) /\ evT \in Seq(TunnelEvent)
      /\ Count(evQ, Calls) = 0
  BY EmptySeq, CountEmpty DEF Init
<1>2. NetTypes
  <2>1. session = 0 /\ 0 \in 0..MaxSessions
    BY ClientAssumption DEF Init
  <2> QED
    BY <2>1 DEF Init, NetTypes
<1>3. AppTypes
  <2>1. clicks = 0 /\ captures = 0 /\ 0 \in 0..0 /\ 0 \in 0..MaxClicks
    BY ClientAssumption DEF Init
  <2> QED
    BY <2>1 DEF Init, AppTypes
<1>4. QueueTypes
  BY <1>1, ClientAssumption DEF Init, QueueTypes
<1>5. TunnelTypes
  BY <1>1 DEF Init, TunnelTypes
<1> QED
  BY <1>2, <1>3, <1>4, <1>5, TypeParts

\* Every variable of the client keeps its type: in particular there are never more tunnels
\* than the server has announced, nor captures than the user has asked for.
THEOREM ClientTypes == Spec => []ClientTypeOK
<1>1. TypeInv => ClientTypeOK
  BY DEF TypeInv
<1> QED
  BY <1>1, TypeInvInit, TypeInvStep, PTL DEF Spec

(***************************************************************************)
(* The registration.  What every session makes due once is the Connected   *)
(* that will be handled, then the wizard that will be done, then the       *)
(* command in the channel, and at last the server that has had it.         *)
(***************************************************************************)
Due ==
  Count(cmdQ, {"Register"}) + Count(evQ, {"Connected"})
    + (IF srv = "none" THEN 0 ELSE 1)
    + (IF wizard /\ ui = "Connected" THEN 1 ELSE 0)

OnceInv == TypeInv /\ Due <= session

DueOK ==
  /\ cmdQ \in Seq(Command) /\ evQ \in Seq(NetEvent) /\ session \in Nat
  /\ Count(cmdQ, {"Register"}) \in Nat /\ Count(evQ, {"Connected"}) \in Nat

\* What the terms of the sum are.
LEMMA DueTypes == TypeInv => DueOK
<1> SUFFICES ASSUME TypeInv
             PROVE  DueOK
  OBVIOUS
<1>1. cmdQ \in Seq(Command) /\ evQ \in Seq(NetEvent) /\ session \in Nat
  BY ClientAssumption DEF TypeInv, ClientTypeOK
<1> QED
  BY <1>1, PlacesFinite DEF DueOK

\* Events that do not come from a new session do not count.
LEMMA DueAnswers ==
  ASSUME TypeInv, NEW x \in Seq(NetEvent \ {"Connected"}), evQ' = evQ \o x
  PROVE  Count(evQ', {"Connected"}) = Count(evQ, {"Connected"})
<1>1. evQ \in Seq(NetEvent)
  BY DueTypes DEF DueOK
<1> QED
  BY <1>1, CountApart

\* All other events.
LEMMA OtherKinds ==
  /\ Plain \cup {"Disconnected", "Reconnecting", "Welcome", "JoinOk", "PlayerJoined", "Error"}
       \subseteq NetEvent \ {"Connected"}
  /\ \A b : Update(b) \in NetEvent \ {"Connected"}
  /\ \A e \in NetEvent \ {"Connected"} : <<e>> \in Seq(NetEvent \ {"Connected"})
  BY DEF NetEvent, Plain, Update

\* No step makes more due, but a new session.
LEMMA DueStep ==
  ASSUME TypeInv, [Next]_vars, ~Connect
  PROVE  UNCHANGED session /\ Due' <= Due
<1>1. /\ cmdQ \in Seq(Command) /\ evQ \in Seq(NetEvent) /\ session \in Nat
      /\ Count(cmdQ, {"Register"}) \in Nat /\ Count(evQ, {"Connected"}) \in Nat
  BY DueTypes DEF DueOK
<1>2. /\ cmdQ' \in Seq(Command) /\ evQ' \in Seq(NetEvent)
      /\ Count(cmdQ', {"Register"}) \in Nat /\ Count(evQ', {"Connected"}) \in Nat
  <2>1. TypeInv'
    BY TypeInvStep
  <2>2. DueOK'
    BY <2>1, DueTypes, PTL
  <2> QED
    BY <2>2 DEF DueOK
<1>3. ASSUME UNCHANGED <<session, ui, wizard>>,
             Count(cmdQ', {"Register"}) <= Count(cmdQ, {"Register"}),
             Count(evQ', {"Connected"}) <= Count(evQ, {"Connected"}),
             srv' \in {srv, "none"} \/ Count(cmdQ', {"Register"}) < Count(cmdQ, {"Register"})
                                    \/ srv # "none"
      PROVE  UNCHANGED session /\ Due' <= Due
  BY <1>1, <1>2, <1>3 DEF Due
<1>4. ASSUME cmdQ # <<>>, cmdQ' = Tail(cmdQ)
      PROVE  /\ Count(cmdQ', {"Register"}) <= Count(cmdQ, {"Register"})
             /\ Head(cmdQ) = "Register" => Count(cmdQ', {"Register"}) < Count(cmdQ, {"Register"})
  <2>1. Count(cmdQ, {"Register"}) = Count(Tail(cmdQ), {"Register"}) + IF Head(cmdQ) \in {"Register"} THEN 1 ELSE 0
    BY <1>1, <1>4, CountTail
  <2> QED
    BY <1>1, <1>2, <1>4, <2>1
<1>5. UNCHANGED cmdQ => Count(cmdQ', {"Register"}) = Count(cmdQ, {"Register"})
  OBVIOUS
<1>6. UNCHANGED evQ => Count(evQ', {"Connected"}) = Count(evQ, {"Connected"})
  OBVIOUS
<1>7. \A c \in Command : Send(c) => Count(cmdQ', {"Register"})
                                      = Count(cmdQ, {"Register"}) + IF c = "Register" THEN 1 ELSE 0
  <2> SUFFICES ASSUME NEW c \in Command, Send(c)
               PROVE  Count(cmdQ', {"Register"}) = Count(cmdQ, {"Register"}) + IF c = "Register" THEN 1 ELSE 0
    OBVIOUS
  <2>1. Count(Append(cmdQ, c), {"Register"}) = Count(cmdQ, {"Register"}) + IF c \in {"Register"} THEN 1 ELSE 0
    BY <1>1, CountAppend
  <2> QED
    BY <2>1 DEF Send
<1>8. {"Register", "Join", "Create", "Close"} = Command
  BY DEF Command
<1>9. CASE ConnectFails
  <2>1. evQ' = evQ \o <<"Reconnecting">>
    BY <1>1, <1>9, AppendIsConcat, OtherKinds DEF ConnectFails
  <2>2. Count(evQ', {"Connected"}) = Count(evQ, {"Connected"})
    BY <2>1, DueAnswers, OtherKinds
  <2> QED
    BY <1>1, <1>3, <1>5, <1>9, <2>2 DEF ConnectFails
<1>10. CASE SessionEnds \/ SendFails
  <2>1. Count(evQ', {"Connected"}) = Count(evQ, {"Connected"})
    <3>1. <<"Disconnected", "Reconnecting">> \in Seq(NetEvent \ {"Connected"})
      BY OtherKinds
    <3> QED
      BY <1>10, <3>1, DueAnswers DEF SessionEnds, SendFails, EndSession
  <2>2. Count(cmdQ', {"Register"}) <= Count(cmdQ, {"Register"})
    BY <1>1, <1>4, <1>5, <1>10 DEF SessionEnds, SendFails
  <2> QED
    BY <1>1, <1>3, <1>10, <2>1, <2>2 DEF SessionEnds, SendFails, EndSession
<1>11. CASE SendCommand
  <2>1. Count(evQ', {"Connected"}) = Count(evQ, {"Connected"})
    <3>1. PICK t : /\ evQ' = evQ \o t
                   /\ \/ t \in Seq(Plain) \/ t \in Seq(Plain \cup {"Welcome"})
                      \/ t \in Left(<<"JoinOk", Update(srvRoom)>>)
      BY <1>1, <1>11, AnswerKinds
    <3>2. <<"JoinOk", Update(srvRoom)>> \in Seq(NetEvent \ {"Connected"})
      BY OtherKinds
    <3>3. t \in Seq(NetEvent \ {"Connected"})
      BY <3>1, <3>2, OtherKinds, SeqMonotonic, LeftInSeq
    <3> QED
      BY <3>1, <3>3, DueAnswers
  <2>2. cmdQ # <<>> /\ cmdQ' = Tail(cmdQ) /\ UNCHANGED <<session, ui, wizard>>
    BY <1>11 DEF SendCommand
  <2>3. srv' = srv \/ Head(cmdQ) = "Register"
    BY <1>11 DEF SendCommand, ServerRefuses, ServerJoin, ServerCreate, ServerClose
  <2> QED
    BY <1>1, <1>3, <1>4, <2>1, <2>2, <2>3
<1>12. CASE Others
  <2>1. PICK e \in NetEvent \ {"Connected"} : News(e)
    BY <1>12, OtherKinds DEF Others
  <2>2. evQ' = evQ \o <<e>>
    BY <1>1, <2>1, AppendIsConcat DEF News
  <2>3. Count(evQ', {"Connected"}) = Count(evQ, {"Connected"})
    BY <2>2, DueAnswers, OtherKinds
  <2> QED
    BY <1>1, <1>3, <1>5, <2>1, <2>3 DEF News
<1>13. CASE Evict
  BY <1>1, <1>3, <1>5, <1>6, <1>13 DEF Evict
<1>14. CASE HandleNetEvent
  <2>1. evQ # <<>> /\ evQ' = Tail(evQ) /\ UNCHANGED <<session, srv, wizard>>
    BY <1>14 DEF HandleNetEvent, HandleConnected, HandleDisconnected, HandleReconnecting, HandleWelcome,
                 HandleUpdate, HandleError, HandleJoinOk, HandleJoinFail, HandlePlayerJoined, Handle
  <2>2. Count(evQ, {"Connected"}) = Count(Tail(evQ), {"Connected"}) + IF Head(evQ) \in {"Connected"} THEN 1 ELSE 0
    BY <1>1, <2>1, CountTail
  <2>3. CASE HandleConnected
    <3>1. Head(evQ) = "Connected" /\ ui' = "Connected"
      BY <2>3 DEF HandleConnected, Handle
    <3>2. Count(evQ, {"Connected"}) = Count(evQ', {"Connected"}) + 1
      BY <2>1, <2>2, <3>1
    <3>3. \/ configured /\ Send("Register")
          \/ UNCHANGED cmdQ
      BY <2>3 DEF HandleConnected
    <3>4. CASE configured /\ Send("Register")
      <4>1. Count(cmdQ', {"Register"}) = Count(cmdQ, {"Register"}) + 1
        BY <1>7, <1>8, <3>4
      <4>2. ~wizard
        BY <3>4 DEF TypeInv, ClientTypeOK
      <4> QED
        BY <1>1, <1>2, <2>1, <3>2, <4>1, <4>2 DEF Due
    <3>5. CASE UNCHANGED cmdQ
      BY <1>1, <1>2, <2>1, <3>2, <3>5 DEF Due
    <3> QED
      BY <3>3, <3>4, <3>5
  <2>4. CASE ~HandleConnected
    <3>1. UNCHANGED cmdQ /\ ui' \in {ui, "Disconnected", "Reconnecting"}
      BY <1>14, <2>4 DEF HandleNetEvent, HandleDisconnected, HandleReconnecting, HandleWelcome,
                         HandleUpdate, HandleError, HandleJoinOk, HandleJoinFail, HandlePlayerJoined
    <3>2. Count(evQ', {"Connected"}) <= Count(evQ, {"Connected"})
      BY <1>1, <1>2, <2>1, <2>2
    <3> QED
      BY <1>1, <1>2, <2>1, <3>1, <3>2 DEF Due
  <2> QED
    BY <2>3, <2>4
<1>15. CASE HandleTaskEvent \/ Tasks \/ UNCHANGED vars
  <2>1. UNCHANGED <<session, ui, wizard, srv, evQ>>
    BY <1>15 DEF HandleTaskEvent, HandleProxyReady, HandleFinished, HandleCaptured, HandleTunnelEvent,
                 Tasks, CaptureEnds, InjectionEnds, ProxyBinds, TunnelEnds, vars
  <2>2. UNCHANGED cmdQ \/ Send("Create")
    BY <1>15 DEF HandleTaskEvent, HandleProxyReady, HandleFinished, HandleCaptured,
                 Tasks, CaptureEnds, InjectionEnds, ProxyBinds, TunnelEnds, vars
  <2>3. Count(cmdQ', {"Register"}) <= Count(cmdQ, {"Register"})
    BY <1>1, <1>5, <1>7, <1>8, <2>2
  <2> QED
    BY <1>1, <1>3, <1>6, <2>1, <2>3
<1>16. CASE ClickJoin \/ ClickCreate \/ ClickClose \/ Dismiss \/ EditNickname
  <2>1. UNCHANGED <<session, ui, wizard, srv, evQ>>
    BY <1>16 DEF ClickJoin, ClickCreate, ClickClose, Dismiss, EditNickname
  <2>2. UNCHANGED cmdQ \/ Send("Join") \/ Send("Close")
    BY <1>16 DEF ClickJoin, ClickCreate, ClickClose, Dismiss, EditNickname
  <2>3. Count(cmdQ', {"Register"}) <= Count(cmdQ, {"Register"})
    BY <1>1, <1>5, <1>7, <1>8, <2>2
  <2> QED
    BY <1>1, <1>3, <1>6, <2>1, <2>3
<1>17. CASE WizardDone
  <2>1. wizard /\ wizard' = FALSE /\ UNCHANGED <<session, ui, srv, evQ>>
    BY <1>17 DEF WizardDone
  <2>2. CASE ui = "Connected"
    <3>1. Count(cmdQ', {"Register"}) = Count(cmdQ, {"Register"}) + 1
      BY <1>7, <1>8, <1>17, <2>2 DEF WizardDone
    <3> QED
      BY <1>1, <1>6, <2>1, <2>2, <3>1 DEF Due
  <2>3. CASE ui # "Connected"
    <3>1. UNCHANGED cmdQ
      BY <1>17, <2>3 DEF WizardDone
    <3> QED
      BY <1>1, <1>5, <1>6, <2>1, <2>3, <3>1 DEF Due
  <2> QED
    BY <2>2, <2>3
<1>18. CASE Quit
  <2>1. ui' = "closed" /\ UNCHANGED <<session, cmdQ, evQ, srv, wizard>>
    BY <1>18 DEF Quit
  <2> QED
    BY <1>1, <1>5, <1>6, <2>1 DEF Due
<1> QED
  BY <1>9, <1>10, <1>11, <1>12, <1>13, <1>14, <1>15, <1>16, <1>17, <1>18 DEF Next, Network, User

\* The invariant is inductive.
LEMMA OnceInvStep ==
  ASSUME OnceInv, [Next]_vars
  PROVE  OnceInv'
<1>1. TypeInv /\ TypeInv'
  BY TypeInvStep DEF OnceInv
<1>2. /\ cmdQ \in Seq(Command) /\ evQ \in Seq(NetEvent) /\ session \in Nat
      /\ Count(cmdQ, {"Register"}) \in Nat /\ Count(evQ, {"Connected"}) \in Nat
  BY <1>1, DueTypes DEF DueOK
<1>3. Count(cmdQ', {"Register"}) \in Nat /\ Count(evQ', {"Connected"}) \in Nat
  <2>1. DueOK'
    BY <1>1, DueTypes, PTL
  <2> QED
    BY <2>1 DEF DueOK
<1>4. Due \in Int /\ Due' \in Int
  BY <1>2, <1>3 DEF Due
<1>5. CASE Connect
  <2>1. /\ session' = session + 1 /\ srv' = "none" /\ UNCHANGED <<cmdQ, ui, wizard>>
        /\ evQ' = Append(evQ, "Connected")
    BY <1>5 DEF Connect
  <2>2. Count(evQ', {"Connected"}) = Count(evQ, {"Connected"}) + 1
    BY <1>2, <2>1, CountAppend DEF NetEvent
  <2>3. Due' <= Due + 1
    BY <1>2, <2>1, <2>2 DEF Due
  <2> QED
    BY <1>1, <1>2, <1>4, <2>1, <2>3 DEF OnceInv
<1>6. CASE ~Connect
  <2>1. UNCHANGED session /\ Due' <= Due
    BY <1>1, <1>6, DueStep
  <2> QED
    BY <1>1, <1>2, <1>4, <2>1 DEF OnceInv
<1> QED
  BY <1>5, <1>6

\* Nothing is due before the first session.
LEMMA OnceInvInit == Init => OnceInv
<1> SUFFICES ASSUME Init
             PROVE  OnceInv
  OBVIOUS
<1>1. Count(cmdQ, {"Register"}) = 0 /\ Count(evQ, {"Connected"}) = 0
  BY CountEmpty DEF Init
<1> QED
  BY <1>1, TypeInvInit DEF Init, OnceInv, Due

\* However the wizard, the ends of the sessions and the commands in the channel interleave,
\* there are never more Registers than there have been sessions (app.rs, net/discovery.rs).
THEOREM SessionsRegisterOnce == Spec => []RegistersOnce
<1>1. OnceInv => RegistersOnce
  <2> SUFFICES ASSUME OnceInv
               PROVE  Count(cmdQ, {"Register"}) + (IF srv = "none" THEN 0 ELSE 1) <= session
    BY DEF RegistersOnce
  <2>1. Count(cmdQ, {"Register"}) \in Nat /\ Count(evQ, {"Connected"}) \in Nat /\ session \in Nat
    BY DueTypes DEF OnceInv, DueOK
  <2> QED
    BY <2>1 DEF OnceInv, Due
<1> QED
  BY <1>1, OnceInvInit, OnceInvStep, PTL DEF Spec
=============================================================================
