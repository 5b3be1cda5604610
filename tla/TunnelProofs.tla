---------------------------- MODULE TunnelProofs ---------------------------
(***************************************************************************)
(* Proofs about Tunnel for every set of connections and tokens: types, the *)
(* inductive invariant of TunnelInv and what follows from it.              *)
(***************************************************************************)
EXTENDS TunnelInv, TLAPS

USE DEF registryVars, handlerVars, sweepVars, Relaying

(***************************************************************************)
(* Types.                                                                  *)
(***************************************************************************)
\* The initial state is well typed.
LEMMA TypeInit == Init => TypeOK
  BY TunnelAssumption DEF TunnelAssumption, Init, TypeOK, PC

\* The registry and its cleanup keep the types.
LEMMA TypeRegistry ==
  ASSUME TypeOK, Registry \/ Cleanup
  PROVE  TypeOK'
  <1> USE DEF TypeOK
  <1>1. ASSUME NEW t \in Token, RegisterPending(t) PROVE TypeOK'
    BY <1>1 DEF RegisterPending
  <1>2. ASSUME NEW t \in Token, RegisterBinding(t) PROVE TypeOK'
    BY <1>2 DEF RegisterBinding
  <1>3. ASSUME NEW t \in Token, RegisterDropped(t) PROVE TypeOK'
    BY <1>3 DEF RegisterDropped
  <1>4. ASSUME NEW t \in Token, LookupUpnpPending(t) PROVE TypeOK'
    BY <1>4 DEF LookupUpnpPending
  <1>5. ASSUME NEW t \in Token, Age(t) PROVE TypeOK'
    BY <1>5 DEF Age
  <1>6. CASE CleanWaiting
    BY <1>6 DEF CleanWaiting
  <1>7. CASE CleanBindings
    BY <1>7 DEF CleanBindings
  <1>8. CASE CleanPending
    BY <1>8 DEF CleanPending
  <1> QED BY <1>1, <1>2, <1>3, <1>4, <1>5, <1>6, <1>7, <1>8 DEF Registry, Cleanup

\* A step of a connection keeps the types.
LEMMA TypeConnection ==
  ASSUME TypeOK, NEW c \in Conn, Handler(c) \/ Client(c) \/ Lapse(c)
  PROVE  TypeOK'
  <1> USE TunnelAssumption DEF TunnelAssumption, TypeOK, Goto, PC
  <1>1. Return(c) => /\ pc' \in [Conn -> PC] /\ late' \subseteq Conn
                     /\ notified' \in [Conn -> Conn \cup {None}]
                     /\ peer' \in [Conn -> Conn \cup {None}]
                     /\ queued' \in [Conn -> 0..RELAY_CHANNEL_SIZE]
    BY DEF Return
  <1>2. CASE CheckBinding(c)
    BY <1>2 DEF CheckBinding
  <1>3. CASE TakeWaiting(c)
    BY <1>3 DEF TakeWaiting
  <1>4. CASE Claim(c)
    BY <1>1, <1>4 DEF Claim
  <1>5. CASE InsertWaiting(c)
    BY <1>5 DEF InsertWaiting
  <1>6. CASE Paired(c)
    BY <1>6 DEF Paired
  <1>7. CASE Forgotten(c)
    BY <1>1, <1>7 DEF Forgotten
  <1>8. CASE GiveUp(c)
    BY <1>8 DEF GiveUp
  <1>9. CASE RemoveWaiting(c)
    BY <1>1, <1>9 DEF RemoveWaiting
  <1>10. CASE Forward(c)
    BY <1>10 DEF Forward
  <1>11. CASE PeerGone(c) \/ Leave(c)
    BY <1>1, <1>11 DEF PeerGone, Leave
  <1>12. CASE Arrive(c)
    BY <1>12 DEF Arrive
  <1>13. CASE Receive(c)
    <2>1. CASE peer[c] \in Conn
      <3>1. queued[peer[c]] + 1 \in 0..RELAY_CHANNEL_SIZE
        BY <1>13, <2>1 DEF Receive
      <3> QED BY <1>13, <2>1, <3>1 DEF Receive
    <2>2. CASE peer[c] \notin Conn
      BY <1>13, <2>2 DEF Receive
    <2> QED BY <2>1, <2>2
  <1>14. CASE Lapse(c)
    BY <1>14 DEF Lapse
  <1> QED BY <1>2, <1>3, <1>4, <1>5, <1>6, <1>7, <1>8, <1>9, <1>10,
             <1>11, <1>12, <1>13, <1>14 DEF Handler, Client

\* The maps and the handlers of the tunnels keep their types; no relay queue
\* holds more than RELAY_CHANNEL_SIZE frames, since try_send refuses the next.
THEOREM TunnelTypeCorrect == Spec => []TypeOK
  <1>1. TypeOK /\ [Next]_vars => TypeOK'
    <2> SUFFICES ASSUME TypeOK, [Next]_vars PROVE TypeOK'
      OBVIOUS
    <2>1. CASE UNCHANGED vars
      BY <2>1 DEF vars, TypeOK
    <2> QED BY <2>1, TypeRegistry, TypeConnection DEF Next
  <1> QED BY <1>1, TypeInit, PTL DEF Spec

(***************************************************************************)
(* The inductive invariant.                                                *)
(***************************************************************************)
\* Nobody waits, and nobody knows of anybody, at first.
LEMMA TunnelInit == Init => TunnelInvariant
  BY TunnelAssumption DEF TunnelAssumption, Init, TunnelInvariant, WaitersWait, PeerWhile,
     Offered, OneHolder, Pairs, Claims, Answered, Answers, Notices, Early

\* Steps that move no sender and no entry.
LEMMA TunnelQuiet ==
  ASSUME TypeOK, TunnelInvariant,
         UNCHANGED <<waiting, pc, notified, peer>>
  PROVE  TunnelInvariant'
  BY DEF TunnelInvariant, WaitersWait, PeerWhile, Offered, OneHolder, Pairs,
     Claims, Answered, Answers, Notices, Early

\* Entries may be dropped at any time.
LEMMA TunnelEntriesDropped ==
  ASSUME TypeOK, TunnelInvariant,
         \A t \in Token : waiting'[t] \in {waiting[t], None},
         UNCHANGED <<pc, notified, peer>>
  PROVE  TunnelInvariant'
  BY TunnelAssumption DEF TunnelAssumption, TypeOK, TunnelInvariant, WaitersWait, PeerWhile,
     Offered, OneHolder, Pairs, Claims, Answered, Answers, Notices, Early

\* A handler that returns leaves the invariant to the others.
LEMMA TunnelReturn ==
  ASSUME TypeOK, TunnelInvariant, NEW c \in Conn, Return(c),
         \A t \in Token : waiting'[t] \in {waiting[t], None} /\ waiting'[t] # c
  PROVE  TunnelInvariant'
  <1> USE TunnelAssumption DEF TunnelAssumption, TypeOK, Return, Goto
  <1>1. WaitersWait'
    BY DEF TunnelInvariant, WaitersWait
  <1>2. PeerWhile'
    BY DEF TunnelInvariant, PeerWhile
  <1>3. Offered'
    BY DEF TunnelInvariant, Offered, Early
  <1>4. OneHolder'
    BY DEF TunnelInvariant, OneHolder
  <1>5. Pairs'
    BY DEF TunnelInvariant, Pairs, Claims, Answered, Answers, Notices, PeerWhile
  <1>6. Notices'
    <2> SUFFICES ASSUME NEW d \in Conn, NEW e \in Conn, notified'[d] = e
                 PROVE  /\ pc'[d] = "wait" /\ waiting'[TokenOf[d]] # d
                        /\ TokenOf[d] = TokenOf[e]
                        /\ pc'[e] # "closed" => pc'[e] = "relaySecond" /\ peer'[e] = d
      BY DEF Notices
    <2>1. d # c /\ notified[d] = e /\ TokenOf[d] \in Token
      OBVIOUS
    <2>2. /\ pc[d] = "wait" /\ waiting[TokenOf[d]] # d /\ TokenOf[d] = TokenOf[e]
          /\ pc[e] # "closed" => pc[e] = "relaySecond" /\ peer[e] = d
      BY <2>1 DEF TunnelInvariant, Notices
    <2>3. waiting'[TokenOf[d]] # d
      BY <2>1, <2>2
    <2>4. pc'[d] = "wait"
      BY <2>1, <2>2
    <2>5. pc'[e] # "closed" => pc'[e] = "relaySecond" /\ peer'[e] = d
      BY <2>2
    <2> QED BY <2>2, <2>3, <2>4, <2>5
  <1> QED BY <1>1, <1>2, <1>3, <1>4, <1>5, <1>6 DEF TunnelInvariant

\* A new connection is known to nobody.
LEMMA TunnelArrive ==
  ASSUME TypeOK, TunnelInvariant, NEW c \in Conn, Arrive(c)
  PROVE  TunnelInvariant'
  <1> USE TunnelAssumption DEF TunnelAssumption, TypeOK, Arrive, FreshConn, Goto
  <1>1. WaitersWait'
    BY DEF TunnelInvariant, WaitersWait
  <1>2. PeerWhile'
    BY DEF TunnelInvariant, PeerWhile
  <1>3. Offered'
    BY DEF TunnelInvariant, Offered, Early
  <1>4. OneHolder'
    BY DEF TunnelInvariant, OneHolder
  <1>5. Pairs'
    BY DEF TunnelInvariant, Pairs, Claims, Answered, Answers
  <1>6. Notices'
    BY DEF TunnelInvariant, Notices
  <1> QED BY <1>1, <1>2, <1>3, <1>4, <1>5, <1>6 DEF TunnelInvariant

\* Until it looks for an entry a handler is known to nobody.
LEMMA TunnelCheck ==
  ASSUME TypeOK, TunnelInvariant, NEW c \in Conn, CheckBinding(c)
  PROVE  TunnelInvariant'
  <1> USE TunnelAssumption DEF TunnelAssumption, TypeOK, CheckBinding, Goto
  <1>1. WaitersWait'
    BY DEF TunnelInvariant, WaitersWait
  <1>2. PeerWhile'
    BY DEF TunnelInvariant, PeerWhile
  <1>3. Offered'
    BY DEF TunnelInvariant, Offered, Early
  <1>4. OneHolder'
    BY DEF TunnelInvariant, OneHolder
  <1>5. Pairs'
    BY DEF TunnelInvariant, Pairs, Claims, Answered, Answers, Offered, Early
  <1>6. Notices'
    BY DEF TunnelInvariant, Notices
  <1> QED BY <1>1, <1>2, <1>3, <1>4, <1>5, <1>6 DEF TunnelInvariant

\* The entry moves from the map to the handler that takes it.
LEMMA TunnelTake ==
  ASSUME TypeOK, TunnelInvariant, NEW c \in Conn, TakeWaiting(c)
  PROVE  TunnelInvariant'
  <1> DEFINE w == waiting[TokenOf[c]]
  <1> USE TunnelAssumption DEF TunnelAssumption, TypeOK
  <1>1. /\ w \in Conn \cup {None}
        /\ pc[c] = "lookup" /\ peer[c] = None
        /\ \A d \in Conn : c \notin {peer[d], notified[d]}
    <2>1. w \in Conn \cup {None} /\ pc[c] = "lookup"
      BY DEF TakeWaiting
    <2>2. peer[c] = None
      BY <2>1 DEF TunnelInvariant, PeerWhile
    <2>3. \A d \in Conn : c \notin {peer[d], notified[d]}
      BY <2>1 DEF TunnelInvariant, Offered, Early
    <2> QED BY <2>1, <2>2, <2>3
  <1>2. ASSUME w # None
        PROVE  /\ w # c /\ TokenOf[w] = TokenOf[c] /\ pc[w] \in {"wait", "expire"}
               /\ \A d \in Conn : w \notin {peer[d], notified[d]}
               /\ notified[w] = None
    BY <1>1, <1>2 DEF TunnelInvariant, WaitersWait, Offered, Notices
  <1>3. /\ peer' = [peer EXCEPT ![c] = w]
        /\ waiting' = [waiting EXCEPT ![TokenOf[c]] = None]
        /\ pc' = [pc EXCEPT ![c] = IF w = None THEN "insert" ELSE "claim"]
        /\ notified' = notified
    BY DEF TakeWaiting, Goto
  <1>4. WaitersWait'
    BY <1>1, <1>3 DEF TunnelInvariant, WaitersWait
  <1>5. PeerWhile'
    BY <1>1, <1>3 DEF TunnelInvariant, PeerWhile
  <1>6. Offered'
    <2> SUFFICES ASSUME NEW d \in Conn, NEW e \in Conn, e = peer'[d] \/ e = notified'[d]
                 PROVE  pc'[e] \notin Early /\ waiting'[TokenOf[e]] # e
      BY DEF Offered
    <2>1. CASE d = c /\ e = w
      BY <1>1, <1>2, <1>3, <2>1 DEF Early
    <2>2. CASE e = peer[d] \/ e = notified[d]
      BY <1>1, <1>3, <2>2 DEF TunnelInvariant, Offered, Early
    <2> QED BY <1>1, <1>3, <2>1, <2>2
  <1>7. OneHolder'
    BY <1>1, <1>2, <1>3 DEF TunnelInvariant, OneHolder
  <1>8. Pairs'
    <2> SUFFICES ASSUME NEW d \in Conn, NEW e \in Conn, peer'[d] = e
                 PROVE  /\ TokenOf[d] = TokenOf[e]
                        /\ Claims(d, e)' /\ Answered(d, e)' /\ Answers(d, e)'
      BY DEF Pairs
    <2>1. CASE d = c
      BY <1>1, <1>2, <1>3, <2>1 DEF Claims, Answered, Answers
    <2>2. CASE d # c
      BY <1>1, <1>3, <2>2 DEF TunnelInvariant, Pairs, Claims, Answered, Answers
    <2> QED BY <2>1, <2>2
  <1>9. Notices'
    BY <1>1, <1>2, <1>3 DEF TunnelInvariant, Notices
  <1> QED BY <1>4, <1>5, <1>6, <1>7, <1>8, <1>9 DEF TunnelInvariant

\* The second to arrive notifies the first one, or finds that it has gone.
LEMMA TunnelClaim ==
  ASSUME TypeOK, TunnelInvariant, NEW c \in Conn, Claim(c)
  PROVE  TunnelInvariant'
  <1> USE TunnelAssumption DEF TunnelAssumption, TypeOK
  <1>1. CASE pc[peer[c]] = "wait"
    <2> USE DEF Claim, Goto
    <2>1. peer[c] \in Conn
      BY DEF TunnelInvariant, PeerWhile
    <2>2. WaitersWait'
      BY <1>1 DEF TunnelInvariant, WaitersWait
    <2>3. PeerWhile'
      BY <1>1 DEF TunnelInvariant, PeerWhile
    <2>4. Offered'
      <3>1. /\ pc' = [pc EXCEPT ![c] = "relaySecond"]
            /\ notified' = [notified EXCEPT ![peer[c]] = c]
            /\ UNCHANGED <<waiting, peer>> /\ pc[c] = "claim"
        BY <1>1
      <3>2. waiting[TokenOf[c]] # c
        BY <3>1 DEF TunnelInvariant, WaitersWait
      <3> SUFFICES ASSUME NEW d \in Conn, NEW e \in Conn, e = peer'[d] \/ e = notified'[d]
                   PROVE  pc'[e] \notin Early /\ waiting'[TokenOf[e]] # e
        BY DEF Offered
      <3>3. CASE e = c
        BY <3>1, <3>2, <3>3 DEF Early
      <3>4. CASE e # c
        <4>1. e = peer[d] \/ e = notified[d]
          BY <2>1, <3>1, <3>4
        <4> QED BY <3>1, <3>4, <4>1 DEF TunnelInvariant, Offered
      <3> QED BY <3>3, <3>4
    <2>5. OneHolder'
      BY <1>1, <2>1 DEF TunnelInvariant, OneHolder, Offered, Early
    <2>6. Pairs'
      BY <1>1, <2>1 DEF TunnelInvariant, Pairs, Claims, Answered, Answers, OneHolder, Offered, Early
    <2>7. Notices'
      BY <1>1, <2>1 DEF TunnelInvariant, Notices, Pairs, OneHolder, Offered, Early
    <2> QED BY <2>2, <2>3, <2>4, <2>5, <2>6, <2>7 DEF TunnelInvariant
  <1>2. CASE pc[peer[c]] # "wait"
    <2>1. Return(c) /\ UNCHANGED waiting
      BY <1>2 DEF Claim
    <2>2. \A t \in Token : waiting'[t] # c
      BY <2>1 DEF Claim, TunnelInvariant, WaitersWait
    <2> QED BY <2>1, <2>2, TunnelReturn
  <1> QED BY <1>1, <1>2

\* The first to arrive offers itself; whose entry is replaced is nobody's peer.
LEMMA TunnelInsert ==
  ASSUME TypeOK, TunnelInvariant, NEW c \in Conn, InsertWaiting(c)
  PROVE  TunnelInvariant'
  <1> USE TunnelAssumption DEF TunnelAssumption, TypeOK, InsertWaiting, Goto
  <1>1. WaitersWait'
    BY DEF TunnelInvariant, WaitersWait
  <1>2. PeerWhile'
    BY DEF TunnelInvariant, PeerWhile
  <1>3. Offered'
    BY DEF TunnelInvariant, Offered, Early
  <1>4. OneHolder'
    BY DEF TunnelInvariant, OneHolder
  <1>5. Pairs'
    BY DEF TunnelInvariant, Pairs, Claims, Answered, Answers, Offered, Early
  <1>6. Notices'
    BY DEF TunnelInvariant, Notices
  <1> QED BY <1>1, <1>2, <1>3, <1>4, <1>5, <1>6 DEF TunnelInvariant

\* The first to arrive takes the sender of its peer from the oneshot channel.
LEMMA TunnelPaired ==
  ASSUME TypeOK, TunnelInvariant, NEW c \in Conn, Paired(c)
  PROVE  TunnelInvariant'
  <1> USE TunnelAssumption DEF TunnelAssumption, TypeOK, Paired, Goto
  <1>1. WaitersWait'
    BY DEF TunnelInvariant, WaitersWait, Notices
  <1>2. PeerWhile'
    BY DEF TunnelInvariant, PeerWhile
  <1>3. Offered'
    BY DEF TunnelInvariant, Offered, Early
  <1>4. OneHolder'
    BY DEF TunnelInvariant, OneHolder
  <1>5. Pairs'
    BY DEF TunnelInvariant, Pairs, Claims, Answered, Answers, Notices, OneHolder, PeerWhile
  <1>6. Notices'
    BY DEF TunnelInvariant, Notices, OneHolder
  <1> QED BY <1>1, <1>2, <1>3, <1>4, <1>5, <1>6 DEF TunnelInvariant

\* A waiter that gives up drops what it has been sent and keeps its entry.
LEMMA TunnelGiveUp ==
  ASSUME TypeOK, TunnelInvariant, NEW c \in Conn, GiveUp(c)
  PROVE  TunnelInvariant'
  <1> USE TunnelAssumption DEF TunnelAssumption, TypeOK, GiveUp, Goto
  <1>1. WaitersWait'
    BY DEF TunnelInvariant, WaitersWait
  <1>2. PeerWhile'
    BY DEF TunnelInvariant, PeerWhile
  <1>3. Offered'
    BY DEF TunnelInvariant, Offered, Early
  <1>4. OneHolder'
    BY DEF TunnelInvariant, OneHolder
  <1>5. Pairs'
    BY DEF TunnelInvariant, Pairs, Claims, Answered, Answers
  <1>6. Notices'
    BY DEF TunnelInvariant, Notices
  <1> QED BY <1>1, <1>2, <1>3, <1>4, <1>5, <1>6 DEF TunnelInvariant

\* Every step keeps the invariant.
LEMMA TunnelStep ==
  ASSUME TypeOK, TunnelInvariant, [Next]_vars
  PROVE  TunnelInvariant'
  <1>1. ASSUME NEW t \in Token,
               \/ RegisterPending(t) \/ RegisterBinding(t) \/ RegisterDropped(t)
               \/ LookupUpnpPending(t) \/ Age(t)
        PROVE  TunnelInvariant'
    BY <1>1, TunnelQuiet
       DEF RegisterPending, RegisterBinding, RegisterDropped, LookupUpnpPending, Age
  <1>2. ASSUME NEW c \in Conn, Handler(c) PROVE TunnelInvariant'
    <2>1. CASE Forgotten(c) \/ RemoveWaiting(c) \/ PeerGone(c)
      <3>1. Return(c)
        BY <2>1 DEF Forgotten, RemoveWaiting, PeerGone
      <3>2. \A t \in Token : waiting'[t] \in {waiting[t], None} /\ waiting'[t] # c
        BY <2>1, TunnelAssumption
           DEF TunnelAssumption, TypeOK, TunnelInvariant, WaitersWait, Forgotten,
               Notifiable, RemoveWaiting, PeerGone
      <3> QED BY <3>1, <3>2, TunnelReturn
    <2>2. CASE Forward(c)
      BY <2>2, TunnelQuiet DEF Forward
    <2> QED BY <1>2, <2>1, <2>2, TunnelCheck, TunnelTake, TunnelClaim, TunnelInsert,
               TunnelPaired, TunnelGiveUp DEF Handler
  <1>3. ASSUME NEW c \in Conn, Client(c) \/ Lapse(c) PROVE TunnelInvariant'
    <2>1. CASE Receive(c) \/ Lapse(c)
      BY <2>1, TunnelQuiet DEF Receive, Lapse
    <2>2. CASE Leave(c)
      <3>1. Return(c) /\ UNCHANGED waiting /\ pc[c] \in Relaying
        BY <2>2 DEF Leave
      <3>2. \A t \in Token : waiting'[t] # c
        BY <3>1, TunnelAssumption DEF TunnelAssumption, TunnelInvariant, WaitersWait
      <3> QED BY <3>1, <3>2, TunnelReturn
    <2> QED BY <1>3, <2>1, <2>2, TunnelArrive DEF Client
  <1>4. CASE Cleanup
    <2>1. /\ \A t \in Token : waiting'[t] \in {waiting[t], None}
          /\ UNCHANGED <<pc, notified, peer>>
      BY <1>4 DEF Cleanup, CleanWaiting, CleanBindings, CleanPending, TypeOK
    <2> QED BY <2>1, TunnelEntriesDropped
  <1>5. CASE UNCHANGED vars
    BY <1>5, TunnelQuiet DEF vars
  <1> QED BY <1>1, <1>2, <1>3, <1>4, <1>5 DEF Next, Registry

(***************************************************************************)
(* What follows.                                                           *)
(***************************************************************************)
\* Whoever holds a sender of a queue is known to its receiver, about to be, or
\* too late: the hand-over of pairing, whatever happens between its steps.
THEOREM TunnelInvariantCorrect == Spec => []TunnelInvariant
  <1>1. TypeOK /\ TunnelInvariant /\ [Next]_vars => TunnelInvariant'
    BY TunnelStep
  <1> QED BY <1>1, TunnelInit, TunnelTypeCorrect, PTL DEF Spec

\* An entry of the waiting map belongs to a handler that waits or has just given
\* up, although entries are replaced and removed by whoever has the token.
THEOREM WaitersAreWaiting == Spec => []WaitersWait
  <1>1. TunnelInvariant => WaitersWait
    BY DEF TunnelInvariant
  <1> QED BY <1>1, TunnelInvariantCorrect, PTL

\* The two ends of a relay have each other and nobody else.
THEOREM RelaysArePairs == Spec => []RelaysPair
  <1>1. TypeOK /\ TunnelInvariant => RelaysPair
    <2> SUFFICES ASSUME TypeOK, TunnelInvariant, NEW c \in Conn, NEW d \in Conn
                 PROVE  /\ c # d /\ peer[c] # None => peer[c] # peer[d]
                        /\ peer[c] = d => c # d /\ TokenOf[c] = TokenOf[d]
                        /\ peer[c] = d /\ {pc[c], pc[d]} \subseteq Relaying => peer[d] = c
                        /\ pc[c] \in Relaying => peer[c] # None
      BY DEF RelaysPair
    <2>1. c # d /\ peer[c] # None => peer[c] # peer[d]
      BY DEF TunnelInvariant, OneHolder
    <2>2. pc[c] \in Relaying => peer[c] # None
      BY DEF TunnelInvariant, PeerWhile
    <2>3. ASSUME peer[c] = d
          PROVE  /\ c # d /\ TokenOf[c] = TokenOf[d]
                 /\ {pc[c], pc[d]} \subseteq Relaying => peer[d] = c
      <3>1. pc[c] \in {"claim"} \cup Relaying
        BY <2>3, TunnelAssumption DEF TunnelAssumption, TunnelInvariant, PeerWhile
      <3>2. TokenOf[c] = TokenOf[d] /\ Claims(c, d) /\ Answered(c, d) /\ Answers(c, d)
        BY <2>3 DEF TunnelInvariant, Pairs
      <3> QED BY <3>1, <3>2 DEF Claims, Answered, Answers
    <2> QED BY <2>1, <2>2, <2>3
  <1> QED BY <1>1, TunnelTypeCorrect, TunnelInvariantCorrect, PTL
=============================================================================
