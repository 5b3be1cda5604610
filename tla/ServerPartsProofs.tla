-------------------------- MODULE ServerPartsProofs --------------------------
(***************************************************************************)
(* The two parts of the server that stand on their own: the slot counters  *)
(* are exact for every number of requests and addresses and every limit,   *)
(* and so is the bound on what the rate limiter lets through, for every    *)
(* limit, every length of its window and every time.                       *)
(***************************************************************************)
EXTENDS ConnSlots, RateLimit, FiniteSetTheorems, TLAPS

(***************************************************************************)
(* The slots.                                                              *)
(***************************************************************************)
SlotsInv == SlotsTypeOK /\ SlotsExact

\* The requests that hold a slot are finitely many.
LEMMA HoldersFinite ==
  ASSUME NEW a
  PROVE  IsFiniteSet(Holders(a)) /\ Cardinality(Holders(a)) \in Nat
<1>1. Holders(a) \subseteq Conn
  BY DEF Holders
<1>2. IsFiniteSet(Holders(a))
  BY <1>1, FS_Subset, SlotAssumption
<1> QED
  BY <1>2, FS_CardinalityType

\* WithCount is an update of one address: only its count changes, and it has an entry
\* exactly if the count is not zero.
LEMMA WithCountUpdates ==
  ASSUME SlotsTypeOK, NEW a \in Address, NEW n \in 0..MaxPerIp, slots' = WithCount(a, n)
  PROVE  /\ \E S \in SUBSET Address : slots' \in [S -> 1..MaxPerIp]
         /\ \A b \in Address : Count(b)' = IF b = a THEN n ELSE Count(b)
         /\ DOMAIN slots' = IF n = 0 THEN DOMAIN slots \ {a} ELSE DOMAIN slots \cup {a}
<1> PICK S \in SUBSET Address : slots \in [S -> 1..MaxPerIp]
  BY DEF SlotsTypeOK
<1> USE SlotAssumption
<1>1. CASE n = 0
  <2>1. slots' = [b \in S \ {a} |-> slots[b]]
    BY <1>1 DEF WithCount
  <2>2. S \ {a} \in SUBSET Address /\ slots' \in [S \ {a} -> 1..MaxPerIp]
    BY <2>1
  <2> QED
    BY <1>1, <2>1, <2>2 DEF Count
<1>2. CASE n # 0
  <2>1. slots' = [b \in S \cup {a} |-> IF b = a THEN n ELSE slots[b]]
    BY <1>2 DEF WithCount
  <2>2. S \cup {a} \in SUBSET Address /\ slots' \in [S \cup {a} -> 1..MaxPerIp]
    BY <1>2, <2>1
  <2> QED
    BY <1>2, <2>1, <2>2 DEF Count
<1> QED
  BY <1>1, <1>2

\* A step within the stages that hold a slot, or within those that do not, leaves the
\* holders alone.
LEMMA MoveKeepsHolders ==
  ASSUME SlotsInv, NEW c \in Conn, NEW t \in Stage,
         stage' = [stage EXCEPT ![c] = t],
         t \in Holding <=> stage[c] \in Holding,
         UNCHANGED <<from, slots>>
  PROVE  SlotsInv'
<1>1. SlotsTypeOK'
  BY DEF SlotsInv, SlotsTypeOK
<1>2. \A a \in Address : Holders(a)' = Holders(a) /\ Count(a)' = Count(a)
  BY DEF SlotsInv, SlotsTypeOK, Holders, Count
<1>3. DOMAIN slots \subseteq Address
  BY DEF SlotsInv, SlotsTypeOK
<1>4. SlotsExact'
  BY <1>2, <1>3 DEF SlotsInv, SlotsExact
<1> QED
  BY <1>1, <1>4 DEF SlotsInv

\* A slot that is taken is counted, ...
LEMMA AcceptCounts ==
  ASSUME SlotsInv, NEW c \in Conn, NEW a \in Address, Accept(c, a)
  PROVE  SlotsInv'
<1> USE SlotAssumption
<1>0. Count(a) \in Nat /\ Count(a) + 1 \in 1..MaxPerIp
  <2>1. Count(a) \in Nat
    BY HoldersFinite DEF SlotsInv, SlotsExact
  <2> QED
    BY <2>1 DEF Accept
<1>1. /\ \E S \in SUBSET Address : slots' \in [S -> 1..MaxPerIp]
      /\ \A b \in Address : Count(b)' = IF b = a THEN Count(a) + 1 ELSE Count(b)
      /\ DOMAIN slots' = DOMAIN slots \cup {a}
  <2>1. Count(a) + 1 \in 0..MaxPerIp /\ Count(a) + 1 # 0
    BY <1>0
  <2>2. slots' = WithCount(a, Count(a) + 1) /\ SlotsTypeOK
    BY DEF Accept, SlotsInv
  <2>3. /\ \E S \in SUBSET Address : slots' \in [S -> 1..MaxPerIp]
        /\ \A b \in Address : Count(b)' = IF b = a THEN Count(a) + 1 ELSE Count(b)
        /\ DOMAIN slots' = IF Count(a) + 1 = 0 THEN DOMAIN slots \ {a} ELSE DOMAIN slots \cup {a}
    BY <2>1, <2>2, WithCountUpdates
  <2> QED
    BY <2>1, <2>3
<1>2. SlotsTypeOK'
  BY <1>1 DEF Accept, SlotsInv, SlotsTypeOK, Stage
<1>3. c \notin Holders(a) /\ Holders(a)' = Holders(a) \cup {c}
  BY DEF Accept, SlotsInv, SlotsTypeOK, Holders, Holding
<1>4. \A b \in Address \ {a} : Holders(b)' = Holders(b)
  BY DEF Accept, SlotsInv, SlotsTypeOK, Holders, Holding
<1>5. Cardinality(Holders(a)') = Cardinality(Holders(a)) + 1
  BY <1>3, HoldersFinite, FS_AddElement
<1>6. \A b \in Address : Count(b)' = Cardinality(Holders(b)') /\ Count(b)' <= MaxPerIp
  BY <1>0, <1>1, <1>4, <1>5 DEF SlotsInv, SlotsExact
<1>7. \A b \in DOMAIN slots' : Holders(b)' # {}
  <2>1. DOMAIN slots \subseteq Address
    BY DEF SlotsInv, SlotsTypeOK
  <2> QED
    BY <1>1, <1>3, <1>4, <2>1 DEF SlotsInv, SlotsExact
<1> QED
  BY <1>2, <1>6, <1>7 DEF SlotsInv, SlotsExact

\* ... and one that is given back is not.
LEMMA ReleaseCounts ==
  ASSUME SlotsInv, NEW c \in Conn, Release(c)
  PROVE  SlotsInv'
<1> PICK a \in Address : a = from[c]
  BY DEF SlotsInv, SlotsTypeOK
<1> USE SlotAssumption
<1>0. c \in Holders(a)
  BY DEF Release, SlotsInv, SlotsTypeOK, Holders, Holding
<1>1. Count(a) = Cardinality(Holders(a)) /\ Count(a) \in Nat \ {0} /\ Count(a) <= MaxPerIp
  <2>1. Holders(a) # {}
    BY <1>0
  <2>2. Cardinality(Holders(a)) # 0
    BY <2>1, HoldersFinite, FS_EmptySet
  <2> QED
    BY <1>0, <2>2, HoldersFinite DEF SlotsInv, SlotsExact
<1>2. a \in DOMAIN slots /\ Count(a) = slots[a]
  BY <1>1 DEF Count
<1>3. slots' = WithCount(a, Count(a) - 1) /\ Count(a) - 1 \in 0..MaxPerIp
  BY <1>1, <1>2 DEF Release
<1>4. /\ \E S \in SUBSET Address : slots' \in [S -> 1..MaxPerIp]
      /\ \A b \in Address : Count(b)' = IF b = a THEN Count(a) - 1 ELSE Count(b)
      /\ DOMAIN slots' = IF Count(a) - 1 = 0 THEN DOMAIN slots \ {a} ELSE DOMAIN slots \cup {a}
  BY <1>0, <1>3, WithCountUpdates DEF SlotsInv
<1>5. SlotsTypeOK'
  BY <1>4 DEF Release, SlotsInv, SlotsTypeOK, Stage
<1>6. Holders(a)' = Holders(a) \ {c} /\ \A b \in Address \ {a} : Holders(b)' = Holders(b)
  BY DEF Release, SlotsInv, SlotsTypeOK, Holders, Holding
<1>7. Cardinality(Holders(a)') = Cardinality(Holders(a)) - 1
  <2>1. c \in Holders(a) /\ IsFiniteSet(Holders(a))
    BY <1>0, HoldersFinite
  <2>2. Cardinality(Holders(a) \ {c}) = Cardinality(Holders(a)) - 1
    BY <2>1, FS_RemoveElement, Zenon
  <2> QED
    BY <1>6, <2>2
<1>8. ASSUME NEW b \in Address
      PROVE  Count(b)' = Cardinality(Holders(b)') /\ Count(b)' <= MaxPerIp
  <2>1. CASE b = a
    BY <1>1, <1>4, <1>7, <2>1
  <2>2. CASE b # a
    BY <1>4, <1>6, <2>2 DEF SlotsInv, SlotsExact
  <2> QED
    BY <2>1, <2>2
<1>9. \A b \in DOMAIN slots' : Holders(b)' # {}
  <2>1. DOMAIN slots \subseteq Address
    BY DEF SlotsInv, SlotsTypeOK
  <2>2. CASE Count(a) = 1
    BY <1>4, <1>6, <2>1, <2>2 DEF SlotsInv, SlotsExact
  <2>3. CASE Count(a) # 1
    <3>1. Cardinality(Holders(a)') # 0
      BY <1>1, <1>7, <2>3
    <3>2. Holders(a)' # {}
      BY <3>1, FS_EmptySet
    <3>3. DOMAIN slots' = DOMAIN slots \cup {a}
      BY <1>1, <1>4, <2>3
    <3> QED
      BY <1>6, <2>1, <3>2, <3>3 DEF SlotsInv, SlotsExact
  <2> QED
    BY <2>2, <2>3
<1> QED
  BY <1>5, <1>8, <1>9 DEF SlotsInv, SlotsExact

\* Every step keeps the counts exact, ...
LEMMA SlotsStepKeeps ==
  ASSUME SlotsInv, [SlotsNext]_slotVars
  PROVE  SlotsInv'
<1>1. ASSUME NEW c \in Conn, Deny(c)
      PROVE  SlotsInv'
  BY <1>1, MoveKeepsHolders DEF Deny, Stage, Holding
<1>2. ASSUME NEW c \in Conn, Request(c)
      PROVE  SlotsInv'
  <2>1. PICK addr \in Address, header \in IP \cup {NoHeader} :
          Refuse(c, RealIp(addr, header)) \/ Accept(c, RealIp(addr, header))
    BY <1>2 DEF Request
  <2> DEFINE a == RealIp(addr, header)
  <2>2. a \in Address
    BY DEF RealIp, Address
  <2>3. CASE Refuse(c, a)
    <3>1. SlotsTypeOK'
      BY <2>2, <2>3 DEF Refuse, SlotsInv, SlotsTypeOK, Stage
    <3>2. \A b \in Address : Holders(b)' = Holders(b) /\ Count(b)' = Count(b)
      BY <2>3 DEF Refuse, SlotsInv, SlotsTypeOK, Holders, Holding, Count
    <3>3. DOMAIN slots \subseteq Address /\ slots' = slots
      BY <2>3 DEF SlotsInv, SlotsTypeOK, Refuse
    <3> QED
      BY <3>1, <3>2, <3>3 DEF SlotsInv, SlotsExact
  <2>4. CASE Accept(c, a)
    BY <2>2, <2>4, AcceptCounts
  <2> QED
    BY <2>1, <2>3, <2>4
<1>3. ASSUME NEW c \in Conn, Upgrade(c) \/ HandlerReturns(c) \/ Lose(c)
      PROVE  SlotsInv'
  BY <1>3, MoveKeepsHolders DEF Upgrade, HandlerReturns, Lose, Move, Stage, Holding
<1>4. ASSUME NEW c \in Conn, Release(c)
      PROVE  SlotsInv'
  BY <1>4, ReleaseCounts
<1>5. CASE UNCHANGED slotVars
  BY <1>5 DEF slotVars, SlotsInv, SlotsTypeOK, SlotsExact, Count, Holders
<1> QED
  BY <1>1, <1>2, <1>3, <1>4, <1>5 DEF SlotsNext

\* ... as they are at the start.
LEMMA SlotsStart ==
  ASSUME SlotsInit
  PROVE  SlotsInv
<1>1. SlotsTypeOK
  <2>1. slots \in [{} -> 1..MaxPerIp] /\ {} \in SUBSET Address
    BY DEF SlotsInit
  <2>2. stage \in [Conn -> Stage] /\ from \in [Conn -> Address]
    BY DEF SlotsInit, Stage, Address
  <2> QED
    BY <2>1, <2>2 DEF SlotsTypeOK
<1>2. \A a : Holders(a) = {}
  BY DEF SlotsInit, Holders, Holding
<1>3. \A a \in Address : Count(a) = 0
  BY DEF SlotsInit, Count
<1>4. DOMAIN slots = {}
  BY DEF SlotsInit
<1> QED
  BY <1>1, <1>2, <1>3, <1>4, FS_EmptySet, SlotAssumption DEF SlotsInv, SlotsExact

\* try_acquire_connection and release_connection count exactly: at any time the map has,
\* for every address, the number of its requests that hold a slot, within the limit, and
\* no entry for an address with none.
THEOREM SlotsAreExact == SlotsSpec => []SlotsExact
<1>1. SlotsInit => SlotsInv
  BY SlotsStart
<1>2. SlotsInv /\ [SlotsNext]_slotVars => SlotsInv'
  BY SlotsStepKeeps
<1>3. SlotsInv => SlotsExact
  BY DEF SlotsInv
<1> QED
  BY <1>1, <1>2, <1>3, PTL DEF SlotsSpec

(***************************************************************************)
(* The rate limiter.                                                       *)
(***************************************************************************)
\* The messages of the present window are the last Used ones.  The others came before it
\* began, and those before the last MaxMessages of the others a whole window before.
Used == MaxMessages - tokens

Windows ==
  /\ \A i \in 1..Len(admitted) : admitted[i] <= now
  /\ \A i \in 1..(Len(admitted) - Used) : admitted[i] <= lastRefill
  /\ \A i \in 1..(Len(admitted) - Used - MaxMessages) : admitted[i] + Second <= lastRefill

RateInv == RateTypeOK /\ Windows /\ BurstBounded

\* The new message is the last one; the earlier ones keep their places.
LEMMA AdmitAppends ==
  ASSUME RateInv, Admit
  PROVE  /\ admitted' \in Seq(Nat) /\ Len(admitted') = Len(admitted) + 1
         /\ admitted'[Len(admitted) + 1] = now
         /\ \A i \in 1..Len(admitted) : admitted'[i] = admitted[i] /\ admitted[i] \in Nat
<1>1. admitted \in Seq(Nat) /\ now \in Nat /\ admitted' = Append(admitted, now)
  BY RateAssumption DEF RateInv, RateTypeOK, Admit
<1> QED
  BY <1>1

\* A message takes a token or begins a window, and the types are kept.
LEMMA AdmitTypes ==
  ASSUME RateInv, Admit
  PROVE  /\ RateTypeOK' /\ now' = now
         /\ \/ tokens' = tokens - 1 /\ lastRefill' = lastRefill
            \/ tokens' = MaxMessages - 1 /\ lastRefill' = now /\ lastRefill + Second <= now
<1> USE RateAssumption
<1>1. now \in 0..Horizon /\ lastRefill \in 0..now /\ tokens \in 0..MaxMessages
  BY DEF RateInv, RateTypeOK
<1>2. CASE now - lastRefill >= Second
  <2>1. tokens' = MaxMessages - 1 /\ lastRefill' = now /\ now' = now
    BY <1>2 DEF Admit, Refill
  <2> QED
    BY <1>1, <1>2, <2>1, AdmitAppends DEF RateTypeOK
<1>3. CASE ~(now - lastRefill >= Second)
  <2>1. tokens > 0 /\ tokens' = tokens - 1 /\ lastRefill' = lastRefill /\ now' = now
    BY <1>3 DEF Admit, Refill
  <2> QED
    BY <1>1, <2>1, AdmitAppends DEF RateTypeOK
<1> QED
  BY <1>2, <1>3

\* A request that is admitted.
LEMMA AdmitKeepsWindows ==
  ASSUME RateInv, Admit
  PROVE  Windows'
<1> PICK n \in Nat : n = Len(admitted)
  BY DEF RateInv, RateTypeOK
<1> USE RateAssumption
<1>1. n \in Nat /\ now \in Nat /\ lastRefill \in 0..now /\ tokens \in 0..MaxMessages /\ RateTypeOK'
  BY AdmitTypes DEF RateInv, RateTypeOK
<1>2. /\ Len(admitted') = n + 1 /\ admitted'[n + 1] = now /\ now' = now
      /\ \A i \in 1..n : admitted'[i] = admitted[i] /\ admitted[i] \in Nat
  BY AdmitAppends, AdmitTypes
<1>3. /\ \A i \in 1..n : admitted[i] <= now
      /\ \A i \in 1..(n - Used) : admitted[i] <= lastRefill
      /\ \A i \in 1..(n - Used - MaxMessages) : admitted[i] + Second <= lastRefill
  BY DEF RateInv, Windows
<1>4. ASSUME NEW i \in 1..(n + 1)
      PROVE  admitted'[i] <= now'
  <2>1. CASE i = n + 1
    BY <1>1, <1>2, <2>1
  <2>2. CASE i # n + 1
    BY <1>1, <1>2, <1>3, <2>2
  <2> QED
    BY <2>1, <2>2
<1>5. CASE tokens' = tokens - 1 /\ lastRefill' = lastRefill
  <2>1. Used' = Used + 1 /\ Used \in Nat
    BY <1>1, <1>5 DEF Used
  <2>2. ASSUME NEW i \in 1..(n + 1 - Used')
        PROVE  admitted'[i] <= lastRefill'
    BY <1>1, <1>2, <1>3, <1>5, <2>1
  <2>3. ASSUME NEW i \in 1..(n + 1 - Used' - MaxMessages)
        PROVE  admitted'[i] + Second <= lastRefill'
    <3>1. i \in 1..n /\ i \in 1..(n - Used - MaxMessages)
      BY <1>1, <2>1
    <3> QED
      BY <1>2, <1>3, <1>5, <3>1
  <2>4. Len(admitted') = n + 1
    BY <1>2
  <2> QED
    BY <1>1, <1>4, <2>1, <2>2, <2>3, <2>4 DEF Windows
<1>6. CASE tokens' = MaxMessages - 1 /\ lastRefill' = now /\ lastRefill + Second <= now
  <2>1. Used' = 1 /\ Used \in 0..MaxMessages
    BY <1>1, <1>6 DEF Used
  <2>2. ASSUME NEW i \in 1..(n + 1 - Used')
        PROVE  admitted'[i] <= lastRefill'
    BY <1>1, <1>2, <1>3, <1>6, <2>1
  <2>3. ASSUME NEW i \in 1..(n + 1 - Used' - MaxMessages)
        PROVE  admitted'[i] + Second <= lastRefill'
    <3>1. i \in 1..n /\ i \in 1..(n - Used)
      BY <1>1, <2>1
    <3>2. admitted'[i] = admitted[i] /\ admitted[i] \in Nat /\ admitted[i] <= lastRefill
      BY <1>2, <1>3, <3>1
    <3> QED
      BY <1>1, <1>6, <3>2
  <2>4. Len(admitted') = n + 1
    BY <1>2
  <2> QED
    BY <1>1, <1>4, <2>1, <2>2, <2>3, <2>4 DEF Windows
<1> QED
  BY <1>5, <1>6, AdmitTypes

\* The message 2 * MaxMessages before a new one came a window before this window began.
LEMMA AdmitKeepsBurst ==
  ASSUME RateInv, Admit
  PROVE  BurstBounded'
<1> PICK n \in Nat : n = Len(admitted)
  BY DEF RateInv, RateTypeOK
<1> USE RateAssumption
<1>1. n \in Nat /\ now \in Nat /\ lastRefill' \in 0..now /\ Used' \in 0..MaxMessages
  BY AdmitTypes DEF RateInv, RateTypeOK, Used
<1>2. /\ Len(admitted') = n + 1 /\ admitted'[n + 1] = now
      /\ \A i \in 1..n : admitted'[i] = admitted[i] /\ admitted[i] \in Nat
  BY AdmitAppends
<1>3. \A i \in 1..(n + 1 - Used' - MaxMessages) : admitted'[i] + Second <= lastRefill'
  <2>1. Len(admitted') = n + 1
    BY <1>2
  <2>2. \A i \in 1..(Len(admitted') - Used' - MaxMessages) : admitted'[i] + Second <= lastRefill'
    BY AdmitKeepsWindows, Zenon DEF Windows
  <2>3. ASSUME NEW i \in 1..(n + 1 - Used' - MaxMessages)
        PROVE  admitted'[i] + Second <= lastRefill'
    <3>1. i \in 1..(Len(admitted') - Used' - MaxMessages)
      <4>1. PICK u \in Int : u = Used'
        BY <1>1
      <4>2. PICK x \in Int : x = Len(admitted') /\ x = n + 1
        BY <1>1, <2>1
      <4>3. i \in 1..(n + 1 - u - MaxMessages)
        BY <4>1
      <4>4. i \in 1..(x - u - MaxMessages)
        BY <4>2, <4>3
      <4> QED
        BY <4>1, <4>2, <4>4
    <3> QED
      BY <3>1, <2>2, Zenon
  <2> QED
    BY <2>3, Zenon
<1>4. \A i \in 1..(n - 2 * MaxMessages) : admitted[i + 2 * MaxMessages] - admitted[i] >= Second
  BY DEF RateInv, BurstBounded
<1>5. ASSUME NEW i \in 1..(n + 1 - 2 * MaxMessages)
      PROVE  admitted'[i + 2 * MaxMessages] - admitted'[i] >= Second
  <2>1. CASE i = n + 1 - 2 * MaxMessages
    <3>1. i \in 1..n /\ i \in 1..(n + 1 - Used' - MaxMessages) /\ i + 2 * MaxMessages = n + 1
      <4>1. MaxMessages \in Nat \ {0} /\ n + 1 - Used' - MaxMessages >= n + 1 - 2 * MaxMessages
        BY <1>1
      <4>2. i \in Nat /\ i >= 1 /\ i <= n
        BY <1>1, <2>1, <4>1
      <4> QED
        BY <1>1, <2>1, <4>1, <4>2
    <3>2. admitted'[i] \in Nat /\ admitted'[i] + Second <= lastRefill'
      BY <1>2, <1>3, <3>1
    <3>3. admitted'[i + 2 * MaxMessages] = now
      BY <1>2, <3>1
    <3> QED
      BY <1>1, <3>2, <3>3
  <2>2. CASE i # n + 1 - 2 * MaxMessages
    <3>1. i \in 1..n /\ i + 2 * MaxMessages \in 1..n /\ i \in 1..(n - 2 * MaxMessages)
      BY <1>1, <2>2
    <3> QED
      BY <1>2, <1>4, <3>1
  <2> QED
    BY <2>1, <2>2
<1>6. Len(admitted') = n + 1
  BY <1>2
<1> QED
  BY <1>5, <1>6 DEF BurstBounded

\* Time that passes.
LEMMA TickKeeps ==
  ASSUME RateInv, Tick
  PROVE  RateInv'
<1> USE RateAssumption
<1>1. now' = now + 1 /\ now < Horizon /\ UNCHANGED <<tokens, lastRefill, admitted>>
  BY DEF Tick
<1>2. RateTypeOK'
  BY <1>1 DEF RateInv, RateTypeOK
<1>3. BurstBounded'
  BY <1>1 DEF RateInv, BurstBounded
<1>4. Used' = Used
  BY <1>1 DEF Used
<1>5. \A i \in 1..Len(admitted') : admitted'[i] <= now'
  <2>1. now \in Nat /\ \A i \in 1..Len(admitted) : admitted[i] \in Nat /\ admitted[i] <= now
    BY DEF RateInv, RateTypeOK, Windows
  <2> QED
    BY <1>1, <2>1
<1>6. Windows'
  BY <1>1, <1>4, <1>5 DEF RateInv, Windows
<1> QED
  BY <1>2, <1>3, <1>6 DEF RateInv

\* The invariant holds at the start.
LEMMA RateStart ==
  ASSUME RateInit
  PROVE  RateInv
<1> USE RateAssumption
<1>1. admitted \in Seq(Nat) /\ Len(admitted) = 0
  BY DEF RateInit
<1>2. now = 0 /\ lastRefill = 0 /\ tokens = MaxMessages
  BY DEF RateInit
<1>3. RateTypeOK
  BY <1>1, <1>2 DEF RateTypeOK
<1>4. Windows
  BY <1>1, <1>2 DEF Windows, Used
<1>5. BurstBounded
  BY <1>1 DEF BurstBounded
<1> QED
  BY <1>3, <1>4, <1>5 DEF RateInv

\* Between a message and the one 2 * MAX_MESSAGES_PER_SECOND after it there is a second at
\* least: the fixed window of RateLimiter::allow lets a burst of twice the limit through
\* around its boundary, and no more.
THEOREM BurstsAreBounded == RateSpec => []BurstBounded
<1>1. RateInit => RateInv
  BY RateStart
<1>2. RateInv /\ [RateNext]_rateVars => RateInv'
  <2> SUFFICES ASSUME RateInv, [RateNext]_rateVars
               PROVE  RateInv'
    OBVIOUS
  <2>1. CASE Tick
    BY <2>1, TickKeeps
  <2>2. CASE Admit
    BY <2>2, AdmitTypes, AdmitKeepsWindows, AdmitKeepsBurst DEF RateInv
  <2>3. CASE UNCHANGED rateVars
    BY <2>3 DEF rateVars, RateInv, RateTypeOK, Windows, Used, BurstBounded
  <2> QED
    BY <2>1, <2>2, <2>3 DEF RateNext, Reject
<1>3. RateInv => BurstBounded
  BY DEF RateInv
<1> QED
  BY <1>1, <1>2, <1>3, PTL DEF RateSpec
=============================================================================
