--------------------------- MODULE GameinfoProofs ---------------------------
(***************************************************************************)
(* Proofs about the GAMEINFO parser: it undoes the encoding of the game,   *)
(* for bytes and groups of any size, and reads nothing wrong in a packet   *)
(* that is cut off anywhere.                                               *)
(***************************************************************************)
EXTENDS Gameinfo, WellFoundedInduction, TLAPS

(***************************************************************************)
(* Induction over the naturals, by sets: the least number outside of a set *)
(* that is closed under successor cannot exist.                            *)
(***************************************************************************)
Less == {ss \in Nat \X Nat : ss[1] < ss[2]}

\* Every set of naturals that is not empty has a least element: Min of the first zero.
LEMMA Least ==
  ASSUME NEW T, T \subseteq Nat, T # {}
  PROVE  \E n \in T : \A k \in T : n <= k
<1>1. IsWellFoundedOn(Less, Nat)
  BY NatLessThanWellFounded DEF OpToRel, Less
<1>2. PICK n \in T : \A k \in T : ~ (<<k, n>> \in Less)
  BY <1>1, WFMin
<1>3. ASSUME NEW k \in Nat, NEW m \in Nat, k < m PROVE <<k, m>> \in Less
  BY <1>3 DEF Less
<1>4. ASSUME NEW k \in T PROVE n <= k
  <2>1. k \in Nat /\ n \in Nat /\ ~(<<k, n>> \in Less)
    BY <1>2
  <2> QED BY <2>1, <1>3
<1> QED BY <1>4

\* Induction: a set with 0 that is closed under successor holds every natural.
LEMMA Inductive ==
  ASSUME NEW P, 0 \in P, \A n \in Nat : n \in P => n + 1 \in P
  PROVE  Nat \subseteq P
<1> SUFFICES ASSUME Nat \ P # {} PROVE FALSE
  OBVIOUS
<1>1. PICK n \in Nat \ P : \A k \in Nat \ P : n <= k
  BY Least
<1>2. n # 0 /\ n - 1 \in Nat /\ n - 1 \in P
  BY <1>1
<1> QED BY <1>2, <1>1

\* Min of a set of naturals is an element of it, and the least.
LEMMA MinIsLeast ==
  ASSUME NEW T, T \subseteq Nat, T # {}
  PROVE  Min(T) \in T /\ \A k \in T : Min(T) <= k
BY Least DEF Min

\* The least element is Min.
LEMMA LeastIsMin ==
  ASSUME NEW T, T \subseteq Nat, NEW n \in T, \A k \in T : n <= k
  PROVE  Min(T) = n
<1>1. Min(T) \in T /\ Min(T) <= n
  BY MinIsLeast
<1>2. n <= Min(T)
  BY <1>1
<1>3. Min(T) \in Nat
  BY <1>1
<1> QED BY <1>1, <1>2, <1>3

(***************************************************************************)
(* Arithmetic.                                                             *)
(***************************************************************************)
\* A number is its quotient times the divisor, and its remainder.
LEMMA Divide ==
  ASSUME NEW a \in Nat, NEW w \in Nat \ {0}
  PROVE  /\ a \div w \in Nat /\ a % w \in 0..(w - 1)
         /\ a = (a \div w) * w + (a % w)
OBVIOUS

\* There is only one way to write it like that.
LEMMA Quotient ==
  ASSUME NEW w \in Nat \ {0}, NEW q \in Nat, NEW r \in 0..(w - 1), NEW a \in Nat, a = q * w + r
  PROVE  a \div w = q /\ a % w = r
OBVIOUS

\* The group and the place in it of what is sent at position k.
LEMMA Place ==
  ASSUME NEW v \in Nat \ {0}, NEW g \in Nat, NEW b \in 0..(v - 1), NEW k, k = g * v + b + 1
  PROVE  k - 1 \in Nat /\ (k - 1) \div v = g /\ (k - 1) % v = b
<1>1. k - 1 \in Nat /\ k - 1 = g * v + b
  OBVIOUS
<1> QED BY <1>1, Quotient

\* 1 << b is defined for every b.
LEMMA Bits == Bit = [b \in Nat |-> IF b = 0 THEN 1 ELSE 2 * Bit[b - 1]]
<1> DEFINE Up(f, n) == f \in [0..n -> Nat] /\ f[0] = 1 /\ \A i \in 1..n : f[i] = 2 * f[i - 1]
           P == {n \in Nat : \E f \in [0..n -> Nat] : Up(f, n)}
           F(n) == CHOOSE f \in [0..n -> Nat] : Up(f, n)
           G == [n \in Nat |-> F(n)[n]]
<1>1. 0 \in P
  <2>1. Up([i \in 0..0 |-> 1], 0)
    OBVIOUS
  <2> QED BY <2>1
<1>2. ASSUME NEW n \in Nat, n \in P PROVE n + 1 \in P
  <2>1. PICK f \in [0..n -> Nat] : Up(f, n)
    BY <1>2
  <2> DEFINE g == [i \in 0..(n + 1) |-> IF i = n + 1 THEN 2 * f[n] ELSE f[i]]
  <2>2. g \in [0..(n + 1) -> Nat]
    BY <2>1
  <2>3. g[0] = 1
    BY <2>1
  <2>4. ASSUME NEW i \in 1..(n + 1) PROVE g[i] = 2 * g[i - 1]
    <3>1. CASE i = n + 1
      BY <3>1
    <3>2. CASE i # n + 1
      BY <3>2, <2>1
    <3> QED BY <3>1, <3>2
  <2>5. Up(g, n + 1)
    BY <2>2, <2>3, <2>4
  <2>6. \E f2 \in [0..(n + 1) -> Nat] : Up(f2, n + 1)
    <3> HIDE DEF g
    <3> QED BY <2>2, <2>5
  <2> HIDE DEF g, Up
  <2> QED BY <2>6
<1>3. Nat \subseteq P
  <2> HIDE DEF P
  <2> QED BY <1>1, <1>2, Inductive
<1>4. ASSUME NEW n \in Nat PROVE F(n) \in [0..n -> Nat] /\ Up(F(n), n)
  BY <1>3
<1>5. ASSUME NEW n \in Nat, NEW f, NEW g, Up(f, n), Up(g, n + 1) PROVE f[n] = g[n]
  <2> DEFINE Q == {i \in Nat : i <= n => f[i] = g[i]}
  <2>1. 0 \in Q
    BY <1>5
  <2>2. ASSUME NEW i \in Nat, i \in Q PROVE i + 1 \in Q
    <3> SUFFICES ASSUME i + 1 <= n PROVE f[i + 1] = g[i + 1]
      OBVIOUS
    <3>1. i + 1 \in 1..n /\ i + 1 \in 1..(n + 1) /\ (i + 1) - 1 = i
      OBVIOUS
    <3>2. f[i + 1] = 2 * f[i] /\ g[i + 1] = 2 * g[i]
      BY <3>1, <1>5
    <3>3. f[i] = g[i]
      BY <2>2
    <3> QED BY <3>2, <3>3
  <2>3. Nat \subseteq Q
    <3> HIDE DEF Q
    <3> QED BY <2>1, <2>2, Inductive
  <2> QED BY <2>3
<1>6. G[0] = 1
  BY <1>4
<1>7. ASSUME NEW n \in Nat, n # 0 PROVE G[n] = 2 * G[n - 1]
  <2>1. n - 1 \in Nat /\ (n - 1) + 1 = n /\ n \in 1..n
    BY <1>7
  <2>2. Up(F(n - 1), n - 1) /\ Up(F(n), n)
    BY <1>4, <2>1
  <2>3. F(n - 1)[n - 1] = F(n)[n - 1]
    <3> HIDE DEF F, Up
    <3> DEFINE m == n - 1
    <3>1. m \in Nat /\ m + 1 = n
      BY <2>1
    <3>2. Up(F(m), m) /\ Up(F(n), m + 1)
      BY <2>2, <3>1
    <3> HIDE DEF m
    <3>3. F(m)[m] = F(n)[m]
      BY <3>1, <3>2, <1>5
    <3> QED BY <3>3 DEF m
  <2>4. F(n)[n] = 2 * F(n)[n - 1]
    BY <2>1, <2>2
  <2> QED BY <2>1, <2>3, <2>4
<1>8. G = [b \in Nat |-> IF b = 0 THEN 1 ELSE 2 * G[b - 1]]
  <2>1. ASSUME NEW b \in Nat PROVE G[b] = IF b = 0 THEN 1 ELSE 2 * G[b - 1]
    <3> HIDE DEF G
    <3> QED BY <1>6, <1>7
  <2>2. G = [b \in Nat |-> G[b]]
    OBVIOUS
  <2> HIDE DEF G
  <2> QED BY <2>1, <2>2
<1> HIDE DEF G
<1> QED BY <1>8 DEF Bit

\* The powers of two: 1, and each twice the one before.
LEMMA BitValues ==
  /\ \A b \in Nat : Bit[b] \in Nat \ {0}
  /\ Bit[0] = 1
  /\ \A b \in Nat : Bit[b + 1] = 2 * Bit[b]
<1>1. Bit[0] = 1
  BY Bits
<1>2. ASSUME NEW b \in Nat PROVE Bit[b + 1] = 2 * Bit[b]
  <2>1. b + 1 \in Nat /\ b + 1 # 0 /\ (b + 1) - 1 = b
    OBVIOUS
  <2> QED BY Bits, <2>1
<1> DEFINE P == {b \in Nat : Bit[b] \in Nat \ {0}}
<1>3. 0 \in P
  BY <1>1
<1>4. ASSUME NEW b \in Nat, b \in P PROVE b + 1 \in P
  <2>1. Bit[b] \in Nat \ {0} /\ Bit[b + 1] = 2 * Bit[b]
    BY <1>2, <1>4
  <2> QED BY <2>1
<1>5. Nat \subseteq P
  <2> HIDE DEF P
  <2> QED BY <1>3, <1>4, Inductive
<1> QED BY <1>1, <1>2, <1>5

\* A power of two is an even multiple of every smaller one.
LEMMA BitsDivide ==
  ASSUME NEW n \in Nat, NEW b \in 0..n
  PROVE  \E k \in Nat : Bit[n + 1] = (2 * k) * Bit[b]
<1> DEFINE Even(d, k) == Bit[b + d + 1] = (2 * k) * Bit[b]
           P == {d \in Nat : \E k \in Nat : Even(d, k)}
<1>1. 0 \in P
  <2>1. Bit[b + 0 + 1] = (2 * 1) * Bit[b]
    BY BitValues
  <2> QED BY <2>1
<1>2. ASSUME NEW d \in Nat, d \in P PROVE d + 1 \in P
  <2>1. PICK k \in Nat : Bit[b + d + 1] = (2 * k) * Bit[b]
    BY <1>2
  <2>2. Bit[b + (d + 1) + 1] = 2 * Bit[b + d + 1]
    BY BitValues
  <2>3. Bit[b] \in Nat /\ 2 * k \in Nat
    BY BitValues
  <2>4. Bit[b + (d + 1) + 1] = (2 * (2 * k)) * Bit[b]
    <3>1. \A x, y, z \in Nat : x * (y * z) = (x * y) * z
      OBVIOUS
    <3> QED BY <3>1, <2>1, <2>2, <2>3
  <2>5. Even(d + 1, 2 * k)
    BY <2>4
  <2> HIDE DEF Even
  <2> QED BY <2>3, <2>5
<1>3. Nat \subseteq P
  <2> HIDE DEF P
  <2> QED BY <1>1, <1>2, Inductive
<1>4. n - b \in Nat
  OBVIOUS
<1>5. PICK k \in Nat : Bit[b + (n - b) + 1] = (2 * k) * Bit[b]
  BY <1>3, <1>4
<1>6. b + (n - b) + 1 = n + 1
  OBVIOUS
<1> QED BY <1>5, <1>6

\* An even multiple of w does not change whether the quotient by w is odd.
LEMMA EvenMultiple ==
  ASSUME NEW m \in Nat, NEW w \in Nat \ {0}, NEW k \in Nat
  PROVE  Odd((m + (2 * k) * w) \div w) <=> Odd(m \div w)
<1> DEFINE q == m \div w
           r == m % w
<1>1. q \in Nat /\ r \in 0..(w - 1) /\ m = q * w + r
  BY Divide DEF q, r
<1> HIDE DEF q, r
<1>2. q + 2 * k \in Nat /\ (2 * k) * w \in Nat /\ m + (2 * k) * w = (q + 2 * k) * w + r
  <2>1. \A x, y, z \in Nat : x * y \in Nat /\ (x + y) * z = x * z + y * z
    OBVIOUS
  <2>2. 2 * k \in Nat /\ (2 * k) * w \in Nat /\ (q + 2 * k) * w = q * w + (2 * k) * w
    BY <2>1, <1>1
  <2> QED BY <2>1, <2>2, <1>1
<1>3. (m + (2 * k) * w) \div w = q + 2 * k
  BY <1>1, <1>2, Quotient
<1>4. (q + 2 * k) % 2 = q % 2
  BY <1>1
<1> QED
  <2>1. Odd(m \div w) <=> q % 2 = 1
    BY DEF Odd, q
  <2> QED BY <2>1, <1>3, <1>4 DEF Odd

\* Any choice of bits above bit 0 is that of some odd number.
LEMMA SomeMask ==
  ASSUME NEW B
  PROVE  \A n \in Nat : \E m \in 0..(2 * Bit[n] - 1) :
           Odd(m) /\ \A b \in 1..n : Odd(m \div Bit[b]) <=> b \in B
<1> DEFINE Good(m, n) == Odd(m) /\ \A b \in 1..n : Odd(m \div Bit[b]) <=> b \in B
           P == {n \in Nat : \E m \in 0..(2 * Bit[n] - 1) : Good(m, n)}
<1>1. 0 \in P
  <2>1. 1 \in 0..(2 * Bit[0] - 1) /\ Good(1, 0)
    BY BitValues DEF Odd
  <2> QED BY <2>1
<1>2. ASSUME NEW n \in Nat, n \in P PROVE n + 1 \in P
  <2>1. PICK m \in 0..(2 * Bit[n] - 1) : Good(m, n)
    BY <1>2
  <2> DEFINE w == Bit[n + 1]
             m2 == IF n + 1 \in B THEN m + w ELSE m
  <2>2. w \in Nat \ {0} /\ w = 2 * Bit[n] /\ Bit[n] \in Nat /\ n + 1 \in Nat
    BY BitValues
  <2>3. m \in Nat /\ m < w /\ m2 \in Nat /\ m2 \in 0..(2 * w - 1)
    BY <2>1, <2>2
  <2>4. Odd(m2)
    <3>1. (m + 2 * Bit[n]) % 2 = m % 2
      BY <2>2, <2>3
    <3> QED BY <3>1, <2>1, <2>2 DEF Odd
  <2>5. ASSUME NEW b \in 1..(n + 1) PROVE Odd(m2 \div Bit[b]) <=> b \in B
    <3>1. CASE b = n + 1
      <4>1. m \div w = 0 /\ (m + w) \div w = 1
        BY <2>2, <2>3
      <4> QED BY <3>1, <4>1 DEF Odd
    <3>2. CASE b # n + 1
      <4>1. b \in 1..n /\ b \in 0..n /\ b \in Nat
        BY <3>2
      <4>2. Bit[b] \in Nat \ {0}
        BY <4>1, BitValues
      <4>3. PICK k \in Nat : w = (2 * k) * Bit[b]
        BY <4>1, BitsDivide
      <4>4. Odd((m + w) \div Bit[b]) <=> Odd(m \div Bit[b])
        BY <4>2, <4>3, <2>3, EvenMultiple
      <4> HIDE DEF w
      <4> QED BY <4>1, <4>4, <2>1
    <3> QED BY <3>1, <3>2
  <2>6. Good(m2, n + 1)
    BY <2>4, <2>5
  <2> HIDE DEF m2, Good
  <2>7. \E x \in 0..(2 * Bit[n + 1] - 1) : Good(x, n + 1)
    BY <2>3, <2>6
  <2> QED BY <2>7
<1>3. Nat \subseteq P
  <2> HIDE DEF P
  <2> QED BY <1>1, <1>2, Inductive
<1> QED BY <1>3

(***************************************************************************)
(* Groups of bytes, and the positions of bytes and masks.                  *)
(***************************************************************************)
\* n bytes fill n \div w groups, and begin one more with what remains.
LEMMA GroupsOf ==
  ASSUME NEW n \in Nat, NEW w \in Nat \ {0}, NEW q \in Nat, NEW r \in 0..(w - 1), n = q * w + r
  PROVE  Groups(n, w) = IF r = 0 THEN q ELSE q + 1
<1>1. CASE r = 0
  <2>1. n + w - 1 = q * w + (w - 1) /\ w - 1 \in 0..(w - 1) /\ n + w - 1 \in Nat
    BY <1>1
  <2> QED BY <2>1, <1>1, Quotient DEF Groups
<1>2. CASE r # 0
  <2>1. n + w - 1 = (q + 1) * w + (r - 1) /\ r - 1 \in 0..(w - 1) /\ n + w - 1 \in Nat
    <3>1. (q + 1) * w = q * w + w /\ q * w \in Nat
      OBVIOUS
    <3> QED BY <3>1, <1>2
  <2>2. q + 1 \in Nat
    OBVIOUS
  <2> QED BY <2>1, <2>2, <1>2, Quotient DEF Groups
<1> QED BY <1>1, <1>2

\* Without its masks, an encoded text is as long as before.
LEMMA MasksAdded ==
  ASSUME NEW n \in Nat, NEW w \in Nat \ {0}
  PROVE  /\ Groups(n, w) \in Nat
         /\ (n + Groups(n, w)) - Groups(n + Groups(n, w), w + 1) = n
<1> DEFINE q == n \div w
           r == n % w
           L == n + Groups(n, w)
<1>1. q \in Nat /\ r \in 0..(w - 1) /\ n = q * w + r
  BY Divide DEF q, r
<1> HIDE DEF q, r
<1>2. Groups(n, w) = IF r = 0 THEN q ELSE q + 1
  BY <1>1, GroupsOf
<1>3. L \in Nat /\ w + 1 \in Nat \ {0} /\ q * w \in Nat /\ q * (w + 1) = q * w + q
  BY <1>1, <1>2
<1>4. CASE r = 0
  <2>1. L = q * (w + 1) + 0 /\ 0 \in 0..((w + 1) - 1)
    BY <1>1, <1>2, <1>3, <1>4
  <2>2. Groups(L, w + 1) = q
    BY <1>1, <1>3, <2>1, GroupsOf
  <2> QED BY <2>2, <1>1, <1>2, <1>3, <1>4
<1>5. CASE r # 0
  <2>1. L = q * (w + 1) + (r + 1) /\ r + 1 \in 0..((w + 1) - 1) /\ r + 1 # 0
    BY <1>1, <1>2, <1>3, <1>5
  <2>2. Groups(L, w + 1) = q + 1
    <3> HIDE DEF L
    <3> DEFINE v == w + 1
               s == r + 1
    <3>1. v \in Nat \ {0} /\ s \in 0..(v - 1) /\ s # 0 /\ L = q * v + s
      BY <1>1, <1>3, <2>1
    <3>2. q \in Nat /\ L \in Nat
      BY <1>1, <1>3
    <3> HIDE DEF v, s
    <3>3. Groups(L, v) = IF s = 0 THEN q ELSE q + 1
      BY <3>1, <3>2, GroupsOf, Zenon
    <3>4. Groups(L, v) = q + 1
      BY <3>1, <3>3
    <3> QED BY <3>4 DEF v
  <2> QED BY <2>2, <1>1, <1>2, <1>3, <1>5
<1> QED BY <1>4, <1>5

\* More bytes, no fewer groups: if byte g * w + b is there, g + 1 groups are.
LEMMA GroupsCover ==
  ASSUME NEW n \in Nat, NEW w \in Nat \ {0}, NEW g \in Nat, NEW b \in 1..w
  PROVE  /\ g * w + b <= n => Groups(n, w) >= g + 1
         /\ g * w + b > n => Groups(n, w) <= g + 1
<1> DEFINE q == n \div w
           r == n % w
<1>1. q \in Nat /\ r \in 0..(w - 1) /\ n = q * w + r
  BY Divide DEF q, r
<1> HIDE DEF q, r
<1>2. Groups(n, w) = IF r = 0 THEN q ELSE q + 1
  BY <1>1, GroupsOf
<1>3. \A x, y \in Nat : x * w \in Nat /\ (x < y => (x + 1) * w <= y * w) /\ (x + 1) * w = x * w + w
  OBVIOUS
<1>4. ASSUME g * w + b <= n, Groups(n, w) < g + 1 PROVE FALSE
  <2>1. CASE r = 0
    <3>1. q <= g
      BY <1>1, <1>2, <1>4, <2>1
    <3>2. q * w <= g * w
      BY <1>1, <1>3, <3>1
    <3> QED BY <3>2, <1>1, <1>3, <1>4, <2>1
  <2>2. CASE r # 0
    <3>1. q < g
      BY <1>1, <1>2, <1>4, <2>2
    <3>2. q * w + w <= g * w
      BY <1>1, <1>3, <3>1
    <3> QED BY <3>2, <1>1, <1>3, <1>4
  <2> QED BY <2>1, <2>2, <1>1
<1>5. ASSUME g * w + b > n, Groups(n, w) > g + 1 PROVE FALSE
  <2>1. CASE r = 0
    <3>1. g + 1 < q /\ g + 1 \in Nat
      BY <1>1, <1>2, <1>5, <2>1
    <3>2. ((g + 1) + 1) * w <= q * w
      BY <1>1, <1>3, <3>1
    <3>3. (g + 1) * w = g * w + w /\ ((g + 1) + 1) * w = (g + 1) * w + w /\ g * w \in Nat
      BY <1>3, <3>1
    <3> QED BY <3>2, <3>3, <1>1, <1>3, <1>5
  <2>2. CASE r # 0
    <3>1. g < q
      BY <1>1, <1>2, <1>5, <2>2
    <3>2. g * w + w <= q * w
      BY <1>1, <1>3, <3>1
    <3> QED BY <3>2, <1>1, <1>3, <1>5
  <2> QED BY <2>1, <2>2, <1>1
<1>6. Groups(n, w) \in Nat
  BY <1>1, <1>2
<1> QED BY <1>4, <1>5, <1>6

(***************************************************************************)
(* The encoding, and that Decode undoes it.                                *)
(***************************************************************************)
\* The width of a group, from the assumption.
LEMMA GroupIsNat == Group \in Nat \ {0} /\ Group \in Nat
BY GameinfoAssumption

\* Bytes are numbers.
LEMMA BytesAreNat == Byte \subseteq Nat
<1>1. Bit[Group] \in Nat
  BY BitValues, GroupIsNat
<1> QED BY <1>1 DEF Byte

\* The mask of a group exists, is not zero, and tells which of its bytes were odd.
LEMMA MaskTells ==
  ASSUME NEW s, NEW first \in Nat
  PROVE  /\ Mask(s, first) \in Text
         /\ \A b \in 1..Group :
              Odd(Mask(s, first) \div Bit[b]) <=> first + b - 1 \in DOMAIN s /\ Odd(s[first + b - 1])
<1> DEFINE Set(b) == first + b - 1 \in DOMAIN s /\ Odd(s[first + b - 1])
           B == {b \in 1..Group : Set(b)}
           Good(m) == Odd(m) /\ \A b \in 1..Group : Odd(m \div Bit[b]) <=> Set(b)
<1>1. Group \in Nat
  BY GameinfoAssumption
<1>2. PICK m \in 0..(2 * Bit[Group] - 1) : Odd(m) /\ \A b \in 1..Group : Odd(m \div Bit[b]) <=> b \in B
  BY <1>1, SomeMask
<1>3. m \in Byte /\ Good(m)
  BY <1>2 DEF Byte
<1>4. Mask(s, first) = CHOOSE x \in Byte : Good(x)
  BY DEF Mask
<1> HIDE DEF Good
<1>5. Mask(s, first) \in Byte /\ Good(Mask(s, first))
  BY <1>3, <1>4
<1> USE DEF Good
<1>6. Mask(s, first) # 0
  BY <1>5 DEF Odd
<1> QED BY <1>5, <1>6 DEF Text

\* A byte that is made odd is still a byte, and no zero.
LEMMA MadeOdd ==
  ASSUME NEW x \in Byte
  PROVE  (IF Odd(x) THEN x ELSE x + 1) \in Text
<1>1. Bit[Group] \in Nat
  BY BitValues, GroupIsNat
<1>2. (2 * Bit[Group] - 1) % 2 = 1
  BY <1>1
<1>3. ~Odd(x) => x # 2 * Bit[Group] - 1
  BY <1>2 DEF Odd
<1> QED BY <1>1, <1>3 DEF Odd, Byte, Text

\* Byte b + 1 of chunk g of what is sent: the mask, or a byte of the group made odd.
LEMMA EncodedByte ==
  ASSUME NEW s, NEW g \in Nat, NEW b \in 0..Group, Len(s) \in Nat,
         g * (Group + 1) + b + 1 \in 1..(Len(s) + Groups(Len(s), Group))
  PROVE  Encode(s)[g * (Group + 1) + b + 1] =
           IF b = 0 THEN Mask(s, g * Group + 1)
           ELSE IF Odd(s[g * Group + b]) THEN s[g * Group + b] ELSE s[g * Group + b] + 1
<1> DEFINE v == Group + 1
           k == g * v + b + 1
<1>1. v \in Nat \ {0} /\ b \in 0..(v - 1) /\ g * v \in Nat /\ k \in Nat
  BY GroupIsNat
<1>2. k = g * v + b + 1
  OBVIOUS
<1> HIDE DEF k, v
<1>3. (k - 1) \div v = g /\ (k - 1) % v = b
  BY <1>1, <1>2, Place, ZenonT(60)
<1>4. k \in 1..(Len(s) + Groups(Len(s), Group))
  BY DEF k, v
<1>5. Encode(s)[k] =
        IF b = 0 THEN Mask(s, g * Group + 1)
        ELSE IF Odd(s[g * Group + b]) THEN s[g * Group + b] ELSE s[g * Group + b] + 1
  <2> DEFINE i == g * Group + b
  <2>1. Encode(s)[k] = IF b = 0 THEN Mask(s, i + 1) ELSE IF Odd(s[i]) THEN s[i] ELSE s[i] + 1
    BY <1>3, <1>4 DEF Encode, v
  <2>2. b = 0 => i = g * Group
    BY <1>1, GroupIsNat
  <2>3. CASE b = 0
    BY <2>1, <2>2, <2>3, Zenon
  <2>4. CASE b # 0
    BY <2>1, <2>4, Zenon
  <2> QED BY <2>3, <2>4
<1> QED BY <1>5 DEF k, v

\* What is sent has a mask per group, and no zero: its end is the next zero.
LEMMA EncodedText ==
  ASSUME NEW s \in Seq(Byte)
  PROVE  Encode(s) \in Seq(Text) /\ Len(Encode(s)) = Len(s) + Groups(Len(s), Group)
<1> DEFINE n == Len(s)
           L == n + Groups(n, Group)
           v == Group + 1
<1>1. n \in Nat /\ L \in Nat /\ Group \in Nat \ {0} /\ v \in Nat \ {0} /\ Groups(n, Group) \in Nat
  <2>1. n \in Nat
    OBVIOUS
  <2> HIDE DEF n
  <2>2. Groups(n, Group) \in Nat
    BY <2>1, MasksAdded, GroupIsNat, Zenon
  <2> QED BY <2>1, <2>2, GroupIsNat
<1>2. ASSUME NEW k \in 1..L PROVE Encode(s)[k] \in Text
  <2> DEFINE g == (k - 1) \div v
             b == (k - 1) % v
             i == g * Group + b
  <2>1. g \in Nat /\ b \in 0..(v - 1) /\ k - 1 = g * v + b
    <3>1. k - 1 \in Nat
      BY <1>1
    <3> HIDE DEF v
    <3> QED BY <3>1, <1>1, Divide
  <2> HIDE DEF g, b
  <2>2. g * v = g * Group + g /\ g * Group \in Nat /\ b \in 0..Group /\ b \in Nat
    BY <2>1, <1>1
  <2>3. Encode(s)[g * v + b + 1] = IF b = 0 THEN Mask(s, g * Group + 1)
                                   ELSE IF Odd(s[i]) THEN s[i] ELSE s[i] + 1
    <3>1. g * v + b + 1 \in 1..L
      BY <2>1, <2>2, <1>1
    <3>2. Len(s) \in Nat /\ g \in Nat /\ b \in 0..Group
      BY <2>1, <2>2, <1>1
    <3>3. g * (Group + 1) + b + 1 \in 1..(Len(s) + Groups(Len(s), Group))
      BY <3>1
    <3>4. Encode(s)[g * (Group + 1) + b + 1] =
            IF b = 0 THEN Mask(s, g * Group + 1)
            ELSE IF Odd(s[g * Group + b]) THEN s[g * Group + b] ELSE s[g * Group + b] + 1
      BY <3>2, <3>3, EncodedByte, ZenonT(60)
    <3> QED BY <3>4
  <2>4. k = g * v + b + 1
    BY <2>1, <2>2, <1>1
  <2>5. CASE b = 0
    <3>1. g * Group + 1 \in Nat
      BY <2>2
    <3> QED BY <2>3, <2>4, <2>5, <3>1, MaskTells
  <2>6. CASE b # 0
    <3>1. i <= n
      <4>1. b \in 1..Group
        BY <2>2, <2>6
      <4>2. i > n => Groups(n, Group) <= g + 1
        BY <4>1, <2>1, <1>1, GroupsCover
      <4>3. i \in Nat /\ k = i + g + 1 /\ k <= n + Groups(n, Group)
        BY <2>1, <2>2, <2>4, <1>1
      <4> HIDE DEF i
      <4> QED BY <4>2, <4>3, <2>1, <1>1
    <3>2. i \in 1..n /\ s[i] \in Byte
      BY <3>1, <2>2, <2>6, <1>1
    <3>3. (IF Odd(s[i]) THEN s[i] ELSE s[i] + 1) \in Text
      BY <3>2, MadeOdd
    <3> QED BY <2>3, <2>4, <2>6, <3>3
  <2> QED BY <2>5, <2>6
<1>3. DOMAIN Encode(s) = 1..L /\ Encode(s) = [k \in 1..L |-> Encode(s)[k]]
  BY DEF Encode
<1> HIDE DEF L
<1>4. Encode(s) \in [1..L -> Text]
  BY <1>2, <1>3
<1> QED BY <1>1, <1>4 DEF L

\* decode_stat_string gives the game's bytes back, for every text: the masks go, and every
\* byte is again what it was.
THEOREM DecodeUndoesEncode ==
  ASSUME NEW s \in Seq(Byte)
  PROVE  Decode(Encode(s)) = s
<1> DEFINE n == Len(s)
           e == Encode(s)
           v == Group + 1
           L == n + Groups(n, Group)
           D(i) == LET g == (i - 1) \div Group
                       b == ((i - 1) % Group) + 1
                       mask == e[g * (Group + 1) + 1]
                       byte == e[g * (Group + 1) + 1 + b]
                   IN IF Odd(mask \div Bit[b]) THEN byte ELSE byte - 1
<1>1. n \in Nat /\ Len(e) = L
  BY EncodedText
<1>2. Groups(n, Group) \in Nat /\ L - Groups(L, Group + 1) = n
  <2> HIDE DEF n
  <2> QED BY <1>1, MasksAdded, GroupIsNat
<1>3. ASSUME NEW i \in 1..n PROVE D(i) = s[i]
  <2> DEFINE g == (i - 1) \div Group
             b == ((i - 1) % Group) + 1
             mask == e[g * v + 1]
             byte == e[g * v + 1 + b]
  <2>1. i \in Nat /\ g \in Nat /\ b \in 1..Group /\ i = g * Group + b
    <3>1. i - 1 \in Nat /\ i \in Nat
      BY <1>1
    <3> DEFINE q == (i - 1) \div Group
               r == (i - 1) % Group
    <3>2. q \in Nat /\ r \in 0..(Group - 1) /\ i - 1 = q * Group + r
      BY <3>1, GroupIsNat, Divide
    <3> HIDE DEF q, r
    <3>3. q * Group \in Nat
      BY <3>2, GroupIsNat
    <3>4. r + 1 \in 1..Group /\ i = q * Group + (r + 1)
      BY <3>1, <3>2, <3>3, GroupIsNat
    <3> QED BY <3>1, <3>2, <3>4 DEF q, r
  <2> HIDE DEF g, b
  <2>2. g * v = g * Group + g /\ g * Group \in Nat
    BY <2>1, GroupIsNat
  <2>3. Groups(n, Group) >= g + 1
    <3>1. g * Group + b <= n
      BY <2>1
    <3> HIDE DEF n
    <3> QED BY <3>1, <2>1, <1>1, GroupIsNat, GroupsCover
  <2>4. g * v + 0 + 1 \in 1..L /\ g * v + b + 1 \in 1..L
    <3> DEFINE c == Groups(n, Group)
               x == g * Group
    <3>1. x \in Nat /\ g \in Nat /\ b \in 1..Group /\ i = x + b /\ i \in 1..n /\ n \in Nat /\ Group \in Nat
          /\ c \in Nat /\ c >= g + 1 /\ g * v = x + g /\ L = n + c
      BY <2>1, <2>2, <2>3, <1>1, <1>2, GroupIsNat
    <3> HIDE DEF c, x, n, L, v
    <3>2. x + g + 0 + 1 \in 1..L /\ x + g + b + 1 \in 1..L
      BY <3>1
    <3> QED BY <3>1, <3>2
  <2>5. mask = Mask(s, g * Group + 1)
    <3>1. e[g * v + 0 + 1] = Mask(s, g * Group + 1)
      <4>1. 0 \in 0..Group
        BY GroupIsNat
      <4> QED BY <4>1, <2>1, <2>4, <1>1, EncodedByte
    <3>2. g * v + 0 + 1 = g * v + 1
      BY <2>2, <2>1
    <3> QED BY <3>1, <3>2
  <2>6. byte = IF Odd(s[i]) THEN s[i] ELSE s[i] + 1
    <3>1. b \in 0..Group /\ b # 0
      BY <2>1
    <3>2. e[g * v + b + 1] = IF Odd(s[g * Group + b]) THEN s[g * Group + b] ELSE s[g * Group + b] + 1
      BY <3>1, <2>1, <2>4, <1>1, EncodedByte
    <3>3. g * v + b + 1 = g * v + 1 + b
      BY <2>2, <2>1
    <3> QED BY <3>2, <3>3, <2>1
  <2>7. Odd(mask \div Bit[b]) <=> Odd(s[i])
    <3>1. g * Group + 1 \in Nat /\ (g * Group + 1) + b - 1 = i /\ i \in DOMAIN s
      BY <2>1, <2>2
    <3>2. Odd(Mask(s, g * Group + 1) \div Bit[b])
            <=> (g * Group + 1) + b - 1 \in DOMAIN s /\ Odd(s[(g * Group + 1) + b - 1])
      BY <3>1, <2>1, MaskTells
    <3> QED BY <3>1, <3>2, <2>5
  <2>8. s[i] \in Int
    <3>1. s[i] \in Byte
      BY <1>1
    <3>2. s[i] \in Nat
      BY <3>1, BytesAreNat, Zenon
    <3> QED BY <3>2
  <2>9. (IF Odd(mask \div Bit[b]) THEN byte ELSE byte - 1) = s[i]
    <3> HIDE DEF mask, byte
    <3> QED BY <2>6, <2>7, <2>8
  <2> QED BY <2>9 DEF g, b
<1>4. Decode(e) = [i \in 1..n |-> D(i)]
  <2>1. Len(e) - Groups(Len(e), Group + 1) = n
    BY <1>1, <1>2
  <2>2. Decode(e) = [i \in 1..(Len(e) - Groups(Len(e), Group + 1)) |-> D(i)]
    BY DEF Decode
  <2> HIDE DEF n, e, D
  <2> QED BY <2>1, <2>2
<1>5. s = [i \in 1..n |-> s[i]]
  OBVIOUS
<1> HIDE DEF D, n, e
<1>6. Decode(e) = s
  BY <1>3, <1>4, <1>5
<1> QED BY <1>6 DEF e

(***************************************************************************)
(* What is where in a packet.                                              *)
(***************************************************************************)
\* The game's settings, path and creator, before they are encoded.
Body(f) == f.settings \o f.path \o <<0>> \o f.creator \o <<0>>

\* Everything before the name.
Header == [k \in 1..HeaderLen |-> IF k \in DOMAIN Magic THEN Magic[k] ELSE 0]

\* The fields of a game are texts of bytes.
LEMMA FieldTypes ==
  ASSUME NEW f \in Fields
  PROVE  /\ f.name \in Seq(Text) /\ f.path \in Seq(Text) /\ f.creator \in Seq(Text)
         /\ f.settings \in Seq(Byte) /\ Len(f.settings) = SettingsLen /\ SettingsLen \in Nat
<1>1. f \in [name : Seq(Text), settings : [1..SettingsLen -> Byte], path : Seq(Text), creator : Seq(Text)]
  BY GameinfoAssumption
<1>2. SettingsLen \in Nat
  BY GameinfoAssumption
<1>3. f.settings \in [1..SettingsLen -> Byte]
  BY <1>1
<1>4. f.settings \in Seq(Byte) /\ Len(f.settings) = SettingsLen
  BY <1>2, <1>3
<1> QED BY <1>1, <1>2, <1>4

\* A text without zeros is a text of bytes, and of numbers.
LEMMA TextTypes == 0 \in Byte /\ Text \subseteq Byte /\ Text \subseteq Nat /\ 0 \notin Text
<1>1. Bit[Group] \in Nat \ {0}
  BY BitValues, GroupIsNat
<1>2. 0 \in Byte
  BY <1>1 DEF Byte
<1> QED BY <1>2, BytesAreNat DEF Text

\* A sequence of such texts.
LEMMA TextsAreNumbers == ASSUME NEW t \in Seq(Text) PROVE t \in Seq(Nat)
<1>1. Text \subseteq Nat
  BY TextTypes
<1>2. t \in [1..Len(t) -> Text] /\ Len(t) \in Nat
  OBVIOUS
<1>3. t \in [1..Len(t) -> Nat]
  BY <1>1, <1>2
<1> QED BY <1>2, <1>3

\* The path lies behind the settings and ends with a zero.
LEMMA BodyLayout ==
  ASSUME NEW f \in Fields
  PROVE  /\ Body(f) \in Seq(Byte)
         /\ Len(Body(f)) > SettingsLen + Len(f.path)
         /\ \A k \in 1..Len(f.path) : Body(f)[SettingsLen + k] = f.path[k]
         /\ Body(f)[SettingsLen + Len(f.path) + 1] = 0
<1> DEFINE a == f.settings
           b == f.path
           c == f.creator
<1>1. a \in Seq(Byte) /\ b \in Seq(Text) /\ c \in Seq(Text) /\ Len(a) = SettingsLen /\ SettingsLen \in Nat
  BY FieldTypes
<1>2. 0 \in Byte /\ Text \subseteq Byte
  BY TextTypes
<1> HIDE DEF a, b, c
<1>3. b \in Seq(Byte) /\ c \in Seq(Byte) /\ <<0>> \in Seq(Byte)
  BY <1>1, <1>2
<1> DEFINE body == a \o b \o <<0>> \o c \o <<0>>
<1>4. body \in Seq(Byte)
  BY <1>1, <1>3
<1>5. Len(body) = Len(a) + Len(b) + 1 + Len(c) + 1
  BY <1>1, <1>3
<1>6. ASSUME NEW k \in 1..Len(b) PROVE body[SettingsLen + k] = b[k]
  BY <1>1, <1>3
<1>7. body[SettingsLen + Len(b) + 1] = 0
  BY <1>1, <1>3
<1>8. Len(c) \in Nat /\ Len(b) \in Nat
  BY <1>1
<1>9. Body(f) = body
  BY DEF Body, a, b, c
<1> HIDE DEF body
<1> QED BY <1>1, <1>4, <1>5, <1>6, <1>7, <1>8, <1>9 DEF b

\* Where the elements of a concatenation are.
LEMMA Joined ==
  ASSUME NEW s \in Seq(Nat), NEW t \in Seq(Nat)
  PROVE  /\ s \o t \in Seq(Nat) /\ Len(s \o t) = Len(s) + Len(t)
         /\ \A k \in 1..Len(s) : (s \o t)[k] = s[k]
         /\ \A k \in 1..Len(t) : (s \o t)[Len(s) + k] = t[k]
OBVIOUS

\* A packet: the header, the name, two zeros, the encoded part, a zero.
LEMMA PacketLayout ==
  ASSUME NEW f \in Fields
  PROVE  LET a == Announce(f)
             h == HeaderLen + Len(f.name)
             e == Encode(Body(f))
         IN /\ a \in Seq(Nat) /\ Len(f.name) \in Nat /\ Len(e) \in Nat /\ HeaderLen \in Nat \ {0, 1}
            /\ Len(a) = h + 2 + Len(e) + 1
            /\ \A k \in 1..HeaderLen : a[k] = Header[k]
            /\ \A k \in 1..Len(f.name) : a[HeaderLen + k] = f.name[k]
            /\ a[h + 1] = 0
            /\ \A k \in 1..Len(e) : a[h + 2 + k] = e[k]
            /\ a[Len(a)] = 0
<1> DEFINE n == f.name
           e == Encode(Body(f))
           H == Header
<1>1. n \in Seq(Nat)
  <2>1. n \in Seq(Text)
    BY FieldTypes
  <2> QED BY <2>1, TextsAreNumbers
<1>2. e \in Seq(Nat)
  <2>1. Body(f) \in Seq(Byte)
    BY BodyLayout
  <2>2. e \in Seq(Text)
    BY <2>1, EncodedText
  <2> QED BY <2>2, TextsAreNumbers
<1>3. HeaderLen \in Nat \ {0, 1} /\ H \in Seq(Nat) /\ Len(H) = HeaderLen
  <2>1. HeaderLen \in Nat \ {0, 1} /\ Magic \in Byte \X Byte
    BY GameinfoAssumption
  <2>2. Byte \subseteq Nat
    BY BytesAreNat
  <2>3. DOMAIN Magic = 1..2 /\ Magic[1] \in Nat /\ Magic[2] \in Nat
    <3>1. PICK x \in Byte, y \in Byte : Magic = <<x, y>>
      BY <2>1
    <3> QED BY <3>1, <2>2
  <2>4. H \in [1..HeaderLen -> Nat]
    BY <2>1, <2>3 DEF Header
  <2> QED BY <2>1, <2>4
<1>4. Announce(f) = H \o n \o <<0, 0>> \o e \o <<0>>
  BY DEF Announce, Header, Body
<1> HIDE DEF n, e, H
<1> DEFINE z == <<0, 0>>
           o == <<0>>
           a1 == H \o n
           a2 == a1 \o z
           a3 == a2 \o e
           a == a3 \o o
<1>5. z \in Seq(Nat) /\ Len(z) = 2 /\ z[1] = 0 /\ o \in Seq(Nat) /\ Len(o) = 1 /\ o[1] = 0
  OBVIOUS
<1> HIDE DEF z, o
<1>6. /\ a1 \in Seq(Nat) /\ Len(a1) = Len(H) + Len(n)
      /\ \A k \in 1..Len(H) : a1[k] = H[k]
      /\ \A k \in 1..Len(n) : a1[Len(H) + k] = n[k]
  BY <1>1, <1>3, Joined
<1> HIDE DEF a1
<1>7. /\ a2 \in Seq(Nat) /\ Len(a2) = Len(a1) + Len(z)
      /\ \A k \in 1..Len(a1) : a2[k] = a1[k]
      /\ \A k \in 1..Len(z) : a2[Len(a1) + k] = z[k]
  BY <1>5, <1>6, Joined
<1> HIDE DEF a2
<1>8. /\ a3 \in Seq(Nat) /\ Len(a3) = Len(a2) + Len(e)
      /\ \A k \in 1..Len(a2) : a3[k] = a2[k]
      /\ \A k \in 1..Len(e) : a3[Len(a2) + k] = e[k]
  BY <1>2, <1>7, Joined
<1> HIDE DEF a3
<1>9. /\ a \in Seq(Nat) /\ Len(a) = Len(a3) + Len(o)
      /\ \A k \in 1..Len(a3) : a[k] = a3[k]
      /\ \A k \in 1..Len(o) : a[Len(a3) + k] = o[k]
  BY <1>5, <1>8, Joined
<1> HIDE DEF a
<1>10. Len(n) \in Nat /\ Len(e) \in Nat
  BY <1>1, <1>2
<1> DEFINE h == HeaderLen + Len(n)
<1>11. /\ h \in Nat /\ Len(a1) = h /\ Len(a2) = h + 2 /\ Len(a3) = h + 2 + Len(e)
       /\ Len(a) = h + 2 + Len(e) + 1
  BY <1>3, <1>5, <1>6, <1>7, <1>8, <1>9, <1>10
<1>12. ASSUME NEW k \in 1..(h + 2) PROVE a[k] = a2[k]
  <2> HIDE DEF h
  <2>1. k \in 1..Len(a2) /\ k \in 1..Len(a3)
    BY <1>10, <1>11
  <2> QED BY <2>1, <1>8, <1>9
<1>13. ASSUME NEW k \in 1..h PROVE a[k] = a1[k]
  <2> HIDE DEF h
  <2>1. k \in 1..(h + 2) /\ k \in 1..Len(a1)
    BY <1>11
  <2>2. a[k] = a2[k]
    BY <2>1, <1>12
  <2>3. a2[k] = a1[k]
    BY <2>1, <1>7
  <2> QED BY <2>2, <2>3
<1>14. ASSUME NEW k \in 1..HeaderLen PROVE a[k] = H[k]
  BY <1>3, <1>6, <1>10, <1>13
<1>15. ASSUME NEW k \in 1..Len(n) PROVE a[HeaderLen + k] = n[k]
  <2>1. HeaderLen + k \in 1..h
    BY <1>3, <1>10
  <2> QED BY <2>1, <1>3, <1>6, <1>13
<1>16. a[h + 1] = 0
  <2>1. h + 1 \in 1..(h + 2) /\ 1 \in 1..Len(z)
    <3>1. h \in Nat /\ Len(z) = 2
      BY <1>5, <1>11
    <3> HIDE DEF h
    <3> QED BY <3>1
  <2>2. h + 1 = Len(a1) + 1
    BY <1>11
  <2> HIDE DEF h
  <2>3. a[h + 1] = a2[h + 1]
    BY <2>1, <1>12
  <2>4. a2[Len(a1) + 1] = z[1]
    BY <2>1, <1>7
  <2> QED BY <2>2, <2>3, <2>4, <1>5
<1>17. ASSUME NEW k \in 1..Len(e) PROVE a[h + 2 + k] = e[k]
  <2>1. h + 2 + k \in 1..Len(a3)
    BY <1>10, <1>11
  <2>2. h + 2 + k = Len(a2) + k
    BY <1>11
  <2> HIDE DEF h
  <2>3. a[h + 2 + k] = a3[h + 2 + k]
    BY <2>1, <1>9
  <2>4. a3[Len(a2) + k] = e[k]
    BY <1>8
  <2> QED BY <2>2, <2>3, <2>4
<1>18. a[Len(a)] = 0
  <2>1. 1 \in 1..Len(o) /\ Len(a) = Len(a3) + 1
    BY <1>5, <1>9
  <2> QED BY <2>1, <1>5, <1>9
<1>19. Announce(f) = a
  BY <1>4 DEF a, a1, a2, a3, z, o
<1> QED BY <1>3, <1>9, <1>10, <1>11, <1>14, <1>15, <1>16, <1>17, <1>18, <1>19 DEF n, e, H

\* p is a packet of f, or what is left of it.
Rest(p, f) ==
  /\ p \in Seq(Nat) /\ Len(p) <= Len(Announce(f))
  /\ \A k \in 1..Len(p) : p[k] = Announce(f)[k]

\* Two sequences of the same length and elements are the same.
LEMMA SameSequence ==
  ASSUME NEW S, NEW T, NEW s \in Seq(S), NEW t \in Seq(T), Len(s) = Len(t),
         \A k \in 1..Len(s) : s[k] = t[k]
  PROVE  s = t
OBVIOUS

\* The elements of a part of a sequence.
LEMMA Part ==
  ASSUME NEW S, NEW s \in Seq(S), NEW from \in Nat \ {0}, NEW l \in Nat,
         NEW to, to = from + l - 1, to <= Len(s)
  PROVE  /\ SubSeq(s, from, to) \in Seq(S) /\ Len(SubSeq(s, from, to)) = l
         /\ \A k \in 1..l : SubSeq(s, from, to)[k] = s[from + k - 1]
<1>1. to \in Nat /\ to - from + 1 = l /\ Len(s) \in Nat
  OBVIOUS
<1> DEFINE t == SubSeq(s, from, to)
<1>2. t = [k \in 1..l |-> s[from + k - 1]]
  <2>1. t = [k \in 1..(to - from + 1) |-> s[from + k - 1]]
    BY <1>1
  <2> QED BY <2>1, <1>1
<1>3. ASSUME NEW k \in 1..l PROVE s[from + k - 1] \in S
  <2>1. from + k - 1 \in 1..Len(s)
    BY <1>1
  <2> QED BY <2>1
<1> HIDE DEF t
<1>4. t \in [1..l -> S]
  BY <1>2, <1>3
<1> QED BY <1>2, <1>4 DEF t

\* The first zero after the header is the one behind the name, if it has arrived.
LEMMA NameIsRead ==
  ASSUME NEW f \in Fields, NEW p, Rest(p, f), Zeros(p, HeaderLen + 1) # {}
  PROVE  /\ Min(Zeros(p, HeaderLen + 1)) = HeaderLen + Len(f.name) + 1
         /\ SubSeq(p, HeaderLen + 1, HeaderLen + Len(f.name)) = f.name
<1> DEFINE a == Announce(f)
           h == HeaderLen + Len(f.name)
           Z == Zeros(p, HeaderLen + 1)
<1>1. /\ a \in Seq(Nat) /\ Len(f.name) \in Nat /\ HeaderLen \in Nat
      /\ \A k \in 1..Len(f.name) : a[HeaderLen + k] = f.name[k]
      /\ a[h + 1] = 0
  BY PacketLayout
<1>2. p \in Seq(Nat) /\ Len(p) \in Nat /\ \A k \in 1..Len(p) : p[k] = a[k]
  BY DEF Rest
<1>3. f.name \in Seq(Text) /\ 0 \notin Text
  BY FieldTypes, TextTypes
<1> HIDE DEF a, h
<1>4. ASSUME NEW k \in Z PROVE k >= h + 1 /\ k <= Len(p) /\ k \in Nat
  <2>1. k \in (HeaderLen + 1)..Len(p) /\ p[k] = 0
    BY DEF Zeros
  <2>2. k \in Nat /\ h \in Nat /\ h = HeaderLen + Len(f.name) /\ a[k] = 0
    <3>1. k \in Nat /\ k \in 1..Len(p)
      BY <2>1, <1>1, <1>2
    <3>2. h \in Nat /\ h = HeaderLen + Len(f.name)
      BY <1>1 DEF h
    <3> QED BY <3>1, <3>2, <2>1, <1>2
  <2>3. ASSUME k <= h PROVE FALSE
    <3> DEFINE i == k - HeaderLen
    <3>1. i \in 1..Len(f.name) /\ HeaderLen + i = k
      <4> DEFINE l == Len(f.name)
      <4>1. l \in Nat /\ HeaderLen \in Nat /\ k \in Nat /\ h = HeaderLen + l /\ k <= h /\ k >= HeaderLen + 1
        BY <2>1, <2>2, <2>3, <1>1
      <4> HIDE DEF l
      <4>2. i \in 1..l /\ HeaderLen + i = k
        BY <4>1
      <4> QED BY <4>2 DEF l
    <3>2. a[k] = f.name[i] /\ f.name[i] \in Text
      BY <3>1, <1>1, <1>3
    <3> QED BY <3>2, <2>2, <1>3
  <2> QED BY <2>1, <2>2, <2>3, <1>2
<1>5. h \in Nat /\ h + 1 <= Len(p)
  <2>1. PICK k \in Z : TRUE
    OBVIOUS
  <2>2. h \in Nat
    BY <1>1 DEF h
  <2> QED BY <2>1, <2>2, <1>2, <1>4
<1>6. h + 1 \in Z
  <2>1. h + 1 \in (HeaderLen + 1)..Len(p)
    BY <1>1, <1>2, <1>5 DEF h
  <2>2. p[h + 1] = 0
    BY <1>1, <1>2, <1>5
  <2> QED BY <2>1, <2>2 DEF Zeros
<1>7. Min(Z) = h + 1
  <2>1. Z \subseteq Nat
    BY <1>4
  <2> HIDE DEF Z
  <2> QED BY <2>1, <1>4, <1>6, LeastIsMin
<1> DEFINE l == Len(f.name)
           from == HeaderLen + 1
<1>8. /\ l \in Nat /\ HeaderLen \in Nat /\ Len(p) \in Nat /\ p \in Seq(Nat)
      /\ h = HeaderLen + l /\ h + 1 <= Len(p)
  BY <1>1, <1>2, <1>5 DEF h
<1>9. \A k \in 1..l : a[HeaderLen + k] = f.name[k]
  BY <1>1
<1> HIDE DEF l
<1>10. from \in Nat \ {0} /\ h = from + l - 1 /\ h <= Len(p)
  <2> DEFINE m == Len(p)
  <2>1. l \in Nat /\ HeaderLen \in Nat /\ m \in Nat /\ h = HeaderLen + l /\ h + 1 <= m
    BY <1>8
  <2> HIDE DEF m
  <2>2. from \in Nat \ {0} /\ h = from + l - 1 /\ h <= m
    BY <2>1
  <2> QED BY <2>2 DEF m
<1>11. ASSUME NEW k \in 1..l PROVE HeaderLen + k \in 1..Len(p) /\ from + k - 1 = HeaderLen + k
  BY <1>8
<1> HIDE DEF from
<1> DEFINE s == SubSeq(p, from, h)
<1>12. s \in Seq(Nat) /\ Len(s) = l /\ \A k \in 1..l : s[k] = p[from + k - 1]
  <2>1. p \in Seq(Nat) /\ l \in Nat
    BY <1>8
  <2>2. s \in Seq(Nat) /\ Len(s) = l
    BY <2>1, <1>10, Part, SMTT(60)
  <2>3. \A k \in 1..l : s[k] = p[from + k - 1]
    BY <2>1, <1>10, Part, SMTT(60)
  <2> QED BY <2>2, <2>3
<1> HIDE DEF s
<1>13. ASSUME NEW k \in 1..l PROVE s[k] = f.name[k]
  <2>1. s[k] = p[HeaderLen + k]
    BY <1>11, <1>12
  <2>2. p[HeaderLen + k] = a[HeaderLen + k]
    BY <1>2, <1>11
  <2> QED BY <2>1, <2>2, <1>9
<1>14. s = f.name
  <2>1. f.name \in Seq(Text) /\ Len(f.name) = l
    BY <1>3 DEF l
  <2> QED BY <2>1, <1>12, <1>13, SameSequence
<1> QED BY <1>7, <1>14 DEF h, s, from

\* The encoded part ends with the packet, so what is cut off has no end and gives no path.
LEMMA PathNeedsAll ==
  ASSUME NEW f \in Fields, NEW p, Rest(p, f), Len(p) # Len(Announce(f))
  PROVE  MapPath(p, HeaderLen + Len(f.name) + 3) = NoFields
<1> DEFINE a == Announce(f)
           h == HeaderLen + Len(f.name)
           e == Encode(Body(f))
<1>1. /\ Len(e) \in Nat /\ h \in Nat /\ Len(a) = h + 2 + Len(e) + 1
      /\ \A k \in 1..Len(e) : a[h + 2 + k] = e[k]
  <2>1. /\ a \in Seq(Nat) /\ Len(f.name) \in Nat /\ HeaderLen \in Nat /\ Len(e) \in Nat
        /\ Len(a) = h + 2 + Len(e) + 1
        /\ \A k \in 1..Len(e) : a[h + 2 + k] = e[k]
        /\ a[Len(a)] = 0
    BY PacketLayout, Zenon
  <2>2. h \in Nat
    BY <2>1
  <2> QED BY <2>1, <2>2, Zenon
<1>2. Len(p) \in Nat /\ Len(p) < Len(a) /\ \A k \in 1..Len(p) : p[k] = a[k]
  BY <1>1 DEF Rest
<1>3. e \in Seq(Text) /\ 0 \notin Text
  BY BodyLayout, EncodedText, TextTypes
<1> HIDE DEF a, h, e
<1>4. ASSUME NEW k \in Zeros(p, h + 3) PROVE FALSE
  <2>1. k \in (h + 3)..Len(p) /\ p[k] = 0
    BY DEF Zeros
  <2> DEFINE i == k - (h + 2)
  <2>2. k \in 1..Len(p) /\ i \in 1..Len(e) /\ h + 2 + i = k
    BY <2>1, <1>1, <1>2
  <2>3. a[k] = e[i] /\ e[i] \in Text
    BY <2>2, <1>1, <1>3
  <2> QED BY <2>1, <2>2, <2>3, <1>2, <1>3
<1>5. Zeros(p, h + 3) = {}
  BY <1>4
<1>6. MapPath(p, h + 3) = NoFields
  BY <1>5 DEF MapPath
<1> QED BY <1>6 DEF h

\* A whole packet gives the path: its end is found, the rest is decoded, and the path is
\* what lies between the settings and the next zero.
LEMMA PathIsRead ==
  ASSUME NEW f \in Fields, NEW p, Rest(p, f), Len(p) = Len(Announce(f))
  PROVE  MapPath(p, HeaderLen + Len(f.name) + 3) = f.path
<1> DEFINE a == Announce(f)
           h == HeaderLen + Len(f.name)
           st == h + 3
           body == Body(f)
           e == Encode(body)
           Z == Zeros(p, st)
           l == Len(a)
           raw == SubSeq(p, st, l - 1)
<1>1. /\ a \in Seq(Nat) /\ Len(e) \in Nat /\ h \in Nat /\ l = h + 2 + Len(e) + 1
      /\ \A k \in 1..Len(e) : a[h + 2 + k] = e[k]
      /\ a[l] = 0
  <2>1. /\ a \in Seq(Nat) /\ Len(f.name) \in Nat /\ HeaderLen \in Nat /\ Len(e) \in Nat
        /\ Len(a) = h + 2 + Len(e) + 1
        /\ \A k \in 1..Len(e) : a[h + 2 + k] = e[k]
        /\ a[Len(a)] = 0
    BY PacketLayout, Zenon
  <2>2. h \in Nat
    BY <2>1
  <2> QED BY <2>1, <2>2, Zenon
<1>2. p = a
  BY <1>1, SameSequence DEF Rest
<1>3. e \in Seq(Text) /\ 0 \notin Text
  BY BodyLayout, EncodedText, TextTypes
<1>4. Decode(e) = body
  BY BodyLayout, DecodeUndoesEncode
<1>5. /\ body \in Seq(Byte) /\ SettingsLen \in Nat /\ f.path \in Seq(Text)
      /\ Len(body) > SettingsLen + Len(f.path)
      /\ \A k \in 1..Len(f.path) : body[SettingsLen + k] = f.path[k]
      /\ body[SettingsLen + Len(f.path) + 1] = 0
  BY BodyLayout, FieldTypes
<1>6. Len(p) = l
  OBVIOUS
<1> HIDE DEF a, h, e, body, l
<1>7. Min(Z) = l
  <2>1. l \in Nat /\ st \in Nat /\ st <= l
    BY <1>1
  <2>2. l \in Z
    BY <2>1, <1>1, <1>2, <1>6 DEF Zeros
  <2>3. ASSUME NEW k \in Z, k < l PROVE FALSE
    <3>1. k \in st..l /\ p[k] = 0
      BY <1>6 DEF Zeros
    <3> DEFINE i == k - (h + 2)
    <3>2. i \in 1..Len(e) /\ h + 2 + i = k
      BY <3>1, <2>1, <2>3, <1>1
    <3> HIDE DEF i
    <3>3. a[k] = e[i] /\ e[i] \in Text
      <4>1. a[h + 2 + i] = e[i]
        BY <3>2, <1>1
      <4>2. e[i] \in Text
        BY <3>2, <1>3
      <4> QED BY <4>1, <4>2, <3>2
    <3> QED BY <3>1, <3>3, <1>2, <1>3
  <2>4. \A k \in Z : k \in Nat /\ k <= l
    BY <2>1, <1>6 DEF Zeros
  <2> HIDE DEF Z
  <2>5. Z \subseteq Nat /\ \A k \in Z : l <= k
    BY <2>1, <2>3, <2>4
  <2> QED BY <2>2, <2>5, LeastIsMin
<1>8. raw = e
  <2>1. l - 1 \in Nat /\ (l - 1) - st + 1 = Len(e) /\ st \in Nat /\ 1 <= st /\ l - 1 <= l
    BY <1>1
  <2>2. raw \in Seq(Nat) /\ Len(raw) = Len(e)
    BY <2>1, <1>1, <1>2, <1>6
  <2>3. ASSUME NEW k \in 1..Len(e) PROVE raw[k] = e[k]
    <3>1. raw[k] = p[st + k - 1] /\ st + k - 1 = h + 2 + k
      BY <2>1, <2>3, <1>1
    <3> QED BY <3>1, <1>1, <1>2
  <2> HIDE DEF raw
  <2> QED BY <2>2, <2>3, <1>3, SameSequence
<1> DEFINE stops == Zeros(body, SettingsLen + 1)
           m == SettingsLen + Len(f.path)
<1>9. /\ Len(f.path) \in Nat /\ Len(body) \in Nat /\ m \in Nat /\ Len(body) > SettingsLen
      /\ m + 1 <= Len(body)
  BY <1>5
<1>10. m + 1 \in stops /\ Min(stops) = m + 1
  <2>1. m + 1 \in stops
    BY <1>5, <1>9 DEF Zeros
  <2>2. ASSUME NEW k \in stops, k <= m PROVE FALSE
    <3>1. k \in (SettingsLen + 1)..Len(body) /\ body[k] = 0
      BY DEF Zeros
    <3> DEFINE i == k - SettingsLen
    <3>2. i \in 1..Len(f.path) /\ SettingsLen + i = k
      BY <3>1, <2>2, <1>5, <1>9
    <3>3. body[k] = f.path[i] /\ f.path[i] \in Text
      BY <3>2, <1>5
    <3> QED BY <3>1, <3>3, <1>3
  <2>3. \A k \in stops : k \in Nat
    BY <1>5, <1>9 DEF Zeros
  <2> HIDE DEF stops, m
  <2>4. stops \subseteq Nat /\ \A k \in stops : m + 1 <= k
    BY <2>2, <2>3, <1>9
  <2> QED BY <2>1, <2>4, LeastIsMin
<1>11. SubSeq(body, SettingsLen + 1, m) = f.path
  <2> DEFINE s == SubSeq(body, SettingsLen + 1, m)
  <2>1. m - (SettingsLen + 1) + 1 = Len(f.path)
    BY <1>5, <1>9
  <2>2. s \in Seq(Byte) /\ Len(s) = Len(f.path)
    BY <2>1, <1>5, <1>9
  <2>3. ASSUME NEW k \in 1..Len(f.path) PROVE s[k] = f.path[k]
    <3>1. s[k] = body[(SettingsLen + 1) + k - 1] /\ (SettingsLen + 1) + k - 1 = SettingsLen + k
      BY <2>1, <2>3, <1>5, <1>9
    <3> QED BY <3>1, <1>5
  <2> HIDE DEF s
  <2>4. s = f.path
    BY <2>2, <2>3, <1>5, SameSequence
  <2> QED BY <2>4 DEF s
<1>12. MapPath(p, st) = f.path
  <2>1. Z # {}
    BY <1>1, <1>2, <1>6 DEF Zeros
  <2>2. Decode(SubSeq(p, st, Min(Z) - 1)) = body
    BY <1>4, <1>7, <1>8
  <2>3. stops # {} /\ ~(Len(body) <= SettingsLen) /\ Min(stops) - 1 = m
    BY <1>5, <1>9, <1>10
  <2> HIDE DEF st, m
  <2>4. MapPath(p, st) = SubSeq(body, SettingsLen + 1, Min(stops) - 1)
    BY <2>1, <2>2, <2>3 DEF MapPath
  <2> QED BY <2>3, <2>4, <1>11
<1> QED BY <1>12 DEF h

\* A packet begins with the two bytes that the parser looks for.
LEMMA MagicIsRead ==
  ASSUME NEW f \in Fields, NEW p, Rest(p, f), Len(p) >= 2
  PROVE  SubSeq(p, 1, 2) = Magic
<1>1. PICK x \in Byte, y \in Byte : Magic = <<x, y>>
  BY GameinfoAssumption
<1>2. /\ HeaderLen \in Nat \ {0, 1} /\ Len(p) \in Nat /\ p \in Seq(Nat)
      /\ \A k \in 1..Len(p) : p[k] = Announce(f)[k]
      /\ \A k \in 1..HeaderLen : Announce(f)[k] = Header[k]
  BY PacketLayout DEF Rest
<1>3. Header[1] = x /\ Header[2] = y
  BY <1>1, <1>2 DEF Header
<1>4. 1 \in 1..Len(p) /\ 2 \in 1..Len(p) /\ 1 \in 1..HeaderLen /\ 2 \in 1..HeaderLen
  BY <1>2
<1>5. p[1] = x /\ p[2] = y
  BY <1>2, <1>3, <1>4
<1>6. SubSeq(p, 1, 2) = <<p[1], p[2]>>
  <2> DEFINE s == SubSeq(p, 1, 2)
             t == <<p[1], p[2]>>
  <2>1. s \in Seq(Nat) /\ Len(s) = 2 /\ s[1] = p[1] /\ s[2] = p[2]
    BY <1>2
  <2>2. t \in Seq(Nat) /\ Len(t) = 2 /\ t[1] = p[1] /\ t[2] = p[2]
    BY <1>2, <1>4
  <2> HIDE DEF s, t
  <2>3. \A k \in 1..2 : k = 1 \/ k = 2
    OBVIOUS
  <2>4. s = t
    BY <2>1, <2>2, <2>3, SameSequence
  <2> QED BY <2>4 DEF s, t
<1> QED BY <1>1, <1>5, <1>6

\* What the parser makes of a packet or the rest of one.
LEMMA RestIsRead ==
  ASSUME NEW f \in Fields, NEW p, Rest(p, f)
  PROVE  /\ p = Announce(f) => Parse(p) = [name |-> f.name, path |-> f.path]
         /\ Parse(p) # NoFields => Parse(p).name = f.name /\ Parse(p).path \in {NoFields, f.path}
<1> DEFINE a == Announce(f)
           h == HeaderLen + Len(f.name)
           ends == Zeros(p, HeaderLen + 1)
           path == MapPath(p, h + 3)
<1>1. /\ HeaderLen \in Nat \ {0, 1} /\ Len(f.name) \in Nat /\ Len(a) \in Nat
      /\ Len(a) > h + 1 /\ a[h + 1] = 0
  <2>1. /\ HeaderLen \in Nat \ {0, 1} /\ Len(f.name) \in Nat /\ Len(Encode(Body(f))) \in Nat
        /\ Len(a) = h + 2 + Len(Encode(Body(f))) + 1 /\ a[h + 1] = 0
    BY PacketLayout, Zenon
  <2> QED BY <2>1
<1>2. Len(p) \in Nat
  BY DEF Rest
<1>3. path \in {NoFields, f.path} /\ (p = a => path = f.path)
  BY PathIsRead, PathNeedsAll, Zenon
<1>4. CASE Len(p) <= HeaderLen \/ SubSeq(p, 1, 2) # Magic \/ ends = {}
  <2>1. Parse(p) = NoFields
    BY <1>4, Zenon DEF Parse
  <2>2. ASSUME p = a PROVE FALSE
    <3>1. Len(p) >= 2 /\ Len(p) > HeaderLen
      BY <2>2, <1>1
    <3>2. h + 1 \in (HeaderLen + 1)..Len(p) /\ p[h + 1] = 0
      BY <2>2, <1>1
    <3>3. ends # {}
      BY <3>2 DEF Zeros
    <3> QED BY <3>1, <3>3, <1>1, <1>2, <1>4, MagicIsRead
  <2> QED BY <2>1, <2>2
<1>5. CASE ~(Len(p) <= HeaderLen \/ SubSeq(p, 1, 2) # Magic \/ ends = {})
  <2>1. Parse(p) = [name |-> SubSeq(p, HeaderLen + 1, Min(ends) - 1), path |-> MapPath(p, Min(ends) + 2)]
    BY <1>5, Zenon DEF Parse
  <2>2. Min(ends) = h + 1 /\ SubSeq(p, HeaderLen + 1, h) = f.name
    BY <1>5, NameIsRead, Zenon
  <2>3. (h + 1) - 1 = h /\ (h + 1) + 2 = h + 3
    BY <1>1
  <2>4. Parse(p) = [name |-> f.name, path |-> path]
    <3> HIDE DEF h, ends
    <3> QED BY <2>1, <2>2, <2>3
  <2> HIDE DEF path
  <2> QED BY <2>4, <1>3
<1> QED BY <1>4, <1>5

\* A sequence without its last element.
LEMMA LastCut ==
  ASSUME NEW p \in Seq(Nat), p # <<>>, NEW s, s = SubSeq(p, 1, Len(p) - 1)
  PROVE  s \in Seq(Nat) /\ Len(s) = Len(p) - 1 /\ \A k \in 1..Len(s) : s[k] = p[k]
<1>1. Len(p) - 1 \in Nat /\ Len(p) \in Nat
  OBVIOUS
<1> DEFINE m == Len(p) - 1
<1>2. m \in Nat /\ m <= Len(p) /\ s = SubSeq(p, 1, m)
  BY <1>1
<1> HIDE DEF m
<1>3. s \in Seq(Nat) /\ Len(s) = m
  BY <1>1, <1>2
<1>4. ASSUME NEW k \in 1..Len(s) PROVE s[k] = p[k]
  BY <1>1, <1>2, <1>3
<1> QED BY <1>3, <1>4 DEF m

\* What is left of a packet is always a beginning of it.
GameinfoInv == fields \in Fields /\ Rest(packet, fields)

\* It is when it is sent, and stays so while it is cut off byte by byte.
LEMMA GameinfoInvariant == GameinfoSpec => []GameinfoInv
<1>1. GameinfoInit => GameinfoInv
  <2> SUFFICES ASSUME GameinfoInit PROVE GameinfoInv
    OBVIOUS
  <2>1. fields \in Fields /\ packet = Announce(fields)
    BY DEF GameinfoInit
  <2>2. Announce(fields) \in Seq(Nat)
    BY <2>1, PacketLayout, Zenon
  <2> QED BY <2>1, <2>2 DEF GameinfoInv, Rest
<1>2. GameinfoInv /\ [Truncate]_gameinfoVars => GameinfoInv'
  <2> SUFFICES ASSUME GameinfoInv, [Truncate]_gameinfoVars PROVE GameinfoInv'
    OBVIOUS
  <2>1. CASE Truncate
    <3> DEFINE a == Announce(fields)
    <3>1. fields \in Fields /\ packet \in Seq(Nat) /\ Len(packet) <= Len(a)
          /\ \A k \in 1..Len(packet) : packet[k] = a[k]
      BY DEF GameinfoInv, Rest
    <3>2. packet # <<>> /\ packet' = SubSeq(packet, 1, Len(packet) - 1) /\ fields' = fields
      BY <2>1 DEF Truncate
    <3>3. a' = a
      BY <3>2
    <3>4. Len(a) \in Nat
      <4>1. a \in Seq(Nat)
        BY <3>1, PacketLayout, Zenon
      <4> QED BY <4>1
    <3> HIDE DEF a
    <3>5. packet' \in Seq(Nat) /\ Len(packet') = Len(packet) - 1
          /\ \A k \in 1..Len(packet') : packet'[k] = packet[k]
      BY <3>1, <3>2, LastCut
    <3>6. Len(packet') <= Len(a) /\ \A k \in 1..Len(packet') : packet'[k] = a[k]
      <4> DEFINE m == Len(packet)
                 n == Len(packet')
      <4>1. m \in Nat /\ n \in Nat /\ n = m - 1
        BY <3>1, <3>5
      <4>2. n <= Len(a) /\ \A k \in 1..n : k \in 1..m
        <5>1. m <= Len(a)
          BY <3>1
        <5> HIDE DEF m, n
        <5> QED BY <5>1, <4>1, <3>4
      <4> QED BY <4>2, <3>1, <3>5
    <3> QED BY <3>1, <3>2, <3>3, <3>5, <3>6 DEF GameinfoInv, Rest, a
  <2>2. CASE UNCHANGED gameinfoVars
    BY <2>2 DEF GameinfoInv, Rest, gameinfoVars
  <2> QED BY <2>1, <2>2
<1> QED BY <1>1, <1>2, PTL DEF GameinfoSpec

\* parse_gameinfo, for every game, every length of its texts and wherever the buffer cuts the
\* packet off: the name and the path that the game announces, or nothing.
THEOREM PacketsAreRead == GameinfoSpec => []ReadsWhatWasAnnounced
<1>1. GameinfoInv => ReadsWhatWasAnnounced
  BY RestIsRead, Zenon DEF GameinfoInv, ReadsWhatWasAnnounced
<1> QED BY <1>1, GameinfoInvariant, PTL
=============================================================================
