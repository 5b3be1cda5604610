----------------------------- MODULE SwapProofs -----------------------------
(***************************************************************************)
(* A pair of bridges is an ordered stream, for games of any length: proofs *)
(* about SwapBridge and Strategies.                                        *)
(***************************************************************************)
EXTENDS Strategies, SequenceTheorems, TLAPS

(***************************************************************************)
(* Sequences of chunks.                                                    *)
(***************************************************************************)
Ordered(s, n) == Stream!Increasing(s) /\ \A i \in 1..Len(s) : s[i] \in 1..n

\* The places on the way of a chunk, the last one first.
Joined(a, b, c, d, f, g) == a \o (b \o (c \o (d \o (f \o g))))

\* A line is a sequence of chunks.
LEMMA JoinedType ==
  ASSUME NEW a \in Seq(Chunk), NEW b \in Seq(Chunk), NEW c \in Seq(Chunk),
         NEW d \in Seq(Chunk), NEW f \in Seq(Chunk), NEW g \in Seq(Chunk)
  PROVE  Joined(a, b, c, d, f, g) \in Seq(Chunk)
<1>1. f \o g \in Seq(Chunk)
  BY ConcatProperties
<1>2. d \o (f \o g) \in Seq(Chunk)
  BY <1>1, ConcatProperties
<1>3. c \o (d \o (f \o g)) \in Seq(Chunk)
  BY <1>2, ConcatProperties
<1>4. b \o (c \o (d \o (f \o g))) \in Seq(Chunk)
  BY <1>3, ConcatProperties
<1> QED
  BY <1>4, ConcatProperties DEF Joined

\* The head of q goes to the end of r, which is just before it.
LEMMA HeadMoves ==
  ASSUME NEW r \in Seq(Chunk), NEW q \in Seq(Chunk), q # <<>>
  PROVE  /\ Append(r, Head(q)) \in Seq(Chunk) /\ Tail(q) \in Seq(Chunk)
         /\ Append(r, Head(q)) \o Tail(q) = r \o q
<1>1. Head(q) \in Chunk /\ Tail(q) \in Seq(Chunk)
  BY HeadTailProperties
<1>2. Append(r, Head(q)) = r \o <<Head(q)>> /\ <<Head(q)>> \in Seq(Chunk)
  BY <1>1, AppendIsConcat
<1>3. <<Head(q)>> \o Tail(q) = q
  BY <1>1, HeadTailProperties, ConcatProperties, SeqEqual
<1>4. Append(r, Head(q)) \o Tail(q) = r \o (<<Head(q)>> \o Tail(q))
  BY <1>1, <1>2, ConcatAssociative
<1> QED
  BY <1>1, <1>3, <1>4, AppendProperties

\* Concatenation is associative, in the form in which it is used.
LEMMA Associative ==
  \A r, q, s \in Seq(Chunk) : (r \o q) \o s = r \o (q \o s)
  BY ConcatAssociative

\* A move of a head, with a sequence after both places, ...
LEMMA HeadMovesOn ==
  \A r, q, s \in Seq(Chunk) :
    q # <<>> => Append(r, Head(q)) \o (Tail(q) \o s) = r \o (q \o s)
<1> SUFFICES ASSUME NEW r \in Seq(Chunk), NEW q \in Seq(Chunk), NEW s \in Seq(Chunk), q # <<>>
             PROVE  Append(r, Head(q)) \o (Tail(q) \o s) = r \o (q \o s)
  OBVIOUS
<1>1. /\ Append(r, Head(q)) \in Seq(Chunk) /\ Tail(q) \in Seq(Chunk)
      /\ Append(r, Head(q)) \o Tail(q) = r \o q
  BY HeadMoves
<1>2. Append(r, Head(q)) \o (Tail(q) \o s) = (Append(r, Head(q)) \o Tail(q)) \o s
  BY <1>1, Associative, Zenon
<1>3. (r \o q) \o s = r \o (q \o s)
  BY Associative
<1> QED
  BY <1>1, <1>2, <1>3

\* ... or two.
LEMMA HeadMovesOverTwo ==
  ASSUME NEW r \in Seq(Chunk), NEW q \in Seq(Chunk), NEW f \in Seq(Chunk), NEW g \in Seq(Chunk), q # <<>>
  PROVE  Append(r, Head(q)) \o (Tail(q) \o (f \o g)) = r \o (q \o (f \o g))
<1> DEFINE s == f \o g
<1>1. s \in Seq(Chunk)
  BY ConcatProperties
<1> HIDE DEF s
<1>2. Append(r, Head(q)) \o (Tail(q) \o s) = r \o (q \o s)
  BY <1>1, HeadMovesOn
<1> QED
  BY <1>2 DEF s

\* The empty sequence on the left.
LEMMA EmptyLeft ==
  ASSUME NEW s \in Seq(Chunk)
  PROVE  <<>> \o s = s /\ <<>> \in Seq(Chunk)
  BY ConcatEmptySeq, EmptySeq

\* What comes before the first two places.
Rest(c, d, f, g) == c \o (d \o (f \o g))

\* The rest of a line is a sequence of chunks.
LEMMA RestType ==
  ASSUME NEW c \in Seq(Chunk), NEW d \in Seq(Chunk), NEW f \in Seq(Chunk), NEW g \in Seq(Chunk)
  PROVE  Rest(c, d, f, g) \in Seq(Chunk)
<1>1. f \o g \in Seq(Chunk)
  BY ConcatProperties
<1>2. d \o (f \o g) \in Seq(Chunk)
  BY <1>1, ConcatProperties
<1> QED
  BY <1>2, ConcatProperties DEF Rest

\* A move, past places that are empty, leaves the line as it was: one fact for each way
\* to move.
LEMMA ToRelay ==
  ASSUME NEW b \in Seq(Chunk), NEW g \in Seq(Chunk), g # <<>>
  PROVE  \A a : Joined(a, Append(b, Head(g)), <<>>, <<>>, <<>>, Tail(g)) = Joined(a, b, <<>>, <<>>, <<>>, g)
<1>1. Append(b, Head(g)) \o Tail(g) = b \o g /\ Tail(g) \in Seq(Chunk)
  BY HeadMoves
<1>2. <<>> \o g = g /\ <<>> \o Tail(g) = Tail(g)
  BY <1>1, EmptyLeft
<1> QED
  BY <1>1, <1>2, Zenon DEF Joined

\* WebSocket to the game.
LEMMA FromRelay ==
  ASSUME NEW a \in Seq(Chunk), NEW b \in Seq(Chunk), b # <<>>,
         NEW c, NEW d, NEW f, NEW g, Rest(c, d, f, g) \in Seq(Chunk)
  PROVE  Joined(Append(a, Head(b)), Tail(b), c, d, f, g) = Joined(a, b, c, d, f, g)
<1> DEFINE s == Rest(c, d, f, g)
<1>1. s \in Seq(Chunk)
  OBVIOUS
<1> HIDE DEF s
<1>2. Append(a, Head(b)) \o (Tail(b) \o s) = a \o (b \o s)
  BY <1>1, HeadMovesOn, SMTT(60)
<1> QED
  BY <1>2 DEF s, Joined, Rest

\* QUIC to quic_buffer.
LEMMA ToQuicBuffer ==
  ASSUME NEW c \in Seq(Chunk), NEW d \in Seq(Chunk), NEW f \in Seq(Chunk), NEW g \in Seq(Chunk), d # <<>>
  PROVE  \A a, b : Joined(a, b, Append(c, Head(d)), Tail(d), f, g) = Joined(a, b, c, d, f, g)
<1>1. Append(c, Head(d)) \o (Tail(d) \o (f \o g)) = c \o (d \o (f \o g))
  BY HeadMovesOverTwo, SMTT(60)
<1> QED
  BY <1>1, Zenon DEF Joined

\* The game to tcp_outbound_buffer.
LEMMA ToTcpBuffer ==
  ASSUME NEW f \in Seq(Chunk), NEW g \in Seq(Chunk), g # <<>>
  PROVE  \A a, b, c, d : Joined(a, b, c, d, Append(f, Head(g)), Tail(g)) = Joined(a, b, c, d, f, g)
<1>1. Append(f, Head(g)) \o Tail(g) = f \o g
  BY HeadMoves
<1> QED
  BY <1>1, Zenon DEF Joined

\* The game to QUIC.
LEMMA ToQuic ==
  ASSUME NEW d \in Seq(Chunk), NEW g \in Seq(Chunk), g # <<>>
  PROVE  \A a, b, c : Joined(a, b, c, Append(d, Head(g)), <<>>, Tail(g)) = Joined(a, b, c, d, <<>>, g)
<1>1. Append(d, Head(g)) \o Tail(g) = d \o g /\ Tail(g) \in Seq(Chunk)
  BY HeadMoves
<1>2. <<>> \o g = g /\ <<>> \o Tail(g) = Tail(g)
  BY <1>1, EmptyLeft
<1> QED
  BY <1>1, <1>2, Zenon DEF Joined

\* QUIC to the game.
LEMMA FromQuic ==
  ASSUME NEW a \in Seq(Chunk), NEW d \in Seq(Chunk), NEW f \in Seq(Chunk), NEW g \in Seq(Chunk), d # <<>>
  PROVE  Joined(Append(a, Head(d)), <<>>, <<>>, Tail(d), f, g) = Joined(a, <<>>, <<>>, d, f, g)
<1>1. Append(a, Head(d)) \o (Tail(d) \o (f \o g)) = a \o (d \o (f \o g))
  BY HeadMovesOverTwo, SMTT(60)
<1>2. <<>> \o (Tail(d) \o (f \o g)) = Tail(d) \o (f \o g) /\ <<>> \o (d \o (f \o g)) = d \o (f \o g)
  BY HeadMoves, ConcatProperties, EmptyLeft
<1> QED
  BY <1>1, <1>2, Zenon DEF Joined

\* quic_buffer to the game.
LEMMA FlushIn ==
  \A a, c, s \in Seq(Chunk) : (a \o c) \o (<<>> \o (<<>> \o s)) = a \o (<<>> \o (c \o s))
<1> SUFFICES ASSUME NEW a \in Seq(Chunk), NEW c \in Seq(Chunk), NEW s \in Seq(Chunk)
             PROVE  (a \o c) \o (<<>> \o (<<>> \o s)) = a \o (<<>> \o (c \o s))
  OBVIOUS
<1>1. (a \o c) \o s = a \o (c \o s) /\ c \o s \in Seq(Chunk)
  BY ConcatProperties, Associative
<1>2. <<>> \o s = s /\ <<>> \o (c \o s) = c \o s
  BY <1>1, EmptyLeft
<1> QED
  BY <1>1, <1>2, Zenon

\* tcp_outbound_buffer to QUIC.
LEMMA FlushOut ==
  ASSUME NEW d \in Seq(Chunk), NEW f \in Seq(Chunk), NEW g \in Seq(Chunk)
  PROVE  \A a, b, c : Joined(a, b, c, d \o f, <<>>, g) = Joined(a, b, c, d, f, g)
<1>1. (d \o f) \o g = d \o (f \o g) /\ <<>> \o g = g
  BY ConcatAssociative, EmptyLeft
<1> QED
  BY <1>1, Zenon DEF Joined

\* A stream stays in order when a part of it is lost, ...
LEMMA OrderedWithout ==
  ASSUME NEW a \in Seq(Chunk), NEW m \in Seq(Chunk), NEW b \in Seq(Chunk), NEW n,
         Ordered(a \o (m \o b), n)
  PROVE  Ordered(a \o b, n)
<1> DEFINE s == a \o (m \o b)
           t == a \o b
           At(i) == IF i <= Len(a) THEN i ELSE i + Len(m)
<1>1. /\ Len(a) \in Nat /\ Len(m) \in Nat /\ Len(b) \in Nat
      /\ m \o b \in Seq(Chunk) /\ Len(m \o b) = Len(m) + Len(b)
      /\ \A i \in 1..(Len(m) + Len(b)) : (m \o b)[i] = IF i <= Len(m) THEN m[i] ELSE b[i - Len(m)]
  BY ConcatProperties, LenProperties
<1>2. /\ Len(s) = Len(a) + Len(m) + Len(b)
      /\ \A i \in 1..Len(s) : s[i] = IF i <= Len(a) THEN a[i] ELSE (m \o b)[i - Len(a)]
  BY <1>1, ConcatProperties
<1>3. /\ Len(t) = Len(a) + Len(b)
      /\ \A i \in 1..Len(t) : t[i] = IF i <= Len(a) THEN a[i] ELSE b[i - Len(a)]
  BY <1>1, ConcatProperties
<1> HIDE DEF s, t
<1>4. ASSUME NEW i \in 1..Len(t)
      PROVE  At(i) \in 1..Len(s) /\ t[i] = s[At(i)]
  <2>1. CASE i <= Len(a)
    BY <1>1, <1>2, <1>3, <2>1
  <2>2. CASE ~(i <= Len(a))
    <3>1. /\ At(i) = i + Len(m) /\ At(i) \in 1..Len(s) /\ ~(At(i) <= Len(a))
          /\ i + Len(m) - Len(a) \in 1..(Len(m) + Len(b)) /\ ~(i + Len(m) - Len(a) <= Len(m))
      BY <1>1, <1>2, <1>3, <2>2
    <3>2. s[At(i)] = (m \o b)[i + Len(m) - Len(a)]
      BY <1>2, <3>1
    <3>3. (m \o b)[i + Len(m) - Len(a)] = b[i + Len(m) - Len(a) - Len(m)]
      BY <1>1, <3>1
    <3>4. i + Len(m) - Len(a) - Len(m) = i - Len(a)
      BY <1>1, <1>3
    <3> QED
      BY <1>3, <2>2, <3>1, <3>2, <3>3, <3>4
  <2> QED
    BY <2>1, <2>2
<1>5. \A i, j \in 1..Len(t) : i < j => At(i) < At(j)
  BY <1>1, <1>3
<1>6. Ordered(s, n)
  BY DEF s
<1> HIDE DEF At
<1> QED
  BY <1>4, <1>5, <1>6 DEF Ordered, Stream!Increasing, t

\* ... and so is its beginning.
LEMMA OrderedPrefix ==
  ASSUME NEW a \in Seq(Chunk), NEW b \in Seq(Chunk), NEW n, Ordered(a \o b, n)
  PROVE  Ordered(a, n)
<1>1. /\ Len(a) \in Nat /\ Len(b) \in Nat /\ Len(a \o b) = Len(a) + Len(b)
      /\ \A i \in 1..Len(a) : (a \o b)[i] = a[i]
  BY ConcatProperties, LenProperties
<1>2. \A i \in 1..Len(a) : i \in 1..Len(a \o b)
  BY <1>1
<1> QED
  BY <1>1, <1>2 DEF Ordered, Stream!Increasing

\* ... and when the next number is appended.
LEMMA OrderedAppend ==
  ASSUME NEW s \in Seq(Chunk), NEW n \in Nat, Ordered(s, n)
  PROVE  Ordered(Append(s, n + 1), n + 1)
<1>1. /\ Len(s) \in Nat /\ Len(Append(s, n + 1)) = Len(s) + 1 /\ Append(s, n + 1)[Len(s) + 1] = n + 1
      /\ \A i \in 1..Len(s) : Append(s, n + 1)[i] = s[i]
  BY LenProperties, AppendProperties DEF Chunk
<1>2. \A i \in 1..Len(s) : s[i] \in 1..n
  BY DEF Ordered
<1>3. \A i, j \in 1..Len(s) : i < j => s[i] < s[j]
  BY DEF Ordered, Stream!Increasing
<1> DEFINE t == Append(s, n + 1)
<1> HIDE DEF t
<1>4. ASSUME NEW i \in 1..(Len(s) + 1)
      PROVE  t[i] \in 1..(n + 1)
  BY <1>1, <1>2 DEF t
<1>5. ASSUME NEW i \in 1..(Len(s) + 1), NEW j \in 1..(Len(s) + 1), i < j
      PROVE  t[i] < t[j]
  <2>1. i \in 1..Len(s) /\ t[i] = s[i] /\ s[i] \in 1..n
    BY <1>1, <1>2, <1>5 DEF t
  <2>2. CASE j = Len(s) + 1
    BY <1>1, <2>1, <2>2 DEF t
  <2>3. CASE j # Len(s) + 1
    BY <1>1, <1>3, <1>5, <2>1, <2>3 DEF t
  <2> QED
    BY <2>2, <2>3
<1>6. Len(t) = Len(s) + 1
  BY <1>1 DEF t
<1> QED
  BY <1>4, <1>5, <1>6 DEF Ordered, Stream!Increasing, t

\* A chunk in the middle, and what is before and after it.
LEMMA DropParts ==
  ASSUME NEW s \in Seq(Chunk), NEW i \in 1..Len(s)
  PROVE  /\ SubSeq(s, 1, i - 1) \in Seq(Chunk) /\ SubSeq(s, i + 1, Len(s)) \in Seq(Chunk)
         /\ s[i] \in Chunk /\ <<s[i]>> \in Seq(Chunk)
         /\ s = SubSeq(s, 1, i - 1) \o (<<s[i]>> \o SubSeq(s, i + 1, Len(s)))
<1> DEFINE a == SubSeq(s, 1, i - 1)
           b == SubSeq(s, i + 1, Len(s))
           m == <<s[i]>> \o b
<1>1. Len(s) \in Nat /\ \A j \in 1..Len(s) : s[j] \in Chunk
  BY LenProperties, ElementOfSeq
<1>2. a \in Seq(Chunk) /\ Len(a) = i - 1 /\ \A j \in 1..(i - 1) : a[j] = s[j]
  BY <1>1, SubSeqProperties
<1>3. b \in Seq(Chunk) /\ Len(b) = Len(s) - i /\ \A j \in 1..(Len(s) - i) : b[j] = s[i + j]
  BY <1>1, SubSeqProperties
<1> HIDE DEF a, b
<1>4. <<s[i]>> \in Seq(Chunk) /\ Len(<<s[i]>>) = 1 /\ <<s[i]>>[1] = s[i]
  BY <1>1
<1>5. /\ m \in Seq(Chunk) /\ Len(m) = 1 + (Len(s) - i)
      /\ \A j \in 1..(1 + (Len(s) - i)) : m[j] = IF j <= 1 THEN s[i] ELSE b[j - 1]
  BY <1>3, <1>4, ConcatProperties
<1> HIDE DEF m
<1>6. /\ a \o m \in Seq(Chunk) /\ Len(a \o m) = Len(s)
      /\ \A j \in 1..Len(s) : (a \o m)[j] = IF j <= i - 1 THEN a[j] ELSE m[j - (i - 1)]
  BY <1>1, <1>2, <1>5, ConcatProperties
<1>7. \A j \in 1..Len(s) : (a \o m)[j] = s[j]
  <2> SUFFICES ASSUME NEW j \in 1..Len(s)
               PROVE  (a \o m)[j] = s[j]
    OBVIOUS
  <2>1. CASE j <= i - 1
    BY <1>1, <1>2, <1>6, <2>1
  <2>2. CASE j = i
    BY <1>1, <1>5, <1>6, <2>2
  <2>3. CASE j > i
    <3>1. j \in Int /\ i \in Int /\ j <= Len(s) /\ j - (i - 1) \in 1..(1 + (Len(s) - i))
      BY <1>1, <2>3
    <3>2. (a \o m)[j] = m[j - (i - 1)]
      BY <1>6, <2>3, <3>1
    <3>3. m[j - (i - 1)] = b[j - i]
      BY <1>5, <2>3, <3>1
    <3>4. j - i \in 1..(Len(s) - i) /\ i + (j - i) = j
      BY <2>3, <3>1
    <3>5. b[j - i] = s[j]
      BY <1>3, <3>4
    <3> QED
      BY <3>2, <3>3, <3>5
  <2>4. j <= i - 1 \/ j = i \/ j > i
    BY <1>1
  <2> QED
    BY <2>1, <2>2, <2>3, <2>4
<1>8. a \o m = s
  BY <1>6, <1>7, SeqEqual
<1> QED
  BY <1>1, <1>2, <1>3, <1>4, <1>8 DEF a, b, m

\* Appending to the last of two sequences appends to both.
LEMMA AppendLast ==
  ASSUME NEW x \in Chunk
  PROVE  \A r, q \in Seq(Chunk) : r \o Append(q, x) = Append(r \o q, x) /\ r \o q \in Seq(Chunk)
<1> SUFFICES ASSUME NEW r \in Seq(Chunk), NEW q \in Seq(Chunk)
             PROVE  r \o Append(q, x) = Append(r \o q, x) /\ r \o q \in Seq(Chunk)
  OBVIOUS
<1>1. r \o q \in Seq(Chunk) /\ <<x>> \in Seq(Chunk)
  BY ConcatProperties
<1>2. Append(q, x) = q \o <<x>> /\ Append(r \o q, x) = (r \o q) \o <<x>>
  BY <1>1, AppendIsConcat
<1>3. (r \o q) \o <<x>> = r \o (q \o <<x>>)
  BY <1>1, ConcatAssociative
<1> QED
  BY <1>1, <1>2, <1>3

\* A stream without the first chunk of its second part, ...
LEMMA OrderedTail ==
  ASSUME NEW a \in Seq(Chunk), NEW g \in Seq(Chunk), NEW n, g # <<>>, Ordered(a \o g, n)
  PROVE  Ordered(a \o Tail(g), n)
<1>1. Head(g) \in Chunk /\ Tail(g) \in Seq(Chunk) /\ <<Head(g)>> \in Seq(Chunk)
  BY HeadTailProperties
<1>2. <<Head(g)>> \o Tail(g) = g
  BY <1>1, HeadTailProperties, ConcatProperties, SeqEqual
<1>3. Ordered(a \o (<<Head(g)>> \o Tail(g)), n)
  BY <1>2
<1> QED
  BY <1>1, <1>3, OrderedWithout

\* ... without a part of its middle, ...
LEMMA OrderedInside ==
  ASSUME NEW a \in Seq(Chunk), NEW x \in Seq(Chunk), NEW m \in Seq(Chunk), NEW y \in Seq(Chunk),
         NEW r \in Seq(Chunk), NEW n, Ordered(a \o ((x \o (m \o y)) \o r), n)
  PROVE  Ordered(a \o ((x \o y) \o r), n)
<1>1. a \o x \in Seq(Chunk) /\ y \o r \in Seq(Chunk)
  BY ConcatProperties
<1>2. /\ a \o ((x \o (m \o y)) \o r) = (a \o x) \o (m \o (y \o r))
      /\ a \o ((x \o y) \o r) = (a \o x) \o (y \o r)
  <2>1. \A z \in Seq(Chunk) : a \o ((x \o z) \o r) = (a \o x) \o (z \o r)
    <3> SUFFICES ASSUME NEW z \in Seq(Chunk)
                 PROVE  a \o ((x \o z) \o r) = (a \o x) \o (z \o r)
      OBVIOUS
    <3>1. (x \o z) \o r = x \o (z \o r)
      BY Associative, SMTT(60)
    <3>2. \A w \in Seq(Chunk) : a \o (x \o w) = (a \o x) \o w
      BY Associative, SMTT(60)
    <3>3. z \o r \in Seq(Chunk)
      BY ConcatProperties
    <3> QED
      BY <3>1, <3>2, <3>3, Zenon
  <2>2. m \o y \in Seq(Chunk) /\ (m \o y) \o r = m \o (y \o r)
    BY ConcatProperties, Associative, SMTT(60)
  <2> QED
    BY <2>1, <2>2, Zenon
<1>3. Ordered((a \o x) \o (m \o (y \o r)), n)
  BY <1>2, Zenon
<1>4. Ordered((a \o x) \o (y \o r), n)
  BY <1>1, <1>3, OrderedWithout
<1> QED
  BY <1>2, <1>4, Zenon

\* ... and without one chunk of its middle is in order.
LEMMA OrderedDrop ==
  ASSUME NEW a \in Seq(Chunk), NEW b \in Seq(Chunk), NEW r \in Seq(Chunk), NEW n,
         NEW i \in 1..Len(b), Ordered(a \o (b \o r), n)
  PROVE  Ordered(a \o ((SubSeq(b, 1, i - 1) \o SubSeq(b, i + 1, Len(b))) \o r), n)
<1> DEFINE x == SubSeq(b, 1, i - 1)
           y == SubSeq(b, i + 1, Len(b))
           m == <<b[i]>>
<1>1. x \in Seq(Chunk) /\ y \in Seq(Chunk) /\ m \in Seq(Chunk) /\ b = x \o (m \o y)
  BY DropParts
<1> HIDE DEF x, y, m
<1>2. Ordered(a \o ((x \o (m \o y)) \o r), n)
  BY <1>1, Zenon
<1>3. Ordered(a \o ((x \o y) \o r), n)
  BY <1>1, <1>2, OrderedInside
<1> QED
  BY <1>3 DEF x, y

\* What the relay loses, of a bridge that reads it or to one that does not, leaves the
\* rest in order.
LEMMA JoinedLoses ==
  ASSUME NEW a \in Seq(Chunk), NEW b \in Seq(Chunk), NEW c \in Seq(Chunk),
         NEW d \in Seq(Chunk), NEW f \in Seq(Chunk), NEW g \in Seq(Chunk), NEW n
  PROVE  /\ Ordered(Joined(a, b, c, d, f, g), n) => Ordered(Joined(a, <<>>, c, d, f, g), n)
         /\ \A i \in 1..Len(b) :
              Ordered(Joined(a, b, c, d, f, g), n)
                => Ordered(Joined(a, SubSeq(b, 1, i - 1) \o SubSeq(b, i + 1, Len(b)), c, d, f, g), n)
         /\ g # <<>> /\ Ordered(Joined(a, <<>>, <<>>, <<>>, <<>>, g), n)
              => Ordered(Joined(a, <<>>, <<>>, <<>>, <<>>, Tail(g)), n)
<1> DEFINE r == c \o (d \o (f \o g))
<1>1. r \in Seq(Chunk)
  <2>1. f \o g \in Seq(Chunk)
    BY ConcatProperties
  <2>2. d \o (f \o g) \in Seq(Chunk)
    BY <2>1, ConcatProperties
  <2> QED
    BY <2>2, ConcatProperties
<1>2. \A x : Joined(a, x, c, d, f, g) = a \o (x \o r)
  BY Zenon DEF Joined
<1> HIDE DEF r
<1>3. Ordered(a \o (b \o r), n) => Ordered(a \o (<<>> \o r), n)
  BY <1>1, OrderedWithout, EmptyLeft
<1>4. ASSUME NEW i \in 1..Len(b), Ordered(a \o (b \o r), n)
      PROVE  Ordered(a \o ((SubSeq(b, 1, i - 1) \o SubSeq(b, i + 1, Len(b))) \o r), n)
  BY <1>1, <1>4, OrderedDrop
<1>5. ASSUME g # <<>>, Ordered(Joined(a, <<>>, <<>>, <<>>, <<>>, g), n)
      PROVE  Ordered(Joined(a, <<>>, <<>>, <<>>, <<>>, Tail(g)), n)
  <2>1. \A x \in Seq(Chunk) : Joined(a, <<>>, <<>>, <<>>, <<>>, x) = a \o x
    <3>1. \A x \in Seq(Chunk) : <<>> \o x = x
      BY EmptyLeft
    <3> QED
      BY <3>1, Zenon DEF Joined
  <2>2. Ordered(a \o g, n) /\ Tail(g) \in Seq(Chunk)
    BY <1>5, <2>1, HeadMoves
  <2>3. Ordered(a \o Tail(g), n)
    BY <1>5, <2>2, OrderedTail
  <2> QED
    BY <2>1, <2>2, <2>3
<1> QED
  BY <1>2, <1>3, <1>4, <1>5

(***************************************************************************)
(* Types.                                                                  *)
(***************************************************************************)
USE DEF gameVars, pathVars, bufVars, netVars

\* The two ends are each other's.
LEMMA EndOther ==
  \A e \in End : Other(e) \in End /\ Other(e) # e /\ Other(Other(e)) = e /\ End = {e, Other(e)}
  BY DEF End, Other

\* A move keeps the types of both queues.
LEMMA MoveTypes ==
  ASSUME NEW q \in [End -> Seq(Chunk)], NEW r \in [End -> Seq(Chunk)], NEW a \in End, NEW b \in End,
         q[a] # <<>>
  PROVE  /\ [q EXCEPT ![a] = Tail(@)] \in [End -> Seq(Chunk)]
         /\ [r EXCEPT ![b] = Append(@, Head(q[a]))] \in [End -> Seq(Chunk)]
<1>1. q[a] \in Seq(Chunk) /\ r[b] \in Seq(Chunk)
  OBVIOUS
<1>2. Tail(q[a]) \in Seq(Chunk) /\ Append(r[b], Head(q[a])) \in Seq(Chunk)
  BY <1>1, HeadMoves
<1> QED
  BY <1>2

\* The bridges start with the right types, ...
LEMMA TypeInit == BridgeInit => BridgeTypeOK
<1>1. <<>> \in Seq(Chunk)
  BY EmptySeq
<1> QED
  BY <1>1 DEF BridgeInit, BridgeTypeOK, Phase

\* ... and every step keeps them.
LEMMA TypeStep ==
  ASSUME BridgeTypeOK, BridgeNext
  PROVE  BridgeTypeOK'
<1> USE DEF BridgeTypeOK, Phase
<1>1. ASSUME NEW e \in End, GameSends(e)
      PROVE  BridgeTypeOK'
  <2>1. sent[e] + 1 \in Nat /\ sent[e] + 1 \in Chunk /\ tcp[e] \in Seq(Chunk)
    BY DEF Chunk
  <2>2. Append(tcp[e], sent[e] + 1) \in Seq(Chunk)
    BY <2>1, AppendProperties
  <2> QED
    BY <1>1, <2>1, <2>2 DEF GameSends
<1>2. ASSUME NEW e \in End, GameCloses(e)
      PROVE  BridgeTypeOK'
  BY <1>2 DEF GameCloses
<1>3. ASSUME NEW e \in End, ServerDrops(e)
      PROVE  BridgeTypeOK'
  <2>1. PICK i \in 1..Len(ws[e]) :
          /\ dropped' = [dropped EXCEPT ![e] = @ \cup {ws[e][i]}]
          /\ ws' = [ws EXCEPT ![e] = SubSeq(@, 1, i - 1) \o SubSeq(@, i + 1, Len(@))]
    BY <1>3 DEF ServerDrops
  <2>2. /\ SubSeq(ws[e], 1, i - 1) \in Seq(Chunk) /\ SubSeq(ws[e], i + 1, Len(ws[e])) \in Seq(Chunk)
        /\ ws[e][i] \in Chunk
    BY DropParts
  <2>3. SubSeq(ws[e], 1, i - 1) \o SubSeq(ws[e], i + 1, Len(ws[e])) \in Seq(Chunk)
    BY <2>2, ConcatProperties
  <2>4. ws' \in [End -> Seq(Chunk)] /\ dropped' \in [End -> SUBSET Chunk]
    BY <2>1, <2>2, <2>3
  <2> QED
    BY <1>3, <2>4 DEF ServerDrops
<1>4. CASE RelayBreaks \/ LinkBreaks \/ Connect
  BY <1>4 DEF RelayBreaks, LinkBreaks, Connect
<1>5. ASSUME NEW e \in End, Offer(e) \/ Withdraw(e) \/ Swap(e)
      PROVE  BridgeTypeOK'
  BY <1>5 DEF Offer, Withdraw, Swap, Goto
<1>6. ASSUME NEW e \in End, Return(e)
      PROVE  BridgeTypeOK'
  BY <1>6 DEF Return, Goto
<1>7. ASSUME NEW e \in End, RelaySend(e)
      PROVE  BridgeTypeOK'
  BY <1>7, MoveTypes DEF RelaySend, Move
<1>8. ASSUME NEW e \in End, WsToGame(e)
      PROVE  BridgeTypeOK'
  BY <1>8, MoveTypes, EndOther DEF WsToGame, Move
<1>9. ASSUME NEW e \in End, DrainQuic(e)
      PROVE  BridgeTypeOK'
  BY <1>9, MoveTypes, EndOther DEF DrainQuic, Move
<1>10. ASSUME NEW e \in End, DrainTcp(e)
      PROVE  BridgeTypeOK'
  BY <1>10, MoveTypes DEF DrainTcp, Move
<1>11. ASSUME NEW e \in End, DrainOver(e)
      PROVE  BridgeTypeOK'
  BY <1>11 DEF DrainOver, Goto
<1>12. ASSUME NEW e \in End, Flush(e)
      PROVE  BridgeTypeOK'
  <2>1. got[e] \o qbuf[e] \in Seq(Chunk) /\ quic[e] \o tbuf[e] \in Seq(Chunk) /\ <<>> \in Seq(Chunk)
    BY ConcatProperties, EmptySeq
  <2> QED
    BY <1>12, <2>1 DEF Flush, Goto
<1>13. ASSUME NEW e \in End, QuicSend(e)
      PROVE  BridgeTypeOK'
  BY <1>13, MoveTypes DEF QuicSend, Move
<1>14. ASSUME NEW e \in End, QuicReceive(e)
      PROVE  BridgeTypeOK'
  BY <1>14, MoveTypes, EndOther DEF QuicReceive, Move
<1> QED
  BY <1>1, <1>2, <1>3, <1>4, <1>5, <1>6, <1>7, <1>8, <1>9, <1>10, <1>11, <1>12, <1>13, <1>14
     DEF BridgeNext, Games, Faults, Bridge, Abort, RelayReceive, RelayEof, RelayFails, DrainWs,
         FlushFails, QuicEof, QuicGone, WriteFails

(***************************************************************************)
(* The invariant: for each direction, what the other game has received,    *)
(* what is on the relay as long as it is read, what is in the buffers and  *)
(* on the QUIC stream, and what has not been read from the game is one     *)
(* sequence in order.  It takes that a place is empty while its chunks     *)
(* would come before those of the next one.                                *)
(***************************************************************************)
Live(e) == IF phase[Other(e)] \in {"relay", "drain"} THEN ws[e] ELSE <<>>

Line(e) == Joined(got[Other(e)], Live(e), qbuf[Other(e)], quic[e], tbuf[e], tcp[e])

Empties(e) ==
  /\ phase[e] \in {"relay", "drain", "flush"} => quic[e] = <<>> /\ qbuf[Other(e)] = <<>>
  /\ phase[e] \in {"relay", "quic"} => tbuf[e] = <<>> /\ qbuf[e] = <<>>

BridgeInv ==
  /\ BridgeTypeOK
  /\ \A e \in End : Ordered(Line(e), sent[e])
  /\ \A e \in End : Empties(e)

\* Steps that move nothing to or from the buffers and the QUIC stream: phases only go on.
LEMMA EmptiesKept ==
  ASSUME BridgeInv, UNCHANGED <<quic, bufVars>>, NEW b \in End,
         \/ UNCHANGED phase
         \/ phase' = [phase EXCEPT ![b] = "done"]
         \/ phase[b] = "relay" /\ phase' = [phase EXCEPT ![b] = "drain"]
         \/ phase[b] = "drain" /\ phase' = [phase EXCEPT ![b] = "flush"]
  PROVE  \A e \in End : Empties(e)'
  BY DEF BridgeInv, BridgeTypeOK, Empties, End, Other

\* What must be empty stays empty.
LEMMA EmptiesStep ==
  ASSUME BridgeInv, BridgeNext
  PROVE  \A e \in End : Empties(e)'
<1>1. CASE \/ \E e \in End : \/ GameSends(e) \/ GameCloses(e) \/ ServerDrops(e)
                           \/ Offer(e) \/ Withdraw(e) \/ RelaySend(e) \/ WsToGame(e)
           \/ RelayBreaks \/ LinkBreaks \/ Connect
  <2>1. UNCHANGED <<quic, bufVars>> /\ UNCHANGED phase
    BY <1>1 DEF GameSends, GameCloses, ServerDrops, Offer, Withdraw, RelaySend, WsToGame,
                RelayBreaks, LinkBreaks, Connect
  <2>2. "host" \in End
    BY DEF End
  <2> QED
    BY <2>1, <2>2, EmptiesKept
<1>2. ASSUME NEW b \in End, Return(b) \/ Swap(b) \/ DrainOver(b)
      PROVE  \A e \in End : Empties(e)'
  BY <1>2, EmptiesKept DEF Return, Swap, DrainOver, Goto
<1>3. ASSUME NEW b \in End, DrainQuic(b)
      PROVE  \A e \in End : Empties(e)'
  BY <1>3 DEF DrainQuic, Move, BridgeInv, BridgeTypeOK, Empties, End, Other
<1>4. ASSUME NEW b \in End, DrainTcp(b)
      PROVE  \A e \in End : Empties(e)'
  BY <1>4 DEF DrainTcp, Move, BridgeInv, BridgeTypeOK, Empties, End, Other
<1>5. ASSUME NEW b \in End, Flush(b)
      PROVE  \A e \in End : Empties(e)'
  BY <1>5 DEF Flush, Goto, BridgeInv, BridgeTypeOK, Empties, End, Other
<1>6. ASSUME NEW b \in End, QuicSend(b)
      PROVE  \A e \in End : Empties(e)'
  BY <1>6 DEF QuicSend, Move, BridgeInv, BridgeTypeOK, Empties, End, Other
<1>7. ASSUME NEW b \in End, QuicReceive(b)
      PROVE  \A e \in End : Empties(e)'
  BY <1>7 DEF QuicReceive, Move, BridgeInv, BridgeTypeOK, Empties, End, Other
<1> QED
  BY <1>1, <1>2, <1>3, <1>4, <1>5, <1>6, <1>7
     DEF BridgeNext, Games, Faults, Bridge, Abort, RelayReceive, RelayEof, RelayFails, DrainWs,
         FlushFails, QuicEof, QuicGone, WriteFails

\* The parts of a line are sequences of chunks.
LEMMA LineParts ==
  ASSUME BridgeTypeOK, NEW e \in End
  PROVE  /\ got[Other(e)] \in Seq(Chunk) /\ Live(e) \in Seq(Chunk) /\ qbuf[Other(e)] \in Seq(Chunk)
         /\ quic[e] \in Seq(Chunk) /\ tbuf[e] \in Seq(Chunk) /\ tcp[e] \in Seq(Chunk)
         /\ ws[e] \in Seq(Chunk) /\ <<>> \in Seq(Chunk) /\ sent[e] \in Nat
         /\ Line(e) \in Seq(Chunk)
         /\ Rest(qbuf[Other(e)], quic[e], tbuf[e], tcp[e]) \in Seq(Chunk)
<1>1. Other(e) \in End
  BY EndOther
<1>2. <<>> \in Seq(Chunk)
  BY EmptySeq
<1>3. /\ got[Other(e)] \in Seq(Chunk) /\ qbuf[Other(e)] \in Seq(Chunk)
      /\ quic[e] \in Seq(Chunk) /\ tbuf[e] \in Seq(Chunk) /\ tcp[e] \in Seq(Chunk)
      /\ ws[e] \in Seq(Chunk) /\ sent[e] \in Nat
  BY <1>1 DEF BridgeTypeOK
<1>4. Live(e) \in Seq(Chunk)
  BY <1>2, <1>3 DEF Live
<1>5. Rest(qbuf[Other(e)], quic[e], tbuf[e], tcp[e]) \in Seq(Chunk)
  BY <1>3, RestType
<1> QED
  BY <1>2, <1>3, <1>4, <1>5, JoinedType DEF Line

\* What is lost of the relay.
LEMMA RelayTail ==
  ASSUME NEW a \in Seq(Chunk), NEW g \in Seq(Chunk), NEW n, g # <<>>,
         Ordered(Joined(a, <<>>, <<>>, <<>>, <<>>, g), n)
  PROVE  Ordered(Joined(a, <<>>, <<>>, <<>>, <<>>, Tail(g)), n)
  BY EmptySeq, JoinedLoses

\* A line without its relay, ...
LEMMA RelayLost ==
  ASSUME NEW a \in Seq(Chunk), NEW b \in Seq(Chunk), NEW c \in Seq(Chunk),
         NEW d \in Seq(Chunk), NEW f \in Seq(Chunk), NEW g \in Seq(Chunk), NEW n,
         Ordered(Joined(a, b, c, d, f, g), n)
  PROVE  Ordered(Joined(a, <<>>, c, d, f, g), n)
  BY JoinedLoses

\* ... as it is when the receiver no longer reads it.
LEMMA LineWithoutRelay ==
  ASSUME BridgeInv, NEW e \in End
  PROVE  Ordered(Joined(got[Other(e)], <<>>, qbuf[Other(e)], quic[e], tbuf[e], tcp[e]), sent[e])
<1>1. /\ got[Other(e)] \in Seq(Chunk) /\ Live(e) \in Seq(Chunk) /\ qbuf[Other(e)] \in Seq(Chunk)
      /\ quic[e] \in Seq(Chunk) /\ tbuf[e] \in Seq(Chunk) /\ tcp[e] \in Seq(Chunk)
  BY LineParts DEF BridgeInv
<1>2. Ordered(Joined(got[Other(e)], Live(e), qbuf[Other(e)], quic[e], tbuf[e], tcp[e]), sent[e])
  BY DEF BridgeInv, Line
<1> HIDE DEF Live
<1> QED
  BY <1>1, <1>2, RelayLost

\* A step that moves nothing on the line of e; its relay may not be read any more.
LEMMA LineKept ==
  ASSUME BridgeInv, NEW e \in End,
         /\ sent'[e] = sent[e] /\ got'[Other(e)] = got[Other(e)] /\ qbuf'[Other(e)] = qbuf[Other(e)]
         /\ quic'[e] = quic[e] /\ tbuf'[e] = tbuf[e] /\ tcp'[e] = tcp[e],
         Live(e)' \in {Live(e), <<>>}
  PROVE  Ordered(Line(e), sent[e])'
<1>1. Line(e)' = Joined(got[Other(e)], Live(e)', qbuf[Other(e)], quic[e], tbuf[e], tcp[e])
  BY DEF Line
<1>2. Ordered(Line(e), sent[e])
  BY DEF BridgeInv
<1>3. Ordered(Joined(got[Other(e)], <<>>, qbuf[Other(e)], quic[e], tbuf[e], tcp[e]), sent[e])
  BY LineWithoutRelay
<1>4. Ordered(Line(e)', sent[e])
  BY <1>1, <1>2, <1>3 DEF Line
<1> QED
  BY <1>4

\* A step after which the line of e is the same, without the loss, or one chunk longer.
LEMMA LineSame ==
  ASSUME BridgeInv, NEW e \in End, sent'[e] = sent[e],
         Joined(got'[Other(e)], Live(e)', qbuf'[Other(e)], quic'[e], tbuf'[e], tcp'[e])
           = Joined(got[Other(e)], Live(e), qbuf[Other(e)], quic[e], tbuf[e], tcp[e])
  PROVE  Ordered(Line(e), sent[e])'
<1>1. Line(e)' = Line(e)
  BY DEF Line
<1>2. Ordered(Line(e)', sent[e])
  BY <1>1 DEF BridgeInv
<1> QED
  BY <1>2

\* GameSends: the new chunk is the last one of its line, with a greater number than all.
LEMMA LineSent ==
  ASSUME BridgeInv, NEW b \in End, GameSends(b), NEW e \in End
  PROVE  Ordered(Line(e), sent[e])'
<1>1. CASE e # b
  <2>1. Live(e)' = Live(e)
    BY DEF Live, GameSends
  <2> QED
    BY <1>1, <2>1, LineKept DEF GameSends, BridgeInv, BridgeTypeOK
<1>2. CASE e = b
  <2>1. /\ got[Other(e)] \in Seq(Chunk) /\ Live(e) \in Seq(Chunk) /\ qbuf[Other(e)] \in Seq(Chunk)
        /\ quic[e] \in Seq(Chunk) /\ tbuf[e] \in Seq(Chunk) /\ tcp[e] \in Seq(Chunk)
        /\ sent[e] \in Nat /\ Line(e) \in Seq(Chunk)
    BY LineParts DEF BridgeInv
  <2>2. sent[e] + 1 \in Chunk
    BY <2>1 DEF Chunk
  <2>3. Joined(got[Other(e)], Live(e), qbuf[Other(e)], quic[e], tbuf[e], Append(tcp[e], sent[e] + 1))
          = Append(Line(e), sent[e] + 1)
    <3> HIDE DEF Live
    <3>1. \A r, q \in Seq(Chunk) :
            /\ r \o Append(q, sent[e] + 1) = Append(r \o q, sent[e] + 1)
            /\ r \o q \in Seq(Chunk)
      BY <2>2, AppendLast
    <3> DEFINE s == tbuf[e] \o tcp[e]
               t == quic[e] \o s
               u == qbuf[Other(e)] \o t
               v == Live(e) \o u
    <3>2. tbuf[e] \o Append(tcp[e], sent[e] + 1) = Append(s, sent[e] + 1) /\ s \in Seq(Chunk)
      BY <2>1, <3>1
    <3> HIDE DEF s
    <3>3. quic[e] \o Append(s, sent[e] + 1) = Append(t, sent[e] + 1) /\ t \in Seq(Chunk)
      BY <2>1, <3>1, <3>2
    <3> HIDE DEF t
    <3>4. qbuf[Other(e)] \o Append(t, sent[e] + 1) = Append(u, sent[e] + 1) /\ u \in Seq(Chunk)
      BY <2>1, <3>1, <3>3
    <3> HIDE DEF u
    <3>5. Live(e) \o Append(u, sent[e] + 1) = Append(v, sent[e] + 1) /\ v \in Seq(Chunk)
      BY <2>1, <3>1, <3>4
    <3> HIDE DEF v
    <3>6. got[Other(e)] \o Append(v, sent[e] + 1) = Append(got[Other(e)] \o v, sent[e] + 1)
      BY <2>1, <3>1, <3>5
    <3> QED
      BY <3>2, <3>3, <3>4, <3>5, <3>6, Zenon DEF Joined, Line, s, t, u, v
  <2>4. /\ tcp'[e] = Append(tcp[e], sent[e] + 1) /\ sent'[e] = sent[e] + 1
        /\ UNCHANGED <<got, ws, phase, qbuf, quic, tbuf>>
    BY <1>2 DEF GameSends, BridgeInv, BridgeTypeOK
  <2>5. Live(e)' = Live(e)
    BY <2>4 DEF Live
  <2>6. Line(e)' = Append(Line(e), sent[e] + 1)
    BY <2>3, <2>4, <2>5 DEF Line
  <2>7. Ordered(Append(Line(e), sent[e] + 1), sent[e] + 1)
    BY <2>1, OrderedAppend DEF BridgeInv
  <2>8. Ordered(Line(e)', sent'[e])
    BY <2>4, <2>6, <2>7
  <2> QED
    BY <2>8
<1> QED
  BY <1>1, <1>2

\* ServerDrops: one chunk of the relay is missing.
LEMMA LineDropped ==
  ASSUME BridgeInv, NEW b \in End, ServerDrops(b), NEW e \in End
  PROVE  Ordered(Line(e), sent[e])'
<1>1. CASE e # b \/ phase[Other(e)] \notin {"relay", "drain"}
  <2>1. Live(e)' = Live(e)
    BY <1>1 DEF Live, ServerDrops, BridgeInv, BridgeTypeOK
  <2> QED
    BY <2>1, LineKept DEF ServerDrops, BridgeInv, BridgeTypeOK
<1>2. CASE e = b /\ phase[Other(e)] \in {"relay", "drain"}
  <2>1. PICK i \in 1..Len(ws[e]) :
          ws' = [ws EXCEPT ![e] = SubSeq(@, 1, i - 1) \o SubSeq(@, i + 1, Len(@))]
    BY <1>2 DEF ServerDrops
  <2>2. ws'[e] = SubSeq(ws[e], 1, i - 1) \o SubSeq(ws[e], i + 1, Len(ws[e]))
    BY <2>1 DEF BridgeInv, BridgeTypeOK
  <2>3. UNCHANGED <<sent, got, phase, qbuf, quic, tbuf, tcp>>
    BY DEF ServerDrops
  <2>4. /\ Live(e) = ws[e]
        /\ Live(e)' = SubSeq(ws[e], 1, i - 1) \o SubSeq(ws[e], i + 1, Len(ws[e]))
    BY <1>2, <2>2, <2>3 DEF Live
  <2>5. /\ got[Other(e)] \in Seq(Chunk) /\ ws[e] \in Seq(Chunk) /\ qbuf[Other(e)] \in Seq(Chunk)
        /\ quic[e] \in Seq(Chunk) /\ tbuf[e] \in Seq(Chunk) /\ tcp[e] \in Seq(Chunk)
    BY LineParts DEF BridgeInv
  <2>6. Ordered(Joined(got[Other(e)], ws[e], qbuf[Other(e)], quic[e], tbuf[e], tcp[e]), sent[e])
    BY <2>4 DEF BridgeInv, Line
  <2>7. Ordered(Joined(got[Other(e)], Live(e)', qbuf[Other(e)], quic[e], tbuf[e], tcp[e]), sent[e])
    BY <2>4, <2>5, <2>6, JoinedLoses
  <2>8. Ordered(Line(e)', sent'[e])
    BY <2>3, <2>7 DEF Line
  <2> QED
    BY <2>8
<1> QED
  BY <1>1, <1>2

\* Between the two games and the relay.
LEMMA LineRelayed ==
  ASSUME BridgeInv, NEW b \in End, RelaySend(b), NEW e \in End
  PROVE  Ordered(Line(e), sent[e])'
<1> USE DEF Move
<1>1. CASE e # b
  <2>1. Live(e)' = Live(e)
    BY <1>1 DEF Live, RelaySend, BridgeInv, BridgeTypeOK
  <2> QED
    BY <1>1, <2>1, LineKept DEF RelaySend, BridgeInv, BridgeTypeOK
<1>2. CASE e = b
  <2>1. /\ UNCHANGED <<sent, got, phase, qbuf, quic, tbuf>>
        /\ tcp[e] # <<>> /\ tcp'[e] = Tail(tcp[e]) /\ ws'[e] = Append(ws[e], Head(tcp[e]))
        /\ phase[e] = "relay"
    BY <1>2 DEF RelaySend, BridgeInv, BridgeTypeOK
  <2>2. qbuf[Other(e)] = <<>> /\ quic[e] = <<>> /\ tbuf[e] = <<>>
    BY <2>1 DEF BridgeInv, Empties
  <2>3. /\ got[Other(e)] \in Seq(Chunk) /\ ws[e] \in Seq(Chunk) /\ tcp[e] \in Seq(Chunk)
        /\ <<>> \in Seq(Chunk)
    BY LineParts DEF BridgeInv
  <2>4. CASE phase[Other(e)] \in {"relay", "drain"}
    <3>1. Live(e) = ws[e] /\ Live(e)' = Append(ws[e], Head(tcp[e]))
      BY <2>1, <2>4 DEF Live
    <3>2. Joined(got[Other(e)], Append(ws[e], Head(tcp[e])), <<>>, <<>>, <<>>, Tail(tcp[e]))
            = Joined(got[Other(e)], ws[e], <<>>, <<>>, <<>>, tcp[e])
      BY <2>1, <2>3, ToRelay
    <3> QED
      BY <2>1, <2>2, <3>1, <3>2, LineSame
  <2>5. CASE phase[Other(e)] \notin {"relay", "drain"}
    <3>1. Live(e) = <<>> /\ Live(e)' = <<>>
      BY <2>1, <2>5 DEF Live
    <3>2. Ordered(Joined(got[Other(e)], <<>>, <<>>, <<>>, <<>>, tcp[e]), sent[e])
      BY <2>2, <3>1 DEF BridgeInv, Line
    <3>3. Ordered(Joined(got[Other(e)], <<>>, <<>>, <<>>, <<>>, Tail(tcp[e])), sent[e])
      BY <2>1, <2>3, <3>2, RelayTail
    <3>4. Ordered(Line(e)', sent'[e])
      BY <2>1, <2>2, <3>1, <3>3 DEF Line
    <3> QED
      BY <3>4
  <2> QED
    BY <2>4, <2>5
<1> QED
  BY <1>1, <1>2

\* WsToGame: from the relay to the game.
LEMMA LineReceived ==
  ASSUME BridgeInv, NEW b \in End, phase[b] \in {"relay", "drain"}, WsToGame(b), NEW e \in End
  PROVE  Ordered(Line(e), sent[e])'
<1> USE DEF Move
<1>1. CASE e = b
  <2>1. /\ Live(e)' = Live(e) /\ Other(e) # b
    BY <1>1, EndOther DEF Live, WsToGame, BridgeInv, BridgeTypeOK
  <2> QED
    BY <1>1, <2>1, EndOther, LineKept DEF WsToGame, BridgeInv, BridgeTypeOK
<1>2. CASE e # b
  <2>1. b = Other(e) /\ e = Other(b)
    BY <1>2, EndOther
  <2>2. /\ UNCHANGED <<sent, tcp, phase, qbuf, quic, tbuf>>
        /\ ws[e] # <<>> /\ ws'[e] = Tail(ws[e]) /\ got'[b] = Append(got[b], Head(ws[e]))
    BY <2>1 DEF WsToGame, BridgeInv, BridgeTypeOK
  <2>3. Live(e) = ws[e] /\ Live(e)' = Tail(ws[e])
    BY <2>1, <2>2 DEF Live
  <2>4. /\ got[Other(e)] \in Seq(Chunk) /\ ws[e] \in Seq(Chunk) /\ qbuf[Other(e)] \in Seq(Chunk)
        /\ Rest(qbuf[Other(e)], quic[e], tbuf[e], tcp[e]) \in Seq(Chunk)
    BY LineParts DEF BridgeInv
  <2>5. Joined(Append(got[Other(e)], Head(ws[e])), Tail(ws[e]), qbuf[Other(e)], quic[e], tbuf[e], tcp[e])
          = Joined(got[Other(e)], ws[e], qbuf[Other(e)], quic[e], tbuf[e], tcp[e])
    BY <2>2, <2>4, FromRelay
  <2> QED
    BY <2>1, <2>2, <2>3, <2>5, LineSame
<1> QED
  BY <1>1, <1>2

\* While the relay is drained: into the buffers.
LEMMA LineDrained ==
  ASSUME BridgeInv, NEW b \in End, DrainQuic(b) \/ DrainTcp(b), NEW e \in End
  PROVE  Ordered(Line(e), sent[e])'
<1> USE DEF Move
<1>1. Live(e)' = Live(e)
  BY DEF Live, DrainQuic, DrainTcp
<1>2. /\ got[Other(e)] \in Seq(Chunk) /\ Live(e) \in Seq(Chunk) /\ qbuf[Other(e)] \in Seq(Chunk)
      /\ quic[e] \in Seq(Chunk) /\ tbuf[e] \in Seq(Chunk) /\ tcp[e] \in Seq(Chunk)
  BY LineParts DEF BridgeInv
<1> HIDE DEF Live
<1>3. CASE DrainQuic(b) /\ e = b
  BY <1>1, <1>3, EndOther, LineKept DEF DrainQuic, BridgeInv, BridgeTypeOK
<1>4. CASE DrainQuic(b) /\ e # b
  <2>1. b = Other(e) /\ e = Other(b)
    BY <1>4, EndOther
  <2>2. /\ UNCHANGED <<sent, tcp, got, tbuf>>
        /\ quic[e] # <<>> /\ quic'[e] = Tail(quic[e]) /\ qbuf'[b] = Append(qbuf[b], Head(quic[e]))
    BY <1>4, <2>1 DEF DrainQuic, BridgeInv, BridgeTypeOK
  <2>3. Joined(got[Other(e)], Live(e), Append(qbuf[Other(e)], Head(quic[e])), Tail(quic[e]), tbuf[e], tcp[e])
          = Joined(got[Other(e)], Live(e), qbuf[Other(e)], quic[e], tbuf[e], tcp[e])
    BY <1>2, <2>2, ToQuicBuffer
  <2> QED
    BY <1>1, <2>1, <2>2, <2>3, LineSame
<1>5. CASE DrainTcp(b) /\ e # b
  BY <1>1, <1>5, LineKept DEF DrainTcp, BridgeInv, BridgeTypeOK
<1>6. CASE DrainTcp(b) /\ e = b
  <2>1. /\ UNCHANGED <<sent, got, quic, qbuf>>
        /\ tcp[e] # <<>> /\ tcp'[e] = Tail(tcp[e]) /\ tbuf'[e] = Append(tbuf[e], Head(tcp[e]))
    BY <1>6 DEF DrainTcp, BridgeInv, BridgeTypeOK
  <2>2. Joined(got[Other(e)], Live(e), qbuf[Other(e)], quic[e], Append(tbuf[e], Head(tcp[e])), Tail(tcp[e]))
          = Joined(got[Other(e)], Live(e), qbuf[Other(e)], quic[e], tbuf[e], tcp[e])
    BY <1>2, <2>1, ToTcpBuffer
  <2> QED
    BY <1>1, <2>1, <2>2, LineSame
<1> QED
  BY <1>3, <1>4, <1>5, <1>6

\* The flush: quic_buffer of one direction, tcp_outbound_buffer of the other.
LEMMA LineFlushed ==
  ASSUME BridgeInv, NEW b \in End, Flush(b), NEW e \in End
  PROVE  Ordered(Line(e), sent[e])'
<1>1. /\ got[Other(e)] \in Seq(Chunk) /\ Live(e) \in Seq(Chunk) /\ qbuf[Other(e)] \in Seq(Chunk)
      /\ quic[e] \in Seq(Chunk) /\ tbuf[e] \in Seq(Chunk) /\ tcp[e] \in Seq(Chunk)
  BY LineParts DEF BridgeInv
<1>2. CASE e # b
  <2>1. b = Other(e) /\ e = Other(b)
    BY <1>2, EndOther
  <2>2. /\ UNCHANGED <<sent, tcp>> /\ quic'[e] = quic[e] /\ tbuf'[e] = tbuf[e]
        /\ got'[b] = got[b] \o qbuf[b] /\ qbuf'[b] = <<>>
        /\ phase[b] = "flush" /\ phase'[b] = "quic"
    BY <2>1, <1>2 DEF Flush, Goto, BridgeInv, BridgeTypeOK
  <2>3. Live(e) = <<>> /\ Live(e)' = <<>>
    BY <2>1, <2>2 DEF Live
  <2>4. Joined(got[Other(e)] \o qbuf[Other(e)], <<>>, <<>>, quic[e], tbuf[e], tcp[e])
          = Joined(got[Other(e)], <<>>, qbuf[Other(e)], quic[e], tbuf[e], tcp[e])
    <3> DEFINE s == quic[e] \o (tbuf[e] \o tcp[e])
    <3>1. s \in Seq(Chunk)
      BY <1>1, ConcatProperties
    <3> HIDE DEF s
    <3>2. (got[Other(e)] \o qbuf[Other(e)]) \o (<<>> \o (<<>> \o s))
            = got[Other(e)] \o (<<>> \o (qbuf[Other(e)] \o s))
      <4>1. got[Other(e)] \in Seq(Chunk) /\ qbuf[Other(e)] \in Seq(Chunk)
        BY <1>1
      <4> QED
        BY <3>1, <4>1, FlushIn, Zenon
    <3> QED
      BY <3>2, Zenon DEF Joined, s
  <2> QED
    BY <2>1, <2>2, <2>3, <2>4, LineSame
<1>3. CASE e = b
  <2>1. /\ UNCHANGED <<sent, tcp>> /\ got'[Other(e)] = got[Other(e)] /\ qbuf'[Other(e)] = qbuf[Other(e)]
        /\ quic'[e] = quic[e] \o tbuf[e] /\ tbuf'[e] = <<>>
    BY <1>3, EndOther DEF Flush, BridgeInv, BridgeTypeOK
  <2>2. Live(e)' = Live(e)
    BY <1>3, EndOther DEF Live, Flush, Goto, BridgeInv, BridgeTypeOK
  <2>3. Joined(got[Other(e)], Live(e), qbuf[Other(e)], quic[e] \o tbuf[e], <<>>, tcp[e])
          = Joined(got[Other(e)], Live(e), qbuf[Other(e)], quic[e], tbuf[e], tcp[e])
    <3> HIDE DEF Live
    <3> QED
      BY <1>1, FlushOut
  <2> QED
    BY <2>1, <2>2, <2>3, LineSame
<1> QED
  BY <1>2, <1>3

\* Phase 3.
LEMMA LineOnQuic ==
  ASSUME BridgeInv, NEW b \in End, QuicSend(b) \/ QuicReceive(b), NEW e \in End
  PROVE  Ordered(Line(e), sent[e])'
<1> USE DEF Move
<1>1. Live(e)' = Live(e)
  BY DEF Live, QuicSend, QuicReceive
<1>2. /\ got[Other(e)] \in Seq(Chunk) /\ qbuf[Other(e)] \in Seq(Chunk)
      /\ quic[e] \in Seq(Chunk) /\ tbuf[e] \in Seq(Chunk) /\ tcp[e] \in Seq(Chunk)
  BY LineParts DEF BridgeInv
<1>3. CASE QuicSend(b) /\ e # b
  BY <1>1, <1>3, LineKept DEF QuicSend, BridgeInv, BridgeTypeOK
<1>4. CASE QuicSend(b) /\ e = b
  <2>1. /\ UNCHANGED <<sent, got, qbuf>> /\ phase[e] = "quic"
        /\ tcp[e] # <<>> /\ tcp'[e] = Tail(tcp[e]) /\ quic'[e] = Append(quic[e], Head(tcp[e]))
    BY <1>4 DEF QuicSend, BridgeInv, BridgeTypeOK
  <2>2. tbuf[e] = <<>> /\ tbuf'[e] = <<>>
    BY <1>4, <2>1 DEF QuicSend, BridgeInv, Empties
  <2>3. Joined(got[Other(e)], Live(e), qbuf[Other(e)], Append(quic[e], Head(tcp[e])), <<>>, Tail(tcp[e]))
          = Joined(got[Other(e)], Live(e), qbuf[Other(e)], quic[e], <<>>, tcp[e])
    BY <1>2, <2>1, ToQuic
  <2> QED
    BY <1>1, <2>1, <2>2, <2>3, LineSame
<1>5. CASE QuicReceive(b) /\ e = b
  BY <1>1, <1>5, EndOther, LineKept DEF QuicReceive, BridgeInv, BridgeTypeOK
<1>6. CASE QuicReceive(b) /\ e # b
  <2>1. b = Other(e) /\ e = Other(b)
    BY <1>6, EndOther
  <2>2. /\ UNCHANGED <<sent, tcp, tbuf, qbuf>> /\ phase[b] = "quic"
        /\ quic[e] # <<>> /\ quic'[e] = Tail(quic[e]) /\ got'[b] = Append(got[b], Head(quic[e]))
    BY <1>6, <2>1 DEF QuicReceive, BridgeInv, BridgeTypeOK
  <2>3. qbuf[b] = <<>> /\ Live(e) = <<>>
    BY <2>1, <2>2 DEF BridgeInv, Empties, Live
  <2>4. Joined(Append(got[Other(e)], Head(quic[e])), <<>>, <<>>, Tail(quic[e]), tbuf[e], tcp[e])
          = Joined(got[Other(e)], <<>>, <<>>, quic[e], tbuf[e], tcp[e])
    BY <1>2, <2>2, FromQuic
  <2> QED
    BY <1>1, <2>1, <2>2, <2>3, <2>4, LineSame
<1> QED
  BY <1>3, <1>4, <1>5, <1>6

\* Every step keeps every line in order.
LEMMA LineStep ==
  ASSUME BridgeInv, BridgeNext, NEW e \in End
  PROVE  Ordered(Line(e), sent[e])'
<1>1. CASE \/ \E b \in End : GameCloses(b) \/ Offer(b) \/ Withdraw(b)
           \/ RelayBreaks \/ LinkBreaks \/ Connect
  <2>1. UNCHANGED <<sent, got, ws, qbuf, quic, tbuf, tcp, phase>>
    BY <1>1 DEF GameCloses, Offer, Withdraw, RelayBreaks, LinkBreaks, Connect
  <2>2. Live(e)' = Live(e)
    BY <2>1 DEF Live
  <2> QED
    BY <2>1, <2>2, LineKept
<1>2. CASE \E b \in End : Return(b) \/ Swap(b) \/ DrainOver(b)
  <2>1. UNCHANGED <<sent, got, ws, qbuf, quic, tbuf, tcp>>
    BY <1>2 DEF Return, Swap, DrainOver
  <2>2. PICK b \in End : \/ phase' = [phase EXCEPT ![b] = "done"]
                         \/ phase[b] = "relay" /\ phase' = [phase EXCEPT ![b] = "drain"]
                         \/ phase[b] = "drain" /\ phase' = [phase EXCEPT ![b] = "flush"]
    BY <1>2 DEF Return, Swap, DrainOver, Goto
  <2>3. Live(e)' \in {Live(e), <<>>}
    BY <2>1, <2>2, EndOther DEF Live, BridgeInv, BridgeTypeOK
  <2> QED
    BY <2>1, <2>3, LineKept
<1>3. ASSUME NEW b \in End, Bridge(b), ~Return(b), ~Swap(b), ~DrainOver(b)
      PROVE  Ordered(Line(e), sent[e])'
  <2>1. \/ RelaySend(b)
        \/ phase[b] \in {"relay", "drain"} /\ WsToGame(b)
        \/ DrainQuic(b) \/ DrainTcp(b)
        \/ Flush(b)
        \/ QuicSend(b) \/ QuicReceive(b)
    BY <1>3 DEF Bridge, RelayReceive, RelayEof, RelayFails, DrainWs, FlushFails, QuicEof,
                QuicGone, WriteFails
  <2> QED
    BY <2>1, LineRelayed, LineReceived, LineDrained, LineFlushed, LineOnQuic
<1> QED
  BY <1>1, <1>2, <1>3, LineSent, LineDropped DEF BridgeNext, Games, Faults, Abort

\* The invariant is inductive.
LEMMA BridgeInvStep ==
  ASSUME BridgeInv, [BridgeNext]_bridgeVars
  PROVE  BridgeInv'
<1>1. CASE BridgeNext
  BY <1>1, TypeStep, EmptiesStep, LineStep DEF BridgeInv
<1>2. CASE UNCHANGED bridgeVars
  BY <1>2 DEF bridgeVars, BridgeInv, BridgeTypeOK, Line, Live, Empties
<1> QED
  BY <1>1, <1>2

(***************************************************************************)
(* The refinement.                                                         *)
(***************************************************************************)
GotOrdered == \A b \in End : Ordered(got[b], sent[Other(b)])

\* What the game has received is the beginning of its line.
LEMMA GotIsOrdered == BridgeInv => GotOrdered
<1> SUFFICES ASSUME BridgeInv, NEW b \in End
             PROVE  Ordered(got[b], sent[Other(b)])
  BY DEF GotOrdered
<1>1. Other(b) \in End /\ Other(Other(b)) = b
  BY EndOther
<1>2. /\ got[b] \in Seq(Chunk) /\ Live(Other(b)) \in Seq(Chunk)
      /\ Rest(qbuf[b], quic[Other(b)], tbuf[Other(b)], tcp[Other(b)]) \in Seq(Chunk)
  <2> HIDE DEF Live
  <2> QED
    BY <1>1, LineParts DEF BridgeInv
<1> DEFINE r == Live(Other(b)) \o Rest(qbuf[b], quic[Other(b)], tbuf[Other(b)], tcp[Other(b)])
<1>3. r \in Seq(Chunk)
  BY <1>2, ConcatProperties
<1>4. Line(Other(b)) = got[b] \o r
  BY <1>1, Zenon DEF Line, Joined, Rest
<1>5. Ordered(Line(Other(b)), sent[Other(b)])
  BY <1>1 DEF BridgeInv
<1> HIDE DEF r
<1> QED
  BY <1>2, <1>3, <1>4, <1>5, OrderedPrefix

\* One game receives more, in order.
LEMMA Delivers ==
  ASSUME BridgeTypeOK, BridgeTypeOK', GotOrdered', NEW b \in End,
         UNCHANGED sent, got' = [got EXCEPT ![b] = got'[b]],
         \E s \in Seq(Chunk) : got'[b] = got[b] \o s
  PROVE  Stream!Deliver(b)
<1>1. PICK s \in Seq(Chunk) : got'[b] = got[b] \o s
  OBVIOUS
<1>2. got[b] \in Seq(Chunk)
  BY DEF BridgeTypeOK
<1>3. /\ Len(got[b]) \in Nat /\ Len(got[b]) <= Len(got'[b])
      /\ \A i \in 1..Len(got[b]) : got'[b][i] = got[b][i]
  BY <1>1, <1>2, ConcatProperties, LenProperties
<1>4. Ordered(got'[b], sent[Other(b)])
  BY DEF GotOrdered
<1>5. Stream!Peer(b) = Other(b)
  BY DEF Stream!Peer, Other
<1> QED
  BY <1>3, <1>4, <1>5 DEF Stream!Deliver, Ordered

\* One chunk more is a delivery.
LEMMA Received ==
  ASSUME BridgeTypeOK, BridgeTypeOK', GotOrdered', NEW b \in End,
         (phase[b] \in {"relay", "drain"} /\ WsToGame(b)) \/ QuicReceive(b)
  PROVE  Stream!Deliver(b)
<1>1. PICK q \in Seq(Chunk) : q # <<>> /\ got' = [got EXCEPT ![b] = Append(@, Head(q))]
  BY EndOther DEF WsToGame, QuicReceive, Move, BridgeTypeOK
<1>2. Head(q) \in Chunk /\ <<Head(q)>> \in Seq(Chunk)
  BY <1>1, HeadTailProperties
<1>3. got \in [End -> Seq(Chunk)]
  BY DEF BridgeTypeOK
<1>4. got'[b] = Append(got[b], Head(q)) /\ got' = [got EXCEPT ![b] = got'[b]]
  BY <1>1, <1>3
<1>5. got'[b] = got[b] \o <<Head(q)>>
  BY <1>2, <1>3, <1>4, AppendIsConcat
<1>6. UNCHANGED sent
  BY DEF WsToGame, QuicReceive
<1> QED
  BY <1>2, <1>4, <1>5, <1>6, Delivers

\* A step of the bridges sends, delivers, or does neither.
LEMMA StepRefines ==
  ASSUME BridgeInv, BridgeInv', BridgeNext
  PROVE  [Stream!Next]_<<sent, got>>
<1>1. BridgeTypeOK /\ BridgeTypeOK'
  BY DEF BridgeInv
<1>2. GotOrdered'
  BY GotIsOrdered, PTL
<1>3. Stream!Ends = End
  BY DEF Stream!Ends, End
<1>4. ASSUME NEW b \in End, GameSends(b)
      PROVE  Stream!Next
  <2>1. Stream!Send(b)
    BY <1>4 DEF GameSends, Stream!Send
  <2> QED
    BY <1>3, <2>1 DEF Stream!Next
<1>5. ASSUME NEW b \in End, Flush(b)
      PROVE  Stream!Next
  <2>1. got'[b] = got[b] \o qbuf[b] /\ qbuf[b] \in Seq(Chunk) /\ got' = [got EXCEPT ![b] = got'[b]]
    BY <1>1, <1>5 DEF Flush, BridgeTypeOK
  <2>2. UNCHANGED sent
    BY <1>5 DEF Flush
  <2>3. Stream!Deliver(b)
    BY <1>1, <1>2, <2>1, <2>2, Delivers
  <2> QED
    BY <1>3, <2>3 DEF Stream!Next
<1>6. ASSUME NEW b \in End, (phase[b] \in {"relay", "drain"} /\ WsToGame(b)) \/ QuicReceive(b)
      PROVE  Stream!Next
  BY <1>1, <1>2, <1>3, <1>6, Received DEF Stream!Next
<1>7. ASSUME NEW b \in End,
             \/ GameCloses(b) \/ ServerDrops(b) \/ Offer(b) \/ Withdraw(b) \/ Return(b) \/ Swap(b)
             \/ RelaySend(b) \/ DrainQuic(b) \/ DrainTcp(b) \/ DrainOver(b) \/ QuicSend(b)
      PROVE  UNCHANGED <<sent, got>>
  BY <1>7 DEF GameCloses, ServerDrops, Offer, Withdraw, Return, Swap, RelaySend, DrainQuic,
              DrainTcp, DrainOver, QuicSend
<1>8. CASE RelayBreaks \/ LinkBreaks \/ Connect
  BY <1>8 DEF RelayBreaks, LinkBreaks, Connect
<1> QED
  BY <1>4, <1>5, <1>6, <1>7, <1>8
     DEF BridgeNext, Games, Faults, Bridge, Abort, RelayReceive, RelayEof, RelayFails, DrainWs,
         FlushFails, QuicEof, QuicGone, WriteFails

\* The invariant holds at the start, and so does that of the stream.
LEMMA BridgeInvInit == BridgeInit => BridgeInv /\ Stream!Init
<1> SUFFICES ASSUME BridgeInit
             PROVE  BridgeInv /\ Stream!Init
  OBVIOUS
<1>1. BridgeTypeOK
  BY TypeInit
<1>2. ASSUME NEW e \in End
      PROVE  Ordered(Line(e), sent[e]) /\ Empties(e)
  <2>1. Other(e) \in End
    BY EndOther
  <2>2. /\ got[Other(e)] = <<>> /\ Live(e) = <<>> /\ qbuf[Other(e)] = <<>>
        /\ quic[e] = <<>> /\ tbuf[e] = <<>> /\ tcp[e] = <<>> /\ qbuf[e] = <<>>
    BY <2>1 DEF BridgeInit, Live
  <2>3. <<>> \o <<>> = <<>>
    BY EmptySeq, ConcatEmptySeq
  <2>4. Line(e) = <<>>
    BY <2>2, <2>3, Zenon DEF Line, Joined
  <2>5. Ordered(<<>>, sent[e])
    BY DEF Ordered, Stream!Increasing
  <2> QED
    BY <2>2, <2>4, <2>5 DEF Empties
<1>3. Stream!Init
  BY DEF BridgeInit, Stream!Init, Stream!Ends, End
<1> QED
  BY <1>1, <1>2, <1>3 DEF BridgeInv

\* Whatever makes the QUIC connection and whenever it breaks: a pair of bridges delivers
\* what the games send in order and at most once, across the move from the relay to QUIC.
THEOREM BridgesAreAStream == BridgeSpec => StreamSpec
<1>1. BridgeInit => BridgeInv /\ Stream!Init
  BY BridgeInvInit
<1>2. BridgeInv /\ [BridgeNext]_bridgeVars => BridgeInv'
  BY BridgeInvStep
<1>3. BridgeInv /\ BridgeInv' /\ [BridgeNext]_bridgeVars => [Stream!Next]_<<sent, got>>
  <2>1. UNCHANGED bridgeVars => UNCHANGED <<sent, got>>
    BY DEF bridgeVars
  <2> QED
    BY <2>1, StepRefines
<1> QED
  BY <1>1, <1>2, <1>3, PTL DEF BridgeSpec, StreamSpec, Stream!Spec

(***************************************************************************)
(* The strategies.                                                         *)
(***************************************************************************)
LEMMA StrategiesDriveBridges ==
  ASSUME [Next]_allVars
  PROVE  [BridgeNext]_bridgeVars
<1>1. End = {"host", "join"}
  BY DEF End
<1>2. ASSUME NEW e \in End, TunnelTask(e) \/ GameStep(e)
      PROVE  BridgeNext
  BY <1>2 DEF TunnelTask, SetupFails, BridgeStep, GameStep, BridgeNext, Games, Faults, Abort
<1>3. CASE HostStarts \/ JoinStarts \/ UpnpMaps
  BY <1>3 DEF HostStarts, JoinStarts, UpnpMaps
<1>4. CASE HostTask
  BY <1>1, <1>4 DEF HostTask, HostBinds, HostBindFails, AcceptTimeout, HostStream,
                    HostHandshakeFails, HostGivesUp, HostAcks, HostOffers, BridgeNext
<1>5. CASE JoinTask
  BY <1>1, <1>5 DEF JoinTask, AddrArrives, SenderDropped, Connected, TryFails, TakeUp, TakeFailed,
                    JoinAcked, JoinHandshakeFails, BridgeNext
<1>6. CASE Fault
  BY <1>6 DEF Fault, BridgeNext
<1>7. CASE UNCHANGED allVars
  BY <1>7 DEF allVars
<1> QED
  BY <1>2, <1>3, <1>4, <1>5, <1>6, <1>7 DEF Next

\* The tunnel tasks of the client, with all their strategies, timeouts and faults, do too.
THEOREM GamesSeeAStream == Spec => StreamSpec
<1>1. Init => BridgeInit
  BY DEF Init
<1>2. [Next]_allVars => [BridgeNext]_bridgeVars
  BY StrategiesDriveBridges
<1>3. Spec => BridgeSpec
  BY <1>1, <1>2, PTL DEF Spec, BridgeSpec
<1> QED
  BY <1>3, BridgesAreAStream

\* The invariant behind JoinerNotAlone: an ACK is only written by a host that goes on to
\* hand its stream to its bridge, and nothing takes the stream back.
HandshakeInv ==
  /\ TypeOK
  /\ hs # "off" => task["host"] = "bridge"
  /\ swap["join"] \in {"ready", "taken"} => ack
  /\ ack => \/ hs = "offer"
            \/ swap["host"] \in {"ready", "taken"}
            \/ phase["host"] = "done"

\* Only a bridge that drains fills its buffers, and it leaves them empty when it goes on.
LEMMA BuffersFlushedStep ==
  ASSUME BridgeTypeOK, BuffersFlushed, [BridgeNext]_bridgeVars
  PROVE  BuffersFlushed'
<1> USE DEF BuffersFlushed
<1>1. ASSUME UNCHANGED bufVars, \A e \in End : phase'[e] \in {phase[e], "drain", "flush", "done"}
      PROVE  BuffersFlushed'
  BY <1>1 DEF bufVars
<1>2. CASE \/ \E e \in End : \/ GameSends(e) \/ GameCloses(e) \/ ServerDrops(e)
                           \/ Offer(e) \/ Withdraw(e) \/ RelaySend(e) \/ WsToGame(e)
                           \/ QuicSend(e) \/ QuicReceive(e)
           \/ RelayBreaks \/ LinkBreaks \/ Connect \/ UNCHANGED bridgeVars
  <2>1. UNCHANGED <<bufVars, phase>>
    BY <1>2 DEF GameSends, GameCloses, ServerDrops, Offer, Withdraw, RelaySend, WsToGame, QuicSend,
                QuicReceive, RelayBreaks, LinkBreaks, Connect, bridgeVars, bufVars
  <2> QED
    BY <1>1, <2>1
<1>3. ASSUME NEW b \in End, Return(b) \/ Swap(b) \/ DrainOver(b)
      PROVE  BuffersFlushed'
  <2>1. UNCHANGED bufVars
    BY <1>3 DEF Return, Swap, DrainOver
  <2>2. \A e \in End : phase'[e] \in {phase[e], "drain", "flush", "done"}
    BY <1>3 DEF Return, Swap, DrainOver, Goto, BridgeTypeOK
  <2> QED
    BY <1>1, <2>1, <2>2
<1>4. ASSUME NEW b \in End, DrainQuic(b) \/ DrainTcp(b)
      PROVE  BuffersFlushed'
  BY <1>4 DEF DrainQuic, DrainTcp, Move, BridgeTypeOK
<1>5. ASSUME NEW b \in End, Flush(b)
      PROVE  BuffersFlushed'
  BY <1>5 DEF Flush, Goto, BridgeTypeOK
<1> QED
  BY <1>2, <1>3, <1>4, <1>5
     DEF BridgeNext, Games, Faults, Bridge, Abort, RelayReceive, RelayEof, RelayFails, DrainWs,
         FlushFails, QuicEof, QuicGone, WriteFails

\* Every step keeps the types.
LEMMA StrategyTypeStep ==
  ASSUME TypeOK, [Next]_allVars
  PROVE  TypeOK'
<1>1. BridgeTypeOK'
  <2>1. BridgeTypeOK /\ [BridgeNext]_bridgeVars
    BY StrategiesDriveBridges DEF TypeOK
  <2>2. CASE BridgeNext
    BY <2>1, <2>2, TypeStep
  <2>3. CASE UNCHANGED bridgeVars
    BY <2>1, <2>3 DEF bridgeVars, BridgeTypeOK
  <2> QED
    BY <2>1, <2>2, <2>3
<1>2. BuffersFlushed'
  BY StrategiesDriveBridges, BuffersFlushedStep DEF TypeOK
<1>3. StrategyTypeOK'
  <2> USE DEF TypeOK, StrategyTypeOK, strategyVars, raceVars, signalVars
  <2>1. CASE \/ \E e \in End : TunnelTask(e) \/ GameStep(e)
             \/ Fault \/ UNCHANGED allVars
    BY <2>1 DEF TunnelTask, SetupFails, BridgeStep, GameStep, Fault, allVars
  <2>2. CASE HostStarts \/ JoinStarts \/ UpnpMaps
    <3>1. CASE HostStarts \/ UpnpMaps
      BY <3>1 DEF HostStarts, UpnpMaps, End
    <3>2. CASE JoinStarts
      <4>1. PICK direct \in {"trying", "none"} : path' = [direct |-> direct, upnp |-> "waiting"]
        BY <3>2 DEF JoinStarts
      <4>2. path' \in [Path -> Attempt]
        BY <4>1 DEF Path, Attempt
      <4>3. /\ task' \in [End -> {"setup", "bridge"}] /\ js' = "race"
            /\ UNCHANGED <<hs, ready, ack, upnp>>
        BY <3>2 DEF JoinStarts, End
      <4> QED
        BY <4>2, <4>3
    <3> QED
      BY <2>2, <3>1, <3>2
  <2>3. CASE HostTask
    BY <2>3 DEF HostTask, HostBinds, HostBindFails, AcceptTimeout, HostStream,
                HostHandshakeFails, HostGivesUp, HostAcks, HostOffers
  <2>4. CASE JoinTask
    <3>1. CASE AddrArrives \/ SenderDropped \/ JoinAcked \/ JoinHandshakeFails
      BY <3>1 DEF AddrArrives, SenderDropped, JoinAcked, JoinHandshakeFails, Attempt
    <3>2. ASSUME NEW p \in Path, Connected(p) \/ TryFails(p)
          PROVE  StrategyTypeOK'
      BY <3>2 DEF Connected, TryFails, Attempt
    <3>3. ASSUME NEW p \in Path, TakeUp(p) \/ TakeFailed(p)
          PROVE  StrategyTypeOK'
      <4>1. path' \in [Path -> Attempt]
        BY <3>3 DEF TakeUp, TakeFailed, Take, Attempt
      <4> QED
        BY <3>3, <4>1 DEF TakeUp, TakeFailed
    <3> QED
      BY <2>4, <3>1, <3>2, <3>3 DEF JoinTask
  <2> QED
    BY <2>1, <2>2, <2>3, <2>4 DEF Next
<1> QED
  BY <1>1, <1>2, <1>3 DEF TypeOK

\* The invariant holds at the start, ...
LEMMA HandshakeInvInit == Init => HandshakeInv
<1> SUFFICES ASSUME Init
             PROVE  HandshakeInv
  OBVIOUS
<1>1. BridgeTypeOK
  BY TypeInit DEF Init
<1> QED
  BY <1>1 DEF Init, BridgeInit, HandshakeInv, TypeOK, BuffersFlushed, StrategyTypeOK, End, Path, Attempt

\* A bridge keeps the stream it has, and ends for good.
LEMMA BridgesKeep ==
  ASSUME BridgeTypeOK, NEW b \in End, Bridge(b) \/ Return(b) \/ GameSends(b) \/ GameCloses(b)
  PROVE  /\ \A e \in End : swap'[e] = swap[e] \/ (swap[e] = "ready" /\ swap'[e] = "taken")
         /\ \A e \in End : phase[e] = "done" => phase'[e] = "done"
<1> USE DEF BridgeTypeOK
<1>1. CASE GameSends(b) \/ GameCloses(b) \/ Return(b)
  BY <1>1 DEF GameSends, GameCloses, Return, Goto
<1>2. CASE Swap(b) \/ DrainOver(b)
  BY <1>2 DEF Swap, DrainOver, Goto
<1>3. CASE RelaySend(b) \/ WsToGame(b) \/ DrainQuic(b) \/ DrainTcp(b) \/ QuicSend(b) \/ QuicReceive(b)
  BY <1>3 DEF RelaySend, WsToGame, DrainQuic, DrainTcp, QuicSend, QuicReceive
<1>4. CASE Flush(b)
  BY <1>4 DEF Flush, Goto
<1> QED
  BY <1>1, <1>2, <1>3, <1>4
     DEF Bridge, RelayReceive, RelayEof, RelayFails, DrainWs, FlushFails, QuicEof, QuicGone, WriteFails

\* ... and every step keeps it.
LEMMA HandshakeInvStep ==
  ASSUME HandshakeInv, [Next]_allVars
  PROVE  HandshakeInv'
<1> USE DEF strategyVars, raceVars, signalVars
<1>1. TypeOK'
  BY StrategyTypeStep DEF HandshakeInv
<1>2. BridgeTypeOK /\ "host" \in End /\ "join" \in End
  BY DEF HandshakeInv, TypeOK, End
<1>3. ASSUME NEW b \in End,
             Bridge(b) \/ Return(b) \/ GameSends(b) \/ GameCloses(b), UNCHANGED strategyVars
      PROVE  HandshakeInv'
  <2>1. /\ \A e \in End : swap'[e] = swap[e] \/ (swap[e] = "ready" /\ swap'[e] = "taken")
        /\ \A e \in End : phase[e] = "done" => phase'[e] = "done"
    BY <1>2, <1>3, BridgesKeep
  <2> QED
    BY <1>1, <1>2, <1>3, <2>1 DEF HandshakeInv
<1>4. CASE \/ \E b \in End : ServerDrops(b) /\ UNCHANGED strategyVars
           \/ (RelayBreaks \/ LinkBreaks) /\ UNCHANGED strategyVars
           \/ UNCHANGED allVars
  <2>1. UNCHANGED <<hs, task, ack, swap, phase>>
    BY <1>4 DEF ServerDrops, RelayBreaks, LinkBreaks, strategyVars, allVars, bridgeVars
  <2> QED
    BY <1>1, <2>1 DEF HandshakeInv
<1>5. CASE HostStarts \/ JoinStarts \/ UpnpMaps
  BY <1>1, <1>5 DEF HandshakeInv, HostStarts, JoinStarts, UpnpMaps, bridgeVars, TypeOK,
                    StrategyTypeOK, End
<1>6. CASE HostBinds \/ HostStream \/ HostAcks
  BY <1>1, <1>6 DEF HandshakeInv, HostBinds, HostStream, HostAcks, bridgeVars
<1>7. CASE HostBindFails \/ AcceptTimeout \/ HostHandshakeFails
  BY <1>1, <1>2, <1>7 DEF HandshakeInv, HostBindFails, AcceptTimeout, HostHandshakeFails,
                          HostGivesUp, Withdraw, BridgeTypeOK
<1>8. CASE HostOffers
  BY <1>1, <1>2, <1>8 DEF HandshakeInv, HostOffers, Offer, BridgeTypeOK
<1>9. CASE AddrArrives \/ SenderDropped \/ \E p \in Path : TryFails(p) \/ TakeUp(p) \/ Connected(p)
  BY <1>1, <1>9 DEF HandshakeInv, AddrArrives, SenderDropped, TryFails, TakeUp, Connected,
                    Connect, bridgeVars
<1>10. CASE (\E p \in Path : TakeFailed(p)) \/ JoinHandshakeFails \/ JoinAcked
  BY <1>1, <1>2, <1>10 DEF HandshakeInv, TakeFailed, JoinHandshakeFails, JoinAcked, Withdraw,
                           Offer, BridgeTypeOK
<1> QED
  BY <1>3, <1>4, <1>5, <1>6, <1>7, <1>8, <1>9, <1>10
     DEF Next, TunnelTask, SetupFails, BridgeStep, GameStep, Fault, Faults, Abort, HostTask, JoinTask

\* Every variable of the bridges and of the strategies keeps its type, and a bridge that is
\* not draining has nothing in its buffers.
THEOREM StrategiesTypes == Spec => []TypeOK
<1>1. HandshakeInv => TypeOK
  BY DEF HandshakeInv
<1> QED
  BY <1>1, HandshakeInvInit, HandshakeInvStep, PTL DEF Spec

\* The handshake: the bridge of the joiner is never given the QUIC stream when the one of
\* the host is not, unless that one has ended.
THEOREM JoinerHasCompany == Spec => []JoinerNotAlone
<1>1. HandshakeInv => JoinerNotAlone
  BY DEF HandshakeInv, JoinerNotAlone
<1> QED
  BY <1>1, HandshakeInvInit, HandshakeInvStep, PTL DEF Spec

(***************************************************************************)
(* Nothing vanishes, and a gap has a cause.                                *)
(***************************************************************************)
\* The chunks of a queue that has grown by one, ...
LEMMA ChunksAppend ==
  ASSUME NEW s \in Seq(Chunk), NEW x \in Chunk
  PROVE  Chunks(Append(s, x)) = Chunks(s) \cup {x}
<1> DEFINE t == Append(s, x)
<1>1. /\ Len(s) \in Nat /\ DOMAIN s = 1..Len(s) /\ DOMAIN t = 1..(Len(s) + 1)
      /\ t[Len(s) + 1] = x /\ \A i \in 1..Len(s) : t[i] = s[i]
  BY AppendProperties, LenProperties
<1> HIDE DEF t
<1>2. \A i \in 1..(Len(s) + 1) : i \in 1..Len(s) \/ i = Len(s) + 1
  BY <1>1
<1>3. Len(s) + 1 \in 1..(Len(s) + 1) /\ \A i \in 1..Len(s) : i \in 1..(Len(s) + 1)
  BY <1>1
<1>4. Chunks(t) = Chunks(s) \cup {x}
  BY <1>1, <1>2, <1>3 DEF Chunks
<1> QED
  BY <1>4 DEF t

\* ... of two queues in one, ...
LEMMA ChunksConcat ==
  ASSUME NEW s \in Seq(Chunk), NEW r \in Seq(Chunk)
  PROVE  Chunks(s \o r) = Chunks(s) \cup Chunks(r)
<1> DEFINE t == s \o r
<1>1. /\ Len(s) \in Nat /\ Len(r) \in Nat
      /\ DOMAIN s = 1..Len(s) /\ DOMAIN r = 1..Len(r) /\ DOMAIN t = 1..(Len(s) + Len(r))
      /\ \A i \in 1..(Len(s) + Len(r)) : t[i] = IF i <= Len(s) THEN s[i] ELSE r[i - Len(s)]
  BY ConcatProperties, LenProperties
<1> HIDE DEF t
<1>2. ASSUME NEW i \in 1..(Len(s) + Len(r))
      PROVE  t[i] \in Chunks(s) \cup Chunks(r)
  <2>1. CASE i <= Len(s)
    BY <1>1, <2>1 DEF Chunks
  <2>2. CASE ~(i <= Len(s))
    <3>1. i - Len(s) \in 1..Len(r) /\ t[i] = r[i - Len(s)]
      BY <1>1, <2>2
    <3> QED
      BY <1>1, <3>1 DEF Chunks
  <2> QED
    BY <2>1, <2>2
<1>3. ASSUME NEW i \in 1..Len(s)
      PROVE  s[i] \in Chunks(t)
  <2>1. i \in 1..(Len(s) + Len(r)) /\ t[i] = s[i]
    BY <1>1
  <2> QED
    BY <1>1, <2>1 DEF Chunks
<1>4. ASSUME NEW i \in 1..Len(r)
      PROVE  r[i] \in Chunks(t)
  <2>1. i + Len(s) \in 1..(Len(s) + Len(r)) /\ ~(i + Len(s) <= Len(s)) /\ i + Len(s) - Len(s) = i
    BY <1>1
  <2>2. t[i + Len(s)] = r[i]
    BY <1>1, <2>1
  <2> QED
    BY <1>1, <2>1, <2>2 DEF Chunks
<1>5. Chunks(t) = Chunks(s) \cup Chunks(r)
  BY <1>1, <1>2, <1>3, <1>4 DEF Chunks
<1> QED
  BY <1>5 DEF t

\* ... of a single chunk, of none, ...
LEMMA ChunksFew ==
  Chunks(<<>>) = {} /\ \A x \in Chunk : <<x>> \in Seq(Chunk) /\ Chunks(<<x>>) = {x}
<1>1. Chunks(<<>>) = {}
  BY DEF Chunks
<1>2. ASSUME NEW x \in Chunk
      PROVE  <<x>> \in Seq(Chunk) /\ Chunks(<<x>>) = {x}
  BY DEF Chunks
<1> QED
  BY <1>1, <1>2

\* ... of a queue whose head has been taken, ...
LEMMA ChunksTail ==
  ASSUME NEW s \in Seq(Chunk), s # <<>>
  PROVE  /\ Head(s) \in Chunk /\ Tail(s) \in Seq(Chunk)
         /\ Chunks(s) = {Head(s)} \cup Chunks(Tail(s))
<1>1. Head(s) \in Chunk /\ Tail(s) \in Seq(Chunk)
  BY HeadTailProperties
<1>2. <<Head(s)>> \in Seq(Chunk) /\ Chunks(<<Head(s)>>) = {Head(s)}
  BY <1>1, ChunksFew
<1>3. <<Head(s)>> \o Tail(s) = s
  BY <1>1, HeadTailProperties, ConcatProperties, SeqEqual
<1> QED
  BY <1>1, <1>2, <1>3, ChunksConcat

\* ... and of one that has lost a chunk.
LEMMA ChunksDrop ==
  ASSUME NEW s \in Seq(Chunk), NEW i \in 1..Len(s)
  PROVE  Chunks(s) = Chunks(SubSeq(s, 1, i - 1) \o SubSeq(s, i + 1, Len(s))) \cup {s[i]}
<1> DEFINE a == SubSeq(s, 1, i - 1)
           b == SubSeq(s, i + 1, Len(s))
           m == <<s[i]>>
<1>1. a \in Seq(Chunk) /\ b \in Seq(Chunk) /\ m \in Seq(Chunk) /\ s[i] \in Chunk /\ s = a \o (m \o b)
  BY DropParts
<1>2. Chunks(m) = {s[i]}
  BY <1>1, ChunksFew
<1> HIDE DEF a, b, m
<1>3. m \o b \in Seq(Chunk) /\ Chunks(m \o b) = Chunks(m) \cup Chunks(b)
  BY <1>1, ConcatProperties, ChunksConcat
<1>4. Chunks(a \o (m \o b)) = Chunks(a) \cup Chunks(m \o b)
  BY <1>1, <1>3, ChunksConcat
<1>5. Chunks(a \o b) = Chunks(a) \cup Chunks(b)
  BY <1>1, ChunksConcat
<1>6. Chunks(s) = Chunks(a \o b) \cup {s[i]}
  BY <1>1, <1>2, <1>3, <1>4, <1>5
<1> QED
  BY <1>6 DEF a, b

\* A move takes a chunk from one queue and gives it to another.
LEMMA ChunksMove ==
  \A q, r \in Seq(Chunk) :
    q # <<>> => Chunks(Tail(q)) \cup Chunks(Append(r, Head(q))) = Chunks(q) \cup Chunks(r)
<1> SUFFICES ASSUME NEW q \in Seq(Chunk), NEW r \in Seq(Chunk), q # <<>>
             PROVE  Chunks(Tail(q)) \cup Chunks(Append(r, Head(q))) = Chunks(q) \cup Chunks(r)
  OBVIOUS
<1>1. Head(q) \in Chunk /\ Chunks(q) = {Head(q)} \cup Chunks(Tail(q))
  BY ChunksTail
<1>2. Chunks(Append(r, Head(q))) = Chunks(r) \cup {Head(q)}
  BY <1>1, ChunksAppend
<1> QED
  BY <1>1, <1>2

\* Where the chunks that the game at e has sent can be.
Kept(e) ==
  Chunks(tcp[e]) \cup Chunks(ws[e]) \cup Chunks(tbuf[e]) \cup Chunks(quic[e])
    \cup Chunks(qbuf[Other(e)]) \cup Chunks(got[Other(e)]) \cup dropped[e]

\* The invariant behind NothingVanishes: it holds in the end, too, as a bridge that
\* returns leaves what it has not passed on where it is.
Accounted == \A e \in End : 1..sent[e] = Kept(e)

\* A step that moves no chunk.
LEMMA KeptUnmoved ==
  ASSUME Accounted, UNCHANGED <<sent, tcp, ws, tbuf, quic, qbuf, got, dropped>>
  PROVE  Accounted'
  BY DEF Accounted, Kept, Chunks

\* GameSends: the new chunk is with the bridge.
LEMMA KeptSent ==
  ASSUME BridgeTypeOK, Accounted, NEW b \in End, GameSends(b)
  PROVE  Accounted'
<1> SUFFICES ASSUME NEW e \in End
             PROVE  1..sent'[e] = Kept(e)'
  BY DEF Accounted
<1>1. 1..sent[e] = Kept(e)
  BY DEF Accounted
<1>2. UNCHANGED <<ws, tbuf, quic, qbuf, got, dropped>>
  BY DEF GameSends
<1>3. CASE e # b
  <2>1. sent'[e] = sent[e] /\ tcp'[e] = tcp[e]
    BY <1>3 DEF GameSends, BridgeTypeOK
  <2> QED
    BY <1>1, <1>2, <2>1 DEF Kept, Chunks
<1>4. CASE e = b
  <2>1. sent[e] \in Nat /\ tcp[e] \in Seq(Chunk) /\ sent[e] + 1 \in Chunk
    BY DEF BridgeTypeOK, Chunk
  <2>2. sent'[e] = sent[e] + 1 /\ tcp'[e] = Append(tcp[e], sent[e] + 1)
    BY <1>4 DEF GameSends, BridgeTypeOK
  <2>3. Chunks(tcp'[e]) = Chunks(tcp[e]) \cup {sent[e] + 1}
    BY <2>1, <2>2, ChunksAppend
  <2>4. 1..sent'[e] = 1..sent[e] \cup {sent[e] + 1}
    BY <2>1, <2>2
  <2>5. Kept(e)' = Kept(e) \cup {sent[e] + 1}
    <3>1. Kept(e)' = Chunks(tcp'[e]) \cup Chunks(ws[e]) \cup Chunks(tbuf[e]) \cup Chunks(quic[e])
                       \cup Chunks(qbuf[Other(e)]) \cup Chunks(got[Other(e)]) \cup dropped[e]
      BY <1>2 DEF Kept, Chunks
    <3> QED
      BY <2>3, <3>1, Zenon DEF Kept
  <2> QED
    BY <1>1, <2>4, <2>5
<1> QED
  BY <1>3, <1>4

\* ServerDrops: the chunk is among those that were dropped.
LEMMA KeptDropped ==
  ASSUME BridgeTypeOK, Accounted, NEW b \in End, ServerDrops(b)
  PROVE  Accounted'
<1> SUFFICES ASSUME NEW e \in End
             PROVE  1..sent'[e] = Kept(e)'
  BY DEF Accounted
<1>1. 1..sent[e] = Kept(e)
  BY DEF Accounted
<1>2. UNCHANGED <<sent, tcp, tbuf, quic, qbuf, got>>
  BY DEF ServerDrops
<1>3. Kept(e)' = Chunks(tcp[e]) \cup Chunks(ws'[e]) \cup Chunks(tbuf[e]) \cup Chunks(quic[e])
                   \cup Chunks(qbuf[Other(e)]) \cup Chunks(got[Other(e)]) \cup dropped'[e]
  BY <1>2 DEF Kept, Chunks
<1>4. Chunks(ws'[e]) \cup dropped'[e] = Chunks(ws[e]) \cup dropped[e]
  <2>1. PICK i \in 1..Len(ws[b]) :
          /\ dropped' = [dropped EXCEPT ![b] = @ \cup {ws[b][i]}]
          /\ ws' = [ws EXCEPT ![b] = SubSeq(@, 1, i - 1) \o SubSeq(@, i + 1, Len(@))]
    BY DEF ServerDrops
  <2>2. CASE e # b
    BY <2>1, <2>2 DEF BridgeTypeOK
  <2>3. CASE e = b
    <3>1. dropped'[e] = dropped[e] \cup {ws[e][i]}
      BY <2>1, <2>3 DEF BridgeTypeOK
    <3>2. ws'[e] = SubSeq(ws[e], 1, i - 1) \o SubSeq(ws[e], i + 1, Len(ws[e]))
      BY <2>1, <2>3 DEF BridgeTypeOK
    <3>3. ws[e] \in Seq(Chunk) /\ i \in 1..Len(ws[e])
      BY <2>3 DEF BridgeTypeOK
    <3>4. Chunks(ws[e]) = Chunks(ws'[e]) \cup {ws[e][i]}
      BY <3>2, <3>3, ChunksDrop
    <3> QED
      BY <3>1, <3>4
  <2> QED
    BY <2>2, <2>3
<1> QED
  BY <1>1, <1>2, <1>3, <1>4 DEF Kept

\* A chunk moves on between two places of its way: what one has lost the other has got.
LEMMA KeptMoves ==
  ASSUME BridgeTypeOK, Accounted, NEW b \in End,
         \/ RelaySend(b) \/ WsToGame(b) \/ DrainQuic(b) \/ DrainTcp(b)
         \/ QuicSend(b) \/ QuicReceive(b)
  PROVE  Accounted'
<1> USE DEF Move
<1> SUFFICES ASSUME NEW e \in End
             PROVE  1..sent'[e] = Kept(e)'
  BY DEF Accounted
<1>1. 1..sent[e] = Kept(e)
  BY DEF Accounted
<1>2. Other(b) \in End /\ Other(e) \in End /\ Other(b) # b /\ Other(e) # e /\ Other(Other(b)) = b
      /\ (e = b \/ (e = Other(b) /\ Other(e) = b))
  BY EndOther
<1>3. /\ tcp[e] \in Seq(Chunk) /\ ws[e] \in Seq(Chunk) /\ tbuf[e] \in Seq(Chunk)
       /\ quic[e] \in Seq(Chunk)
       /\ qbuf[Other(e)] \in Seq(Chunk) /\ got[Other(e)] \in Seq(Chunk)
  BY <1>2 DEF BridgeTypeOK
<1>4. UNCHANGED <<sent, dropped>>
  BY DEF RelaySend, WsToGame, DrainQuic, DrainTcp, QuicSend, QuicReceive
<1>5. CASE RelaySend(b)
  <2>1. UNCHANGED <<tbuf, quic, qbuf, got>>
    BY <1>5 DEF RelaySend
  <2>2. Chunks(tcp'[e]) \cup Chunks(ws'[e]) = Chunks(tcp[e]) \cup Chunks(ws[e])
    <3>1. CASE e # b
      BY <1>5, <3>1 DEF RelaySend, BridgeTypeOK, Chunks
    <3>2. CASE e = b
      <4>1. tcp'[e] = Tail(tcp[e]) /\ ws'[e] = Append(ws[e], Head(tcp[e])) /\ tcp[e] # <<>>
        BY <1>5, <3>2 DEF RelaySend, BridgeTypeOK
      <4> QED
        BY <1>2, <1>3, <4>1, ChunksMove
    <3> QED
      BY <3>1, <3>2
  <2>3. Kept(e)' = Chunks(tcp'[e]) \cup Chunks(ws'[e]) \cup Chunks(tbuf[e]) \cup Chunks(quic[e])
                     \cup Chunks(qbuf[Other(e)]) \cup Chunks(got[Other(e)]) \cup dropped[e]
    BY <1>4, <2>1 DEF Kept, Chunks
  <2> QED
    BY <1>1, <1>4, <2>2, <2>3 DEF Kept
<1>6. CASE WsToGame(b)
  <2>1. UNCHANGED <<tcp, tbuf, quic, qbuf>>
    BY <1>6 DEF WsToGame
  <2>2. Chunks(ws'[e]) \cup Chunks(got'[Other(e)]) = Chunks(ws[e]) \cup Chunks(got[Other(e)])
    <3>1. CASE e = b
      BY <1>2, <1>6, <3>1 DEF WsToGame, BridgeTypeOK, Chunks
    <3>2. CASE e = Other(b) /\ Other(e) = b
      <4>1. /\ ws'[e] = Tail(ws[e]) /\ got'[Other(e)] = Append(got[Other(e)], Head(ws[e]))
            /\ ws[e] # <<>>
        BY <1>6, <3>2 DEF WsToGame, BridgeTypeOK
      <4> QED
        BY <1>2, <1>3, <4>1, ChunksMove
    <3> QED
      BY <1>2, <3>1, <3>2
  <2>3. Kept(e)' = Chunks(tcp[e]) \cup Chunks(ws'[e]) \cup Chunks(tbuf[e]) \cup Chunks(quic[e])
                     \cup Chunks(qbuf[Other(e)]) \cup Chunks(got'[Other(e)]) \cup dropped[e]
    BY <1>4, <2>1 DEF Kept, Chunks
  <2> QED
    BY <1>1, <1>4, <2>2, <2>3 DEF Kept
<1>7. CASE DrainQuic(b)
  <2>1. UNCHANGED <<tcp, ws, tbuf, got>>
    BY <1>7 DEF DrainQuic
  <2>2. Chunks(quic'[e]) \cup Chunks(qbuf'[Other(e)]) = Chunks(quic[e]) \cup Chunks(qbuf[Other(e)])
    <3>1. CASE e = b
      BY <1>2, <1>7, <3>1 DEF DrainQuic, BridgeTypeOK, Chunks
    <3>2. CASE e = Other(b) /\ Other(e) = b
      <4>1. /\ quic'[e] = Tail(quic[e]) /\ qbuf'[Other(e)] = Append(qbuf[Other(e)], Head(quic[e]))
            /\ quic[e] # <<>>
        BY <1>7, <3>2 DEF DrainQuic, BridgeTypeOK
      <4> QED
        BY <1>2, <1>3, <4>1, ChunksMove
    <3> QED
      BY <1>2, <3>1, <3>2
  <2>3. Kept(e)' = Chunks(tcp[e]) \cup Chunks(ws[e]) \cup Chunks(tbuf[e]) \cup Chunks(quic'[e])
                     \cup Chunks(qbuf'[Other(e)]) \cup Chunks(got[Other(e)]) \cup dropped[e]
    BY <1>4, <2>1 DEF Kept, Chunks
  <2> QED
    BY <1>1, <1>4, <2>2, <2>3 DEF Kept
<1>8. CASE DrainTcp(b)
  <2>1. UNCHANGED <<ws, quic, qbuf, got>>
    BY <1>8 DEF DrainTcp
  <2>2. Chunks(tcp'[e]) \cup Chunks(tbuf'[e]) = Chunks(tcp[e]) \cup Chunks(tbuf[e])
    <3>1. CASE e # b
      BY <1>8, <3>1 DEF DrainTcp, BridgeTypeOK, Chunks
    <3>2. CASE e = b
      <4>1. tcp'[e] = Tail(tcp[e]) /\ tbuf'[e] = Append(tbuf[e], Head(tcp[e])) /\ tcp[e] # <<>>
        BY <1>8, <3>2 DEF DrainTcp, BridgeTypeOK
      <4> QED
        BY <1>2, <1>3, <4>1, ChunksMove
    <3> QED
      BY <3>1, <3>2
  <2>3. Kept(e)' = Chunks(tcp'[e]) \cup Chunks(ws[e]) \cup Chunks(tbuf'[e]) \cup Chunks(quic[e])
                     \cup Chunks(qbuf[Other(e)]) \cup Chunks(got[Other(e)]) \cup dropped[e]
    BY <1>4, <2>1 DEF Kept, Chunks
  <2> QED
    BY <1>1, <1>4, <2>2, <2>3 DEF Kept
<1>9. CASE QuicSend(b)
  <2>1. UNCHANGED <<ws, tbuf, qbuf, got>>
    BY <1>9 DEF QuicSend
  <2>2. Chunks(tcp'[e]) \cup Chunks(quic'[e]) = Chunks(tcp[e]) \cup Chunks(quic[e])
    <3>1. CASE e # b
      BY <1>9, <3>1 DEF QuicSend, BridgeTypeOK, Chunks
    <3>2. CASE e = b
      <4>1. tcp'[e] = Tail(tcp[e]) /\ quic'[e] = Append(quic[e], Head(tcp[e])) /\ tcp[e] # <<>>
        BY <1>9, <3>2 DEF QuicSend, BridgeTypeOK
      <4> QED
        BY <1>2, <1>3, <4>1, ChunksMove
    <3> QED
      BY <3>1, <3>2
  <2>3. Kept(e)' = Chunks(tcp'[e]) \cup Chunks(ws[e]) \cup Chunks(tbuf[e]) \cup Chunks(quic'[e])
                     \cup Chunks(qbuf[Other(e)]) \cup Chunks(got[Other(e)]) \cup dropped[e]
    BY <1>4, <2>1 DEF Kept, Chunks
  <2> QED
    BY <1>1, <1>4, <2>2, <2>3 DEF Kept
<1>10. CASE QuicReceive(b)
  <2>1. UNCHANGED <<tcp, ws, tbuf, qbuf>>
    BY <1>10 DEF QuicReceive
  <2>2. Chunks(quic'[e]) \cup Chunks(got'[Other(e)]) = Chunks(quic[e]) \cup Chunks(got[Other(e)])
    <3>1. CASE e = b
      <4>1. quic'[e] = quic[e] /\ got'[Other(e)] = got[Other(e)]
        BY <1>2, <1>10, <3>1 DEF QuicReceive, BridgeTypeOK
      <4> QED
        BY <4>1 DEF Chunks
    <3>2. CASE e = Other(b) /\ Other(e) = b
      <4>1. /\ quic'[e] = Tail(quic[e]) /\ got'[Other(e)] = Append(got[Other(e)], Head(quic[e]))
            /\ quic[e] # <<>>
        BY <1>10, <3>2 DEF QuicReceive, BridgeTypeOK
      <4> QED
        BY <1>2, <1>3, <4>1, ChunksMove
    <3> QED
      BY <1>2, <3>1, <3>2
  <2>3. Kept(e)' = Chunks(tcp[e]) \cup Chunks(ws[e]) \cup Chunks(tbuf[e]) \cup Chunks(quic'[e])
                     \cup Chunks(qbuf[Other(e)]) \cup Chunks(got'[Other(e)]) \cup dropped[e]
    BY <1>4, <2>1 DEF Kept, Chunks
  <2> QED
    BY <1>1, <1>4, <2>2, <2>3 DEF Kept
<1> QED
  BY <1>5, <1>6, <1>7, <1>8, <1>9, <1>10

\* Flush: both buffers are passed on.
LEMMA KeptFlushed ==
  ASSUME BridgeTypeOK, Accounted, NEW b \in End, Flush(b)
  PROVE  Accounted'
<1> SUFFICES ASSUME NEW e \in End
             PROVE  1..sent'[e] = Kept(e)'
  BY DEF Accounted
<1>1. 1..sent[e] = Kept(e)
  BY DEF Accounted
<1>2. Other(e) \in End /\ Other(e) # e /\ (e = b \/ (e # b /\ Other(e) = b))
  BY EndOther
<1>3. UNCHANGED <<sent, tcp, ws, dropped>>
  BY DEF Flush
<1>4. Chunks(<<>>) = {}
  BY ChunksFew
<1>5. Chunks(quic'[e]) \cup Chunks(tbuf'[e]) = Chunks(quic[e]) \cup Chunks(tbuf[e])
  <2>1. CASE e # b
    BY <2>1 DEF Flush, BridgeTypeOK, Chunks
  <2>2. CASE e = b
    <3>1. quic'[e] = quic[e] \o tbuf[e] /\ tbuf'[e] = <<>>
      BY <2>2 DEF Flush, BridgeTypeOK
    <3>2. quic[e] \in Seq(Chunk) /\ tbuf[e] \in Seq(Chunk)
      BY DEF BridgeTypeOK
    <3> QED
      BY <1>4, <3>1, <3>2, ChunksConcat
  <2> QED
    BY <2>1, <2>2
<1>6. Chunks(got'[Other(e)]) \cup Chunks(qbuf'[Other(e)]) = Chunks(got[Other(e)]) \cup Chunks(qbuf[Other(e)])
  <2>1. CASE e = b
    BY <1>2, <2>1 DEF Flush, BridgeTypeOK, Chunks
  <2>2. CASE Other(e) = b
    <3>1. got'[Other(e)] = got[Other(e)] \o qbuf[Other(e)] /\ qbuf'[Other(e)] = <<>>
      BY <2>2 DEF Flush, BridgeTypeOK
    <3>2. got[Other(e)] \in Seq(Chunk) /\ qbuf[Other(e)] \in Seq(Chunk)
      BY <1>2 DEF BridgeTypeOK
    <3> QED
      BY <1>4, <3>1, <3>2, ChunksConcat
  <2> QED
    BY <1>2, <2>1, <2>2
<1>7. Kept(e)' = Chunks(tcp[e]) \cup Chunks(ws[e]) \cup Chunks(tbuf'[e]) \cup Chunks(quic'[e])
                   \cup Chunks(qbuf'[Other(e)]) \cup Chunks(got'[Other(e)]) \cup dropped[e]
  BY <1>3 DEF Kept, Chunks
<1> QED
  BY <1>1, <1>3, <1>5, <1>6, <1>7 DEF Kept

\* Every step accounts for what it moves.
LEMMA AccountedStep ==
  ASSUME BridgeTypeOK, Accounted, [BridgeNext]_bridgeVars
  PROVE  Accounted'
<1>1. CASE \/ \E b \in End : GameCloses(b) \/ Offer(b) \/ Withdraw(b)
           \/ RelayBreaks \/ LinkBreaks \/ Connect
           \/ UNCHANGED bridgeVars
  <2>1. UNCHANGED <<sent, tcp, ws, tbuf, quic, qbuf, got, dropped>>
    BY <1>1 DEF GameCloses, Offer, Withdraw, RelayBreaks, LinkBreaks, Connect, bridgeVars
  <2> QED
    BY <2>1, KeptUnmoved
<1>2. CASE \E b \in End : Return(b) \/ Swap(b) \/ DrainOver(b)
  <2>1. UNCHANGED <<sent, tcp, ws, tbuf, quic, qbuf, got, dropped>>
    BY <1>2 DEF Return, Swap, DrainOver
  <2> QED
    BY <2>1, KeptUnmoved
<1>3. ASSUME NEW b \in End,
             \/ RelaySend(b) \/ WsToGame(b) \/ DrainQuic(b) \/ DrainTcp(b)
             \/ QuicSend(b) \/ QuicReceive(b)
      PROVE  Accounted'
  BY <1>3, KeptMoves
<1> QED
  BY <1>1, <1>2, <1>3, KeptSent, KeptDropped, KeptFlushed
     DEF BridgeNext, Games, Faults, Bridge, Abort, RelayReceive, RelayEof, RelayFails, DrainWs,
         FlushFails, QuicEof, QuicGone, WriteFails

\* Nothing has been sent at the start.
LEMMA AccountedInit == BridgeInit => Accounted
<1> SUFFICES ASSUME BridgeInit, NEW e \in End
             PROVE  1..sent[e] = Kept(e)
  BY DEF Accounted
<1>1. Other(e) \in End /\ Chunks(<<>>) = {}
  BY EndOther, ChunksFew
<1>2. /\ sent[e] = 0 /\ tcp[e] = <<>> /\ ws[e] = <<>> /\ tbuf[e] = <<>> /\ quic[e] = <<>>
      /\ qbuf[Other(e)] = <<>> /\ got[Other(e)] = <<>> /\ dropped[e] = {}
  BY <1>1 DEF BridgeInit
<1>3. 1..0 = {}
  OBVIOUS
<1> QED
  BY <1>1, <1>2, <1>3, Zenon DEF Kept

\* Of two parts of a stream that is in order, the chunks of the first are the lesser.
LEMMA OrderedApart ==
  ASSUME NEW a \in Seq(Chunk), NEW b \in Seq(Chunk), NEW n, Ordered(a \o b, n)
  PROVE  \A j \in Chunks(a), k \in Chunks(b) : j < k
<1> SUFFICES ASSUME NEW j \in Chunks(a), NEW k \in Chunks(b)
             PROVE  j < k
  OBVIOUS
<1>1. /\ Len(a) \in Nat /\ Len(b) \in Nat /\ DOMAIN a = 1..Len(a) /\ DOMAIN b = 1..Len(b)
      /\ Len(a \o b) = Len(a) + Len(b)
      /\ \A i \in 1..(Len(a) + Len(b)) : (a \o b)[i] = IF i <= Len(a) THEN a[i] ELSE b[i - Len(a)]
  BY ConcatProperties, LenProperties
<1>2. PICK p \in 1..Len(a), q \in 1..Len(b) : j = a[p] /\ k = b[q]
  BY <1>1 DEF Chunks
<1>3. (a \o b)[p] = j
  BY <1>1, <1>2
<1>4. q + Len(a) \in 1..(Len(a) + Len(b)) /\ ~(q + Len(a) <= Len(a)) /\ q + Len(a) - Len(a) = q
  BY <1>1
<1>5. (a \o b)[q + Len(a)] = k
  BY <1>1, <1>2, <1>4
<1>6. p \in 1..Len(a \o b) /\ q + Len(a) \in 1..Len(a \o b) /\ p < q + Len(a)
  BY <1>1, <1>4
<1> QED
  BY <1>3, <1>5, <1>6 DEF Ordered, Stream!Increasing

\* What is on its way behind what the relay still holds.
Behind(e) == Chunks(qbuf[Other(e)]) \cup Chunks(quic[e]) \cup Chunks(tbuf[e]) \cup Chunks(tcp[e])

\* What the game has received comes before everything that is behind it on the line.
LEMMA GotIsBefore ==
  ASSUME BridgeInv, NEW e \in End
  PROVE  \A j \in Chunks(got[Other(e)]), k \in Chunks(Live(e)) \cup Behind(e) : j < k
<1> HIDE DEF Live
<1>1. /\ got[Other(e)] \in Seq(Chunk) /\ Live(e) \in Seq(Chunk) /\ qbuf[Other(e)] \in Seq(Chunk)
      /\ quic[e] \in Seq(Chunk) /\ tbuf[e] \in Seq(Chunk) /\ tcp[e] \in Seq(Chunk)
  BY LineParts DEF BridgeInv
<1> DEFINE s == tbuf[e] \o tcp[e]
           t == quic[e] \o s
           u == qbuf[Other(e)] \o t
           v == Live(e) \o u
<1>2. s \in Seq(Chunk) /\ Chunks(s) = Chunks(tbuf[e]) \cup Chunks(tcp[e])
  BY <1>1, ConcatProperties, ChunksConcat
<1> HIDE DEF s
<1>3. t \in Seq(Chunk) /\ Chunks(t) = Chunks(quic[e]) \cup Chunks(s)
  BY <1>1, <1>2, ConcatProperties, ChunksConcat
<1> HIDE DEF t
<1>4. u \in Seq(Chunk) /\ Chunks(u) = Chunks(qbuf[Other(e)]) \cup Chunks(t)
  BY <1>1, <1>3, ConcatProperties, ChunksConcat
<1> HIDE DEF u
<1>5. v \in Seq(Chunk) /\ Chunks(v) = Chunks(Live(e)) \cup Chunks(u)
  BY <1>1, <1>4, ConcatProperties, ChunksConcat
<1>6. Line(e) = got[Other(e)] \o v
  BY Zenon DEF Line, Joined, s, t, u, v
<1>7. Ordered(Line(e), sent[e])
  BY DEF BridgeInv
<1> HIDE DEF v
<1>8. \A j \in Chunks(got[Other(e)]), k \in Chunks(v) : j < k
  BY <1>1, <1>5, <1>6, <1>7, OrderedApart
<1>9. Chunks(v) = Chunks(Live(e)) \cup Behind(e)
  BY <1>2, <1>3, <1>4, <1>5 DEF Behind
<1> QED
  BY <1>8, <1>9

\* The bridge of e has left the relay and has not yet written its buffers: what it left
\* there comes after everything it has passed on.
LeftBehind ==
  \A e \in End : phase[Other(e)] = "flush" =>
    \A j \in Chunks(got[Other(e)]), k \in Chunks(ws[e]) : j < k

\* Up to the end of the flush nothing on the relay comes before what was passed on.
LEMMA RelayAfter ==
  ASSUME BridgeInv, LeftBehind, NEW e \in End, phase[Other(e)] \in {"relay", "drain", "flush"}
  PROVE  \A j \in Chunks(got[Other(e)]), k \in Chunks(ws[e]) : j < k
<1>1. CASE phase[Other(e)] \in {"relay", "drain"}
  BY <1>1, GotIsBefore DEF Live
<1>2. CASE phase[Other(e)] = "flush"
  BY <1>2 DEF LeftBehind
<1> QED
  BY <1>1, <1>2

\* What a step to or in the flush does: it passes nothing on, and what it adds to the
\* relay comes from the other game.
LEMMA FlushWaits ==
  ASSUME BridgeInv, [BridgeNext]_bridgeVars, NEW e \in End, phase'[Other(e)] = "flush"
  PROVE  /\ phase[Other(e)] \in {"drain", "flush"}
         /\ got'[Other(e)] = got[Other(e)]
         /\ Chunks(ws'[e]) \subseteq Chunks(ws[e]) \cup Chunks(tcp[e])
<1> USE DEF Move
<1>1. BridgeTypeOK /\ Other(e) \in End /\ Other(e) # e /\ Other(Other(e)) = e
      /\ \A b \in End : b = e \/ (b = Other(e) /\ b # e)
  BY EndOther DEF BridgeInv
<1> USE DEF BridgeTypeOK
<1>2. CASE UNCHANGED <<phase, got, ws>>
  BY <1>1, <1>2 DEF Chunks
<1>3. CASE \E b \in End : Return(b) \/ Swap(b) \/ DrainOver(b) \/ Flush(b)
  <2>1. PICK b \in End : Return(b) \/ Swap(b) \/ DrainOver(b) \/ Flush(b)
    BY <1>3
  <2>2. UNCHANGED ws /\ phase[Other(e)] \in {"drain", "flush"}
    BY <1>1, <2>1 DEF Return, Swap, DrainOver, Flush, Goto
  <2>3. got'[Other(e)] = got[Other(e)]
    BY <1>1, <2>1 DEF Return, Swap, DrainOver, Flush, Goto
  <2> QED
    BY <2>2, <2>3 DEF Chunks
<1>4. CASE \E b \in End : (phase[b] \in {"relay", "drain"} /\ WsToGame(b)) \/ QuicReceive(b)
  <2>1. PICK b \in End : (phase[b] \in {"relay", "drain"} /\ WsToGame(b)) \/ QuicReceive(b)
    BY <1>4
  <2>2. UNCHANGED phase /\ phase[b] # "flush" /\ b # Other(e)
    BY <2>1 DEF WsToGame, QuicReceive
  <2>3. b = e
    BY <1>1, <2>2
  <2>4. got'[Other(e)] = got[Other(e)] /\ ws'[e] = ws[e]
    BY <1>1, <2>1, <2>3 DEF WsToGame, QuicReceive
  <2> QED
    BY <2>2, <2>4 DEF Chunks
<1>5. CASE \E b \in End : RelaySend(b)
  <2>1. PICK b \in End : RelaySend(b)
    BY <1>5
  <2>2. UNCHANGED <<phase, got>>
    BY <2>1 DEF RelaySend
  <2>3. CASE b # e
    BY <2>1, <2>2, <2>3 DEF RelaySend, Chunks
  <2>4. CASE b = e
    <3>1. tcp[e] # <<>> /\ ws'[e] = Append(ws[e], Head(tcp[e])) /\ tcp[e] \in Seq(Chunk) /\ ws[e] \in Seq(Chunk)
      BY <1>1, <2>1, <2>4 DEF RelaySend
    <3>2. Chunks(Tail(tcp[e])) \cup Chunks(ws'[e]) = Chunks(tcp[e]) \cup Chunks(ws[e])
      BY <3>1, ChunksMove
    <3> QED
      BY <2>2, <3>2
  <2> QED
    BY <2>3, <2>4
<1>6. CASE \E b \in End : ServerDrops(b)
  <2>1. PICK b \in End : ServerDrops(b)
    BY <1>6
  <2>2. UNCHANGED <<phase, got>>
    BY <2>1 DEF ServerDrops
  <2>3. PICK i \in 1..Len(ws[b]) :
          ws' = [ws EXCEPT ![b] = SubSeq(@, 1, i - 1) \o SubSeq(@, i + 1, Len(@))]
    BY <2>1 DEF ServerDrops
  <2>4. CASE b # e
    BY <1>1, <2>2, <2>3, <2>4 DEF Chunks
  <2>5. CASE b = e
    <3>1. /\ ws'[e] = SubSeq(ws[e], 1, i - 1) \o SubSeq(ws[e], i + 1, Len(ws[e]))
          /\ ws[e] \in Seq(Chunk) /\ i \in 1..Len(ws[e])
      BY <1>1, <2>3, <2>5
    <3>2. Chunks(ws[e]) = Chunks(ws'[e]) \cup {ws[e][i]}
      BY <3>1, ChunksDrop
    <3> QED
      BY <2>2, <3>2
  <2> QED
    BY <2>4, <2>5
<1>7. CASE \/ \E b \in End : \/ GameSends(b) \/ GameCloses(b) \/ Offer(b) \/ Withdraw(b)
                           \/ DrainQuic(b) \/ DrainTcp(b) \/ QuicSend(b)
           \/ RelayBreaks \/ LinkBreaks \/ Connect
           \/ UNCHANGED bridgeVars
  <2>1. UNCHANGED <<phase, got, ws>>
    BY <1>7 DEF GameSends, GameCloses, Offer, Withdraw, DrainQuic, DrainTcp, QuicSend,
                RelayBreaks, LinkBreaks, Connect, bridgeVars
  <2> QED
    BY <1>2, <2>1
<1> QED
  BY <1>3, <1>4, <1>5, <1>6, <1>7
     DEF BridgeNext, Games, Faults, Bridge, Abort, RelayReceive, RelayEof, RelayFails, DrainWs,
         FlushFails, QuicEof, QuicGone, WriteFails

\* So the relay stays behind during the flush.
LEMMA LeftBehindStep ==
  ASSUME BridgeInv, LeftBehind, [BridgeNext]_bridgeVars
  PROVE  LeftBehind'
<1> SUFFICES ASSUME NEW e \in End, phase'[Other(e)] = "flush",
                    NEW j \in Chunks(got'[Other(e)]), NEW k \in Chunks(ws'[e])
             PROVE  j < k
  BY DEF LeftBehind, Chunks
<1>1. /\ phase[Other(e)] \in {"drain", "flush"}
      /\ got'[Other(e)] = got[Other(e)]
      /\ Chunks(ws'[e]) \subseteq Chunks(ws[e]) \cup Chunks(tcp[e])
  BY FlushWaits
<1>2. j \in Chunks(got[Other(e)])
  BY <1>1 DEF Chunks
<1>3. CASE k \in Chunks(ws[e])
  BY <1>1, <1>2, <1>3, RelayAfter
<1>4. CASE k \in Chunks(tcp[e])
  BY <1>2, <1>4, GotIsBefore DEF Behind
<1> QED
  BY <1>1, <1>3, <1>4

\* The invariant behind both properties.
LossInv == BridgeInv /\ Accounted /\ LeftBehind

\* It holds at the start, ...
LEMMA LossInvInit == BridgeInit => LossInv
  BY BridgeInvInit, AccountedInit DEF LossInv, LeftBehind, BridgeInit, End, Other

\* ... every step keeps it, ...
LEMMA LossInvStep ==
  ASSUME LossInv, [BridgeNext]_bridgeVars
  PROVE  LossInv'
  BY BridgeInvStep, AccountedStep, LeftBehindStep DEF LossInv, BridgeInv

\* ... and it leaves a gap no other cause: a chunk that was sent, is not with the game and
\* was not dropped is under way, and of all places only the relay that is no longer read
\* can hold one that comes before a chunk the game has.
LEMMA LossInvGap == LossInv => GapHasCause
<1> SUFFICES ASSUME LossInv, NEW e \in End, NEW j \in Chunks(got[e]), NEW k \in 1..(j - 1),
                    k \notin Chunks(got[e]) \cup dropped[Other(e)]
             PROVE  k \in Chunks(ws[Other(e)]) /\ phase[e] \in {"quic", "done"}
  BY DEF GapHasCause
<1> DEFINE o == Other(e)
<1>1. o \in End /\ Other(o) = e /\ BridgeInv
  BY EndOther DEF LossInv
<1>2. Ordered(got[e], sent[o]) /\ got[e] \in Seq(Chunk) /\ sent[o] \in Nat
  BY <1>1, GotIsOrdered DEF GotOrdered, BridgeInv, BridgeTypeOK
<1>3. j \in 1..sent[o]
  BY <1>2, LenProperties DEF Ordered, Chunks
<1>4. k \in 1..sent[o]
  BY <1>2, <1>3
<1>5. k \in Kept(o)
  BY <1>1, <1>4 DEF LossInv, Accounted
<1>6. ~(j < k)
  BY <1>3
<1>7. k \notin Behind(o)
  BY <1>1, <1>6, GotIsBefore
<1>8. k \in Chunks(ws[o])
  BY <1>1, <1>5, <1>7 DEF Kept, Behind
<1>9. phase[e] \notin {"relay", "drain", "flush"}
  BY <1>1, <1>6, <1>8, RelayAfter DEF LossInv
<1> QED
  BY <1>1, <1>8, <1>9 DEF BridgeInv, BridgeTypeOK, Phase

\* Nothing of a game vanishes while its bridges run: every chunk that was sent is with the
\* other game, in a buffer, under way, or was dropped by the server.  Nothing is forgotten in
\* the buffers of the move to QUIC.
THEOREM NoChunkVanishes == Spec => []NothingVanishes
<1>1. Init => LossInv
  BY LossInvInit DEF Init
<1>2. LossInv /\ [Next]_allVars => LossInv'
  BY LossInvStep, StrategiesDriveBridges
<1>3. LossInv => NothingVanishes
  BY DEF LossInv, Accounted, Kept, NothingVanishes
<1> QED
  BY <1>1, <1>2, <1>3, PTL DEF Spec

\* A game that misses a chunk and has a later one misses what the server dropped or what
\* was left on the relay at the end of the drain.
THEOREM GapsHaveCauses == Spec => []GapHasCause
<1>1. Init => LossInv
  BY LossInvInit DEF Init
<1>2. LossInv /\ [Next]_allVars => LossInv'
  BY LossInvStep, StrategiesDriveBridges
<1> QED
  BY <1>1, <1>2, LossInvGap, PTL DEF Spec
=============================================================================
