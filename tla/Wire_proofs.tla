---------------------------- MODULE Wire_proofs ----------------------------
(***************************************************************************)
(* The proofs about one connection: the speed limits and buffers of peer-io, *)
(* the extension protocol, the conversation itself; and, at the end, these   *)
(* and the handshake carried over to the specification that TLC checks.      *)
(***************************************************************************)
EXTENDS MCWire, Handshake_proofs

-----------------------------------------------------------------------------
(***************************************************************************)
(* For every set of connections and every speed limit: a limited bandwidth   *)
(* never gives more than its allotment, and a connection accounts for its    *)
(* bytes and its references.                                               *)
(***************************************************************************)
IoPulses == [dir : Directions \cup {"none"}, flush : SUBSET Ios, passes : Nat,
             pool : SUBSET Ios, held : SUBSET Ios]

IoTypes ==
    /\ band \in [Nodes -> Band] /\ outbuf \in [Ios -> Seq(Chunk)] /\ queued \in [Ios -> Nat]
    /\ refs \in [Ios -> Nat] /\ owned \in SUBSET Ios /\ enabled \in [Ios -> SUBSET Directions]
    /\ allotted \in [Nodes -> [Directions -> Nat]] /\ used \in [Nodes -> [Directions -> Nat]]
    /\ pulse \in IoPulses

NoneOverdrawn == \A n \in Nodes, d \in Directions :
    IsLimited(n) => band[n].left[d] + used[n][d] <= allotted[n][d]
BytesCounted == \A io \in Ios : Total(outbuf[io]) = queued[io]
\* Who refers to a connection, during an allocation and outside.
RefsCounted == \A io \in Ios :
    refs[io] = (IF io \in owned THEN 1 ELSE 0) + (IF io \in pulse.held THEN 1 ELSE 0)
PulseFits ==
    /\ pulse.flush \subseteq pulse.held /\ pulse.pool \subseteq pulse.held
    /\ pulse.dir = "none" => pulse = Idle

IoInv == IoTypes /\ NoneOverdrawn /\ BytesCounted /\ RefsCounted /\ PulseFits

-----------------------------------------------------------------------------
(* The bytes in a queue.                                                   *)

LEMMA SeqShape ==
    ASSUME NEW s \in Seq(Chunk)
    PROVE  Len(s) \in Nat /\ s \in [1..Len(s) -> Chunk] /\ \A i \in 1..Len(s) : s[i] \in Chunk
BY LenProperties

\* A function on 1..n is a sequence.
LEMMA MadeSeq ==
    ASSUME NEW n \in Nat, NEW s \in [1..n -> Chunk]
    PROVE  s \in Seq(Chunk) /\ Len(s) = n
<1>1. s \in Seq(Chunk)
  BY SeqDef
<1> QED
  BY <1>1, LenProperties

LEMMA ChunkLen ==
    ASSUME NEW c \in Chunk
    PROVE  c.len \in Nat /\ c.len > 0 /\ c.piece \in BOOLEAN
BY DEF Chunk

\* The sum of a queue's chunks is what its definition says.
LEMMA SumsAre ==
    ASSUME NEW s \in Seq(Chunk), NEW kinds
    PROVE  /\ \A k \in 0..Len(s) : Sums(s, kinds)[k] \in Nat
           /\ Sums(s, kinds)[0] = 0
           /\ \A k \in 1..Len(s) : Sums(s, kinds)[k] = Sums(s, kinds)[k - 1] + (IF s[k].piece \in kinds THEN s[k].len ELSE 0)
<1> DEFINE n == Len(s)
           Body(x, k) == x + (IF s[k].piece \in kinds THEN s[k].len ELSE 0)
           X == [k \in 0..n |-> Nat]
           F == [k \in 1..n |-> [x \in Nat |-> Body(x, k)]]
           Loop(f) == f = [k \in 0..n |-> IF k = 0 THEN 0 ELSE Body(f[k - 1], k)]
           g == CHOOSE f : Loop(f)
<1>1. n \in Nat /\ \A k \in 1..n : s[k] \in Chunk
  BY SeqShape
<1>2. g = Sums(s, kinds)
  BY DEF Sums
<1>3. \A k \in 1..n : \A x \in Nat : Body(x, k) \in Nat
  BY <1>1, ChunkLen
<1> HIDE DEF Body
<1>4. /\ \A k \in 0..n : X[k] = Nat
      /\ \A k \in 1..n : \A x \in X[k - 1] : F[k][x] \in X[k]
      /\ \A k \in 1..n : \A x \in Nat : F[k][x] = Body(x, k)
      /\ 0 \in X[0]
  <2>1. \A k \in 0..n : X[k] = Nat
    OBVIOUS
  <2>2. \A k \in 1..n : k - 1 \in 0..n /\ k \in 0..n
    BY <1>1
  <2>3. \A k \in 1..n : \A x \in Nat : F[k][x] = Body(x, k)
    OBVIOUS
  <2>4. 0 \in 0..n
    BY <1>1
  <2> HIDE DEF X, F, n
  <2>5. ASSUME NEW k \in 1..n, NEW x \in X[k - 1] PROVE F[k][x] \in X[k]
    <3>1. x \in Nat /\ X[k] = Nat
      BY <2>1, <2>2
    <3> QED
      BY <1>3, <2>3, <3>1
  <2> QED
    BY <2>1, <2>3, <2>4, <2>5
<1> DEFINE z == 0
<1> HIDE DEF X, F, z
<1>5. PICK f : IsLoop(f, n, z, F) /\ \A k \in 0..n : f[k] \in X[k]
  <2>1. z \in X[0]
    BY <1>4 DEF z
  <2> QED
    BY <1>1, <1>4, <2>1, StepsExist
<1>6. Loop(f)
  <2>1. f = [k \in 0..n |-> IF k = 0 THEN z ELSE F[k][f[k - 1]]]
    BY <1>5 DEF IsLoop
  <2>2. \A k \in 0..n : (IF k = 0 THEN z ELSE F[k][f[k - 1]]) = (IF k = 0 THEN 0 ELSE Body(f[k - 1], k))
    <3>1. SUFFICES ASSUME NEW k \in 0..n, k # 0 PROVE F[k][f[k - 1]] = Body(f[k - 1], k)
      BY DEF z
    <3>2. k \in 1..n /\ k - 1 \in 0..n
      BY <1>1, <3>1
    <3> QED
      BY <1>4, <1>5, <3>2
  <2> QED
    BY <2>1, <2>2
<1>7. Loop(g)
  BY <1>6
<1> HIDE DEF g
<1>8. g[0] = 0 /\ \A k \in 1..n : g[k] = Body(g[k - 1], k)
  <2>1. 0 \in 0..n /\ \A k \in 1..n : k \in 0..n /\ k # 0
    BY <1>1
  <2> QED
    BY <1>7, <2>1
<1>9. \A k \in 0..n : g[k] \in X[k]
  <2>1. g[0] \in X[0]
    BY <1>1, <1>4, <1>8
  <2>2. \A k \in 1..n : g[k - 1] \in X[k - 1] => g[k] \in X[k]
    <3>1. \A k \in 1..n : k - 1 \in 0..n /\ k \in 0..n
      BY <1>1
    <3> QED
      BY <1>3, <1>4, <1>8, <3>1
  <2> QED
    BY <1>1, <2>1, <2>2, StepsReach
<1>10. \A k \in 0..n : g[k] \in Nat
  BY <1>4, <1>9
<1> QED
  BY <1>2, <1>8, <1>10 DEF Body

\* Queues that begin alike have the same sums that far.
LEMMA SumsAgree ==
    ASSUME NEW s \in Seq(Chunk), NEW t \in Seq(Chunk), NEW kinds, NEW m \in Nat,
           m <= Len(s), m <= Len(t), \A i \in 1..m : s[i] = t[i]
    PROVE  \A k \in 0..m : Sums(s, kinds)[k] = Sums(t, kinds)[k]
<1> DEFINE T == {k \in 0..m : Sums(s, kinds)[k] = Sums(t, kinds)[k]}
<1>1. Len(s) \in Nat /\ Len(t) \in Nat
  BY SeqShape
<1>2. 0 \in T
  BY SumsAre
<1>3. ASSUME NEW k \in 1..m, k - 1 \in T PROVE k \in T
  <2>1. k \in 1..Len(s) /\ k \in 1..Len(t) /\ k \in 0..m
    BY <1>1
  <2>2. /\ Sums(s, kinds)[k] = Sums(s, kinds)[k - 1] + (IF s[k].piece \in kinds THEN s[k].len ELSE 0)
        /\ Sums(t, kinds)[k] = Sums(t, kinds)[k - 1] + (IF t[k].piece \in kinds THEN t[k].len ELSE 0)
    BY <2>1, SumsAre
  <2>3. s[k] = t[k] /\ Sums(s, kinds)[k - 1] = Sums(t, kinds)[k - 1]
    BY <1>3
  <2> QED
    BY <2>1, <2>2, <2>3
<1> HIDE DEF T
<1>4. \A k \in 0..m : k \in T
  BY <1>2, <1>3, Climb
<1> QED
  BY <1>4 DEF T

LEMMA TotalEmpty == <<>> \in Seq(Chunk) /\ Total(<<>>) = 0
<1>1. <<>> \in Seq(Chunk) /\ Len(<<>>) = 0
  BY EmptySeq
<1> QED
  BY <1>1, SumsAre DEF Total

LEMMA TotalAppend ==
    ASSUME NEW s \in Seq(Chunk), NEW c \in Chunk
    PROVE  Append(s, c) \in Seq(Chunk) /\ Total(Append(s, c)) = Total(s) + c.len
<1> DEFINE t == Append(s, c)
           n == Len(s)
<1>1. /\ t \in Seq(Chunk) /\ Len(t) = n + 1 /\ \A i \in 1..n : t[i] = s[i]
      /\ t[n + 1] = c
  BY AppendProperties
<1>2. n \in Nat
  BY SeqShape
<1> HIDE DEF t, n
<1>3. Sums(t, BOOLEAN)[n] = Sums(s, BOOLEAN)[n]
  <2>1. n <= Len(s) /\ n <= Len(t) /\ \A i \in 1..n : s[i] = t[i]
    BY <1>1, <1>2 DEF n
  <2>2. \A k \in 0..n : Sums(s, BOOLEAN)[k] = Sums(t, BOOLEAN)[k]
    BY <1>1, <1>2, <2>1, SumsAgree
  <2> QED
    BY <1>2, <2>2
<1>4. Sums(t, BOOLEAN)[n + 1] = Sums(t, BOOLEAN)[n] + c.len
  <2>1. n + 1 \in 1..Len(t) /\ (n + 1) - 1 = n
    BY <1>1, <1>2
  <2>2. Sums(t, BOOLEAN)[n + 1] = Sums(t, BOOLEAN)[(n + 1) - 1] + (IF t[n + 1].piece \in BOOLEAN THEN t[n + 1].len ELSE 0)
    <3>1. \A k \in 1..Len(t) : Sums(t, BOOLEAN)[k] = Sums(t, BOOLEAN)[k - 1] + (IF t[k].piece \in BOOLEAN THEN t[k].len ELSE 0)
      BY <1>1, SumsAre
    <3> QED
      BY <2>1, <3>1
  <2>3. t[n + 1].piece \in BOOLEAN
    BY <1>1, ChunkLen
  <2> QED
    BY <1>1, <2>1, <2>2, <2>3
<1> QED
  BY <1>1, <1>3, <1>4 DEF Total, t, n

-----------------------------------------------------------------------------
(* What is written leaves the queue.                                       *)

LEMMA SumsGrow ==
    ASSUME NEW s \in Seq(Chunk), NEW kinds, NEW i \in 0..Len(s)
    PROVE  \A k \in i..Len(s) : Sums(s, kinds)[i] <= Sums(s, kinds)[k]
<1> DEFINE T == {j \in Nat : i + j <= Len(s) => Sums(s, kinds)[i] <= Sums(s, kinds)[i + j]}
           m == Len(s) - i
<1>1. Len(s) \in Nat /\ i \in Nat /\ m \in Nat
  BY SeqShape
<1>2. 0 \in T
  BY <1>1, SumsAre
<1>3. ASSUME NEW j \in 1..m, j - 1 \in T PROVE j \in T
  <2>1. /\ i + j \in 1..Len(s) /\ i + (j - 1) \in 0..Len(s) /\ (i + j) - 1 = i + (j - 1)
        /\ j \in Nat /\ i \in 0..Len(s) /\ i + j \in 0..Len(s)
    BY <1>1
  <2>2. Sums(s, kinds)[i] <= Sums(s, kinds)[i + (j - 1)]
    BY <1>3, <2>1
  <2> DEFINE a == Sums(s, kinds)[i]
             b == Sums(s, kinds)[i + (j - 1)]
             c == Sums(s, kinds)[i + j]
             e == IF s[i + j].piece \in kinds THEN s[i + j].len ELSE 0
  <2>3. a \in Nat /\ b \in Nat /\ c = b + e
    BY <2>1, SumsAre
  <2>4. e \in Nat
    BY <2>1, SeqShape, ChunkLen
  <2>5. a <= c
    <3> HIDE DEF a, b, c, e
    <3>1. a <= b
      BY <2>2 DEF a, b
    <3> QED
      BY <2>3, <2>4, <3>1
  <2> QED
    BY <2>1, <2>5
<1> HIDE DEF T
<1>4. \A j \in 0..m : j \in T
  BY <1>1, <1>2, <1>3, Climb
<1>5. ASSUME NEW k \in i..Len(s) PROVE Sums(s, kinds)[i] <= Sums(s, kinds)[k]
  <2>1. k - i \in 0..m /\ i + (k - i) = k /\ k <= Len(s)
    BY <1>1
  <2> QED
    BY <1>4, <2>1 DEF T
<1> QED
  BY <1>5

\* Piece data is part of what is queued.
LEMMA PieceIsPart ==
    ASSUME NEW s \in Seq(Chunk)
    PROVE  \A k \in 0..Len(s) : Sums(s, {TRUE})[k] <= Sums(s, BOOLEAN)[k]
<1> DEFINE a == Sums(s, {TRUE})
           b == Sums(s, BOOLEAN)
           n == Len(s)
           T == {k \in 0..n : a[k] <= b[k]}
<1>1. n \in Nat /\ \A k \in 1..n : s[k].len \in Nat /\ s[k].piece \in BOOLEAN
  BY SeqShape, ChunkLen
<1>2. /\ \A k \in 0..n : a[k] \in Nat /\ b[k] \in Nat
      /\ a[0] = 0 /\ b[0] = 0
      /\ \A k \in 1..n : a[k] = a[k - 1] + (IF s[k].piece \in {TRUE} THEN s[k].len ELSE 0)
      /\ \A k \in 1..n : b[k] = b[k - 1] + (IF s[k].piece \in BOOLEAN THEN s[k].len ELSE 0)
  <2> DEFINE K == {TRUE}
             L == BOOLEAN
             c == Sums(s, K)
             d == Sums(s, L)
  <2> HIDE DEF K, L
  <2>1. /\ \A k \in 0..n : c[k] \in Nat
        /\ c[0] = 0
        /\ \A k \in 1..n : c[k] = c[k - 1] + (IF s[k].piece \in K THEN s[k].len ELSE 0)
    BY SumsAre
  <2>2. /\ \A k \in 0..n : d[k] \in Nat
        /\ d[0] = 0
        /\ \A k \in 1..n : d[k] = d[k - 1] + (IF s[k].piece \in L THEN s[k].len ELSE 0)
    BY SumsAre
  <2>3. a = c /\ b = d
    BY DEF K, L
  <2> HIDE DEF a, b, c, d, n
  <2> QED
    BY <2>1, <2>2, <2>3 DEF K, L
<1> HIDE DEF a, b, n
<1>3. 0 \in T
  BY <1>1, <1>2
<1>4. ASSUME NEW k \in 1..n, k - 1 \in T PROVE k \in T
  <2> DEFINE x == IF s[k].piece \in {TRUE} THEN s[k].len ELSE 0
             y == IF s[k].piece \in BOOLEAN THEN s[k].len ELSE 0
  <2>1. x \in Nat /\ y \in Nat /\ x <= y
    <3>1. s[k].len \in Nat /\ s[k].piece \in BOOLEAN
      BY <1>1
    <3>2. (x = s[k].len \/ x = 0) /\ y = s[k].len
      BY <3>1, Zenon
    <3> HIDE DEF x, y
    <3> QED
      BY <3>1, <3>2
  <2>2. a[k] = a[k - 1] + x /\ b[k] = b[k - 1] + y
    BY <1>2
  <2> HIDE DEF x, y
  <2>3. k - 1 \in 0..n /\ k \in 0..n /\ a[k - 1] <= b[k - 1]
    BY <1>1, <1>4
  <2> QED
    BY <1>2, <2>1, <2>2, <2>3
<1> HIDE DEF T
<1>5. \A k \in 0..n : k \in T
  BY <1>1, <1>3, <1>4, Climb
<1> QED
  BY <1>5 DEF T, a, b, n

\* How many whole chunks n bytes are.
LEMMA WholeChunks ==
    ASSUME NEW s \in Seq(Chunk), NEW n \in 0..Total(s), NEW k,
           k = Max({j \in 0..Len(s) : Sums(s, BOOLEAN)[j] <= n})
    PROVE  /\ k \in 0..Len(s) /\ Sums(s, BOOLEAN)[k] <= n
           /\ k < Len(s) => n < Sums(s, BOOLEAN)[k + 1]
           /\ k = Len(s) => n = Sums(s, BOOLEAN)[k]
<1> DEFINE b == Sums(s, BOOLEAN)
           m == Len(s)
           T == {j \in 0..m : b[j] <= n}
<1>1. m \in Nat /\ (\A j \in 0..m : b[j] \in Nat) /\ b[0] = 0
  BY SeqShape, SumsAre
<1>2. n \in Nat /\ n <= b[m]
  <2>1. Total(s) = b[m] /\ m \in 0..m
    BY <1>1 DEF Total
  <2> HIDE DEF b, m
  <2> QED
    BY <1>1, <2>1
<1>3. k = Max(T)
  OBVIOUS
<1> HIDE DEF b, m
<1>4. T \in SUBSET (0..m) /\ T # {}
  <2>1. 0 \in T
    BY <1>1, <1>2
  <2> QED
    BY <2>1
<1> HIDE DEF T
<1>5. k \in T /\ \A j \in T : j <= k
  BY <1>1, <1>3, <1>4, GreatestUpTo
<1>6. k \in 0..m /\ b[k] <= n
  BY <1>5 DEF T
<1>7. ASSUME k < m PROVE n < b[k + 1]
  <2>1. k + 1 \in 0..m /\ ~(k + 1 <= k)
    BY <1>1, <1>6, <1>7
  <2>2. ~(b[k + 1] <= n)
    BY <1>5, <2>1 DEF T
  <2> QED
    BY <1>1, <1>2, <2>1, <2>2
<1>8. ASSUME k = m PROVE n = b[k]
  BY <1>1, <1>2, <1>6, <1>8
<1> QED
  BY <1>6, <1>7, <1>8 DEF b, m

\* What is left of s when k chunks are gone, and a part of the next.
IsRest(rest, s, k, taken) ==
    /\ Len(rest) = Len(s) - k
    /\ \A i \in 1..Len(rest) : /\ rest[i].piece = s[k + i].piece
                               /\ i = 1 => rest[i].len = s[k + 1].len - taken
                               /\ i # 1 => rest[i].len = s[k + i].len
PartOf(c, kinds, taken) == IF c.piece \in kinds THEN taken ELSE 0

\* The sums of what is left when whole chunks and a part of the next are gone.
LEMMA RestSums ==
    ASSUME NEW s \in Seq(Chunk), NEW rest \in Seq(Chunk), NEW kinds, NEW k \in 0..Len(s), NEW taken \in Nat,
           IsRest(rest, s, k, taken)
    PROVE  \A i \in 1..Len(rest) : Sums(rest, kinds)[i] = Sums(s, kinds)[k + i] - Sums(s, kinds)[k]
                                                         - PartOf(s[k + 1], kinds, taken)
<1> DEFINE cut == PartOf(s[k + 1], kinds, taken)
<1>11. cut = IF s[k + 1].piece \in kinds THEN taken ELSE 0
  BY DEF PartOf
<1> HIDE DEF cut
<1> DEFINE a == Sums(s, kinds)
           r == Sums(rest, kinds)
           n == Len(rest)
           m == Len(s)
           T == {i \in Nat : i > 0 => r[i] = a[k + i] - a[k] - cut}
<1>1. /\ m \in Nat /\ n \in Nat /\ k \in Nat /\ cut \in Nat /\ n = m - k
      /\ \A i \in 1..m : s[i].len \in Nat
  BY <1>11, SeqShape, ChunkLen DEF IsRest
<1>2. /\ \A i \in 0..m : a[i] \in Nat
      /\ a[0] = 0
      /\ \A i \in 1..m : a[i] = a[i - 1] + (IF s[i].piece \in kinds THEN s[i].len ELSE 0)
  BY SumsAre
<1>3. /\ \A i \in 0..n : r[i] \in Nat
      /\ r[0] = 0
      /\ \A i \in 1..n : r[i] = r[i - 1] + (IF rest[i].piece \in kinds THEN rest[i].len ELSE 0)
  BY SumsAre
<1>4. \A i \in 1..n : /\ rest[i].piece = s[k + i].piece
                      /\ i = 1 => rest[i].len = s[k + 1].len - taken
                      /\ i # 1 => rest[i].len = s[k + i].len
  BY DEF IsRest
<1>5. 0 \in T
  OBVIOUS
<1>6. ASSUME NEW i \in 1..n, i - 1 \in T PROVE i \in T
  <2> DEFINE x == IF s[k + i].piece \in kinds THEN s[k + i].len ELSE 0
             y == IF rest[i].piece \in kinds THEN rest[i].len ELSE 0
  <2> HIDE DEF m, n, a, r
  <2>1. /\ i \in 1..n /\ i \in Nat /\ i \in 0..n /\ i - 1 \in 0..n
        /\ k + i \in 1..m /\ k + i \in 0..m /\ (k + i) - 1 = k + (i - 1) /\ k + (i - 1) \in 0..m /\ k \in 0..m
    BY <1>1, <1>6
  <2>2. /\ a[k + i] = a[k + (i - 1)] + x /\ x \in Nat
        /\ a[k + (i - 1)] \in Nat /\ a[k] \in Nat
    BY <1>1, <1>2, <2>1
  <2>3. r[i] = r[i - 1] + y /\ r[i - 1] \in Nat
    BY <1>3, <2>1
  <2>4. CASE i = 1
    <3>1. y = x - cut
      <4>1. rest[1].piece = s[k + 1].piece /\ rest[1].len = s[k + 1].len - taken
        BY <1>4, <2>1, <2>4
      <4>2. CASE s[k + 1].piece \in kinds
        BY <1>11, <2>4, <4>1, <4>2
      <4>3. CASE s[k + 1].piece \notin kinds
        BY <1>11, <2>4, <4>1, <4>3
      <4> QED
        BY <4>2, <4>3
    <3>2. r[i - 1] = 0 /\ k + (i - 1) = k
      BY <1>1, <1>3, <2>4
    <3> HIDE DEF x, y
    <3>4. a[k + (i - 1)] = a[k]
      BY <3>2
    <3>5. a[k + i] = a[k] + x /\ r[i] = 0 + (x - cut)
      BY <2>2, <2>3, <3>1, <3>2, <3>4
    <3>3. r[i] = a[k + i] - a[k] - cut
      <4> DEFINE u == a[k]
                 v == a[k + i]
                 w == r[i]
      <4>1. u \in Nat /\ v = u + x /\ w = 0 + (x - cut) /\ x \in Nat /\ cut \in Nat
        BY <1>1, <2>2, <3>5
      <4> HIDE DEF u, v, w
      <4>2. w = v - u - cut
        BY <4>1
      <4> QED
        BY <4>2 DEF u, v, w
    <3> QED
      BY <2>1, <3>3
  <2>5. CASE i # 1
    <3>1. y = x
      BY <1>4, <2>1, <2>5
    <3>2. r[i - 1] = a[k + (i - 1)] - a[k] - cut
      BY <1>6, <2>1, <2>5
    <3> HIDE DEF x, y
    <3>3. r[i] = a[k + i] - a[k] - cut
      <4> DEFINE u == a[k]
                 v == a[k + i]
                 w == r[i]
                 v1 == a[k + (i - 1)]
                 w1 == r[i - 1]
      <4>1. u \in Nat /\ v1 \in Nat /\ v = v1 + x /\ w = w1 + y /\ y = x /\ x \in Nat /\ cut \in Nat
            /\ w1 = v1 - u - cut
        BY <1>1, <2>2, <2>3, <3>1, <3>2
      <4> HIDE DEF u, v, w, v1, w1
      <4>2. w = v - u - cut
        BY <4>1
      <4> QED
        BY <4>2 DEF u, v, w
    <3> QED
      BY <2>1, <3>3
  <2> QED
    BY <2>4, <2>5
<1> HIDE DEF T
<1>7. \A i \in 0..n : i \in T
  BY <1>1, <1>5, <1>6, Climb
<1>8. ASSUME NEW i \in 1..n PROVE r[i] = a[k + i] - a[k] - cut
  <2>1. i \in 0..n /\ i > 0
    BY <1>1
  <2>2. i \in T
    BY <1>7, <2>1
  <2> HIDE DEF r, a, n
  <2> QED
    BY <2>1, <2>2 DEF T
<1> QED
  BY <1>8 DEF cut

\* Writing n bytes off a queue leaves a queue of n bytes less, of which no more
\* than n were piece data.
LEMMA WriteOffFits ==
    ASSUME NEW s \in Seq(Chunk), NEW n \in 0..Total(s)
    PROVE  /\ WriteOff(s, n) \in Seq(Chunk)
           /\ Total(WriteOff(s, n)) = Total(s) - n
           /\ PieceIn(s) - PieceIn(WriteOff(s, n)) \in 0..n
<1> DEFINE k == Max({j \in 0..Len(s) : Sums(s, BOOLEAN)[j] <= n})
           taken == n - Sums(s, BOOLEAN)[k]
           m == Len(s)
           rest == [i \in 1..(m - k) |-> IF i = 1 THEN [s[k + 1] EXCEPT !.len = @ - taken] ELSE s[k + i]]
           all == Sums(s, BOOLEAN)
           data == Sums(s, {TRUE})
<1>1. rest = WriteOff(s, n)
  BY DEF WriteOff
<1>2. /\ k \in 0..m /\ all[k] <= n
      /\ k < m => n < all[k + 1]
      /\ k = m => n = all[k]
  <2> DEFINE kk == k
  <2>1. kk = Max({j \in 0..Len(s) : Sums(s, BOOLEAN)[j] <= n})
    OBVIOUS
  <2> HIDE DEF kk
  <2>2. /\ kk \in 0..Len(s) /\ Sums(s, BOOLEAN)[kk] <= n
        /\ kk < Len(s) => n < Sums(s, BOOLEAN)[kk + 1]
        /\ kk = Len(s) => n = Sums(s, BOOLEAN)[kk]
    BY <2>1, WholeChunks
  <2> QED
    BY <2>2 DEF kk
<1> HIDE DEF k
<1>3. /\ m \in Nat /\ k \in Nat /\ \A i \in 1..m : s[i] \in Chunk /\ s[i].len \in Nat /\ s[i].piece \in BOOLEAN
      /\ \A i \in 0..m : all[i] \in Nat /\ data[i] \in Nat /\ data[i] <= all[i]
      /\ \A i \in 1..m : all[i] = all[i - 1] + s[i].len
      /\ \A i \in 0..m : data[i] <= data[m]
  <2>1. m \in Nat /\ \A i \in 1..m : s[i] \in Chunk /\ s[i].len \in Nat /\ s[i].piece \in BOOLEAN
    BY SeqShape, ChunkLen
  <2>2. \A i \in 0..m : all[i] \in Nat /\ data[i] \in Nat
    BY SumsAre
  <2>3. \A i \in 0..m : data[i] <= all[i]
    BY PieceIsPart
  <2>4. \A i \in 1..m : all[i] = all[i - 1] + (IF s[i].piece \in BOOLEAN THEN s[i].len ELSE 0)
    BY SumsAre
  <2>5. \A i \in 0..m : data[i] <= data[m]
    <3>1. \A i \in 0..m : m \in i..m
      BY <2>1
    <3>2. \A i \in 0..m : \A j \in i..m : data[i] <= data[j]
      BY SumsGrow
    <3> QED
      BY <3>1, <3>2
  <2>6. k \in Nat
    BY <1>2, <2>1
  <2> HIDE DEF all, data, m
  <2>7. \A i \in 1..m : all[i] = all[i - 1] + s[i].len
    BY <2>1, <2>4
  <2> QED
    BY <2>1, <2>2, <2>3, <2>5, <2>6, <2>7
<1>4. Total(s) = all[m] /\ PieceIn(s) = data[m] /\ n \in Nat
  <2>1. Total(s) = all[m] /\ PieceIn(s) = data[m]
    BY DEF Total, PieceIn
  <2>2. Total(s) \in Nat
    BY <1>3, <2>1
  <2> QED
    BY <2>1, <2>2
<1>5. taken \in Nat /\ all[k] \in Nat /\ (k < m => taken < s[k + 1].len)
  <2>1. all[k] \in Nat
    BY <1>2, <1>3
  <2>2. taken \in Nat
    <3> DEFINE u == all[k]
    <3>1. u \in Nat /\ u <= n /\ n \in Nat
      BY <1>2, <1>4, <2>1
    <3> HIDE DEF u
    <3>2. n - u \in Nat
      BY <3>1
    <3> QED
      BY <3>2 DEF u
  <2>3. ASSUME k < m PROVE taken < s[k + 1].len
    <3> DEFINE u == all[k]
               v == all[k + 1]
               x == s[k + 1].len
    <3>1. k + 1 \in 1..m /\ (k + 1) - 1 = k
      BY <1>2, <1>3, <2>3
    <3>2. u \in Nat /\ v = u + x /\ n < v /\ x \in Nat /\ n \in Nat
      BY <1>2, <1>3, <1>4, <2>1, <2>3, <3>1
    <3> HIDE DEF u, v, x
    <3>3. n - u < x
      BY <3>2
    <3> QED
      BY <3>3 DEF u, x
  <2> QED
    BY <2>1, <2>2, <2>3
<1> HIDE DEF taken, all, data, m
<1>6. rest \in Seq(Chunk) /\ Len(rest) = m - k
  <2>1. m - k \in Nat
    BY <1>2, <1>3
  <2>2. ASSUME NEW i \in 1..(m - k)
        PROVE  (IF i = 1 THEN [s[k + 1] EXCEPT !.len = @ - taken] ELSE s[k + i]) \in Chunk
    <3>1. k + i \in 1..m /\ k + 1 \in 1..m /\ k < m
      BY <1>2, <1>3
    <3>2. s[k + i] \in Chunk /\ s[k + 1] \in Chunk /\ s[k + 1].len \in Nat /\ taken < s[k + 1].len
      BY <1>3, <1>5, <3>1
    <3> DEFINE c == s[k + 1]
               d == [c EXCEPT !.len = @ - taken]
    <3>3. c \in Chunk /\ c.len \in Nat /\ taken < c.len /\ taken \in Nat
      BY <1>5, <3>2
    <3> HIDE DEF c
    <3>4. c.len - taken \in Nat \ {0}
      BY <3>3
    <3>5. d \in Chunk
      BY <3>3, <3>4 DEF Chunk
    <3> QED
      BY <3>2, <3>5 DEF c
  <2>3. rest \in [1..(m - k) -> Chunk]
    BY <2>2
  <2> DEFINE z == m - k
  <2> HIDE DEF rest, z
  <2>4. rest \in Seq(Chunk) /\ Len(rest) = z
    <3>1. z \in Nat /\ rest \in [1..z -> Chunk]
      BY <2>1, <2>3 DEF z
    <3> QED
      BY <3>1, MadeSeq
  <2> QED
    BY <2>4 DEF z
<1>7. \A i \in 1..(m - k) : /\ rest[i].piece = s[k + i].piece
                            /\ i = 1 => rest[i].len = s[k + 1].len - taken
                            /\ i # 1 => rest[i].len = s[k + i].len
  <2> SUFFICES ASSUME NEW i \in 1..(m - k)
               PROVE  /\ rest[i].piece = s[k + i].piece
                      /\ i = 1 => rest[i].len = s[k + 1].len - taken
                      /\ i # 1 => rest[i].len = s[k + i].len
    OBVIOUS
  <2>1. rest[i] = IF i = 1 THEN [s[k + 1] EXCEPT !.len = @ - taken] ELSE s[k + i]
    OBVIOUS
  <2>2. k + 1 \in 1..m
    BY <1>2, <1>3
  <2>3. s[k + 1] \in Chunk
    BY <1>3, <2>2
  <2> HIDE DEF rest
  <2>4. CASE i = 1
    <3>1. rest[i] = [s[k + 1] EXCEPT !.len = @ - taken]
      BY <2>1, <2>4
    <3>2. rest[i].piece = s[k + 1].piece /\ rest[i].len = s[k + 1].len - taken
      BY <2>3, <3>1 DEF Chunk
    <3> QED
      BY <2>4, <3>2
  <2>5. CASE i # 1
    BY <2>1, <2>5
  <2> QED
    BY <2>4, <2>5
<1> HIDE DEF rest
<1>8. Len(rest) \in Nat
  BY <1>2, <1>3, <1>6
<1>9. CASE k = m
  <2>1. Len(rest) = 0
    BY <1>3, <1>6, <1>9
  <2>2. Total(rest) = 0 /\ PieceIn(rest) = 0
    <3>1. Sums(rest, BOOLEAN)[0] = 0 /\ Sums(rest, {TRUE})[0] = 0
      BY <1>6, SumsAre
    <3> QED
      BY <2>1, <3>1 DEF Total, PieceIn
  <2>3. n = all[m] /\ data[m] <= all[m] /\ data[m] \in Nat
    BY <1>2, <1>3, <1>9
  <2>4. Total(rest) = Total(s) - n
    BY <1>4, <2>2, <2>3
  <2>5. PieceIn(s) - PieceIn(rest) \in 0..n
    BY <1>4, <2>2, <2>3
  <2> QED
    BY <1>1, <1>6, <2>4, <2>5
<1>10. CASE k # m
  <2>1. k < m /\ Len(rest) >= 1 /\ k + Len(rest) = m /\ k + 1 \in 1..m /\ Len(rest) \in 1..Len(rest)
    BY <1>2, <1>3, <1>6, <1>10
  <2> DEFINE L == Len(rest)
             cut == IF s[k + 1].piece \in {TRUE} THEN taken ELSE 0
  <2>2. k \in 0..Len(s) /\ IsRest(rest, s, k, taken)
    BY <1>2, <1>6, <1>7 DEF m, IsRest
  <2>3. ASSUME NEW kinds PROVE Sums(rest, kinds)[L] = Sums(s, kinds)[k + L] - Sums(s, kinds)[k]
                                                     - PartOf(s[k + 1], kinds, taken)
    <3>1. \A i \in 1..Len(rest) : Sums(rest, kinds)[i] = Sums(s, kinds)[k + i] - Sums(s, kinds)[k]
                                                         - PartOf(s[k + 1], kinds, taken)
      BY <1>5, <1>6, <2>2, RestSums
    <3> QED
      BY <2>1, <3>1
  <2>4. Total(rest) = all[m] - all[k] - taken
    <3>1. Sums(rest, BOOLEAN)[L] = Sums(s, BOOLEAN)[k + L] - Sums(s, BOOLEAN)[k] - (IF s[k + 1].piece \in BOOLEAN THEN taken ELSE 0)
      BY <2>3 DEF PartOf
    <3>2. s[k + 1].piece \in BOOLEAN
      BY <1>3, <2>1
    <3>3. k + L = m
      BY <2>1
    <3> QED
      BY <3>1, <3>2, <3>3 DEF Total, all
  <2>5. PieceIn(rest) = data[m] - data[k] - cut
    <3>1. Sums(rest, {TRUE})[L] = Sums(s, {TRUE})[k + L] - Sums(s, {TRUE})[k] - cut
      BY <2>3 DEF PartOf
    <3>2. k + L = m
      BY <2>1
    <3> HIDE DEF cut
    <3> QED
      BY <3>1, <3>2 DEF PieceIn, data
  <2>6. cut \in Nat /\ cut <= taken
    <3>1. taken \in Nat /\ 0 \in Nat /\ taken <= taken /\ 0 <= taken
      BY <1>5
    <3> QED
      BY <3>1
  <2>7. /\ all[k] \in Nat /\ data[k] \in Nat /\ data[k] <= all[k] /\ data[k] <= data[m]
        /\ data[m] \in Nat /\ all[m] \in Nat /\ all[k] <= n
    <3>1. k \in 0..m /\ m \in 0..m
      BY <1>2, <1>3
    <3> QED
      BY <1>2, <1>3, <3>1
  <2> DEFINE u == all[k]
             v == all[m]
             x == data[k]
             y == data[m]
  <2>8. taken = n - u
    BY DEF taken, all
  <2>9. u \in Nat /\ v \in Nat /\ x \in Nat /\ y \in Nat /\ x <= u /\ x <= y /\ u <= n
    BY <2>7
  <2>10. Total(rest) = v - u - taken /\ PieceIn(rest) = y - x - cut /\ Total(s) = v /\ PieceIn(s) = y
    BY <1>4, <2>4, <2>5
  <2> HIDE DEF u, v, x, y, cut
  <2>11. Total(rest) = Total(s) - n
    BY <1>4, <2>8, <2>9, <2>10
  <2>12. PieceIn(s) - PieceIn(rest) \in 0..n
    BY <1>4, <2>6, <2>8, <2>9, <2>10
  <2> QED
    BY <1>1, <1>6, <2>11, <2>12
<1> QED
  BY <1>9, <1>10

\* The protocol messages in front are part of what is queued.
LEMMA FrontIsPart ==
    ASSUME NEW s \in Seq(Chunk)
    PROVE  ProtocolInFront(s) \in 0..Total(s) /\ Total(s) \in Nat
<1> DEFINE T == {j \in 0..Len(s) : \A i \in 1..j : ~s[i].piece}
           k == Max(T)
           all == Sums(s, BOOLEAN)
           m == Len(s)
<1>1. m \in Nat /\ (\A i \in 0..m : all[i] \in Nat) /\ \A i \in 0..m : \A j \in i..m : all[i] <= all[j]
  BY SeqShape, SumsAre, SumsGrow
<1>2. T \in SUBSET (0..m) /\ T # {}
  <2>1. 0 \in T
    BY <1>1
  <2> QED
    BY <2>1
<1>3. ProtocolInFront(s) = all[k] /\ Total(s) = all[m]
  BY DEF ProtocolInFront, Total
<1> HIDE DEF T, all, m
<1>4. k \in 0..m
  BY <1>1, <1>2, GreatestUpTo
<1> HIDE DEF k
<1>5. m \in k..m /\ m \in 0..m
  BY <1>1, <1>4
<1>6. all[k] <= all[m] /\ all[k] \in Nat /\ all[m] \in Nat
  BY <1>1, <1>4, <1>5
<1> QED
  BY <1>3, <1>6

-----------------------------------------------------------------------------
(* What a connection may use, and what it uses.                            *)

\* A bandwidth gives no more than it has left, up the chain of limits.
LEMMA ClampBinds ==
    ASSUME IoTypes, NEW io \in Ios, NEW d \in Directions, NEW want \in Nat, NEW room \in Clamp(io, d, want)
    PROVE  /\ room \in Nat /\ room <= want
           /\ \A n \in Binding(io) : n \in Nodes /\ IsLimited(n) /\ n \in UsedBy(io) /\ room <= band[n].left[d]
<1> DEFINE B == Binding(io)
           most == {want} \cup {band[n].left[d] : n \in B}
           low == CHOOSE m \in most : \A k \in most : m <= k
<1>1. B \subseteq Nodes /\ B \subseteq UsedBy(io) /\ \A n \in B : IsLimited(n)
  BY DEF Binding, Chain, Nodes, UsedBy
<1>2. \A n \in B : band[n].left[d] \in Nat
  BY <1>1 DEF IoTypes, Band
<1>3. room \in (IF B = {} THEN {want} ELSE 0..low)
  BY DEF Clamp
<1> HIDE DEF B
<1>4. most \in SUBSET Nat /\ most # {}
  BY <1>2
<1>5. low \in most /\ \A k \in most : low <= k
  <2>1. \E m \in most : \A k \in most : m <= k
    BY <1>4, LeastNat
  <2> HIDE DEF most
  <2> QED
    BY <2>1
<1>6. low \in Nat /\ low <= want /\ \A n \in B : low <= band[n].left[d]
  BY <1>4, <1>5
<1> HIDE DEF low, most
<1>7. CASE B = {}
  BY <1>1, <1>3, <1>7 DEF B
<1>8. CASE B # {}
  <2>1. room \in 0..low
    BY <1>3, <1>8
  <2>2. room \in Nat /\ room <= want /\ \A n \in B : room <= band[n].left[d]
    BY <1>2, <1>6, <2>1
  <2> QED
    BY <1>1, <2>2 DEF B
<1> QED
  BY <1>7, <1>8

LEMMA BandFields ==
    ASSUME IoTypes, NEW n \in Nodes
    PROVE  /\ band[n] \in Band /\ band[n].left \in [Directions -> Nat]
           /\ band[n].limit \in SpeedLimits \cup {Unlimited} /\ band[n].honor \in BOOLEAN
           /\ allotted[n] \in [Directions -> Nat] /\ used[n] \in [Directions -> Nat]
BY DEF IoTypes, Band

\* Using what it was given keeps a bandwidth within its allotment.
LEMMA UseKeeps ==
    ASSUME IoTypes, NoneOverdrawn, NEW io \in Ios, NEW d \in Directions, NEW n \in Nat,
           \A k \in Binding(io) : k \in Nodes /\ IsLimited(k) /\ k \in UsedBy(io) /\ n <= band[k].left[d],
           CountUse(io, d, n), UNCHANGED allotted
    PROVE  /\ band' \in [Nodes -> Band] /\ used' \in [Nodes -> [Directions -> Nat]]
           /\ NoneOverdrawn'
<1>1. ASSUME NEW k \in Nodes
      PROVE  /\ band'[k] \in Band /\ used'[k] \in [Directions -> Nat] /\ band'[k].limit = band[k].limit
             /\ \A e \in Directions : IsLimited(k) => band'[k].left[e] + used'[k][e] <= allotted[k][e]
  <2> DEFINE b == band[k]
             u == used[k]
             a == allotted[k]
  <2>1. /\ b \in Band /\ b.left \in [Directions -> Nat]
        /\ a \in [Directions -> Nat] /\ u \in [Directions -> Nat]
    BY BandFields
  <2>2. /\ band'[k] = IF k \in UsedBy(io) /\ IsLimited(k) THEN [b EXCEPT !.left[d] = Spend(@, n)] ELSE b
        /\ used'[k] = IF k \in Binding(io) THEN [u EXCEPT ![d] = @ + n] ELSE u
    BY DEF CountUse
  <2>3. \A e \in Directions : IsLimited(k) => b.left[e] + u[e] <= a[e]
    BY DEF NoneOverdrawn
  <2>4. k \in Binding(io) => IsLimited(k) /\ k \in UsedBy(io) /\ n <= b.left[d]
    OBVIOUS
  <2> HIDE DEF b, u, a
  <2> DEFINE l == b.left[d]
             l1 == Spend(l, n)
  <2>5. l \in Nat /\ l1 \in Nat /\ l1 <= l /\ (n <= l => l1 + n = l)
    <3>1. l \in Nat
      BY <2>1
    <3> HIDE DEF l
    <3> QED
      BY <3>1 DEF Spend, SmallerOf
  <2> DEFINE b1 == [b EXCEPT !.left[d] = l1]
             u1 == [u EXCEPT ![d] = @ + n]
  <2>6. /\ b1 \in Band /\ b1.limit = b.limit
        /\ b1.left = [b.left EXCEPT ![d] = l1]
    <3> HIDE DEF l1
    <3> QED
      BY <2>1, <2>5 DEF Band
  <2>7. /\ \A e \in Directions : b1.left[e] = IF e = d THEN l1 ELSE b.left[e]
        /\ \A e \in Directions : b1.left[e] \in Nat
    <3> HIDE DEF l1, b1
    <3> QED
      BY <2>1, <2>5, <2>6
  <2>8. /\ u1 \in [Directions -> Nat]
        /\ \A e \in Directions : u1[e] = IF e = d THEN u[e] + n ELSE u[e]
    BY <2>1
  <2>9. /\ band'[k] = IF k \in UsedBy(io) /\ IsLimited(k) THEN b1 ELSE b
        /\ used'[k] = IF k \in Binding(io) THEN u1 ELSE u
    BY <2>2
  <2> HIDE DEF b1, u1, l1, l
  <2>10. ASSUME NEW e \in Directions, IsLimited(k) PROVE band'[k].left[e] + used'[k][e] <= a[e]
    <3>1. b.left[e] \in Nat /\ u[e] \in Nat /\ a[e] \in Nat /\ b.left[e] + u[e] <= a[e] /\ b.left[d] = l
      BY <2>1, <2>3, <2>10 DEF l
    <3> DEFINE x == b.left[e]
               y == u[e]
               z == a[e]
    <3>2. CASE k \in Binding(io)
      <4>1. band'[k] = b1 /\ used'[k] = u1
        BY <2>4, <2>9, <3>2
      <4>2. CASE e = d
        <5>1. band'[k].left[e] = l1 /\ used'[k][e] = y + n
          BY <2>7, <2>8, <4>1, <4>2
        <5>2. x = l /\ n <= l
          BY <2>4, <3>1, <3>2, <4>2
        <5>3. x \in Nat /\ y \in Nat /\ z \in Nat /\ x + y <= z
          BY <3>1
        <5> HIDE DEF x, y, z
        <5>4. l1 + (y + n) <= z
          BY <2>5, <5>2, <5>3
        <5> QED
          BY <5>1, <5>4 DEF z
      <4>3. CASE e # d
        BY <2>7, <2>8, <3>1, <4>1, <4>3
      <4> QED
        BY <4>2, <4>3
    <3>3. CASE k \notin Binding(io)
      <4>1. used'[k] = u
        BY <2>9, <3>3
      <4>2. band'[k].left[e] <= x /\ band'[k].left[e] \in Nat
        <5>1. CASE k \in UsedBy(io) /\ IsLimited(k)
          <6>1. band'[k].left[e] = IF e = d THEN l1 ELSE x
            BY <2>7, <2>9, <5>1
          <6>2. e = d => x = l
            BY <3>1
          <6>3. x \in Nat
            BY <3>1
          <6> HIDE DEF x
          <6> QED
            BY <2>5, <6>1, <6>2, <6>3
        <5>2. CASE ~(k \in UsedBy(io) /\ IsLimited(k))
          BY <2>9, <3>1, <5>2
        <5> QED
          BY <5>1, <5>2
      <4>3. x \in Nat /\ y \in Nat /\ z \in Nat /\ x + y <= z /\ used'[k][e] = y
        BY <3>1, <4>1
      <4> DEFINE x1 == band'[k].left[e]
      <4>4. x1 <= x /\ x1 \in Nat
        BY <4>2
      <4> HIDE DEF x, y, z, x1
      <4>5. x1 + y <= z
        BY <4>3, <4>4
      <4> QED
        BY <4>3, <4>5 DEF x1, z
    <3> QED
      BY <3>2, <3>3
  <2>11. band'[k] \in Band /\ used'[k] \in [Directions -> Nat] /\ band'[k].limit = band[k].limit
    BY <2>1, <2>6, <2>8, <2>9 DEF b
  <2> QED
    BY <2>10, <2>11 DEF a
<1>2. band' \in [Nodes -> Band] /\ used' \in [Nodes -> [Directions -> Nat]]
  <2> DEFINE bb(k) == IF k \in UsedBy(io) /\ IsLimited(k) THEN [band[k] EXCEPT !.left[d] = Spend(@, n)] ELSE band[k]
             uu(k) == IF k \in Binding(io) THEN [used[k] EXCEPT ![d] = @ + n] ELSE used[k]
  <2>1. band' = [k \in Nodes |-> bb(k)] /\ used' = [k \in Nodes |-> uu(k)]
    BY DEF CountUse
  <2> HIDE DEF bb, uu
  <2>2. \A k \in Nodes : bb(k) \in Band /\ uu(k) \in [Directions -> Nat]
    BY <1>1, <2>1
  <2> QED
    BY <2>1, <2>2
<1>3. NoneOverdrawn'
  <2>1. \A k \in Nodes : IsLimited(k)' <=> IsLimited(k)
    BY <1>1 DEF IsLimited
  <2> QED
    BY <1>1, <2>1 DEF NoneOverdrawn
<1> QED
  BY <1>2, <1>3

\* What a connection sends leaves its queue, and counts as far as it is piece data.
LEMMA SentKeeps ==
    ASSUME IoInv, NEW io \in Ios, NEW n \in Nat, n <= queued[io],
           \A k \in Binding(io) : k \in Nodes /\ IsLimited(k) /\ k \in UsedBy(io) /\ n <= band[k].left["UP"],
           Sent(io, n), UNCHANGED allotted
    PROVE  /\ band' \in [Nodes -> Band] /\ used' \in [Nodes -> [Directions -> Nat]]
           /\ outbuf' \in [Ios -> Seq(Chunk)] /\ queued' \in [Ios -> Nat]
           /\ NoneOverdrawn' /\ BytesCounted'
<1> DEFINE s == outbuf[io]
           rest == WriteOff(s, n)
           moved == PieceIn(s) - PieceIn(rest)
<1>1. s \in Seq(Chunk) /\ Total(s) = queued[io] /\ queued[io] \in Nat
  BY DEF IoInv, IoTypes, BytesCounted
<1>2. rest \in Seq(Chunk) /\ Total(rest) = queued[io] - n /\ moved \in Nat /\ moved <= n
  <2>1. n \in 0..Total(s)
    BY <1>1
  <2> HIDE DEF s
  <2>2. rest \in Seq(Chunk) /\ Total(rest) = Total(s) - n /\ moved \in 0..n
    BY <1>1, <2>1, WriteOffFits
  <2> HIDE DEF rest, moved
  <2> QED
    BY <1>1, <2>2
<1>3. /\ outbuf' = [outbuf EXCEPT ![io] = rest]
      /\ queued' = [queued EXCEPT ![io] = @ - n]
      /\ CountUse(io, "UP", moved)
  BY DEF Sent
<1> HIDE DEF s, rest, moved
<1>4. /\ band' \in [Nodes -> Band] /\ used' \in [Nodes -> [Directions -> Nat]]
      /\ NoneOverdrawn'
  <2>1. \A k \in Binding(io) : k \in Nodes /\ IsLimited(k) /\ k \in UsedBy(io) /\ moved <= band[k].left["UP"]
    <3> SUFFICES ASSUME NEW k \in Binding(io)
                 PROVE  k \in Nodes /\ IsLimited(k) /\ k \in UsedBy(io) /\ moved <= band[k].left["UP"]
      OBVIOUS
    <3>1. k \in Nodes /\ IsLimited(k) /\ k \in UsedBy(io) /\ n <= band[k].left["UP"]
      OBVIOUS
    <3>2. band[k].left["UP"] \in Nat
      BY <3>1, BandFields DEF IoInv, Directions
    <3> QED
      BY <1>2, <3>1, <3>2
  <2> DEFINE up == "UP"
  <2>2. up \in Directions
    BY DEF Directions
  <2> HIDE DEF up
  <2>3. /\ \A k \in Binding(io) : k \in Nodes /\ IsLimited(k) /\ k \in UsedBy(io) /\ moved <= band[k].left[up]
        /\ CountUse(io, up, moved) /\ IoTypes /\ NoneOverdrawn /\ moved \in Nat /\ UNCHANGED allotted
    BY <1>2, <1>3, <2>1 DEF IoInv, up
  <2> QED
    BY <2>2, <2>3, UseKeeps
<1>5. queued[io] - n \in Nat
  BY <1>1
<1>6. outbuf' \in [Ios -> Seq(Chunk)] /\ queued' \in [Ios -> Nat]
  BY <1>2, <1>3, <1>5 DEF IoInv, IoTypes
<1>7. ASSUME NEW i \in Ios PROVE Total(outbuf'[i]) = queued'[i]
  <2>1. outbuf'[i] = (IF i = io THEN rest ELSE outbuf[i]) /\ queued'[i] = IF i = io THEN queued[io] - n ELSE queued[i]
    BY <1>3 DEF IoInv, IoTypes
  <2>2. Total(outbuf[i]) = queued[i]
    BY DEF IoInv, BytesCounted
  <2>3. CASE i = io
    BY <1>2, <2>1, <2>3
  <2>4. CASE i # io
    BY <2>1, <2>2, <2>4
  <2> QED
    BY <2>3, <2>4
<1> QED
  BY <1>4, <1>6, <1>7 DEF BytesCounted

\* Connections that are let go of lose a reference, and their queue with the last.
LEMMA ReleasedKeeps ==
    ASSUME IoInv, NEW S \in SUBSET Ios, \A io \in S : refs[io] > 0, Released(S)
    PROVE  /\ outbuf' \in [Ios -> Seq(Chunk)] /\ queued' \in [Ios -> Nat] /\ refs' \in [Ios -> Nat]
           /\ BytesCounted'
           /\ \A io \in Ios : refs'[io] = IF io \in S THEN refs[io] - 1 ELSE refs[io]
<1> DEFINE gone == {io \in S : refs[io] = 1}
<1>1. /\ refs' = [io \in Ios |-> IF io \in S THEN refs[io] - 1 ELSE refs[io]]
      /\ outbuf' = [io \in Ios |-> IF io \in gone THEN <<>> ELSE outbuf[io]]
      /\ queued' = [io \in Ios |-> IF io \in gone THEN 0 ELSE queued[io]]
  BY DEF Released
<1> HIDE DEF gone
<1>2. \A io \in Ios : (IF io \in S THEN refs[io] - 1 ELSE refs[io]) \in Nat
  BY DEF IoInv, IoTypes
<1>3. outbuf' \in [Ios -> Seq(Chunk)] /\ queued' \in [Ios -> Nat] /\ refs' \in [Ios -> Nat]
  BY <1>1, <1>2, TotalEmpty DEF IoInv, IoTypes
<1>4. ASSUME NEW io \in Ios PROVE Total(outbuf'[io]) = queued'[io]
  <2>1. Total(outbuf[io]) = queued[io]
    BY DEF IoInv, BytesCounted
  <2>2. CASE io \in gone
    BY <1>1, <2>2, TotalEmpty
  <2>3. CASE io \notin gone
    BY <1>1, <2>1, <2>3
  <2> QED
    BY <2>2, <2>3
<1> QED
  BY <1>1, <1>3, <1>4 DEF BytesCounted

-----------------------------------------------------------------------------
(* The steps.                                                              *)

LEMMA IoInitInv == IoInit => IoInv
<1> SUFFICES ASSUME IoInit PROVE IoInv
  OBVIOUS
<1>1. 0 \in Nat /\ Idle \in IoPulses
  BY DEF Idle, IoPulses
<1>2. IoTypes
  BY <1>1, TotalEmpty DEF IoInit, IoTypes, Band
<1>3. NoneOverdrawn
  BY DEF IoInit, NoneOverdrawn, IsLimited
<1>4. BytesCounted
  BY TotalEmpty DEF IoInit, BytesCounted
<1>5. RefsCounted /\ PulseFits
  BY DEF IoInit, RefsCounted, PulseFits, Idle
<1> QED
  BY <1>2, <1>3, <1>4, <1>5 DEF IoInv

LEMMA IoWriteKeeps ==
    ASSUME IoInv, NEW io \in Ios, IoWrite(io)
    PROVE  IoInv'
<1>1. PICK len \in 1..2, piece \in BOOLEAN : Queue(io, [len |-> len, piece |-> piece])
  BY DEF IoWrite
<1> DEFINE c == [len |-> len, piece |-> piece]
<1>2. c \in Chunk /\ c.len = len /\ len \in Nat
  BY DEF Chunk
<1>3. outbuf' = [outbuf EXCEPT ![io] = Append(@, c)] /\ queued' = [queued EXCEPT ![io] = @ + c.len]
  BY <1>1 DEF Queue
<1>4. UNCHANGED <<band, owned, refs, enabled, pulse, allotted, used>>
  BY DEF IoWrite
<1> HIDE DEF c
<1>5. /\ Append(outbuf[io], c) \in Seq(Chunk) /\ Total(Append(outbuf[io], c)) = queued[io] + len
      /\ queued[io] \in Nat
  <2>1. outbuf[io] \in Seq(Chunk) /\ Total(outbuf[io]) = queued[io] /\ queued[io] \in Nat
    BY DEF IoInv, IoTypes, BytesCounted
  <2> QED
    BY <1>2, <2>1, TotalAppend
<1>6. IoTypes'
  BY <1>2, <1>3, <1>4, <1>5 DEF IoInv, IoTypes
<1>7. ASSUME NEW i \in Ios PROVE Total(outbuf'[i]) = queued'[i]
  <2>1. /\ outbuf'[i] = IF i = io THEN Append(outbuf[io], c) ELSE outbuf[i]
        /\ queued'[i] = IF i = io THEN queued[io] + len ELSE queued[i]
    BY <1>2, <1>3 DEF IoInv, IoTypes
  <2>2. Total(outbuf[i]) = queued[i]
    BY DEF IoInv, BytesCounted
  <2>3. CASE i = io
    BY <1>5, <2>1, <2>3
  <2>4. CASE i # io
    BY <2>1, <2>2, <2>4
  <2> QED
    BY <2>3, <2>4
<1>8. NoneOverdrawn' /\ RefsCounted' /\ PulseFits'
  BY <1>4 DEF IoInv, NoneOverdrawn, IsLimited, RefsCounted, PulseFits
<1> QED
  BY <1>6, <1>7, <1>8 DEF IoInv, BytesCounted

\* Nothing but the bandwidths and the queues.
LEMMA TrafficKeeps ==
    ASSUME IoInv, IoTypes', NoneOverdrawn', BytesCounted', UNCHANGED <<owned, refs>>,
           pulse'.held = pulse.held, PulseFits'
    PROVE  IoInv'
BY DEF IoInv, RefsCounted

LEMMA EventWriteKeeps ==
    ASSUME IoInv, NEW io \in Ios, EventWrite(io)
    PROVE  IoInv'
<1> DEFINE up == "UP"
<1>1. up \in Directions
  BY DEF Directions
<1>2. PICK room \in Clamp(io, up, queued[io]) :
         \/ /\ room = 0
            /\ Enable(io, up, FALSE)
            /\ UNCHANGED <<band, outbuf, queued, used>>
         \/ /\ room > 0
            /\ \E n \in 0..room : Sent(io, n) /\ Enable(io, up, n < queued[io])
  BY DEF EventWrite
<1>3. UNCHANGED <<owned, refs, pulse, allotted>>
  BY DEF EventWrite
<1> HIDE DEF up
<1>4. /\ room \in Nat /\ room <= queued[io] /\ queued[io] \in Nat
      /\ \A n \in Binding(io) : n \in Nodes /\ IsLimited(n) /\ n \in UsedBy(io) /\ room <= band[n].left[up]
  <2>1. IoTypes /\ queued[io] \in Nat
    BY DEF IoInv, IoTypes
  <2> QED
    BY <1>1, <2>1, ClampBinds
<1>5. ASSUME NEW on, Enable(io, up, on) PROVE enabled' \in [Ios -> SUBSET Directions]
  BY <1>1, <1>5 DEF Enable, IoInv, IoTypes
<1>6. PulseFits' /\ pulse'.held = pulse.held
  BY <1>3 DEF IoInv, PulseFits
<1>7. CASE room = 0 /\ Enable(io, up, FALSE) /\ UNCHANGED <<band, outbuf, queued, used>>
  <2>1. enabled' \in [Ios -> SUBSET Directions]
    BY <1>5, <1>7
  <2>2. IoTypes' /\ NoneOverdrawn' /\ BytesCounted'
    BY <1>3, <1>7, <2>1 DEF IoInv, IoTypes, NoneOverdrawn, IsLimited, BytesCounted
  <2> QED
    BY <1>3, <1>6, <2>2, TrafficKeeps
<1>8. CASE \E n \in 0..room : Sent(io, n) /\ Enable(io, up, n < queued[io])
  <2>1. PICK n \in 0..room : Sent(io, n) /\ Enable(io, up, n < queued[io])
    BY <1>8
  <2>2. n \in Nat /\ n <= queued[io]
    BY <1>4
  <2>3. \A k \in Binding(io) : k \in Nodes /\ IsLimited(k) /\ k \in UsedBy(io) /\ n <= band[k].left["UP"]
    <3> SUFFICES ASSUME NEW k \in Binding(io)
                 PROVE  k \in Nodes /\ IsLimited(k) /\ k \in UsedBy(io) /\ n <= band[k].left[up]
      BY DEF up
    <3>1. k \in Nodes /\ IsLimited(k) /\ k \in UsedBy(io) /\ room <= band[k].left[up]
      BY <1>4
    <3>2. band[k].left[up] \in Nat
      BY <1>1, <3>1, BandFields DEF IoInv
    <3> QED
      BY <1>4, <3>1, <3>2
  <2>4. /\ band' \in [Nodes -> Band] /\ used' \in [Nodes -> [Directions -> Nat]]
        /\ outbuf' \in [Ios -> Seq(Chunk)] /\ queued' \in [Ios -> Nat]
        /\ NoneOverdrawn' /\ BytesCounted'
    BY <1>3, <2>1, <2>2, <2>3, SentKeeps
  <2>5. enabled' \in [Ios -> SUBSET Directions]
    BY <1>5, <2>1
  <2>6. IoTypes'
    BY <1>3, <2>4, <2>5 DEF IoInv, IoTypes
  <2> QED
    BY <1>3, <1>6, <2>4, <2>6, TrafficKeeps
<1> QED
  BY <1>2, <1>7, <1>8

\* What is clamped may be used, in part or whole.
LEMMA ClampedUse ==
    ASSUME IoTypes, NEW io \in Ios, NEW d \in Directions, NEW want \in Nat, NEW room \in Clamp(io, d, want),
           NEW n \in Nat, n <= room
    PROVE  /\ n <= want
           /\ \A k \in Binding(io) : k \in Nodes /\ IsLimited(k) /\ k \in UsedBy(io) /\ n <= band[k].left[d]
<1>1. /\ room \in Nat /\ room <= want
      /\ \A k \in Binding(io) : k \in Nodes /\ IsLimited(k) /\ k \in UsedBy(io) /\ room <= band[k].left[d]
  BY ClampBinds
<1>2. ASSUME NEW k \in Binding(io)
      PROVE  k \in Nodes /\ IsLimited(k) /\ k \in UsedBy(io) /\ n <= band[k].left[d]
  <2>1. k \in Nodes /\ IsLimited(k) /\ k \in UsedBy(io) /\ room <= band[k].left[d]
    BY <1>1
  <2>2. band[k].left[d] \in Nat
    BY <2>1, BandFields
  <2> QED
    BY <1>1, <2>1, <2>2
<1> QED
  BY <1>1, <1>2

LEMMA EventReadKeeps ==
    ASSUME IoInv, NEW io \in Ios, EventRead(io)
    PROVE  IoInv'
<1> DEFINE down == "DOWN"
           two == 2
<1>1. down \in Directions /\ two \in Nat
  BY DEF Directions
<1>2. PICK room \in Clamp(io, down, two) :
         \/ /\ room = 0
            /\ Enable(io, down, FALSE)
            /\ UNCHANGED <<band, used>>
         \/ /\ room > 0
            /\ \E piece \in 0..room : CountUse(io, down, piece)
            /\ UNCHANGED enabled
  BY DEF EventRead
<1>3. UNCHANGED <<outbuf, queued, owned, refs, pulse, allotted>>
  BY DEF EventRead
<1> HIDE DEF down, two
<1>4. IoTypes /\ room \in Nat
  <2>1. IoTypes
    BY DEF IoInv
  <2> QED
    BY <1>1, <2>1, ClampBinds
<1>5. PulseFits' /\ pulse'.held = pulse.held /\ BytesCounted'
  BY <1>3 DEF IoInv, PulseFits, BytesCounted
<1>6. CASE Enable(io, down, FALSE) /\ UNCHANGED <<band, used>>
  <2>1. enabled' \in [Ios -> SUBSET Directions]
    BY <1>1, <1>4, <1>6 DEF Enable, IoTypes
  <2>2. IoTypes' /\ NoneOverdrawn'
    BY <1>3, <1>6, <2>1 DEF IoInv, IoTypes, NoneOverdrawn, IsLimited
  <2> QED
    BY <1>3, <1>5, <2>2, TrafficKeeps
<1>7. CASE (\E piece \in 0..room : CountUse(io, down, piece)) /\ UNCHANGED enabled
  <2>1. PICK n \in 0..room : CountUse(io, down, n)
    BY <1>7
  <2>2. n \in Nat /\ n <= room
    BY <1>4
  <2>3. \A k \in Binding(io) : k \in Nodes /\ IsLimited(k) /\ k \in UsedBy(io) /\ n <= band[k].left[down]
    BY <1>1, <1>4, <2>2, ClampedUse
  <2>4. NoneOverdrawn
    BY DEF IoInv
  <2>5. /\ band' \in [Nodes -> Band] /\ used' \in [Nodes -> [Directions -> Nat]]
        /\ NoneOverdrawn'
    BY <1>1, <1>3, <1>4, <2>1, <2>2, <2>3, <2>4, UseKeeps
  <2>6. IoTypes'
    BY <1>3, <1>7, <2>5 DEF IoInv, IoTypes
  <2> QED
    BY <1>3, <1>5, <2>5, <2>6, TrafficKeeps
<1> QED
  BY <1>2, <1>6, <1>7

LEMMA IoCloseKeeps ==
    ASSUME IoInv, NEW io \in Ios, IoClose(io)
    PROVE  IoInv'
<1>1. /\ io \in owned /\ owned' = owned \ {io} /\ Released({io})
      /\ enabled' = [enabled EXCEPT ![io] = {}]
      /\ UNCHANGED <<band, pulse, allotted, used>>
  BY DEF IoClose
<1>2. \A i \in Ios : refs[i] \in Nat
  BY DEF IoInv, IoTypes
<1>3. refs[io] > 0
  BY <1>1 DEF IoInv, RefsCounted
<1>4. /\ outbuf' \in [Ios -> Seq(Chunk)] /\ queued' \in [Ios -> Nat] /\ refs' \in [Ios -> Nat]
      /\ BytesCounted'
      /\ \A i \in Ios : refs'[i] = IF i \in {io} THEN refs[i] - 1 ELSE refs[i]
  <2>1. {io} \in SUBSET Ios /\ \A i \in {io} : refs[i] > 0
    BY <1>3
  <2> QED
    BY <1>1, <2>1, ReleasedKeeps
<1>5. IoTypes'
  BY <1>1, <1>4 DEF IoInv, IoTypes
<1>6. NoneOverdrawn' /\ PulseFits'
  BY <1>1 DEF IoInv, NoneOverdrawn, IsLimited, PulseFits
<1>7. ASSUME NEW i \in Ios
      PROVE  refs'[i] = (IF i \in owned' THEN 1 ELSE 0) + (IF i \in pulse.held THEN 1 ELSE 0)
  <2>1. refs[i] = (IF i \in owned THEN 1 ELSE 0) + (IF i \in pulse.held THEN 1 ELSE 0)
    BY DEF IoInv, RefsCounted
  <2> QED
    BY <1>1, <1>4, <2>1
<1> QED
  BY <1>1, <1>4, <1>5, <1>6, <1>7 DEF IoInv, RefsCounted

LEMMA SetLimitKeeps ==
    ASSUME IoInv, NEW n \in {"session", "torrent"}, NEW l \in SpeedLimits \cup {Unlimited}, SetLimit(n, l)
    PROVE  IoInv'
<1>1. /\ band' = [band EXCEPT ![n].limit = l]
      /\ allotted' = [allotted EXCEPT ![n] = band[n].left]
      /\ used' = [used EXCEPT ![n] = [d \in Directions |-> 0]]
      /\ UNCHANGED <<outbuf, queued, owned, refs, enabled, pulse>>
  BY DEF SetLimit
<1>2. n \in Nodes /\ IoTypes
  BY DEF Nodes, IoInv
<1>3. /\ \A k \in Nodes : /\ band'[k] = IF k = n THEN [band[k] EXCEPT !.limit = l] ELSE band[k]
                          /\ allotted'[k] = IF k = n THEN band[k].left ELSE allotted[k]
                          /\ used'[k] = IF k = n THEN [d \in Directions |-> 0] ELSE used[k]
      /\ band' \in [Nodes -> Band] /\ allotted' \in [Nodes -> [Directions -> Nat]]
      /\ used' \in [Nodes -> [Directions -> Nat]]
  <2>1. [band[n] EXCEPT !.limit = l] \in Band /\ band[n].left \in [Directions -> Nat]
        /\ [d \in Directions |-> 0] \in [Directions -> Nat]
    <3> DEFINE b == band[n]
    <3>1. b \in Band
      BY <1>2 DEF IoTypes
    <3> HIDE DEF b
    <3>2. [b EXCEPT !.limit = l] \in Band
      BY <3>1 DEF Band
    <3>3. b.left \in [Directions -> Nat]
      BY <3>1 DEF Band
    <3>4. [d \in Directions |-> 0] \in [Directions -> Nat]
      OBVIOUS
    <3> QED
      BY <3>2, <3>3, <3>4 DEF b
  <2> QED
    BY <1>1, <1>2, <2>1 DEF IoTypes
<1>4. IoTypes'
  BY <1>1, <1>2, <1>3 DEF IoTypes
<1>5. ASSUME NEW k \in Nodes, NEW d \in Directions, IsLimited(k)'
      PROVE  band'[k].left[d] + used'[k][d] <= allotted'[k][d]
  <2>1. CASE k = n
    <3>1. band[k] \in Band /\ band[k].left[d] \in Nat
      BY <1>2, BandFields
    <3>2. band'[k].left = band[k].left /\ used'[k][d] = 0 /\ allotted'[k] = band[k].left
      BY <1>3, <2>1, <3>1 DEF Band
    <3> QED
      BY <3>1, <3>2
  <2>2. CASE k # n
    BY <1>3, <1>5, <2>2 DEF IoInv, NoneOverdrawn, IsLimited
  <2> QED
    BY <2>1, <2>2
<1>6. BytesCounted' /\ RefsCounted' /\ PulseFits'
  BY <1>1 DEF IoInv, BytesCounted, RefsCounted, PulseFits
<1> QED
  BY <1>4, <1>5, <1>6 DEF IoInv, NoneOverdrawn

LEMMA SetHonorKeeps ==
    ASSUME IoInv, SetHonor
    PROVE  IoInv'
<1> DEFINE n == "torrent"
<1>1. /\ band' = [band EXCEPT ![n].honor = ~@]
      /\ UNCHANGED <<outbuf, queued, owned, refs, enabled, pulse, allotted, used>>
  BY DEF SetHonor
<1>2. n \in Nodes /\ IoTypes
  BY DEF Nodes, IoInv
<1> HIDE DEF n
<1>3. /\ \A k \in Nodes : band'[k] = IF k = n THEN [band[k] EXCEPT !.honor = ~@] ELSE band[k]
      /\ band' \in [Nodes -> Band]
  <2>1. [band[n] EXCEPT !.honor = ~@] \in Band
    <3> DEFINE b == band[n]
               h == ~b.honor
    <3>1. b \in Band
      BY <1>2 DEF IoTypes
    <3>2. h \in BOOLEAN
      OBVIOUS
    <3> HIDE DEF b, h
    <3>3. [b EXCEPT !.honor = h] \in Band
      BY <3>1, <3>2 DEF Band
    <3> QED
      BY <3>3 DEF b, h
  <2> QED
    BY <1>1, <1>2, <2>1 DEF IoTypes
<1>4. \A k \in Nodes : band'[k].left = band[k].left /\ band'[k].limit = band[k].limit
  <2> TAKE k \in Nodes
  <2> DEFINE b == band[k]
             h == ~b.honor
  <2>1. b \in Band
    BY <1>2 DEF IoTypes
  <2>2. band'[k] = IF k = n THEN [b EXCEPT !.honor = h] ELSE b
    BY <1>3
  <2> HIDE DEF b, h
  <2>3. [b EXCEPT !.honor = h].left = b.left /\ [b EXCEPT !.honor = h].limit = b.limit
    BY <2>1 DEF Band
  <2> QED
    BY <2>2, <2>3 DEF b
<1>5. IoTypes'
  BY <1>1, <1>2, <1>3 DEF IoTypes
<1>6. NoneOverdrawn'
  BY <1>1, <1>4 DEF IoInv, NoneOverdrawn, IsLimited
<1>7. BytesCounted' /\ RefsCounted' /\ PulseFits'
  BY <1>1 DEF IoInv, BytesCounted, RefsCounted, PulseFits
<1> QED
  BY <1>5, <1>6, <1>7 DEF IoInv

LEMMA AllocateBeginKeeps ==
    ASSUME IoInv, NEW d \in Directions, AllocateBegin(d)
    PROVE  IoInv'
<1> DEFINE share == [n \in Nodes |-> IF IsLimited(n) THEN band[n].limit ELSE band[n].left[d]]
<1>1. /\ pulse = Idle
      /\ band' = [n \in Nodes |-> [band[n] EXCEPT !.left[d] = share[n]]]
      /\ allotted' = [n \in Nodes |-> [allotted[n] EXCEPT ![d] = share[n]]]
      /\ used' = [n \in Nodes |-> [used[n] EXCEPT ![d] = 0]]
      /\ refs' = [io \in Ios |-> IF Live(io) THEN refs[io] + 1 ELSE 0]
      /\ UNCHANGED <<outbuf, queued, owned, enabled>>
  BY DEF AllocateBegin
<1>2. PICK passes \in 2..3 :
         pulse' = [dir |-> d, flush |-> LiveIos, passes |-> passes, pool |-> {}, held |-> LiveIos]
  BY DEF AllocateBegin
<1>3. IoTypes
  BY DEF IoInv
<1>4. \A n \in Nodes : share[n] \in Nat
  <2>1. ASSUME NEW n \in Nodes, IsLimited(n) PROVE band[n].limit \in Nat
    BY <1>3, <2>1, BandFields, IoAssumption DEF IsLimited
  <2>2. ASSUME NEW n \in Nodes PROVE band[n].left[d] \in Nat
    BY <1>3, BandFields
  <2> QED
    BY <2>1, <2>2
<1> HIDE DEF share
<1>5. ASSUME NEW n \in Nodes
      PROVE  /\ band'[n] \in Band /\ band'[n].limit = band[n].limit
             /\ \A e \in Directions : /\ band'[n].left[e] = IF e = d THEN share[n] ELSE band[n].left[e]
                                      /\ allotted'[n][e] = IF e = d THEN share[n] ELSE allotted[n][e]
                                      /\ used'[n][e] = IF e = d THEN 0 ELSE used[n][e]
             /\ allotted'[n] \in [Directions -> Nat] /\ used'[n] \in [Directions -> Nat]
  <2> DEFINE b == band[n]
             x == share[n]
  <2>1. b \in Band /\ b.left \in [Directions -> Nat] /\ x \in Nat
        /\ allotted[n] \in [Directions -> Nat] /\ used[n] \in [Directions -> Nat]
    BY <1>3, <1>4, BandFields
  <2>2. /\ band'[n] = [b EXCEPT !.left[d] = x]
        /\ allotted'[n] = [allotted[n] EXCEPT ![d] = x]
        /\ used'[n] = [used[n] EXCEPT ![d] = 0]
    BY <1>1
  <2>3. b.limit = band[n].limit /\ b.left = band[n].left /\ x = share[n]
    OBVIOUS
  <2> HIDE DEF b, x
  <2>4. band'[n].left = [b.left EXCEPT ![d] = x] /\ band'[n].limit = b.limit /\ band'[n] \in Band
    BY <2>1, <2>2 DEF Band
  <2> QED
    BY <2>1, <2>2, <2>3, <2>4
<1>6. /\ band' \in [Nodes -> Band] /\ allotted' \in [Nodes -> [Directions -> Nat]]
      /\ used' \in [Nodes -> [Directions -> Nat]]
  <2> DEFINE bb(n) == [band[n] EXCEPT !.left[d] = share[n]]
             aa(n) == [allotted[n] EXCEPT ![d] = share[n]]
             uu(n) == [used[n] EXCEPT ![d] = 0]
  <2>1. band' = [n \in Nodes |-> bb(n)] /\ allotted' = [n \in Nodes |-> aa(n)] /\ used' = [n \in Nodes |-> uu(n)]
    BY <1>1
  <2> HIDE DEF bb, aa, uu
  <2>2. \A n \in Nodes : bb(n) \in Band /\ aa(n) \in [Directions -> Nat] /\ uu(n) \in [Directions -> Nat]
    BY <1>5, <2>1
  <2> QED
    BY <2>1, <2>2
<1>7. LiveIos \subseteq Ios /\ \A io \in Ios : io \in LiveIos <=> refs[io] > 0
  BY DEF LiveIos, Live
<1>8. refs' \in [Ios -> Nat] /\ \A io \in Ios : refs'[io] = IF refs[io] > 0 THEN refs[io] + 1 ELSE 0
  <2>1. \A io \in Ios : (IF Live(io) THEN refs[io] + 1 ELSE 0) \in Nat
    BY <1>3 DEF IoTypes
  <2> QED
    BY <1>1, <2>1 DEF Live
<1>9. pulse' \in IoPulses
  BY <1>2, <1>7 DEF IoPulses
<1>10. IoTypes'
  BY <1>1, <1>3, <1>6, <1>8, <1>9 DEF IoTypes
<1>11. ASSUME NEW n \in Nodes, NEW e \in Directions, IsLimited(n)'
       PROVE  band'[n].left[e] + used'[n][e] <= allotted'[n][e]
  <2>1. CASE e = d
    BY <1>4, <1>5, <2>1
  <2>2. CASE e # d
    <3>1. IsLimited(n)
      BY <1>5, <1>11 DEF IsLimited
    <3>2. band[n].left[e] + used[n][e] <= allotted[n][e]
      BY <3>1 DEF IoInv, NoneOverdrawn
    <3> QED
      BY <1>5, <2>2, <3>2
  <2> QED
    BY <2>1, <2>2
<1>12. ASSUME NEW io \in Ios
       PROVE  refs'[io] = (IF io \in owned' THEN 1 ELSE 0) + (IF io \in pulse'.held THEN 1 ELSE 0)
  <2>1. refs[io] = IF io \in owned THEN 1 ELSE 0
    BY <1>1 DEF IoInv, RefsCounted, Idle
  <2>2. pulse'.held = LiveIos /\ owned' = owned
    BY <1>1, <1>2
  <2> QED
    BY <1>7, <1>8, <2>1, <2>2
<1>13. PulseFits'
  BY <1>2 DEF PulseFits, Directions
<1>14. BytesCounted'
  BY <1>1 DEF IoInv, BytesCounted
<1> QED
  BY <1>10, <1>11, <1>12, <1>13, <1>14 DEF IoInv, NoneOverdrawn, RefsCounted

LEMMA AllocateFlushKeeps ==
    ASSUME IoInv, NEW io \in Ios, AllocateFlush(io)
    PROVE  IoInv'
<1> DEFINE up == "UP"
           want == ProtocolInFront(outbuf[io])
<1>1. up \in Directions
  BY DEF Directions
<1>2. PICK room \in Clamp(io, up, want) : \E n \in 0..room : Sent(io, n)
  BY DEF AllocateFlush
<1>3. /\ pulse' = [pulse EXCEPT !.flush = @ \ {io}]
      /\ UNCHANGED <<owned, refs, enabled, allotted, ioEvents>>
  BY DEF AllocateFlush
<1>4. want \in Nat /\ want <= queued[io] /\ queued[io] \in Nat
  <2>1. outbuf[io] \in Seq(Chunk) /\ Total(outbuf[io]) = queued[io]
    BY DEF IoInv, IoTypes, BytesCounted
  <2>2. want \in 0..Total(outbuf[io]) /\ Total(outbuf[io]) \in Nat
    BY <2>1, FrontIsPart
  <2> HIDE DEF want
  <2> QED
    BY <2>1, <2>2
<1> HIDE DEF want, up
<1>5. IoTypes /\ pulse \in IoPulses
  BY DEF IoInv, IoTypes
<1>6. room \in Nat
  BY <1>1, <1>4, <1>5, ClampBinds
<1>7. PICK n \in 0..room : Sent(io, n)
  BY <1>2
<1>8. n \in Nat /\ n <= room
  BY <1>6
<1>9. /\ n <= want
      /\ \A k \in Binding(io) : k \in Nodes /\ IsLimited(k) /\ k \in UsedBy(io) /\ n <= band[k].left[up]
  BY <1>1, <1>4, <1>5, <1>8, ClampedUse
<1>10. n <= queued[io]
  BY <1>4, <1>8, <1>9
<1>11. \A k \in Binding(io) : k \in Nodes /\ IsLimited(k) /\ k \in UsedBy(io) /\ n <= band[k].left["UP"]
  BY <1>9 DEF up
<1>12. /\ band' \in [Nodes -> Band] /\ used' \in [Nodes -> [Directions -> Nat]]
       /\ outbuf' \in [Ios -> Seq(Chunk)] /\ queued' \in [Ios -> Nat]
       /\ NoneOverdrawn' /\ BytesCounted'
  BY <1>3, <1>7, <1>8, <1>10, <1>11, SentKeeps
<1>13. /\ pulse' \in IoPulses /\ pulse'.held = pulse.held /\ pulse'.flush = pulse.flush \ {io}
       /\ pulse'.pool = pulse.pool /\ pulse'.dir = pulse.dir /\ io \in pulse.flush
  <2>1. io \in pulse.flush
    BY DEF AllocateFlush
  <2> QED
    BY <1>3, <1>5, <2>1 DEF IoPulses
<1>14. IoTypes'
  BY <1>3, <1>5, <1>12, <1>13 DEF IoTypes
<1>15. PulseFits'
  BY <1>13 DEF IoInv, PulseFits, Idle
<1> QED
  BY <1>3, <1>12, <1>13, <1>14, <1>15, TrafficKeeps

LEMMA AllocatePassKeeps ==
    ASSUME IoInv, AllocatePass
    PROVE  IoInv'
<1>1. /\ pulse # Idle /\ pulse.passes > 0
      /\ pulse' = [pulse EXCEPT !.passes = @ - 1, !.pool = pulse.held]
      /\ UNCHANGED <<band, outbuf, queued, owned, refs, enabled, allotted, used, ioEvents>>
  BY DEF AllocatePass
<1>2. IoTypes /\ pulse \in IoPulses
  BY DEF IoInv, IoTypes
<1>3. pulse.passes - 1 \in Nat
  <2>1. pulse.passes \in Nat
    BY <1>2 DEF IoPulses
  <2> QED
    BY <1>1, <2>1
<1>4. /\ pulse' \in IoPulses /\ pulse'.held = pulse.held /\ pulse'.flush = pulse.flush
      /\ pulse'.pool = pulse.held /\ pulse'.dir = pulse.dir
  BY <1>1, <1>2, <1>3 DEF IoPulses
<1>5. IoTypes'
  BY <1>1, <1>2, <1>4 DEF IoTypes
<1>6. NoneOverdrawn' /\ BytesCounted'
  BY <1>1 DEF IoInv, NoneOverdrawn, IsLimited, BytesCounted
<1>7. PulseFits'
  BY <1>1, <1>4 DEF IoInv, PulseFits
<1> QED
  BY <1>1, <1>4, <1>5, <1>6, <1>7, TrafficKeeps

LEMMA AllocateTurnKeeps ==
    ASSUME IoInv, NEW io \in Ios, AllocateTurn(io)
    PROVE  IoInv'
<1> DEFINE d == pulse.dir
           want == IF d = "UP" THEN SmallerOf(IoChunk, queued[io]) ELSE IoChunk
<1>1. IoTypes /\ pulse \in IoPulses /\ NoneOverdrawn
  BY DEF IoInv, IoTypes
<1>2. io \in pulse.pool /\ UNCHANGED <<owned, refs, enabled, allotted, ioEvents>>
  BY DEF AllocateTurn
<1>3. d \in Directions
  BY <1>1, <1>2 DEF IoPulses, IoInv, PulseFits, Idle
<1>4. PICK room \in Clamp(io, d, want) : \E n \in 0..room :
             /\ pulse' = [pulse EXCEPT !.pool = IF n = IoChunk THEN @ ELSE @ \ {io}]
             /\ IF d = "UP" THEN Sent(io, n)
                ELSE (\E piece \in 0..n : CountUse(io, d, piece)) /\ UNCHANGED <<outbuf, queued>>
  BY DEF AllocateTurn
<1>5. want \in Nat /\ (d = "UP" => want <= queued[io]) /\ queued[io] \in Nat
  <2>1. IoChunk \in Nat /\ queued[io] \in Nat
    BY <1>1, IoAssumption DEF IoTypes
  <2>2. SmallerOf(IoChunk, queued[io]) \in Nat /\ SmallerOf(IoChunk, queued[io]) <= queued[io]
    BY <2>1 DEF SmallerOf
  <2> QED
    BY <2>1, <2>2
<1> HIDE DEF want
<1>6. room \in Nat
  BY <1>1, <1>3, <1>5, ClampBinds
<1>7. PICK n \in 0..room :
             /\ pulse' = [pulse EXCEPT !.pool = IF n = IoChunk THEN @ ELSE @ \ {io}]
             /\ IF d = "UP" THEN Sent(io, n)
                ELSE (\E piece \in 0..n : CountUse(io, d, piece)) /\ UNCHANGED <<outbuf, queued>>
  BY <1>4
<1>8. n \in Nat /\ n <= room
  BY <1>6
<1>9. /\ pulse' \in IoPulses /\ pulse'.held = pulse.held /\ pulse'.flush = pulse.flush
      /\ pulse'.pool \subseteq pulse.pool /\ pulse'.dir = pulse.dir
  <2> DEFINE pool == IF n = IoChunk THEN pulse.pool ELSE pulse.pool \ {io}
  <2>1. pool \subseteq pulse.pool
    OBVIOUS
  <2>2. pulse' = [pulse EXCEPT !.pool = pool]
    BY <1>7
  <2> HIDE DEF pool
  <2> QED
    BY <1>1, <2>1, <2>2 DEF IoPulses
<1>10. PulseFits'
  BY <1>2, <1>3, <1>9 DEF IoInv, PulseFits, Directions
<1>11. CASE d = "UP"
  <2>1. Sent(io, n)
    BY <1>7, <1>11
  <2>2. /\ n <= want
        /\ \A k \in Binding(io) : k \in Nodes /\ IsLimited(k) /\ k \in UsedBy(io) /\ n <= band[k].left[d]
    BY <1>1, <1>3, <1>5, <1>8, ClampedUse
  <2>3. n <= queued[io]
    BY <1>5, <1>8, <1>11, <2>2
  <2>4. \A k \in Binding(io) : k \in Nodes /\ IsLimited(k) /\ k \in UsedBy(io) /\ n <= band[k].left["UP"]
    BY <1>11, <2>2
  <2>5. /\ band' \in [Nodes -> Band] /\ used' \in [Nodes -> [Directions -> Nat]]
        /\ outbuf' \in [Ios -> Seq(Chunk)] /\ queued' \in [Ios -> Nat]
        /\ NoneOverdrawn' /\ BytesCounted'
    BY <1>2, <1>8, <2>1, <2>3, <2>4, SentKeeps
  <2>6. IoTypes'
    BY <1>1, <1>2, <1>9, <2>5 DEF IoTypes
  <2> QED
    BY <1>2, <1>9, <1>10, <2>5, <2>6, TrafficKeeps
<1>12. CASE d # "UP"
  <2>1. PICK piece \in 0..n : CountUse(io, d, piece)
    BY <1>7, <1>12
  <2>2. UNCHANGED <<outbuf, queued>>
    BY <1>7, <1>12
  <2>3. piece \in Nat /\ piece <= room
    BY <1>6, <1>8
  <2> HIDE DEF d
  <2>4. \A k \in Binding(io) : k \in Nodes /\ IsLimited(k) /\ k \in UsedBy(io) /\ piece <= band[k].left[d]
    BY <1>1, <1>3, <1>5, <2>3, ClampedUse
  <2>5. /\ band' \in [Nodes -> Band] /\ used' \in [Nodes -> [Directions -> Nat]]
        /\ NoneOverdrawn'
    BY <1>1, <1>2, <1>3, <2>1, <2>3, <2>4, UseKeeps
  <2>6. IoTypes' /\ BytesCounted'
    BY <1>1, <1>2, <1>9, <2>2, <2>5 DEF IoTypes, IoInv, BytesCounted
  <2> QED
    BY <1>2, <1>9, <1>10, <2>5, <2>6, TrafficKeeps
<1> QED
  BY <1>11, <1>12

LEMMA AllocateEndKeeps ==
    ASSUME IoInv, AllocateEnd
    PROVE  IoInv'
<1>1. /\ pulse # Idle /\ Released(pulse.held) /\ pulse' = Idle
      /\ UNCHANGED <<band, owned, allotted, used, ioEvents>>
  BY DEF AllocateEnd
<1>2. PICK on \in SUBSET pulse.held :
          enabled' = [io \in Ios |->
              IF io \notin owned THEN {}
              ELSE IF io \in on THEN enabled[io] \cup {pulse.dir} ELSE enabled[io] \ {pulse.dir}]
  BY DEF AllocateEnd
<1>3. IoTypes /\ pulse \in IoPulses
  BY DEF IoInv, IoTypes
<1>4. pulse.dir \in Directions /\ pulse.held \in SUBSET Ios
  BY <1>1, <1>3 DEF IoInv, PulseFits, IoPulses
<1>5. \A io \in pulse.held : refs[io] > 0
  BY <1>4 DEF IoInv, RefsCounted
<1>6. /\ outbuf' \in [Ios -> Seq(Chunk)] /\ queued' \in [Ios -> Nat] /\ refs' \in [Ios -> Nat]
      /\ BytesCounted'
      /\ \A io \in Ios : refs'[io] = IF io \in pulse.held THEN refs[io] - 1 ELSE refs[io]
  BY <1>1, <1>4, <1>5, ReleasedKeeps
<1>7. enabled' \in [Ios -> SUBSET Directions]
  BY <1>2, <1>3, <1>4 DEF IoTypes
<1>8. pulse' \in IoPulses /\ pulse'.held = {} /\ PulseFits'
  BY <1>1 DEF Idle, IoPulses, PulseFits
<1>9. IoTypes'
  BY <1>1, <1>3, <1>6, <1>7, <1>8 DEF IoTypes
<1>10. NoneOverdrawn'
  BY <1>1 DEF IoInv, NoneOverdrawn, IsLimited
<1>11. ASSUME NEW io \in Ios
       PROVE  refs'[io] = (IF io \in owned' THEN 1 ELSE 0) + (IF io \in pulse'.held THEN 1 ELSE 0)
  <2>1. refs[io] = (IF io \in owned THEN 1 ELSE 0) + (IF io \in pulse.held THEN 1 ELSE 0)
    BY DEF IoInv, RefsCounted
  <2> QED
    BY <1>1, <1>6, <1>8, <2>1
<1> QED
  BY <1>6, <1>8, <1>9, <1>10, <1>11 DEF IoInv, RefsCounted

LEMMA IoStep == IoInv /\ [IoNext]_ioVars => IoInv'
<1> SUFFICES ASSUME IoInv, [IoNext]_ioVars PROVE IoInv'
  OBVIOUS
<1>1. CASE UNCHANGED ioVars
  BY <1>1 DEF ioVars, IoInv, IoTypes, NoneOverdrawn, IsLimited, BytesCounted, RefsCounted, PulseFits
<1>2. ASSUME NEW io \in Ios,
             IoWrite(io) \/ EventWrite(io) \/ EventRead(io) \/ IoClose(io) \/ AllocateFlush(io) \/ AllocateTurn(io)
      PROVE  IoInv'
  BY <1>2, IoWriteKeeps, EventWriteKeeps, EventReadKeeps, IoCloseKeeps, AllocateFlushKeeps, AllocateTurnKeeps
<1>3. ASSUME NEW n \in {"session", "torrent"}, NEW l \in SpeedLimits \cup {Unlimited}, SetLimit(n, l)
      PROVE  IoInv'
  BY <1>3, SetLimitKeeps
<1>4. ASSUME NEW d \in Directions, AllocateBegin(d) PROVE IoInv'
  BY <1>4, AllocateBeginKeeps
<1>5. CASE SetHonor
  BY <1>5, SetHonorKeeps
<1>6. CASE AllocatePass
  BY <1>6, AllocatePassKeeps
<1>7. CASE AllocateEnd
  BY <1>7, AllocateEndKeeps
<1> QED
  BY <1>1, <1>2, <1>3, <1>4, <1>5, <1>6, <1>7 DEF IoNext

LEMMA IoInvSound == IoInv => IoTypeOK /\ WithinAllotment
<1> SUFFICES ASSUME IoInv PROVE IoTypeOK /\ WithinAllotment
  OBVIOUS
<1>1. IoTypeOK
  BY DEF IoInv, IoTypes, IoTypeOK
<1>2. pulse.flush \cup pulse.pool \cup owned \subseteq LiveIos
  <2>1. pulse.flush \subseteq pulse.held /\ pulse.pool \subseteq pulse.held /\ pulse.held \subseteq Ios /\ owned \subseteq Ios
    BY DEF IoInv, IoTypes, IoPulses, PulseFits
  <2>2. \A io \in Ios : io \in owned \/ io \in pulse.held => refs[io] > 0
    BY DEF IoInv, RefsCounted
  <2> QED
    BY <2>1, <2>2 DEF LiveIos, Live
<1> QED
  BY <1>1, <1>2 DEF IoInv, NoneOverdrawn, BytesCounted, WithinAllotment

\* Whatever the connections write, read and close, whatever limits are set and
\* however the turns of an allocation fall: no limited bandwidth gives more than it
\* was allotted, and a connection accounts for its bytes and its references.
THEOREM AllotmentsSound == IoSpec => []IoInv
<1>1. IoInit => IoInv
  BY IoInitInv
<1>2. IoInv /\ [IoNext]_ioVars => IoInv'
  BY IoStep
<1> QED
  BY <1>1, <1>2, PTL DEF IoSpec

-----------------------------------------------------------------------------
(***************************************************************************)
(* For every set of peers, however many of them lie, and metadata of any     *)
(* size: each of its pieces is needed or held, and what a peer will have     *)
(* heard of other peers is what we remember to have told it.                *)
(***************************************************************************)
Counts == WrongCounts \cup {MetaCount}
Pexes == [type : {"pex"}, added : SUBSET Addresses, dropped : SUBSET Addresses]
ToPeers == [type : {"request"}, piece : MetaPiece] \cup Pexes
ToUses == [type : {"handshake"}, pex : BOOLEAN, count : Counts]
            \cup [type : {"data"}, piece : MetaPiece, ok : BOOLEAN]
            \cup [type : {"reject"}, piece : MetaPiece]
Peermsgs == [supportsPex : BOOLEAN, supportsMeta : BOOLEAN, pex : SUBSET Addresses]
Metas == [count : {0} \cup Counts, needed : Seq(Node), good : SUBSET MetaPiece, bad : SUBSET MetaPiece,
          has : BOOLEAN, file : {"magnet", "torrent", "none"}]

ExtTypes ==
    /\ meta \in Metas /\ msgs \in [ExtPeers -> Peermsgs]
    /\ askedMeta \in [ExtPeers -> Seq(MetaPiece)]
    /\ toPeer \in [ExtPeers -> Seq(ToPeers)] /\ toUs \in [ExtPeers -> Seq(ToUses)]
    /\ connected \in SUBSET Addresses /\ told \in [ExtPeers -> SUBSET Addresses]
    /\ allowsPex \in BOOLEAN
    /\ \A p \in ExtPeers : Len(askedMeta[p]) <= MetadataReqq

PiecesOf(needed) == {needed[i].piece : i \in DOMAIN needed}
\* The pieces of metadata m are needed once or held.
MetaFits(m) ==
    /\ \A i, j \in DOMAIN m.needed : m.needed[i].piece = m.needed[j].piece => i = j
    /\ PiecesOf(m.needed) \cap (m.good \cup m.bad) = {}
    /\ PiecesOf(m.needed) \cup (m.good \cup m.bad) = 1..m.count
    /\ m.count > 0 => (m.has <=> m.needed = <<>>)
    /\ m.has => m.bad = {} /\ m.file = "torrent"
    /\ m.has /\ m.count > 0 => m.good = 1..MetaCount

\* What the peer knows when it has heard all that is on the way to it.
WillKnow(S, s) == Heard(S, s)[Len(s)]
PexFits ==
    \A p \in ExtPeers :
        /\ WillKnow(told[p], toPeer[p]) = msgs[p].pex
        /\ Cardinality(msgs[p].pex) <= MaxPex
        /\ \A i \in DOMAIN toPeer[p] : toPeer[p][i].type = "pex" => toPeer[p][i].added \cap toPeer[p][i].dropped = {}

ExtInv == ExtTypes /\ MetaFits(meta) /\ PexFits

-----------------------------------------------------------------------------
(* Counts of pieces.                                                       *)

\* A finite set of numbers has a greatest.
LEMMA GreatestOfFinite ==
    ASSUME NEW P \in SUBSET Nat, IsFiniteSet(P), P # {}
    PROVE  \E x \in P : \A y \in P : y <= x
<1> DEFINE Greatest(S) == \E x \in S : \A y \in S : y <= x
           Bad(S, n) == IsFiniteSet(S) /\ S # {} /\ Cardinality(S) = n /\ ~Greatest(S)
           T == {n \in Nat : \E S \in SUBSET Nat : Bad(S, n)}
<1>1. ASSUME T # {} PROVE FALSE
  <2>1. T \in SUBSET Nat
    OBVIOUS
  <2> HIDE DEF T
  <2>2. PICK m \in T : \A j \in T : m <= j
    BY <1>1, <2>1, LeastNat
  <2>3. PICK S \in SUBSET Nat : Bad(S, m)
    BY <2>2 DEF T
  <2>4. PICK x \in S : TRUE
    BY <2>3
  <2>5. m \in Nat /\ IsFiniteSet(S) /\ x \in Nat
    BY <2>1, <2>2, <2>3
  <2> DEFINE D == S \ {x}
  <2>6. D \in SUBSET Nat /\ IsFiniteSet(D) /\ Cardinality(D) = m - 1 /\ Cardinality(D) \in Nat
    <3>1. IsFiniteSet(D) /\ Cardinality(D) = Cardinality(S) - 1
      BY <2>5, FS_RemoveElement
    <3>2. Cardinality(D) \in Nat
      BY <3>1, FS_CardinalityType
    <3> QED
      BY <2>3, <3>1, <3>2
  <2>7. m - 1 \notin T
    BY <2>2, <2>5, <2>6
  <2>8. D = {} \/ Greatest(D)
    <3> HIDE DEF D, Greatest
    <3> QED
      BY <2>6, <2>7 DEF T
  <2>9. CASE D = {}
    BY <2>3, <2>5, <2>9
  <2>10. CASE Greatest(D)
    <3>1. PICK y \in D : \A z \in D : z <= y
      BY <2>10
    <3>2. \A z \in S : z = x \/ z \in D
      OBVIOUS
    <3>3. x \in Nat /\ y \in Nat /\ y \in S /\ \A z \in S : z \in Nat
      BY <2>5
    <3>4. CASE y <= x
      <4>1. \A z \in S : z <= x
        <5> HIDE DEF D
        <5> QED
          BY <2>5, <3>1, <3>2, <3>3, <3>4
      <4> QED
        BY <2>3, <4>1
    <3>5. CASE x <= y
      <4>1. \A z \in S : z <= y
        BY <3>1, <3>2, <3>5
      <4> QED
        BY <2>3, <3>3, <4>1
    <3> QED
      BY <3>3, <3>4, <3>5
  <2> QED
    BY <2>8, <2>9, <2>10
<1>2. Cardinality(P) \in Nat
  BY FS_CardinalityType
<1>3. Greatest(P)
  <2>1. Cardinality(P) \notin T
    BY <1>1
  <2> HIDE DEF Greatest
  <2> QED
    BY <1>2, <2>1
<1> QED
  BY <1>3

LEMMA CountsBounded ==
    /\ MaxCount \in Nat /\ MetaCount \in Counts
    /\ \A n \in Counts : n \in Nat /\ n > 0 /\ n <= MaxCount /\ 1..n \subseteq MetaPiece
<1>1. Counts \in SUBSET Nat /\ MetaCount \in Counts /\ \A n \in Counts : n > 0
  <2>1. MetaCount \in Nat \ {0} /\ WrongCounts \subseteq Nat \ {0}
    BY ExtAssumption
  <2>2. Counts \subseteq Nat \ {0} /\ MetaCount \in Counts
    BY <2>1 DEF Counts
  <2>3. \A n \in Nat \ {0} : n > 0
    OBVIOUS
  <2> QED
    BY <2>2, <2>3
<1>2. IsFiniteSet(Counts)
  BY ExtAssumption, FS_AddElement DEF Counts
<1>3. \E x \in Counts : \A y \in Counts : y <= x
  BY <1>1, <1>2, GreatestOfFinite
<1>4. MaxCount = CHOOSE n \in Counts : \A k \in Counts : k <= n
  BY DEF MaxCount, Counts
<1>5. MaxCount \in Counts /\ \A n \in Counts : n <= MaxCount
  BY <1>3, <1>4
<1> QED
  BY <1>1, <1>5 DEF MetaPiece

\* A function on 1..n is a sequence.
LEMMA MadeList ==
    ASSUME NEW S, NEW n \in Nat, NEW s \in [1..n -> S]
    PROVE  s \in Seq(S) /\ Len(s) = n
<1>1. s \in Seq(S)
  BY SeqDef
<1> QED
  BY <1>1, LenProperties

\* All pieces are needed anew.
LEMMA NewNodesFit ==
    ASSUME NEW n \in Counts
    PROVE  /\ NewNodes(n) \in Seq(Node) /\ NewNodes(n) # <<>> /\ Len(NewNodes(n)) = n
           /\ PiecesOf(NewNodes(n)) = 1..n
           /\ \A i, j \in DOMAIN NewNodes(n) : NewNodes(n)[i].piece = NewNodes(n)[j].piece => i = j
<1> DEFINE s == NewNodes(n)
<1>1. n \in Nat /\ n > 0 /\ 1..n \subseteq MetaPiece
  BY CountsBounded
<1>2. s \in [1..n -> Node] /\ \A i \in 1..n : s[i].piece = i
  BY <1>1 DEF NewNodes, Node
<1> HIDE DEF s
<1>3. s \in Seq(Node) /\ Len(s) = n
  BY <1>1, <1>2, MadeList
<1>4. DOMAIN s = 1..n
  BY <1>2
<1>5. s # <<>>
  BY <1>1, <1>3, EmptySeq
<1>6. PiecesOf(s) = 1..n
  BY <1>2, <1>4 DEF PiecesOf
<1> QED
  BY <1>2, <1>3, <1>4, <1>5, <1>6 DEF s

LEMMA NodeListShape ==
    ASSUME NEW s \in Seq(Node)
    PROVE  /\ Len(s) \in Nat /\ DOMAIN s = 1..Len(s)
           /\ \A i \in DOMAIN s : s[i] \in Node /\ s[i].piece \in MetaPiece /\ s[i].recent \in BOOLEAN
           /\ PiecesOf(s) \subseteq MetaPiece
           /\ (PiecesOf(s) = {} <=> s = <<>>)
<1>1. Len(s) \in Nat /\ DOMAIN s = 1..Len(s) /\ \A i \in DOMAIN s : s[i] \in Node
  BY LenProperties
<1>2. \A i \in DOMAIN s : s[i] \in Node /\ s[i].piece \in MetaPiece /\ s[i].recent \in BOOLEAN
  BY <1>1 DEF Node
<1>3. PiecesOf(s) \subseteq MetaPiece
  BY <1>2 DEF PiecesOf
<1>4. ASSUME s # <<>> PROVE PiecesOf(s) # {}
  <2>1. Len(s) \in Nat \ {0}
    BY <1>4, EmptySeq
  <2>2. 1 \in DOMAIN s
    BY <1>1, <2>1
  <2> QED
    BY <2>2 DEF PiecesOf
<1>5. ASSUME s = <<>> PROVE PiecesOf(s) = {}
  <2>1. DOMAIN s = {}
    BY <1>5
  <2> QED
    BY <2>1 DEF PiecesOf
<1> QED
  BY <1>1, <1>2, <1>3, <1>4, <1>5

\* The first goes to the end of the list.
LEMMA RotatedFits ==
    ASSUME NEW s \in Seq(Node), s # <<>>, NEW x \in Node, x.piece = Head(s).piece,
           \A i, j \in DOMAIN s : s[i].piece = s[j].piece => i = j
    PROVE  LET t == Append(Tail(s), x)
           IN  /\ t \in Seq(Node) /\ t # <<>> /\ PiecesOf(t) = PiecesOf(s)
               /\ \A i, j \in DOMAIN t : t[i].piece = t[j].piece => i = j
<1> DEFINE u == Tail(s)
           t == Append(u, x)
           n == Len(s)
<1>1. /\ n \in Nat \ {0} /\ u \in Seq(Node) /\ Len(u) = n - 1
      /\ \A i \in 1..(n - 1) : u[i] = s[i + 1]
      /\ Head(s) = s[1]
  <2>1. n \in Nat \ {0}
    BY EmptySeq
  <2>2. u \in Seq(Node) /\ Len(u) = n - 1 /\ \A i \in 1..Len(u) : u[i] = s[i + 1]
    BY HeadTailProperties
  <2> HIDE DEF u, n
  <2>3. Head(s) = s[1]
    OBVIOUS
  <2> QED
    BY <2>1, <2>2, <2>3
<1> HIDE DEF u
<1>2. /\ t \in Seq(Node) /\ Len(t) = Len(u) + 1 /\ \A i \in 1..Len(u) : t[i] = u[i]
      /\ t[Len(u) + 1] = x
  BY <1>1, AppendProperties
<1> HIDE DEF t, n
<1>3. /\ Len(t) = n /\ DOMAIN t = 1..n /\ DOMAIN s = 1..n
      /\ \A i \in 1..n : t[i].piece = IF i = n THEN s[1].piece ELSE s[i + 1].piece
  <2>1. Len(t) = n /\ Len(u) + 1 = n
    BY <1>1, <1>2
  <2>2. DOMAIN t = 1..n /\ DOMAIN s = 1..n
    BY <1>2, <2>1, NodeListShape DEF n
  <2>3. ASSUME NEW i \in 1..n PROVE t[i].piece = IF i = n THEN s[1].piece ELSE s[i + 1].piece
    <3>1. CASE i = n
      BY <1>1, <1>2, <2>1, <3>1
    <3>2. CASE i # n
      <4>1. i \in 1..(n - 1) /\ i \in 1..Len(u)
        BY <1>1, <3>2
      <4>2. t[i] = s[i + 1]
        BY <1>1, <1>2, <4>1
      <4> QED
        BY <3>2, <4>2
    <3> QED
      BY <3>1, <3>2
  <2> QED
    BY <2>1, <2>2, <2>3
<1>4. t # <<>>
  <2>1. n # 0
    BY <1>1
  <2> QED
    BY <1>3, <2>1, EmptySeq
<1> DEFINE g(i) == IF i = n THEN 1 ELSE i + 1
           h(i) == IF i = 1 THEN n ELSE i - 1
<1>5. \A i \in 1..n : /\ g(i) \in 1..n /\ h(i) \in 1..n /\ g(h(i)) = i
                      /\ t[i].piece = s[g(i)].piece
  <2>1. \A i \in 1..n : g(i) \in 1..n /\ h(i) \in 1..n /\ g(h(i)) = i
    BY <1>1
  <2>2. \A i \in 1..n : t[i].piece = s[g(i)].piece
    BY <1>3
  <2> QED
    BY <2>1, <2>2
<1>6. \A i, j \in 1..n : g(i) = g(j) => i = j
  BY <1>1
<1> HIDE DEF g, h
<1>7. PiecesOf(t) = PiecesOf(s)
  <2>1. ASSUME NEW i \in 1..n PROVE \E j \in 1..n : t[i].piece = s[j].piece
    BY <1>5
  <2>2. ASSUME NEW i \in 1..n PROVE \E j \in 1..n : s[i].piece = t[j].piece
    <3>1. h(i) \in 1..n /\ t[h(i)].piece = s[i].piece
      BY <1>5
    <3> QED
      BY <3>1
  <2>3. ASSUME NEW q \in PiecesOf(t) PROVE q \in PiecesOf(s)
    <3>1. PICK i \in 1..n : t[i].piece = q
      BY <1>3 DEF PiecesOf
    <3>2. PICK j \in 1..n : t[i].piece = s[j].piece
      BY <2>1
    <3> QED
      BY <1>3, <3>1, <3>2 DEF PiecesOf
  <2>4. ASSUME NEW q \in PiecesOf(s) PROVE q \in PiecesOf(t)
    <3>1. PICK i \in 1..n : s[i].piece = q
      BY <1>3 DEF PiecesOf
    <3>2. PICK j \in 1..n : s[i].piece = t[j].piece
      BY <2>2
    <3> QED
      BY <1>3, <3>1, <3>2 DEF PiecesOf
  <2> QED
    BY <2>3, <2>4
<1>8. \A i, j \in 1..n : t[i].piece = t[j].piece => i = j
  <2> SUFFICES ASSUME NEW i \in 1..n, NEW j \in 1..n, t[i].piece = t[j].piece PROVE i = j
    OBVIOUS
  <2>1. g(i) \in DOMAIN s /\ g(j) \in DOMAIN s /\ s[g(i)].piece = s[g(j)].piece
    BY <1>3, <1>5
  <2> QED
    BY <1>6, <2>1
<1> QED
  BY <1>2, <1>3, <1>4, <1>7, <1>8 DEF t, u

\* A piece that has come is no longer needed.
LEMMA WithoutFits ==
    ASSUME NEW s \in Seq(Node), NEW piece \in PiecesOf(s),
           \A i, j \in DOMAIN s : s[i].piece = s[j].piece => i = j
    PROVE  /\ Without(s, piece) \in Seq(Node)
           /\ PiecesOf(Without(s, piece)) = PiecesOf(s) \ {piece}
           /\ \A i, j \in DOMAIN Without(s, piece) :
                 Without(s, piece)[i].piece = Without(s, piece)[j].piece => i = j
<1> DEFINE at == {i \in DOMAIN s : s[i].piece = piece}
           k == Min(at)
           n == Len(s)
           t == RemoveAt(s, k)
<1>1. n \in Nat /\ DOMAIN s = 1..n
  BY NodeListShape
<1>2. at # {} /\ at \in SUBSET Nat
  BY <1>1 DEF PiecesOf
<1>3. k \in at
  <2> DEFINE S == at
  <2>1. \E x \in S : \A y \in S : x <= y
    BY <1>2, LeastNat
  <2>2. k = CHOOSE x \in S : \A y \in S : x <= y
    BY DEF Min
  <2> HIDE DEF S, k
  <2>3. k \in S
    BY <2>1, <2>2
  <2> QED
    BY <2>3 DEF S
<1>4. Without(s, piece) = t
  BY <1>2 DEF Without
<1>5. k \in 1..n /\ s[k].piece = piece
  BY <1>1, <1>3
<1> HIDE DEF k, at
<1>6. t \in Seq(Node) /\ Len(t) = n - 1 /\ \A j \in 1..(n - 1) : t[j] = IF j < k THEN s[j] ELSE s[j + 1]
  BY <1>5, RemovedShape
<1> HIDE DEF t
<1>7. DOMAIN t = 1..(n - 1)
  BY <1>6, NodeListShape
<1> HIDE DEF n
<1> DEFINE g(j) == IF j < k THEN j ELSE j + 1
<1>8. /\ \A j \in 1..(n - 1) : g(j) \in 1..n /\ g(j) # k /\ t[j] = s[g(j)]
      /\ \A i, j \in 1..(n - 1) : g(i) = g(j) => i = j
      /\ \A i \in 1..n : i # k => \E j \in 1..(n - 1) : g(j) = i
  <2>1. \A j \in 1..(n - 1) : g(j) \in 1..n /\ g(j) # k
    BY <1>1, <1>5
  <2>2. \A j \in 1..(n - 1) : t[j] = s[g(j)]
    BY <1>6
  <2>3. \A i, j \in 1..(n - 1) : g(i) = g(j) => i = j
    BY <1>1, <1>5
  <2>4. ASSUME NEW i \in 1..n, i # k PROVE \E j \in 1..(n - 1) : g(j) = i
    <3>1. CASE i < k
      BY <1>1, <1>5, <3>1
    <3>2. CASE ~(i < k)
      <4>1. i - 1 \in 1..(n - 1) /\ g(i - 1) = i
        BY <1>1, <1>5, <2>4, <3>2
      <4> QED
        BY <4>1
    <3> QED
      BY <3>1, <3>2
  <2> QED
    BY <2>1, <2>2, <2>3, <2>4
<1> HIDE DEF g
<1>9. PiecesOf(t) = PiecesOf(s) \ {piece}
  <2>1. ASSUME NEW j \in 1..(n - 1) PROVE t[j].piece \in PiecesOf(s) \ {piece}
    <3>1. g(j) \in DOMAIN s /\ k \in DOMAIN s /\ t[j] = s[g(j)] /\ g(j) # k
      BY <1>1, <1>5, <1>8, <2>1
    <3>2. s[g(j)].piece # piece
      BY <1>5, <3>1
    <3> QED
      BY <3>1, <3>2 DEF PiecesOf
  <2>2. ASSUME NEW q \in PiecesOf(s) \ {piece} PROVE q \in PiecesOf(t)
    <3>1. PICK i \in 1..n : s[i].piece = q
      BY <1>1 DEF PiecesOf
    <3>2. i # k
      BY <1>5, <2>2, <3>1
    <3>3. PICK j \in 1..(n - 1) : g(j) = i
      BY <1>8, <3>2
    <3>4. t[j].piece = q
      BY <1>8, <3>1, <3>3
    <3> QED
      BY <1>7, <3>4 DEF PiecesOf
  <2>3. PiecesOf(t) \subseteq PiecesOf(s) \ {piece}
    BY <1>7, <2>1 DEF PiecesOf
  <2> QED
    BY <2>2, <2>3
<1>10. \A i, j \in DOMAIN t : t[i].piece = t[j].piece => i = j
  <2> SUFFICES ASSUME NEW i \in 1..(n - 1), NEW j \in 1..(n - 1), t[i].piece = t[j].piece PROVE i = j
    BY <1>7
  <2>1. g(i) \in DOMAIN s /\ g(j) \in DOMAIN s /\ s[g(i)].piece = s[g(j)].piece
    BY <1>1, <1>8
  <2> QED
    BY <1>8, <2>1
<1> QED
  BY <1>4, <1>6, <1>9, <1>10

-----------------------------------------------------------------------------
(* What is heard.                                                          *)

LEMMA HearsType ==
    ASSUME NEW S \in SUBSET Addresses, NEW m \in ToPeers
    PROVE  Hears(S, m) \in SUBSET Addresses
<1>1. CASE m.type = "pex"
  <2>1. m \in Pexes
    BY <1>1 DEF ToPeers
  <2> QED
    BY <1>1, <2>1 DEF Hears, Pexes
<1>2. CASE m.type # "pex"
  BY <1>2 DEF Hears
<1> QED
  BY <1>1, <1>2

LEMMA HeardIs ==
    ASSUME NEW S \in SUBSET Addresses, NEW s \in Seq(ToPeers)
    PROVE  /\ \A k \in 0..Len(s) : Heard(S, s)[k] \in SUBSET Addresses
           /\ Heard(S, s)[0] = S
           /\ \A k \in 1..Len(s) : Heard(S, s)[k] = Hears(Heard(S, s)[k - 1], s[k])
<1> DEFINE n == Len(s)
           A == SUBSET Addresses
           X == [k \in 0..n |-> A]
           F == [k \in 1..n |-> [x \in A |-> Hears(x, s[k])]]
           Loop(f) == f = [k \in 0..n |-> IF k = 0 THEN S ELSE Hears(f[k - 1], s[k])]
           g == CHOOSE f : Loop(f)
<1>1. n \in Nat /\ \A k \in 1..n : s[k] \in ToPeers
  BY LenProperties
<1>2. g = Heard(S, s)
  BY DEF Heard
<1>3. \A k \in 1..n : \A x \in A : Hears(x, s[k]) \in A
  BY <1>1, HearsType
<1>11. S \in A
  OBVIOUS
<1> HIDE DEF A, n
<1>4. /\ \A k \in 0..n : X[k] = A
      /\ \A k \in 1..n : \A x \in X[k - 1] : F[k][x] \in X[k]
      /\ \A k \in 1..n : \A x \in A : F[k][x] = Hears(x, s[k])
      /\ S \in X[0]
  <2>1. \A k \in 0..n : X[k] = A
    OBVIOUS
  <2>2. \A k \in 1..n : k - 1 \in 0..n /\ k \in 0..n
    BY <1>1
  <2>3. \A k \in 1..n : \A x \in A : F[k][x] = Hears(x, s[k])
    OBVIOUS
  <2>4. 0 \in 0..n
    BY <1>1
  <2> HIDE DEF X, F
  <2>5. ASSUME NEW k \in 1..n, NEW x \in X[k - 1] PROVE F[k][x] \in X[k]
    <3>1. x \in A /\ X[k] = A
      BY <2>1, <2>2
    <3> QED
      BY <1>3, <2>3, <3>1
  <2> QED
    BY <1>11, <2>1, <2>3, <2>4, <2>5
<1> HIDE DEF X, F
<1>5. PICK f : IsLoop(f, n, S, F) /\ \A k \in 0..n : f[k] \in X[k]
  BY <1>1, <1>4, StepsExist
<1>6. Loop(f)
  <2>1. f = [k \in 0..n |-> IF k = 0 THEN S ELSE F[k][f[k - 1]]]
    BY <1>5 DEF IsLoop
  <2>2. \A k \in 0..n : (IF k = 0 THEN S ELSE F[k][f[k - 1]]) = (IF k = 0 THEN S ELSE Hears(f[k - 1], s[k]))
    <3>1. SUFFICES ASSUME NEW k \in 0..n, k # 0 PROVE F[k][f[k - 1]] = Hears(f[k - 1], s[k])
      OBVIOUS
    <3>2. k \in 1..n /\ k - 1 \in 0..n
      BY <1>1, <3>1
    <3>3. f[k - 1] \in A
      BY <1>4, <1>5, <3>2
    <3> QED
      BY <1>4, <3>2, <3>3
  <2> QED
    BY <2>1, <2>2
<1>7. Loop(g)
  BY <1>6
<1> HIDE DEF g
<1>8. g[0] = S /\ \A k \in 1..n : g[k] = Hears(g[k - 1], s[k])
  <2>1. 0 \in 0..n /\ \A k \in 1..n : k \in 0..n /\ k # 0
    BY <1>1
  <2> QED
    BY <1>7, <2>1
<1>9. \A k \in 0..n : g[k] \in X[k]
  <2>1. g[0] \in X[0]
    BY <1>1, <1>4, <1>8
  <2>2. \A k \in 1..n : g[k - 1] \in X[k - 1] => g[k] \in X[k]
    <3>1. \A k \in 1..n : k - 1 \in 0..n /\ k \in 0..n
      BY <1>1
    <3> QED
      BY <1>3, <1>4, <1>8, <3>1
  <2> QED
    BY <1>1, <2>1, <2>2, StepsReach
<1>10. \A k \in 0..n : g[k] \in A
  BY <1>4, <1>9
<1> QED
  BY <1>2, <1>8, <1>10 DEF A, n

LEMMA NothingHeard ==
    ASSUME NEW S \in SUBSET Addresses
    PROVE  WillKnow(S, <<>>) = S
<1>1. <<>> \in Seq(ToPeers) /\ Len(<<>>) = 0
  BY EmptySeq
<1>2. Heard(S, <<>>)[0] = S
  BY <1>1, HeardIs
<1> QED
  BY <1>1, <1>2 DEF WillKnow

\* The last message is heard last.
LEMMA HeardLast ==
    ASSUME NEW S \in SUBSET Addresses, NEW s \in Seq(ToPeers), NEW m \in ToPeers
    PROVE  WillKnow(S, Append(s, m)) = Hears(WillKnow(S, s), m)
<1> DEFINE t == Append(s, m)
           n == Len(s)
           f == Heard(S, s)
           g == Heard(S, t)
<1>1. n \in Nat /\ t \in Seq(ToPeers) /\ Len(t) = n + 1 /\ t[n + 1] = m /\ \A i \in 1..n : t[i] = s[i]
  <2>1. n \in Nat
    BY LenProperties
  <2> QED
    BY <2>1, AppendProperties
<1>2. f[0] = S /\ \A k \in 1..n : f[k] = Hears(f[k - 1], s[k])
  BY HeardIs
<1> HIDE DEF t
<1>3. g[0] = S /\ \A k \in 1..Len(t) : g[k] = Hears(g[k - 1], t[k])
  BY <1>1, HeardIs
<1>4. WillKnow(S, t) = g[n + 1] /\ WillKnow(S, s) = f[n]
  BY <1>1 DEF WillKnow
<1> HIDE DEF f, g, n
<1> DEFINE T == {k \in 0..n : g[k] = f[k]}
<1>5. 0 \in T
  BY <1>1, <1>2, <1>3
<1>6. ASSUME NEW k \in 1..n, k - 1 \in T PROVE k \in T
  <2>1. k \in 0..n /\ k \in 1..Len(t) /\ g[k - 1] = f[k - 1]
    BY <1>1, <1>6
  <2> QED
    BY <1>1, <1>2, <1>3, <2>1
<1> HIDE DEF T
<1>7. \A k \in 0..n : k \in T
  BY <1>1, <1>5, <1>6, Climb
<1>8. g[n] = f[n]
  BY <1>1, <1>7 DEF T
<1>9. n + 1 \in 1..Len(t) /\ (n + 1) - 1 = n
  BY <1>1
<1>10. g[n + 1] = Hears(g[(n + 1) - 1], t[n + 1])
  BY <1>3, <1>9
<1> QED
  BY <1>1, <1>4, <1>8, <1>9, <1>10 DEF t

\* Once the first message is heard, the rest is heard from there.
LEMMA HeardFirst ==
    ASSUME NEW S \in SUBSET Addresses, NEW s \in Seq(ToPeers), s # <<>>
    PROVE  /\ WillKnow(Hears(S, Head(s)), Tail(s)) = WillKnow(S, s)
           /\ Hears(S, Head(s)) \in SUBSET Addresses
<1> DEFINE t == Tail(s)
           n == Len(s)
           R == Hears(S, Head(s))
           f == Heard(S, s)
           g == Heard(R, t)
<1>1. n \in Nat \ {0} /\ t \in Seq(ToPeers) /\ Len(t) = n - 1 /\ \A i \in 1..(n - 1) : t[i] = s[i + 1]
  <2>1. n \in Nat \ {0}
    BY EmptySeq
  <2>2. t \in Seq(ToPeers) /\ Len(t) = n - 1 /\ \A i \in 1..Len(t) : t[i] = s[i + 1]
    BY HeadTailProperties
  <2> HIDE DEF t, n
  <2> QED
    BY <2>1, <2>2
<1>2. Head(s) \in ToPeers /\ Head(s) = s[1]
  BY HeadTailProperties
<1>3. R \in SUBSET Addresses
  BY <1>2, HearsType
<1>4. f[0] = S /\ \A k \in 1..n : f[k] = Hears(f[k - 1], s[k])
  BY HeardIs
<1> HIDE DEF t, R
<1>5. g[0] = R /\ \A k \in 1..Len(t) : g[k] = Hears(g[k - 1], t[k])
  BY <1>1, <1>3, HeardIs
<1>6. WillKnow(R, t) = g[n - 1] /\ WillKnow(S, s) = f[n]
  BY <1>1 DEF WillKnow
<1> HIDE DEF f, g, n
<1> DEFINE T == {k \in 0..(n - 1) : g[k] = f[k + 1]}
           m == n - 1
<1>7. 0 \in T /\ m \in Nat
  <2>1. 1 \in 1..n /\ 1 - 1 = 0 /\ 0 + 1 = 1 /\ 0 \in 0..(n - 1) /\ n - 1 \in Nat
    BY <1>1
  <2>2. f[1] = Hears(f[1 - 1], s[1])
    BY <1>4, <2>1
  <2>3. f[1] = R
    BY <1>2, <1>4, <2>1, <2>2 DEF R
  <2> QED
    BY <1>5, <2>1, <2>3
<1>8. ASSUME NEW k \in 1..m, k - 1 \in T PROVE k \in T
  <2>1. k \in 0..(n - 1) /\ k \in 1..Len(t) /\ k \in 1..(n - 1) /\ k + 1 \in 1..n /\ (k + 1) - 1 = k /\ (k - 1) + 1 = k
    BY <1>1, <1>8
  <2>2. g[k - 1] = f[k]
    BY <1>8, <2>1
  <2>3. g[k] = Hears(g[k - 1], t[k]) /\ t[k] = s[k + 1]
    BY <1>1, <1>5, <2>1
  <2>4. f[k + 1] = Hears(f[k], s[k + 1])
    BY <1>4, <2>1
  <2> QED
    BY <2>1, <2>2, <2>3, <2>4
<1> HIDE DEF T
<1>9. \A k \in 0..m : k \in T
  BY <1>7, <1>8, Climb
<1>10. m \in T
  BY <1>7, <1>9
<1>11. g[n - 1] = f[n]
  <2>1. (n - 1) + 1 = n
    BY <1>1
  <2> QED
    BY <1>10, <2>1 DEF T
<1> QED
  BY <1>3, <1>6, <1>11 DEF R, t

-----------------------------------------------------------------------------
(* Peer exchange.                                                          *)

\* What is said to be gone is all that is gone.
LEMMA DiffsTell ==
    ASSUME NEW old \in SUBSET Addresses, Cardinality(old) <= MaxPex,
           NEW new \in Some(connected, MaxPex), connected \in SUBSET Addresses, NEW d \in Diffs(old, new)
    PROVE  /\ d.added \in SUBSET Addresses /\ d.dropped \in SUBSET Addresses /\ d.elements \in SUBSET Addresses
           /\ d.added \cap d.dropped = {}
           /\ d.elements = (old \ d.dropped) \cup d.added
           /\ Cardinality(d.elements) <= MaxPex
<1>1. IsFiniteSet(Addresses) /\ MaxPex \in Nat
  BY ExtAssumption
<1>2. \A S \in SUBSET Addresses : IsFiniteSet(S) /\ Cardinality(S) \in Nat
  BY <1>1, FS_Subset, FS_CardinalityType
<1>3. new \in SUBSET Addresses /\ Cardinality(new) <= MaxPex
  <2>1. /\ new \in SUBSET connected
        /\ Cardinality(new) = IF Cardinality(connected) < MaxPex THEN Cardinality(connected) ELSE MaxPex
    BY DEF Some
  <2>2. Cardinality(connected) \in Nat
    BY <1>2
  <2> QED
    BY <1>1, <2>1, <2>2
<1>4. PICK a \in Some(new \ old, MaxPex), g \in Some(old \ new, MaxPex) :
         d = [added |-> a, dropped |-> g, elements |-> (old \cap new) \cup a]
  BY DEF Diffs
<1>5. a \subseteq new \ old /\ g \subseteq old \ new
  BY DEF Some
<1>6. g = old \ new
  <2> DEFINE D == old \ new
  <2>1. D \in SUBSET Addresses /\ D \in SUBSET old /\ IsFiniteSet(old)
    BY <1>2
  <2>2. Cardinality(D) \in Nat /\ Cardinality(D) <= Cardinality(old) /\ Cardinality(old) \in Nat
    BY <1>2, <2>1, FS_Subset
  <2>3. Cardinality(g) = IF Cardinality(D) < MaxPex THEN Cardinality(D) ELSE MaxPex
    BY DEF Some
  <2>4. Cardinality(g) = Cardinality(D)
    BY <1>1, <2>2, <2>3
  <2>5. IsFiniteSet(D) /\ g \in SUBSET D
    BY <1>2, <1>5, <2>1
  <2> HIDE DEF D
  <2>6. g = D
    BY <2>4, <2>5, FS_Subset
  <2> QED
    BY <2>6 DEF D
<1>7. d.added = a /\ d.dropped = g /\ d.elements = (old \cap new) \cup a
  BY <1>4
<1>8. d.elements \in SUBSET new /\ Cardinality(d.elements) <= MaxPex
  <2>1. d.elements \in SUBSET new
    BY <1>5, <1>7
  <2>2. Cardinality(d.elements) <= Cardinality(new) /\ Cardinality(new) \in Nat /\ Cardinality(d.elements) \in Nat
    <3>1. IsFiniteSet(new) /\ d.elements \in SUBSET Addresses
      BY <1>2, <1>3, <2>1
    <3>2. Cardinality(d.elements) <= Cardinality(new)
      BY <2>1, <3>1, FS_Subset
    <3> QED
      BY <1>2, <1>3, <3>1, <3>2
  <2> QED
    BY <1>1, <1>3, <2>1, <2>2
<1> QED
  BY <1>3, <1>5, <1>6, <1>7, <1>8

\* A message to a peer, and what we remember of it.
LEMMA SaidFits ==
    ASSUME ExtTypes, PexFits, NEW p \in ExtPeers, NEW x \in ToPeers,
           toPeer' = [toPeer EXCEPT ![p] = Append(@, x)], UNCHANGED told,
           \A q \in ExtPeers : q # p => msgs'[q].pex = msgs[q].pex,
           msgs'[p].pex = Hears(msgs[p].pex, x), Cardinality(msgs'[p].pex) <= MaxPex,
           x.type = "pex" => x.added \cap x.dropped = {}
    PROVE  toPeer' \in [ExtPeers -> Seq(ToPeers)] /\ PexFits'
<1>1. \A q \in ExtPeers : toPeer[q] \in Seq(ToPeers) /\ told[q] \in SUBSET Addresses
  BY DEF ExtTypes
<1>2. Append(toPeer[p], x) \in Seq(ToPeers)
  BY <1>1, AppendProperties
<1>3. /\ toPeer' \in [ExtPeers -> Seq(ToPeers)]
      /\ \A q \in ExtPeers : toPeer'[q] = IF q = p THEN Append(toPeer[p], x) ELSE toPeer[q]
  BY <1>2 DEF ExtTypes
<1>4. ASSUME NEW q \in ExtPeers
      PROVE  /\ WillKnow(told'[q], toPeer'[q]) = msgs'[q].pex
             /\ Cardinality(msgs'[q].pex) <= MaxPex
             /\ \A i \in DOMAIN toPeer'[q] : toPeer'[q][i].type = "pex" => toPeer'[q][i].added \cap toPeer'[q][i].dropped = {}
  <2>1. /\ WillKnow(told[q], toPeer[q]) = msgs[q].pex
        /\ Cardinality(msgs[q].pex) <= MaxPex
        /\ \A i \in DOMAIN toPeer[q] : toPeer[q][i].type = "pex" => toPeer[q][i].added \cap toPeer[q][i].dropped = {}
    BY DEF PexFits
  <2>2. told'[q] = told[q]
    OBVIOUS
  <2>3. CASE q = p
    <3>1. toPeer'[p] = Append(toPeer[p], x)
      BY <1>3
    <3>2. WillKnow(told[p], Append(toPeer[p], x)) = Hears(WillKnow(told[p], toPeer[p]), x)
      BY <1>1, HeardLast
    <3>3. ASSUME NEW i \in DOMAIN toPeer'[p], toPeer'[p][i].type = "pex"
          PROVE  toPeer'[p][i].added \cap toPeer'[p][i].dropped = {}
      <4> DEFINE s == toPeer[p]
                 t == Append(s, x)
                 n == Len(s)
      <4>1. n \in Nat /\ Len(t) = n + 1 /\ t[n + 1] = x /\ (\A j \in 1..n : t[j] = s[j]) /\ t \in Seq(ToPeers)
        BY <1>1, LenProperties, AppendProperties
      <4>2. DOMAIN t = 1..(n + 1) /\ DOMAIN s = 1..n
        BY <1>1, <4>1, LenProperties
      <4>3. i \in 1..(n + 1) /\ toPeer'[p][i] = t[i]
        BY <3>1, <4>2
      <4> HIDE DEF t, n
      <4>4. CASE i = n + 1
        BY <3>3, <4>1, <4>3, <4>4
      <4>5. CASE i # n + 1
        <5>1. i \in DOMAIN s /\ t[i] = s[i]
          BY <4>1, <4>2, <4>3, <4>5
        <5> QED
          BY <2>1, <2>3, <3>3, <4>3, <5>1
      <4> QED
        BY <4>4, <4>5
    <3> QED
      BY <2>1, <2>2, <2>3, <3>1, <3>2, <3>3
  <2>4. CASE q # p
    BY <1>3, <2>1, <2>2, <2>4
  <2> QED
    BY <2>3, <2>4
<1> QED
  BY <1>3, <1>4 DEF PexFits

LEMMA SendPexKeeps ==
    ASSUME ExtTypes, PexFits, NEW p \in ExtPeers, NEW m \in Peermsgs, m.pex = msgs[p].pex,
           SendPex(p, m), UNCHANGED told
    PROVE  /\ msgs' \in [ExtPeers -> Peermsgs] /\ toPeer' \in [ExtPeers -> Seq(ToPeers)]
           /\ PexFits'
<1>1. m.pex \in SUBSET Addresses /\ Cardinality(m.pex) <= MaxPex /\ connected \in SUBSET Addresses
  BY DEF ExtTypes, PexFits, Peermsgs
<1>2. CASE msgs' = [msgs EXCEPT ![p] = m] /\ UNCHANGED toPeer
  <2>1. msgs' \in [ExtPeers -> Peermsgs] /\ \A q \in ExtPeers : msgs'[q].pex = msgs[q].pex
    BY <1>2 DEF ExtTypes
  <2>2. PexFits'
    BY <1>2, <2>1 DEF PexFits
  <2> QED
    BY <1>2, <2>1, <2>2 DEF ExtTypes
<1>3. ASSUME NEW new \in Some(connected, MaxPex), NEW d \in Diffs(m.pex, new),
             msgs' = [msgs EXCEPT ![p] = [m EXCEPT !.pex = d.elements]],
             Say(p, [type |-> "pex", added |-> d.added, dropped |-> d.dropped])
      PROVE  /\ msgs' \in [ExtPeers -> Peermsgs] /\ toPeer' \in [ExtPeers -> Seq(ToPeers)]
             /\ PexFits'
  <2> DEFINE x == [type |-> "pex", added |-> d.added, dropped |-> d.dropped]
             e == d.elements
  <2>1. /\ d.added \in SUBSET Addresses /\ d.dropped \in SUBSET Addresses /\ e \in SUBSET Addresses
        /\ d.added \cap d.dropped = {}
        /\ e = (m.pex \ d.dropped) \cup d.added
        /\ Cardinality(e) <= MaxPex
    BY <1>1, DiffsTell
  <2>2. x \in ToPeers /\ x.type = "pex" /\ x.added \cap x.dropped = {} /\ Hears(m.pex, x) = e
    BY <2>1 DEF ToPeers, Pexes, Hears
  <2>3. toPeer' = [toPeer EXCEPT ![p] = Append(@, x)]
    BY <1>3 DEF Say
  <2> HIDE DEF x
  <2>4. /\ msgs' \in [ExtPeers -> Peermsgs] /\ msgs'[p].pex = e
        /\ \A q \in ExtPeers : q # p => msgs'[q].pex = msgs[q].pex
    <3>1. [m EXCEPT !.pex = e] \in Peermsgs /\ [m EXCEPT !.pex = e].pex = e
      BY <2>1 DEF Peermsgs
    <3> HIDE DEF e
    <3>2. msgs' = [msgs EXCEPT ![p] = [m EXCEPT !.pex = e]]
      BY <1>3 DEF e
    <3> QED
      BY <3>1, <3>2 DEF ExtTypes
  <2> QED
    BY <2>1, <2>2, <2>3, <2>4, SaidFits
<1> QED
  BY <1>2, <1>3 DEF SendPex

\* What the peer reads, it knows from then on.
LEMMA ReadFits ==
    ASSUME ExtTypes, PexFits, NEW p \in ExtPeers, toPeer[p] # <<>>,
           toPeer' = [toPeer EXCEPT ![p] = Tail(@)], UNCHANGED msgs,
           told' = [told EXCEPT ![p] = Hears(@, Head(toPeer[p]))]
    PROVE  /\ toPeer' \in [ExtPeers -> Seq(ToPeers)] /\ told' \in [ExtPeers -> SUBSET Addresses]
           /\ PexFits'
<1> DEFINE s == toPeer[p]
           R == Hears(told[p], Head(s))
<1>1. s \in Seq(ToPeers) /\ s # <<>> /\ told[p] \in SUBSET Addresses
  BY DEF ExtTypes
<1>2. WillKnow(R, Tail(s)) = WillKnow(told[p], s) /\ R \in SUBSET Addresses
  BY <1>1, HeardFirst
<1>3. Tail(s) \in Seq(ToPeers) /\ Len(Tail(s)) = Len(s) - 1 /\ \A i \in 1..Len(Tail(s)) : Tail(s)[i] = s[i + 1]
  BY <1>1, HeadTailProperties
<1>4. /\ \A q \in ExtPeers : toPeer'[q] = IF q = p THEN Tail(s) ELSE toPeer[q]
      /\ \A q \in ExtPeers : told'[q] = IF q = p THEN R ELSE told[q]
      /\ toPeer' \in [ExtPeers -> Seq(ToPeers)] /\ told' \in [ExtPeers -> SUBSET Addresses]
  BY <1>2, <1>3 DEF ExtTypes
<1> DEFINE t == Tail(s)
<1> HIDE DEF R, t
<1>5. ASSUME NEW q \in ExtPeers
      PROVE  /\ WillKnow(told'[q], toPeer'[q]) = msgs'[q].pex
             /\ Cardinality(msgs'[q].pex) <= MaxPex
             /\ \A i \in DOMAIN toPeer'[q] : toPeer'[q][i].type = "pex" => toPeer'[q][i].added \cap toPeer'[q][i].dropped = {}
  <2>1. /\ WillKnow(told[q], toPeer[q]) = msgs[q].pex
        /\ Cardinality(msgs[q].pex) <= MaxPex
        /\ \A i \in DOMAIN toPeer[q] : toPeer[q][i].type = "pex" => toPeer[q][i].added \cap toPeer[q][i].dropped = {}
    BY DEF PexFits
  <2>2. msgs'[q] = msgs[q]
    OBVIOUS
  <2>3. CASE q = p
    <3>1. toPeer'[p] = t /\ told'[p] = R
      BY <1>4 DEF t
    <3>2. WillKnow(R, t) = WillKnow(told[p], s)
      BY <1>2 DEF t
    <3>3. ASSUME NEW i \in DOMAIN t, t[i].type = "pex" PROVE t[i].added \cap t[i].dropped = {}
      <4>1. DOMAIN t = 1..Len(t) /\ DOMAIN s = 1..Len(s) /\ Len(t) = Len(s) - 1 /\ Len(s) \in Nat
        BY <1>1, <1>3, LenProperties DEF t
      <4>2. i + 1 \in DOMAIN s /\ t[i] = s[i + 1]
        BY <1>3, <4>1 DEF t
      <4> QED
        BY <2>1, <2>3, <3>3, <4>2
    <3> QED
      BY <2>1, <2>2, <2>3, <3>1, <3>2, <3>3
  <2>4. CASE q # p
    BY <1>4, <2>1, <2>2, <2>4
  <2> QED
    BY <2>3, <2>4
<1> QED
  BY <1>4, <1>5 DEF PexFits

-----------------------------------------------------------------------------
(* Metadata.                                                               *)

LEMMA SizeHintFits ==
    ASSUME meta \in Metas, MetaFits(meta), NEW n \in Counts
    PROVE  SizeHint(n) \in Metas /\ MetaFits(SizeHint(n))
<1>1. CASE meta.has \/ meta.count > 0
  BY <1>1 DEF SizeHint
<1>2. CASE ~(meta.has \/ meta.count > 0)
  <2> DEFINE s == NewNodes(n)
             m == [meta EXCEPT !.count = n, !.needed = s]
  <2>1. SizeHint(n) = m
    BY <1>2 DEF SizeHint
  <2>2. /\ s \in Seq(Node) /\ s # <<>> /\ PiecesOf(s) = 1..n
        /\ \A i, j \in DOMAIN s : s[i].piece = s[j].piece => i = j
    BY NewNodesFit
  <2> HIDE DEF s
  <2>3. m \in Metas /\ m.count = n /\ m.needed = s /\ m.good = meta.good /\ m.bad = meta.bad /\ m.has = meta.has
    BY <2>2 DEF Metas
  <2> HIDE DEF m
  <2>4. meta.good \cup meta.bad = {}
    <3>1. meta.count = 0
      <4>1. meta.count \in {0} \cup Counts
        BY DEF Metas
      <4> QED
        BY <1>2, <4>1, CountsBounded
    <3>2. 1..0 = {}
      OBVIOUS
    <3> QED
      BY <3>1, <3>2 DEF MetaFits
  <2>5. ~m.has
    BY <1>2, <2>3
  <2>6. MetaFits(m)
    BY <2>2, <2>3, <2>4, <2>5 DEF MetaFits
  <2> QED
    BY <2>1, <2>3, <2>6
<1> QED
  BY <1>1, <1>2

\* Another list of the same pieces.
LEMMA SamePiecesFit ==
    ASSUME NEW m \in Metas, MetaFits(m), NEW s \in Seq(Node), PiecesOf(s) = PiecesOf(m.needed),
           \A i, j \in DOMAIN s : s[i].piece = s[j].piece => i = j
    PROVE  [m EXCEPT !.needed = s] \in Metas /\ MetaFits([m EXCEPT !.needed = s])
<1> DEFINE w == [m EXCEPT !.needed = s]
<1>1. /\ w \in Metas /\ w.count = m.count /\ w.needed = s /\ w.good = m.good /\ w.bad = m.bad
      /\ w.has = m.has /\ w.file = m.file
  BY DEF Metas
<1> HIDE DEF w
<1>2. s = <<>> <=> m.needed = <<>>
  <2>1. m.needed \in Seq(Node)
    BY DEF Metas
  <2> QED
    BY <2>1, NodeListShape
<1>3. MetaFits(w)
  BY <1>1, <1>2 DEF MetaFits
<1> QED
  BY <1>1, <1>3 DEF w

\* All pieces have come: the torrent has its metadata, or all are needed again.
LEMMA CompletedFits ==
    ASSUME NEW m \in Metas, m.needed = <<>>, ~m.has, m.count > 0, m.good \cup m.bad = 1..m.count
    PROVE  Completed(m) \in Metas /\ MetaFits(Completed(m))
<1> DEFINE checksum == m.bad = {} /\ m.count = MetaCount
           merged == checksum /\ m.file = "magnet"
           file == IF merged THEN "none" ELSE m.file
<1>1. m.count \in Counts /\ file \in {"magnet", "torrent", "none"}
  BY DEF Metas
<1>2. CASE merged /\ usable
  <2> DEFINE w == [m EXCEPT !.has = TRUE, !.file = "torrent"]
  <2>1. Completed(m) = w
    BY <1>2 DEF Completed
  <2>2. /\ w \in Metas /\ w.count = m.count /\ w.needed = <<>> /\ w.good = m.good /\ w.bad = m.bad
        /\ w.has = TRUE /\ w.file = "torrent"
    BY DEF Metas
  <2> HIDE DEF w
  <2>3. m.bad = {} /\ m.good = 1..m.count /\ m.count = MetaCount
    BY <1>2
  <2>4. PiecesOf(<<>>) = {} /\ \A i, j \in DOMAIN <<>> : <<>>[i].piece = <<>>[j].piece => i = j
    BY DEF PiecesOf
  <2>5. MetaFits(w)
    BY <2>2, <2>3, <2>4 DEF MetaFits
  <2> QED
    BY <2>1, <2>2, <2>5
<1>3. CASE ~(merged /\ usable)
  <2> DEFINE s == NewNodes(m.count)
             w == [m EXCEPT !.needed = s, !.good = {}, !.bad = {}, !.file = file]
  <2>1. Completed(m) = w
    BY <1>3 DEF Completed
  <2>2. /\ s \in Seq(Node) /\ s # <<>> /\ PiecesOf(s) = 1..m.count
        /\ \A i, j \in DOMAIN s : s[i].piece = s[j].piece => i = j
    BY <1>1, NewNodesFit
  <2> HIDE DEF s, file
  <2>3. /\ w \in Metas /\ w.count = m.count /\ w.needed = s /\ w.good = {} /\ w.bad = {}
        /\ w.has = m.has
    BY <1>1, <2>2 DEF Metas
  <2> HIDE DEF w
  <2>4. MetaFits(w)
    BY <2>2, <2>3 DEF MetaFits
  <2> QED
    BY <2>1, <2>3, <2>4
<1> QED
  BY <1>2, <1>3

LEMMA GotMetadataKeeps ==
    ASSUME ExtTypes, MetaFits(meta), NEW p \in ExtPeers,
           NEW m \in [type : {"data"}, piece : MetaPiece, ok : BOOLEAN], GotMetadata(p, m)
    PROVE  meta' \in Metas /\ MetaFits(meta') /\ UNCHANGED <<msgs, toPeer>>
<1> DEFINE needed == Without(meta.needed, m.piece)
           wanted == ~meta.has /\ m.piece <= meta.count /\ \E i \in DOMAIN meta.needed : meta.needed[i].piece = m.piece
           stored == IF m.ok THEN [meta EXCEPT !.needed = needed, !.good = @ \cup {m.piece}]
                     ELSE [meta EXCEPT !.needed = needed, !.bad = @ \cup {m.piece}]
<1>1. UNCHANGED <<msgs, toPeer>>
  BY DEF GotMetadata
<1>2. meta' = IF ~wanted THEN meta ELSE IF needed = <<>> THEN Completed(stored) ELSE stored
  BY DEF GotMetadata
<1>3. meta \in Metas /\ meta.needed \in Seq(Node)
  BY DEF ExtTypes, Metas
<1>4. CASE ~wanted
  BY <1>1, <1>2, <1>3, <1>4
<1>5. CASE wanted
  <2> DEFINE s == needed
             x == m.piece
             old == meta.needed
  <2>1. ~meta.has /\ x \in PiecesOf(old) /\ x \in MetaPiece
    BY <1>5 DEF PiecesOf
  <2>2. \A i, j \in DOMAIN old : old[i].piece = old[j].piece => i = j
    BY DEF MetaFits
  <2>3. /\ s \in Seq(Node) /\ PiecesOf(s) = PiecesOf(old) \ {x}
        /\ \A i, j \in DOMAIN s : s[i].piece = s[j].piece => i = j
    BY <1>3, <2>1, <2>2, WithoutFits
  <2>4. meta' = IF s = <<>> THEN Completed(stored) ELSE stored
    BY <1>2, <1>5
  <2> HIDE DEF needed
  <2>5. /\ stored \in Metas /\ stored.count = meta.count /\ stored.needed = s /\ stored.has = FALSE
        /\ stored.good \cup stored.bad = meta.good \cup meta.bad \cup {x}
    <3>1. meta.has = FALSE /\ m.ok \in BOOLEAN
      BY <1>3, <2>1 DEF Metas
    <3>2. CASE m.ok
      BY <1>3, <2>1, <2>3, <3>1, <3>2 DEF Metas
    <3>3. CASE ~m.ok
      BY <1>3, <2>1, <2>3, <3>1, <3>3 DEF Metas
    <3> QED
      BY <3>1, <3>2, <3>3
  <2> HIDE DEF stored
  <2>6. /\ PiecesOf(old) \cap (meta.good \cup meta.bad) = {}
        /\ PiecesOf(old) \cup (meta.good \cup meta.bad) = 1..meta.count
    BY DEF MetaFits
  <2>7. /\ PiecesOf(s) \cap (stored.good \cup stored.bad) = {}
        /\ PiecesOf(s) \cup (stored.good \cup stored.bad) = 1..stored.count
    BY <2>1, <2>3, <2>5, <2>6
  <2>8. stored.count > 0
    <3>1. x \in 1..meta.count /\ meta.count \in {0} \cup Counts
      BY <1>3, <2>1, <2>6 DEF Metas
    <3>2. meta.count \in Nat
      BY <3>1, CountsBounded
    <3> QED
      BY <2>5, <3>1, <3>2
  <2>9. CASE s = <<>>
    <3>1. PiecesOf(s) = {}
      BY <2>3, <2>9, NodeListShape
    <3>2. stored.needed = <<>> /\ ~stored.has /\ stored.good \cup stored.bad = 1..stored.count
      BY <2>5, <2>7, <2>9, <3>1
    <3>3. Completed(stored) \in Metas /\ MetaFits(Completed(stored))
      BY <2>5, <2>8, <3>2, CompletedFits
    <3> QED
      BY <1>1, <2>4, <2>9, <3>3
  <2>10. CASE s # <<>>
    <3>1. MetaFits(stored)
      BY <2>3, <2>5, <2>7, <2>10 DEF MetaFits
    <3> QED
      BY <1>1, <2>4, <2>5, <2>10, <3>1
  <2> QED
    BY <2>9, <2>10
<1> QED
  BY <1>4, <1>5

-----------------------------------------------------------------------------
(* The steps.                                                              *)

LEMMA ExtInitInv == ExtInit => ExtInv
<1> SUFFICES ASSUME ExtInit PROVE ExtInv
  OBVIOUS
<1>1. <<>> \in Seq(Node) /\ <<>> \in Seq(MetaPiece) /\ <<>> \in Seq(ToPeers) /\ PiecesOf(<<>>) = {} /\ Len(<<>>) = 0
  BY EmptySeq DEF PiecesOf
<1>2. NoMeta \in Metas /\ AllMeta \in Metas /\ MetaFits(NoMeta) /\ MetaFits(AllMeta)
  <2>1. /\ NoMeta \in Metas /\ NoMeta.count = 0 /\ NoMeta.needed = <<>> /\ NoMeta.good = {} /\ NoMeta.bad = {}
        /\ NoMeta.has = FALSE
    BY <1>1 DEF NoMeta, Metas
  <2>4. /\ AllMeta \in Metas /\ AllMeta.count = 0 /\ AllMeta.needed = <<>> /\ AllMeta.good = {} /\ AllMeta.bad = {}
        /\ AllMeta.has = TRUE /\ AllMeta.file = "torrent"
    <3> HIDE DEF NoMeta
    <3> QED
      BY <2>1 DEF AllMeta, Metas
  <2>2. \A i, j \in DOMAIN <<>> : <<>>[i].piece = <<>>[j].piece => i = j
    OBVIOUS
  <2>3. 1..0 = {} /\ ~(0 > 0)
    OBVIOUS
  <2>5. MetaFits(NoMeta)
    BY <1>1, <2>1, <2>2, <2>3 DEF MetaFits
  <2>6. MetaFits(AllMeta)
    BY <1>1, <2>2, <2>3, <2>4 DEF MetaFits
  <2> QED
    BY <2>1, <2>4, <2>5, <2>6
<1>3. meta \in Metas /\ MetaFits(meta)
  BY <1>2 DEF ExtInit
<1>4. PICK claim \in [ExtPeers -> WrongCounts \cup {MetaCount}] :
         toUs = [p \in ExtPeers |-> <<Hello2(p, claim[p])>>]
  BY DEF ExtInit
<1>5. toUs \in [ExtPeers -> Seq(ToUses)]
  <2>1. ASSUME NEW p \in ExtPeers PROVE <<Hello2(p, claim[p])>> \in Seq(ToUses)
    <3>1. claim[p] \in Counts /\ allowsPex \in BOOLEAN
      BY DEF Counts, ExtInit
    <3>2. Hello2(p, claim[p]) \in ToUses
      BY <3>1 DEF Hello2, ToUses
    <3> DEFINE x == Hello2(p, claim[p])
    <3> HIDE DEF x
    <3>3. x \in ToUses => <<x>> \in Seq(ToUses)
      OBVIOUS
    <3> QED
      BY <3>2, <3>3 DEF x
  <2> QED
    BY <1>4, <2>1
<1>6. /\ msgs = [p \in ExtPeers |-> [supportsPex |-> FALSE, supportsMeta |-> FALSE, pex |-> {}]]
      /\ askedMeta = [p \in ExtPeers |-> <<>>] /\ toPeer = [p \in ExtPeers |-> <<>>]
      /\ connected = {} /\ told = [p \in ExtPeers |-> {}] /\ allowsPex \in BOOLEAN
  BY DEF ExtInit
<1>7. 0 <= MetadataReqq /\ 0 <= MaxPex
  BY ExtAssumption
<1>8. ExtTypes
  BY <1>1, <1>3, <1>5, <1>6, <1>7 DEF ExtTypes, Peermsgs
<1>9. PexFits
  <2>1. Cardinality({}) = 0
    BY FS_EmptySet
  <2>2. \A p \in ExtPeers : told[p] = {} /\ toPeer[p] = <<>> /\ msgs[p].pex = {}
    BY <1>6
  <2>3. WillKnow({}, <<>>) = {}
    BY NothingHeard
  <2>4. DOMAIN <<>> = {}
    OBVIOUS
  <2> QED
    BY <1>7, <2>1, <2>2, <2>3, <2>4 DEF PexFits
<1> QED
  BY <1>3, <1>8, <1>9 DEF ExtInv

LEMMA PexPulseKeeps ==
    ASSUME ExtInv, NEW p \in ExtPeers, PexPulse(p)
    PROVE  ExtInv'
<1> DEFINE m == msgs[p]
<1>1. SendPex(p, m) /\ UNCHANGED <<meta, askedMeta, toUs, connected, told, allowsPex, usable>>
  BY DEF PexPulse
<1>2. ExtTypes /\ PexFits /\ MetaFits(meta) /\ m \in Peermsgs /\ m.pex = msgs[p].pex
  BY DEF ExtInv, ExtTypes
<1> HIDE DEF m
<1>3. msgs' \in [ExtPeers -> Peermsgs] /\ toPeer' \in [ExtPeers -> Seq(ToPeers)] /\ PexFits'
  BY <1>1, <1>2, SendPexKeeps
<1>4. ExtTypes'
  BY <1>1, <1>2, <1>3 DEF ExtTypes
<1> QED
  BY <1>1, <1>2, <1>3, <1>4 DEF ExtInv

LEMMA RequestMetadataKeeps ==
    ASSUME ExtInv, NEW p \in ExtPeers, RequestMetadata(p)
    PROVE  ExtInv'
<1> DEFINE s == meta.needed
           x == [Head(s) EXCEPT !.recent = TRUE]
           t == Append(Tail(s), x)
           m == [type |-> "request", piece |-> Head(s).piece]
<1>1. /\ s # <<>> /\ meta' = [meta EXCEPT !.needed = t]
      /\ Say(p, m)
      /\ UNCHANGED <<msgs, askedMeta, toUs, connected, told, allowsPex, usable, extEvents>>
  BY DEF RequestMetadata
<1>2. ExtTypes /\ PexFits /\ MetaFits(meta) /\ meta \in Metas /\ s \in Seq(Node)
  BY DEF ExtInv, ExtTypes, Metas
<1>3. Head(s) \in Node
  BY <1>1, <1>2, HeadTailProperties
<1>4. x \in Node /\ x.piece = Head(s).piece /\ Head(s).piece \in MetaPiece
  BY <1>3 DEF Node
<1>5. m \in ToPeers /\ m.type = "request"
  BY <1>4 DEF ToPeers
<1> HIDE DEF x, m
<1>6. \A i, j \in DOMAIN s : s[i].piece = s[j].piece => i = j
  BY <1>2 DEF MetaFits
<1>7. /\ t \in Seq(Node) /\ PiecesOf(t) = PiecesOf(s)
      /\ \A i, j \in DOMAIN t : t[i].piece = t[j].piece => i = j
  <2> HIDE DEF s
  <2> QED
    BY <1>1, <1>2, <1>4, <1>6, RotatedFits
<1> HIDE DEF t
<1>8. meta' \in Metas /\ MetaFits(meta')
  BY <1>1, <1>2, <1>7, SamePiecesFit
<1>9. toPeer' \in [ExtPeers -> Seq(ToPeers)] /\ PexFits'
  <2>1. toPeer' = [toPeer EXCEPT ![p] = Append(@, m)]
    BY <1>1 DEF Say
  <2>2. Hears(msgs[p].pex, m) = msgs[p].pex /\ m.type # "pex"
    BY <1>5 DEF Hears
  <2>3. Cardinality(msgs[p].pex) <= MaxPex
    BY <1>2 DEF PexFits
  <2>4. msgs'[p].pex = Hears(msgs[p].pex, m) /\ Cardinality(msgs'[p].pex) <= MaxPex
        /\ \A q \in ExtPeers : q # p => msgs'[q].pex = msgs[q].pex
    BY <1>1, <2>2, <2>3
  <2>5. m.type = "pex" => m.added \cap m.dropped = {}
    BY <2>2
  <2>6. UNCHANGED told
    BY <1>1
  <2> QED
    BY <1>2, <1>5, <2>1, <2>4, <2>5, <2>6, SaidFits
<1>10. ExtTypes'
  BY <1>1, <1>2, <1>8, <1>9 DEF ExtTypes
<1> QED
  BY <1>8, <1>9, <1>10 DEF ExtInv

LEMMA MetaTickKeeps ==
    ASSUME ExtInv, MetaTick
    PROVE  ExtInv'
<1> DEFINE s == meta.needed
           t == [i \in DOMAIN s |-> [s[i] EXCEPT !.recent = FALSE]]
<1>1. /\ meta' = [meta EXCEPT !.needed = t]
      /\ UNCHANGED <<msgs, askedMeta, toPeer, toUs, connected, told, allowsPex, usable>>
  BY DEF MetaTick
<1>2. ExtTypes /\ PexFits /\ MetaFits(meta) /\ meta \in Metas /\ s \in Seq(Node)
  BY DEF ExtInv, ExtTypes, Metas
<1>3. Len(s) \in Nat /\ DOMAIN s = 1..Len(s) /\ \A i \in DOMAIN s : s[i] \in Node
  BY <1>2, NodeListShape
<1>4. \A i \in DOMAIN s : [s[i] EXCEPT !.recent = FALSE] \in Node /\ [s[i] EXCEPT !.recent = FALSE].piece = s[i].piece
  BY <1>3 DEF Node
<1>5. t \in [1..Len(s) -> Node] /\ \A i \in DOMAIN s : t[i].piece = s[i].piece
  BY <1>3, <1>4
<1>6. DOMAIN t = DOMAIN s
  OBVIOUS
<1> DEFINE n == Len(s)
<1> HIDE DEF t, n
<1>7. t \in Seq(Node)
  <2>1. n \in Nat /\ t \in [1..n -> Node]
    BY <1>3, <1>5 DEF n
  <2> QED
    BY <2>1, MadeList
<1>8. PiecesOf(t) = PiecesOf(s) /\ \A i, j \in DOMAIN t : t[i].piece = t[j].piece => i = j
  <2>1. PiecesOf(t) = PiecesOf(s)
    BY <1>5, <1>6 DEF PiecesOf
  <2>2. \A i, j \in DOMAIN s : s[i].piece = s[j].piece => i = j
    BY <1>2 DEF MetaFits
  <2> QED
    BY <1>5, <1>6, <2>1, <2>2
<1>9. meta' \in Metas /\ MetaFits(meta')
  BY <1>1, <1>2, <1>7, <1>8, SamePiecesFit
<1>10. ExtTypes' /\ PexFits'
  BY <1>1, <1>2, <1>9 DEF ExtTypes, PexFits
<1> QED
  BY <1>9, <1>10 DEF ExtInv

LEMMA ExtReceiveKeeps ==
    ASSUME ExtInv, NEW p \in ExtPeers, ExtReceive(p)
    PROVE  ExtInv'
<1> DEFINE m == Head(toUs[p])
<1>1. /\ toUs[p] # <<>> /\ toUs' = [toUs EXCEPT ![p] = Tail(@)]
      /\ CASE m.type = "handshake" -> GotHandshake(p, m)
           [] m.type = "data"      -> GotMetadata(p, m)
           [] m.type = "reject"    -> UNCHANGED <<meta, msgs, toPeer>>
      /\ UNCHANGED <<askedMeta, connected, told, allowsPex, usable, extEvents>>
  BY DEF ExtReceive
<1>2. ExtTypes /\ PexFits /\ MetaFits(meta) /\ meta \in Metas /\ toUs[p] \in Seq(ToUses)
  BY DEF ExtInv, ExtTypes
<1>3. m \in ToUses /\ Tail(toUs[p]) \in Seq(ToUses)
  BY <1>1, <1>2, HeadTailProperties
<1> HIDE DEF m
<1>4. toUs' \in [ExtPeers -> Seq(ToUses)]
  BY <1>1, <1>2, <1>3 DEF ExtTypes
<1>5. /\ meta' \in Metas /\ MetaFits(meta') /\ PexFits'
      /\ msgs' \in [ExtPeers -> Peermsgs] /\ toPeer' \in [ExtPeers -> Seq(ToPeers)]
  <2>1. CASE m.type = "handshake"
    <3> DEFINE w == [msgs[p] EXCEPT !.supportsPex = m.pex, !.supportsMeta = TRUE]
    <3>1. m.pex \in BOOLEAN /\ m.count \in Counts
      BY <1>3, <2>1 DEF ToUses
    <3>2. meta' = SizeHint(m.count) /\ SendPex(p, w)
      BY <1>1, <2>1 DEF GotHandshake
    <3>3. w \in Peermsgs /\ w.pex = msgs[p].pex
      <4>1. msgs[p] \in Peermsgs
        BY <1>2 DEF ExtTypes
      <4> QED
        BY <3>1, <4>1 DEF Peermsgs
    <3> HIDE DEF w
    <3>4. meta' \in Metas /\ MetaFits(meta')
      BY <1>2, <3>1, <3>2, SizeHintFits
    <3>5. msgs' \in [ExtPeers -> Peermsgs] /\ toPeer' \in [ExtPeers -> Seq(ToPeers)] /\ PexFits'
      BY <1>1, <1>2, <3>2, <3>3, SendPexKeeps
    <3> QED
      BY <3>4, <3>5
  <2>2. CASE m.type = "data"
    <3>1. m \in [type : {"data"}, piece : MetaPiece, ok : BOOLEAN]
      BY <1>3, <2>2 DEF ToUses
    <3>2. GotMetadata(p, m)
      BY <1>1, <2>2
    <3>3. meta' \in Metas /\ MetaFits(meta') /\ UNCHANGED <<msgs, toPeer>>
      BY <1>2, <3>1, <3>2, GotMetadataKeeps
    <3>4. PexFits'
      BY <1>1, <1>2, <3>3 DEF PexFits
    <3> QED
      BY <1>2, <3>3, <3>4 DEF ExtTypes
  <2>3. CASE m.type = "reject"
    <3>1. UNCHANGED <<meta, msgs, toPeer>>
      BY <1>1, <2>3
    <3>2. PexFits'
      BY <1>1, <1>2, <3>1 DEF PexFits
    <3> QED
      BY <1>2, <3>1, <3>2 DEF ExtTypes
  <2>4. m.type \in {"handshake", "data", "reject"}
    BY <1>3 DEF ToUses
  <2> QED
    BY <2>1, <2>2, <2>3, <2>4
<1>6. ExtTypes'
  BY <1>1, <1>2, <1>4, <1>5 DEF ExtTypes
<1> QED
  BY <1>5, <1>6 DEF ExtInv

LEMMA PeerReceiveKeeps ==
    ASSUME ExtInv, NEW p \in ExtPeers, PeerReceive(p)
    PROVE  ExtInv'
<1> DEFINE m == Head(toPeer[p])
           room == Len(askedMeta[p]) < MetadataReqq
<1>1. /\ toPeer[p] # <<>> /\ toPeer' = [toPeer EXCEPT ![p] = Tail(@)]
      /\ IF m.type = "request"
         THEN /\ askedMeta' = IF room THEN [askedMeta EXCEPT ![p] = Append(@, m.piece)] ELSE askedMeta
              /\ IF room THEN UNCHANGED toUs ELSE Answer(p, Rejection(m.piece))
              /\ UNCHANGED told
         ELSE /\ told' = [told EXCEPT ![p] = (@ \ m.dropped) \cup m.added]
              /\ UNCHANGED <<askedMeta, toUs>>
      /\ UNCHANGED <<meta, msgs, connected, allowsPex, usable, extEvents>>
  BY DEF PeerReceive
<1>2. ExtTypes /\ PexFits /\ MetaFits(meta) /\ meta \in Metas /\ toPeer[p] \in Seq(ToPeers)
  BY DEF ExtInv, ExtTypes
<1>3. m \in ToPeers
  BY <1>1, <1>2, HeadTailProperties
<1> HIDE DEF m
<1>4. told' = [told EXCEPT ![p] = Hears(@, Head(toPeer[p]))]
  <2> DEFINE h == Hears(told[p], m)
  <2>1. told \in [ExtPeers -> SUBSET Addresses]
    BY <1>2 DEF ExtTypes
  <2>2. told' = [told EXCEPT ![p] = h]
    <3>1. CASE m.type = "request"
      <4>1. h = told[p] /\ told' = told
        BY <1>1, <3>1 DEF Hears
      <4> HIDE DEF h
      <4> QED
        BY <2>1, <4>1
    <3>2. CASE m.type # "request"
      <4>1. m.type = "pex"
        BY <1>3, <3>2 DEF ToPeers, Pexes
      <4>2. h = (told[p] \ m.dropped) \cup m.added
        BY <4>1 DEF Hears
      <4>3. told' = [told EXCEPT ![p] = (told[p] \ m.dropped) \cup m.added]
        BY <1>1, <3>2
      <4> HIDE DEF h
      <4> QED
        BY <4>2, <4>3
    <3> QED
      BY <3>1, <3>2
  <2> QED
    BY <2>2 DEF m
<1>5. toPeer' \in [ExtPeers -> Seq(ToPeers)] /\ told' \in [ExtPeers -> SUBSET Addresses] /\ PexFits'
  <2>1. UNCHANGED msgs
    BY <1>1
  <2> QED
    BY <1>1, <1>2, <1>4, <2>1, ReadFits
<1>6. /\ askedMeta' \in [ExtPeers -> Seq(MetaPiece)] /\ toUs' \in [ExtPeers -> Seq(ToUses)]
      /\ \A q \in ExtPeers : Len(askedMeta'[q]) <= MetadataReqq
  <2>1. /\ askedMeta \in [ExtPeers -> Seq(MetaPiece)] /\ toUs \in [ExtPeers -> Seq(ToUses)]
        /\ \A q \in ExtPeers : Len(askedMeta[q]) <= MetadataReqq
    BY <1>2 DEF ExtTypes
  <2>2. CASE m.type = "request" /\ room
    <3> DEFINE s == askedMeta[p]
               t == Append(s, m.piece)
    <3>1. m.piece \in MetaPiece
      BY <1>3, <2>2 DEF ToPeers, Pexes
    <3>2. t \in Seq(MetaPiece) /\ Len(t) = Len(s) + 1 /\ Len(s) \in Nat
      BY <2>1, <3>1, AppendProperties, LenProperties
    <3>3. Len(t) <= MetadataReqq
      BY <2>2, <3>2, ExtAssumption
    <3>4. askedMeta' = [askedMeta EXCEPT ![p] = t] /\ UNCHANGED toUs
      BY <1>1, <2>2
    <3> HIDE DEF t
    <3> QED
      BY <2>1, <3>2, <3>3, <3>4
  <2>3. CASE m.type = "request" /\ ~room
    <3> DEFINE x == Rejection(m.piece)
               t == Append(toUs[p], x)
    <3>1. x \in ToUses
      BY <1>3, <2>3 DEF ToPeers, Pexes, Rejection, ToUses
    <3> HIDE DEF x
    <3>2. t \in Seq(ToUses)
      BY <2>1, <3>1, AppendProperties
    <3>3. toUs' = [toUs EXCEPT ![p] = t] /\ UNCHANGED askedMeta
      BY <1>1, <2>3 DEF Answer, x
    <3> HIDE DEF t
    <3> QED
      BY <2>1, <3>2, <3>3
  <2>4. CASE m.type # "request"
    BY <1>1, <2>1, <2>4
  <2> QED
    BY <2>2, <2>3, <2>4
<1>7. ExtTypes'
  BY <1>1, <1>2, <1>5, <1>6 DEF ExtTypes
<1> QED
  BY <1>1, <1>2, <1>5, <1>7 DEF ExtInv

LEMMA PeerServeKeeps ==
    ASSUME ExtInv, NEW p \in ExtPeers, PeerServe(p)
    PROVE  ExtInv'
<1> DEFINE s == askedMeta[p]
           piece == Head(s)
<1>1. /\ s # <<>> /\ askedMeta' = [askedMeta EXCEPT ![p] = Tail(@)]
      /\ UNCHANGED <<meta, msgs, toPeer, connected, told, allowsPex, usable, extEvents>>
  BY DEF PeerServe
<1>2. PICK ok \in BOOLEAN :
         Answer(p, IF piece <= MetaCount \/ ~ok THEN [type |-> "data", piece |-> piece, ok |-> ok]
                   ELSE Rejection(piece))
  BY DEF PeerServe
<1>3. /\ ExtTypes /\ PexFits /\ MetaFits(meta) /\ s \in Seq(MetaPiece) /\ toUs[p] \in Seq(ToUses)
      /\ Len(s) <= MetadataReqq
  BY DEF ExtInv, ExtTypes
<1>4. piece \in MetaPiece /\ Tail(s) \in Seq(MetaPiece) /\ Len(Tail(s)) = Len(s) - 1 /\ Len(s) \in Nat
  BY <1>1, <1>3, HeadTailProperties, LenProperties
<1> HIDE DEF piece
<1> DEFINE x == IF piece <= MetaCount \/ ~ok THEN [type |-> "data", piece |-> piece, ok |-> ok] ELSE Rejection(piece)
           t == Append(toUs[p], x)
<1>5. x \in ToUses
  <2>1. [type |-> "data", piece |-> piece, ok |-> ok] \in ToUses /\ Rejection(piece) \in ToUses
    BY <1>4 DEF ToUses, Rejection
  <2> QED
    BY <2>1
<1>6. toUs' = [toUs EXCEPT ![p] = t]
  BY <1>2 DEF Answer
<1> HIDE DEF x
<1>7. t \in Seq(ToUses)
  BY <1>3, <1>5, AppendProperties
<1> HIDE DEF t
<1>8. toUs' \in [ExtPeers -> Seq(ToUses)]
  BY <1>3, <1>6, <1>7 DEF ExtTypes
<1>9. askedMeta' \in [ExtPeers -> Seq(MetaPiece)] /\ \A q \in ExtPeers : Len(askedMeta'[q]) <= MetadataReqq
  <2>1. Len(Tail(s)) <= MetadataReqq
    BY <1>3, <1>4, ExtAssumption
  <2> QED
    BY <1>1, <1>3, <1>4, <2>1 DEF ExtTypes
<1>10. ExtTypes' /\ PexFits'
  BY <1>1, <1>3, <1>8, <1>9 DEF ExtTypes, PexFits
<1> QED
  BY <1>1, <1>3, <1>10 DEF ExtInv

LEMMA ExtStep == ExtInv /\ [ExtNext]_extVars => ExtInv'
<1> SUFFICES ASSUME ExtInv, [ExtNext]_extVars PROVE ExtInv'
  OBVIOUS
<1>1. CASE UNCHANGED extVars
  BY <1>1 DEF extVars, ExtInv, ExtTypes, PexFits
<1>2. ASSUME NEW p \in ExtPeers,
             PexPulse(p) \/ RequestMetadata(p) \/ ExtReceive(p) \/ PeerReceive(p) \/ PeerServe(p)
      PROVE  ExtInv'
  BY <1>2, PexPulseKeeps, RequestMetadataKeeps, ExtReceiveKeeps, PeerReceiveKeeps, PeerServeKeeps
<1>3. ASSUME NEW S \in SUBSET Addresses, ConnectionsChange(S) PROVE ExtInv'
  BY <1>3 DEF ConnectionsChange, ExtInv, ExtTypes, PexFits
<1>4. CASE MetaTick
  BY <1>4, MetaTickKeeps
<1> QED
  BY <1>1, <1>2, <1>3, <1>4 DEF ExtNext

LEMMA ExtInvSound == ExtInv => ExtTypeOK /\ MetadataAccounted /\ PexRemembered
<1> SUFFICES ASSUME ExtInv PROVE ExtTypeOK /\ MetadataAccounted /\ PexRemembered
  OBVIOUS
<1> DEFINE s == meta.needed
<1>1. ExtTypes /\ MetaFits(meta) /\ PexFits /\ meta \in Metas /\ s \in Seq(Node)
  BY DEF ExtInv, ExtTypes, Metas
<1>2. ExtTypeOK
  BY <1>1 DEF ExtTypes, ExtTypeOK, Metas, Counts, Peermsgs
<1>3. NeededPieces = PiecesOf(s) /\ (PiecesOf(s) = {} <=> s = <<>>)
  BY <1>1, NodeListShape DEF NeededPieces, PiecesOf
<1>4. Len(s) = Cardinality(PiecesOf(s))
  <2> DEFINE n == Len(s)
             P == PiecesOf(s)
             f == [i \in 1..n |-> s[i].piece]
  <2>1. n \in Nat /\ DOMAIN s = 1..n
    BY <1>1, NodeListShape
  <2>2. \A i, j \in 1..n : s[i].piece = s[j].piece => i = j
    BY <1>1, <2>1 DEF MetaFits
  <2>3. P = {s[i].piece : i \in 1..n}
    BY <2>1 DEF PiecesOf
  <2>4. ExistsBijection(1..n, P)
    <3> HIDE DEF n, s, P
    <3>1. f \in [1..n -> P]
      BY <2>3
    <3>2. IsInjective(f)
      BY <2>2 DEF IsInjective
    <3>3. \A y \in P : \E i \in 1..n : f[i] = y
      BY <2>3
    <3> HIDE DEF f
    <3> QED
      BY <3>1, <3>2, <3>3 DEF ExistsBijection, Bijection, Injection, Surjection
  <2>5. IsFiniteSet(1..n) /\ Cardinality(1..n) = n
    <3> HIDE DEF n
    <3>1. Cardinality(1..n) = IF 1 > n THEN 0 ELSE n - 1 + 1
      BY <2>1, FS_Interval
    <3>2. IsFiniteSet(1..n)
      BY <2>1, FS_Interval
    <3> QED
      BY <2>1, <3>1, <3>2
  <2> HIDE DEF n, P, f
  <2>6. Cardinality(P) = n
    <3> DEFINE D == 1..n
    <3>1. IsFiniteSet(D) /\ Cardinality(D) = n /\ ExistsBijection(D, P)
      BY <2>4, <2>5
    <3> HIDE DEF D
    <3> QED
      BY <3>1, FS_Bijection
  <2> QED
    BY <2>6 DEF n, P
<1>5. MetadataAccounted
  BY <1>1, <1>3, <1>4 DEF MetadataAccounted, MetaFits
<1>6. PexRemembered
  BY <1>1 DEF PexRemembered, PexFits, WillKnow
<1> QED
  BY <1>2, <1>5, <1>6

\* However many peers lie, leave or come back: no piece of the metadata is lost or
\* held twice, and nobody is forgotten by peer exchange or told twice.
THEOREM ExtensionsKept == ExtSpec => []ExtInv
<1>1. ExtInit => ExtInv
  BY ExtInitInv
<1>2. ExtInv /\ [ExtNext]_extVars => ExtInv'
  BY ExtStep
<1> QED
  BY <1>1, <1>2, PTL DEF ExtSpec

-----------------------------------------------------------------------------
(***************************************************************************)
(* For any torrent, and however often the two clients choke, cancel, lose     *)
(* pieces and let pieces overtake messages: with the fast extension no        *)
(* request gets lost, and each side's view of the other becomes what the      *)
(* other decided.                                                            *)
(***************************************************************************)
WireMsgs == {m \in Message : \/ m.type \in Simple /\ m.arg = Nothing
                             \/ m.type \in OfBlock /\ \E b \in MsgBlocks : m.arg = {b}
                             \/ m.type = "BITFIELD"}

\* Of a sequence of messages: it has message t of block x; it asks for x and does not
\* take that back; the peer that reads it knows of x; no greeting is in it.
HasMsg(s, t, x) == \E i \in 1..Len(s) : s[i] = Msg(t, {x})
Stands(s, x) == \E i \in 1..Len(s) : /\ s[i] = Msg("REQUEST", {x})
                                     /\ \A j \in 1..Len(s) : j > i => s[j] # Msg("CANCEL", {x})
TellsOf(m, x) == (m.type \in {"HAVE", "BITFIELD"} /\ x \in m.arg) \/ m.type = "HAVE_ALL"
Covers(s, x) == \E i \in 1..Len(s) : TellsOf(s[i], x)
Greetings == {"BITFIELD", "HAVE_ALL", "HAVE_NONE"}
GreetFree(s) == \A i \in 1..Len(s) : s[i].type \notin Greetings

-----------------------------------------------------------------------------
(* Sequences of messages.                                                  *)

LEMMA WireConcat ==
    ASSUME NEW s \in Seq(WireMsgs), NEW t \in Seq(WireMsgs)
    PROVE  /\ s \o t \in Seq(WireMsgs)
           /\ Len(s) \in Nat /\ Len(t) \in Nat /\ Len(s \o t) = Len(s) + Len(t)
           /\ \A i \in 1..Len(s) : i \in 1..Len(s \o t) /\ (s \o t)[i] = s[i]
           /\ \A j \in 1..Len(t) : Len(s) + j \in 1..Len(s \o t) /\ (s \o t)[Len(s) + j] = t[j]
           /\ \A k \in 1..Len(s \o t) : k \in 1..Len(s) \/ (k - Len(s) \in 1..Len(t) /\ (s \o t)[k] = t[k - Len(s)])
<1>1. s \o t \in Seq(WireMsgs) /\ Len(s \o t) = Len(s) + Len(t)
      /\ \A i \in 1..Len(s) + Len(t) : (s \o t)[i] = IF i <= Len(s) THEN s[i] ELSE t[i - Len(s)]
  BY ConcatProperties
<1>2. Len(s) \in Nat /\ Len(t) \in Nat
  BY LenProperties
<1> DEFINE m == Len(s)
           n == Len(t)
           u == s \o t
<1>3. m \in Nat /\ n \in Nat /\ Len(u) = m + n /\ \A i \in 1..m + n : u[i] = IF i <= m THEN s[i] ELSE t[i - m]
  BY <1>1, <1>2
<1>4. /\ \A i \in 1..m : i \in 1..Len(u) /\ u[i] = s[i]
      /\ \A j \in 1..n : m + j \in 1..Len(u) /\ u[m + j] = t[j]
      /\ \A k \in 1..Len(u) : k \in 1..m \/ (k - m \in 1..n /\ u[k] = t[k - m])
  <2> HIDE DEF m, n, u
  <2>1. ASSUME NEW i \in 1..m PROVE i \in 1..Len(u) /\ u[i] = s[i]
    BY <1>3
  <2>2. ASSUME NEW j \in 1..n PROVE m + j \in 1..Len(u) /\ u[m + j] = t[j]
    <3>1. m + j \in 1..m + n /\ ~(m + j <= m) /\ (m + j) - m = j
      BY <1>3
    <3> QED
      BY <1>3, <3>1
  <2>3. ASSUME NEW k \in 1..Len(u) PROVE k \in 1..m \/ (k - m \in 1..n /\ u[k] = t[k - m])
    <3>1. k \in 1..m + n /\ (k \in 1..m \/ (~(k <= m) /\ k - m \in 1..n))
      BY <1>3
    <3> QED
      BY <1>3, <3>1
  <2> QED
    BY <2>1, <2>2, <2>3
<1> QED
  BY <1>1, <1>2, <1>4

LEMMA HasConcat ==
    ASSUME NEW s \in Seq(WireMsgs), NEW u \in Seq(WireMsgs), NEW t, NEW x
    PROVE  HasMsg(s \o u, t, x) <=> HasMsg(s, t, x) \/ HasMsg(u, t, x)
<1> DEFINE m == Msg(t, {x})
           w == s \o u
<1>1. /\ \A i \in 1..Len(s) : i \in 1..Len(w) /\ w[i] = s[i]
      /\ \A j \in 1..Len(u) : Len(s) + j \in 1..Len(w) /\ w[Len(s) + j] = u[j]
      /\ \A k \in 1..Len(w) : k \in 1..Len(s) \/ (k - Len(s) \in 1..Len(u) /\ w[k] = u[k - Len(s)])
  BY WireConcat
<1>2. (\E k \in 1..Len(w) : w[k] = m) <=> (\E i \in 1..Len(s) : s[i] = m) \/ \E j \in 1..Len(u) : u[j] = m
  <2> HIDE DEF m, w
  <2> QED
    BY <1>1
<1> QED
  BY <1>2 DEF HasMsg

LEMMA CoversConcat ==
    ASSUME NEW s \in Seq(WireMsgs), NEW u \in Seq(WireMsgs), NEW x
    PROVE  Covers(s \o u, x) <=> Covers(s, x) \/ Covers(u, x)
<1> DEFINE w == s \o u
<1>1. /\ \A i \in 1..Len(s) : i \in 1..Len(w) /\ w[i] = s[i]
      /\ \A j \in 1..Len(u) : Len(s) + j \in 1..Len(w) /\ w[Len(s) + j] = u[j]
      /\ \A k \in 1..Len(w) : k \in 1..Len(s) \/ (k - Len(s) \in 1..Len(u) /\ w[k] = u[k - Len(s)])
  BY WireConcat
<1>2. (\E k \in 1..Len(w) : TellsOf(w[k], x)) <=> (\E i \in 1..Len(s) : TellsOf(s[i], x)) \/ \E j \in 1..Len(u) : TellsOf(u[j], x)
  <2> HIDE DEF w
  <2> QED
    BY <1>1
<1> QED
  BY <1>2 DEF Covers

LEMMA GreetConcat ==
    ASSUME NEW s \in Seq(WireMsgs), NEW u \in Seq(WireMsgs)
    PROVE  GreetFree(s \o u) <=> GreetFree(s) /\ GreetFree(u)
<1> DEFINE w == s \o u
<1>1. /\ \A i \in 1..Len(s) : i \in 1..Len(w) /\ w[i] = s[i]
      /\ \A j \in 1..Len(u) : Len(s) + j \in 1..Len(w) /\ w[Len(s) + j] = u[j]
      /\ \A k \in 1..Len(w) : k \in 1..Len(s) \/ (k - Len(s) \in 1..Len(u) /\ w[k] = u[k - Len(s)])
  BY WireConcat
<1> HIDE DEF w
<1> QED
  BY <1>1 DEF GreetFree, w

LEMMA StandsConcat ==
    ASSUME NEW s \in Seq(WireMsgs), NEW u \in Seq(WireMsgs), NEW x
    PROVE  Stands(s \o u, x) <=> Stands(u, x) \/ (Stands(s, x) /\ ~HasMsg(u, "CANCEL", x))
<1> DEFINE w == s \o u
           ask == Msg("REQUEST", {x})
           no == Msg("CANCEL", {x})
           m == Len(s)
           n == Len(u)
           StandsIn(q, k) == k \in 1..Len(q) /\ q[k] = ask /\ \A j \in 1..Len(q) : j > k => q[j] # no
<1>1. /\ m \in Nat /\ n \in Nat /\ Len(w) = m + n
      /\ \A i \in 1..m : i \in 1..Len(w) /\ w[i] = s[i]
      /\ \A j \in 1..n : m + j \in 1..Len(w) /\ w[m + j] = u[j]
      /\ \A k \in 1..Len(w) : k \in 1..m \/ (k - m \in 1..n /\ w[k] = u[k - m])
  BY WireConcat
<1>2. Len(s) = m /\ Len(u) = n
  OBVIOUS
<1> HIDE DEF w, ask, no, m, n
<1>3. ASSUME NEW j \in 1..n, StandsIn(u, j) PROVE StandsIn(w, m + j)
  <2>1. m + j \in 1..Len(w) /\ w[m + j] = ask
    BY <1>1, <1>2, <1>3
  <2>2. ASSUME NEW k \in 1..Len(w), k > m + j PROVE w[k] # no
    <3>1. k \notin 1..m /\ k - m > j
      BY <1>1, <2>2
    <3> QED
      BY <1>1, <1>2, <1>3, <3>1
  <2> QED
    BY <2>1, <2>2
<1>4. ASSUME NEW i \in 1..m, StandsIn(s, i), \A j \in 1..n : u[j] # no PROVE StandsIn(w, i)
  <2>1. i \in 1..Len(w) /\ w[i] = ask
    BY <1>1, <1>4
  <2>2. ASSUME NEW k \in 1..Len(w), k > i PROVE w[k] # no
    BY <1>1, <1>2, <1>4, <2>2
  <2> QED
    BY <2>1, <2>2
<1>5. ASSUME NEW k \in 1..Len(w), StandsIn(w, k)
      PROVE  (\E j \in 1..n : StandsIn(u, j)) \/ ((\E i \in 1..m : StandsIn(s, i)) /\ \A j \in 1..n : u[j] # no)
  <2>1. CASE k \in 1..m
    <3>1. \A j \in 1..n : m + j \in 1..Len(w) /\ m + j > k /\ w[m + j] = u[j]
      BY <1>1, <2>1
    <3>2. \A j \in 1..n : u[j] # no
      BY <1>5, <3>1
    <3>3. \A i \in 1..m : i > k => s[i] # no
      BY <1>1, <1>5, <2>1
    <3> QED
      BY <1>1, <1>2, <1>5, <2>1, <3>2, <3>3
  <2>2. CASE k - m \in 1..n /\ w[k] = u[k - m]
    <3>1. ASSUME NEW j \in 1..n, j > k - m PROVE u[j] # no
      <4>1. m + j \in 1..Len(w) /\ m + j > k /\ w[m + j] = u[j]
        BY <1>1, <3>1
      <4> QED
        BY <1>5, <4>1
    <3>2. StandsIn(u, k - m)
      BY <1>2, <1>5, <2>2, <3>1
    <3> QED
      BY <2>2, <3>2
  <2> QED
    BY <1>1, <2>1, <2>2
<1>6. (\E k \in 1..Len(w) : StandsIn(w, k)) <=>
        (\E j \in 1..n : StandsIn(u, j)) \/ ((\E i \in 1..m : StandsIn(s, i)) /\ \A j \in 1..n : u[j] # no)
  <2> HIDE DEF StandsIn
  <2>1. \A j \in 1..n : m + j \in 1..Len(w)
    BY <1>1
  <2>2. \A i \in 1..m : i \in 1..Len(w)
    BY <1>1
  <2> QED
    BY <1>3, <1>4, <1>5, <2>1, <2>2
<1>7. \A q : Stands(q, x) <=> \E k \in 1..Len(q) : StandsIn(q, k)
  BY DEF Stands, ask, no
<1>8. HasMsg(u, "CANCEL", x) <=> \E j \in 1..n : u[j] = no
  BY <1>2 DEF HasMsg, no
<1> HIDE DEF StandsIn
<1> QED
  BY <1>2, <1>6, <1>7, <1>8 DEF w

-----------------------------------------------------------------------------
(* What a flag becomes.                                                    *)

LEMMA SettledNone ==
    ASSUME NEW s \in Seq(WireMsgs), NEW on, NEW off, NEW now,
           \A i \in 1..Len(s) : s[i].type \notin {on, off}
    PROVE  Settled(s, on, off, now) = now
<1>1. DOMAIN s = 1..Len(s)
  BY LenProperties
<1>2. {i \in DOMAIN s : s[i].type \in {on, off}} = {}
  BY <1>1
<1> QED
  BY <1>2 DEF Settled

LEMMA SettledLast ==
    ASSUME NEW s \in Seq(WireMsgs), NEW on, NEW off, NEW now, NEW i \in 1..Len(s),
           s[i].type \in {on, off}, \A j \in 1..Len(s) : j > i => s[j].type \notin {on, off}
    PROVE  Settled(s, on, off, now) = (s[i].type = on)
<1> DEFINE ts == {k \in DOMAIN s : s[k].type \in {on, off}}
           n == Len(s)
<1>1. DOMAIN s = 1..n /\ n \in Nat
  BY LenProperties
<1>2. ts \in SUBSET (0..n) /\ i \in ts /\ \A j \in ts : j \in 1..n /\ ~(j > i)
  <2>1. \A j \in 1..n : j \in 0..n
    BY <1>1
  <2> QED
    BY <1>1, <2>1
<1> HIDE DEF ts, n
<1>3. Max(ts) \in ts /\ \A j \in ts : j <= Max(ts)
  BY <1>1, <1>2, GreatestUpTo
<1>4. Max(ts) = i
  <2> DEFINE k == Max(ts)
  <2>1. k \in 1..n /\ i \in 1..n /\ ~(k > i) /\ i <= k
    BY <1>2, <1>3
  <2> HIDE DEF k
  <2>2. k = i
    BY <1>1, <2>1
  <2> QED
    BY <2>2 DEF k
<1>5. Settled(s, on, off, now) = IF ts = {} THEN now ELSE s[Max(ts)].type = on
  BY DEF Settled, ts
<1> QED
  BY <1>2, <1>4, <1>5

LEMMA SettledHas ==
    ASSUME NEW s \in Seq(WireMsgs), NEW on, NEW off
    PROVE  \/ \A i \in 1..Len(s) : s[i].type \notin {on, off}
           \/ \E i \in 1..Len(s) : /\ s[i].type \in {on, off}
                                   /\ \A j \in 1..Len(s) : j > i => s[j].type \notin {on, off}
<1> DEFINE ts == {k \in 1..Len(s) : s[k].type \in {on, off}}
           n == Len(s)
<1>1. n \in Nat
  BY LenProperties
<1>2. ts \in SUBSET (0..n) /\ (ts = {} => \A i \in 1..n : s[i].type \notin {on, off})
  <2>1. \A j \in 1..n : j \in 0..n
    BY <1>1
  <2> QED
    BY <2>1
<1>3. ASSUME ts # {}
      PROVE  \E i \in 1..n : s[i].type \in {on, off} /\ \A j \in 1..n : j > i => s[j].type \notin {on, off}
  <2>1. PICK i \in ts : \A j \in ts : j <= i
    <3> HIDE DEF ts, n
    <3> QED
      BY <1>1, <1>2, <1>3, GreatestUpTo
  <2>2. \A j \in 1..n : j > i => j \notin ts
    <3>1. \A j \in ts : j <= i
      BY <2>1
    <3>2. i \in 1..n
      BY <2>1
    <3> HIDE DEF ts, n
    <3> QED
      BY <1>1, <3>1, <3>2
  <2> QED
    BY <2>1, <2>2
<1> QED
  BY <1>2, <1>3

LEMMA SettledConcat ==
    ASSUME NEW s \in Seq(WireMsgs), NEW u \in Seq(WireMsgs), NEW on, NEW off, NEW now
    PROVE  Settled(s \o u, on, off, now) = Settled(u, on, off, Settled(s, on, off, now))
<1> DEFINE w == s \o u
           m == Len(s)
           n == Len(u)
           F == {on, off}
<1>1. /\ w \in Seq(WireMsgs)
      /\ m \in Nat /\ n \in Nat /\ Len(w) = m + n
      /\ \A i \in 1..m : i \in 1..Len(w) /\ w[i] = s[i]
      /\ \A j \in 1..n : m + j \in 1..Len(w) /\ w[m + j] = u[j]
      /\ \A k \in 1..Len(w) : k \in 1..m \/ (k - m \in 1..n /\ w[k] = u[k - m])
  BY WireConcat
<1> HIDE DEF w
<1>2. CASE \A j \in 1..n : u[j].type \notin F
  <2>1. Settled(u, on, off, Settled(s, on, off, now)) = Settled(s, on, off, now)
    BY <1>2, SettledNone
  <2>2. CASE \A i \in 1..m : s[i].type \notin F
    <3>1. \A k \in 1..Len(w) : w[k].type \notin F
      <4> HIDE DEF m, n, F
      <4> QED
        BY <1>1, <1>2, <2>2
    <3>2. Settled(w, on, off, now) = now
      BY <1>1, <3>1, SettledNone
    <3>3. Settled(s, on, off, now) = now
      BY <2>2, SettledNone
    <3> QED
      BY <2>1, <3>2, <3>3 DEF w
  <2>3. CASE \E i \in 1..m : s[i].type \in F /\ \A j \in 1..m : j > i => s[j].type \notin F
    <3>1. PICK i \in 1..m : s[i].type \in F /\ \A j \in 1..m : j > i => s[j].type \notin F
      BY <2>3
    <3>2. i \in 1..Len(w) /\ w[i] = s[i] /\ w[i].type \in F /\ \A k \in 1..Len(w) : k > i => w[k].type \notin F
      <4> HIDE DEF m, n, F
      <4>1. i \in 1..Len(w) /\ w[i] = s[i] /\ w[i].type \in F
        BY <1>1, <3>1
      <4>2. ASSUME NEW k \in 1..Len(w), k > i PROVE w[k].type \notin F
        <5>1. k \in 1..m \/ (k - m \in 1..n /\ w[k] = u[k - m])
          BY <1>1
        <5>2. CASE k \in 1..m
          BY <1>1, <3>1, <4>2, <5>2
        <5>3. CASE k - m \in 1..n /\ w[k] = u[k - m]
          BY <1>2, <5>3
        <5> QED
          BY <5>1, <5>2, <5>3
      <4> QED
        BY <4>1, <4>2
    <3>3. Settled(w, on, off, now) = (w[i].type = on)
      <4>1. /\ w \in Seq(WireMsgs) /\ i \in 1..Len(w) /\ w[i].type \in {on, off}
            /\ \A k \in 1..Len(w) : k > i => w[k].type \notin {on, off}
        BY <1>1, <3>2
      <4> QED
        BY ONLY <4>1, SettledLast
    <3>4. Settled(s, on, off, now) = (s[i].type = on)
      BY <3>1, SettledLast
    <3> QED
      BY <2>1, <3>2, <3>3, <3>4 DEF w
  <2> QED
    BY <2>2, <2>3, SettledHas
<1>3. CASE \E j \in 1..n : u[j].type \in F /\ \A k \in 1..n : k > j => u[k].type \notin F
  <2>1. PICK j \in 1..n : u[j].type \in F /\ \A k \in 1..n : k > j => u[k].type \notin F
    BY <1>3
  <2>2. m + j \in 1..Len(w) /\ w[m + j] = u[j] /\ w[m + j].type \in F /\ \A k \in 1..Len(w) : k > m + j => w[k].type \notin F
    <3>1. ASSUME NEW k \in 1..Len(w), k > m + j PROVE k - m \in 1..n /\ k - m > j /\ w[k] = u[k - m]
      <4>1. k \notin 1..m
        <5> HIDE DEF m, n
        <5> QED
          BY <1>1, <3>1
      <4>2. k - m \in 1..n /\ w[k] = u[k - m]
        BY <1>1, <4>1
      <4>3. k - m > j
        <5> HIDE DEF m, n
        <5> QED
          BY <1>1, <3>1
      <4> QED
        BY <4>2, <4>3
    <3> HIDE DEF m, n, F
    <3> QED
      BY <1>1, <2>1, <3>1
  <2>3. Settled(w, on, off, now) = (w[m + j].type = on)
    <3> DEFINE i == m + j
    <3>1. i \in 1..Len(w) /\ w[i].type \in F /\ \A k \in 1..Len(w) : k > i => w[k].type \notin F
      BY <2>2
    <3>2. w \in Seq(WireMsgs)
      BY <1>1
    <3> HIDE DEF i, m, n
    <3>3. Settled(w, on, off, now) = (w[i].type = on)
      BY <3>1, <3>2, SettledLast
    <3> QED
      BY <3>3 DEF i
  <2>4. Settled(u, on, off, Settled(s, on, off, now)) = (u[j].type = on)
    BY <2>1, SettledLast
  <2> QED
    BY <2>2, <2>3, <2>4 DEF w
<1> QED
  BY <1>2, <1>3, SettledHas

\* One message, and none.
LEMMA OneMessage ==
    ASSUME NEW m \in WireMsgs
    PROVE  /\ <<m>> \in Seq(WireMsgs) /\ Len(<<m>>) = 1 /\ <<m>>[1] = m
           /\ \A t, x : HasMsg(<<m>>, t, x) <=> m = Msg(t, {x})
           /\ \A x : Stands(<<m>>, x) <=> m = Msg("REQUEST", {x})
           /\ \A x : Covers(<<m>>, x) <=> TellsOf(m, x)
           /\ GreetFree(<<m>>) <=> m.type \notin Greetings
           /\ \A on, off, now : Settled(<<m>>, on, off, now) = IF m.type \in {on, off} THEN m.type = on ELSE now
<1> DEFINE s == <<m>>
<1>1. s \in Seq(WireMsgs) /\ Len(s) = 1 /\ s[1] = m
  OBVIOUS
<1>2. \A i : i \in 1..Len(s) <=> i = 1
  BY <1>1
<1> HIDE DEF s
<1>3. \A t, x : HasMsg(s, t, x) <=> m = Msg(t, {x})
  BY <1>1, <1>2 DEF HasMsg
<1>4. \A x : Stands(s, x) <=> m = Msg("REQUEST", {x})
  BY <1>1, <1>2 DEF Stands
<1>5. \A x : Covers(s, x) <=> TellsOf(m, x)
  BY <1>1, <1>2 DEF Covers
<1>6. GreetFree(s) <=> m.type \notin Greetings
  BY <1>1, <1>2 DEF GreetFree
<1>7. ASSUME NEW on, NEW off, NEW now
      PROVE  Settled(s, on, off, now) = IF m.type \in {on, off} THEN m.type = on ELSE now
  <2>1. CASE m.type \in {on, off}
    <3>1. 1 \in 1..Len(s) /\ s[1].type \in {on, off} /\ \A j \in 1..Len(s) : j > 1 => s[j].type \notin {on, off}
      BY <1>1, <1>2, <2>1
    <3>2. Settled(s, on, off, now) = (s[1].type = on)
      BY <1>1, <3>1, SettledLast
    <3> QED
      BY <1>1, <2>1, <3>2
  <2>2. CASE m.type \notin {on, off}
    <3>1. \A i \in 1..Len(s) : s[i].type \notin {on, off}
      BY <1>1, <1>2, <2>2
    <3> QED
      BY <1>1, <2>2, <3>1, SettledNone
  <2> QED
    BY <2>1, <2>2
<1> QED
  BY <1>1, <1>3, <1>4, <1>5, <1>6, <1>7 DEF s

LEMMA NoMessage ==
    /\ <<>> \in Seq(WireMsgs) /\ GreetFree(<<>>)
    /\ \A t, x : ~HasMsg(<<>>, t, x)
    /\ \A x : ~Stands(<<>>, x) /\ ~Covers(<<>>, x)
    /\ \A on, off, now : Settled(<<>>, on, off, now) = now
<1> DEFINE s == <<>>
<1>1. s \in Seq(WireMsgs) /\ Len(s) = 0
  BY EmptySeq
<1>2. \A i : i \notin 1..Len(s)
  BY <1>1
<1> HIDE DEF s
<1>3. \A on, off, now : Settled(s, on, off, now) = now
  BY <1>1, <1>2, SettledNone
<1>4. GreetFree(s) /\ (\A t, x : ~HasMsg(s, t, x)) /\ \A x : ~Stands(s, x) /\ ~Covers(s, x)
  BY <1>2 DEF GreetFree, HasMsg, Stands, Covers
<1> QED
  BY <1>1, <1>3, <1>4 DEF s

-----------------------------------------------------------------------------
(* What holds of one side (a, with messages ma on their way to the other)    *)
(* and the other (b, mb); f: both speak the fast extension.                  *)

Kept(a, b, ma, mb) ==
    \A x \in a.pending :
        \/ Stands(ma, x)
        \/ /\ ~HasMsg(ma, "CANCEL", x)
           /\ Contains(b.asked, x) \/ HasMsg(mb, "PIECE", x) \/ HasMsg(mb, "REJECT", x)
Views(a, b, ma) ==
    /\ Settled(ma, "CHOKE", "UNCHOKE", b.clientIsChoked) = a.peerIsChoked
    /\ Settled(ma, "INTERESTED", "NOT_INTERESTED", b.peerIsInterested) = a.clientIsInterested
Quiet(a) == (a.peerIsChoked => a.asked = <<>>) /\ a.pending \cap a.have = {}
Shown(a, b, ma) == \A x \in a.have : x \in b.peerHave \/ Covers(ma, x)
\* A greeting on its way is the first message, and nothing was asked for yet.
GreetRest(s) == \A i \in 1..Len(s) : i > 1 => s[i].type \notin Greetings
Greeted(a, b, ma, mb) ==
    \/ GreetFree(ma)
    \/ /\ GreetRest(ma)
       /\ b.peerHave = {} /\ b.pending = {} /\ a.asked = <<>>
       /\ \A x : ~HasMsg(mb, "REQUEST", x)
Good(a, b, ma, mb, f) ==
    (f => Kept(a, b, ma, mb)) /\ Views(a, b, ma) /\ Quiet(a) /\ Shown(a, b, ma) /\ Greeted(a, b, ma, mb)

AllPieces(s) == \A i \in 1..Len(s) : s[i].type = "PIECE"
LEMMA PiecesAreSilent ==
    ASSUME NEW s \in Seq(WireMsgs), AllPieces(s)
    PROVE  /\ GreetFree(s)
           /\ \A x : ~HasMsg(s, "CANCEL", x) /\ ~HasMsg(s, "REQUEST", x)
           /\ \A now : /\ Settled(s, "CHOKE", "UNCHOKE", now) = now
                       /\ Settled(s, "INTERESTED", "NOT_INTERESTED", now) = now
<1>1. GreetFree(s)
  BY DEF AllPieces, GreetFree, Greetings
<1>2. \A x : ~HasMsg(s, "CANCEL", x) /\ ~HasMsg(s, "REQUEST", x)
  BY DEF AllPieces, HasMsg, Msg
<1>3. ASSUME NEW now PROVE Settled(s, "CHOKE", "UNCHOKE", now) = now /\ Settled(s, "INTERESTED", "NOT_INTERESTED", now) = now
  <2>1. \A i \in 1..Len(s) : s[i].type \notin {"CHOKE", "UNCHOKE"} /\ s[i].type \notin {"INTERESTED", "NOT_INTERESTED"}
    BY DEF AllPieces
  <2> QED
    BY <2>1, SettledNone
<1> QED
  BY <1>1, <1>2, <1>3

LEMMA RestConcat ==
    ASSUME NEW s \in Seq(WireMsgs), NEW u \in Seq(WireMsgs)
    PROVE  /\ GreetRest(s) /\ ~GreetFree(s) /\ GreetFree(u) => GreetRest(s \o u)
           /\ Len(s) = 1 => (GreetRest(s \o u) <=> GreetFree(u))
<1> DEFINE w == s \o u
           m == Len(s)
           n == Len(u)
<1>1. /\ m \in Nat /\ n \in Nat /\ Len(w) = m + n
      /\ \A i \in 1..m : i \in 1..Len(w) /\ w[i] = s[i]
      /\ \A j \in 1..n : m + j \in 1..Len(w) /\ w[m + j] = u[j]
      /\ \A k \in 1..Len(w) : k \in 1..m \/ (k - m \in 1..n /\ w[k] = u[k - m])
  BY WireConcat
<1>2. Len(s) = m /\ Len(u) = n
  OBVIOUS
<1> HIDE DEF w, m, n
<1>3. ASSUME GreetRest(s), GreetFree(u) PROVE GreetRest(w)
  BY <1>1, <1>2, <1>3 DEF GreetRest, GreetFree
<1>4. ASSUME m = 1, GreetRest(w) PROVE GreetFree(u)
  <2>1. ASSUME NEW j \in 1..n PROVE u[j].type \notin Greetings
    <3>1. m + j \in 1..Len(w) /\ m + j > 1 /\ w[m + j] = u[j]
      BY <1>1, <1>4
    <3> QED
      BY <1>4, <3>1 DEF GreetRest
  <2> QED
    BY <1>2, <2>1 DEF GreetFree
<1>5. m = 1 => GreetRest(s)
  BY <1>2 DEF GreetRest
<1> QED
  BY <1>2, <1>3, <1>4, <1>5 DEF w

\* Pieces that overtake some messages, and new messages behind them.
Extends(ma, ma2, A, Y) ==
    /\ ma \in Seq(WireMsgs) /\ ma2 \in Seq(WireMsgs)
    /\ \A x : Stands(ma, x) /\ ~HasMsg(Y, "CANCEL", x) => Stands(ma2, x)
    /\ \A x : Stands(Y, x) => Stands(ma2, x)
    /\ \A t, x : HasMsg(ma2, t, x) <=> HasMsg(ma, t, x) \/ HasMsg(A, t, x) \/ HasMsg(Y, t, x)
    /\ \A x : Covers(ma, x) \/ Covers(Y, x) => Covers(ma2, x)
    /\ \A now : /\ Settled(ma2, "CHOKE", "UNCHOKE", now)
                     = Settled(Y, "CHOKE", "UNCHOKE", Settled(ma, "CHOKE", "UNCHOKE", now))
                /\ Settled(ma2, "INTERESTED", "NOT_INTERESTED", now)
                     = Settled(Y, "INTERESTED", "NOT_INTERESTED", Settled(ma, "INTERESTED", "NOT_INTERESTED", now))
    /\ GreetFree(ma) /\ GreetFree(Y) => GreetFree(ma2)
    /\ A = <<>> /\ ~GreetFree(ma) /\ GreetRest(ma) /\ GreetFree(Y) => GreetRest(ma2)
LEMMA Inserted ==
    ASSUME NEW X \in Seq(WireMsgs), NEW A \in Seq(WireMsgs), NEW B \in Seq(WireMsgs), NEW Y \in Seq(WireMsgs),
           AllPieces(A), NEW ma, ma = X \o B, NEW ma2, ma2 = (X \o A) \o (B \o Y)
    PROVE  Extends(ma, ma2, A, Y)
<1> DEFINE XA == X \o A
           BB == B \o Y
<1>1. XA \in Seq(WireMsgs) /\ BB \in Seq(WireMsgs) /\ ma \in Seq(WireMsgs)
  BY WireConcat
<1>2. ma2 = XA \o BB /\ ma2 \in Seq(WireMsgs)
  BY <1>1, WireConcat
<1>3. A = <<>> => ma2 = ma \o Y
  <2>1. X \o <<>> = X
    BY ConcatEmptySeq
  <2>2. (X \o B) \o Y = X \o (B \o Y)
    BY ConcatAssociative
  <2> QED
    BY <2>1, <2>2
<1> HIDE DEF XA, BB
<1>4. /\ GreetFree(A)
      /\ \A x : ~HasMsg(A, "CANCEL", x) /\ ~HasMsg(A, "REQUEST", x)
      /\ \A now : /\ Settled(A, "CHOKE", "UNCHOKE", now) = now
                  /\ Settled(A, "INTERESTED", "NOT_INTERESTED", now) = now
  BY PiecesAreSilent
<1>5. \A x : (Stands(ma, x) /\ ~HasMsg(Y, "CANCEL", x) => Stands(ma2, x)) /\ (Stands(Y, x) => Stands(ma2, x))
  <2> TAKE x
  <2>1. /\ Stands(ma, x) <=> Stands(B, x) \/ (Stands(X, x) /\ ~HasMsg(B, "CANCEL", x))
        /\ Stands(XA, x) <=> Stands(A, x) \/ (Stands(X, x) /\ ~HasMsg(A, "CANCEL", x))
        /\ Stands(BB, x) <=> Stands(Y, x) \/ (Stands(B, x) /\ ~HasMsg(Y, "CANCEL", x))
    BY StandsConcat DEF XA, BB
  <2>2. Stands(ma2, x) <=> Stands(BB, x) \/ (Stands(XA, x) /\ ~HasMsg(BB, "CANCEL", x))
    BY <1>1, <1>2, StandsConcat
  <2>3. HasMsg(BB, "CANCEL", x) <=> HasMsg(B, "CANCEL", x) \/ HasMsg(Y, "CANCEL", x)
    BY HasConcat DEF BB
  <2> QED
    BY <1>4, <2>1, <2>2, <2>3
<1>6. \A t, x : HasMsg(ma2, t, x) <=> HasMsg(ma, t, x) \/ HasMsg(A, t, x) \/ HasMsg(Y, t, x)
  <2> TAKE t, x
  <2>1. /\ HasMsg(ma, t, x) <=> HasMsg(X, t, x) \/ HasMsg(B, t, x)
        /\ HasMsg(XA, t, x) <=> HasMsg(X, t, x) \/ HasMsg(A, t, x)
        /\ HasMsg(BB, t, x) <=> HasMsg(B, t, x) \/ HasMsg(Y, t, x)
    BY HasConcat DEF XA, BB
  <2>2. HasMsg(ma2, t, x) <=> HasMsg(XA, t, x) \/ HasMsg(BB, t, x)
    BY <1>1, <1>2, HasConcat
  <2> QED
    BY <2>1, <2>2
<1>7. \A x : Covers(ma, x) \/ Covers(Y, x) => Covers(ma2, x)
  <2> TAKE x
  <2>1. /\ Covers(ma, x) <=> Covers(X, x) \/ Covers(B, x)
        /\ Covers(XA, x) <=> Covers(X, x) \/ Covers(A, x)
        /\ Covers(BB, x) <=> Covers(B, x) \/ Covers(Y, x)
    BY CoversConcat DEF XA, BB
  <2>2. Covers(ma2, x) <=> Covers(XA, x) \/ Covers(BB, x)
    BY <1>1, <1>2, CoversConcat
  <2> QED
    BY <2>1, <2>2
<1>8. ASSUME NEW on, NEW off, NEW now, \A v : Settled(A, on, off, v) = v
      PROVE  Settled(ma2, on, off, now) = Settled(Y, on, off, Settled(ma, on, off, now))
  <2>1. Settled(ma2, on, off, now) = Settled(BB, on, off, Settled(XA, on, off, now))
    BY <1>1, <1>2, SettledConcat
  <2>2. Settled(XA, on, off, now) = Settled(X, on, off, now)
    BY <1>8, SettledConcat DEF XA
  <2>3. \A v : Settled(BB, on, off, v) = Settled(Y, on, off, Settled(B, on, off, v))
    BY SettledConcat DEF BB
  <2>4. Settled(ma, on, off, now) = Settled(B, on, off, Settled(X, on, off, now))
    BY SettledConcat
  <2> QED
    BY <2>1, <2>2, <2>3, <2>4
<1>9. GreetFree(ma) /\ GreetFree(Y) => GreetFree(ma2)
  <2>1. GreetFree(ma) <=> GreetFree(X) /\ GreetFree(B)
    BY GreetConcat
  <2>2. GreetFree(XA) <=> GreetFree(X) /\ GreetFree(A)
    BY GreetConcat DEF XA
  <2>3. GreetFree(BB) <=> GreetFree(B) /\ GreetFree(Y)
    BY GreetConcat DEF BB
  <2>4. GreetFree(ma2) <=> GreetFree(XA) /\ GreetFree(BB)
    BY <1>1, <1>2, GreetConcat
  <2> QED
    BY <1>4, <2>1, <2>2, <2>3, <2>4
<1>10. A = <<>> /\ ~GreetFree(ma) /\ GreetRest(ma) /\ GreetFree(Y) => GreetRest(ma2)
  BY <1>1, <1>3, RestConcat
<1> QED
  BY <1>1, <1>2, <1>4, <1>5, <1>6, <1>7, <1>8, <1>9, <1>10 DEF Extends

\* A side says something: pieces A at once, other messages Y in its batch.
Says(a, b, a2, A, Y, f) ==
    /\ a2.peerHave = a.peerHave
    /\ a2.clientIsChoked = a.clientIsChoked
    /\ a2.peerIsInterested = a.peerIsInterested
    /\ \A x \in a2.pending : (x \in a.pending /\ ~HasMsg(Y, "CANCEL", x)) \/ Stands(Y, x)
    /\ f => \A x \in b.pending : Contains(a.asked, x) =>
           Contains(a2.asked, x) \/ HasMsg(A, "PIECE", x) \/ HasMsg(Y, "PIECE", x) \/ HasMsg(Y, "REJECT", x)
    /\ Settled(Y, "CHOKE", "UNCHOKE", a.peerIsChoked) = a2.peerIsChoked
    /\ Settled(Y, "INTERESTED", "NOT_INTERESTED", a.clientIsInterested) = a2.clientIsInterested
    /\ Quiet(a2)
    /\ \A x \in a2.have : x \in a.have \/ Covers(Y, x)
    /\ GreetFree(Y)
    /\ a.asked = <<>> => A = <<>> /\ a2.asked = <<>>
    /\ a.peerHave = {} => (a2.pending \subseteq a.pending /\ \A x : ~HasMsg(Y, "REQUEST", x))
Joined(s, u) == s \o u
LEMMA JoinedAssociative ==
    ASSUME NEW s \in Seq(WireMsgs), NEW t \in Seq(WireMsgs), NEW u \in Seq(WireMsgs)
    PROVE  Joined(Joined(s, t), u) = Joined(s, Joined(t, u))
BY ConcatAssociative DEF Joined

Spliced(X, A, B, Y, ma, ma2) == ma = X \o B /\ ma2 = (X \o A) \o (B \o Y)
Speaking(X, A, B, Y, ma, ma2, mb, a, b, a2, f) ==
    /\ X \in Seq(WireMsgs) /\ A \in Seq(WireMsgs) /\ B \in Seq(WireMsgs) /\ Y \in Seq(WireMsgs)
    /\ mb \in Seq(WireMsgs) /\ AllPieces(A) /\ Spliced(X, A, B, Y, ma, ma2)
    /\ Good(a, b, ma, mb, f) /\ Good(b, a, mb, ma, f) /\ Says(a, b, a2, A, Y, f)
LEMMA Speaks ==
    ASSUME NEW X, NEW A, NEW B, NEW Y, NEW mb, NEW ma, NEW ma2, NEW a, NEW b, NEW a2, NEW f,
           Speaking(X, A, B, Y, ma, ma2, mb, a, b, a2, f)
    PROVE  Good(a2, b, ma2, mb, f) /\ Good(b, a2, mb, ma2, f)
<1>a. /\ X \in Seq(WireMsgs) /\ A \in Seq(WireMsgs) /\ B \in Seq(WireMsgs) /\ Y \in Seq(WireMsgs)
      /\ mb \in Seq(WireMsgs) /\ AllPieces(A) /\ Spliced(X, A, B, Y, ma, ma2)
      /\ Good(a, b, ma, mb, f) /\ Good(b, a, mb, ma, f) /\ Says(a, b, a2, A, Y, f)
  BY DEF Speaking
<1> USE <1>a
<1>0. /\ a2.peerHave = a.peerHave
      /\ a2.clientIsChoked = a.clientIsChoked
      /\ a2.peerIsInterested = a.peerIsInterested
      /\ \A x \in a2.pending : (x \in a.pending /\ ~HasMsg(Y, "CANCEL", x)) \/ Stands(Y, x)
      /\ f => \A x \in b.pending : Contains(a.asked, x) =>
             Contains(a2.asked, x) \/ HasMsg(A, "PIECE", x) \/ HasMsg(Y, "PIECE", x) \/ HasMsg(Y, "REJECT", x)
      /\ Settled(Y, "CHOKE", "UNCHOKE", a.peerIsChoked) = a2.peerIsChoked
      /\ Settled(Y, "INTERESTED", "NOT_INTERESTED", a.clientIsInterested) = a2.clientIsInterested
      /\ Quiet(a2)
      /\ \A x \in a2.have : x \in a.have \/ Covers(Y, x)
      /\ GreetFree(Y)
      /\ a.asked = <<>> => A = <<>> /\ a2.asked = <<>>
      /\ a.peerHave = {} => (a2.pending \subseteq a.pending /\ \A x : ~HasMsg(Y, "REQUEST", x))
  BY DEF Says
<1> USE <1>0
<1>1. /\ ma \in Seq(WireMsgs) /\ ma2 \in Seq(WireMsgs)
      /\ \A x : Stands(ma, x) /\ ~HasMsg(Y, "CANCEL", x) => Stands(ma2, x)
      /\ \A x : Stands(Y, x) => Stands(ma2, x)
      /\ \A t, x : HasMsg(ma2, t, x) <=> HasMsg(ma, t, x) \/ HasMsg(A, t, x) \/ HasMsg(Y, t, x)
      /\ \A x : Covers(ma, x) \/ Covers(Y, x) => Covers(ma2, x)
      /\ \A now : /\ Settled(ma2, "CHOKE", "UNCHOKE", now)
                       = Settled(Y, "CHOKE", "UNCHOKE", Settled(ma, "CHOKE", "UNCHOKE", now))
                  /\ Settled(ma2, "INTERESTED", "NOT_INTERESTED", now)
                       = Settled(Y, "INTERESTED", "NOT_INTERESTED", Settled(ma, "INTERESTED", "NOT_INTERESTED", now))
      /\ GreetFree(ma) /\ GreetFree(Y) => GreetFree(ma2)
      /\ A = <<>> /\ ~GreetFree(ma) /\ GreetRest(ma) /\ GreetFree(Y) => GreetRest(ma2)
  <2>1. Extends(ma, ma2, A, Y)
    BY Inserted DEF Spliced
  <2> QED
    BY <2>1 DEF Extends
<1>2. \A x : ~HasMsg(A, "CANCEL", x) /\ ~HasMsg(A, "REQUEST", x)
  BY PiecesAreSilent
<1>3. f => Kept(a2, b, ma2, mb)
  <2>1. f => Kept(a, b, ma, mb)
    BY DEF Good
  <2>2. ASSUME f, NEW x \in a2.pending
        PROVE  \/ Stands(ma2, x)
               \/ /\ ~HasMsg(ma2, "CANCEL", x)
                  /\ Contains(b.asked, x) \/ HasMsg(mb, "PIECE", x) \/ HasMsg(mb, "REJECT", x)
    <3>1. CASE Stands(Y, x)
      BY <1>1, <3>1
    <3>2. CASE x \in a.pending /\ ~HasMsg(Y, "CANCEL", x)
      <4>1. \/ Stands(ma, x)
            \/ /\ ~HasMsg(ma, "CANCEL", x)
               /\ Contains(b.asked, x) \/ HasMsg(mb, "PIECE", x) \/ HasMsg(mb, "REJECT", x)
        BY <2>1, <2>2, <3>2 DEF Kept
      <4> QED
        BY <1>1, <1>2, <3>2, <4>1
    <3> QED
      BY <3>1, <3>2
  <2> QED
    BY <2>2 DEF Kept
<1>4. f => Kept(b, a2, mb, ma2)
  <2>1. f => Kept(b, a, mb, ma)
    BY DEF Good
  <2>2. ASSUME f, NEW x \in b.pending
        PROVE  \/ Stands(mb, x)
               \/ /\ ~HasMsg(mb, "CANCEL", x)
                  /\ Contains(a2.asked, x) \/ HasMsg(ma2, "PIECE", x) \/ HasMsg(ma2, "REJECT", x)
    <3>1. \/ Stands(mb, x)
          \/ /\ ~HasMsg(mb, "CANCEL", x)
             /\ Contains(a.asked, x) \/ HasMsg(ma, "PIECE", x) \/ HasMsg(ma, "REJECT", x)
      BY <2>1, <2>2 DEF Kept
    <3>2. Contains(a.asked, x) =>
             Contains(a2.asked, x) \/ HasMsg(A, "PIECE", x) \/ HasMsg(Y, "PIECE", x) \/ HasMsg(Y, "REJECT", x)
      BY <2>2
    <3> QED
      BY <1>1, <3>1, <3>2
  <2> QED
    BY <2>2 DEF Kept
<1>5. Views(a2, b, ma2) /\ Views(b, a2, mb)
  BY <1>1 DEF Good, Views
<1>6. Shown(a2, b, ma2) /\ Shown(b, a2, mb)
  BY <1>1 DEF Good, Shown
<1>7. Greeted(a2, b, ma2, mb)
  BY <1>1 DEF Good, Greeted
<1>8. Greeted(b, a2, mb, ma2)
  <2>1. CASE GreetFree(mb)
    BY <2>1 DEF Greeted
  <2>2. CASE ~GreetFree(mb)
    <3>1. /\ GreetRest(mb) /\ a.peerHave = {} /\ a.pending = {} /\ b.asked = <<>>
          /\ \A x : ~HasMsg(ma, "REQUEST", x)
      BY <2>2 DEF Good, Greeted
    <3>2. a2.peerHave = {} /\ a2.pending = {} /\ \A x : ~HasMsg(ma2, "REQUEST", x)
      BY <1>1, <1>2, <3>1
    <3> QED
      BY <3>1, <3>2 DEF Greeted
  <2> QED
    BY <2>1, <2>2
<1> QED
  BY <1>3, <1>4, <1>5, <1>6, <1>7, <1>8 DEF Good

\* A first message before others.
Headed(m, one, mb, mb2) ==
    /\ \A t, x : HasMsg(mb, t, x) <=> m = Msg(t, {x}) \/ HasMsg(mb2, t, x)
    /\ \A x : Stands(mb, x) <=> Stands(mb2, x) \/ (m = Msg("REQUEST", {x}) /\ ~HasMsg(mb2, "CANCEL", x))
    /\ \A x : Covers(mb, x) <=> TellsOf(m, x) \/ Covers(mb2, x)
    /\ GreetFree(mb) <=> m.type \notin Greetings /\ GreetFree(mb2)
    /\ GreetRest(mb) <=> GreetFree(mb2)
    /\ \A on, off, now : Settled(mb, on, off, now) = Settled(mb2, on, off, Settled(one, on, off, now))
    /\ \A on, off, now : Settled(one, on, off, now) = IF m.type \in {on, off} THEN m.type = on ELSE now
LEMMA FirstMessage ==
    ASSUME NEW m \in WireMsgs, NEW mb2 \in Seq(WireMsgs), NEW mb, mb = <<m>> \o mb2
    PROVE  Headed(m, <<m>>, mb, mb2)
<1> DEFINE one == <<m>>
<1>1. /\ one \in Seq(WireMsgs) /\ Len(one) = 1
      /\ \A t, x : HasMsg(one, t, x) <=> m = Msg(t, {x})
      /\ \A x : Stands(one, x) <=> m = Msg("REQUEST", {x})
      /\ \A x : Covers(one, x) <=> TellsOf(m, x)
      /\ GreetFree(one) <=> m.type \notin Greetings
      /\ \A on, off, now : Settled(one, on, off, now) = IF m.type \in {on, off} THEN m.type = on ELSE now
  BY OneMessage
<1>2. mb = one \o mb2
  OBVIOUS
<1> HIDE DEF one
<1>3. \A t, x : HasMsg(mb, t, x) <=> m = Msg(t, {x}) \/ HasMsg(mb2, t, x)
  <2> TAKE t, x
  <2>1. HasMsg(mb, t, x) <=> HasMsg(one, t, x) \/ HasMsg(mb2, t, x)
    <3>1. one \in Seq(WireMsgs)
      BY <1>1
    <3>2. HasMsg(one \o mb2, t, x) <=> HasMsg(one, t, x) \/ HasMsg(mb2, t, x)
      BY <3>1, HasConcat
    <3> QED
      BY <1>2, <3>2
  <2>2. HasMsg(one, t, x) <=> m = Msg(t, {x})
    BY <1>1
  <2> QED
    BY <2>1, <2>2
<1>4. \A x : Stands(mb, x) <=> Stands(mb2, x) \/ (m = Msg("REQUEST", {x}) /\ ~HasMsg(mb2, "CANCEL", x))
  <2> TAKE x
  <2>1. Stands(mb, x) <=> Stands(mb2, x) \/ (Stands(one, x) /\ ~HasMsg(mb2, "CANCEL", x))
    <3>1. one \in Seq(WireMsgs)
      BY <1>1
    <3>2. Stands(one \o mb2, x) <=> Stands(mb2, x) \/ (Stands(one, x) /\ ~HasMsg(mb2, "CANCEL", x))
      BY <3>1, StandsConcat
    <3> QED
      BY <1>2, <3>2
  <2>2. Stands(one, x) <=> m = Msg("REQUEST", {x})
    BY <1>1
  <2> QED
    BY <2>1, <2>2
<1>5. \A x : Covers(mb, x) <=> TellsOf(m, x) \/ Covers(mb2, x)
  BY <1>1, <1>2, CoversConcat
<1>6. GreetFree(mb) <=> m.type \notin Greetings /\ GreetFree(mb2)
  BY <1>1, <1>2, GreetConcat
<1>7. GreetRest(mb) <=> GreetFree(mb2)
  BY <1>1, <1>2, RestConcat
<1>8. \A on, off, now : Settled(mb, on, off, now) = Settled(mb2, on, off, Settled(one, on, off, now))
  BY <1>1, <1>2, SettledConcat
<1> QED
  BY <1>1, <1>3, <1>4, <1>5, <1>6, <1>7, <1>8 DEF Headed, one

\* A side reads message m, and answers Y.
Reacts(a, b, a2, m, Y, f) ==
    /\ a2.peerIsChoked = a.peerIsChoked
    /\ a2.clientIsInterested = a.clientIsInterested
    /\ \A v : /\ Settled(Y, "CHOKE", "UNCHOKE", v) = v
              /\ Settled(Y, "INTERESTED", "NOT_INTERESTED", v) = v
    /\ a2.pending \subseteq a.pending
    /\ \A x : ~HasMsg(Y, "CANCEL", x) /\ ~HasMsg(Y, "REQUEST", x)
    /\ f => \A x \in a2.pending : m # Msg("PIECE", {x}) /\ m # Msg("REJECT", {x})
    /\ Quiet(a2)
    /\ \A x \in a2.have : x \in a.have \/ Covers(Y, x)
    /\ GreetFree(Y)
    /\ a.asked = <<>> => a2.asked = <<>> \/ \E x : m = Msg("REQUEST", {x})
    /\ f => \A x : m = Msg("REQUEST", {x}) => Contains(a2.asked, x) \/ HasMsg(Y, "REJECT", x)
    /\ \A x : m # Msg("CANCEL", {x}) /\ Contains(a.asked, x) => Contains(a2.asked, x)
    /\ a2.clientIsChoked = IF m.type \in {"CHOKE", "UNCHOKE"} THEN m.type = "CHOKE" ELSE a.clientIsChoked
    /\ a2.peerIsInterested = IF m.type \in {"INTERESTED", "NOT_INTERESTED"} THEN m.type = "INTERESTED"
                             ELSE a.peerIsInterested
    /\ \A x \in b.have : TellsOf(m, x) => x \in a2.peerHave
    /\ \A x \in a.peerHave : x \in a2.peerHave \/ m.type \in Greetings
Listening(m, mb, mb2, ma, ma2, Y, a, b, a2, f) ==
    /\ m \in WireMsgs /\ mb2 \in Seq(WireMsgs) /\ mb = <<m>> \o mb2
    /\ ma \in Seq(WireMsgs) /\ Y \in Seq(WireMsgs) /\ ma2 = ma \o Y
    /\ Good(a, b, ma, mb, f) /\ Good(b, a, mb, ma, f) /\ Reacts(a, b, a2, m, Y, f)
LEMMA Listens ==
    ASSUME NEW m, NEW mb, NEW mb2, NEW ma, NEW ma2, NEW Y, NEW a, NEW b, NEW a2, NEW f,
           Listening(m, mb, mb2, ma, ma2, Y, a, b, a2, f)
    PROVE  Good(a2, b, ma2, mb2, f) /\ Good(b, a2, mb2, ma2, f)
<1>a. /\ m \in WireMsgs /\ mb2 \in Seq(WireMsgs) /\ mb = <<m>> \o mb2
      /\ ma \in Seq(WireMsgs) /\ Y \in Seq(WireMsgs) /\ ma2 = ma \o Y
      /\ Good(a, b, ma, mb, f) /\ Good(b, a, mb, ma, f) /\ Reacts(a, b, a2, m, Y, f)
  BY DEF Listening
<1> USE <1>a
<1>0. /\ a2.peerIsChoked = a.peerIsChoked
      /\ a2.clientIsInterested = a.clientIsInterested
      /\ \A v : /\ Settled(Y, "CHOKE", "UNCHOKE", v) = v
                /\ Settled(Y, "INTERESTED", "NOT_INTERESTED", v) = v
      /\ a2.pending \subseteq a.pending
      /\ \A x : ~HasMsg(Y, "CANCEL", x) /\ ~HasMsg(Y, "REQUEST", x)
      /\ f => \A x \in a2.pending : m # Msg("PIECE", {x}) /\ m # Msg("REJECT", {x})
      /\ Quiet(a2)
      /\ \A x \in a2.have : x \in a.have \/ Covers(Y, x)
      /\ GreetFree(Y)
      /\ a.asked = <<>> => a2.asked = <<>> \/ \E x : m = Msg("REQUEST", {x})
      /\ f => \A x : m = Msg("REQUEST", {x}) => Contains(a2.asked, x) \/ HasMsg(Y, "REJECT", x)
      /\ \A x : m # Msg("CANCEL", {x}) /\ Contains(a.asked, x) => Contains(a2.asked, x)
      /\ a2.clientIsChoked = IF m.type \in {"CHOKE", "UNCHOKE"} THEN m.type = "CHOKE" ELSE a.clientIsChoked
      /\ a2.peerIsInterested = IF m.type \in {"INTERESTED", "NOT_INTERESTED"} THEN m.type = "INTERESTED"
                               ELSE a.peerIsInterested
      /\ \A x \in b.have : TellsOf(m, x) => x \in a2.peerHave
      /\ \A x \in a.peerHave : x \in a2.peerHave \/ m.type \in Greetings
  BY DEF Reacts
<1> USE <1>0
<1> DEFINE one == <<m>>
<1>3. /\ \A t, x : HasMsg(mb, t, x) <=> m = Msg(t, {x}) \/ HasMsg(mb2, t, x)
      /\ \A x : Stands(mb, x) <=> Stands(mb2, x) \/ (m = Msg("REQUEST", {x}) /\ ~HasMsg(mb2, "CANCEL", x))
      /\ \A x : Covers(mb, x) <=> TellsOf(m, x) \/ Covers(mb2, x)
      /\ GreetFree(mb) <=> m.type \notin Greetings /\ GreetFree(mb2)
      /\ GreetRest(mb) <=> GreetFree(mb2)
      /\ \A on, off, now : Settled(mb, on, off, now) = Settled(mb2, on, off, Settled(one, on, off, now))
      /\ \A on, off, now : Settled(one, on, off, now) = IF m.type \in {on, off} THEN m.type = on ELSE now
  <2>1. Headed(m, one, mb, mb2)
    BY FirstMessage
  <2> QED
    BY <2>1 DEF Headed
<1> HIDE DEF one
<1>4. /\ \A t, x : HasMsg(ma2, t, x) <=> HasMsg(ma, t, x) \/ HasMsg(Y, t, x)
      /\ \A x : Stands(ma2, x) <=> Stands(Y, x) \/ (Stands(ma, x) /\ ~HasMsg(Y, "CANCEL", x))
      /\ \A x : Covers(ma2, x) <=> Covers(ma, x) \/ Covers(Y, x)
      /\ GreetFree(ma2) <=> GreetFree(ma) /\ GreetFree(Y)
      /\ GreetRest(ma) /\ ~GreetFree(ma) /\ GreetFree(Y) => GreetRest(ma2)
      /\ \A on, off, now : Settled(ma2, on, off, now) = Settled(Y, on, off, Settled(ma, on, off, now))
  BY HasConcat, StandsConcat, CoversConcat, GreetConcat, RestConcat, SettledConcat
<1>5. f => Kept(a2, b, ma2, mb2)
  <2>1. f => Kept(a, b, ma, mb)
    BY DEF Good
  <2>2. ASSUME f, NEW x \in a2.pending
        PROVE  \/ Stands(ma2, x)
               \/ /\ ~HasMsg(ma2, "CANCEL", x)
                  /\ Contains(b.asked, x) \/ HasMsg(mb2, "PIECE", x) \/ HasMsg(mb2, "REJECT", x)
    <3>1. x \in a.pending /\ m # Msg("PIECE", {x}) /\ m # Msg("REJECT", {x})
      BY <2>2
    <3>2. \/ Stands(ma, x)
          \/ /\ ~HasMsg(ma, "CANCEL", x)
             /\ Contains(b.asked, x) \/ HasMsg(mb, "PIECE", x) \/ HasMsg(mb, "REJECT", x)
      BY <2>1, <2>2, <3>1 DEF Kept
    <3> QED
      BY <1>3, <1>4, <3>1, <3>2
  <2> QED
    BY <2>2 DEF Kept
<1>6. f => Kept(b, a2, mb2, ma2)
  <2>1. f => Kept(b, a, mb, ma)
    BY DEF Good
  <2>2. ASSUME f, NEW x \in b.pending
        PROVE  \/ Stands(mb2, x)
               \/ /\ ~HasMsg(mb2, "CANCEL", x)
                  /\ Contains(a2.asked, x) \/ HasMsg(ma2, "PIECE", x) \/ HasMsg(ma2, "REJECT", x)
    <3>1. \/ Stands(mb, x)
          \/ /\ ~HasMsg(mb, "CANCEL", x)
             /\ Contains(a.asked, x) \/ HasMsg(ma, "PIECE", x) \/ HasMsg(ma, "REJECT", x)
      BY <2>1, <2>2 DEF Kept
    <3>2. /\ m = Msg("REQUEST", {x}) => Contains(a2.asked, x) \/ HasMsg(Y, "REJECT", x)
          /\ m # Msg("CANCEL", {x}) /\ Contains(a.asked, x) => Contains(a2.asked, x)
      BY <2>2
    <3> QED
      BY <1>3, <1>4, <3>1, <3>2
  <2> QED
    BY <2>2 DEF Kept
<1>7. Views(a2, b, ma2)
  BY <1>4 DEF Good, Views
<1>8. Views(b, a2, mb2)
  <2>1. /\ Settled(mb, "CHOKE", "UNCHOKE", a.clientIsChoked) = b.peerIsChoked
        /\ Settled(mb, "INTERESTED", "NOT_INTERESTED", a.peerIsInterested) = b.clientIsInterested
    BY DEF Good, Views
  <2>2. /\ Settled(one, "CHOKE", "UNCHOKE", a.clientIsChoked) = a2.clientIsChoked
        /\ Settled(one, "INTERESTED", "NOT_INTERESTED", a.peerIsInterested) = a2.peerIsInterested
    BY <1>3
  <2> QED
    BY <1>3, <2>1, <2>2 DEF Views
<1>9. Quiet(b) /\ Shown(a2, b, ma2)
  BY <1>4 DEF Good, Shown
<1>10. Shown(b, a2, mb2)
  <2>1. m.type \in Greetings => a.peerHave = {}
    BY <1>3 DEF Good, Greeted
  <2>2. ASSUME NEW x \in b.have PROVE x \in a2.peerHave \/ Covers(mb2, x)
    <3>1. x \in a.peerHave \/ TellsOf(m, x) \/ Covers(mb2, x)
      BY <1>3 DEF Good, Shown
    <3> QED
      BY <2>1, <3>1
  <2> QED
    BY <2>2 DEF Shown
<1>11. Greeted(a2, b, ma2, mb2)
  <2>1. CASE GreetFree(ma)
    BY <1>4, <2>1 DEF Greeted
  <2>2. CASE ~GreetFree(ma)
    <3>1. /\ GreetRest(ma) /\ b.peerHave = {} /\ b.pending = {} /\ a.asked = <<>>
          /\ \A x : ~HasMsg(mb, "REQUEST", x)
      BY <2>2 DEF Good, Greeted
    <3>2. \A x : m # Msg("REQUEST", {x}) /\ ~HasMsg(mb2, "REQUEST", x)
      BY <1>3, <3>1
    <3>3. a2.asked = <<>>
      BY <3>1, <3>2
    <3> QED
      BY <1>4, <2>2, <3>1, <3>2, <3>3 DEF Greeted
  <2> QED
    BY <2>1, <2>2
<1>12. Greeted(b, a2, mb2, ma2)
  BY <1>3 DEF Good, Greeted
<1> QED
  BY <1>5, <1>6, <1>7, <1>8, <1>9, <1>10, <1>11, <1>12 DEF Good

-----------------------------------------------------------------------------
(* The sequences that the client puts together.                            *)

LEMMA MessagesAre ==
    /\ \A t \in Simple : Msg(t, Nothing) \in WireMsgs
    /\ \A t \in OfBlock : \A b \in MsgBlocks : Msg(t, {b}) \in WireMsgs
    /\ \A S \in SUBSET MsgBlocks : Msg("BITFIELD", S) \in WireMsgs
    /\ \A m \in WireMsgs :
         /\ m = Msg(m.type, m.arg) /\ m \in Message
         /\ \/ m.type \in Simple /\ m.arg = Nothing
            \/ m.type \in OfBlock /\ \E b \in MsgBlocks : m.arg = {b}
            \/ m.type = "BITFIELD" /\ m.arg \in SUBSET MsgBlocks
<1>1. ASSUME NEW t \in Simple PROVE Msg(t, Nothing) \in WireMsgs
  BY DEF WireMsgs, Message, Msg, Nothing
<1>2. ASSUME NEW t \in OfBlock, NEW b \in MsgBlocks PROVE Msg(t, {b}) \in WireMsgs
  BY DEF WireMsgs, Message, Msg
<1>3. ASSUME NEW S \in SUBSET MsgBlocks PROVE Msg("BITFIELD", S) \in WireMsgs
  BY DEF WireMsgs, Message, Msg
<1>4. ASSUME NEW m \in WireMsgs
      PROVE  /\ m = Msg(m.type, m.arg) /\ m \in Message
             /\ \/ m.type \in Simple /\ m.arg = Nothing
                \/ m.type \in OfBlock /\ \E b \in MsgBlocks : m.arg = {b}
                \/ m.type = "BITFIELD" /\ m.arg \in SUBSET MsgBlocks
  BY DEF WireMsgs, Message, Msg
<1> QED
  BY <1>1, <1>2, <1>3, <1>4

\* One message for each block of a set.
LEMMA MsgsAre ==
    ASSUME WireAssumption, NEW t \in OfBlock, NEW S \in SUBSET MsgBlocks
    PROVE  /\ Msgs(t, S) \in Seq(WireMsgs)
           /\ \A i \in 1..Len(Msgs(t, S)) : \E b \in S : Msgs(t, S)[i] = Msg(t, {b})
           /\ \A b \in S : \E i \in 1..Len(Msgs(t, S)) : Msgs(t, S)[i] = Msg(t, {b})
<1> DEFINE U == {Msg(t, {b}) : b \in S}
           c == Cardinality(U)
           g == [b \in S |-> Msg(t, {b})]
           m == SetToSeq(U)
<1>1. IsFiniteSet(U) /\ U \subseteq WireMsgs
  <2>1. IsFiniteSet(S)
    BY FS_Subset DEF WireAssumption
  <2>2. g \in Surjection(S, U)
    BY DEF Surjection
  <2>3. U \subseteq WireMsgs
    <3>1. ASSUME NEW b \in S PROVE Msg(t, {b}) \in WireMsgs
      <4>1. b \in MsgBlocks
        OBVIOUS
      <4> QED
        BY <4>1, MessagesAre
    <3> QED
      BY <3>1
  <2> HIDE DEF g, U
  <2>4. IsFiniteSet(U)
    BY <2>1, <2>2, FS_Surjection
  <2> QED
    BY <2>3, <2>4
<1>2. \A u \in U : \E b \in S : u = Msg(t, {b})
  OBVIOUS
<1>3. \A b \in S : Msg(t, {b}) \in U
  OBVIOUS
<1>4. Msgs(t, S) = m
  BY DEF Msgs
<1> HIDE DEF U
<1>5. c \in Nat /\ ExistsBijection(1..c, U)
  BY <1>1, FS_CardinalityType
<1>6. m \in [1..c -> U] /\ IsInjective(m)
  <2>1. \E f : f \in [1..c -> U] /\ IsInjective(f)
    BY <1>5 DEF ExistsBijection, Bijection, Injection
  <2> QED
    BY <2>1 DEF SetToSeq
<1> HIDE DEF m, c
<1>7. m \in Seq(WireMsgs) /\ Len(m) = c
  BY <1>1, <1>5, <1>6
<1>8. \A u \in U : \E i \in 1..c : m[i] = u
  <2> DEFINE D == 1..c
  <2>1. m \in Injection(D, U)
    BY <1>6 DEF Injection
  <2>2. Cardinality(D) = c
    BY <1>5, FS_Interval
  <2> HIDE DEF D
  <2>3. m \in Surjection(D, U)
    BY <1>1, <2>1, <2>2, FS_Injection DEF c
  <2> QED
    BY <2>3 DEF Surjection, D
<1> QED
  BY <1>2, <1>3, <1>4, <1>6, <1>7, <1>8

\* The entries at the positions I, none forgotten and none made up.
LEMMA ThoseAre ==
    ASSUME NEW n \in Nat, NEW I \in SUBSET (1..n), NEW s
    PROVE  /\ Cardinality(I) \in Nat
           /\ Those(s, I) = [k \in 1..Cardinality(I) |-> Those(s, I)[k]]
           /\ \A k \in 1..Cardinality(I) : \E i \in I : Those(s, I)[k] = s[i]
           /\ \A i \in I : \E k \in 1..Cardinality(I) : Those(s, I)[k] = s[i]
<1> DEFINE c == Cardinality(I)
           Low(i) == {j \in I : j <= i}
           r == [i \in I |-> Cardinality(Low(i))]
           D == 1..c
<1>1. IsFiniteSet(I) /\ c \in Nat
  <2>1. IsFiniteSet(1..n)
    BY FS_Interval
  <2>2. IsFiniteSet(I)
    BY <2>1, FS_Subset
  <2> QED
    BY <2>2, FS_CardinalityType
<1>2. \A i \in I : IsFiniteSet(Low(i)) /\ Cardinality(Low(i)) \in D
  <2> TAKE i \in I
  <2>1. Low(i) \in SUBSET I /\ i \in Low(i)
    OBVIOUS
  <2> DEFINE L == Low(i)
  <2> HIDE DEF L
  <2>2. L \in SUBSET I /\ i \in L
    BY <2>1 DEF L
  <2>3. IsFiniteSet(L) /\ Cardinality(L) <= c
    BY <1>1, <2>2, FS_Subset
  <2>4. Cardinality(L) \in Nat /\ Cardinality(L) # 0
    BY <2>2, <2>3, FS_CardinalityType, FS_EmptySet
  <2>5. Cardinality(L) \in D
    <3> DEFINE q == Cardinality(L)
    <3>1. q <= c /\ q \in Nat /\ q # 0
      BY <2>3, <2>4
    <3> HIDE DEF q, c
    <3>2. q \in 1..c
      BY <1>1, <3>1
    <3> QED
      BY <3>2 DEF q
  <2> QED
    BY <2>3, <2>5 DEF L
<1>3. \A i, j \in I : i < j => Cardinality(Low(i)) # Cardinality(Low(j))
  <2> TAKE i, j \in I
  <2> HAVE i < j
  <2> DEFINE A == Low(i)
             B == Low(j)
  <2>1. A \in SUBSET B /\ j \in B /\ j \notin A
    <3>1. \A k \in I : k \in Int
      OBVIOUS
    <3>2. ASSUME NEW k \in I, k <= i PROVE k <= j
      <4>1. k \in Int /\ i \in Int /\ j \in Int
        BY <3>1
      <4> QED
        BY <3>2, <4>1
    <3>3. j <= j /\ ~(j <= i)
      BY <3>1
    <3> QED
      BY <3>2, <3>3
  <2>2. IsFiniteSet(B)
    BY <1>2
  <2> HIDE DEF A, B
  <2>3. Cardinality(A) # Cardinality(B)
    BY <2>1, <2>2, FS_Subset
  <2> QED
    BY <2>3 DEF A, B
<1>4. r \in Injection(I, D)
  <2>1. r \in [I -> D]
    BY <1>2
  <2>2. \A i, j \in I : r[i] = r[j] => i = j
    <3> HIDE DEF Low, c
    <3>1. \A i, j \in I : i = j \/ i < j \/ j < i
      OBVIOUS
    <3> QED
      BY <1>3, <3>1
  <2> QED
    BY <2>1, <2>2 DEF Injection, IsInjective
<1>5. IsFiniteSet(D) /\ Cardinality(D) = c
  BY <1>1, FS_Interval
<1> HIDE DEF r, D
<1>6. r \in Surjection(I, D)
  BY <1>4, <1>5, FS_Injection DEF c
<1>7. \A k \in D : \E i \in I : Cardinality(Low(i)) = k
  <2>1. \A k \in D : \E i \in I : r[i] = k
    BY <1>6 DEF Surjection
  <2>2. \A i \in I : r[i] = Cardinality(Low(i))
    BY DEF r
  <2> QED
    BY <2>1, <2>2
<1> DEFINE e == [k \in D |-> CHOOSE i \in I : Cardinality(Low(i)) = k]
<1>8. \A k \in D : e[k] \in I /\ Cardinality(Low(e[k])) = k
  BY <1>7
<1>9. Those(s, I) = [k \in D |-> s[e[k]]]
  BY DEF Those, D
<1> HIDE DEF e
<1>10. \A i \in I : \E k \in D : e[k] = i
  <2> TAKE i \in I
  <2> DEFINE k == Cardinality(Low(i))
  <2>1. k \in D
    BY <1>2
  <2>2. e[k] \in I /\ Cardinality(Low(e[k])) = Cardinality(Low(i))
    BY <1>8, <2>1
  <2>3. e[k] = i
    <3>3. \A x \in I : x \in Int
      OBVIOUS
    <3>2. e[k] \in Int /\ i \in Int
      BY <2>2, <3>3
    <3> HIDE DEF Low, k
    <3>1. e[k] = i \/ e[k] < i \/ i < e[k]
      BY <3>2
    <3> QED
      BY <1>3, <2>2, <3>1
  <2> QED
    BY <2>1, <2>3
<1> HIDE DEF Low
<1> QED
  BY <1>1, <1>8, <1>9, <1>10 DEF D

-----------------------------------------------------------------------------
(* The steps.                                                              *)

Line == Seq(WireMsgs)
WireTypes == /\ side \in [Sides -> PeerState]
             /\ out \in [Sides -> Line] /\ sent \in [Sides -> Line]
             /\ fext \in BOOLEAN
GoodFor(p, q) == Good(side[p], side[q], sent[p] \o out[p], sent[q] \o out[q], fext)
WireInv == WireTypes /\ \A p \in Sides : GoodFor(p, Other(p))

LEMMA TwoSides ==
    ASSUME WireAssumption, NEW p \in Sides, NEW q, q = Other(p)
    PROVE  q \in Sides /\ q # p /\ p = Other(q) /\ Sides = {p, q}
<1>1. Sides = {SeedSide, LeechSide} /\ SeedSide # LeechSide
  BY DEF WireAssumption, Sides
<1>2. \E r \in Sides : r # p
  BY <1>1
<1>3. q \in Sides /\ q # p
  BY <1>2 DEF Other
<1>4. \E r \in Sides : r # q
  BY <1>1
<1>5. Other(q) \in Sides /\ Other(q) # q
  BY <1>4 DEF Other
<1> QED
  BY <1>1, <1>3, <1>5

LEMMA InvOf ==
    ASSUME WireAssumption, WireInv, NEW p \in Sides, NEW q, q = Other(p)
    PROVE  /\ q \in Sides /\ q # p
           /\ side \in [Sides -> PeerState] /\ out \in [Sides -> Line] /\ sent \in [Sides -> Line]
           /\ side[p] \in PeerState /\ side[q] \in PeerState
           /\ out[p] \in Line /\ sent[p] \in Line /\ out[q] \in Line /\ sent[q] \in Line
           /\ sent[p] \o out[p] \in Line /\ sent[q] \o out[q] \in Line
           /\ fext \in BOOLEAN
           /\ Good(side[p], side[q], sent[p] \o out[p], sent[q] \o out[q], fext)
           /\ Good(side[q], side[p], sent[q] \o out[q], sent[p] \o out[p], fext)
<1>1. q \in Sides /\ q # p /\ p = Other(q)
  BY TwoSides
<1>2. WireTypes /\ GoodFor(p, q) /\ GoodFor(q, p)
  BY <1>1 DEF WireInv
<1>3. out[p] \in Line /\ sent[p] \in Line /\ out[q] \in Line /\ sent[q] \in Line
  BY <1>1, <1>2 DEF WireTypes
<1>4. sent[p] \o out[p] \in Line /\ sent[q] \o out[q] \in Line
  BY <1>3, WireConcat DEF Line
<1> QED
  BY <1>1, <1>2, <1>3, <1>4 DEF WireTypes, GoodFor

LEMMA InvNext ==
    ASSUME WireAssumption, NEW p \in Sides, NEW q, q = Other(p),
           WireTypes', GoodFor(p, q)', GoodFor(q, p)'
    PROVE  WireInv'
<1>1. q \in Sides /\ q # p /\ p = Other(q) /\ Sides = {p, q}
  BY TwoSides
<1>2. ASSUME NEW r \in Sides PROVE GoodFor(r, Other(r))'
  <2>1. CASE r = p
    BY <2>1
  <2>2. CASE r = q
    BY <1>1, <2>2
  <2> QED
    BY <1>1, <2>1, <2>2
<1> QED
  BY <1>2 DEF WireInv

\* One side changes, and writes.
LEMMA SideWrites ==
    ASSUME WireAssumption, WireInv, NEW p \in Sides, NEW q, q = Other(p),
           NEW a2 \in PeerState, NEW O \in Line, NEW S \in Line,
           NEW X \in Line, NEW A \in Line, NEW B \in Line, NEW Y \in Line,
           Spliced(X, A, B, Y, Underway(p), Joined(S, O)), AllPieces(A),
           side' = [side EXCEPT ![p] = a2], out' = [out EXCEPT ![p] = O], sent' = [sent EXCEPT ![p] = S],
           fext' = fext, Says(side[p], side[q], a2, A, Y, fext)
    PROVE  WireInv'
<1>1. /\ q \in Sides /\ q # p
      /\ side \in [Sides -> PeerState] /\ out \in [Sides -> Line] /\ sent \in [Sides -> Line]
      /\ side[p] \in PeerState /\ side[q] \in PeerState
      /\ sent[q] \o out[q] \in Line
      /\ fext \in BOOLEAN
      /\ Good(side[p], side[q], sent[p] \o out[p], sent[q] \o out[q], fext)
      /\ Good(side[q], side[p], sent[q] \o out[q], sent[p] \o out[p], fext)
  BY InvOf
<1>2. WireTypes'
  BY <1>1 DEF WireTypes
<1>3. /\ side'[p] = a2 /\ side'[q] = side[q] /\ out'[p] = O /\ out'[q] = out[q]
      /\ sent'[p] = S /\ sent'[q] = sent[q]
  BY <1>1
<1> DEFINE ma == Underway(p)
           mb == Underway(q)
           ma2 == Joined(S, O)
           a == side[p]
           b == side[q]
<1>4. /\ Spliced(X, A, B, Y, ma, ma2) /\ mb \in Line
      /\ Good(a, b, ma, mb, fext) /\ Good(b, a, mb, ma, fext) /\ Says(a, b, a2, A, Y, fext)
  BY <1>1 DEF Underway
<1> HIDE DEF ma, mb, ma2, a, b
<1>5. Good(a2, b, ma2, mb, fext) /\ Good(b, a2, mb, ma2, fext)
  <2>1. X \in Seq(WireMsgs) /\ A \in Seq(WireMsgs) /\ B \in Seq(WireMsgs) /\ Y \in Seq(WireMsgs) /\ mb \in Seq(WireMsgs)
    BY <1>4 DEF Line
  <2>2. Speaking(X, A, B, Y, ma, ma2, mb, a, b, a2, fext)
    BY <1>4, <2>1 DEF Speaking
  <2> QED
    BY <2>2, Speaks
<1>6. GoodFor(p, q)'
  BY <1>3, <1>5 DEF GoodFor, Underway, Joined, ma2, mb, b
<1>7. GoodFor(q, p)'
  BY <1>3, <1>5 DEF GoodFor, Underway, Joined, ma2, mb, b
<1> QED
  BY <1>2, <1>6, <1>7, InvNext

\* One side changes, and adds Y to its batch.
LEMMA SideAdds ==
    ASSUME WireAssumption, WireInv, NEW p \in Sides, NEW q, q = Other(p),
           NEW a2 \in PeerState, NEW Y \in Line,
           side' = [side EXCEPT ![p] = a2], out' = [out EXCEPT ![p] = out[p] \o Y], sent' = sent,
           fext' = fext, Says(side[p], side[q], a2, <<>>, Y, fext)
    PROVE  WireInv'
<1>1. sent \in [Sides -> Line] /\ out[p] \in Line /\ sent[p] \in Line /\ q \in Sides
  BY InvOf
<1> DEFINE X == sent[p]
           B == out[p]
           O == B \o Y
           A == <<>>
           S == X
<1>2. A \in Line /\ AllPieces(A)
  <2>1. A \in Line /\ Len(A) = 0
    BY EmptySeq DEF Line
  <2> HIDE DEF A
  <2>2. \A i : i \notin 1..Len(A)
    BY <2>1
  <2> QED
    BY <2>1, <2>2 DEF AllPieces
<1>3. O \in Line
  BY <1>1, WireConcat DEF Line
<1>4. X \o A = X
  BY <1>1, ConcatEmptySeq DEF Line
<1>5. Spliced(X, A, B, Y, Underway(p), Joined(S, O)) /\ X \in Line /\ B \in Line /\ S \in Line
  BY <1>1, <1>4 DEF Spliced, Underway, Joined
<1>6. /\ out' = [out EXCEPT ![p] = O] /\ sent' = [sent EXCEPT ![p] = S]
      /\ Says(side[p], side[q], a2, A, Y, fext)
  BY <1>1
<1> HIDE DEF X, B, O, A, S
<1> QED
  BY <1>2, <1>3, <1>5, <1>6, SideWrites

\* One side reads the next message, and answers Y.
LEMMA SideReads ==
    ASSUME WireAssumption, WireInv, NEW p \in Sides, NEW q, q = Other(p),
           sent[q] # <<>>, NEW m, m = Head(sent[q]),
           NEW a2 \in PeerState, NEW Y \in Line,
           side' = [side EXCEPT ![p] = a2], out' = [out EXCEPT ![p] = out[p] \o Y],
           sent' = [sent EXCEPT ![q] = Tail(sent[q])],
           fext' = fext, Reacts(side[p], side[q], a2, m, Y, fext)
    PROVE  WireInv'
<1>1. /\ q \in Sides /\ q # p
      /\ side \in [Sides -> PeerState] /\ out \in [Sides -> Line] /\ sent \in [Sides -> Line]
      /\ out[p] \in Line /\ sent[p] \in Line /\ out[q] \in Line /\ sent[q] \in Line
      /\ sent[p] \o out[p] \in Line
      /\ fext \in BOOLEAN
      /\ Good(side[p], side[q], sent[p] \o out[p], sent[q] \o out[q], fext)
      /\ Good(side[q], side[p], sent[q] \o out[q], sent[p] \o out[p], fext)
  BY InvOf
<1> DEFINE rest == Tail(sent[q])
           one == <<m>>
<1>2. /\ m \in WireMsgs /\ rest \in Line /\ one \in Line /\ sent[q] = one \o rest
  <2>1. m \in WireMsgs /\ rest \in Line
    BY <1>1, HeadTailProperties DEF Line
  <2>2. one \in Line
    BY <2>1 DEF Line
  <2>3. sent[q] = one \o rest
    <3> DEFINE s == sent[q]
    <3>1. s \in Seq(WireMsgs) /\ s # <<>>
      BY <1>1 DEF Line
    <3>2. Len(s) \in Nat \ {0}
      BY <3>1, EmptySeq
    <3>3. 1 \in 1..Len(s) /\ Len(s) \in 1..Len(s)
      BY <3>2
    <3>4. SubSeq(s, 1, Len(s)) = <<s[1]>> \o SubSeq(s, 2, Len(s))
      BY <3>1, <3>3, SubSeqRecursiveFirst
    <3>5. SubSeq(s, 1, Len(s)) = s /\ Tail(s) = SubSeq(s, 2, Len(s)) /\ Head(s) = s[1]
      BY <3>1, SubSeqFull, TailIsSubSeq
    <3> QED
      BY <3>4, <3>5
  <2> QED
    BY <2>1, <2>2, <2>3
<1>3. out[p] \o Y \in Line
  BY <1>1, WireConcat DEF Line
<1>4. WireTypes'
  BY <1>1, <1>2, <1>3 DEF WireTypes
<1>5. /\ side'[p] = a2 /\ side'[q] = side[q] /\ out'[p] = out[p] \o Y /\ out'[q] = out[q]
      /\ sent'[p] = sent[p] /\ sent'[q] = rest
  BY <1>1
<1> DEFINE ma == sent[p] \o out[p]
           mb == sent[q] \o out[q]
           ma2 == sent[p] \o (out[p] \o Y)
           mb2 == rest \o out[q]
           a == side[p]
           b == side[q]
<1>6. mb = one \o mb2 /\ mb2 \in Line /\ ma2 = ma \o Y /\ ma \in Line
  <2>1. mb = (one \o rest) \o out[q]
    BY <1>2
  <2>2. (one \o rest) \o out[q] = one \o mb2
    <3> DEFINE u == out[q]
    <3>1. one \in Seq(WireMsgs) /\ rest \in Seq(WireMsgs) /\ u \in Seq(WireMsgs)
      BY <1>1, <1>2 DEF Line
    <3>2. mb2 = rest \o u
      OBVIOUS
    <3> HIDE DEF u, rest, one, mb2
    <3>3. Joined(Joined(one, rest), u) = Joined(one, Joined(rest, u))
      BY <3>1, JoinedAssociative
    <3> QED
      BY <3>2, <3>3 DEF u, Joined
  <2>3. ma2 = ma \o Y
    <3> DEFINE s == sent[p]
               u == out[p]
    <3>1. s \in Seq(WireMsgs) /\ u \in Seq(WireMsgs) /\ Y \in Seq(WireMsgs)
      BY <1>1 DEF Line
    <3>2. ma = s \o u /\ ma2 = s \o (u \o Y)
      OBVIOUS
    <3> HIDE DEF s, u, ma, ma2
    <3>3. Joined(Joined(s, u), Y) = Joined(s, Joined(u, Y))
      BY <3>1, JoinedAssociative
    <3> QED
      BY <3>2, <3>3 DEF Joined
  <2>4. mb2 \in Line
    BY <1>1, <1>2, WireConcat DEF Line
  <2> QED
    BY <1>1, <2>1, <2>2, <2>3, <2>4
<1>7. Good(a, b, ma, mb, fext) /\ Good(b, a, mb, ma, fext) /\ Reacts(a, b, a2, m, Y, fext)
  BY <1>1
<1> HIDE DEF ma, mb, ma2, mb2, a, b, rest
<1>8. Listening(m, mb, mb2, ma, ma2, Y, a, b, a2, fext)
  BY <1>2, <1>6, <1>7 DEF Listening, Line, one
<1>9. Good(a2, b, ma2, mb2, fext) /\ Good(b, a2, mb2, ma2, fext)
  BY <1>8, Listens
<1>10. GoodFor(p, q)'
  BY <1>5, <1>9 DEF GoodFor, ma2, mb2, b
<1>11. GoodFor(q, p)'
  BY <1>5, <1>9 DEF GoodFor, ma2, mb2, b
<1> QED
  BY <1>4, <1>10, <1>11, InvNext

\* Messages of some types only, and one more behind them.
LEMMA OfTypes ==
    ASSUME NEW s \in Seq(WireMsgs), NEW T, \A i \in 1..Len(s) : s[i].type \in T
    PROVE  /\ \A t, x : t \notin T => ~HasMsg(s, t, x)
           /\ \A on, off, now : on \notin T /\ off \notin T => Settled(s, on, off, now) = now
           /\ T \cap Greetings = {} => GreetFree(s)
<1>1. ASSUME NEW t, NEW x, t \notin T PROVE ~HasMsg(s, t, x)
  BY <1>1 DEF HasMsg, Msg
<1>2. ASSUME NEW on, NEW off, NEW now, on \notin T, off \notin T PROVE Settled(s, on, off, now) = now
  <2>1. \A i \in 1..Len(s) : s[i].type \notin {on, off}
    BY <1>2
  <2> QED
    BY <2>1, SettledNone
<1>3. T \cap Greetings = {} => GreetFree(s)
  BY DEF GreetFree
<1> QED
  BY <1>1, <1>2, <1>3

LEMMA OneMore ==
    ASSUME NEW R \in Seq(WireMsgs), NEW m \in WireMsgs, NEW Y, Y = Joined(R, <<m>>)
    PROVE  /\ Y \in Seq(WireMsgs)
           /\ \A t, x : HasMsg(Y, t, x) <=> HasMsg(R, t, x) \/ m = Msg(t, {x})
           /\ \A x : TellsOf(m, x) => Covers(Y, x)
           /\ GreetFree(Y) <=> GreetFree(R) /\ m.type \notin Greetings
           /\ \A on, off, now : Settled(Y, on, off, now)
                = IF m.type \in {on, off} THEN m.type = on ELSE Settled(R, on, off, now)
<1> DEFINE u == <<m>>
<1>1. /\ u \in Seq(WireMsgs)
      /\ \A t, x : HasMsg(u, t, x) <=> m = Msg(t, {x})
      /\ \A x : Covers(u, x) <=> TellsOf(m, x)
      /\ GreetFree(u) <=> m.type \notin Greetings
      /\ \A on, off, now : Settled(u, on, off, now) = IF m.type \in {on, off} THEN m.type = on ELSE now
  BY OneMessage
<1>2. Y = R \o u
  BY DEF Joined
<1> HIDE DEF u
<1>3. Y \in Seq(WireMsgs)
  <2>1. R \o u \in Seq(WireMsgs)
    BY <1>1, WireConcat
  <2> QED
    BY <1>2, <2>1
<1>4. ASSUME NEW t, NEW x PROVE HasMsg(Y, t, x) <=> HasMsg(R, t, x) \/ m = Msg(t, {x})
  <2>1. HasMsg(R \o u, t, x) <=> HasMsg(R, t, x) \/ HasMsg(u, t, x)
    BY <1>1, HasConcat
  <2> QED
    BY <1>1, <1>2, <2>1
<1>5. ASSUME NEW x PROVE TellsOf(m, x) => Covers(Y, x)
  <2>1. Covers(R \o u, x) <=> Covers(R, x) \/ Covers(u, x)
    BY <1>1, CoversConcat
  <2> QED
    BY <1>1, <1>2, <2>1
<1>6. GreetFree(Y) <=> GreetFree(R) /\ m.type \notin Greetings
  <2>1. GreetFree(R \o u) <=> GreetFree(R) /\ GreetFree(u)
    BY <1>1, GreetConcat
  <2> QED
    BY <1>1, <1>2, <2>1
<1>7. ASSUME NEW on, NEW off, NEW now
      PROVE  Settled(Y, on, off, now) = IF m.type \in {on, off} THEN m.type = on ELSE Settled(R, on, off, now)
  <2> DEFINE v == Settled(R, on, off, now)
  <2>1. Settled(R \o u, on, off, now) = Settled(u, on, off, v)
    BY <1>1, SettledConcat
  <2>2. Settled(Y, on, off, now) = Settled(u, on, off, v)
    BY <1>2, <2>1
  <2> HIDE DEF v
  <2>3. Settled(u, on, off, v) = IF m.type \in {on, off} THEN m.type = on ELSE v
    BY <1>1
  <2>4. Settled(Y, on, off, now) = IF m.type \in {on, off} THEN m.type = on ELSE v
    BY <2>2, <2>3
  <2> QED
    BY <2>4 DEF v
<1> QED
  BY <1>3, <1>4, <1>5, <1>6, <1>7

\* The answers to requests that will not be served.
LEMMA RejectsAre ==
    ASSUME NEW s \in Seq(MsgBlocks)
    PROVE  /\ Rejects(s) \in Seq(WireMsgs)
           /\ \A i \in 1..Len(Rejects(s)) : Rejects(s)[i].type \in {"REJECT"}
           /\ fext => \A x : Contains(s, x) => HasMsg(Rejects(s), "REJECT", x)
           /\ s = <<>> => Rejects(s) = <<>>
<1>1. DOMAIN s = 1..Len(s) /\ Len(s) \in Nat /\ \A i \in 1..Len(s) : s[i] \in MsgBlocks
  BY LenProperties
<1>2. CASE fext
  <2> DEFINE r == [i \in 1..Len(s) |-> Msg("REJECT", {s[i]})]
  <2>1. Rejects(s) = r
    BY <1>1, <1>2 DEF Rejects
  <2>2. \A i \in 1..Len(s) : r[i] = Msg("REJECT", {s[i]}) /\ r[i] \in WireMsgs
    BY <1>1, MessagesAre DEF OfBlock
  <2>3. r \in Seq(WireMsgs) /\ Len(r) = Len(s)
    BY <1>1, <2>2
  <2> HIDE DEF r
  <2>4. \A x : Contains(s, x) => HasMsg(r, "REJECT", x)
    BY <2>2, <2>3 DEF Contains, HasMsg
  <2>5. \A i \in 1..Len(r) : r[i].type \in {"REJECT"}
    <3>1. \A y : Msg("REJECT", y).type = "REJECT"
      BY DEF Msg
    <3> QED
      BY <2>2, <2>3, <3>1
  <2>6. s = <<>> => r = <<>>
    <3>1. s = <<>> => Len(s) = 0
      OBVIOUS
    <3>2. s = <<>> => Len(r) = 0
      BY <2>3, <3>1
    <3> QED
      BY <2>3, <3>2, EmptySeq
  <2> QED
    BY <2>1, <2>3, <2>4, <2>5, <2>6
<1>3. CASE ~fext
  <2>1. Rejects(s) = <<>>
    BY <1>3 DEF Rejects
  <2>2. <<>> \in Seq(WireMsgs) /\ \A i : i \notin 1..Len(<<>>)
    OBVIOUS
  <2> QED
    BY <1>3, <2>1, <2>2
<1> QED
  BY <1>2, <1>3

\* What an action that changes one peer and its batch has to show.
LEMMA LosePieceKeeps ==
    ASSUME WireAssumption, WireInv, NEW p \in Sides, NEW b \in MsgBlocks, LosePiece(p, b)
    PROVE  WireInv'
<1> DEFINE q == Other(p)
           a == side[p]
           a2 == [a EXCEPT !.have = a.have \ {b}]
           Y == <<>>
<1>1. /\ q \in Sides /\ side \in [Sides -> PeerState] /\ a \in PeerState /\ out[p] \in Line
      /\ out \in [Sides -> Line]
      /\ Good(a, side[q], sent[p] \o out[p], sent[q] \o out[q], fext)
  BY InvOf
<1>2. /\ side' = [side EXCEPT ![p] = a2] /\ out' = out /\ sent' = sent /\ fext' = fext
  BY <1>1 DEF LosePiece
<1>3. /\ a2 \in PeerState /\ a2.have = a.have \ {b}
      /\ a2.peerHave = a.peerHave /\ a2.clientIsChoked = a.clientIsChoked /\ a2.peerIsInterested = a.peerIsInterested
      /\ a2.peerIsChoked = a.peerIsChoked /\ a2.clientIsInterested = a.clientIsInterested
      /\ a2.asked = a.asked /\ a2.pending = a.pending
  BY <1>1 DEF PeerState
<1>4. /\ Y \in Line /\ GreetFree(Y)
      /\ \A t, x : ~HasMsg(Y, t, x)
      /\ \A on, off, now : Settled(Y, on, off, now) = now
  BY NoMessage DEF Line
<1>5. out[p] \o Y = out[p]
  BY <1>1, ConcatEmptySeq DEF Line
<1>6. out' = [out EXCEPT ![p] = out[p] \o Y]
  BY <1>1, <1>2, <1>5
<1>7. Quiet(a)
  BY <1>1 DEF Good
<1> HIDE DEF a2, Y
<1>8. Quiet(a2)
  BY <1>3, <1>7 DEF Quiet
<1>9. Says(a, side[q], a2, <<>>, Y, fext)
  BY <1>3, <1>4, <1>8 DEF Says
<1> QED
  BY <1>2, <1>3, <1>4, <1>6, <1>9, SideAdds

LEMMA SetInterestedKeeps ==
    ASSUME WireAssumption, WireInv, NEW p \in Sides, SetInterested(p)
    PROVE  WireInv'
<1> DEFINE q == Other(p)
           a == side[p]
           want == a.peerHave \ a.have # {}
           a2 == [a EXCEPT !.clientIsInterested = want]
           m == Msg(IF want THEN "INTERESTED" ELSE "NOT_INTERESTED", Nothing)
           Y == <<m>>
<1>1. /\ q \in Sides /\ side \in [Sides -> PeerState] /\ a \in PeerState
      /\ Good(a, side[q], sent[p] \o out[p], sent[q] \o out[q], fext)
  BY InvOf
<1>2. /\ side' = [side EXCEPT ![p] = a2] /\ out' = [out EXCEPT ![p] = out[p] \o Y] /\ sent' = sent /\ fext' = fext
  BY <1>1 DEF SetInterested, Send
<1>3. /\ a2 \in PeerState /\ a2.clientIsInterested = want
      /\ a2.peerHave = a.peerHave /\ a2.clientIsChoked = a.clientIsChoked /\ a2.peerIsInterested = a.peerIsInterested
      /\ a2.peerIsChoked = a.peerIsChoked /\ a2.have = a.have
      /\ a2.asked = a.asked /\ a2.pending = a.pending
  BY <1>1 DEF PeerState
<1>4. m \in WireMsgs /\ m.type \in {"INTERESTED", "NOT_INTERESTED"} /\ (m.type = "INTERESTED") = want
      /\ \A t, x : t \in OfBlock => m # Msg(t, {x})
  <2>1. m \in WireMsgs
    BY MessagesAre DEF Simple
  <2>2. m.type \in {"INTERESTED", "NOT_INTERESTED"} /\ (m.type = "INTERESTED") = want
    BY DEF Msg
  <2>3. \A t, x : t \in OfBlock => m # Msg(t, {x})
    BY <2>2 DEF OfBlock, Msg
  <2> QED
    BY <2>1, <2>2, <2>3
<1> HIDE DEF m, want, a2
<1>5. /\ Y \in Line /\ GreetFree(Y)
      /\ \A t, x : t \in OfBlock => ~HasMsg(Y, t, x)
      /\ Settled(Y, "CHOKE", "UNCHOKE", a.peerIsChoked) = a.peerIsChoked
      /\ Settled(Y, "INTERESTED", "NOT_INTERESTED", a.clientIsInterested) = want
  <2>1. /\ Y \in Seq(WireMsgs)
        /\ \A t, x : HasMsg(Y, t, x) <=> m = Msg(t, {x})
        /\ GreetFree(Y) <=> m.type \notin Greetings
        /\ \A on, off, now : Settled(Y, on, off, now) = IF m.type \in {on, off} THEN m.type = on ELSE now
    BY <1>4, OneMessage
  <2> HIDE DEF Y
  <2>2. Y \in Line /\ GreetFree(Y)
    BY <1>4, <2>1 DEF Line, Greetings
  <2>3. ASSUME NEW t \in OfBlock, NEW x PROVE ~HasMsg(Y, t, x)
    <3>1. m # Msg(t, {x})
      BY <1>4
    <3>2. HasMsg(Y, t, x) <=> m = Msg(t, {x})
      BY <2>1
    <3> QED
      BY <3>1, <3>2
  <2>4. Settled(Y, "CHOKE", "UNCHOKE", a.peerIsChoked) = a.peerIsChoked
    BY <1>4, <2>1
  <2>5. Settled(Y, "INTERESTED", "NOT_INTERESTED", a.clientIsInterested) = want
    BY <1>4, <2>1
  <2> QED
    BY <2>2, <2>3, <2>4, <2>5
<1>7. Quiet(a)
  BY <1>1 DEF Good
<1> HIDE DEF Y
<1>8. Quiet(a2)
  BY <1>3, <1>7 DEF Quiet
<1>9. Says(a, side[q], a2, <<>>, Y, fext)
  BY <1>3, <1>5, <1>8 DEF Says, OfBlock
<1> QED
  BY <1>2, <1>3, <1>5, <1>9, SideAdds

LEMMA CancelRequestKeeps ==
    ASSUME WireAssumption, WireInv, NEW p \in Sides, NEW b \in MsgBlocks, CancelRequest(p, b)
    PROVE  WireInv'
<1> DEFINE q == Other(p)
           a == side[p]
           a2 == [a EXCEPT !.pending = a.pending \ {b}]
           m == Msg("CANCEL", {b})
           Y == <<m>>
<1>1. /\ q \in Sides /\ side \in [Sides -> PeerState] /\ a \in PeerState
      /\ Good(a, side[q], sent[p] \o out[p], sent[q] \o out[q], fext)
  BY InvOf
<1>2. /\ side' = [side EXCEPT ![p] = a2] /\ out' = [out EXCEPT ![p] = out[p] \o Y] /\ sent' = sent /\ fext' = fext
  BY <1>1 DEF CancelRequest, Send
<1>3. /\ a2 \in PeerState /\ a2.pending = a.pending \ {b}
      /\ a2.peerHave = a.peerHave /\ a2.clientIsChoked = a.clientIsChoked /\ a2.peerIsInterested = a.peerIsInterested
      /\ a2.peerIsChoked = a.peerIsChoked /\ a2.clientIsInterested = a.clientIsInterested
      /\ a2.have = a.have /\ a2.asked = a.asked
  BY <1>1 DEF PeerState
<1>4. m \in WireMsgs /\ m.type = "CANCEL" /\ \A t, x : m = Msg(t, {x}) => t = "CANCEL" /\ x = b
  <2>1. m \in WireMsgs
    BY MessagesAre DEF OfBlock
  <2>2. m.type = "CANCEL" /\ \A t, x : m = Msg(t, {x}) => t = "CANCEL" /\ x = b
    BY DEF Msg
  <2> QED
    BY <2>1, <2>2
<1> HIDE DEF m, a2
<1>5. /\ Y \in Line /\ GreetFree(Y)
      /\ \A t, x : HasMsg(Y, t, x) => t = "CANCEL" /\ x = b
      /\ Settled(Y, "CHOKE", "UNCHOKE", a.peerIsChoked) = a.peerIsChoked
      /\ Settled(Y, "INTERESTED", "NOT_INTERESTED", a.clientIsInterested) = a.clientIsInterested
  <2>1. /\ Y \in Seq(WireMsgs)
        /\ \A t, x : HasMsg(Y, t, x) <=> m = Msg(t, {x})
        /\ GreetFree(Y) <=> m.type \notin Greetings
        /\ \A on, off, now : Settled(Y, on, off, now) = IF m.type \in {on, off} THEN m.type = on ELSE now
    BY <1>4, OneMessage
  <2> HIDE DEF Y
  <2>2. Y \in Line /\ GreetFree(Y)
    BY <1>4, <2>1 DEF Line, Greetings
  <2>3. ASSUME NEW t, NEW x, HasMsg(Y, t, x) PROVE t = "CANCEL" /\ x = b
    <3>1. m = Msg(t, {x})
      BY <2>1, <2>3
    <3> QED
      BY <1>4, <3>1
  <2>4. Settled(Y, "CHOKE", "UNCHOKE", a.peerIsChoked) = a.peerIsChoked
    BY <1>4, <2>1
  <2>5. Settled(Y, "INTERESTED", "NOT_INTERESTED", a.clientIsInterested) = a.clientIsInterested
    BY <1>4, <2>1
  <2> QED
    BY <2>2, <2>3, <2>4, <2>5
<1>7. Quiet(a)
  BY <1>1 DEF Good
<1> HIDE DEF Y
<1>8. Quiet(a2)
  BY <1>3, <1>7 DEF Quiet
<1>9. Says(a, side[q], a2, <<>>, Y, fext)
  BY <1>3, <1>5, <1>8 DEF Says
<1> QED
  BY <1>2, <1>3, <1>5, <1>9, SideAdds

LEMMA SetChokeKeeps ==
    ASSUME WireAssumption, WireInv, NEW p \in Sides, NEW choke \in BOOLEAN, SetChoke(p, choke)
    PROVE  WireInv'
<1> DEFINE q == Other(p)
           a == side[p]
           a2 == [a EXCEPT !.peerIsChoked = choke, !.asked = IF choke THEN <<>> ELSE a.asked]
           m == Msg(IF choke THEN "CHOKE" ELSE "UNCHOKE", Nothing)
           R == IF choke THEN Rejects(a.asked) ELSE <<>>
           Y == Joined(R, <<m>>)
<1>1. /\ q \in Sides /\ side \in [Sides -> PeerState] /\ a \in PeerState
      /\ Good(a, side[q], sent[p] \o out[p], sent[q] \o out[q], fext)
  BY InvOf
<1>2. /\ side' = [side EXCEPT ![p] = a2] /\ out' = [out EXCEPT ![p] = out[p] \o Y] /\ sent' = sent /\ fext' = fext
      /\ a.peerIsChoked # choke
  <2>1. side' = [side EXCEPT ![p] = a2]
    BY <1>1 DEF SetChoke
  <2> HIDE DEF a2
  <2>2. R = IF choke THEN CancelledRequests(p) ELSE <<>>
    BY DEF CancelledRequests
  <2>3. out' = [out EXCEPT ![p] = out[p] \o Y]
    BY <2>2 DEF SetChoke, Send, Joined
  <2> QED
    BY <2>1, <2>3 DEF SetChoke
<1>3. /\ a2 \in PeerState /\ a2.peerIsChoked = choke /\ a2.asked = IF choke THEN <<>> ELSE a.asked
      /\ a2.peerHave = a.peerHave /\ a2.clientIsChoked = a.clientIsChoked /\ a2.peerIsInterested = a.peerIsInterested
      /\ a2.clientIsInterested = a.clientIsInterested /\ a2.have = a.have /\ a2.pending = a.pending
      /\ a.asked \in Seq(MsgBlocks) /\ a.peerIsChoked \in BOOLEAN
  <2>1. <<>> \in Seq(MsgBlocks)
    OBVIOUS
  <2> QED
    BY <1>1, <2>1 DEF PeerState
<1>4. m \in WireMsgs /\ m.type \in {"CHOKE", "UNCHOKE"} /\ (m.type = "CHOKE") = choke
      /\ \A t, x : t \in OfBlock => m # Msg(t, {x})
  <2>1. m \in WireMsgs
    BY MessagesAre DEF Simple
  <2>2. m.type \in {"CHOKE", "UNCHOKE"} /\ (m.type = "CHOKE") = choke
    BY DEF Msg
  <2>3. \A t, x : t \in OfBlock => m # Msg(t, {x})
    BY <2>2 DEF OfBlock, Msg
  <2> QED
    BY <2>1, <2>2, <2>3
<1>5. Quiet(a)
  BY <1>1 DEF Good
<1>6. /\ R \in Seq(WireMsgs) /\ \A i \in 1..Len(R) : R[i].type \in {"REJECT"}
      /\ fext => \A x : Contains(a.asked, x) => Contains(a2.asked, x) \/ HasMsg(R, "REJECT", x)
  <2>1. <<>> \in Seq(WireMsgs) /\ \A i : i \notin 1..Len(<<>>)
    OBVIOUS
  <2>2. /\ Rejects(a.asked) \in Seq(WireMsgs)
        /\ \A i \in 1..Len(Rejects(a.asked)) : Rejects(a.asked)[i].type \in {"REJECT"}
        /\ fext => \A x : Contains(a.asked, x) => HasMsg(Rejects(a.asked), "REJECT", x)
    BY <1>3, RejectsAre
  <2> HIDE DEF a2, a
  <2>3. CASE choke
    BY <2>2, <2>3
  <2>4. CASE ~choke
    <3>1. R = <<>> /\ a2.asked = a.asked
      BY <1>3, <2>4
    <3> HIDE DEF R
    <3> QED
      BY <2>1, <3>1
  <2> QED
    BY <2>3, <2>4
<1> HIDE DEF R, m, a2
<1>7. /\ \A t, x : t # "REJECT" => ~HasMsg(R, t, x)
      /\ \A now : Settled(R, "INTERESTED", "NOT_INTERESTED", now) = now
      /\ GreetFree(R)
  <2> DEFINE T == {"REJECT"}
  <2>1. \A i \in 1..Len(R) : R[i].type \in T
    BY <1>6
  <2> HIDE DEF T
  <2>2. /\ \A t, x : t \notin T => ~HasMsg(R, t, x)
        /\ \A on, off, now : on \notin T /\ off \notin T => Settled(R, on, off, now) = now
        /\ T \cap Greetings = {} => GreetFree(R)
    BY <1>6, <2>1, OfTypes
  <2> QED
    BY <2>2 DEF T, Greetings
<1>8. /\ Y \in Seq(WireMsgs)
      /\ \A t, x : HasMsg(Y, t, x) <=> HasMsg(R, t, x) \/ m = Msg(t, {x})
      /\ GreetFree(Y) <=> GreetFree(R) /\ m.type \notin Greetings
      /\ \A on, off, now : Settled(Y, on, off, now)
           = IF m.type \in {on, off} THEN m.type = on ELSE Settled(R, on, off, now)
  <2>1. R \in Seq(WireMsgs) /\ m \in WireMsgs
    BY <1>4, <1>6
  <2> QED
    BY <2>1, OneMore
<1> HIDE DEF Y
<1>9. Y \in Line /\ GreetFree(Y)
  BY <1>4, <1>7, <1>8 DEF Line, Greetings
<1>10. \A t, x : t \in OfBlock => (HasMsg(Y, t, x) <=> HasMsg(R, t, x))
  <2> SUFFICES ASSUME NEW t \in OfBlock, NEW x PROVE HasMsg(Y, t, x) <=> HasMsg(R, t, x)
    OBVIOUS
  <2>1. m # Msg(t, {x})
    BY <1>4
  <2>2. HasMsg(Y, t, x) <=> HasMsg(R, t, x) \/ m = Msg(t, {x})
    BY <1>8
  <2> QED
    BY <2>1, <2>2
<1>11. /\ Settled(Y, "CHOKE", "UNCHOKE", a.peerIsChoked) = choke
       /\ Settled(Y, "INTERESTED", "NOT_INTERESTED", a.clientIsInterested) = a.clientIsInterested
  BY <1>4, <1>7, <1>8
<1>12. Quiet(a2)
  <2>1. choke => a2.asked = <<>>
    BY <1>3
  <2> HIDE DEF a
  <2> QED
    BY <1>3, <1>5, <2>1 DEF Quiet
<1>13. a.asked = <<>> => a2.asked = <<>>
  BY <1>3
<1>14. /\ \A x : ~HasMsg(Y, "CANCEL", x) /\ ~HasMsg(Y, "REQUEST", x)
       /\ fext => \A x : Contains(a.asked, x) => Contains(a2.asked, x) \/ HasMsg(Y, "REJECT", x)
  BY <1>6, <1>7, <1>10 DEF OfBlock
<1> HIDE DEF a
<1>15. Says(a, side[q], a2, <<>>, Y, fext)
  BY <1>3, <1>9, <1>11, <1>12, <1>13, <1>14 DEF Says
<1> QED
  BY <1>2, <1>3, <1>9, <1>15, SideAdds DEF a

LEMMA GotElsewhereKeeps ==
    ASSUME WireAssumption, WireInv, NEW p \in Sides, NEW b \in MsgBlocks, GotElsewhere(p, b)
    PROVE  WireInv'
<1> DEFINE q == Other(p)
           a == side[p]
           a2 == [a EXCEPT !.have = a.have \cup {b}, !.pending = a.pending \ {b}]
           m == Msg("HAVE", {b})
           K == a.pending \cap {b}
           R == Msgs("CANCEL", K)
           Y == Joined(R, <<m>>)
<1>1. /\ q \in Sides /\ side \in [Sides -> PeerState] /\ a \in PeerState
      /\ Good(a, side[q], sent[p] \o out[p], sent[q] \o out[q], fext)
  BY InvOf
<1>2. /\ side' = [side EXCEPT ![p] = a2] /\ out' = [out EXCEPT ![p] = out[p] \o Y] /\ sent' = sent /\ fext' = fext
  <2>1. side' = [side EXCEPT ![p] = a2]
    BY <1>1 DEF GotElsewhere
  <2> HIDE DEF a2
  <2>2. R = Msgs("CANCEL", side[p].pending \cap {b})
    OBVIOUS
  <2> HIDE DEF R, K, a
  <2>3. out' = [out EXCEPT ![p] = out[p] \o Y]
    BY <2>2 DEF GotElsewhere, Send, Joined
  <2> QED
    BY <2>1, <2>3 DEF GotElsewhere
<1>3. /\ a2 \in PeerState /\ a2.have = a.have \cup {b} /\ a2.pending = a.pending \ {b}
      /\ a2.peerHave = a.peerHave /\ a2.clientIsChoked = a.clientIsChoked /\ a2.peerIsInterested = a.peerIsInterested
      /\ a2.peerIsChoked = a.peerIsChoked /\ a2.clientIsInterested = a.clientIsInterested /\ a2.asked = a.asked
      /\ a.pending \in SUBSET MsgBlocks
  BY <1>1 DEF PeerState
<1>4. m \in WireMsgs /\ m.type = "HAVE" /\ TellsOf(m, b) /\ \A t, x : m = Msg(t, {x}) => t = "HAVE"
  <2>1. m \in WireMsgs
    BY MessagesAre DEF OfBlock
  <2>2. m.type = "HAVE" /\ b \in m.arg /\ \A t, x : m = Msg(t, {x}) => t = "HAVE"
    BY DEF Msg
  <2> QED
    BY <2>1, <2>2 DEF TellsOf
<1>5. Quiet(a)
  BY <1>1 DEF Good
<1>6. /\ R \in Seq(WireMsgs)
      /\ \A i \in 1..Len(R) : R[i].type \in {"CANCEL"} /\ R[i] = Msg("CANCEL", {b})
  <2>1. K \in SUBSET MsgBlocks /\ \A x \in K : x = b
    BY <1>3
  <2>2. /\ R \in Seq(WireMsgs)
        /\ \A i \in 1..Len(R) : \E x \in K : R[i] = Msg("CANCEL", {x})
    BY <2>1, MsgsAre DEF OfBlock
  <2> HIDE DEF R, K
  <2>3. \A i \in 1..Len(R) : R[i] = Msg("CANCEL", {b})
    BY <2>1, <2>2
  <2>4. Msg("CANCEL", {b}).type = "CANCEL"
    BY DEF Msg
  <2> QED
    BY <2>2, <2>3, <2>4
<1> HIDE DEF R, m, a2, K
<1>7. /\ \A t, x : t # "CANCEL" => ~HasMsg(R, t, x)
      /\ \A x : x # b => ~HasMsg(R, "CANCEL", x)
      /\ \A now : /\ Settled(R, "INTERESTED", "NOT_INTERESTED", now) = now
                  /\ Settled(R, "CHOKE", "UNCHOKE", now) = now
      /\ GreetFree(R)
  <2> DEFINE T == {"CANCEL"}
  <2>1. \A i \in 1..Len(R) : R[i].type \in T
    BY <1>6
  <2> HIDE DEF T
  <2>2. /\ \A t, x : t \notin T => ~HasMsg(R, t, x)
        /\ \A on, off, now : on \notin T /\ off \notin T => Settled(R, on, off, now) = now
        /\ T \cap Greetings = {} => GreetFree(R)
    BY <1>6, <2>1, OfTypes
  <2>3. ASSUME NEW x, x # b, NEW i \in 1..Len(R), R[i] = Msg("CANCEL", {x}) PROVE FALSE
    <3>1. Msg("CANCEL", {x}) = Msg("CANCEL", {b})
      BY <1>6, <2>3
    <3> QED
      BY <2>3, <3>1 DEF Msg
  <2>4. \A x : x # b => ~HasMsg(R, "CANCEL", x)
    BY <2>3 DEF HasMsg
  <2> QED
    BY <2>2, <2>4 DEF T, Greetings
<1>8. /\ Y \in Seq(WireMsgs)
      /\ \A t, x : HasMsg(Y, t, x) <=> HasMsg(R, t, x) \/ m = Msg(t, {x})
      /\ \A x : TellsOf(m, x) => Covers(Y, x)
      /\ GreetFree(Y) <=> GreetFree(R) /\ m.type \notin Greetings
      /\ \A on, off, now : Settled(Y, on, off, now)
           = IF m.type \in {on, off} THEN m.type = on ELSE Settled(R, on, off, now)
  <2>1. R \in Seq(WireMsgs) /\ m \in WireMsgs
    BY <1>4, <1>6
  <2> QED
    BY <2>1, OneMore
<1> HIDE DEF Y
<1>9. Y \in Line /\ GreetFree(Y) /\ Covers(Y, b)
  BY <1>4, <1>7, <1>8 DEF Line, Greetings
<1>10. ASSUME NEW t, NEW x, HasMsg(Y, t, x) PROVE t = "HAVE" \/ (t = "CANCEL" /\ x = b)
  <2>1. HasMsg(R, t, x) \/ m = Msg(t, {x})
    BY <1>8, <1>10
  <2> QED
    BY <1>4, <1>7, <2>1
<1>11. /\ Settled(Y, "CHOKE", "UNCHOKE", a.peerIsChoked) = a.peerIsChoked
       /\ Settled(Y, "INTERESTED", "NOT_INTERESTED", a.clientIsInterested) = a.clientIsInterested
  BY <1>4, <1>7, <1>8
<1>12. Quiet(a2)
  <2> HIDE DEF a
  <2> QED
    BY <1>3, <1>5 DEF Quiet
<1>14. /\ \A x : x # b => ~HasMsg(Y, "CANCEL", x)
       /\ \A x : ~HasMsg(Y, "REQUEST", x)
  BY <1>10
<1> HIDE DEF a
<1>15. Says(a, side[q], a2, <<>>, Y, fext)
  BY <1>3, <1>9, <1>11, <1>12, <1>14 DEF Says
<1> QED
  BY <1>2, <1>3, <1>9, <1>15, SideAdds DEF a

LEMMA ThoseSeq ==
    ASSUME NEW n \in Nat, NEW I \in SUBSET (1..n), NEW D, NEW s, \A i \in 1..n : s[i] \in D
    PROVE  /\ Those(s, I) \in Seq(D)
           /\ \A k \in 1..Len(Those(s, I)) : \E i \in I : Those(s, I)[k] = s[i]
           /\ \A i \in I : \E k \in 1..Len(Those(s, I)) : Those(s, I)[k] = s[i]
           /\ I = {} => Those(s, I) = <<>>
<1> DEFINE t == Those(s, I)
           c == Cardinality(I)
<1>1. /\ c \in Nat /\ t = [k \in 1..c |-> t[k]]
      /\ \A k \in 1..c : \E i \in I : t[k] = s[i]
      /\ \A i \in I : \E k \in 1..c : t[k] = s[i]
  BY ThoseAre
<1>2. I = {} => c = 0
  BY FS_EmptySet
<1> HIDE DEF t, c
<1>3. \A k \in 1..c : t[k] \in D
  BY <1>1
<1>4. t \in [1..c -> D]
  BY <1>1, <1>3
<1>5. t \in Seq(D) /\ Len(t) = c
  BY <1>1, <1>4
<1>6. I = {} => t = <<>>
  BY <1>2, <1>5, EmptySeq
<1>7. \A k \in 1..Len(t) : \E i \in I : t[k] = s[i]
  BY <1>1, <1>5
<1>8. \A i \in I : \E k \in 1..Len(t) : t[k] = s[i]
  BY <1>1, <1>5
<1> QED
  BY <1>5, <1>6, <1>7, <1>8 DEF t

\* The first requests of a queue, the rest, and pieces for some of them.
LEMMA FirstRequests ==
    ASSUME NEW s \in Seq(MsgBlocks), NEW n \in 0..Len(s)
    PROVE  /\ n \in Nat
           /\ \A i \in 1..n : SubSeq(s, 1, n)[i] = s[i] /\ s[i] \in MsgBlocks
           /\ SubSeq(s, n + 1, Len(s)) \in Seq(MsgBlocks)
           /\ \A i \in 1..Len(s) : i \in 1..n \/ Contains(SubSeq(s, n + 1, Len(s)), s[i])
           /\ s = <<>> => n = 0 /\ SubSeq(s, n + 1, Len(s)) = <<>>
<1> DEFINE l == Len(s)
           first == SubSeq(s, 1, n)
           rest == SubSeq(s, n + 1, l)
<1>1. l \in Nat /\ n \in 0..l /\ n \in Nat /\ \A i \in 1..l : s[i] \in MsgBlocks
  BY LenProperties
<1>2. \A i \in 1..n : first[i] = s[i] /\ s[i] \in MsgBlocks
  <2>1. \A i \in 1..n : i \in 1..l
    BY <1>1
  <2>2. 1 \in Int /\ n \in Int /\ \A i \in 1..n : s[i] \in MsgBlocks
    BY <1>1, <2>1
  <2>3. \A i \in 1..n - 1 + 1 : first[i] = s[1 + i - 1]
    BY <2>2, SubSeqProperties
  <2>4. n - 1 + 1 = n /\ \A i \in 1..n : 1 + i - 1 = i
    BY <1>1
  <2> HIDE DEF first
  <2> QED
    BY <2>2, <2>3, <2>4
<1>3. /\ rest \in Seq(MsgBlocks) /\ Len(rest) = l - n
      /\ \A i \in 1..l - n : rest[i] = s[n + i]
  <2> DEFINE k == n + 1
  <2>1. k \in Int /\ l \in Int /\ \A i \in k..l : s[i] \in MsgBlocks
    BY <1>1
  <2>2. rest = SubSeq(s, k, l)
    OBVIOUS
  <2>3. l - k + 1 = l - n /\ (IF k <= l THEN l - k + 1 ELSE 0) = l - n /\ \A i \in 1..l - n : k + i - 1 = n + i
    BY <1>1
  <2> HIDE DEF k, l, rest
  <2>4. /\ SubSeq(s, k, l) \in Seq(MsgBlocks)
        /\ Len(SubSeq(s, k, l)) = IF k <= l THEN l - k + 1 ELSE 0
        /\ \A i \in 1..l - k + 1 : SubSeq(s, k, l)[i] = s[k + i - 1]
    BY <2>1, SubSeqProperties
  <2> QED
    BY <2>2, <2>3, <2>4
<1> HIDE DEF rest, first
<1>4. ASSUME NEW i \in 1..l, i \notin 1..n PROVE Contains(rest, s[i])
  <2>1. i - n \in 1..l - n /\ n + (i - n) = i
    BY <1>1, <1>4
  <2>2. rest[i - n] = s[i]
    BY <1>3, <2>1
  <2> QED
    BY <1>3, <2>1, <2>2 DEF Contains
<1>5. ASSUME s = <<>> PROVE n = 0 /\ rest = <<>>
  <2>1. l = 0
    BY <1>5
  <2> HIDE DEF l
  <2>3. n = 0
    BY <1>1, <2>1
  <2>2. n = 0 /\ Len(rest) = 0
    BY <1>3, <2>1, <2>3
  <2> QED
    BY <1>3, <2>2, EmptySeq
<1> QED
  BY <1>1, <1>2, <1>3, <1>4, <1>5 DEF rest, first

Taking(s, n, first, rest, G, H, all, P, refused) ==
    /\ s \in Seq(MsgBlocks) /\ n \in Nat /\ G \in SUBSET (1..n) /\ H \in SUBSET (1..n) /\ 1..n = G \cup H
    /\ \A i \in 1..n : first[i] = s[i] /\ s[i] \in MsgBlocks
    /\ \A i \in 1..Len(s) : i \in 1..n \/ Contains(rest, s[i])
    /\ s = <<>> => n = 0 /\ rest = <<>>
    /\ \A i \in 1..n : all[i] = Msg("PIECE", {first[i]})
    /\ P = Those(all, G) /\ refused = Those(first, H)
LEMMA TakenAre ==
    ASSUME NEW s, NEW n, NEW first, NEW rest, NEW G, NEW H, NEW all, NEW P, NEW refused,
           Taking(s, n, first, rest, G, H, all, P, refused)
    PROVE  /\ P \in Seq(WireMsgs) /\ \A i \in 1..Len(P) : P[i].type = "PIECE"
           /\ refused \in Seq(MsgBlocks)
           /\ \A x : Contains(s, x) => Contains(rest, x) \/ HasMsg(P, "PIECE", x) \/ Contains(refused, x)
           /\ s = <<>> => P = <<>> /\ rest = <<>>
<1>a. /\ s \in Seq(MsgBlocks) /\ n \in Nat /\ G \in SUBSET (1..n) /\ H \in SUBSET (1..n) /\ 1..n = G \cup H
      /\ \A i \in 1..n : first[i] = s[i] /\ s[i] \in MsgBlocks
      /\ \A i \in 1..Len(s) : i \in 1..n \/ Contains(rest, s[i])
      /\ s = <<>> => n = 0 /\ rest = <<>>
      /\ \A i \in 1..n : all[i] = Msg("PIECE", {first[i]})
      /\ P = Those(all, G) /\ refused = Those(first, H)
  BY DEF Taking
<1> USE <1>a
<1>1. \A i \in 1..n : all[i] = Msg("PIECE", {s[i]}) /\ all[i] \in WireMsgs /\ all[i].type = "PIECE"
  <2> SUFFICES ASSUME NEW i \in 1..n
               PROVE  all[i] = Msg("PIECE", {s[i]}) /\ all[i] \in WireMsgs /\ all[i].type = "PIECE"
    OBVIOUS
  <2>1. all[i] = Msg("PIECE", {s[i]}) /\ s[i] \in MsgBlocks
    OBVIOUS
  <2> DEFINE x == s[i]
  <2>2. all[i] = Msg("PIECE", {x}) /\ x \in MsgBlocks
    BY <2>1
  <2> HIDE DEF x
  <2>3. Msg("PIECE", {x}) \in WireMsgs
    BY <2>2, MessagesAre DEF OfBlock
  <2>4. Msg("PIECE", {x}).type = "PIECE"
    BY DEF Msg
  <2> QED
    BY <2>1, <2>2, <2>3, <2>4
<1>2. /\ Those(all, G) \in Seq(WireMsgs)
      /\ \A k \in 1..Len(Those(all, G)) : \E i \in G : Those(all, G)[k] = all[i]
      /\ \A i \in G : \E k \in 1..Len(Those(all, G)) : Those(all, G)[k] = all[i]
      /\ G = {} => Those(all, G) = <<>>
  <2>1. n \in Nat /\ G \in SUBSET (1..n) /\ \A i \in 1..n : all[i] \in WireMsgs
    BY <1>1
  <2> QED
    BY ONLY <2>1, ThoseSeq, ZenonT(60)
<1>3. /\ P \in Seq(WireMsgs)
      /\ \A k \in 1..Len(P) : \E i \in G : P[k] = all[i]
      /\ \A i \in G : \E k \in 1..Len(P) : P[k] = all[i]
      /\ G = {} => P = <<>>
  BY <1>2
<1>4. /\ Those(first, H) \in Seq(MsgBlocks)
      /\ \A k \in 1..Len(Those(first, H)) : \E i \in H : Those(first, H)[k] = first[i]
      /\ \A i \in H : \E k \in 1..Len(Those(first, H)) : Those(first, H)[k] = first[i]
      /\ H = {} => Those(first, H) = <<>>
  <2>1. n \in Nat /\ H \in SUBSET (1..n) /\ \A i \in 1..n : first[i] \in MsgBlocks
    OBVIOUS
  <2> QED
    BY ONLY <2>1, ThoseSeq, ZenonT(40)
<1>5. /\ refused \in Seq(MsgBlocks)
      /\ \A i \in H : \E k \in 1..Len(refused) : refused[k] = first[i]
  BY <1>4
<1>6. \A k \in 1..Len(P) : P[k].type = "PIECE"
  <2> TAKE k \in 1..Len(P)
  <2>1. PICK i \in G : P[k] = all[i]
    BY <1>3
  <2> QED
    BY <1>1, <2>1
<1>7. ASSUME NEW x, Contains(s, x)
      PROVE  Contains(rest, x) \/ HasMsg(P, "PIECE", x) \/ Contains(refused, x)
  <2>1. PICK i \in 1..Len(s) : s[i] = x
    BY <1>7 DEF Contains
  <2>2. CASE i \in G
    <3>1. PICK k \in 1..Len(P) : P[k] = all[i]
      BY <1>3, <2>2
    <3>2. all[i] = Msg("PIECE", {x})
      BY <1>1, <2>1, <2>2
    <3> QED
      BY <3>1, <3>2 DEF HasMsg
  <2>3. CASE i \in H
    <3>1. PICK k \in 1..Len(refused) : refused[k] = first[i]
      BY <1>5, <2>3
    <3>2. first[i] = x
      BY <2>1, <2>3
    <3> QED
      BY <3>1, <3>2 DEF Contains
  <2>4. CASE i \notin 1..n
    BY <2>1, <2>4
  <2> QED
    BY <2>2, <2>3, <2>4
<1>8. ASSUME s = <<>> PROVE P = <<>> /\ rest = <<>>
  <2>1. n = 0 /\ rest = <<>>
    BY <1>8
  <2>2. G = {}
    BY <2>1
  <2> QED
    BY <1>3, <2>1, <2>2
<1> QED
  BY <1>3, <1>5, <1>6, <1>7, <1>8

\* Requests for some blocks, then pieces and rejects.
LEMMA AskedAre ==
    ASSUME WireAssumption, NEW K \in SUBSET MsgBlocks, NEW W \in Seq(WireMsgs),
           \A i \in 1..Len(W) : W[i].type \in {"PIECE", "REJECT"},
           NEW Y, Y = Joined(Msgs("REQUEST", K), W)
    PROVE  /\ Y \in Seq(WireMsgs) /\ GreetFree(Y)
           /\ \A x \in K : Stands(Y, x)
           /\ \A x : ~HasMsg(Y, "CANCEL", x) /\ (HasMsg(Y, "REQUEST", x) => K # {})
           /\ \A t, x : HasMsg(W, t, x) => HasMsg(Y, t, x)
           /\ \A now : /\ Settled(Y, "CHOKE", "UNCHOKE", now) = now
                       /\ Settled(Y, "INTERESTED", "NOT_INTERESTED", now) = now
<1> DEFINE Q == Msgs("REQUEST", K)
           T == {"REQUEST", "PIECE", "REJECT"}
           R == {"PIECE", "REJECT"}
<1>1. /\ Q \in Seq(WireMsgs)
      /\ \A i \in 1..Len(Q) : \E b \in K : Q[i] = Msg("REQUEST", {b})
      /\ \A b \in K : \E i \in 1..Len(Q) : Q[i] = Msg("REQUEST", {b})
  BY MsgsAre DEF OfBlock
<1>2. Y = Q \o W
  BY DEF Joined
<1> HIDE DEF Q
<1>3. \A i \in 1..Len(Q) : Q[i].type = "REQUEST"
  <2>1. \A y : Msg("REQUEST", y).type = "REQUEST"
    BY DEF Msg
  <2> QED
    BY <1>1, <2>1
<1>4. Y \in Seq(WireMsgs) /\ \A i \in 1..Len(Y) : Y[i].type \in T
  <2> DEFINE m == Len(Q)
             n == Len(W)
             l == Len(Q \o W)
             u == Q \o W
  <2>1. /\ u \in Seq(WireMsgs)
        /\ \A k \in 1..l : k \in 1..m \/ (k - m \in 1..n /\ u[k] = W[k - m])
        /\ \A k \in 1..m : u[k] = Q[k]
    BY <1>1, WireConcat
  <2> HIDE DEF m, n, u
  <2>2. \A k \in 1..l : u[k].type \in T
    BY <1>3, <2>1 DEF m, n
  <2> QED
    BY <1>2, <2>1, <2>2 DEF u
<1> HIDE DEF T
<1>5. /\ \A t, x : t \notin T => ~HasMsg(Y, t, x)
      /\ \A on, off, now : on \notin T /\ off \notin T => Settled(Y, on, off, now) = now
      /\ T \cap Greetings = {} => GreetFree(Y)
  BY <1>4, OfTypes
<1>6. \A t, x : t \notin R => ~HasMsg(W, t, x)
  <2> HIDE DEF R
  <2>1. \A i \in 1..Len(W) : W[i].type \in R
    BY DEF R
  <2> QED
    BY <2>1, OfTypes
<1>7. ASSUME NEW t, NEW x PROVE HasMsg(Y, t, x) <=> HasMsg(Q, t, x) \/ HasMsg(W, t, x)
  <2>1. HasMsg(Q \o W, t, x) <=> HasMsg(Q, t, x) \/ HasMsg(W, t, x)
    BY <1>1, HasConcat
  <2> QED
    BY <1>2, <2>1
<1>8. ASSUME NEW x \in K PROVE Stands(Y, x)
  <2>1. Stands(Q \o W, x) <=> Stands(W, x) \/ (Stands(Q, x) /\ ~HasMsg(W, "CANCEL", x))
    BY <1>1, StandsConcat
  <2>2. Stands(Q, x)
    <3>1. \A i \in 1..Len(Q) : Q[i] # Msg("CANCEL", {x})
      BY <1>3 DEF Msg
    <3> QED
      BY <1>1, <3>1 DEF Stands
  <2> QED
    BY <1>2, <1>6, <2>1, <2>2
<1>9. ASSUME NEW x, HasMsg(Y, "REQUEST", x) PROVE K # {}
  <2>1. HasMsg(Q, "REQUEST", x)
    BY <1>6, <1>7, <1>9
  <2> QED
    BY <1>1, <2>1 DEF HasMsg
<1> QED
  BY <1>4, <1>5, <1>7, <1>8, <1>9 DEF T, Greetings

\* Pieces, then answers to the requests that were not served.
LEMMA ServedAre ==
    ASSUME NEW P \in Seq(WireMsgs), NEW J \in Seq(WireMsgs), NEW W, W = Joined(P, J),
           \A i \in 1..Len(P) : P[i].type = "PIECE",
           \A i \in 1..Len(J) : J[i].type \in {"REJECT"}
    PROVE  /\ W \in Seq(WireMsgs) /\ \A i \in 1..Len(W) : W[i].type \in {"PIECE", "REJECT"}
           /\ \A t, x : HasMsg(P, t, x) \/ HasMsg(J, t, x) => HasMsg(W, t, x)
<1> DEFINE u == P \o J
           m == Len(P)
           n == Len(J)
           l == Len(P \o J)
<1>1. /\ u \in Seq(WireMsgs)
      /\ \A k \in 1..l : k \in 1..m \/ (k - m \in 1..n /\ u[k] = J[k - m])
      /\ \A k \in 1..m : u[k] = P[k]
  BY WireConcat
<1>2. \A t, x : HasMsg(u, t, x) <=> HasMsg(P, t, x) \/ HasMsg(J, t, x)
  BY HasConcat
<1>3. W = u /\ Len(u) = l
  BY DEF Joined
<1> HIDE DEF u, l, n, m
<1>4. \A k \in 1..l : u[k].type \in {"PIECE", "REJECT"}
  BY <1>1 DEF m, n
<1> QED
  BY <1>1, <1>2, <1>3, <1>4

LEMMA PulseSays ==
    ASSUME WireAssumption, NEW a \in PeerState, NEW b \in PeerState, NEW a2, NEW rest,
           NEW K \in SUBSET MsgBlocks, NEW A, NEW W \in Seq(WireMsgs),
           \A i \in 1..Len(W) : W[i].type \in {"PIECE", "REJECT"},
           NEW Y, Y = Joined(Msgs("REQUEST", K), W),
           a2 = [a EXCEPT !.pending = a.pending \cup K, !.asked = rest],
           Quiet(a), K \cap a.have = {}, a.peerHave = {} => K = {},
           fext => \A x : Contains(a.asked, x) =>
               Contains(rest, x) \/ HasMsg(A, "PIECE", x) \/ HasMsg(W, "PIECE", x) \/ HasMsg(W, "REJECT", x),
           a.asked = <<>> => A = <<>> /\ rest = <<>>
    PROVE  Y \in Seq(WireMsgs) /\ Says(a, b, a2, A, Y, fext)
<1>1. /\ Y \in Seq(WireMsgs) /\ GreetFree(Y)
      /\ \A x \in K : Stands(Y, x)
      /\ \A x : ~HasMsg(Y, "CANCEL", x) /\ (HasMsg(Y, "REQUEST", x) => K # {})
      /\ \A t, x : HasMsg(W, t, x) => HasMsg(Y, t, x)
      /\ \A now : /\ Settled(Y, "CHOKE", "UNCHOKE", now) = now
                  /\ Settled(Y, "INTERESTED", "NOT_INTERESTED", now) = now
  BY AskedAre
<1>2. /\ a2.have = a.have /\ a2.pending = a.pending \cup K /\ a2.asked = rest
      /\ a2.peerHave = a.peerHave /\ a2.clientIsChoked = a.clientIsChoked /\ a2.peerIsInterested = a.peerIsInterested
      /\ a2.peerIsChoked = a.peerIsChoked /\ a2.clientIsInterested = a.clientIsInterested
  BY DEF PeerState
<1>3. Quiet(a2)
  BY <1>2 DEF Quiet
<1>4. fext => \A x \in b.pending : Contains(a.asked, x) =>
          Contains(a2.asked, x) \/ HasMsg(A, "PIECE", x) \/ HasMsg(Y, "PIECE", x) \/ HasMsg(Y, "REJECT", x)
  BY <1>1, <1>2
<1>5. \A x \in a2.pending : (x \in a.pending /\ ~HasMsg(Y, "CANCEL", x)) \/ Stands(Y, x)
  BY <1>1, <1>2
<1>6. a.peerHave = {} => (a2.pending \subseteq a.pending /\ \A x : ~HasMsg(Y, "REQUEST", x))
  BY <1>1, <1>2
<1>7. a.asked = <<>> => A = <<>> /\ a2.asked = <<>>
  BY <1>2
<1> HIDE DEF Quiet
<1>8. /\ a2.peerHave = a.peerHave
      /\ a2.clientIsChoked = a.clientIsChoked
      /\ a2.peerIsInterested = a.peerIsInterested
      /\ Settled(Y, "CHOKE", "UNCHOKE", a.peerIsChoked) = a2.peerIsChoked
      /\ Settled(Y, "INTERESTED", "NOT_INTERESTED", a.clientIsInterested) = a2.clientIsInterested
      /\ \A x \in a2.have : x \in a.have \/ Covers(Y, x)
  BY <1>1, <1>2
<1> QED
  BY ONLY <1>1, <1>3, <1>4, <1>5, <1>6, <1>7, <1>8 DEF Says

\* Where a pulse puts what it writes: in the batch, or straight into the stream.
LEMMA Batched ==
    ASSUME NEW s \in Seq(WireMsgs), NEW o \in Seq(WireMsgs), NEW Q \in Seq(WireMsgs),
           NEW P \in Seq(WireMsgs), NEW J \in Seq(WireMsgs)
    PROVE  /\ Joined(Joined(s, <<>>), P) \in Line /\ Joined(Joined(o, Q), J) \in Line
           /\ Spliced(s, P, o, Joined(Q, J), Joined(s, o), Joined(Joined(Joined(s, <<>>), P), Joined(Joined(o, Q), J)))
<1>1. s \o <<>> = s
  BY ConcatEmptySeq
<1>2. Joined(Joined(o, Q), J) = Joined(o, Joined(Q, J))
  BY JoinedAssociative
<1>3. s \o P \in Seq(WireMsgs) /\ o \o Q \in Seq(WireMsgs)
  BY WireConcat
<1>4. (o \o Q) \o J \in Seq(WireMsgs)
  BY <1>3, WireConcat
<1> QED
  BY <1>1, <1>2, <1>3, <1>4 DEF Joined, Spliced, Line

LEMMA Flushed ==
    ASSUME NEW s \in Seq(WireMsgs), NEW o \in Seq(WireMsgs), NEW Q \in Seq(WireMsgs),
           NEW P \in Seq(WireMsgs), NEW J \in Seq(WireMsgs)
    PROVE  /\ Joined(Joined(s, Joined(o, Q)), P) \in Line /\ Joined(<<>>, J) \in Line /\ Joined(s, o) \in Line
           /\ Spliced(Joined(s, o), <<>>, <<>>, Joined(Q, Joined(P, J)), Joined(s, o),
                      Joined(Joined(Joined(s, Joined(o, Q)), P), Joined(<<>>, J)))
<1> DEFINE so == Joined(s, o)
           PJ == Joined(P, J)
           QPJ == Joined(Q, PJ)
<1>1. so \in Seq(WireMsgs) /\ Joined(o, Q) \in Seq(WireMsgs) /\ PJ \in Seq(WireMsgs)
  BY WireConcat DEF Joined
<1>2. Joined(s, Joined(o, Q)) \in Seq(WireMsgs) /\ QPJ \in Seq(WireMsgs)
  BY <1>1, WireConcat DEF Joined
<1>3. Joined(Joined(s, Joined(o, Q)), P) \in Seq(WireMsgs)
  BY <1>2, WireConcat DEF Joined
<1>4. \A u \in Seq(WireMsgs) : Joined(<<>>, u) = u /\ Joined(u, <<>>) = u
  BY ConcatEmptySeq DEF Joined
<1>5. Joined(s, Joined(o, Q)) = Joined(so, Q)
  BY JoinedAssociative
<1> HIDE DEF so
<1>6. Joined(Joined(so, Q), P) = Joined(so, Joined(Q, P))
  BY <1>1, JoinedAssociative
<1>7. Joined(Q, P) \in Seq(WireMsgs)
  BY WireConcat DEF Joined
<1>8. Joined(Joined(so, Joined(Q, P)), J) = Joined(so, Joined(Joined(Q, P), J))
  BY <1>1, <1>7, JoinedAssociative
<1>9. Joined(Joined(Q, P), J) = QPJ
  BY JoinedAssociative
<1> HIDE DEF QPJ, PJ
<1>10. /\ Joined(Joined(Joined(s, Joined(o, Q)), P), Joined(<<>>, J)) = Joined(so, QPJ)
       /\ Joined(so, <<>>) = so /\ Joined(<<>>, QPJ) = QPJ
  BY <1>1, <1>2, <1>4, <1>5, <1>6, <1>8, <1>9
<1>11. Spliced(so, <<>>, <<>>, QPJ, so, Joined(so, QPJ))
  BY <1>10 DEF Spliced, Joined
<1> QED
  BY <1>1, <1>3, <1>4, <1>10, <1>11 DEF Line, so, QPJ, PJ

LEMMA PulseKeeps ==
    ASSUME WireAssumption, WireInv, NEW p \in Sides, Pulse(p)
    PROVE  WireInv'
<1> DEFINE q == Other(p)
           a == side[p]
<1>1. /\ q \in Sides /\ side \in [Sides -> PeerState] /\ a \in PeerState /\ side[q] \in PeerState
      /\ out[p] \in Line /\ sent[p] \in Line
      /\ Good(a, side[q], sent[p] \o out[p], sent[q] \o out[q], fext)
  BY InvOf
<1>2. PICK ask \in Asks(p), flush \in BOOLEAN, n \in 0..Len(side[p].asked), bad \in BOOLEAN :
        LET batch == out[p] \o Msgs("REQUEST", ask)
            first == SubSeq(side[p].asked, 1, n)
            good == Served(p, n, bad)
            pieces == Those([i \in 1..n |-> Msg("PIECE", {first[i]})], good)
            refused == Those(first, (1..n) \ good)
        IN  /\ ask # {} \/ flush \/ n > 0
            /\ bad => n > 0 /\ first[n] \in side[p].have /\ CanChoose(p, "other", MaxWireEvents)
            /\ ~bad => UNCHANGED wireEvents
            /\ side' = [side EXCEPT ![p].pending = @ \cup ask,
                                    ![p].asked = SubSeq(@, n + 1, Len(@))]
            /\ sent' = [sent EXCEPT ![p] = @ \o (IF flush THEN batch ELSE <<>>)
                            \o pieces]
            /\ out' = [out EXCEPT ![p] = (IF flush THEN <<>> ELSE batch) \o Rejects(refused)]
            /\ UNCHANGED fext
  BY Zenon DEF Pulse
<1> DEFINE first == SubSeq(a.asked, 1, n)
           rest == SubSeq(a.asked, n + 1, Len(a.asked))
           G == Served(p, n, bad)
           H == (1..n) \ G
           all == [i \in 1..n |-> Msg("PIECE", {first[i]})]
           P == Those(all, G)
           refused == Those(first, H)
           Q == Msgs("REQUEST", ask)
           J == Rejects(refused)
           a2 == [a EXCEPT !.pending = a.pending \cup ask, !.asked = rest]
<1>3. /\ side' = [side EXCEPT ![p] = a2] /\ fext' = fext
      /\ sent' = [sent EXCEPT ![p] = Joined(Joined(sent[p], IF flush THEN Joined(out[p], Q) ELSE <<>>), P)]
      /\ out' = [out EXCEPT ![p] = Joined(IF flush THEN <<>> ELSE Joined(out[p], Q), J)]
  <2>1. side' = [side EXCEPT ![p] = a2] /\ fext' = fext
    BY <1>1, <1>2
  <2>2. sent' = [sent EXCEPT ![p] = Joined(Joined(sent[p], IF flush THEN Joined(out[p], Q) ELSE <<>>), P)]
    BY <1>2 DEF Joined
  <2>3. out' = [out EXCEPT ![p] = Joined(IF flush THEN <<>> ELSE Joined(out[p], Q), J)]
    BY <1>2 DEF Joined
  <2> QED
    BY <2>1, <2>2, <2>3
<1>4. ask \in SUBSET MsgBlocks /\ ask \cap a.have = {} /\ (a.peerHave = {} => ask = {})
  <2>1. a.peerHave \in SUBSET MsgBlocks
    BY <1>1 DEF PeerState
  <2>2. ask = {} \/ ask \in SUBSET Wanted(p)
    BY DEF Asks, kSubset
  <2> QED
    BY <2>1, <2>2 DEF Wanted
<1>5. a.asked \in Seq(MsgBlocks) /\ Quiet(a)
  BY <1>1 DEF PeerState, Good
<1>6. /\ n \in Nat
      /\ \A i \in 1..n : first[i] = a.asked[i] /\ a.asked[i] \in MsgBlocks
      /\ rest \in Seq(MsgBlocks)
      /\ \A i \in 1..Len(a.asked) : i \in 1..n \/ Contains(rest, a.asked[i])
      /\ a.asked = <<>> => n = 0 /\ rest = <<>>
  BY <1>5, FirstRequests
<1>7. G \in SUBSET (1..n) /\ H \in SUBSET (1..n) /\ 1..n = G \cup H
  BY DEF Served
<1>8. \A i \in 1..n : all[i] = Msg("PIECE", {first[i]})
  OBVIOUS
<1> HIDE DEF first, rest, G, H, all
<1>9. /\ P \in Seq(WireMsgs) /\ \A i \in 1..Len(P) : P[i].type = "PIECE"
      /\ refused \in Seq(MsgBlocks)
      /\ \A x : Contains(a.asked, x) => Contains(rest, x) \/ HasMsg(P, "PIECE", x) \/ Contains(refused, x)
      /\ a.asked = <<>> => P = <<>> /\ rest = <<>>
  <2> DEFINE s == a.asked
  <2>1. Taking(s, n, first, rest, G, H, all, P, refused)
    BY <1>5, <1>6, <1>7, <1>8 DEF Taking
  <2> HIDE DEF s, P, refused
  <2>2. /\ P \in Seq(WireMsgs) /\ \A i \in 1..Len(P) : P[i].type = "PIECE"
        /\ refused \in Seq(MsgBlocks)
        /\ \A x : Contains(s, x) => Contains(rest, x) \/ HasMsg(P, "PIECE", x) \/ Contains(refused, x)
        /\ s = <<>> => P = <<>> /\ rest = <<>>
    BY ONLY <2>1, TakenAre
  <2> QED
    BY <2>2 DEF s
<1> HIDE DEF P, refused
<1>10. /\ J \in Seq(WireMsgs) /\ \A i \in 1..Len(J) : J[i].type \in {"REJECT"}
       /\ fext => \A x : Contains(refused, x) => HasMsg(J, "REJECT", x)
  BY <1>9, RejectsAre
<1> HIDE DEF J
<1>11. a2 \in PeerState
  BY <1>1, <1>4, <1>6 DEF PeerState
<1>12. Q \in Seq(WireMsgs)
  BY <1>4, MsgsAre DEF OfBlock
<1> HIDE DEF a2
<1>13. CASE flush
  <2> DEFINE W == Joined(P, J)
             Y == Joined(Q, W)
             X == Joined(sent[p], out[p])
             A == <<>>
             S == Joined(Joined(sent[p], Joined(out[p], Q)), P)
             O == Joined(<<>>, J)
  <2>1. /\ W \in Seq(WireMsgs) /\ \A i \in 1..Len(W) : W[i].type \in {"PIECE", "REJECT"}
        /\ \A t, x : HasMsg(P, t, x) \/ HasMsg(J, t, x) => HasMsg(W, t, x)
    BY <1>9, <1>10, ServedAre
  <2> HIDE DEF W
  <2>2. Y \in Seq(WireMsgs) /\ Says(a, side[q], a2, A, Y, fext)
    <3>1. fext => \A x : Contains(a.asked, x) =>
               Contains(rest, x) \/ HasMsg(A, "PIECE", x) \/ HasMsg(W, "PIECE", x) \/ HasMsg(W, "REJECT", x)
      BY <1>9, <1>10, <2>1
    <3>2. a.asked = <<>> => A = <<>> /\ rest = <<>>
      BY <1>9
    <3>3. a2 = [a EXCEPT !.pending = a.pending \cup ask, !.asked = rest]
      BY DEF a2
    <3> HIDE DEF Q, A, a
    <3>4. Y = Joined(Msgs("REQUEST", ask), W)
      BY DEF Q
    <3> HIDE DEF Y
    <3>5. ask \in SUBSET MsgBlocks /\ ask \cap a.have = {} /\ (a.peerHave = {} => ask = {})
      BY <1>4
    <3> QED
      BY <1>1, <1>5, <2>1, <3>1, <3>2, <3>3, <3>4, <3>5, PulseSays
  <2>3. S \in Line /\ O \in Line /\ X \in Line /\ Spliced(X, A, <<>>, Y, X, Joined(S, O))
    BY <1>1, <1>9, <1>10, <1>12, Flushed DEF Line, W
  <2>4. /\ side' = [side EXCEPT ![p] = a2] /\ fext' = fext
        /\ sent' = [sent EXCEPT ![p] = S] /\ out' = [out EXCEPT ![p] = O]
    BY <1>3, <1>13
  <2>5. A \in Line /\ AllPieces(A)
    <3>1. Len(A) = 0 /\ A \in Line
      BY EmptySeq DEF Line
    <3> HIDE DEF A
    <3>2. \A i : i \notin 1..Len(A)
      BY <3>1
    <3> QED
      BY <3>1, <3>2 DEF AllPieces
  <2>6. X = Underway(p)
    BY DEF Joined, Underway
  <2>7. Y \in Line
    BY <2>2 DEF Line
  <2> DEFINE B == <<>>
  <2>8. B \in Line /\ Spliced(X, A, B, Y, Underway(p), Joined(S, O))
    BY <2>3, <2>5, <2>6
  <2> HIDE DEF S, O, X, A, B, Y
  <2> QED
    BY <1>11, <2>2, <2>3, <2>4, <2>5, <2>7, <2>8, SideWrites DEF a
<1>14. CASE ~flush
  <2> DEFINE Y == Joined(Q, J)
             X == sent[p]
             B == out[p]
             S == Joined(Joined(sent[p], <<>>), P)
             O == Joined(Joined(out[p], Q), J)
  <2>2. Y \in Seq(WireMsgs) /\ Says(a, side[q], a2, P, Y, fext)
    <3>1. fext => \A x : Contains(a.asked, x) =>
               Contains(rest, x) \/ HasMsg(P, "PIECE", x) \/ HasMsg(J, "PIECE", x) \/ HasMsg(J, "REJECT", x)
      BY <1>9, <1>10
    <3>2. a.asked = <<>> => P = <<>> /\ rest = <<>>
      BY <1>9
    <3>3. a2 = [a EXCEPT !.pending = a.pending \cup ask, !.asked = rest]
      BY DEF a2
    <3>6. J \in Seq(WireMsgs) /\ \A i \in 1..Len(J) : J[i].type \in {"PIECE", "REJECT"}
      BY <1>10
    <3> HIDE DEF Q, a
    <3>4. Y = Joined(Msgs("REQUEST", ask), J)
      BY DEF Q
    <3> HIDE DEF Y
    <3>5. ask \in SUBSET MsgBlocks /\ ask \cap a.have = {} /\ (a.peerHave = {} => ask = {})
      BY <1>4
    <3> QED
      BY <1>1, <1>5, <3>1, <3>2, <3>3, <3>4, <3>5, <3>6, PulseSays
  <2>3. S \in Line /\ O \in Line /\ Spliced(X, P, B, Y, Joined(X, B), Joined(S, O))
    BY <1>1, <1>9, <1>10, <1>12, Batched DEF Line
  <2>4. /\ side' = [side EXCEPT ![p] = a2] /\ fext' = fext
        /\ sent' = [sent EXCEPT ![p] = S] /\ out' = [out EXCEPT ![p] = O]
    BY <1>3, <1>14
  <2>5. P \in Line /\ AllPieces(P)
    BY <1>9 DEF AllPieces, Line
  <2>6. Joined(X, B) = Underway(p)
    BY DEF Joined, Underway
  <2>7. Y \in Line /\ X \in Line /\ B \in Line
    BY <1>1, <2>2 DEF Line
  <2>8. Spliced(X, P, B, Y, Underway(p), Joined(S, O))
    BY <2>3, <2>6
  <2> HIDE DEF S, O, X, B, Y
  <2> QED
    BY <1>11, <2>2, <2>3, <2>4, <2>5, <2>7, <2>8, SideWrites DEF a
<1> QED
  BY <1>13, <1>14

-----------------------------------------------------------------------------
(* What a side does with the message it reads.                             *)

\* The first entry x goes, if there is one; the others stay.
LEMMA FirstRemoved ==
    ASSUME NEW D, NEW s \in Seq(D), NEW x
    PROVE  /\ RemoveFirst(s, x) \in Seq(D)
           /\ \A y : y # x /\ Contains(s, y) => Contains(RemoveFirst(s, x), y)
           /\ s = <<>> => RemoveFirst(s, x) = <<>>
<1> DEFINE n == Len(s)
           I == {i \in 1..n : s[i] = x}
           k == Min(I)
           t == RemoveAt(s, k)
<1>1. n \in Nat
  BY LenProperties
<1>2. CASE I = {}
  <2>1. ~\E i \in 1..Len(s) : s[i] = x
    BY <1>2
  <2>2. RemoveFirst(s, x) = s
    BY <2>1 DEF RemoveFirst
  <2> QED
    BY <2>2
<1>3. CASE I # {}
  <2>1. \E i \in 1..Len(s) : s[i] = x
    BY <1>3
  <2>2. SelectInSeq(s, LAMBDA v : v = x) = k
    BY <1>3 DEF SelectInSeq
  <2>3. RemoveFirst(s, x) = t
    BY <2>1, <2>2 DEF RemoveFirst
  <2>4. k \in 1..n /\ s[k] = x
    <3>1. I \in SUBSET Nat
      BY <1>1
    <3> DEFINE S == I
    <3>2. S # {} /\ S \in SUBSET Nat
      BY <1>3, <3>1
    <3> HIDE DEF S
    <3>3. \E i \in S : \A j \in S : i <= j
      BY <3>2, LeastNat
    <3>4. Min(S) \in S
      BY <3>3 DEF Min
    <3> QED
      BY <3>4 DEF S
  <2> HIDE DEF k
  <2>5. /\ t \in Seq(D) /\ Len(t) = n - 1
        /\ \A j \in 1..(n - 1) : t[j] = IF j < k THEN s[j] ELSE s[j + 1]
    BY <2>4, RemovedShape
  <2> HIDE DEF t
  <2>6. ASSUME NEW y, y # x, Contains(s, y) PROVE Contains(t, y)
    <3>1. PICK i \in 1..n : s[i] = y
      BY <2>6 DEF Contains
    <3>2. i # k
      BY <2>4, <2>6, <3>1
    <3>3. CASE i < k
      <4>1. i \in 1..(n - 1)
        BY <1>1, <2>4, <3>3
      <4>2. t[i] = y
        BY <2>5, <3>1, <3>3, <4>1
      <4> QED
        BY <2>5, <4>1, <4>2 DEF Contains
    <3>4. CASE ~(i < k)
      <4>1. i - 1 \in 1..(n - 1) /\ ~(i - 1 < k) /\ (i - 1) + 1 = i
        BY <1>1, <2>4, <3>2, <3>4
      <4>2. t[i - 1] = y
        BY <2>5, <3>1, <4>1
      <4> QED
        BY <2>5, <4>1, <4>2 DEF Contains
    <3> QED
      BY <3>3, <3>4
  <2>7. s # <<>>
    <3>1. s = <<>> => n = 0
      OBVIOUS
    <3> QED
      BY <2>4, <3>1
  <2> QED
    BY <2>3, <2>5, <2>6, <2>7
<1> QED
  BY <1>2, <1>3

\* A message that only tells something: no answer, nothing queued.
LEMMA LearnedHears ==
    ASSUME WireAssumption, NEW a \in PeerState, NEW b \in PeerState, NEW m \in WireMsgs,
           m.type \notin {"REQUEST", "CANCEL", "PIECE"}, Quiet(a), fext \in BOOLEAN
    PROVE  Learned(a, m) \in PeerState /\ Reacts(a, b, Learned(a, m), m, <<>>, fext)
<1> DEFINE a2 == Learned(a, m)
           t == m.type
           Y == <<>>
<1>1. /\ \/ t \in Simple /\ m.arg = Nothing
         \/ t \in OfBlock /\ \E x \in MsgBlocks : m.arg = {x}
         \/ t = "BITFIELD" /\ m.arg \in SUBSET MsgBlocks
      /\ m = Msg(t, m.arg)
  BY MessagesAre
<1>2. m.arg \in SUBSET MsgBlocks
  BY <1>1 DEF Nothing
<1>3. t \in {"CHOKE", "UNCHOKE", "INTERESTED", "NOT_INTERESTED", "HAVE", "BITFIELD", "HAVE_ALL", "HAVE_NONE", "REJECT"}
  BY <1>1 DEF Simple, OfBlock
<1>4. a2 = CASE t = "CHOKE"          -> GotChoke(a)
             [] t = "UNCHOKE"        -> [a EXCEPT !.clientIsChoked = FALSE]
             [] t = "INTERESTED"     -> [a EXCEPT !.peerIsInterested = TRUE]
             [] t = "NOT_INTERESTED" -> [a EXCEPT !.peerIsInterested = FALSE]
             [] t = "HAVE"           -> [a EXCEPT !.peerHave = @ \cup m.arg]
             [] t = "BITFIELD"       -> [a EXCEPT !.peerHave = m.arg]
             [] t = "HAVE_ALL"       -> [a EXCEPT !.peerHave = MsgBlocks]
             [] t = "HAVE_NONE"      -> [a EXCEPT !.peerHave = {}]
             [] t = "REJECT"         -> [a EXCEPT !.pending = @ \ m.arg]
  BY DEF Learned
<1> HIDE DEF a2, t
<1>5. /\ a2 \in PeerState /\ a2.have = a.have /\ a2.asked = a.asked
      /\ a2.peerIsChoked = a.peerIsChoked /\ a2.clientIsInterested = a.clientIsInterested
      /\ a2.pending \subseteq a.pending
      /\ t = "REJECT" => a2.pending = a.pending \ m.arg
      /\ a2.clientIsChoked = IF t \in {"CHOKE", "UNCHOKE"} THEN t = "CHOKE" ELSE a.clientIsChoked
      /\ a2.peerIsInterested = IF t \in {"INTERESTED", "NOT_INTERESTED"} THEN t = "INTERESTED"
                               ELSE a.peerIsInterested
      /\ t \in {"HAVE", "BITFIELD"} => m.arg \subseteq a2.peerHave
      /\ t = "HAVE_ALL" => a2.peerHave = MsgBlocks
      /\ a.peerHave \subseteq a2.peerHave \/ t \in Greetings
  <2>1. CASE t = "CHOKE"
    <3>1. a2 = GotChoke(a)
      BY <1>4, <2>1
    <3> QED
      BY <2>1, <3>1 DEF GotChoke, PeerState
  <2>2. CASE t = "UNCHOKE"
    <3>1. a2 = [a EXCEPT !.clientIsChoked = FALSE]
      BY <1>4, <2>2
    <3> QED
      BY <2>2, <3>1 DEF PeerState
  <2>3. CASE t = "INTERESTED"
    <3>1. a2 = [a EXCEPT !.peerIsInterested = TRUE]
      BY <1>4, <2>3
    <3> QED
      BY <2>3, <3>1 DEF PeerState
  <2>4. CASE t = "NOT_INTERESTED"
    <3>1. a2 = [a EXCEPT !.peerIsInterested = FALSE]
      BY <1>4, <2>4
    <3> QED
      BY <2>4, <3>1 DEF PeerState
  <2>5. CASE t = "HAVE"
    <3>1. a2 = [a EXCEPT !.peerHave = @ \cup m.arg]
      BY <1>4, <2>5
    <3> QED
      BY <1>2, <2>5, <3>1 DEF PeerState
  <2>6. CASE t = "BITFIELD"
    <3>1. a2 = [a EXCEPT !.peerHave = m.arg]
      BY <1>4, <2>6
    <3> QED
      BY <1>2, <2>6, <3>1 DEF PeerState, Greetings
  <2>7. CASE t = "HAVE_ALL"
    <3>1. a2 = [a EXCEPT !.peerHave = MsgBlocks]
      BY <1>4, <2>7
    <3> QED
      BY <2>7, <3>1 DEF PeerState, Greetings
  <2>8. CASE t = "HAVE_NONE"
    <3>1. a2 = [a EXCEPT !.peerHave = {}]
      BY <1>4, <2>8
    <3> QED
      BY <2>8, <3>1 DEF PeerState, Greetings
  <2>9. CASE t = "REJECT"
    <3>1. a2 = [a EXCEPT !.pending = @ \ m.arg]
      BY <1>4, <2>9
    <3> QED
      BY <2>9, <3>1 DEF PeerState
  <2> QED
    BY <1>3, <2>1, <2>2, <2>3, <2>4, <2>5, <2>6, <2>7, <2>8, <2>9
<1>6. \A u, x : m = Msg(u, {x}) => t = u /\ m.arg = {x}
  BY DEF Msg, t
<1>7. t \notin {"REQUEST", "CANCEL", "PIECE"}
  BY DEF t
<1>8. \A x \in a2.pending : m # Msg("PIECE", {x}) /\ m # Msg("REJECT", {x})
  <2> TAKE x \in a2.pending
  <2>1. m = Msg("PIECE", {x}) => t = "PIECE"
    BY <1>6
  <2>2. m = Msg("REJECT", {x}) => t = "REJECT" /\ m.arg = {x}
    BY <1>6
  <2> QED
    BY <1>5, <1>7, <2>1, <2>2
<1>9. Quiet(a2)
  BY <1>5 DEF Quiet
<1>10. \A x : m # Msg("REQUEST", {x})
  BY <1>6, <1>7
<1>11. \A x \in b.have : TellsOf(m, x) => x \in a2.peerHave
  <2>1. b.have \in SUBSET MsgBlocks
    BY DEF PeerState
  <2> QED
    BY <1>5, <2>1 DEF TellsOf, t
<1>12. \A x \in a.peerHave : x \in a2.peerHave \/ m.type \in Greetings
  BY <1>5 DEF t
<1>13. /\ GreetFree(Y) /\ \A u, x : ~HasMsg(Y, u, x)
       /\ \A on, off, now : Settled(Y, on, off, now) = now
  BY NoMessage
<1>14. /\ a2.clientIsChoked = IF m.type \in {"CHOKE", "UNCHOKE"} THEN m.type = "CHOKE" ELSE a.clientIsChoked
       /\ a2.peerIsInterested = IF m.type \in {"INTERESTED", "NOT_INTERESTED"} THEN m.type = "INTERESTED"
                                ELSE a.peerIsInterested
  BY <1>5 DEF t
<1> HIDE DEF Y
<1>15. Reacts(a, b, a2, m, Y, fext)
  BY <1>5, <1>8, <1>9, <1>10, <1>11, <1>12, <1>13, <1>14 DEF Reacts
<1> QED
  BY <1>5, <1>15 DEF Y, a2

\* A request: it is queued, or answered at once if the fast extension is on.
LEMMA RequestHears ==
    ASSUME WireAssumption, NEW a \in PeerState, NEW b \in PeerState, NEW m, NEW x \in MsgBlocks,
           m = Msg("REQUEST", {x}), Quiet(a), fext \in BOOLEAN, NEW a2 \in PeerState, NEW Y \in Seq(WireMsgs),
           \/ ~a.peerIsChoked /\ a2 = [a EXCEPT !.asked = Append(a.asked, x)] /\ Y = <<>>
           \/ a2 = a /\ Y = Rejects(<<x>>)
    PROVE  Reacts(a, b, a2, m, Y, fext)
<1>1. m.type = "REQUEST" /\ \A t, y : m = Msg(t, {y}) <=> t = "REQUEST" /\ y = x
  BY DEF Msg
<1>2. /\ \A i \in 1..Len(Y) : Y[i].type \in {"REJECT"}
      /\ a2 # a => Y = <<>>
      /\ fext => Contains(a2.asked, x) \/ HasMsg(Y, "REJECT", x)
      /\ \A y : Contains(a.asked, y) => Contains(a2.asked, y)
  <2>1. CASE a2 = a /\ Y = Rejects(<<x>>)
    <3> DEFINE s == <<x>>
    <3>1. s \in Seq(MsgBlocks) /\ Contains(s, x)
      <4>1. s \in Seq(MsgBlocks) /\ Len(s) = 1 /\ s[1] = x
        OBVIOUS
      <4>2. 1 \in 1..Len(s)
        BY <4>1
      <4> QED
        BY <4>1, <4>2 DEF Contains
    <3> HIDE DEF s
    <3>2. /\ \A i \in 1..Len(Rejects(s)) : Rejects(s)[i].type \in {"REJECT"}
          /\ fext => \A y : Contains(s, y) => HasMsg(Rejects(s), "REJECT", y)
      BY <3>1, RejectsAre
    <3> QED
      BY <2>1, <3>1, <3>2 DEF s
  <2>2. CASE a2 = [a EXCEPT !.asked = Append(a.asked, x)] /\ Y = <<>>
    <3> DEFINE s == a.asked
               u == a2.asked
               n == Len(s)
    <3>1. s \in Seq(MsgBlocks) /\ u = Append(s, x) /\ n \in Nat
      BY <2>2 DEF PeerState
    <3>2. Len(u) = n + 1 /\ u[n + 1] = x /\ \A i \in 1..n : u[i] = s[i]
      BY <3>1, AppendProperties
    <3> HIDE DEF s, u
    <3>3. n + 1 \in 1..Len(u) /\ \A i \in 1..n : i \in 1..Len(u)
      BY <3>1, <3>2
    <3>4. Contains(u, x)
      BY <3>2, <3>3 DEF Contains
    <3>5. \A y : Contains(s, y) => Contains(u, y)
      BY <3>2, <3>3 DEF Contains
    <3>6. Len(Y) = 0
      BY <2>2
    <3>7. \A i : i \notin 1..Len(Y)
      BY <3>6
    <3> QED
      BY <2>2, <3>4, <3>5, <3>7 DEF s, u
  <2> QED
    BY <2>1, <2>2
<1>3. /\ a2.have = a.have /\ a2.pending = a.pending /\ a2.peerHave = a.peerHave
      /\ a2.clientIsChoked = a.clientIsChoked /\ a2.peerIsInterested = a.peerIsInterested
      /\ a2.peerIsChoked = a.peerIsChoked /\ a2.clientIsInterested = a.clientIsInterested
      /\ a2.asked = a.asked \/ ~a2.peerIsChoked
  BY DEF PeerState
<1>4. Quiet(a2)
  BY <1>3 DEF Quiet
<1> DEFINE T == {"REJECT"}
<1>5. /\ \A t, y : t # "REJECT" => ~HasMsg(Y, t, y)
      /\ \A on, off, now : on # "REJECT" /\ off # "REJECT" => Settled(Y, on, off, now) = now
      /\ GreetFree(Y)
  <2>1. \A i \in 1..Len(Y) : Y[i].type \in T
    BY <1>2
  <2> HIDE DEF T
  <2>2. /\ \A t, y : t \notin T => ~HasMsg(Y, t, y)
        /\ \A on, off, now : on \notin T /\ off \notin T => Settled(Y, on, off, now) = now
        /\ T \cap Greetings = {} => GreetFree(Y)
    BY <2>1, OfTypes
  <2> QED
    BY <2>2 DEF T, Greetings
<1>6. \A y : ~TellsOf(m, y)
  BY <1>1 DEF TellsOf
<1>7. \A y : m # Msg("PIECE", {y}) /\ m # Msg("REJECT", {y}) /\ m # Msg("CANCEL", {y})
  <2> TAKE y
  <2>1. /\ m = Msg("PIECE", {y}) => "PIECE" = "REQUEST"
        /\ m = Msg("REJECT", {y}) => "REJECT" = "REQUEST"
        /\ m = Msg("CANCEL", {y}) => "CANCEL" = "REQUEST"
    BY ONLY <1>1
  <2> QED
    BY <2>1
<1>8. m.type \notin {"CHOKE", "UNCHOKE", "INTERESTED", "NOT_INTERESTED"}
  BY <1>1
<1>9. fext => \A y : m = Msg("REQUEST", {y}) => Contains(a2.asked, y) \/ HasMsg(Y, "REJECT", y)
  BY <1>1, <1>2
<1> HIDE DEF Quiet
<1>10. a.asked = <<>> => a2.asked = <<>> \/ \E y : m = Msg("REQUEST", {y})
  BY <1>1
<1>11. /\ \A v : /\ Settled(Y, "CHOKE", "UNCHOKE", v) = v
                 /\ Settled(Y, "INTERESTED", "NOT_INTERESTED", v) = v
  BY <1>5
<1>12. \A y : ~HasMsg(Y, "CANCEL", y) /\ ~HasMsg(Y, "REQUEST", y)
  BY <1>5
<1> QED
  BY ONLY <1>2, <1>3, <1>4, <1>5, <1>6, <1>7, <1>8, <1>9, <1>10, <1>11, <1>12 DEF Reacts

\* A request is taken back.
LEMMA CancelHears ==
    ASSUME WireAssumption, NEW a \in PeerState, NEW b \in PeerState, NEW m, NEW x \in MsgBlocks,
           m = Msg("CANCEL", {x}), Quiet(a), fext \in BOOLEAN, NEW a2,
           a2 = [a EXCEPT !.asked = RemoveFirst(a.asked, x)]
    PROVE  a2 \in PeerState /\ Reacts(a, b, a2, m, <<>>, fext)
<1> DEFINE s == a.asked
           u == RemoveFirst(s, x)
           Y == <<>>
<1>1. m.type = "CANCEL" /\ \A t, y : m = Msg(t, {y}) <=> t = "CANCEL" /\ y = x
  BY DEF Msg
<1>2. s \in Seq(MsgBlocks)
  BY DEF PeerState
<1>3. /\ u \in Seq(MsgBlocks)
      /\ \A y : y # x /\ Contains(s, y) => Contains(u, y)
      /\ s = <<>> => u = <<>>
  BY <1>2, FirstRemoved
<1>4. a2 = [a EXCEPT !.asked = u]
  OBVIOUS
<1> HIDE DEF u
<1>5. /\ a2 \in PeerState /\ a2.asked = u
      /\ a2.have = a.have /\ a2.pending = a.pending /\ a2.peerHave = a.peerHave
      /\ a2.clientIsChoked = a.clientIsChoked /\ a2.peerIsInterested = a.peerIsInterested
      /\ a2.peerIsChoked = a.peerIsChoked /\ a2.clientIsInterested = a.clientIsInterested
  BY <1>3, <1>4 DEF PeerState
<1>6. Quiet(a2)
  BY <1>3, <1>5 DEF Quiet
<1>7. /\ GreetFree(Y) /\ \A t, y : ~HasMsg(Y, t, y)
      /\ \A on, off, now : Settled(Y, on, off, now) = now
  BY NoMessage
<1>8. \A y : ~TellsOf(m, y)
  BY <1>1 DEF TellsOf
<1>9. \A y : m # Msg("PIECE", {y}) /\ m # Msg("REJECT", {y}) /\ m # Msg("REQUEST", {y})
  <2> TAKE y
  <2>1. /\ m = Msg("PIECE", {y}) => "PIECE" = "CANCEL"
        /\ m = Msg("REJECT", {y}) => "REJECT" = "CANCEL"
        /\ m = Msg("REQUEST", {y}) => "REQUEST" = "CANCEL"
    BY ONLY <1>1
  <2> QED
    BY <2>1
<1>10. m.type \notin {"CHOKE", "UNCHOKE", "INTERESTED", "NOT_INTERESTED"}
  BY <1>1
<1>11. \A y : m # Msg("CANCEL", {y}) /\ Contains(a.asked, y) => Contains(a2.asked, y)
  BY <1>1, <1>3, <1>5
<1> HIDE DEF Y, Quiet
<1>12. Reacts(a, b, a2, m, Y, fext)
  BY <1>3, <1>5, <1>6, <1>7, <1>8, <1>9, <1>10, <1>11 DEF Reacts
<1> QED
  BY <1>5, <1>12 DEF Y

\* A block: kept and told of if it was asked for.
Delivered(a, a2, Y, x) ==
    \/ a2 = [a EXCEPT !.pending = a.pending \ {x}, !.have = a.have \cup {x}] /\ Y = <<Msg("HAVE", {x})>>
    \/ x \notin a.pending /\ a2 = a /\ Y = <<>>
LEMMA PieceHears ==
    ASSUME WireAssumption, NEW a \in PeerState, NEW b \in PeerState, NEW m, NEW x \in MsgBlocks,
           m = Msg("PIECE", {x}), Quiet(a), fext \in BOOLEAN, NEW a2, NEW Y, Delivered(a, a2, Y, x)
    PROVE  a2 \in PeerState /\ Y \in Seq(WireMsgs) /\ Reacts(a, b, a2, m, Y, fext)
<1> USE DEF Delivered
<1> DEFINE h == Msg("HAVE", {x})
<1>1. m.type = "PIECE" /\ \A t, y : m = Msg(t, {y}) <=> t = "PIECE" /\ y = x
  BY DEF Msg
<1>2. h \in WireMsgs /\ h.type = "HAVE" /\ TellsOf(h, x) /\ \A t, y : h = Msg(t, {y}) => t = "HAVE"
  <2>1. h \in WireMsgs
    BY MessagesAre DEF OfBlock
  <2>2. h.type = "HAVE" /\ x \in h.arg /\ \A t, y : h = Msg(t, {y}) => t = "HAVE"
    BY DEF Msg
  <2> QED
    BY <2>1, <2>2 DEF TellsOf
<1>3. /\ a2 \in PeerState /\ a2.asked = a.asked /\ a2.peerHave = a.peerHave
      /\ a2.pending = a.pending \ {x}
      /\ a2.clientIsChoked = a.clientIsChoked /\ a2.peerIsInterested = a.peerIsInterested
      /\ a2.peerIsChoked = a.peerIsChoked /\ a2.clientIsInterested = a.clientIsInterested
      /\ a2.have = a.have \/ (a2.have = a.have \cup {x} /\ Y = <<h>>)
  <2>1. CASE a2 = [a EXCEPT !.pending = a.pending \ {x}, !.have = a.have \cup {x}] /\ Y = <<Msg("HAVE", {x})>>
    BY <2>1 DEF PeerState
  <2>2. CASE x \notin a.pending /\ a2 = a /\ Y = <<>>
    <3>1. a.pending \ {x} = a.pending
      BY <2>2
    <3> QED
      BY <2>2, <3>1
  <2> QED
    BY <2>1, <2>2
<1>4. Y = <<h>> \/ Y = <<>>
  OBVIOUS
<1> HIDE DEF h
<1>5. /\ Y \in Seq(WireMsgs) /\ GreetFree(Y)
      /\ \A t, y : t # "HAVE" => ~HasMsg(Y, t, y)
      /\ \A on, off, now : on # "HAVE" /\ off # "HAVE" => Settled(Y, on, off, now) = now
      /\ Y = <<h>> => Covers(Y, x)
  <2>1. CASE Y = <<>>
    <3>1. <<h>> # <<>>
      OBVIOUS
    <3> QED
      BY <2>1, <3>1, NoMessage
  <2>2. CASE Y = <<h>>
    <3> DEFINE u == <<h>>
    <3>1. /\ u \in Seq(WireMsgs)
          /\ \A t, y : HasMsg(u, t, y) <=> h = Msg(t, {y})
          /\ \A y : Covers(u, y) <=> TellsOf(h, y)
          /\ GreetFree(u) <=> h.type \notin Greetings
          /\ \A on, off, now : Settled(u, on, off, now) = IF h.type \in {on, off} THEN h.type = on ELSE now
      BY <1>2, OneMessage
    <3>2. Y = u
      BY <2>2
    <3> HIDE DEF u
    <3>3. ASSUME NEW t, NEW y, t # "HAVE" PROVE ~HasMsg(u, t, y)
      <4>1. HasMsg(u, t, y) <=> h = Msg(t, {y})
        BY ONLY <3>1
      <4>2. h = Msg(t, {y}) => t = "HAVE"
        BY ONLY <1>2
      <4> QED
        BY <3>3, <4>1, <4>2
    <3>4. \A on, off, now : on # "HAVE" /\ off # "HAVE" => Settled(u, on, off, now) = now
      BY <1>2, <3>1
    <3>5. GreetFree(u) /\ Covers(u, x)
      BY <1>2, <3>1 DEF Greetings
    <3> QED
      BY <3>1, <3>2, <3>3, <3>4, <3>5
  <2> QED
    BY <1>4, <2>1, <2>2
<1>6. Quiet(a2)
  BY <1>3 DEF Quiet
<1>7. \A y : ~TellsOf(m, y)
  BY <1>1 DEF TellsOf
<1>8. \A y \in a2.pending : m # Msg("PIECE", {y}) /\ m # Msg("REJECT", {y})
  BY <1>1, <1>3
<1>9. \A y : m # Msg("REQUEST", {y}) /\ m # Msg("CANCEL", {y})
  BY <1>1
<1>10. m.type \notin {"CHOKE", "UNCHOKE", "INTERESTED", "NOT_INTERESTED"}
  BY <1>1
<1>11. \A y \in a2.have : y \in a.have \/ Covers(Y, y)
  BY <1>3, <1>5
<1>12. /\ \A t, y : t # "HAVE" => ~HasMsg(Y, t, y)
       /\ \A v : /\ Settled(Y, "CHOKE", "UNCHOKE", v) = v
                 /\ Settled(Y, "INTERESTED", "NOT_INTERESTED", v) = v
  BY <1>5
<1>13. \A y : ~HasMsg(Y, "CANCEL", y) /\ ~HasMsg(Y, "REQUEST", y)
  BY <1>12
<1> HIDE DEF Quiet
<1>14. Reacts(a, b, a2, m, Y, fext)
  BY ONLY <1>3, <1>5, <1>6, <1>7, <1>8, <1>9, <1>10, <1>11, <1>12, <1>13 DEF Reacts
<1> QED
  BY <1>3, <1>5, <1>14

LEMMA ReceiveKeeps ==
    ASSUME WireAssumption, WireInv, NEW p \in Sides, Receive(p)
    PROVE  WireInv'
<1> DEFINE q == Other(p)
           a == side[p]
           b == side[q]
           m == Head(sent[q])
<1>1. /\ q \in Sides /\ side \in [Sides -> PeerState] /\ out \in [Sides -> Line]
      /\ a \in PeerState /\ b \in PeerState /\ out[p] \in Line /\ sent[q] \in Line /\ fext \in BOOLEAN
      /\ Good(a, b, sent[p] \o out[p], sent[q] \o out[q], fext)
  BY InvOf
<1>2. /\ sent[q] # <<>> /\ sent' = [sent EXCEPT ![q] = Tail(sent[q])] /\ fext' = fext
      /\ m.type = "REQUEST" => \E x \in m.arg : PeerMadeRequest(p, x)
      /\ m.type = "CANCEL" => \E x \in m.arg : PeerCancelled(p, x)
      /\ m.type = "PIECE" => \E x \in m.arg : GotBlock(p, x)
      /\ m.type \notin {"REQUEST", "CANCEL", "PIECE"} => Set(p, Learned(side[p], m))
  BY DEF Receive
<1>3. m \in WireMsgs
  BY <1>1, <1>2, HeadTailProperties DEF Line
<1>4. /\ m = Msg(m.type, m.arg)
      /\ m.type \in OfBlock => \E x \in MsgBlocks : m.arg = {x}
  BY <1>3, MessagesAre DEF Simple, OfBlock
<1>5. Quiet(a)
  BY <1>1 DEF Good
<1>6. out' = out => out' = [out EXCEPT ![p] = out[p] \o <<>>]
  <2>1. out[p] \o <<>> = out[p]
    BY <1>1, ConcatEmptySeq DEF Line
  <2> QED
    BY <1>1, <2>1
<1>7. <<>> \in Seq(WireMsgs)
  BY NoMessage
<1>8. ASSUME NEW a2 \in PeerState, NEW Y \in Seq(WireMsgs), side' = [side EXCEPT ![p] = a2],
             out' = [out EXCEPT ![p] = out[p] \o Y], Reacts(a, b, a2, m, Y, fext)
      PROVE  WireInv'
  <2>1. Y \in Line
    BY DEF Line
  <2> HIDE DEF m, q
  <2>2. /\ q = Other(p) /\ m = Head(sent[q]) /\ sent[q] # <<>>
        /\ sent' = [sent EXCEPT ![q] = Tail(sent[q])] /\ fext' = fext
    BY <1>2 DEF m, q
  <2> QED
    BY <1>8, <2>1, <2>2, SideReads
<1> HIDE DEF q, m
<1>9. CASE m.type = "REQUEST"
  <2>1. PICK x \in MsgBlocks : m = Msg("REQUEST", {x}) /\ PeerMadeRequest(p, x)
    BY <1>2, <1>4, <1>9 DEF OfBlock
  <2>2. CASE CanAccept(p, x)
    <3> DEFINE a2 == [a EXCEPT !.asked = Append(a.asked, x)]
               Y == <<>>
    <3>1. side' = [side EXCEPT ![p] = a2] /\ out' = out
      BY <2>1, <2>2 DEF PeerMadeRequest, Set
    <3>2. a2 \in PeerState
      <4>1. a.asked \in Seq(MsgBlocks)
        BY <1>1 DEF PeerState
      <4>2. Append(a.asked, x) \in Seq(MsgBlocks)
        BY <4>1, AppendProperties
      <4> QED
        BY <1>1, <4>2 DEF PeerState
    <3>3. ~a.peerIsChoked
      BY <2>2 DEF CanAccept
    <3>4. ~a.peerIsChoked /\ a2 = [a EXCEPT !.asked = Append(a.asked, x)] /\ Y = <<>>
      BY <3>3
    <3>5. Y \in Seq(WireMsgs) /\ out' = [out EXCEPT ![p] = out[p] \o Y]
      BY <1>6, <1>7, <3>1
    <3> HIDE DEF a2, Y, a, b
    <3>6. Reacts(a, b, a2, m, Y, fext)
      BY <1>1, <1>5, <2>1, <3>2, <3>4, <3>5, RequestHears
    <3> QED
      BY <1>8, <3>1, <3>2, <3>5, <3>6
  <2>3. CASE ~CanAccept(p, x)
    <3> DEFINE Y == Rejects(<<x>>)
    <3>1. side' = [side EXCEPT ![p] = a] /\ out' = [out EXCEPT ![p] = out[p] \o Y]
      BY <1>1, <2>1, <2>3 DEF PeerMadeRequest, Send
    <3>2. Y \in Seq(WireMsgs)
      <4> DEFINE s == <<x>>
      <4>1. s \in Seq(MsgBlocks)
        OBVIOUS
      <4> HIDE DEF s
      <4>2. Rejects(s) \in Seq(WireMsgs)
        BY <4>1, RejectsAre
      <4> QED
        BY <4>2 DEF s
    <3>3. Y = Rejects(<<x>>)
      OBVIOUS
    <3> HIDE DEF Y, a, b
    <3>4. Reacts(a, b, a, m, Y, fext)
      BY <1>1, <1>5, <2>1, <3>2, <3>3, RequestHears
    <3> QED
      BY <1>1, <1>8, <3>1, <3>2, <3>4
  <2> QED
    BY <2>2, <2>3
<1>10. CASE m.type = "CANCEL"
  <2>1. PICK x \in MsgBlocks : m = Msg("CANCEL", {x}) /\ PeerCancelled(p, x)
    BY <1>2, <1>4, <1>10 DEF OfBlock
  <2> DEFINE a2 == [a EXCEPT !.asked = RemoveFirst(a.asked, x)]
             Y == <<>>
  <2>2. side' = [side EXCEPT ![p] = a2] /\ out' = out
    BY <2>1 DEF PeerCancelled, Set
  <2>3. a2 = [a EXCEPT !.asked = RemoveFirst(a.asked, x)]
    OBVIOUS
  <2> HIDE DEF a2, a, b
  <2>4. a2 \in PeerState /\ Reacts(a, b, a2, m, <<>>, fext)
    BY <1>1, <1>5, <2>1, <2>3, CancelHears
  <2>5. Y \in Seq(WireMsgs) /\ out' = [out EXCEPT ![p] = out[p] \o Y] /\ Reacts(a, b, a2, m, Y, fext)
    BY <1>6, <1>7, <2>2, <2>4
  <2> HIDE DEF Y
  <2> QED
    BY <1>8, <2>2, <2>4, <2>5
<1>11. CASE m.type = "PIECE"
  <2>1. PICK x \in MsgBlocks : m = Msg("PIECE", {x}) /\ GotBlock(p, x)
    BY <1>2, <1>4, <1>11 DEF OfBlock
  <2>2. CASE x \in a.pending /\ x \notin a.have
    <3> DEFINE a2 == [a EXCEPT !.pending = a.pending \ {x}, !.have = a.have \cup {x}]
               Y == <<Msg("HAVE", {x})>>
    <3>1. side' = [side EXCEPT ![p] = a2] /\ out' = [out EXCEPT ![p] = out[p] \o Y]
      BY <1>1, <2>1, <2>2 DEF GotBlock, Send
    <3>2. Delivered(a, a2, Y, x)
      BY DEF Delivered
    <3> HIDE DEF a2, Y, a, b
    <3>3. a2 \in PeerState /\ Y \in Seq(WireMsgs) /\ Reacts(a, b, a2, m, Y, fext)
      BY <1>1, <1>5, <2>1, <3>2, PieceHears
    <3> QED
      BY <1>8, <3>1, <3>3
  <2>3. CASE ~(x \in a.pending /\ x \notin a.have)
    <3> DEFINE Y == <<>>
    <3>1. side' = side /\ out' = out
      BY <2>1, <2>3 DEF GotBlock
    <3>2. x \notin a.pending
      BY <1>5, <2>3 DEF Quiet
    <3>3. side' = [side EXCEPT ![p] = a] /\ out' = [out EXCEPT ![p] = out[p] \o Y] /\ Delivered(a, a, Y, x)
      BY <1>1, <1>6, <3>1, <3>2 DEF Delivered
    <3> HIDE DEF Y, a, b
    <3>4. Y \in Seq(WireMsgs) /\ Reacts(a, b, a, m, Y, fext)
      BY <1>1, <1>5, <2>1, <3>2, <3>3, PieceHears
    <3> QED
      BY <1>1, <1>8, <3>3, <3>4
  <2> QED
    BY <2>2, <2>3
<1>12. CASE m.type \notin {"REQUEST", "CANCEL", "PIECE"}
  <2> DEFINE a2 == Learned(a, m)
             Y == <<>>
  <2>1. side' = [side EXCEPT ![p] = a2] /\ out' = out
    BY <1>2, <1>12 DEF Set
  <2> HIDE DEF a, b
  <2>2. a2 \in PeerState /\ Reacts(a, b, a2, m, <<>>, fext)
    BY <1>1, <1>3, <1>5, <1>12, LearnedHears
  <2>3. Y \in Seq(WireMsgs) /\ out' = [out EXCEPT ![p] = out[p] \o Y] /\ Reacts(a, b, a2, m, Y, fext)
    BY <1>6, <1>7, <2>1, <2>2
  <2> HIDE DEF Y, a2
  <2> QED
    BY <1>8, <2>1, <2>2, <2>3
<1> QED
  BY <1>9, <1>10, <1>11, <1>12

-----------------------------------------------------------------------------
(* The conversation.                                                       *)

\* The first message tells what a side has.
LEMMA GreetingIs ==
    ASSUME NEW h \in SUBSET MsgBlocks, NEW f \in BOOLEAN, NEW g, g = Greeting(h, f)
    PROVE  /\ g \in Line /\ GreetRest(g)
           /\ \A x : ~HasMsg(g, "REQUEST", x)
           /\ \A now : /\ Settled(g, "CHOKE", "UNCHOKE", now) = now
                       /\ Settled(g, "INTERESTED", "NOT_INTERESTED", now) = now
           /\ \A x \in h : Covers(g, x)
<1>1. CASE g = <<>> /\ h = {}
  <2> DEFINE s == <<>>
  <2>1. /\ s \in Seq(WireMsgs) /\ \A t, x : ~HasMsg(s, t, x)
        /\ \A on, off, now : Settled(s, on, off, now) = now
    BY NoMessage
  <2>2. GreetRest(s)
    <3>1. Len(s) = 0
      OBVIOUS
    <3> HIDE DEF s
    <3>2. \A i : i \notin 1..Len(s)
      BY <3>1
    <3> QED
      BY <3>2 DEF GreetRest
  <2>3. g = s
    BY <1>1
  <2> HIDE DEF s
  <2> QED
    BY <1>1, <2>1, <2>2, <2>3 DEF Line
<1>2. ASSUME NEW m \in WireMsgs, g = <<m>>, m.type \in Greetings, \A x \in h : TellsOf(m, x)
      PROVE  /\ g \in Line /\ GreetRest(g)
             /\ \A x : ~HasMsg(g, "REQUEST", x)
             /\ \A now : /\ Settled(g, "CHOKE", "UNCHOKE", now) = now
                         /\ Settled(g, "INTERESTED", "NOT_INTERESTED", now) = now
             /\ \A x \in h : Covers(g, x)
  <2> DEFINE s == <<m>>
  <2>1. /\ s \in Seq(WireMsgs) /\ Len(s) = 1
        /\ \A t, x : HasMsg(s, t, x) <=> m = Msg(t, {x})
        /\ \A x : Covers(s, x) <=> TellsOf(m, x)
        /\ \A on, off, now : Settled(s, on, off, now) = IF m.type \in {on, off} THEN m.type = on ELSE now
    BY OneMessage
  <2>2. g = s
    BY <1>2
  <2> HIDE DEF s
  <2>3. GreetRest(s)
    <3>1. \A i \in 1..Len(s) : ~(i > 1)
      BY <2>1
    <3> QED
      BY <3>1 DEF GreetRest
  <2>4. ASSUME NEW x PROVE ~HasMsg(s, "REQUEST", x)
    <3>1. HasMsg(s, "REQUEST", x) <=> m = Msg("REQUEST", {x})
      BY ONLY <2>1
    <3>2. Msg("REQUEST", {x}).type = "REQUEST"
      BY DEF Msg
    <3> QED
      BY <1>2, <3>1, <3>2 DEF Greetings
  <2>5. m.type \notin {"CHOKE", "UNCHOKE", "INTERESTED", "NOT_INTERESTED"}
    BY <1>2 DEF Greetings
  <2>6. \A now : /\ Settled(s, "CHOKE", "UNCHOKE", now) = now
                 /\ Settled(s, "INTERESTED", "NOT_INTERESTED", now) = now
    BY <2>1, <2>5
  <2> QED
    BY <1>2, <2>1, <2>2, <2>3, <2>4, <2>6 DEF Line
<1>3. CASE g = <<Msg("HAVE_ALL", Nothing)>>
  <2> DEFINE m == Msg("HAVE_ALL", Nothing)
  <2>1. m \in WireMsgs
    BY MessagesAre DEF Simple
  <2>2. m.type = "HAVE_ALL"
    BY DEF Msg
  <2>3. g = <<m>>
    BY <1>3
  <2> HIDE DEF m
  <2> QED
    BY <1>2, <2>1, <2>2, <2>3 DEF Greetings, TellsOf
<1>4. CASE g = <<Msg("HAVE_NONE", Nothing)>> /\ h = {}
  <2> DEFINE m == Msg("HAVE_NONE", Nothing)
  <2>1. m \in WireMsgs
    BY MessagesAre DEF Simple
  <2>2. m.type = "HAVE_NONE"
    BY DEF Msg
  <2>3. g = <<m>>
    BY <1>4
  <2> HIDE DEF m
  <2> QED
    BY <1>2, <1>4, <2>1, <2>2, <2>3 DEF Greetings, TellsOf
<1>5. CASE g = <<Msg("BITFIELD", h)>>
  <2> DEFINE m == Msg("BITFIELD", h)
  <2>1. m \in WireMsgs
    BY MessagesAre
  <2>2. m.type = "BITFIELD" /\ m.arg = h
    BY DEF Msg
  <2>3. g = <<m>>
    BY <1>5
  <2> HIDE DEF m
  <2> QED
    BY <1>2, <2>1, <2>2, <2>3 DEF Greetings, TellsOf
<1> QED
  BY <1>1, <1>3, <1>4, <1>5 DEF Greeting

LEMMA WireInvInit ==
    ASSUME WireAssumption, WireInit
    PROVE  WireInv
<1> DEFINE h(p) == InitialHave(p)
           g(p) == Greeting(h(p), fext)
           none == <<>>
<1>1. none \in Seq(WireMsgs) /\ none \in Seq(MsgBlocks)
  OBVIOUS
<1>2. ASSUME NEW p \in Sides
      PROVE  /\ h(p) \in SUBSET MsgBlocks
             /\ g(p) \in Line /\ GreetRest(g(p))
             /\ \A x : ~HasMsg(g(p), "REQUEST", x)
             /\ \A now : /\ Settled(g(p), "CHOKE", "UNCHOKE", now) = now
                         /\ Settled(g(p), "INTERESTED", "NOT_INTERESTED", now) = now
             /\ \A x \in h(p) : Covers(g(p), x)
  <2>1. h(p) \in SUBSET MsgBlocks
    BY DEF InitialHave
  <2>2. fext \in BOOLEAN
    BY DEF WireInit
  <2> DEFINE hp == h(p)
             gp == g(p)
  <2>3. hp \in SUBSET MsgBlocks /\ gp = Greeting(hp, fext)
    BY <2>1
  <2> HIDE DEF hp, gp
  <2>4. /\ gp \in Line /\ GreetRest(gp)
        /\ \A x : ~HasMsg(gp, "REQUEST", x)
        /\ \A now : /\ Settled(gp, "CHOKE", "UNCHOKE", now) = now
                    /\ Settled(gp, "INTERESTED", "NOT_INTERESTED", now) = now
        /\ \A x \in hp : Covers(gp, x)
    BY <2>2, <2>3, GreetingIs
  <2> QED
    BY <2>1, <2>4 DEF hp, gp
<1>3. ASSUME NEW p \in Sides
      PROVE  /\ side[p] \in PeerState /\ side[p].have = h(p) /\ side[p].peerHave = {} /\ side[p].pending = {}
             /\ side[p].asked = <<>> /\ side[p].peerIsChoked = TRUE /\ side[p].clientIsChoked = TRUE
             /\ side[p].peerIsInterested = FALSE /\ side[p].clientIsInterested = FALSE
             /\ out[p] = g(p) /\ sent[p] = <<>> /\ sent[p] \o out[p] = g(p)
  <2>1. side[p] = [have |-> h(p), peerHave |-> {}, peerIsChoked |-> TRUE, clientIsChoked |-> TRUE,
                   peerIsInterested |-> FALSE, clientIsInterested |-> FALSE, asked |-> <<>>, pending |-> {}]
    BY DEF WireInit
  <2>2. h(p) \in SUBSET MsgBlocks /\ g(p) \in Line
    BY <1>2
  <2>3. out[p] = g(p) /\ sent[p] = <<>>
    BY DEF WireInit
  <2> HIDE DEF h, g
  <2>4. sent[p] \o out[p] = g(p)
    BY <2>2, <2>3, ConcatEmptySeq DEF Line
  <2>5. side[p] \in PeerState
    BY <1>1, <2>1, <2>2 DEF PeerState
  <2> QED
    BY <2>1, <2>3, <2>4, <2>5
<1>4. WireTypes
  <2>1. \A p \in Sides : side[p] \in PeerState /\ out[p] \in Line /\ sent[p] \in Line
    BY <1>1, <1>2, <1>3 DEF Line
  <2>2. /\ side = [p \in Sides |-> side[p]] /\ out = [p \in Sides |-> out[p]]
        /\ sent = [p \in Sides |-> sent[p]] /\ fext \in BOOLEAN
    BY DEF WireInit
  <2>3. side \in [Sides -> PeerState] /\ out \in [Sides -> Line] /\ sent \in [Sides -> Line]
    BY <2>1, <2>2
  <2> QED
    BY <2>2, <2>3 DEF WireTypes
<1>5. ASSUME NEW p \in Sides, NEW q \in Sides PROVE GoodFor(p, q)
  <2> DEFINE a == side[p]
             b == side[q]
             ma == g(p)
             mb == g(q)
             hp == h(p)
  <2>1. /\ a.have = hp /\ a.pending = {} /\ a.asked = <<>> /\ a.peerIsChoked = TRUE /\ a.clientIsInterested = FALSE
        /\ b.clientIsChoked = TRUE /\ b.peerIsInterested = FALSE /\ b.peerHave = {} /\ b.pending = {}
    BY <1>3
  <2>2. /\ GreetRest(ma) /\ \A x : ~HasMsg(mb, "REQUEST", x)
        /\ \A now : /\ Settled(ma, "CHOKE", "UNCHOKE", now) = now
                    /\ Settled(ma, "INTERESTED", "NOT_INTERESTED", now) = now
        /\ \A x \in hp : Covers(ma, x)
    BY <1>2
  <2>3. sent[p] \o out[p] = ma /\ sent[q] \o out[q] = mb
    BY <1>3
  <2> HIDE DEF a, b, ma, mb, hp
  <2>4. Good(a, b, ma, mb, fext)
    BY <2>1, <2>2 DEF Good, Kept, Views, Quiet, Shown, Greeted
  <2> QED
    BY <2>3, <2>4 DEF GoodFor, a, b
<1>6. ASSUME NEW p \in Sides PROVE GoodFor(p, Other(p))
  BY <1>5, TwoSides
<1> QED
  BY <1>4, <1>6 DEF WireInv

LEMMA WireStep ==
    ASSUME WireAssumption, WireInv, [WireNext]_wireVars
    PROVE  WireInv'
<1>1. CASE UNCHANGED wireVars
  BY <1>1 DEF wireVars, WireInv, WireTypes, GoodFor
<1>2. CASE WireNext
  <2>1. PICK p \in Sides :
          \/ \E c \in BOOLEAN : SetChoke(p, c)
          \/ SetInterested(p)
          \/ \E b \in MsgBlocks : CancelRequest(p, b)
          \/ \E b \in MsgBlocks : GotElsewhere(p, b)
          \/ \E b \in MsgBlocks : LosePiece(p, b)
          \/ Pulse(p)
          \/ Receive(p)
    BY <1>2 DEF WireNext
  <2> QED
    BY <2>1, SetChokeKeeps, SetInterestedKeeps, CancelRequestKeeps, GotElsewhereKeeps, LosePieceKeeps,
       PulseKeeps, ReceiveKeeps
<1> QED
  BY <1>1, <1>2

\* What the invariant says of the conversation.
LEMMA WireInvSound ==
    ASSUME WireAssumption, WireInv
    PROVE  WireTypeOK /\ RequestsAccounted /\ ViewsAgree
<1>1. WireTypeOK
  <2>1. \A s \in Line : s \in Seq(Message)
    <3> TAKE s \in Line
    <3>1. Len(s) \in Nat /\ s = [i \in 1..Len(s) |-> s[i]] /\ \A i \in 1..Len(s) : s[i] \in WireMsgs
      BY LenProperties DEF Line
    <3>2. \A i \in 1..Len(s) : s[i] \in Message
      BY <3>1, MessagesAre
    <3>3. s \in [1..Len(s) -> Message]
      BY <3>1, <3>2
    <3> QED
      BY <3>1, <3>3
  <2> QED
    BY <2>1 DEF WireInv, WireTypes, WireTypeOK
<1>2. ASSUME NEW p \in Sides
      PROVE  /\ fext => \A b \in side[p].pending : Accounted(p, b)
             /\ LET q == Other(p) ms == Underway(p) IN
                  /\ Settled(ms, "CHOKE", "UNCHOKE", side[q].clientIsChoked) = side[p].peerIsChoked
                  /\ Settled(ms, "INTERESTED", "NOT_INTERESTED", side[q].peerIsInterested)
                       = side[p].clientIsInterested
                  /\ side[p].peerIsChoked => side[p].asked = <<>>
                  /\ \A b \in side[p].have :
                       \/ b \in side[q].peerHave
                       \/ \E i \in DOMAIN ms : \/ ms[i].type \in {"HAVE", "BITFIELD"} /\ b \in ms[i].arg
                                               \/ ms[i].type = "HAVE_ALL"
  <2> DEFINE q == Other(p)
             ms == Underway(p)
             mq == Underway(q)
             a == side[p]
             b == side[q]
  <2>1. Good(a, b, ms, mq, fext) /\ ms \in Line
    BY InvOf DEF Underway
  <2>2. DOMAIN ms = 1..Len(ms)
    BY <2>1, LenProperties DEF Line
  <2>3. \A s, t, x : HasMsg(s, t, x) <=> Contains(s, Msg(t, {x}))
    BY DEF HasMsg, Contains
  <2> HIDE DEF ms, mq, a, b
  <2>4. ASSUME fext, NEW x \in a.pending
        PROVE  \/ Contains(ms, Msg("REQUEST", {x}))
               \/ Contains(b.asked, x)
               \/ Contains(mq, Msg("PIECE", {x})) \/ Contains(mq, Msg("REJECT", {x}))
    <3>1. \/ Stands(ms, x)
          \/ Contains(b.asked, x) \/ HasMsg(mq, "PIECE", x) \/ HasMsg(mq, "REJECT", x)
      BY <2>1, <2>4 DEF Good, Kept
    <3>2. Stands(ms, x) => Contains(ms, Msg("REQUEST", {x}))
      BY DEF Stands, Contains
    <3> QED
      BY <2>3, <3>1, <3>2
  <2>5. fext => \A x \in a.pending : Accounted(p, x)
    BY <2>4 DEF Accounted, OnTheWay, ms, mq, a, b
  <2>6. /\ Settled(ms, "CHOKE", "UNCHOKE", b.clientIsChoked) = a.peerIsChoked
        /\ Settled(ms, "INTERESTED", "NOT_INTERESTED", b.peerIsInterested) = a.clientIsInterested
        /\ a.peerIsChoked => a.asked = <<>>
    BY <2>1 DEF Good, Views, Quiet
  <2>7. ASSUME NEW x \in a.have
        PROVE  \/ x \in b.peerHave
               \/ \E i \in DOMAIN ms : \/ ms[i].type \in {"HAVE", "BITFIELD"} /\ x \in ms[i].arg
                                       \/ ms[i].type = "HAVE_ALL"
    BY <2>1, <2>2 DEF Good, Shown, Covers, TellsOf
  <2> QED
    BY <2>5, <2>6, <2>7 DEF a, b, ms
<1>3. RequestsAccounted
  BY <1>2 DEF RequestsAccounted
<1>4. ViewsAgree
  BY <1>2 DEF ViewsAgree
<1> QED
  BY <1>1, <1>3, <1>4

\* With the fast extension no request gets lost, whatever chokes, cancels and
\* overtaking blocks come between; and what each side believes of the other is
\* what the other decided, once the messages on their way are read
\* (cancelAllRequestsToClient, peerMadeRequest, fillOutputBuffer).
THEOREM ConversationKept == WireSpec => [](WireTypeOK /\ RequestsAccounted /\ ViewsAgree)
<1>1. WireInit => WireInv
  BY WireAssumption, WireInvInit
<1>2. WireInv /\ [WireNext]_wireVars => WireInv'
  BY WireAssumption, WireStep
<1>3. WireInv => WireTypeOK /\ RequestsAccounted /\ ViewsAgree
  BY WireAssumption, WireInvSound
<1> QED
  BY <1>1, <1>2, <1>3, PTL DEF WireSpec

-----------------------------------------------------------------------------
(***************************************************************************)
(* What the specification that TLC checks says of each kind of connection.  *)
(***************************************************************************)
LimitsInv == part = "io" => IoInv
MetadataInv == part = "extensions" => ExtInv
MessagesInv == part = "messages" => WireInv
EndsInv == part = "handshake" => HsInv
allWireVars == <<part, hsVars, wireVars, extVars, ioVars>>

\* A step of a behaviour that exercises one part is a step of that part.
LEMMA StepOfPart ==
    ASSUME [WireNextAll]_allWireVars
    PROVE  /\ part' = part
           /\ part = "io" => [IoNext]_ioVars
           /\ part = "extensions" => [ExtNext]_extVars
           /\ part = "messages" => [WireNext]_wireVars
           /\ part = "handshake" => [HsNext]_hsVars
BY DEF WireNextAll, allWireVars

\* No limited bandwidth gives more than its allotment, and a connection accounts
\* for its bytes and its references.
THEOREM AllotmentsAreKept == WireSpecAll => []AllotmentsKept
<1>1. WireInitAll => LimitsInv
  BY IoInitInv DEF WireInitAll, LimitsInv
<1>2. LimitsInv /\ [WireNextAll]_allWireVars => LimitsInv'
  BY StepOfPart, IoStep DEF LimitsInv
<1>3. LimitsInv => AllotmentsKept
  BY IoInvSound DEF LimitsInv, AllotmentsKept
<1> QED
  BY <1>1, <1>2, <1>3, PTL DEF WireSpecAll, allWireVars

\* Every piece of the metadata is needed or held, and every peer knows the peers
\* we think we told it of.
THEOREM ExtensionsAreSound == WireSpecAll => []ExtensionsSound
<1>1. WireInitAll => MetadataInv
  BY ExtInitInv DEF WireInitAll, MetadataInv
<1>2. MetadataInv /\ [WireNextAll]_allWireVars => MetadataInv'
  BY StepOfPart, ExtStep DEF MetadataInv
<1>3. MetadataInv => ExtensionsSound
  BY ExtInvSound DEF MetadataInv, ExtensionsSound
<1> QED
  BY <1>1, <1>2, <1>3, PTL DEF WireSpecAll, allWireVars

\* No request gets lost, and each side's view of the other becomes what the other
\* decided.
THEOREM ConversationIsSound == WireSpecAll => []ConversationSound
<1>1. WireInitAll => MessagesInv
  BY WireAssumption, WireInvInit DEF WireInitAll, MessagesInv
<1>2. MessagesInv /\ [WireNextAll]_allWireVars => MessagesInv'
  BY WireAssumption, StepOfPart, WireStep DEF MessagesInv
<1>3. MessagesInv => ConversationSound
  BY WireAssumption, WireInvSound DEF MessagesInv, ConversationSound
<1> QED
  BY <1>1, <1>2, <1>3, PTL DEF WireSpecAll, allWireVars

\* A handshake ends in agreement and fails only for a reason, between two ends that
\* run this code: with another client that offers plaintext inside the encrypted
\* handshake the code does not keep to it (readIA takes the initial payload for
\* plaintext then, and it is encrypted).
THEOREM HandshakeIsSound ==
    ASSUME ForeignClients \subseteq {FALSE}
    PROVE  WireSpecAll => []HandshakeSound
<1>1. WireInitAll => EndsInv
  BY HsStart DEF WireInitAll, EndsInv
<1>2. EndsInv /\ [WireNextAll]_allWireVars => EndsInv'
  <2> SUFFICES ASSUME EndsInv, [WireNextAll]_allWireVars, part' = "handshake"
               PROVE  HsInv'
    BY DEF EndsInv
  <2>1. HsInv /\ [HsNext]_hsVars
    BY StepOfPart DEF EndsInv
  <2> QED
    BY <2>1, HsStep, HsStutter
<1>3. EndsInv => HandshakeSound
  BY HsAgreed DEF EndsInv, HandshakeSound
<1> QED
  BY <1>1, <1>2, <1>3, PTL DEF WireSpecAll, allWireVars
=============================================================================
