---------------------------- MODULE Pieces_proofs ----------------------------
(***************************************************************************)
(* The proofs about the pieces of a torrent: its files, pieces and blocks    *)
(* name the same bytes, and what is wanted and what is there is counted byte *)
(* for byte.  First the facts about numbers and loops that the proofs of the *)
(* rest of the session (Session_proofs) use as well.                         *)
(***************************************************************************)
EXTENDS Pieces, SequencesExt, FiniteSetTheorems, SequenceTheorems, WellFoundedInduction, TLAPS

-----------------------------------------------------------------------------
(* Numbers *)
\* A set of naturals has a least element.
LEMMA LeastNat ==
    ASSUME NEW T \in SUBSET Nat, T # {}
    PROVE  \E x \in T : \A y \in T : x <= y
<1> DEFINE R == OpToRel(<, Nat)
<1>1. IsWellFoundedOn(R, Nat)
  BY NatLessThanWellFounded
<1>2. \A x, y \in Nat : y < x => <<y, x>> \in R
  BY DEF OpToRel
<1> HIDE DEF R
<1>3. PICK x \in T : \A y \in T : ~(<<y, x>> \in R)
  BY <1>1, WFMin
<1>4. \A y \in T : ~(y < x)
  BY <1>2, <1>3
<1>5. \A y \in T : x <= y
  BY <1>4, <1>3, SMT
<1> QED
  BY <1>5

-----------------------------------------------------------------------------
(* Loops *)
LEMMA StepsReach ==
    ASSUME NEW n \in Nat, NEW X, NEW f, f[0] \in X[0],
           \A k \in 1..n : f[k - 1] \in X[k - 1] => f[k] \in X[k]
    PROVE  \A k \in 0..n : f[k] \in X[k]
<1> DEFINE T == {k \in 0..n : f[k] \notin X[k]}
<1> SUFFICES ASSUME T # {} PROVE FALSE
  OBVIOUS
<1>1. T \in SUBSET Nat
  OBVIOUS
<1> HIDE DEF T
<1>2. PICK m \in T : \A j \in T : m <= j
  BY <1>1, LeastNat
<1>3. m \in 0..n /\ f[m] \notin X[m]
  BY <1>2 DEF T
<1>4. m \in 1..n
  BY <1>3
<1>5. m - 1 \in 0..n /\ ~(m <= m - 1)
  BY <1>4
<1>6. f[m - 1] \in X[m - 1]
  BY <1>2, <1>5 DEF T
<1> QED
  BY <1>3, <1>4, <1>6

IsLoop(f, n, x0, F) == f = [k \in 0..n |-> IF k = 0 THEN x0 ELSE F[k][f[k - 1]]]

LEMMA StepsExist ==
    ASSUME NEW n \in Nat, NEW X, NEW F, NEW x0, x0 \in X[0],
           \A k \in 1..n : \A x \in X[k - 1] : F[k][x] \in X[k]
    PROVE  \E f : IsLoop(f, n, x0, F) /\ \A k \in 0..n : f[k] \in X[k]
<1> DEFINE Loop(f, m) == /\ f = [k \in 0..m |-> IF k = 0 THEN x0 ELSE F[k][f[k - 1]]]
                         /\ \A k \in 0..m : f[k] \in X[k]
           T == {m \in 0..n : ~\E f : Loop(f, m)}
<1> SUFFICES ASSUME T # {} PROVE FALSE
  <2>1. T = {}
    OBVIOUS
  <2>2. n \in 0..n
    OBVIOUS
  <2>3. \E f : Loop(f, n)
    BY <2>1, <2>2
  <2> QED
    BY <2>3 DEF IsLoop
<1>1. T \in SUBSET Nat
  OBVIOUS
<1> HIDE DEF T
<1>2. PICK m \in T : \A j \in T : m <= j
  BY <1>1, LeastNat
<1>3. m \in 0..n /\ ~\E f : Loop(f, m)
  BY <1>2 DEF T
<1>4. CASE m = 0
  <2> DEFINE g == [k \in 0..0 |-> x0]
  <2>1. g[0] = x0
    OBVIOUS
  <2>2. g = [k \in 0..0 |-> IF k = 0 THEN x0 ELSE F[k][g[k - 1]]]
    <3>1. \A k \in 0..0 : x0 = IF k = 0 THEN x0 ELSE F[k][g[k - 1]]
      OBVIOUS
    <3> QED
      BY <3>1
  <2> HIDE DEF g
  <2>3. \A k \in 0..0 : g[k] \in X[k]
    BY <2>1
  <2> QED
    BY <1>3, <1>4, <2>2, <2>3
<1>5. CASE m # 0
  <2>1. m \in 1..n /\ m - 1 \in 0..n /\ ~(m <= m - 1)
    BY <1>3, <1>5
  <2>2. m - 1 \notin T
    BY <1>2, <2>1
  <2>3. PICK f : Loop(f, m - 1)
    BY <2>1, <2>2 DEF T
  <2>4. /\ \A k \in 0..(m - 1) : f[k] = IF k = 0 THEN x0 ELSE F[k][f[k - 1]]
        /\ \A k \in 0..(m - 1) : f[k] \in X[k]
    <3>1. f = [k \in 0..(m - 1) |-> IF k = 0 THEN x0 ELSE F[k][f[k - 1]]]
      BY <2>3
    <3> QED
      BY <2>3, <3>1
  <2> DEFINE g == [k \in 0..m |-> IF k = m THEN F[m][f[m - 1]] ELSE f[k]]
             h == [k \in 0..m |-> IF k = 0 THEN x0 ELSE F[k][g[k - 1]]]
  <2>5. \A k \in 0..m : g[k] = IF k = m THEN F[m][f[m - 1]] ELSE f[k]
    OBVIOUS
  <2>6. ASSUME NEW k \in 0..m PROVE g[k] = IF k = 0 THEN x0 ELSE F[k][g[k - 1]]
    <3> HIDE DEF g
    <3>1. CASE k = 0
      BY <2>1, <2>4, <2>5, <3>1
    <3>2. CASE k # 0 /\ k # m
      <4>1. k \in 0..(m - 1) /\ k - 1 \in 0..m /\ k - 1 # m
        BY <2>1, <3>2
      <4>2. g[k] = f[k] /\ g[k - 1] = f[k - 1]
        BY <2>5, <3>2, <4>1
      <4> QED
        BY <2>4, <3>2, <4>1, <4>2
    <3>3. CASE k = m
      <4>1. k - 1 \in 0..m /\ k - 1 # m /\ k # 0
        BY <2>1, <3>3
      <4>2. g[k - 1] = f[m - 1] /\ g[k] = F[m][f[m - 1]]
        BY <2>5, <3>3, <4>1
      <4> QED
        BY <3>3, <4>1, <4>2
    <3> QED
      BY <3>1, <3>2, <3>3
  <2>7. g = h
    <3>1. \A k \in 0..m : (IF k = m THEN F[m][f[m - 1]] ELSE f[k]) = IF k = 0 THEN x0 ELSE F[k][g[k - 1]]
      BY <2>5, <2>6
    <3> QED
      BY <3>1
  <2>8. ASSUME NEW k \in 0..m PROVE g[k] \in X[k]
    <3> HIDE DEF g
    <3>1. CASE k = m
      <4>1. m - 1 \in 0..(m - 1)
        BY <2>1
      <4>2. f[m - 1] \in X[m - 1]
        BY <2>4, <4>1
      <4> QED
        BY <2>1, <2>5, <3>1, <4>2
    <3>2. CASE k # m
      <4>1. k \in 0..(m - 1)
        BY <2>1, <3>2
      <4> QED
        BY <2>4, <2>5, <3>2, <4>1
    <3> QED
      BY <3>1, <3>2
  <2> HIDE DEF g
  <2>9. Loop(g, m)
    BY <2>7, <2>8
  <2> QED
    BY <1>3, <2>9
<1> QED
  BY <1>4, <1>5


\* What is true of 0, and of k when of k - 1, is true up to n.
LEMMA Climb ==
    ASSUME NEW n \in Nat, NEW T, 0 \in T, \A k \in 1..n : k - 1 \in T => k \in T
    PROVE  \A k \in 0..n : k \in T
<1> DEFINE B == {k \in 0..n : k \notin T}
<1> SUFFICES ASSUME B # {} PROVE FALSE
  OBVIOUS
<1>1. B \in SUBSET Nat
  OBVIOUS
<1> HIDE DEF B
<1>2. PICK m \in B : \A j \in B : m <= j
  BY <1>1, LeastNat
<1>3. m \in 0..n /\ m \notin T
  BY <1>2 DEF B
<1>4. m \in 1..n
  BY <1>3
<1>5. m - 1 \in 0..n /\ ~(m <= m - 1)
  BY <1>4
<1>6. m - 1 \in T
  BY <1>2, <1>5 DEF B
<1> QED
  BY <1>3, <1>4, <1>6

\* A set of numbers up to n has a greatest.
LEMMA GreatestUpTo ==
    ASSUME NEW n \in Nat, NEW T \in SUBSET (0..n), T # {}
    PROVE  Max(T) \in T /\ \A j \in T : j <= Max(T)
<1> DEFINE U == {k \in Nat : \A j \in T : j <= k}
<1>1. n \in U
  OBVIOUS
<1>2. U \in SUBSET Nat
  OBVIOUS
<1> HIDE DEF U
<1>3. PICK m \in U : \A k \in U : m <= k
  BY <1>1, <1>2, LeastNat
<1>4. m \in Nat /\ \A j \in T : j <= m
  BY <1>3 DEF U
<1>5. m \in T
  <2> SUFFICES ASSUME m \notin T PROVE FALSE
    OBVIOUS
  <2>1. PICK t : t \in T
    OBVIOUS
  <2>2. m # 0
    BY <1>4, <2>1
  <2>3. m - 1 \in Nat /\ \A j \in T : j <= m - 1
    BY <1>4, <2>2
  <2>4. m - 1 \in U
    BY <2>3 DEF U
  <2> QED
    BY <1>3, <1>4, <2>4
<1>6. \E x \in T : \A y \in T : x >= y
  BY <1>4, <1>5
<1>7. Max(T) \in T /\ \A y \in T : Max(T) >= y
  <2> DEFINE x == CHOOSE x \in T : \A y \in T : x >= y
  <2>1. x \in T /\ \A y \in T : x >= y
    BY <1>6
  <2>2. Max(T) = x
    BY DEF Max
  <2> HIDE DEF x
  <2> QED
    BY <2>1, <2>2
<1> QED
  BY <1>4, <1>7

\* Without one of its entries, a sequence has the others.
LEMMA RemovedShape ==
    ASSUME NEW D, NEW s \in Seq(D), NEW i \in 1..Len(s)
    PROVE  /\ RemoveAt(s, i) \in Seq(D) /\ Len(RemoveAt(s, i)) = Len(s) - 1
           /\ \A j \in 1..(Len(s) - 1) : RemoveAt(s, i)[j] = IF j < i THEN s[j] ELSE s[j + 1]
<1>1. Len(s) \in Nat /\ \A j \in 1..Len(s) : s[j] \in D
  BY LenProperties
<1> DEFINE a == SubSeq(s, 1, i - 1)
           b == SubSeq(s, i + 1, Len(s))
<1>2. /\ a \in Seq(D) /\ Len(a) = i - 1
      /\ \A j \in 1..(i - 1) : a[j] = s[j]
  BY <1>1, SubSeqProperties
<1>3. /\ b \in Seq(D) /\ Len(b) = Len(s) - i
      /\ \A j \in 1..(Len(s) - i) : b[j] = s[i + j]
  <2> DEFINE m == i + 1
             n == Len(s)
  <2>1. m \in Int /\ n \in Int /\ \A j \in m..n : s[j] \in D
    BY <1>1
  <2>2. n - m + 1 = Len(s) - i /\ (IF m <= n THEN n - m + 1 ELSE 0) = Len(s) - i
    BY <1>1
  <2>3. \A j \in Int : m + j - 1 = i + j
    BY <1>1
  <2>5. b = SubSeq(s, m, n)
    OBVIOUS
  <2> HIDE DEF m, n
  <2>4. /\ SubSeq(s, m, n) \in Seq(D)
        /\ Len(SubSeq(s, m, n)) = IF m <= n THEN n - m + 1 ELSE 0
        /\ \A j \in 1..(n - m + 1) : SubSeq(s, m, n)[j] = s[m + j - 1]
    BY <2>1, SubSeqProperties
  <2> HIDE DEF b
  <2>6. b \in Seq(D) /\ Len(b) = Len(s) - i
    BY <2>2, <2>4, <2>5
  <2>7. \A j \in 1..(Len(s) - i) : b[j] = s[m + j - 1]
    BY <2>2, <2>4, <2>5
  <2>8. \A j \in 1..(Len(s) - i) : j \in Int
    OBVIOUS
  <2> QED
    BY <2>3, <2>6, <2>7, <2>8
<1>4. RemoveAt(s, i) = a \o b
  BY DEF RemoveAt
<1> HIDE DEF a, b
<1>5. /\ a \o b \in Seq(D) /\ Len(a \o b) = Len(a) + Len(b)
      /\ \A j \in 1..(Len(a) + Len(b)) : (a \o b)[j] = IF j <= Len(a) THEN a[j] ELSE b[j - Len(a)]
  BY <1>2, <1>3, ConcatProperties
<1>6. ASSUME NEW j \in 1..(Len(s) - 1) PROVE (a \o b)[j] = IF j < i THEN s[j] ELSE s[j + 1]
  <2>1. j \in Int /\ i \in Int /\ Len(s) \in Nat /\ 1 <= j /\ j <= Len(s) - 1
    BY <1>1
  <2>2. CASE j < i
    <3>2. j \in 1..(Len(a) + Len(b)) /\ j <= Len(a) /\ j \in 1..(i - 1)
      BY <1>2, <1>3, <2>1, <2>2
    <3>1. (a \o b)[j] = a[j] /\ a[j] = s[j]
      BY <1>2, <1>5, <3>2
    <3> QED
      BY <2>2, <3>1
  <2>3. CASE ~(j < i)
    <3>1. j - (i - 1) \in 1..(Len(s) - i) /\ i + (j - (i - 1)) = j + 1
      BY <2>1, <2>3
    <3>2. b[j - (i - 1)] = s[j + 1]
      BY <1>3, <3>1
    <3>3. (a \o b)[j] = b[j - (i - 1)]
      BY <1>2, <1>3, <1>5, <2>1, <2>3
    <3> QED
      BY <2>3, <3>2, <3>3
  <2> QED
    BY <2>2, <2>3
<1> QED
  BY <1>1, <1>2, <1>3, <1>4, <1>5, <1>6

-----------------------------------------------------------------------------
(***************************************************************************)
(* What is wanted of a torrent and what is there, for any files, pieces and  *)
(* blocks, whatever is chosen, had, lost and checked in whatever order.      *)
(* A byte o is in piece o \div info.piece and in block o \div BlockSize; the *)
(* counters are shown to count bytes.                                        *)
(***************************************************************************)
(* Division *)
LEMMA DivIs ==
    ASSUME NEW o \in Nat, NEW z \in Nat \ {0}
    PROVE  /\ o \div z \in Nat /\ z * (o \div z) <= o /\ o < z * (o \div z) + z
           /\ o % z = o - z * (o \div z) /\ o % z \in 0..(z - 1)
<1>1. \A a \in Nat, b \in Nat \ {0} : a \div b \in Int /\ b * (a \div b) <= a /\ a < b * ((a \div b) + 1)
  BY SMT
<1> DEFINE q == o \div z
<1>2. q \in Int /\ z * q <= o /\ o < z * (q + 1)
  BY <1>1
<1>3. o % z = o - z * q
  <2>1. \A a \in Nat, b \in Nat \ {0} : a % b = a - b * (a \div b)
    BY SMT
  <2> QED
    BY <2>1
<1> HIDE DEF q
<1>4. z * (q + 1) = z * q + z /\ z * q \in Int
  BY <1>2, SMT
<1>5. q >= 0
  <2> SUFFICES ASSUME q + 1 <= 0 PROVE FALSE
    BY <1>2
  <2>1. z * (q + 1) <= 0
    BY <1>2, SMT
  <2> QED
    BY <1>2, <1>4, <2>1
<1> QED
  BY <1>2, <1>3, <1>4, <1>5 DEF q

LEMMA TimesMono ==
    ASSUME NEW a \in Int, NEW b \in Int, NEW z \in Nat \ {0}
    PROVE  /\ z * a \in Int /\ z * (a + 1) = z * a + z /\ z * (a - 1) = z * a - z
           /\ a <= b <=> z * a <= z * b
           /\ a < b <=> z * a + z <= z * b
<1>1. z * a \in Int /\ z * (a + 1) = z * a + z /\ z * (a - 1) = z * a - z /\ z * b \in Int
  BY SMT
<1>2. a <= b => z * a <= z * b
  BY SMT
<1>3. a < b => z * a + z <= z * b
  <2>1. ASSUME a + 1 <= b PROVE z * (a + 1) <= z * b
    BY <2>1, SMT
  <2> QED
    BY <1>1, <2>1
<1>4. b < a => z * b + z <= z * a
  <2>1. ASSUME b + 1 <= a PROVE z * (b + 1) <= z * a
    BY <2>1, SMT
  <2>2. z * (b + 1) = z * b + z
    BY SMT
  <2> QED
    BY <1>1, <2>1, <2>2
<1>5. b <= a => z * b <= z * a
  BY SMT
<1> QED
  BY <1>1, <1>2, <1>3, <1>4, <1>5

\* A quotient is known by the bounds of its multiple.
LEMMA DivUnique ==
    ASSUME NEW o \in Nat, NEW z \in Nat \ {0}, NEW q \in Int
    PROVE  o \div z = q <=> z * q <= o /\ o < z * q + z
<1> DEFINE r == o \div z
<1>1. r \in Nat /\ z * r <= o /\ o < z * r + z
  BY DivIs
<1> HIDE DEF r
<1>2. ASSUME z * q <= o, o < z * q + z PROVE r = q
  <2>1. r < q => z * r + z <= z * q
    BY <1>1, TimesMono
  <2>2. q < r => z * q + z <= z * r
    BY <1>1, TimesMono
  <2>3. z * q \in Int /\ z * r \in Int
    BY <1>1, TimesMono
  <2> QED
    BY <1>1, <1>2, <2>1, <2>2, <2>3
<1> QED
  BY <1>1, <1>2 DEF r

LEMMA DivMono ==
    ASSUME NEW a \in Nat, NEW b \in Nat, a <= b, NEW z \in Nat \ {0}
    PROVE  a \div z <= b \div z
<1> DEFINE q == a \div z
           r == b \div z
<1>1. q \in Nat /\ z * q <= a /\ r \in Nat /\ b < z * r + z
  BY DivIs
<1> HIDE DEF q, r
<1>2. r < q => z * r + z <= z * q
  BY <1>1, TimesMono
<1>3. z * q \in Int /\ z * r \in Int
  BY <1>1, TimesMono
<1>4. q <= r
  BY <1>1, <1>2, <1>3
<1> QED
  BY <1>4 DEF q, r

\* n bytes in parts of z bytes: how many, and how long the last is.
LEMMA PartsOf ==
    ASSUME NEW n \in Nat \ {0}, NEW z \in Nat \ {0}
    PROVE  /\ CeilDiv(n, z) \in Nat \ {0}
           /\ (n - 1) \div z = CeilDiv(n, z) - 1
           /\ (IF n % z = 0 THEN z ELSE n % z) = n - z * (CeilDiv(n, z) - 1)
           /\ n - z * (CeilDiv(n, z) - 1) \in 1..z
<1> DEFINE c == (n + z - 1) \div z
           q == n \div z
<1>1. n + z - 1 \in Nat /\ n - 1 \in Nat
  OBVIOUS
<1>2. c \in Nat /\ z * c <= n + z - 1 /\ n + z - 1 < z * c + z
  BY <1>1, DivIs
<1>3. q \in Nat /\ n % z = n - z * q /\ n % z \in 0..(z - 1)
  BY DivIs
<1>4. z * (c - 1) = z * c - z /\ z * c \in Int
  BY <1>2, TimesMono
<1>5. (n - 1) \div z = c - 1
  <2> HIDE DEF c
  <2>1. c - 1 \in Int /\ z * (c - 1) <= n - 1 /\ n - 1 < z * (c - 1) + z
    BY <1>2, <1>4
  <2> QED
    BY <1>1, <2>1, DivUnique
<1>6. (n - 1) \div z \in Nat
  BY <1>1, DivIs
<1>7. c # 0
  BY <1>2, <1>5, <1>6
<1>8. (IF n % z = 0 THEN z ELSE n % z) = n - z * (c - 1)
  <2> HIDE DEF c, q
  <2>1. CASE n % z = 0
    <3>1. z * q = n
      BY <1>3, <2>1, TimesMono
    <3>2. q < c => z * q + z <= z * c
      BY <1>2, <1>3, TimesMono
    <3>3. c < q => z * c + z <= z * q
      BY <1>2, <1>3, TimesMono
    <3>4. c = q
      BY <1>2, <1>3, <1>4, <3>1, <3>2, <3>3
    <3> QED
      BY <1>4, <2>1, <3>1, <3>4
  <2>2. CASE n % z # 0
    <3>1. z * q + (n % z) = n /\ z * q \in Int
      BY <1>3, TimesMono
    <3>2. q < c - 1 => z * q + z <= z * (c - 1)
      BY <1>2, <1>3, TimesMono
    <3>3. c - 1 < q => z * (c - 1) + z <= z * q
      BY <1>2, <1>3, TimesMono
    <3>4. c - 1 = q
      BY <1>2, <1>3, <1>4, <2>2, <3>1, <3>2, <3>3
    <3> QED
      BY <1>3, <2>2, <3>1, <3>4
  <2> QED
    BY <2>1, <2>2
<1> HIDE DEF q
<1>9. c \in Nat \ {0} /\ n - z * (c - 1) \in 1..z
  BY <1>2, <1>4, <1>7
<1> QED
  BY <1>5, <1>8, <1>9 DEF CeilDiv


-----------------------------------------------------------------------------
(* Sums *)
LEMMA SumIs ==
    ASSUME NEW n \in Nat, NEW a, \A k \in 1..n : a[k] \in Nat
    PROVE  \E s : /\ SumOf(n, a) = s[n] /\ s[0] = 0
                  /\ \A k \in 1..n : s[k] = s[k - 1] + a[k]
                  /\ \A k \in 0..n : s[k] \in Nat
<1> DEFINE F == [k \in 1..n |-> [x \in Nat |-> x + a[k]]]
           X == [k \in 0..n |-> Nat]
           Loop(s) == s = [k \in 0..n |-> IF k = 0 THEN 0 ELSE s[k - 1] + a[k]]
           g == CHOOSE s : Loop(s)
<1>1. \A k \in 1..n : \A x \in X[k - 1] : F[k][x] \in X[k] /\ F[k][x] = x + a[k]
  OBVIOUS
<1>2. 0 \in X[0] /\ \A k \in 0..n : X[k] = Nat
  OBVIOUS
<1> HIDE DEF F, X
<1>3. PICK f : IsLoop(f, n, 0, F) /\ \A k \in 0..n : f[k] \in X[k]
  BY <1>1, <1>2, StepsExist, ZenonT(60)
<1>4. Loop(f)
  <2>1. ASSUME NEW k \in 0..n PROVE (IF k = 0 THEN 0 ELSE F[k][f[k - 1]]) = IF k = 0 THEN 0 ELSE f[k - 1] + a[k]
    <3>1. CASE k # 0
      <4>1. k \in 1..n /\ k - 1 \in 0..n
        BY <3>1
      <4> QED
        BY <1>1, <1>3, <3>1, <4>1
    <3> QED
      BY <3>1
  <2> QED
    BY <1>3, <2>1 DEF IsLoop
<1>5. Loop(g)
  BY <1>4
<1>6. SumOf(n, a) = g[n]
  BY DEF SumOf
<1> HIDE DEF g
<1>7. g[0] = 0 /\ \A k \in 1..n : g[k] = g[k - 1] + a[k]
  BY <1>5
<1>8. \A k \in 0..n : g[k] \in X[k]
  <2>1. \A k \in 1..n : g[k - 1] \in X[k - 1] => g[k] \in X[k]
    BY <1>2, <1>7
  <2> QED
    BY <1>2, <1>7, <2>1, StepsReach
<1> QED
  BY <1>2, <1>6, <1>7, <1>8

LEMMA SumSteps ==
    ASSUME NEW n \in Nat, NEW a, \A k \in 1..n : a[k] \in Nat
    PROVE  /\ SumOf(n, a) \in Nat /\ SumOf(0, a) = 0
           /\ n > 0 => SumOf(n - 1, a) \in Nat /\ SumOf(n, a) = SumOf(n - 1, a) + a[n]
<1>1. PICK s : /\ SumOf(n, a) = s[n] /\ s[0] = 0
               /\ \A k \in 1..n : s[k] = s[k - 1] + a[k]
               /\ \A k \in 0..n : s[k] \in Nat
  BY SumIs
<1>2. SumOf(0, a) = 0
  BY SumIs
<1>3. ASSUME n > 0 PROVE SumOf(n - 1, a) = s[n - 1]
  <2>1. n - 1 \in Nat /\ \A k \in 1..(n - 1) : k \in 1..n
    BY <1>3
  <2>2. PICK r : /\ SumOf(n - 1, a) = r[n - 1] /\ r[0] = 0
                 /\ \A k \in 1..(n - 1) : r[k] = r[k - 1] + a[k]
    BY <2>1, SumIs
  <2> DEFINE T == {k \in 0..(n - 1) : r[k] = s[k]}
  <2>3. 0 \in T
    BY <1>1, <2>1, <2>2
  <2>4. ASSUME NEW k \in 1..(n - 1), k - 1 \in T PROVE k \in T
    BY <1>1, <2>1, <2>2, <2>4
  <2>5. n - 1 \in T
    <3> HIDE DEF T
    <3> QED
      BY <2>1, <2>3, <2>4, Climb
  <2> QED
    BY <2>2, <2>5
<1> QED
  BY <1>1, <1>2, <1>3

\* What grows by the terms is the sum.
LEMMA SumGrows ==
    ASSUME NEW n \in Nat, NEW a, \A k \in 1..n : a[k] \in Nat,
           NEW c, c[0] = 0, \A k \in 1..n : c[k] = c[k - 1] + a[k]
    PROVE  SumOf(n, a) = c[n]
<1> DEFINE T == {k \in 0..n : SumOf(k, a) = c[k]}
<1>1. 0 \in T
  BY SumSteps
<1>2. ASSUME NEW k \in 1..n, k - 1 \in T PROVE k \in T
  <2>1. k \in Nat /\ k > 0 /\ k \in 0..n /\ \A i \in 1..k : a[i] \in Nat
    OBVIOUS
  <2>2. SumOf(k, a) = SumOf(k - 1, a) + a[k]
    BY <2>1, SumSteps
  <2> QED
    BY <1>2, <2>1, <2>2
<1>3. n \in T
  <2> HIDE DEF T
  <2> QED
    BY <1>1, <1>2, Climb
<1> QED
  BY <1>3

-----------------------------------------------------------------------------
(* The files, end to end *)
LEMMA FilesAre ==
    ASSUME info \in Layouts
    PROVE  /\ info.files \in Seq(Nat) /\ Len(info.files) \in Nat \ {0} /\ DOMAIN info.files = 1..Len(info.files)
           /\ \A f \in 1..Len(info.files) : info.files[f] \in Nat
           /\ \E f \in 1..Len(info.files) : info.files[f] > 0
           /\ info.piece \in Nat \ {0} /\ BlockSize \in Nat \ {0} /\ info.piece % BlockSize = 0
<1>1. info \in Layout
  BY PiecesAssumption
<1>2. /\ info.files \in Seq(Nat) /\ info.piece \in Nat \ {0}
      /\ BlockSize \in Nat \ {0} /\ info.piece % BlockSize = 0
      /\ \E f \in DOMAIN info.files : info.files[f] > 0
  BY <1>1 DEF Layout, BlockSize
<1>3. Len(info.files) \in Nat /\ DOMAIN info.files = 1..Len(info.files) /\ \A f \in 1..Len(info.files) : info.files[f] \in Nat
  BY <1>2
<1> QED
  BY <1>2, <1>3

LEMMA OffsetsAre ==
    ASSUME info \in Layouts
    PROVE  /\ Offset(1) = 0 /\ Offset(Len(info.files) + 1) = Total /\ Total \in Nat
           /\ \A f \in 1..(Len(info.files) + 1) : Offset(f) \in Nat
           /\ \A f \in 1..Len(info.files) : Offset(f + 1) = Offset(f) + info.files[f]
<1> DEFINE n == Len(info.files)
<1>1. n \in Nat /\ \A f \in 1..n : info.files[f] \in Nat
  BY FilesAre
<1>2. \A k \in 0..n : /\ SumOf(k, info.files) \in Nat /\ SumOf(0, info.files) = 0
                      /\ k > 0 => SumOf(k, info.files) = SumOf(k - 1, info.files) + info.files[k]
  <2> TAKE k \in 0..n
  <2>1. k \in Nat /\ \A i \in 1..k : info.files[i] \in Nat
    BY <1>1
  <2> QED
    BY <2>1, SumSteps
<1>3. \A f \in 1..(n + 1) : f - 1 \in 0..n
  BY <1>1
<1>4. \A f \in 1..n : f \in 0..n /\ f > 0 /\ (f + 1) - 1 = f
  BY <1>1
<1>5. (n + 1) - 1 = n /\ 1 - 1 = 0 /\ n \in 0..n
  BY <1>1
<1> QED
  BY <1>2, <1>3, <1>4, <1>5 DEF Offset, Total

LEMMA OffsetsGrow ==
    ASSUME info \in Layouts, NEW f \in 1..(Len(info.files) + 1), NEW g \in 1..(Len(info.files) + 1), f <= g
    PROVE  Offset(f) <= Offset(g)
<1> DEFINE n == Len(info.files)
           T == {k \in 0..(n + 1) : k >= f => Offset(f) <= Offset(k)}
<1>1. n \in Nat /\ \A i \in 1..n : info.files[i] \in Nat
  BY FilesAre
<1>2. /\ \A i \in 1..(n + 1) : Offset(i) \in Nat
      /\ \A i \in 1..n : Offset(i + 1) = Offset(i) + info.files[i]
  BY OffsetsAre
<1>3. 0 \in T
  BY <1>1
<1>4. ASSUME NEW k \in 1..(n + 1), k - 1 \in T PROVE k \in T
  <2>1. CASE k <= f
    <3>1. k >= f => k = f
      BY <1>1, <2>1
    <3> QED
      BY <1>1, <1>2, <3>1
  <2>2. CASE k > f
    <3>1. k - 1 \in 1..n /\ k - 1 >= f /\ (k - 1) + 1 = k
      BY <1>1, <2>2
    <3>2. Offset(k) = Offset(k - 1) + info.files[k - 1] /\ Offset(f) <= Offset(k - 1)
      BY <1>2, <1>4, <3>1
    <3> QED
      BY <1>1, <1>2, <3>1, <3>2, SMTT(40)
  <2> QED
    BY <1>1, <2>1, <2>2
<1>5. \A k \in 0..(n + 1) : k \in T
  <2> HIDE DEF T
  <2>1. n + 1 \in Nat
    BY <1>1
  <2> QED
    BY <1>3, <1>4, <2>1, Climb
<1> QED
  BY <1>1, <1>5

\* There is a byte, so that there are pieces and blocks.
LEMMA SizesAre ==
    ASSUME info \in Layouts
    PROVE  /\ Total \in Nat \ {0} /\ info.piece \in Nat \ {0} /\ BlockSize \in Nat \ {0}
           /\ PieceCount \in Nat \ {0} /\ BlockCount \in Nat \ {0}
           /\ LastOf(info.piece) = Total - info.piece * (PieceCount - 1) /\ LastOf(info.piece) \in 1..info.piece
           /\ LastOf(BlockSize) = Total - BlockSize * (BlockCount - 1) /\ LastOf(BlockSize) \in 1..BlockSize
           /\ (Total - 1) \div info.piece = PieceCount - 1 /\ (Total - 1) \div BlockSize = BlockCount - 1
<1> DEFINE n == Len(info.files)
<1>1. PICK f \in 1..n : info.files[f] > 0
  BY FilesAre
<1>2. n \in Nat /\ info.files[f] \in Nat /\ f \in 1..(n + 1) /\ f + 1 \in 1..(n + 1) /\ f + 1 <= n + 1 /\ n + 1 \in 1..(n + 1)
  BY FilesAre
<1>3. Offset(f) \in Nat /\ Offset(f + 1) = Offset(f) + info.files[f] /\ Offset(n + 1) = Total /\ Total \in Nat
  BY <1>2, OffsetsAre
<1>4. Offset(f + 1) <= Offset(n + 1)
  BY <1>2, OffsetsGrow
<1>5. Total \in Nat \ {0}
  BY <1>1, <1>2, <1>3, <1>4
<1> QED
  BY <1>5, FilesAre, PartsOf DEF PieceCount, BlockCount, LastOf

\* The bytes of a part: the parts are pieces, or blocks.
PartLen(k, z) == IF k = CeilDiv(Total, z) - 1 THEN LastOf(z) ELSE z

LEMMA PartIs ==
    ASSUME info \in Layouts, NEW z \in Nat \ {0}, NEW k \in 0..(CeilDiv(Total, z) - 1)
    PROVE  /\ {o \in Bytes : o \div z = k} = (z * k)..(z * k + PartLen(k, z) - 1)
           /\ Cardinality({o \in Bytes : o \div z = k}) = PartLen(k, z)
           /\ PartLen(k, z) \in 1..z /\ z * k \in Nat /\ z * k + PartLen(k, z) <= Total
           /\ k < CeilDiv(Total, z) - 1 => z * k + z < Total
           /\ k = CeilDiv(Total, z) - 1 => z * k + PartLen(k, z) = Total
<1> DEFINE c == CeilDiv(Total, z)
           len == PartLen(k, z)
<1>1. Total \in Nat \ {0}
  BY SizesAre
<1>2. /\ c \in Nat \ {0} /\ (Total - 1) \div z = c - 1
      /\ LastOf(z) = Total - z * (c - 1) /\ Total - z * (c - 1) \in 1..z
  BY <1>1, PartsOf DEF LastOf
<1>3. len = IF k = c - 1 THEN LastOf(z) ELSE z
  BY DEF PartLen
<1> HIDE DEF c, len
<1>4. z * k \in Int /\ z * (c - 1) \in Int /\ z * 0 <= z * k /\ z * 0 = 0
  BY <1>2, TimesMono DEF c
<1>5. k < c - 1 => z * k + z <= z * (c - 1)
  BY <1>2, TimesMono DEF c
<1>6. len \in 1..z /\ z * k + len <= Total /\ (k < c - 1 => z * k + z < Total) /\ (k = c - 1 => z * k + len = Total)
  <2>1. CASE k = c - 1
    BY <1>1, <1>2, <1>3, <1>4, <2>1
  <2>2. CASE k # c - 1
    BY <1>1, <1>2, <1>3, <1>4, <1>5, <2>2 DEF c
  <2> QED
    BY <2>1, <2>2
<1>7. ASSUME NEW o \in Bytes PROVE o \div z = k <=> o \in (z * k)..(z * k + len - 1)
  <2>1. o \in Nat /\ o < Total
    BY <1>1 DEF Bytes
  <2>2. o \div z = k <=> z * k <= o /\ o < z * k + z
    BY <2>1, DivUnique
  <2>3. CASE k = c - 1
    <3>1. o < z * k + len /\ len <= z
      BY <1>6, <2>1, <2>3
    <3> QED
      BY <1>4, <1>6, <2>1, <2>2, <3>1
  <2>4. CASE k # c - 1
    BY <1>3, <1>4, <2>1, <2>2, <2>4
  <2> QED
    BY <2>3, <2>4
<1>8. (z * k)..(z * k + len - 1) \subseteq Bytes
  BY <1>1, <1>4, <1>6 DEF Bytes
<1>9. {o \in Bytes : o \div z = k} = (z * k)..(z * k + len - 1)
  BY <1>7, <1>8
<1>10. Cardinality({o \in Bytes : o \div z = k}) = len
  <2>1. Cardinality((z * k)..(z * k + len - 1)) = len
    BY <1>4, <1>6, FS_Interval
  <2> QED
    BY <1>9, <2>1, Zenon
<1>11. z * k \in Nat
  BY <1>4
<1> QED
  BY <1>6, <1>9, <1>10, <1>11 DEF c, len

LEMMA ByteInPart ==
    ASSUME info \in Layouts, NEW z \in Nat \ {0}, NEW o \in Bytes
    PROVE  o \div z \in 0..(CeilDiv(Total, z) - 1)
<1>1. Total \in Nat \ {0}
  BY SizesAre
<1>2. CeilDiv(Total, z) \in Nat \ {0} /\ (Total - 1) \div z = CeilDiv(Total, z) - 1
  BY <1>1, PartsOf
<1>3. o \in Nat /\ Total - 1 \in Nat /\ o <= Total - 1
  BY <1>1 DEF Bytes
<1>4. o \div z \in Nat /\ o \div z <= (Total - 1) \div z
  BY <1>3, DivIs, DivMono
<1> QED
  BY <1>2, <1>4

-----------------------------------------------------------------------------
(* Bytes, counted *)
BytesIn(S) == {o \in Bytes : o \div BlockSize \in S}

LEMMA CountSum ==
    ASSUME NEW X, NEW Y, IsFiniteSet(X), IsFiniteSet(Y), X \cap Y = {}
    PROVE  /\ IsFiniteSet(X \cup Y) /\ Cardinality(X) \in Nat /\ Cardinality(Y) \in Nat
           /\ Cardinality(X \cup Y) = Cardinality(X) + Cardinality(Y)
<1>1. Cardinality(X \cap Y) = 0
  BY FS_EmptySet
<1>2. Cardinality(X) \in Nat /\ Cardinality(Y) \in Nat
  BY FS_CardinalityType
<1>3. IsFiniteSet(X \cup Y) /\ Cardinality(X \cup Y) = Cardinality(X) + Cardinality(Y) - Cardinality(X \cap Y)
  BY FS_Union
<1> QED
  BY <1>1, <1>2, <1>3

LEMMA BytesAre ==
    ASSUME info \in Layouts
    PROVE  /\ IsFiniteSet(Bytes) /\ Cardinality(Bytes) = Total
           /\ \A X \in SUBSET Bytes : IsFiniteSet(X) /\ Cardinality(X) \in Nat
<1>1. Total \in Nat \ {0}
  BY SizesAre
<1>2. IsFiniteSet(Bytes) /\ Cardinality(Bytes) = Total
  BY <1>1, FS_Interval DEF Bytes
<1> QED
  BY <1>2, FS_Subset, FS_CardinalityType

LEMMA SumOverParts ==
    ASSUME info \in Layouts, NEW z \in Nat \ {0}, NEW W \in SUBSET Bytes, NEW a,
           \A k \in 1..CeilDiv(Total, z) : a[k] = Cardinality({o \in W : o \div z = k - 1})
    PROVE  SumOf(CeilDiv(Total, z), a) = Cardinality(W)
<1> DEFINE n == CeilDiv(Total, z)
           V == [k \in 0..n |-> {o \in W : o \div z < k}]
<1>1. n \in Nat /\ Total \in Nat
  BY SizesAre, PartsOf
<1>2. \A o \in W : o \in Bytes /\ o \div z \in 0..(n - 1)
  BY ByteInPart
<1>3. \A k \in 0..n : V[k] = {o \in W : o \div z < k}
  OBVIOUS
<1> HIDE DEF V
<1>4. \A k \in 0..n : IsFiniteSet(V[k])
  BY <1>3, BytesAre
<1>5. V[0] = {}
  BY <1>1, <1>2, <1>3 DEF n
<1>6. V[n] = W
  <2>1. \A o \in W : o \div z < n
    BY <1>1, <1>2
  <2> HIDE DEF n
  <2>2. V[n] = {o \in W : o \div z < n}
    BY <1>1, <1>3
  <2> QED
    BY <2>1, <2>2
<1>7. ASSUME NEW k \in 1..n
      PROVE  a[k] \in Nat /\ Cardinality(V[k]) = Cardinality(V[k - 1]) + a[k]
  <2> DEFINE new == {o \in W : o \div z = k - 1}
  <2>1. k \in 0..n /\ k - 1 \in 0..n
    BY <1>1 DEF n
  <2>2. V[k] = {o \in W : o \div z < k} /\ V[k - 1] = {o \in W : o \div z < k - 1}
    BY <1>3, <2>1
  <2>3. \A o \in W : /\ o \div z < k <=> o \div z < k - 1 \/ o \div z = k - 1
                     /\ ~(o \div z < k - 1 /\ o \div z = k - 1)
    BY <1>1, <1>2, <2>1 DEF n
  <2>4. V[k] = V[k - 1] \cup new /\ V[k - 1] \cap new = {}
    BY <2>2, <2>3
  <2>5. IsFiniteSet(V[k - 1]) /\ IsFiniteSet(new) /\ Cardinality(new) = a[k]
    BY <1>4, <2>1, BytesAre
  <2> HIDE DEF new
  <2>6. /\ Cardinality(new) \in Nat
        /\ Cardinality(V[k - 1] \cup new) = Cardinality(V[k - 1]) + Cardinality(new)
    BY <2>4, <2>5, CountSum
  <2> QED
    BY <2>4, <2>5, <2>6
<1> DEFINE C == [k \in 0..n |-> Cardinality(V[k])]
<1>8. \A k \in 0..n : C[k] = Cardinality(V[k])
  OBVIOUS
<1> HIDE DEF C, n
<1>9. C[0] = 0 /\ C[n] = Cardinality(W)
  <2>1. 0 \in 0..n /\ n \in 0..n
    BY <1>1
  <2>2. Cardinality(V[0]) = 0
    BY <1>5, FS_EmptySet
  <2> QED
    BY <1>6, <1>8, <2>1, <2>2
<1>10. \A k \in 1..n : a[k] \in Nat /\ C[k] = C[k - 1] + a[k]
  <2> TAKE k \in 1..n
  <2>1. k \in 0..n /\ k - 1 \in 0..n
    BY <1>1
  <2> QED
    BY <1>7, <1>8, <2>1
<1>11. SumOf(n, a) = C[n]
  BY <1>1, <1>9, <1>10, SumGrows
<1> QED
  BY <1>9, <1>11 DEF n

\* The sum over the blocks of a set is that of its bytes.
LEMMA BytesOfIs ==
    ASSUME info \in Layouts, NEW S \in SUBSET TheBlocks
    PROVE  BytesOf(S) = Cardinality(BytesIn(S))
<1> DEFINE a == [k \in 1..BlockCount |-> IF k - 1 \in S THEN BlockBytes(k - 1) ELSE 0]
           W == BytesIn(S)
<1>1. BlockSize \in Nat \ {0} /\ BlockCount \in Nat \ {0} /\ BlockCount = CeilDiv(Total, BlockSize)
  BY SizesAre DEF BlockCount
<1>2. ASSUME NEW k \in 1..BlockCount PROVE a[k] = Cardinality({o \in W : o \div BlockSize = k - 1})
  <2>1. k - 1 \in 0..(BlockCount - 1)
    BY <1>1
  <2>2. CASE k - 1 \in S
    <3>1. {o \in W : o \div BlockSize = k - 1} = {o \in Bytes : o \div BlockSize = k - 1}
      BY <2>2 DEF BytesIn
    <3>2. Cardinality({o \in Bytes : o \div BlockSize = k - 1}) = PartLen(k - 1, BlockSize)
      BY <1>1, <2>1, PartIs
    <3>3. a[k] = PartLen(k - 1, BlockSize)
      BY <1>1, <2>2 DEF PartLen, BlockBytes
    <3> QED
      BY <3>1, <3>2, <3>3
  <2>3. CASE k - 1 \notin S
    <3>1. {o \in W : o \div BlockSize = k - 1} = {}
      BY <2>3 DEF BytesIn
    <3>2. a[k] = 0
      BY <2>3
    <3> QED
      BY <3>1, <3>2, FS_EmptySet
  <2> QED
    BY <2>2, <2>3
<1>3. W \in SUBSET Bytes
  BY DEF BytesIn
<1> HIDE DEF a, W
<1>4. SumOf(BlockCount, a) = Cardinality(W)
  BY <1>1, <1>2, <1>3, SumOverParts
<1> QED
  BY <1>4 DEF BytesOf, a, W

\* Blocks are all of a size, but the last.
LEMMA CountBlocks ==
    ASSUME info \in Layouts, NEW S \in SUBSET TheBlocks
    PROVE  /\ IsFiniteSet(S) /\ Cardinality(S) \in Nat
           /\ Cardinality(BytesIn(S)) =
                 Cardinality(S) * BlockSize - (IF BlockCount - 1 \in S THEN BlockSize - LastOf(BlockSize) ELSE 0)
<1> DEFINE c == BlockCount
           B == BlockSize
           Less(k) == S \cap 0..(k - 1)
           Short(k) == IF k = c /\ c - 1 \in S THEN B - LastOf(B) ELSE 0
           T == {k \in 0..c : Cardinality(BytesIn(Less(k))) = Cardinality(Less(k)) * B - Short(k)}
<1>1. B \in Nat \ {0} /\ c \in Nat \ {0} /\ c = CeilDiv(Total, B) /\ LastOf(B) \in 1..B
  BY SizesAre DEF BlockCount
<1>2. IsFiniteSet(0..(c - 1)) /\ S \subseteq 0..(c - 1)
  <2>1. 0 \in Int /\ c - 1 \in Int
    BY <1>1
  <2>2. IsFiniteSet(0..(c - 1))
    BY <2>1, FS_Interval
  <2> QED
    BY <2>2 DEF TheBlocks
<1>3. \A U \in SUBSET S : IsFiniteSet(U) /\ Cardinality(U) \in Nat
  BY <1>2, FS_Subset, FS_CardinalityType
<1>4. 0 \in T
  <2>1. Less(0) = {}
    BY <1>1, <1>2
  <2>2. BytesIn(Less(0)) = {}
    BY <2>1 DEF BytesIn
  <2>3. Short(0) = 0 /\ 0 * B = 0
    BY <1>1
  <2> QED
    BY <1>1, <2>1, <2>2, <2>3, FS_EmptySet
<1>5. ASSUME NEW k \in 1..c, k - 1 \in T PROVE k \in T
  <2>1. k - 1 \in 0..(c - 1) /\ k \in 0..c
    BY <1>1
  <2>2. Cardinality(BytesIn(Less(k - 1))) = Cardinality(Less(k - 1)) * B - Short(k - 1)
    BY <1>5
  <2>3. Short(k - 1) = 0
    BY <1>1, <2>1
  <2>4. CASE k - 1 \notin S
    <3>1. Less(k) = Less(k - 1)
      BY <1>1, <1>2, <2>1, <2>4
    <3>2. Short(k) = 0
      BY <2>4
    <3> QED
      BY <2>1, <2>2, <2>3, <3>1, <3>2
  <2>5. CASE k - 1 \in S
    <3> DEFINE new == {o \in Bytes : o \div BlockSize = k - 1}
    <3>1. Less(k) = Less(k - 1) \cup {k - 1} /\ k - 1 \notin Less(k - 1)
      BY <1>1, <1>2, <2>1, <2>5
    <3>2. Cardinality(Less(k)) = Cardinality(Less(k - 1)) + 1 /\ Cardinality(Less(k - 1)) \in Nat
      <4>1. IsFiniteSet(Less(k - 1)) /\ Cardinality(Less(k - 1)) \in Nat
        BY <1>3
      <4> HIDE DEF Less
      <4> QED
        BY <3>1, <4>1, FS_AddElement
    <3>3. Cardinality(new) = PartLen(k - 1, B)
      BY <1>1, <2>1, PartIs
    <3>4. BytesIn(Less(k)) = BytesIn(Less(k - 1)) \cup new /\ BytesIn(Less(k - 1)) \cap new = {}
      <4> HIDE DEF Less
      <4> QED
        BY <3>1 DEF BytesIn
    <3>5. IsFiniteSet(BytesIn(Less(k - 1))) /\ IsFiniteSet(new)
      BY BytesAre DEF BytesIn
    <3> HIDE DEF new, Less
    <3>6. Cardinality(BytesIn(Less(k))) = Cardinality(BytesIn(Less(k - 1))) + PartLen(k - 1, B)
      BY <3>3, <3>4, <3>5, CountSum
    <3>7. PartLen(k - 1, B) = B - Short(k)
      BY <1>1, <2>1, <2>5 DEF PartLen
    <3>8. Cardinality(Less(k)) * B = Cardinality(Less(k - 1)) * B + B /\ Cardinality(Less(k - 1)) * B \in Int
      <4>1. \A x \in Nat : (x + 1) * B = x * B + B /\ x * B \in Int
        BY <1>1, SMT
      <4> QED
        BY <3>2, <4>1
    <3>9. Short(k) \in Int
      BY <1>1
    <3> HIDE DEF Short
    <3>10. Cardinality(BytesIn(Less(k))) = Cardinality(Less(k)) * B - Short(k)
      BY <1>1, <2>2, <2>3, <3>6, <3>7, <3>8, <3>9
    <3> QED
      BY <2>1, <3>10
  <2> QED
    BY <2>4, <2>5
<1>6. c \in T
  <2> HIDE DEF T, c
  <2> QED
    BY <1>1, <1>4, <1>5, Climb
<1>7. Less(c) = S
  BY <1>1, <1>2
<1>8. Cardinality(BytesIn(S)) = Cardinality(S) * B - Short(c)
  BY <1>6, <1>7
<1> QED
  BY <1>3, <1>8

-----------------------------------------------------------------------------
(* Blocks in pieces *)

LEMMA BlocksDivide ==
    ASSUME info \in Layouts
    PROVE  /\ info.piece \div BlockSize \in Nat \ {0}
           /\ info.piece = BlockSize * (info.piece \div BlockSize)
           /\ \A o \in Nat : /\ o \div info.piece = (o \div BlockSize) \div (info.piece \div BlockSize)
                             /\ BlockAt(o \div info.piece, o % info.piece) = o \div BlockSize
<1> DEFINE m == info.piece \div BlockSize
<1>1. info.piece \in Nat \ {0} /\ BlockSize \in Nat \ {0} /\ info.piece % BlockSize = 0
  BY FilesAre
<1>2. m \in Nat /\ info.piece % BlockSize = info.piece - BlockSize * m
  BY <1>1, DivIs
<1>3. info.piece = BlockSize * m
  <2>1. BlockSize * m \in Int
    BY <1>1, <1>2, TimesMono
  <2> HIDE DEF m
  <2> QED
    BY <1>1, <1>2, <2>1
<1>4. m # 0
  <2> SUFFICES ASSUME m = 0 PROVE FALSE
    OBVIOUS
  <2>1. BlockSize * 0 = 0
    BY <1>1
  <2> HIDE DEF m
  <2> QED
    BY <1>1, <1>3, <2>1
<1>5. ASSUME NEW o \in Nat
      PROVE  /\ o \div info.piece = (o \div BlockSize) \div m
             /\ BlockAt(o \div info.piece, o % info.piece) = o \div BlockSize
  <2>1. /\ o \div info.piece = (o \div BlockSize) \div m
        /\ (o % info.piece) \div BlockSize = o \div BlockSize - m * (o \div info.piece)
    <3> DEFINE S == info.piece
               B == BlockSize
               p == o \div S
               b == o \div B
    <3>0. m \in Nat \ {0} /\ B \in Nat \ {0} /\ S = B * m
      BY <1>1, <1>2, <1>3, <1>4
    <3>1. S \in Nat \ {0}
      BY <1>1
    <3> USE <3>0
    <3> HIDE DEF m, S, B
    <3>2. p \in Nat /\ S * p <= o /\ o < S * p + S /\ o % S = o - S * p
      BY <3>1, <3>0, DivIs
    <3>3. b \in Nat /\ B * b <= o /\ o < B * b + B
      BY DivIs
    <3> HIDE DEF p, b
    <3>4. m * p \in Nat /\ B * (m * p) = S * p /\ B * (m * p + m) = S * p + S /\ S * p \in Nat
      <4>1. \A x, y, w \in Nat : x * (y * w) = (x * y) * w /\ x * y \in Nat /\ x * (y + w) = x * y + x * w
        BY SMT
      <4>2. m * p \in Nat
        BY <3>2, <4>1
      <4> QED
        BY <3>1, <3>2, <4>1, <4>2
    <3>5. m * p <= b
      <4> SUFFICES ASSUME b < m * p PROVE FALSE
        BY <3>3, <3>4
      <4>1. B * b + B <= B * (m * p)
        BY <3>3, <3>4, TimesMono
      <4>2. B * b \in Int
        BY <3>3, TimesMono
      <4> QED
        BY <3>2, <3>3, <3>4, <4>1, <4>2
    <3>6. b < m * p + m
      <4> SUFFICES ASSUME m * p + m <= b PROVE FALSE
        BY <3>3, <3>4
      <4>1. B * (m * p + m) <= B * b
        BY <3>3, <3>4, TimesMono
      <4>2. B * b \in Int
        BY <3>3, TimesMono
      <4> QED
        BY <3>1, <3>2, <3>3, <3>4, <4>1, <4>2
    <3>7. b \div m = p
      BY <3>2, <3>3, <3>5, <3>6, DivUnique
    <3>8. (o - S * p) \div B = b - m * p
      <4>1. B * (b - m * p) = B * b - S * p /\ B * b \in Int
        <5>1. \A x, y \in Int : B * (x - y) = B * x - B * y /\ B * x \in Int
          BY SMT
        <5> QED
          BY <3>3, <3>4, <5>1
      <4>2. o - S * p \in Nat /\ b - m * p \in Int
        BY <3>2, <3>3, <3>4
      <4>3. B * (b - m * p) <= o - S * p /\ o - S * p < B * (b - m * p) + B
        BY <3>3, <3>4, <4>1
      <4> QED
        BY <4>2, <4>3, DivUnique
    <3> QED
      BY <3>2, <3>7, <3>8 DEF p, b, S, B
  <2>2. o \div info.piece \in Nat /\ o \div BlockSize \in Nat
    BY <1>1, DivIs
  <2>3. \A x, y \in Nat, w \in Int : x * y + (w - y * x) = w
    BY SMT
  <2>4. (o \div info.piece) * m + (o \div BlockSize - m * (o \div info.piece)) = o \div BlockSize
    BY <1>2, <2>2, <2>3
  <2> QED
    BY <2>1, <2>4 DEF BlockAt
<1> QED
  BY <1>2, <1>3, <1>4, <1>5

\* The blocks of a piece are those of its bytes.
LEMMA PieceBlocksAre ==
    ASSUME info \in Layouts, NEW p \in ThePieces
    PROVE  /\ FirstBlock(p) \in TheBlocks /\ LastBlock(p) \in TheBlocks /\ FirstBlock(p) <= LastBlock(p)
           /\ PieceBlocks(p) \subseteq TheBlocks
           /\ \A o \in Bytes : o \div info.piece = p <=> o \div BlockSize \in PieceBlocks(p)
           /\ BlockCount - 1 \in PieceBlocks(p) => LastBlock(p) = BlockCount - 1
           /\ PieceBytes(p) = PartLen(p, info.piece)
           /\ Cardinality(BytesIn(PieceBlocks(p))) = PieceBytes(p)
<1> DEFINE S == info.piece
           B == BlockSize
           m == S \div B
           len == PieceBytes(p)
           e == S * p + len - 1
<1>1. /\ Total \in Nat \ {0} /\ S \in Nat \ {0} /\ B \in Nat \ {0} /\ PieceCount \in Nat \ {0} /\ BlockCount \in Nat \ {0}
      /\ PieceCount = CeilDiv(Total, S) /\ BlockCount = CeilDiv(Total, B)
  BY SizesAre DEF PieceCount, BlockCount
<1>2. p \in 0..(CeilDiv(Total, S) - 1) /\ p \in Nat
  BY <1>1 DEF ThePieces
<1>3. len = PartLen(p, S)
  BY <1>1 DEF PieceBytes, PartLen
<1>4. /\ {o \in Bytes : o \div S = p} = (S * p)..e /\ Cardinality({o \in Bytes : o \div S = p}) = len
      /\ len \in 1..S /\ S * p \in Nat /\ S * p + len <= Total
  BY <1>1, <1>2, <1>3, PartIs
<1>5. FirstBlock(p) = (S * p) \div B /\ LastBlock(p) = e \div B
  <2>1. p * S = S * p
    BY <1>1, <1>2
  <2> QED
    BY <2>1 DEF FirstBlock, LastBlock
<1> HIDE DEF e, len
<1>6. S * p \in Bytes /\ e \in Bytes /\ S * p <= e /\ e \in Nat /\ S * p \in (S * p)..e /\ e \in (S * p)..e
  BY <1>1, <1>4 DEF Bytes, e
<1>7. (S * p) \div S = p /\ e \div S = p
  BY <1>4, <1>6
<1>8. FirstBlock(p) \in TheBlocks /\ LastBlock(p) \in TheBlocks /\ FirstBlock(p) <= LastBlock(p)
  BY <1>1, <1>4, <1>5, <1>6, ByteInPart, DivMono DEF TheBlocks
<1>9. PieceBlocks(p) \subseteq TheBlocks
  BY <1>1, <1>8 DEF PieceBlocks, TheBlocks
<1>10. ASSUME NEW o \in Bytes PROVE o \div S = p <=> o \div B \in PieceBlocks(p)
  <2>1. o \in Nat /\ o \div B \in Nat
    <3>1. o \in Nat
      BY <1>1 DEF Bytes
    <3> QED
      BY <1>1, <3>1, DivIs
  <2>2. ASSUME o \div S = p PROVE o \div B \in PieceBlocks(p)
    <3>1. o \in (S * p)..e
      BY <1>4, <2>2
    <3>2. S * p <= o /\ o <= e
      BY <1>4, <1>6, <3>1
    <3>3. (S * p) \div B <= o \div B /\ o \div B <= e \div B
      BY <1>1, <1>4, <1>6, <2>1, <3>2, DivMono
    <3> QED
      BY <1>5, <2>1, <3>3 DEF PieceBlocks
  <2>3. ASSUME o \div B \in PieceBlocks(p) PROVE o \div S = p
    <3>1. FirstBlock(p) <= o \div B /\ o \div B <= LastBlock(p) /\ FirstBlock(p) \in Nat /\ LastBlock(p) \in Nat
      BY <1>1, <1>8, <2>1, <2>3 DEF PieceBlocks, TheBlocks
    <3>2. m \in Nat \ {0} /\ \A x \in Nat : x \div S = (x \div B) \div m
      BY BlocksDivide
    <3>3. FirstBlock(p) \div m <= (o \div B) \div m /\ (o \div B) \div m <= LastBlock(p) \div m
      BY <2>1, <3>1, <3>2, DivMono
    <3>4. FirstBlock(p) \div m = p /\ LastBlock(p) \div m = p /\ (o \div B) \div m = o \div S
      BY <1>4, <1>5, <1>6, <1>7, <2>1, <3>2
    <3>5. o \div S \in Nat
      BY <1>1, <2>1, DivIs
    <3> QED
      BY <1>2, <3>3, <3>4, <3>5
  <2> QED
    BY <2>2, <2>3
<1>11. BlockCount - 1 \in PieceBlocks(p) => LastBlock(p) = BlockCount - 1
  BY <1>1, <1>8 DEF PieceBlocks, TheBlocks
<1>12. BytesIn(PieceBlocks(p)) = {o \in Bytes : o \div S = p}
  BY <1>10 DEF BytesIn
<1> QED
  BY <1>3, <1>4, <1>8, <1>9, <1>10, <1>11, <1>12 DEF len

-----------------------------------------------------------------------------
(* Files in pieces *)

\* A later byte is in no earlier piece, and the next byte at most in the next.
LEMMA BytePieceMono ==
    ASSUME info \in Layouts, NEW a \in 0..Total, NEW b \in 0..Total, a <= b
    PROVE  /\ BytePiece(a) \in ThePieces /\ BytePiece(a) <= BytePiece(b)
           /\ b = a + 1 => BytePiece(b) <= BytePiece(a) + 1
<1> DEFINE S == info.piece
<1>1. Total \in Nat \ {0} /\ S \in Nat \ {0} /\ PieceCount \in Nat \ {0} /\ (Total - 1) \div S = PieceCount - 1
  BY SizesAre
<1>2. Total - 1 \in Nat /\ a \in Nat /\ b \in Nat
  BY <1>1
<1>3. ASSUME NEW x \in 0..Total PROVE BytePiece(x) = (IF x = Total THEN (Total - 1) \div S ELSE x \div S)
  BY <1>1 DEF BytePiece
<1>4. \A x \in Nat : x \div S \in Nat
  BY <1>1, DivIs
<1>5. \A x \in Nat : x < Total => x \div S <= (Total - 1) \div S
  <2> TAKE x \in Nat
  <2>1. x < Total => x <= Total - 1
    BY <1>1
  <2> QED
    BY <1>1, <1>2, <2>1, DivMono
<1>6. a \div S <= b \div S
  BY <1>1, <1>2, DivMono
<1>7. b = a + 1 => b \div S <= (a \div S) + 1
  <2> SUFFICES ASSUME b = a + 1 PROVE b \div S <= (a \div S) + 1
    OBVIOUS
  <2> DEFINE q == a \div S
             r == b \div S
  <2>1. q \in Nat /\ a < S * q + S /\ r \in Nat /\ S * r <= b
    BY <1>1, <1>2, DivIs
  <2> HIDE DEF q, r
  <2>2. S * (q + 1) = S * q + S /\ S * q \in Int
    BY <1>1, <2>1, TimesMono
  <2>3. q + 1 < r => S * (q + 1) + S <= S * r
    BY <1>1, <2>1, TimesMono
  <2>4. S * r \in Int
    BY <1>1, <2>1, TimesMono
  <2>5. ~(q + 1 < r)
    BY <1>1, <1>2, <2>1, <2>2, <2>3, <2>4
  <2> QED
    BY <2>1, <2>5 DEF q, r
<1>8. BytePiece(a) \in ThePieces
  BY <1>1, <1>2, <1>3, <1>4, <1>5 DEF ThePieces
<1>9. BytePiece(a) <= BytePiece(b)
  BY <1>1, <1>2, <1>3, <1>4, <1>5, <1>6
<1>10. b = a + 1 => BytePiece(b) <= BytePiece(a) + 1
  BY <1>1, <1>2, <1>3, <1>4, <1>5, <1>7
<1> QED
  BY <1>8, <1>9, <1>10

\* The pieces of a file end where, or just before, those of the next begin.
LEMMA FilePiecesAre ==
    ASSUME info \in Layouts
    PROVE  \A f \in 1..Len(info.files) :
              /\ FirstPiece(f) \in ThePieces /\ LastPiece(f) \in ThePieces /\ FirstPiece(f) <= LastPiece(f)
              /\ f + 1 \in 1..Len(info.files) => /\ LastPiece(f) <= FirstPiece(f + 1)
                                                 /\ FirstPiece(f + 1) <= LastPiece(f) + 1
<1> DEFINE n == Len(info.files)
           End(f) == Offset(f) + (IF info.files[f] > 0 THEN info.files[f] - 1 ELSE 0)
<1>1. Total \in Nat \ {0} /\ n \in Nat /\ \A f \in 1..n : info.files[f] \in Nat
  BY FilesAre, SizesAre
<1>2. /\ \A f \in 1..(n + 1) : Offset(f) \in Nat
      /\ \A f \in 1..n : Offset(f + 1) = Offset(f) + info.files[f]
      /\ Offset(n + 1) = Total
  BY OffsetsAre
<1>3. \A f \in 1..(n + 1) : Offset(f) \in 0..Total
  <2> TAKE f \in 1..(n + 1)
  <2>1. n + 1 \in 1..(n + 1) /\ f <= n + 1
    BY <1>1
  <2>2. Offset(f) <= Offset(n + 1)
    BY <2>1, OffsetsGrow
  <2> QED
    BY <1>1, <1>2, <2>2
<1> TAKE f \in 1..n
<1>4. f \in 1..(n + 1) /\ f + 1 \in 1..(n + 1)
  BY <1>1
<1>5. /\ Offset(f) \in 0..Total /\ Offset(f + 1) \in 0..Total /\ End(f) \in 0..Total
      /\ Offset(f) <= End(f) /\ End(f) <= Offset(f + 1)
      /\ Offset(f + 1) = End(f) \/ Offset(f + 1) = End(f) + 1
  <2>1. Offset(f + 1) = Offset(f) + info.files[f] /\ info.files[f] \in Nat /\ Offset(f) \in Nat
    BY <1>1, <1>2, <1>4
  <2>2. Offset(f) \in 0..Total /\ Offset(f + 1) \in 0..Total
    BY <1>3, <1>4
  <2>3. CASE info.files[f] = 0
    BY <1>1, <2>1, <2>2, <2>3
  <2>4. CASE info.files[f] > 0
    BY <1>1, <2>1, <2>2, <2>4
  <2> QED
    BY <2>1, <2>3, <2>4
<1>6. FirstPiece(f) = BytePiece(Offset(f)) /\ LastPiece(f) = BytePiece(End(f)) /\ FirstPiece(f + 1) = BytePiece(Offset(f + 1))
  BY DEF FirstPiece, LastPiece
<1> HIDE DEF End
<1>7. FirstPiece(f) \in ThePieces /\ FirstPiece(f) <= LastPiece(f)
  BY <1>5, <1>6, BytePieceMono
<1>8. LastPiece(f) \in ThePieces /\ LastPiece(f) <= FirstPiece(f + 1) /\ FirstPiece(f + 1) \in ThePieces
  <2>1. Offset(f + 1) <= Offset(f + 1)
    BY <1>1, <1>5
  <2> QED
    BY <1>5, <1>6, <2>1, BytePieceMono
<1>9. FirstPiece(f + 1) <= LastPiece(f) + 1
  <2>1. CASE Offset(f + 1) = End(f)
    <3>1. LastPiece(f) \in Int
      BY <1>1, <1>8 DEF ThePieces
    <3> QED
      BY <1>6, <2>1, <3>1
  <2>2. CASE Offset(f + 1) = End(f) + 1
    BY <1>5, <1>6, <2>2, BytePieceMono
  <2> QED
    BY <1>5, <2>1, <2>2
<1> QED
  BY <1>7, <1>8, <1>9

\* The ends of the files grow along them, so that the files of a piece lie together.
LEMMA FilesInOrder ==
    ASSUME info \in Layouts, NEW f \in 1..Len(info.files), NEW g \in 1..Len(info.files), f < g
    PROVE  LastPiece(f) <= FirstPiece(g) /\ FirstPiece(f) <= FirstPiece(g) /\ LastPiece(f) <= LastPiece(g)
<1> DEFINE n == Len(info.files)
           T == {k \in 0..n : k > f => LastPiece(f) <= FirstPiece(k)}
<1>1. n \in Nat
  BY FilesAre
<1>2. \A k \in 1..n : FirstPiece(k) \in Nat /\ LastPiece(k) \in Nat /\ FirstPiece(k) <= LastPiece(k)
  <2>1. PieceCount \in Nat \ {0}
    BY SizesAre
  <2> QED
    BY <2>1, FilePiecesAre DEF ThePieces
<1>3. 0 \in T
  BY <1>1
<1>4. ASSUME NEW k \in 1..n, k - 1 \in T PROVE k \in T
  <2>1. CASE k - 1 \in 1..n
    <3>1. LastPiece(k - 1) <= FirstPiece(k)
      <4>1. (k - 1) + 1 = k
        OBVIOUS
      <4> QED
        BY <2>1, <4>1, FilePiecesAre
    <3>2. k > f => k - 1 = f \/ k - 1 > f
      OBVIOUS
    <3> QED
      BY <1>2, <1>4, <2>1, <3>1, <3>2, SMTT(40)
  <2>2. CASE k - 1 \notin 1..n
    BY <1>1, <2>2
  <2> QED
    BY <2>1, <2>2
<1>5. g \in T
  <2> HIDE DEF T
  <2>1. g \in 0..n
    BY <1>1
  <2> QED
    BY <1>1, <1>3, <1>4, <2>1, Climb
<1> QED
  BY <1>2, <1>5

FilesOn(p) == {f \in DOMAIN info.files : PieceHasFile(p, f)}

\* A file that has a piece with a later one shares its last piece with it.
LEMMA FilesShare ==
    ASSUME info \in Layouts, NEW p \in ThePieces, NEW f \in FilesOn(p), NEW g \in 1..Len(info.files)
    PROVE  /\ g < f => (g \in FilesOn(p) <=> p = FirstPiece(f) /\ \A h \in g..(f - 1) : LastPiece(h) = FirstPiece(f))
           /\ g > f => (g \in FilesOn(p) <=> p = LastPiece(f) /\ \A h \in (f + 1)..g : FirstPiece(h) = LastPiece(f))
           /\ g \in FilesOn(p) => \A h \in 1..Len(info.files) : (g <= h /\ h <= f) \/ (f <= h /\ h <= g) => h \in FilesOn(p)
<1> DEFINE n == Len(info.files)
<1>1. n \in Nat /\ DOMAIN info.files = 1..n /\ p \in Nat
  BY FilesAre DEF ThePieces
<1>2. \A k \in 1..n : FirstPiece(k) \in Nat /\ LastPiece(k) \in Nat /\ FirstPiece(k) <= LastPiece(k)
  <2>1. PieceCount \in Nat \ {0}
    BY SizesAre
  <2> QED
    BY <2>1, FilePiecesAre DEF ThePieces
<1>3. \A h, k \in 1..n : h < k => LastPiece(h) <= FirstPiece(k) /\ FirstPiece(h) <= FirstPiece(k) /\ LastPiece(h) <= LastPiece(k)
  BY FilesInOrder
<1>4. \A k \in 1..n : k \in FilesOn(p) <=> FirstPiece(k) <= p /\ p <= LastPiece(k)
  BY <1>1 DEF FilesOn, PieceHasFile
<1>5. f \in 1..n /\ FirstPiece(f) <= p /\ p <= LastPiece(f)
  BY <1>1, <1>4 DEF FilesOn
<1>6. ASSUME g < f PROVE g \in FilesOn(p) <=> p = FirstPiece(f) /\ \A h \in g..(f - 1) : LastPiece(h) = FirstPiece(f)
  <2>1. \A h \in g..(f - 1) : h \in 1..n /\ LastPiece(h) <= FirstPiece(f) /\ (g < h => LastPiece(g) <= LastPiece(h)) /\ (h = g \/ g < h)
    BY <1>1, <1>3, <1>5, <1>6
  <2>2. g \in g..(f - 1) /\ LastPiece(g) <= FirstPiece(f)
    BY <1>1, <1>3, <1>5, <1>6
  <2>3. ASSUME g \in FilesOn(p) PROVE p = FirstPiece(f) /\ \A h \in g..(f - 1) : LastPiece(h) = FirstPiece(f)
    <3>1. p = FirstPiece(f) /\ LastPiece(g) = p
      BY <1>1, <1>2, <1>4, <1>5, <2>2, <2>3
    <3> QED
      BY <1>1, <1>2, <2>1, <3>1
  <2>4. ASSUME p = FirstPiece(f), \A h \in g..(f - 1) : LastPiece(h) = FirstPiece(f) PROVE g \in FilesOn(p)
    BY <1>1, <1>2, <1>4, <2>2, <2>4
  <2> QED
    BY <2>3, <2>4
<1>7. ASSUME g > f PROVE g \in FilesOn(p) <=> p = LastPiece(f) /\ \A h \in (f + 1)..g : FirstPiece(h) = LastPiece(f)
  <2>1. \A h \in (f + 1)..g : h \in 1..n /\ LastPiece(f) <= FirstPiece(h) /\ (h < g => FirstPiece(h) <= FirstPiece(g)) /\ (h = g \/ h < g)
    BY <1>1, <1>3, <1>5, <1>7
  <2>2. g \in (f + 1)..g /\ LastPiece(f) <= FirstPiece(g)
    BY <1>1, <1>3, <1>5, <1>7
  <2>3. ASSUME g \in FilesOn(p) PROVE p = LastPiece(f) /\ \A h \in (f + 1)..g : FirstPiece(h) = LastPiece(f)
    <3>1. p = LastPiece(f) /\ FirstPiece(g) = p
      BY <1>1, <1>2, <1>4, <1>5, <2>2, <2>3
    <3> QED
      BY <1>1, <1>2, <2>1, <3>1
  <2>4. ASSUME p = LastPiece(f), \A h \in (f + 1)..g : FirstPiece(h) = LastPiece(f) PROVE g \in FilesOn(p)
    BY <1>1, <1>2, <1>4, <2>2, <2>4
  <2> QED
    BY <2>3, <2>4
<1>8. ASSUME g \in FilesOn(p), NEW h \in 1..n, (g <= h /\ h <= f) \/ (f <= h /\ h <= g) PROVE h \in FilesOn(p)
  <2>1. FirstPiece(g) <= p /\ p <= LastPiece(g)
    BY <1>4, <1>8
  <2>2. CASE h = f \/ h = g
    BY <1>8, <2>2
  <2>3. CASE h # f /\ h # g
    <3>1. (g < h /\ h < f) \/ (f < h /\ h < g)
      BY <1>1, <1>5, <1>8, <2>3
    <3>2. FirstPiece(h) <= p /\ p <= LastPiece(h)
      BY <1>1, <1>2, <1>3, <1>5, <2>1, <3>1
    <3> QED
      BY <1>4, <3>2
  <2> QED
    BY <2>2, <2>3
<1> QED
  BY <1>6, <1>7, <1>8

-----------------------------------------------------------------------------
(* Do not download *)
DndFits(d) ==
    /\ d \in [file : [DOMAIN info.files -> BOOLEAN], piece : [ThePieces -> BOOLEAN]]
    /\ \A p \in ThePieces : d.piece[p] <=> \A f \in FilesOn(p) : d.file[f]

LEMMA DndKept ==
    ASSUME info \in Layouts, NEW d, DndFits(d), NEW f \in DOMAIN info.files, NEW off \in BOOLEAN
    PROVE  DndFits(SetFileDND(d, f, off))
<1> DEFINE n == Len(info.files)
           file == [d.file EXCEPT ![f] = off]
           F == FirstPiece(f)
           L == LastPiece(f)
           first == off /\ \A g \in 1..(f - 1) : (\A h \in g..(f - 1) : LastPiece(h) = F) => file[g]
           last == off /\ \A g \in (f + 1)..n : (\A h \in (f + 1)..g : FirstPiece(h) = L) => file[g]
           piece == [p \in ThePieces |-> IF p = F /\ p = L THEN first /\ last
                                         ELSE IF p = F THEN first ELSE IF p = L THEN last
                                         ELSE IF PieceHasFile(p, f) THEN off ELSE d.piece[p]]
<1>1. n \in Nat /\ DOMAIN info.files = 1..n /\ f \in 1..n
  BY FilesAre
<1>2. SetFileDND(d, f, off) = [file |-> file, piece |-> piece]
  BY DEF SetFileDND
<1>3. d.file \in [1..n -> BOOLEAN] /\ d.piece \in [ThePieces -> BOOLEAN] /\ \A p \in ThePieces : d.piece[p] <=> \A g \in FilesOn(p) : d.file[g]
  BY <1>1 DEF DndFits
<1>4. file \in [1..n -> BOOLEAN] /\ file[f] = off /\ \A g \in 1..n : g # f => file[g] = d.file[g]
  BY <1>1, <1>3
<1>5. first \in BOOLEAN /\ last \in BOOLEAN
  OBVIOUS
<1>6. \A p \in ThePieces : piece[p] = (IF p = F /\ p = L THEN first /\ last
                                         ELSE IF p = F THEN first ELSE IF p = L THEN last
                                         ELSE IF PieceHasFile(p, f) THEN off ELSE d.piece[p])
  OBVIOUS
<1>7. piece \in [ThePieces -> BOOLEAN]
  BY <1>3, <1>5
<1>8. \A p \in ThePieces : FilesOn(p) \in SUBSET (1..n)
  BY <1>1 DEF FilesOn
<1>9. first <=> off /\ \A g \in 1..n : g < f /\ (\A h \in g..(f - 1) : LastPiece(h) = F) => file[g]
  <2>1. \A g \in 1..n : g < f <=> g \in 1..(f - 1)
    BY <1>1
  <2>2. \A g \in 1..(f - 1) : g \in 1..n
    BY <1>1
  <2> HIDE DEF file, F
  <2> QED
    BY <2>1, <2>2
<1>10. last <=> off /\ \A g \in 1..n : g > f /\ (\A h \in (f + 1)..g : FirstPiece(h) = L) => file[g]
  <2>1. \A g \in 1..n : g > f <=> g \in (f + 1)..n
    BY <1>1
  <2>2. \A g \in (f + 1)..n : g \in 1..n
    BY <1>1
  <2> HIDE DEF file, L
  <2> QED
    BY <2>1, <2>2
<1> HIDE DEF first, last, piece, file
<1>11. ASSUME NEW p \in ThePieces PROVE piece[p] <=> \A g \in FilesOn(p) : file[g]
  <2>1. CASE ~PieceHasFile(p, f)
    <3>1. f \notin FilesOn(p) /\ p # F /\ p # L
      <4>1. F <= L /\ F \in Int /\ L \in Int
        BY <1>1, FilePiecesAre, SizesAre, SMTT(40) DEF ThePieces
      <4> QED
        BY <2>1, <4>1 DEF FilesOn, PieceHasFile
    <3>2. piece[p] = d.piece[p]
      BY <1>6, <2>1, <3>1
    <3>3. \A g \in FilesOn(p) : file[g] = d.file[g]
      BY <1>4, <1>8, <3>1
    <3> QED
      BY <1>3, <3>2, <3>3
  <2>2. CASE PieceHasFile(p, f)
    <3>1. f \in FilesOn(p)
      BY <2>2 DEF FilesOn
    <3>2. \A g \in 1..n : /\ g < f => (g \in FilesOn(p) <=> p = F /\ \A h \in g..(f - 1) : LastPiece(h) = F)
                          /\ g > f => (g \in FilesOn(p) <=> p = L /\ \A h \in (f + 1)..g : FirstPiece(h) = L)
                          /\ g < f \/ g = f \/ g > f
      BY <1>1, <3>1, FilesShare
    <3>3. (\A g \in FilesOn(p) : file[g])
             <=> /\ off
                 /\ p = F => \A g \in 1..n : g < f /\ (\A h \in g..(f - 1) : LastPiece(h) = F) => file[g]
                 /\ p = L => \A g \in 1..n : g > f /\ (\A h \in (f + 1)..g : FirstPiece(h) = L) => file[g]
      <4> HIDE DEF F, L
      <4>1. ASSUME \A g \in FilesOn(p) : file[g]
            PROVE  /\ off
                   /\ p = F => \A g \in 1..n : g < f /\ (\A h \in g..(f - 1) : LastPiece(h) = F) => file[g]
                   /\ p = L => \A g \in 1..n : g > f /\ (\A h \in (f + 1)..g : FirstPiece(h) = L) => file[g]
        BY <1>4, <3>1, <3>2, <4>1
      <4>2. ASSUME off,
                   p = F => \A g \in 1..n : g < f /\ (\A h \in g..(f - 1) : LastPiece(h) = F) => file[g],
                   p = L => \A g \in 1..n : g > f /\ (\A h \in (f + 1)..g : FirstPiece(h) = L) => file[g],
                   NEW g \in FilesOn(p)
            PROVE  file[g]
        BY <1>4, <1>8, <3>2, <4>2
      <4> QED
        BY <4>1, <4>2
    <3>4. piece[p] = (IF p = F /\ p = L THEN first /\ last ELSE IF p = F THEN first ELSE IF p = L THEN last ELSE off)
      BY <1>6, <2>2
    <3> QED
      BY <1>5, <1>9, <1>10, <3>3, <3>4
  <2> QED
    BY <2>1, <2>2
<1> QED
  BY <1>1, <1>2, <1>4, <1>7, <1>11 DEF DndFits

-----------------------------------------------------------------------------
(* Priorities *)
Levels == {Low, Normal, High}
PriorityFits(pri) ==
    /\ pri \in [file : [DOMAIN info.files -> Levels], piece : [ThePieces -> Levels]]
    /\ \A p \in ThePieces : pri.piece[p] = Highest({LevelFor(pri.file, p, g) : g \in FilesOn(p)})

\* The walk from a file of the piece reaches the files of the piece, and no other.
LEMMA AroundIsAll ==
    ASSUME info \in Layouts, NEW p \in ThePieces, NEW f \in FilesOn(p)
    PROVE  FilesAround(p, f) = FilesOn(p)
<1> DEFINE n == Len(info.files)
<1>1. n \in Nat /\ DOMAIN info.files = 1..n /\ FilesOn(p) \in SUBSET (1..n) /\ f \in 1..n
  BY FilesAre DEF FilesOn
<1>2. \A h \in 1..n : h \in FilesOn(p) <=> PieceHasFile(p, h)
  BY <1>1 DEF FilesOn
<1>3. \A g \in FilesOn(p) : \A h \in 1..n : (g <= h /\ h <= f) \/ (f <= h /\ h <= g) => h \in FilesOn(p)
  BY <1>1, FilesShare
<1>4. ASSUME NEW g \in 1..n
      PROVE  g \in FilesOn(p) <=> \A h \in (IF g < f THEN g..(f - 1) ELSE f..g) : PieceHasFile(p, h)
  <2>1. ASSUME g \in FilesOn(p) PROVE \A h \in (IF g < f THEN g..(f - 1) ELSE f..g) : PieceHasFile(p, h)
    <3>1. \A h \in (IF g < f THEN g..(f - 1) ELSE f..g) : h \in 1..n /\ ((g <= h /\ h <= f) \/ (f <= h /\ h <= g))
      BY <1>1
    <3> QED
      BY <1>2, <1>3, <2>1, <3>1
  <2>2. ASSUME \A h \in (IF g < f THEN g..(f - 1) ELSE f..g) : PieceHasFile(p, h) PROVE g \in FilesOn(p)
    <3>1. g \in (IF g < f THEN g..(f - 1) ELSE f..g)
      BY <1>1
    <3> QED
      BY <1>2, <2>2, <3>1
  <2> QED
    BY <2>1, <2>2
<1> QED
  BY <1>1, <1>4 DEF FilesAround

\* A file of each piece is found by the search from the first.
LEMMA FirstFileIs ==
    ASSUME info \in Layouts, NEW p \in ThePieces
    PROVE  FirstFile(p) \in FilesOn(p)
<1> DEFINE n == Len(info.files)
           T == {f \in 1..n : LastPiece(f) >= p}
           Found(f) == LastPiece(f) >= p /\ \A g \in 1..(f - 1) : LastPiece(g) < p
<1>1. n \in Nat \ {0} /\ DOMAIN info.files = 1..n /\ p \in Nat /\ p <= PieceCount - 1 /\ PieceCount \in Nat \ {0}
  BY FilesAre, SizesAre DEF ThePieces
<1>2. \A k \in 1..n : FirstPiece(k) \in Nat /\ LastPiece(k) \in Nat /\ FirstPiece(k) <= LastPiece(k)
  BY <1>1, FilePiecesAre DEF ThePieces
<1>3. n \in T
  <2>1. n \in 1..n /\ info.files[n] \in Nat /\ Offset(n) \in Nat /\ Total = Offset(n) + info.files[n] /\ Total \in Nat \ {0}
    <3>1. n \in 1..n /\ n \in 1..(n + 1)
      BY <1>1
    <3> QED
      BY <3>1, FilesAre, OffsetsAre, SizesAre
  <2>2. BytePiece(Offset(n) + (IF info.files[n] > 0 THEN info.files[n] - 1 ELSE 0)) = PieceCount - 1
    <3>1. (Total - 1) \div info.piece = PieceCount - 1
      BY SizesAre
    <3>2. BytePiece(Total) = PieceCount - 1 /\ BytePiece(Total - 1) = PieceCount - 1
      BY <2>1, <3>1 DEF BytePiece
    <3>3. CASE info.files[n] = 0
      BY <2>1, <3>2, <3>3
    <3>4. CASE info.files[n] > 0
      <4>1. Offset(n) + (info.files[n] - 1) = Total - 1
        BY <2>1
      <4> QED
        BY <3>2, <3>4, <4>1
    <3> QED
      BY <2>1, <3>3, <3>4
  <2> QED
    BY <1>1, <2>1, <2>2 DEF LastPiece
<1>4. T \in SUBSET Nat
  BY <1>1
<1>5. PICK f \in T : \A g \in T : f <= g
  <2> HIDE DEF T
  <2> QED
    BY <1>3, <1>4, LeastNat
<1>6. f \in DOMAIN info.files /\ Found(f)
  <2>1. \A g \in 1..(f - 1) : g \in 1..n /\ g \notin T
    BY <1>1, <1>5
  <2> QED
    BY <1>1, <1>2, <1>5, <2>1
<1> DEFINE r == FirstFile(p)
<1>7. r \in DOMAIN info.files /\ Found(r)
  BY <1>6 DEF FirstFile
<1> HIDE DEF r
<1>8. FirstPiece(r) <= p
  <2>1. CASE r = 1
    <3>1. FirstPiece(1) = BytePiece(0) /\ Total \in Nat \ {0} /\ info.piece \in Nat \ {0}
      BY OffsetsAre, SizesAre DEF FirstPiece
    <3>2. 0 \div info.piece = 0
      <4>1. info.piece * 0 = 0
        BY <3>1
      <4>2. info.piece * 0 <= 0 /\ 0 < info.piece * 0 + info.piece
        BY <3>1, <4>1
      <4> QED
        BY <3>1, <4>2, DivUnique
    <3> QED
      BY <1>1, <2>1, <3>1, <3>2 DEF BytePiece
  <2>2. CASE r # 1
    <3>1. r - 1 \in 1..n /\ (r - 1) + 1 = r /\ r - 1 \in 1..(r - 1) /\ r \in 1..n
      BY <1>1, <1>7, <2>2
    <3>2. FirstPiece((r - 1) + 1) <= LastPiece(r - 1) + 1 /\ LastPiece(r - 1) < p
      BY <1>7, <3>1, FilePiecesAre
    <3>3. FirstPiece(r) \in Nat /\ LastPiece(r - 1) \in Nat
      BY <1>2, <3>1
    <3> QED
      BY <1>1, <3>1, <3>2, <3>3
  <2> QED
    BY <2>1, <2>2
<1>9. LastPiece(r) \in Nat
  BY <1>1, <1>2, <1>7
<1> QED
  BY <1>1, <1>7, <1>8, <1>9 DEF FilesOn, PieceHasFile, r

LEMMA PriorityKept ==
    ASSUME info \in Layouts, NEW pri, PriorityFits(pri), NEW f \in DOMAIN info.files, NEW level \in Levels
    PROVE  PriorityFits(InitFilePriority(pri, f, level))
<1> DEFINE file == [pri.file EXCEPT ![f] = level]
           piece == [p \in ThePieces |-> IF PieceHasFile(p, f) THEN PiecePriority(file, p, f) ELSE pri.piece[p]]
<1>1. InitFilePriority(pri, f, level) = [file |-> file, piece |-> piece]
  BY DEF InitFilePriority
<1>2. /\ pri.file \in [DOMAIN info.files -> Levels] /\ pri.piece \in [ThePieces -> Levels]
      /\ \A p \in ThePieces : pri.piece[p] = Highest({LevelFor(pri.file, p, g) : g \in FilesOn(p)})
  BY DEF PriorityFits
<1>3. file \in [DOMAIN info.files -> Levels] /\ \A g \in DOMAIN info.files : g # f => file[g] = pri.file[g]
  BY <1>2
<1>4. \A p \in ThePieces : piece[p] = IF PieceHasFile(p, f) THEN PiecePriority(file, p, f) ELSE pri.piece[p]
  OBVIOUS
<1>5. \A S : Highest(S) \in Levels
  BY DEF Highest, Levels
<1>6. piece \in [ThePieces -> Levels]
  BY <1>2, <1>5 DEF PiecePriority
<1> HIDE DEF file, piece
<1>7. ASSUME NEW p \in ThePieces PROVE piece[p] = Highest({LevelFor(file, p, g) : g \in FilesOn(p)})
  <2>1. CASE PieceHasFile(p, f)
    <3>1. FilesAround(p, f) = FilesOn(p)
      BY <2>1, AroundIsAll DEF FilesOn
    <3> QED
      BY <1>4, <2>1, <3>1 DEF PiecePriority
  <2>2. CASE ~PieceHasFile(p, f)
    <3>1. \A g \in FilesOn(p) : file[g] = pri.file[g]
      BY <1>3, <2>2 DEF FilesOn
    <3>2. \A g \in FilesOn(p) : LevelFor(file, p, g) = LevelFor(pri.file, p, g)
      BY <3>1 DEF LevelFor
    <3>3. {LevelFor(file, p, g) : g \in FilesOn(p)} = {LevelFor(pri.file, p, g) : g \in FilesOn(p)}
      BY <3>2
    <3> QED
      BY <1>2, <1>4, <2>2, <3>3
  <2> QED
    BY <2>1, <2>2
<1> QED
  BY <1>1, <1>3, <1>6, <1>7 DEF PriorityFits

\* As PriorityOfFiles says it, of any priorities that fit.
PriorityAnswers(pri) == \A p \in ThePieces :
    LET in == FilesOn(p)
        ends == {f \in in : p \in {FirstPiece(f), LastPiece(f)}}
    IN  /\ pri.piece[p] = High <=> (\E f \in in : pri.file[f] = High) \/ (\E f \in ends : pri.file[f] >= Normal)
        /\ pri.piece[p] = Low <=> \A f \in in : pri.file[f] = Low
LEMMA PriorityIs ==
    ASSUME info \in Layouts, NEW pri, PriorityFits(pri)
    PROVE  PriorityAnswers(pri)
<1> SUFFICES ASSUME NEW p \in ThePieces
             PROVE  /\ pri.piece[p] = High <=> \/ \E f \in FilesOn(p) : pri.file[f] = High
                                               \/ \E f \in {g \in FilesOn(p) : p \in {FirstPiece(g), LastPiece(g)}} : pri.file[f] >= Normal
                    /\ pri.piece[p] = Low <=> \A f \in FilesOn(p) : pri.file[f] = Low
  BY DEF PriorityAnswers
<1>1. \A f \in FilesOn(p) : pri.file[f] \in Levels
  BY DEF PriorityFits, FilesOn
<1>2. pri.piece[p] = Highest({LevelFor(pri.file, p, g) : g \in FilesOn(p)})
  BY DEF PriorityFits
<1>3. Highest({LevelFor(pri.file, p, g) : g \in FilesOn(p)}) =
         IF \E g \in FilesOn(p) : LevelFor(pri.file, p, g) = High THEN High
         ELSE IF \E g \in FilesOn(p) : LevelFor(pri.file, p, g) = Normal THEN Normal ELSE Low
  BY DEF Highest
<1>4. \A g \in FilesOn(p) :
         /\ LevelFor(pri.file, p, g) = High <=> pri.file[g] = High \/ (pri.file[g] >= Normal /\ p \in {FirstPiece(g), LastPiece(g)})
         /\ LevelFor(pri.file, p, g) = Normal => pri.file[g] = Normal
         /\ pri.file[g] = Normal => LevelFor(pri.file, p, g) \in {Normal, High}
         /\ pri.file[g] = Low => LevelFor(pri.file, p, g) = Low
  BY <1>1 DEF LevelFor, Levels, Low, Normal, High
<1>5. High # Low /\ High # Normal /\ Normal # Low
  BY DEF Low, Normal, High
<1>6. \A g \in FilesOn(p) : pri.file[g] # Low => pri.file[g] = High \/ pri.file[g] = Normal
  BY <1>1 DEF Levels
<1> QED
  BY <1>2, <1>3, <1>4, <1>5, <1>6

-----------------------------------------------------------------------------
(* What there is *)
WantedBytes(blocks, left) == {o \in Bytes : o \div BlockSize \in blocks \/ ~left[o \div info.piece]}
PiecesIn(blocks) == {p \in ThePieces : PieceBlocks(p) \subseteq blocks}
ValidBytes(blocks) == {o \in Bytes : o \div info.piece \in PiecesIn(blocks)}
CpFits(c, left) ==
    /\ c \in [blocks : SUBSET TheBlocks, sizeNow : Int, doneDirty : BOOLEAN, validDirty : BOOLEAN, done : Int, valid : Int]
    /\ c.sizeNow = Cardinality(BytesIn(c.blocks))
    /\ ~c.doneDirty => c.done = Cardinality(WantedBytes(c.blocks, left))
    /\ ~c.validDirty => c.valid = Cardinality(ValidBytes(c.blocks))

LEMMA PartsAre ==
    ASSUME info \in Layouts, NEW o \in Bytes
    PROVE  o \div info.piece \in ThePieces /\ o \div BlockSize \in TheBlocks
<1>1. info.piece \in Nat \ {0} /\ BlockSize \in Nat \ {0}
  BY SizesAre
<1> QED
  BY <1>1, ByteInPart DEF ThePieces, TheBlocks, PieceCount, BlockCount

\* A block begins with a byte of its own.
LEMMA BlockHasByte ==
    ASSUME info \in Layouts, NEW b \in TheBlocks
    PROVE  BlockSize * b \in Bytes /\ (BlockSize * b) \div BlockSize = b
<1>1. BlockSize \in Nat \ {0} /\ Total \in Nat \ {0} /\ BlockCount = CeilDiv(Total, BlockSize) /\ BlockCount \in Nat \ {0}
  BY SizesAre DEF BlockCount
<1>2. b \in 0..(CeilDiv(Total, BlockSize) - 1) /\ b \in Nat
  BY <1>1 DEF TheBlocks
<1>3. BlockSize * b \in Nat /\ PartLen(b, BlockSize) \in 1..BlockSize /\ BlockSize * b + PartLen(b, BlockSize) <= Total
  BY <1>1, <1>2, PartIs
<1>4. BlockSize * b \in Bytes
  BY <1>1, <1>3 DEF Bytes
<1>5. (BlockSize * b) \div BlockSize = b
  <2>1. BlockSize * b <= BlockSize * b /\ BlockSize * b < BlockSize * b + BlockSize
    BY <1>1, <1>3
  <2> QED
    BY <1>1, <1>2, <1>3, <2>1, DivUnique
<1> QED
  BY <1>4, <1>5

LEMMA BytesInAre ==
    ASSUME info \in Layouts, NEW S \in SUBSET TheBlocks, NEW R \in SUBSET TheBlocks
    PROVE  /\ BytesIn(S \cup R) = BytesIn(S) \cup BytesIn(R)
           /\ BytesIn(S \ R) = BytesIn(S) \ BytesIn(R)
           /\ BytesIn(S \cap R) = BytesIn(S) \cap BytesIn(R)
           /\ S \subseteq R <=> BytesIn(S) \subseteq BytesIn(R)
           /\ IsFiniteSet(BytesIn(S)) /\ Cardinality(BytesIn(S)) \in Nat
<1>1. BytesIn(S) \subseteq BytesIn(R) => S \subseteq R
  <2> SUFFICES ASSUME BytesIn(S) \subseteq BytesIn(R), NEW b \in S PROVE b \in R
    OBVIOUS
  <2>1. BlockSize * b \in Bytes /\ (BlockSize * b) \div BlockSize = b
    BY BlockHasByte
  <2> QED
    BY <2>1 DEF BytesIn
<1>2. BytesIn(S) \in SUBSET Bytes
  BY DEF BytesIn
<1> QED
  BY <1>1, <1>2, BytesAre DEF BytesIn

\* All the blocks are there if as many are.
LEMMA AllBlocksAre ==
    ASSUME info \in Layouts, cp.blocks \in SUBSET TheBlocks
    PROVE  /\ HasAllBlocks <=> cp.blocks = TheBlocks
           /\ \A S : CountIn(S) \in Nat /\ IsFiniteSet(cp.blocks \cap S)
           /\ IsFiniteSet(TheBlocks) /\ Cardinality(TheBlocks) = BlockCount
<1>1. BlockCount \in Nat \ {0}
  BY SizesAre
<1>2. IsFiniteSet(TheBlocks) /\ Cardinality(TheBlocks) = BlockCount
  <2>1. 0 \in Int /\ BlockCount - 1 \in Int
    BY <1>1
  <2>2. IsFiniteSet(0..(BlockCount - 1)) /\ Cardinality(0..(BlockCount - 1)) = IF 0 > BlockCount - 1 THEN 0 ELSE (BlockCount - 1) - 0 + 1
    BY <2>1, FS_Interval
  <2> QED
    BY <1>1, <2>2 DEF TheBlocks
<1>3. \A S : IsFiniteSet(cp.blocks \cap S) /\ CountIn(S) \in Nat
  <2> TAKE S
  <2>1. cp.blocks \cap S \in SUBSET TheBlocks
    OBVIOUS
  <2>2. IsFiniteSet(cp.blocks \cap S)
    BY <1>2, <2>1, FS_Subset
  <2> QED
    BY <2>2, FS_CardinalityType DEF CountIn
<1>4. cp.blocks \cap TheBlocks = cp.blocks
  OBVIOUS
<1>5. Cardinality(cp.blocks) = BlockCount <=> cp.blocks = TheBlocks
  BY <1>2, FS_Subset
<1>6. HasAllBlocks <=> cp.blocks = TheBlocks
  BY <1>4, <1>5 DEF HasAllBlocks, CountIn
<1> QED
  BY <1>2, <1>3, <1>6

LEMMA CompleteIs ==
    ASSUME info \in Layouts, cp.blocks \in SUBSET TheBlocks, NEW p \in ThePieces
    PROVE  /\ PieceComplete(p) <=> p \in PiecesIn(cp.blocks)
           /\ PieceComplete(p) <=> MissingBlocks(p) = 0
           /\ PieceBitfield = PiecesIn(cp.blocks)
<1>1. \A q \in ThePieces : PieceBlocks(q) \subseteq TheBlocks
  BY PieceBlocksAre
<1>2. HasAllBlocks <=> cp.blocks = TheBlocks
  BY AllBlocksAre
<1>3. \A q \in ThePieces : PieceComplete(q) <=> q \in PiecesIn(cp.blocks)
  BY <1>1, <1>2 DEF PieceComplete, PiecesIn
<1>4. PieceBitfield = PiecesIn(cp.blocks)
  BY <1>1, <1>2, <1>3 DEF PieceBitfield, PiecesIn
<1>5. PieceBlocks(p) \subseteq cp.blocks <=> Cardinality(PieceBlocks(p)) = CountIn(PieceBlocks(p))
  <2>1. IsFiniteSet(PieceBlocks(p))
    BY <1>1, AllBlocksAre, FS_Subset
  <2>2. cp.blocks \cap PieceBlocks(p) \in SUBSET PieceBlocks(p)
    OBVIOUS
  <2>3. Cardinality(PieceBlocks(p)) = Cardinality(cp.blocks \cap PieceBlocks(p)) => PieceBlocks(p) = cp.blocks \cap PieceBlocks(p)
    BY <2>1, <2>2, FS_Subset
  <2>4. PieceBlocks(p) \subseteq cp.blocks => PieceBlocks(p) = cp.blocks \cap PieceBlocks(p)
    OBVIOUS
  <2> QED
    BY <2>3, <2>4 DEF CountIn
<1>6. Cardinality(PieceBlocks(p)) \in Nat /\ CountIn(PieceBlocks(p)) \in Nat
  <2>1. IsFiniteSet(PieceBlocks(p))
    BY <1>1, AllBlocksAre, FS_Subset
  <2> QED
    BY <2>1, AllBlocksAre, FS_CardinalityType
<1>7. MissingBlocks(p) = 0 <=> HasAllBlocks \/ PieceBlocks(p) \subseteq cp.blocks
  BY <1>5, <1>6 DEF MissingBlocks
<1> QED
  BY <1>3, <1>4, <1>7 DEF PieceComplete

\* The two lazy sums, when they are made.
LEMMA ValidIs ==
    ASSUME info \in Layouts, cp.blocks \in SUBSET TheBlocks
    PROVE  ValidNow = Cardinality(ValidBytes(cp.blocks))
<1> DEFINE a == [k \in 1..PieceCount |-> IF PieceComplete(k - 1) THEN PieceBytes(k - 1) ELSE 0]
           W == ValidBytes(cp.blocks)
<1>1. info.piece \in Nat \ {0} /\ PieceCount \in Nat \ {0} /\ PieceCount = CeilDiv(Total, info.piece)
  BY SizesAre DEF PieceCount
<1>2. ASSUME NEW k \in 1..PieceCount PROVE a[k] = Cardinality({o \in W : o \div info.piece = k - 1})
  <2>1. k - 1 \in ThePieces /\ k - 1 \in 0..(CeilDiv(Total, info.piece) - 1)
    BY <1>1 DEF ThePieces
  <2>2. CASE k - 1 \in PiecesIn(cp.blocks)
    <3>1. {o \in W : o \div info.piece = k - 1} = {o \in Bytes : o \div info.piece = k - 1}
      BY <2>2 DEF ValidBytes
    <3>2. Cardinality({o \in Bytes : o \div info.piece = k - 1}) = PartLen(k - 1, info.piece)
      BY <1>1, <2>1, PartIs
    <3>3. a[k] = PartLen(k - 1, info.piece)
      BY <2>1, <2>2, CompleteIs, PieceBlocksAre
    <3> QED
      BY <3>1, <3>2, <3>3
  <2>3. CASE k - 1 \notin PiecesIn(cp.blocks)
    <3>1. {o \in W : o \div info.piece = k - 1} = {}
      BY <2>3 DEF ValidBytes
    <3>2. a[k] = 0
      BY <2>1, <2>3, CompleteIs
    <3> QED
      BY <3>1, <3>2, FS_EmptySet
  <2> QED
    BY <2>2, <2>3
<1>3. W \in SUBSET Bytes
  BY DEF ValidBytes
<1> HIDE DEF a, W
<1>4. SumOf(PieceCount, a) = Cardinality(W)
  BY <1>1, <1>2, <1>3, SumOverParts
<1> QED
  BY <1>4 DEF ValidNow, a, W

LEMMA DoneIs ==
    ASSUME info \in Layouts, cp.blocks \in SUBSET TheBlocks
    PROVE  DoneNow = Cardinality(WantedBytes(cp.blocks, dnd.piece))
<1> DEFINE a == [k \in 1..PieceCount |-> WantedOf(k - 1)]
           W == WantedBytes(cp.blocks, dnd.piece)
<1>1. info.piece \in Nat \ {0} /\ PieceCount \in Nat \ {0} /\ PieceCount = CeilDiv(Total, info.piece)
  BY SizesAre DEF PieceCount
<1>2. ASSUME NEW k \in 1..PieceCount PROVE a[k] = Cardinality({o \in W : o \div info.piece = k - 1})
  <2>1. k - 1 \in ThePieces /\ k - 1 \in 0..(CeilDiv(Total, info.piece) - 1)
    BY <1>1 DEF ThePieces
  <2>2. CASE ~dnd.piece[k - 1]
    <3>1. {o \in W : o \div info.piece = k - 1} = {o \in Bytes : o \div info.piece = k - 1}
      BY <2>2 DEF WantedBytes
    <3>2. Cardinality({o \in Bytes : o \div info.piece = k - 1}) = PartLen(k - 1, info.piece)
      BY <1>1, <2>1, PartIs
    <3>3. a[k] = PartLen(k - 1, info.piece)
      BY <2>1, <2>2, PieceBlocksAre DEF WantedOf
    <3> QED
      BY <3>1, <3>2, <3>3
  <2>3. CASE dnd.piece[k - 1]
    <3> DEFINE S == PieceBlocks(k - 1) \cap cp.blocks
    <3>1. {o \in W : o \div info.piece = k - 1} = BytesIn(S)
      <4>1. \A o \in Bytes : o \div info.piece = k - 1 <=> o \div BlockSize \in PieceBlocks(k - 1)
        BY <2>1, PieceBlocksAre
      <4> QED
        BY <2>3, <4>1 DEF WantedBytes, BytesIn
    <3>2. Cardinality(BytesIn(S)) = Cardinality(S) * BlockSize - (IF BlockCount - 1 \in S THEN BlockSize - LastOf(BlockSize) ELSE 0)
      BY CountBlocks
    <3>3. S = cp.blocks \cap PieceBlocks(k - 1)
      OBVIOUS
    <3>4. a[k] = CountIn(PieceBlocks(k - 1)) * BlockSize - (IF BlockCount - 1 \in S THEN BlockSize - LastOf(BlockSize) ELSE 0)
      BY <2>3 DEF WantedOf
    <3>5. CountIn(PieceBlocks(k - 1)) = Cardinality(S)
      BY <3>3 DEF CountIn
    <3> QED
      BY <3>1, <3>2, <3>4, <3>5
  <2> QED
    BY <2>2, <2>3
<1>3. W \in SUBSET Bytes
  BY DEF WantedBytes
<1>4. CASE HasAllBlocks
  <2>1. W = Bytes
    BY <1>4, AllBlocksAre, PartsAre DEF WantedBytes
  <2> QED
    BY <1>4, <2>1, BytesAre DEF DoneNow
<1>5. CASE ~HasAllBlocks
  <2> HIDE DEF a, W
  <2>1. SumOf(PieceCount, a) = Cardinality(W)
    BY <1>1, <1>2, <1>3, SumOverParts
  <2> QED
    BY <1>5, <2>1 DEF DoneNow, a, W
<1> QED
  BY <1>4, <1>5

-----------------------------------------------------------------------------
(* Blocks come and go *)
LEMMA ResetFits ==
    ASSUME info \in Layouts, NEW left
    PROVE  CpFits(Reset, left)
<1>1. BytesIn({}) = {}
  BY DEF BytesIn
<1> QED
  BY <1>1, FS_EmptySet DEF CpFits, Reset

LEMMA AddedFits ==
    ASSUME info \in Layouts, NEW left, NEW c, CpFits(c, left), NEW S \in SUBSET TheBlocks
    PROVE  CpFits(Added(c, S), left)
<1>1. CASE S \subseteq c.blocks
  BY <1>1 DEF Added
<1>2. CASE ~(S \subseteq c.blocks)
  <2> DEFINE new == S \ c.blocks
             d == Added(c, S)
  <2>1. /\ c \in [blocks : SUBSET TheBlocks, sizeNow : Int, doneDirty : BOOLEAN, validDirty : BOOLEAN, done : Int, valid : Int]
        /\ c.sizeNow = Cardinality(BytesIn(c.blocks))
    BY DEF CpFits
  <2>2. d = [c EXCEPT !.blocks = c.blocks \cup S, !.sizeNow = c.sizeNow + BytesOf(new), !.doneDirty = TRUE, !.validDirty = TRUE]
    BY <1>2 DEF Added
  <2>3. BytesOf(new) = Cardinality(BytesIn(new))
    BY BytesOfIs
  <2>4. BytesIn(c.blocks \cup new) = BytesIn(c.blocks) \cup BytesIn(new) /\ BytesIn(c.blocks) \cap BytesIn(new) = {}
    <3>1. c.blocks \cap new = {} /\ new \in SUBSET TheBlocks /\ c.blocks \in SUBSET TheBlocks
      BY <2>1
    <3> QED
      BY <3>1, BytesInAre DEF BytesIn
  <2>5. IsFiniteSet(BytesIn(c.blocks)) /\ IsFiniteSet(BytesIn(new))
    BY <2>1, BytesInAre
  <2>6. /\ Cardinality(BytesIn(new)) \in Nat /\ Cardinality(BytesIn(c.blocks)) \in Nat
        /\ Cardinality(BytesIn(c.blocks) \cup BytesIn(new)) = Cardinality(BytesIn(c.blocks)) + Cardinality(BytesIn(new))
    BY <2>4, <2>5, CountSum
  <2>7. c.blocks \cup S = c.blocks \cup new
    OBVIOUS
  <2>8. /\ d.blocks = c.blocks \cup S /\ d.sizeNow = c.sizeNow + BytesOf(new) /\ d.doneDirty = TRUE /\ d.validDirty = TRUE
        /\ d.done = c.done /\ d.valid = c.valid
    BY <2>1, <2>2
  <2> HIDE DEF new, d
  <2>9. d.sizeNow = Cardinality(BytesIn(d.blocks)) /\ d.sizeNow \in Int
    <3>1. d.blocks = c.blocks \cup new
      BY <2>7, <2>8
    <3>2. BytesIn(d.blocks) = BytesIn(c.blocks) \cup BytesIn(new)
      BY <2>4, <3>1, Zenon
    <3>3. Cardinality(BytesIn(d.blocks)) = Cardinality(BytesIn(c.blocks)) + Cardinality(BytesIn(new))
      BY <2>6, <3>2, Zenon
    <3> QED
      BY <2>1, <2>3, <2>6, <2>8, <3>3
  <2>10. d \in [blocks : SUBSET TheBlocks, sizeNow : Int, doneDirty : BOOLEAN, validDirty : BOOLEAN, done : Int, valid : Int]
    BY <2>1, <2>2, <2>8, <2>9
  <2> QED
    BY <2>8, <2>9, <2>10 DEF CpFits, d
<1> QED
  BY <1>1, <1>2

LEMMA RemovedFits ==
    ASSUME info \in Layouts, NEW left, NEW c, CpFits(c, left), NEW p \in ThePieces
    PROVE  CpFits(PieceRemoved(c, p), left)
<1> DEFINE P == PieceBlocks(p)
           gone == P \cap c.blocks
           d == PieceRemoved(c, p)
<1>1. /\ c \in [blocks : SUBSET TheBlocks, sizeNow : Int, doneDirty : BOOLEAN, validDirty : BOOLEAN, done : Int, valid : Int]
      /\ c.sizeNow = Cardinality(BytesIn(c.blocks))
  BY DEF CpFits
<1>2. d = [c EXCEPT !.blocks = c.blocks \ P, !.sizeNow = c.sizeNow - BytesOf(gone), !.doneDirty = TRUE, !.validDirty = TRUE]
  BY DEF PieceRemoved
<1>3. P \in SUBSET TheBlocks /\ gone \in SUBSET TheBlocks /\ c.blocks \ P \in SUBSET TheBlocks
  BY <1>1, PieceBlocksAre
<1>4. BytesOf(gone) = Cardinality(BytesIn(gone))
  BY <1>3, BytesOfIs
<1>5. BytesIn(c.blocks \ P) \cup BytesIn(gone) = BytesIn(c.blocks) /\ BytesIn(c.blocks \ P) \cap BytesIn(gone) = {}
  BY DEF BytesIn
<1>6. IsFiniteSet(BytesIn(c.blocks \ P)) /\ IsFiniteSet(BytesIn(gone))
  BY <1>3, BytesInAre
<1>7. /\ Cardinality(BytesIn(gone)) \in Nat /\ Cardinality(BytesIn(c.blocks \ P)) \in Nat
      /\ Cardinality(BytesIn(c.blocks)) = Cardinality(BytesIn(c.blocks \ P)) + Cardinality(BytesIn(gone))
  BY <1>5, <1>6, CountSum
<1>8. /\ d.blocks = c.blocks \ P /\ d.sizeNow = c.sizeNow - BytesOf(gone) /\ d.doneDirty = TRUE /\ d.validDirty = TRUE
      /\ d.done = c.done /\ d.valid = c.valid
  BY <1>1, <1>2
<1>9. d.sizeNow = Cardinality(BytesIn(d.blocks)) /\ d.sizeNow \in Int
  <2> HIDE DEF gone, P, d
  <2> QED
    BY <1>1, <1>4, <1>7, <1>8
<1>10. d \in [blocks : SUBSET TheBlocks, sizeNow : Int, doneDirty : BOOLEAN, validDirty : BOOLEAN, done : Int, valid : Int]
  <2> HIDE DEF gone, P
  <2> QED
    BY <1>1, <1>2, <1>3, <1>8, <1>9
<1> QED
  BY <1>8, <1>9, <1>10 DEF CpFits

LEMMA LoadedFits ==
    ASSUME info \in Layouts, NEW left, CpFits(cp, left), NEW S \in SUBSET TheBlocks
    PROVE  CpFits(BlocksInit(S), left)
<1> DEFINE d == BlocksInit(S)
           size == Cardinality(S) * BlockSize - (IF BlockCount - 1 \in S THEN BlockSize - LastOf(BlockSize) ELSE 0)
<1>1. cp.done \in Int /\ cp.valid \in Int
  BY DEF CpFits
<1>2. d = [Reset EXCEPT !.blocks = S, !.done = cp.done, !.valid = cp.valid, !.sizeNow = size]
  BY Zenon DEF BlocksInit
<1>3. size = Cardinality(BytesIn(S)) /\ Cardinality(BytesIn(S)) \in Nat
  <2>1. size = Cardinality(BytesIn(S))
    BY CountBlocks, Zenon
  <2>2. Cardinality(BytesIn(S)) \in Nat
    BY BytesInAre
  <2> QED
    BY <2>1, <2>2, Zenon
<1> HIDE DEF size, d
<1>4. d = [blocks |-> S, sizeNow |-> size, doneDirty |-> TRUE, validDirty |-> TRUE, done |-> cp.done, valid |-> cp.valid]
  BY <1>2 DEF Reset
<1> QED
  BY <1>1, <1>3, <1>4 DEF CpFits, d

-----------------------------------------------------------------------------
(* What is lacking of a piece, what there is of a file *)
LEMMA CountWhole ==
    ASSUME info \in Layouts, NEW S \in SUBSET TheBlocks
    PROVE  /\ BlockCount - 1 \notin S => Cardinality(BytesIn(S)) = Cardinality(S) * BlockSize
           /\ Cardinality(S) * BlockSize \in Nat
           /\ \A b \in TheBlocks : Cardinality(BytesIn({b})) = BlockBytes(b) /\ BlockBytes(b) \in Nat
<1>1. BlockSize \in Nat \ {0} /\ BlockCount \in Nat \ {0} /\ BlockCount = CeilDiv(Total, BlockSize)
  BY SizesAre DEF BlockCount
<1>2. Cardinality(S) \in Nat
  BY CountBlocks
<1>3. Cardinality(S) * BlockSize \in Nat
  <2>1. \A x, y \in Nat : x * y \in Nat
    BY SMT
  <2> QED
    BY <1>1, <1>2, <2>1
<1>4. ASSUME BlockCount - 1 \notin S PROVE Cardinality(BytesIn(S)) = Cardinality(S) * BlockSize
  <2>1. Cardinality(BytesIn(S)) = Cardinality(S) * BlockSize - 0
    BY <1>4, CountBlocks
  <2> QED
    BY <1>3, <2>1
<1>5. ASSUME NEW b \in TheBlocks PROVE Cardinality(BytesIn({b})) = BlockBytes(b) /\ BlockBytes(b) \in Nat
  <2>1. b \in 0..(CeilDiv(Total, BlockSize) - 1)
    BY <1>5, <1>1 DEF TheBlocks
  <2>2. Cardinality({o \in Bytes : o \div BlockSize = b}) = PartLen(b, BlockSize) /\ PartLen(b, BlockSize) \in 1..BlockSize
    BY <1>1, <2>1, PartIs
  <2>3. BytesIn({b}) = {o \in Bytes : o \div BlockSize = b}
    BY DEF BytesIn
  <2>4. PartLen(b, BlockSize) = BlockBytes(b)
    BY <1>1 DEF PartLen, BlockBytes
  <2> QED
    BY <1>1, <2>2, <2>3, <2>4
<1> QED
  BY <1>3, <1>4, <1>5

LEMMA MissingBytesIs ==
    ASSUME info \in Layouts, cp.blocks \in SUBSET TheBlocks, NEW p \in ThePieces
    PROVE  MissingBytes(p) = Cardinality({o \in Bytes : o \div info.piece = p /\ ~There(o)})
<1> DEFINE P == PieceBlocks(p)
           L == LastBlock(p)
           Before == FirstBlock(p)..(L - 1)
           X == cp.blocks \cap Before
           Y == cp.blocks \cap {L}
           lost == {o \in Bytes : o \div info.piece = p /\ ~There(o)}
<1>1. /\ FirstBlock(p) \in TheBlocks /\ L \in TheBlocks /\ FirstBlock(p) <= L /\ P \subseteq TheBlocks
      /\ \A o \in Bytes : o \div info.piece = p <=> o \div BlockSize \in P
      /\ Cardinality(BytesIn(P)) = PieceBytes(p)
  BY PieceBlocksAre
<1>2. BlockCount \in Nat \ {0} /\ FirstBlock(p) \in Nat /\ L \in Nat /\ L <= BlockCount - 1 /\ P = FirstBlock(p)..L
  BY <1>1, SizesAre DEF TheBlocks, PieceBlocks
<1>3. P = Before \cup {L} /\ L \notin Before /\ BlockCount - 1 \notin Before
  BY <1>1, <1>2
<1>4. lost = BytesIn(P \ cp.blocks)
  BY <1>1 DEF There, BytesIn
<1> HIDE DEF lost, P, L, Before
<1>5. BytesIn(X) \cup BytesIn(Y) = BytesIn(P \cap cp.blocks) /\ BytesIn(X) \cap BytesIn(Y) = {}
  BY <1>3 DEF BytesIn
<1>6. BytesIn(P \cap cp.blocks) \cup BytesIn(P \ cp.blocks) = BytesIn(P) /\ BytesIn(P \cap cp.blocks) \cap BytesIn(P \ cp.blocks) = {}
  BY DEF BytesIn
<1>7. X \in SUBSET TheBlocks /\ Y \in SUBSET TheBlocks /\ P \ cp.blocks \in SUBSET TheBlocks /\ P \cap cp.blocks \in SUBSET TheBlocks
  BY <1>1
<1>8. IsFiniteSet(BytesIn(X)) /\ IsFiniteSet(BytesIn(Y)) /\ IsFiniteSet(BytesIn(P \ cp.blocks)) /\ IsFiniteSet(BytesIn(P \cap cp.blocks))
  BY <1>7, BytesInAre, Zenon
<1>9. /\ Cardinality(BytesIn(X)) \in Nat /\ Cardinality(BytesIn(Y)) \in Nat
      /\ Cardinality(BytesIn(P \cap cp.blocks)) = Cardinality(BytesIn(X)) + Cardinality(BytesIn(Y))
  <2> HIDE DEF X, Y
  <2> QED
    BY <1>5, <1>8, CountSum
<1>10. /\ Cardinality(BytesIn(P \ cp.blocks)) \in Nat
       /\ Cardinality(BytesIn(P)) = Cardinality(BytesIn(P \cap cp.blocks)) + Cardinality(BytesIn(P \ cp.blocks))
  BY <1>6, <1>8, CountSum
<1>11. Cardinality(BytesIn(X)) = CountIn(Before) * BlockSize
  <2>1. BlockCount - 1 \notin X
    BY <1>3
  <2>2. Cardinality(BytesIn(X)) = Cardinality(X) * BlockSize
    BY <1>7, <2>1, CountWhole
  <2> QED
    BY <2>2 DEF CountIn
<1>12. Cardinality(BytesIn(Y)) = IF L \in cp.blocks THEN BlockBytes(L) ELSE 0
  <2>1. CASE L \in cp.blocks
    <3>1. Y = {L}
      BY <2>1
    <3>2. Cardinality(BytesIn({L})) = BlockBytes(L)
      BY <1>1, CountWhole
    <3> QED
      BY <2>1, <3>1, <3>2
  <2>2. CASE L \notin cp.blocks
    <3>1. BytesIn(Y) = {}
      BY <2>2 DEF BytesIn
    <3> QED
      BY <2>2, <3>1, FS_EmptySet
  <2> QED
    BY <2>1, <2>2
<1>13. CASE HasAllBlocks
  <2>1. P \ cp.blocks = {}
    BY <1>1, <1>13, AllBlocksAre
  <2>2. lost = {}
    BY <1>4, <2>1 DEF BytesIn
  <2> QED
    BY <1>13, <2>2, FS_EmptySet DEF MissingBytes, lost
<1>14. CASE ~HasAllBlocks
  <2>1. MissingBytes(p) = PieceBytes(p) - CountIn(Before) * BlockSize - (IF L \in cp.blocks THEN BlockBytes(L) ELSE 0)
    BY <1>14 DEF MissingBytes, L, Before
  <2>2. MissingBytes(p) = Cardinality(BytesIn(P)) - Cardinality(BytesIn(X)) - Cardinality(BytesIn(Y))
    BY <1>1, <1>11, <1>12, <2>1 DEF P
  <2>3. MissingBytes(p) = Cardinality(BytesIn(P \ cp.blocks))
    BY <1>9, <1>10, <2>2
  <2> QED
    BY <1>4, <2>3 DEF lost
<1> QED
  BY <1>13, <1>14

LEMMA FileSpan ==
    ASSUME info \in Layouts, NEW f \in DOMAIN info.files
    PROVE  /\ info.files[f] \in Nat /\ Offset(f) \in Nat /\ Offset(f) + info.files[f] <= Total
           /\ {o \in Bytes : Holds(f, o)} = Offset(f)..(Offset(f) + info.files[f] - 1)
           /\ Cardinality({o \in Bytes : Holds(f, o)}) = info.files[f]
<1> DEFINE n == Len(info.files)
<1>1. n \in Nat /\ f \in 1..n /\ info.files[f] \in Nat /\ f \in 1..(n + 1) /\ f + 1 \in 1..(n + 1) /\ n + 1 \in 1..(n + 1) /\ f + 1 <= n + 1
  BY FilesAre, SMTT(40)
<1>2. Offset(f) \in Nat /\ Offset(f + 1) = Offset(f) + info.files[f] /\ Offset(n + 1) = Total /\ Total \in Nat
  BY <1>1, OffsetsAre
<1>3. Offset(f) + info.files[f] <= Total
  BY <1>1, <1>2, OffsetsGrow
<1>4. {o \in Bytes : Holds(f, o)} = Offset(f)..(Offset(f) + info.files[f] - 1)
  BY <1>1, <1>2, <1>3 DEF Bytes, Holds
<1>5. Cardinality(Offset(f)..(Offset(f) + info.files[f] - 1)) = info.files[f]
  <2> DEFINE a == Offset(f)
             e == Offset(f) + info.files[f] - 1
  <2>1. a \in Int /\ e \in Int
    BY <1>1, <1>2
  <2>2. Cardinality(a..e) = IF a > e THEN 0 ELSE e - a + 1
    <3> HIDE DEF a, e
    <3> QED
      BY <2>1, FS_Interval
  <2> QED
    BY <1>1, <1>2, <2>2
<1> QED
  BY <1>1, <1>2, <1>3, <1>4, <1>5

\* The blocks at the ends of a file may hold bytes of others.
LEMMA FileBlocksAre ==
    ASSUME info \in Layouts, NEW f \in DOMAIN info.files, info.files[f] > 0
    PROVE  LET a == Offset(f)
               e == Offset(f) + info.files[f] - 1
           IN  /\ a \in Bytes /\ e \in Bytes /\ a <= e /\ a \in Nat /\ e \in Nat
               /\ a \div BlockSize \in TheBlocks /\ e \div BlockSize \in TheBlocks /\ a \div BlockSize <= e \div BlockSize
               /\ FileBlocks(f) = (a \div BlockSize)..(e \div BlockSize) /\ FileBlocks(f) \subseteq TheBlocks
               /\ \A o \in a..e : o \in Bytes /\ o \div BlockSize \in FileBlocks(f)
               /\ \A b \in FileBlocks(f) : \E o \in a..e : o \div BlockSize = b
<1> DEFINE a == Offset(f)
           e == Offset(f) + info.files[f] - 1
           first == a \div BlockSize
           last == e \div BlockSize
<1>1. info.files[f] \in Nat /\ a \in Nat /\ a + info.files[f] <= Total /\ Total \in Nat
  BY FileSpan, SizesAre
<1>2. a \in Bytes /\ e \in Bytes /\ a <= e /\ e \in Nat /\ \A o \in a..e : o \in Bytes /\ o \in Nat /\ a <= o /\ o <= e
  BY <1>1 DEF Bytes
<1>3. BlockSize \in Nat \ {0} /\ BlockCount \in Nat
  BY SizesAre
<1>4. FileBlocks(f) = first..last
  BY <1>1 DEF FileBlocks
<1> HIDE DEF e, a
<1>5. first \in TheBlocks /\ last \in TheBlocks /\ first \in Nat /\ last \in Nat
  BY <1>1, <1>2, <1>3, PartsAre, DivIs
<1>6. first <= last
  BY <1>1, <1>2, <1>3, DivMono
<1>7. FileBlocks(f) \subseteq TheBlocks
  BY <1>3, <1>4, <1>5 DEF TheBlocks
<1>8. \A o \in a..e : o \div BlockSize \in FileBlocks(f)
  <2> TAKE o \in a..e
  <2>1. first <= o \div BlockSize /\ o \div BlockSize <= last /\ o \div BlockSize \in Nat
    BY <1>1, <1>2, <1>3, DivIs, DivMono
  <2> HIDE DEF first, last
  <2> QED
    BY <1>4, <1>5, <2>1
<1>9. ASSUME NEW b \in FileBlocks(f) PROVE \E o \in a..e : o \div BlockSize = b
  <2>1. b \in TheBlocks /\ first <= b /\ b <= last /\ b \in Nat
    BY <1>4, <1>5, <1>7
  <2>2. CASE b = first
    BY <1>1, <1>2, <2>2
  <2>3. CASE b # first
    <3>1. BlockSize * b \in Bytes /\ (BlockSize * b) \div BlockSize = b
      BY <2>1, BlockHasByte
    <3>2. BlockSize * b \in Nat
      BY <1>1, <3>1 DEF Bytes
    <3>3. a < BlockSize * first + BlockSize /\ BlockSize * last <= e
      BY <1>1, <1>2, <1>3, DivIs
    <3> HIDE DEF first, last
    <3>4. BlockSize * first + BlockSize <= BlockSize * b
      BY <1>3, <1>5, <2>1, <2>3, TimesMono
    <3>5. BlockSize * b <= BlockSize * last
      BY <1>3, <1>5, <2>1, TimesMono
    <3>6. BlockSize * first \in Int /\ BlockSize * last \in Int
      BY <1>3, <1>5, TimesMono
    <3>7. BlockSize * b \in a..e
      BY <1>1, <1>2, <1>3, <3>2, <3>3, <3>4, <3>5, <3>6
    <3> QED
      BY <3>1, <3>7
  <2> QED
    BY <2>2, <2>3
<1> QED
  BY <1>1, <1>2, <1>4, <1>5, <1>6, <1>7, <1>8, <1>9 DEF a, e

LEMMA FileBytesAre ==
    ASSUME info \in Layouts, cp.blocks \in SUBSET TheBlocks, NEW f \in DOMAIN info.files
    PROVE  FileBytes(f) = Cardinality({o \in Bytes : There(o) /\ Holds(f, o)})
<1> DEFINE B == BlockSize
           a == Offset(f)
           e == Offset(f) + info.files[f] - 1
           first == a \div B
           last == e \div B
           had == {o \in Bytes : There(o) /\ Holds(f, o)}
<1>1. info.files[f] \in Nat /\ Offset(f) \in Nat /\ {o \in Bytes : Holds(f, o)} = a..e
  BY FileSpan
<1>2. had = {o \in a..e : o \div B \in cp.blocks}
  BY <1>1 DEF There
<1>3. CASE info.files[f] = 0
  <2>1. had = {}
    BY <1>1, <1>2, <1>3
  <2> QED
    BY <1>3, <2>1, FS_EmptySet DEF FileBytes
<1>4. CASE info.files[f] # 0
  <2>1. /\ a \in Bytes /\ e \in Bytes /\ a <= e /\ a \in Nat /\ e \in Nat
        /\ first \in TheBlocks /\ last \in TheBlocks /\ first <= last /\ FileBlocks(f) = first..last
        /\ \A o \in a..e : o \in Bytes /\ o \div B \in FileBlocks(f)
    BY <1>1, <1>4, FileBlocksAre
  <2>2. B \in Nat \ {0} /\ BlockCount \in Nat \ {0} /\ first \in Nat /\ last \in Nat /\ last <= BlockCount - 1
    BY <2>1, SizesAre DEF TheBlocks
  <2>3. CASE first = last
    <3>1. FileBytes(f) = IF first \in cp.blocks THEN info.files[f] ELSE 0
      BY <1>4, <2>3 DEF FileBytes
    <3>2. \A o \in a..e : o \div B = first
      <4> HIDE DEF first, last, a, e
      <4> QED
        BY <2>1, <2>2, <2>3
    <3>3. had = IF first \in cp.blocks THEN a..e ELSE {}
      BY <1>2, <3>2
    <3>4. Cardinality(a..e) = info.files[f]
      BY <1>1, FileSpan
    <3> QED
      BY <3>1, <3>3, <3>4, FS_EmptySet
  <2>4. CASE first # last
    <3> DEFINE A == {o \in a..e : o \div B = first /\ first \in cp.blocks}
               Z == {o \in a..e : o \div B = last /\ last \in cp.blocks}
               inner == cp.blocks \cap ((first + 1)..(last - 1))
               M == BytesIn(inner)
               start == IF first \in cp.blocks THEN B - (a % B) ELSE 0
               end == IF last \in cp.blocks THEN e + 1 - B * last ELSE 0
    <3>1. FileBytes(f) = start + CountIn((first + 1)..(last - 1)) * B + end
      <4>1. FileBytes(f) = start + CountIn((first + 1)..(last - 1)) * B
                             + (IF last \in cp.blocks THEN Offset(f) + info.files[f] - B * last ELSE 0)
        BY <1>4, <2>4 DEF FileBytes
      <4>2. e + 1 - B * last = Offset(f) + info.files[f] - B * last
        <5> DEFINE y == B * last
        <5>1. y \in Int
          BY <2>2, TimesMono
        <5> HIDE DEF y
        <5>2. e + 1 - y = Offset(f) + info.files[f] - y
          BY <1>1, <5>1
        <5> QED
          BY <5>2 DEF y
      <4> QED
        BY <4>1, <4>2, Zenon
    <3> HIDE DEF a, e
    <3>2. /\ B * first <= a /\ a < B * first + B /\ a % B = a - B * first
          /\ B * last <= e /\ e < B * last + B
      BY <2>1, <2>2, DivIs
    <3>3. /\ \A o \in a..e : o \div B \in Nat /\ first <= o \div B /\ o \div B <= last /\ o \in Nat
          /\ \A o \in Bytes : o \in Nat /\ o \div B \in Nat
      <4>1. \A o \in Bytes : o \in Nat
        BY SizesAre DEF Bytes
      <4>2. \A o \in Bytes : o \div B \in Nat
        BY <2>2, <4>1, DivIs
      <4> HIDE DEF first, last
      <4>3. \A o \in a..e : o \in Bytes /\ o \div B \in first..last
        BY <2>1
      <4>4. \A k \in first..last : first <= k /\ k <= last
        BY <2>2
      <4> QED
        BY <4>1, <4>2, <4>3, <4>4, Zenon
    <3>4. \A o \in Bytes : first < o \div B /\ o \div B < last => o \in a..e
      <4> TAKE o \in Bytes
      <4>1. ASSUME o <= a PROVE o \div B <= a \div B
        BY <2>1, <2>2, <3>3, <4>1, DivMono
      <4>2. ASSUME e <= o PROVE e \div B <= o \div B
        BY <2>1, <2>2, <3>3, <4>2, DivMono
      <4> QED
        BY <2>1, <2>2, <3>3, <4>1, <4>2
    <3> HIDE DEF first, last
    <3>5. first < last /\ first + 1 <= last
      BY <2>1, <2>2, <2>4
    <3>6. had = (A \cup M) \cup Z /\ (A \cup M) \cap Z = {} /\ A \cap M = {}
      <4>1. \A o \in a..e : /\ o \div B = first \/ o \div B \in (first + 1)..(last - 1) \/ o \div B = last
                            /\ ~(o \div B = first /\ o \div B = last)
                            /\ ~(o \div B = first /\ o \div B \in (first + 1)..(last - 1))
                            /\ ~(o \div B = last /\ o \div B \in (first + 1)..(last - 1))
        BY <2>2, <3>3, <3>5
      <4>2. M = {o \in a..e : o \div B \in cp.blocks /\ o \div B \in (first + 1)..(last - 1)}
        <5>1. \A o \in Bytes : o \div B \in (first + 1)..(last - 1) => o \in a..e
          BY <2>2, <3>3, <3>4
        <5>2. M = {o \in Bytes : o \div B \in cp.blocks /\ o \div B \in (first + 1)..(last - 1)}
          BY DEF BytesIn
        <5> HIDE DEF M
        <5> QED
          BY <2>1, <5>1, <5>2
      <4> HIDE DEF M
      <4> QED
        BY <1>2, <4>1, <4>2
    <3>7. IsFiniteSet(A) /\ IsFiniteSet(M) /\ IsFiniteSet(Z)
      <4>1. A \in SUBSET Bytes /\ M \in SUBSET Bytes /\ Z \in SUBSET Bytes
        BY <2>1 DEF BytesIn
      <4> QED
        BY <4>1, BytesAre
    <3>8. Cardinality(M) = CountIn((first + 1)..(last - 1)) * B /\ Cardinality(M) \in Nat
      <4>1. inner \in SUBSET TheBlocks /\ BlockCount - 1 \notin inner
        BY <2>2
      <4>2. Cardinality(BytesIn(inner)) = Cardinality(inner) * B /\ Cardinality(inner) * B \in Nat
        BY <4>1, CountWhole
      <4> QED
        BY <4>2 DEF CountIn
    <3> DEFINE x == B * first
               y == B * last
    <3>9. x \in Int /\ y \in Int /\ x + B <= y /\ x <= a /\ a < x + B /\ y <= e /\ e < y + B /\ a % B = a - x
      BY <2>2, <3>2, <3>5, TimesMono
    <3>10. \A o \in a..e : /\ o \div B = first <=> x <= o /\ o < x + B
                           /\ o \div B = last <=> y <= o /\ o < y + B
      BY <2>2, <3>3, DivUnique
    <3> HIDE DEF x, y
    <3>11. Cardinality(A) = start /\ start \in Nat
      <4>1. CASE first \in cp.blocks
        <5>1. A = {o \in a..e : x <= o /\ o < x + B}
          BY <3>10, <4>1
        <5>2. B \in Nat /\ a \in Nat /\ e \in Nat /\ x \in Int /\ y \in Int /\ x <= a /\ a < x + B /\ x + B <= y /\ y <= e /\ e < y + B
          BY <2>1, <2>2, <3>9
        <5>3. Cardinality(A) = x + B - a
          <6> HIDE DEF A, B
          <6> QED
            <7> DEFINE b == x + B - 1
            <7>1. b \in Int /\ b >= a /\ (b - a) + 1 = x + B - a
              BY <5>2
            <7>2. {o \in a..e : x <= o /\ o < x + B} = a..b
              BY <5>2
            <7> HIDE DEF b
            <7>3. Cardinality(a..b) = IF a > b THEN 0 ELSE b - a + 1
              BY <5>2, <7>1, FS_Interval
            <7>4. Cardinality(a..b) = x + B - a
              BY <5>2, <7>1, <7>3
            <7> QED
              BY <5>1, <7>2, <7>4, Zenon
        <5>4. start = B - (a - x)
          BY <3>9, <4>1
        <5> HIDE DEF A, start
        <5> QED
          BY <2>1, <2>2, <3>9, <5>3, <5>4
      <4>2. CASE first \notin cp.blocks
        <5>1. A = {}
          BY <4>2
        <5> QED
          BY <4>2, <5>1, FS_EmptySet
      <4> QED
        BY <4>1, <4>2
    <3>12. Cardinality(Z) = end /\ end \in Nat
      <4>1. CASE last \in cp.blocks
        <5>1. Z = {o \in a..e : y <= o /\ o < y + B}
          BY <3>10, <4>1
        <5>2. B \in Nat /\ a \in Nat /\ e \in Nat /\ x \in Int /\ y \in Int /\ x <= a /\ a < x + B /\ x + B <= y /\ y <= e /\ e < y + B
          BY <2>1, <2>2, <3>9
        <5>3. Cardinality(Z) = e + 1 - y
          <6> HIDE DEF Z, B
          <6> QED
            <7>1. {o \in a..e : y <= o /\ o < y + B} = y..e
              BY <5>2
            <7>2. Cardinality(y..e) = IF y > e THEN 0 ELSE e - y + 1
              BY <5>2, FS_Interval
            <7>3. Cardinality(y..e) = e + 1 - y
              BY <5>2, <7>2
            <7> QED
              BY <5>1, <7>1, <7>3, Zenon
        <5>4. end = e + 1 - y
          BY <4>1 DEF y
        <5> HIDE DEF Z, end
        <5> QED
          BY <2>1, <3>9, <5>3, <5>4
      <4>2. CASE last \notin cp.blocks
        <5>1. Z = {}
          BY <4>2
        <5> QED
          BY <4>2, <5>1, FS_EmptySet
      <4> QED
        BY <4>1, <4>2
    <3> HIDE DEF A, M, Z, start, end
    <3>13. IsFiniteSet(A \cup M) /\ Cardinality(A \cup M) = Cardinality(A) + Cardinality(M)
      BY <3>6, <3>7, CountSum
    <3>14. Cardinality((A \cup M) \cup Z) = Cardinality(A \cup M) + Cardinality(Z)
      <4> DEFINE U == A \cup M
      <4> HIDE DEF U
      <4>1. Cardinality(U \cup Z) = Cardinality(U) + Cardinality(Z)
        BY <3>6, <3>7, <3>13, CountSum DEF U
      <4> QED
        BY <4>1 DEF U
    <3> QED
      BY <3>1, <3>6, <3>8, <3>11, <3>12, <3>13, <3>14
  <2> QED
    BY <2>3, <2>4
<1> QED
  BY <1>3, <1>4

LEMMA FileCompleteIs ==
    ASSUME info \in Layouts, cp.blocks \in SUBSET TheBlocks, NEW f \in DOMAIN info.files
    PROVE  FileIsComplete(f) <=> FileBytes(f) = info.files[f]
<1> DEFINE a == Offset(f)
           e == Offset(f) + info.files[f] - 1
           had == {o \in Bytes : There(o) /\ Holds(f, o)}
           all == {o \in Bytes : Holds(f, o)}
<1>1. info.files[f] \in Nat /\ all = a..e /\ Cardinality(all) = info.files[f]
  BY FileSpan
<1>2. FileBytes(f) = Cardinality(had)
  BY FileBytesAre
<1>3. IsFiniteSet(all) /\ had \in SUBSET all
  BY BytesAre
<1>4. Cardinality(had) = info.files[f] <=> had = all
  <2> HIDE DEF had, all
  <2> QED
    BY <1>1, <1>3, FS_Subset
<1>5. CASE info.files[f] = 0
  <2>1. all = {}
    BY <1>1, <1>3, <1>5, FS_EmptySet
  <2> QED
    BY <1>2, <1>3, <1>4, <1>5, <2>1 DEF FileIsComplete
<1>6. CASE info.files[f] # 0
  <2>1. /\ \A o \in a..e : o \in Bytes /\ o \div BlockSize \in FileBlocks(f)
        /\ \A b \in FileBlocks(f) : \E o \in a..e : o \div BlockSize = b
    BY <1>1, <1>6, FileBlocksAre
  <2>2. had = all <=> \A o \in a..e : o \div BlockSize \in cp.blocks
    BY <1>1, <2>1 DEF There
  <2>3. (\A o \in a..e : o \div BlockSize \in cp.blocks) <=> FileBlocks(f) \subseteq cp.blocks
    <3> HIDE DEF a, e
    <3> QED
      BY <2>1
  <2> QED
    BY <1>2, <1>4, <1>6, <2>2, <2>3 DEF FileIsComplete
<1> QED
  BY <1>5, <1>6

-----------------------------------------------------------------------------
(* The places of a byte *)
LEMMA EndsGrow ==
    ASSUME info \in Layouts
    PROVE  /\ \A f \in 1..Len(info.files) : Offset(f) \in Nat /\ info.files[f] \in Nat /\ Offset(f) + info.files[f] <= Total
           /\ \A f, g \in 1..Len(info.files) : f < g => Offset(f) + info.files[f] <= Offset(g)
           /\ \A f \in 1..Len(info.files) : f + 1 \in 1..Len(info.files) => Offset(f) + info.files[f] = Offset(f + 1)
           /\ Offset(Len(info.files)) + info.files[Len(info.files)] = Total
<1> DEFINE n == Len(info.files)
<1>1. n \in Nat \ {0} /\ DOMAIN info.files = 1..n
  BY FilesAre
<1>2. \A f \in 1..n : Offset(f) \in Nat /\ info.files[f] \in Nat /\ Offset(f) + info.files[f] <= Total
  BY <1>1, FileSpan
<1>3. /\ \A f \in 1..n : Offset(f + 1) = Offset(f) + info.files[f]
      /\ Offset(n + 1) = Total
  BY OffsetsAre
<1>4. ASSUME NEW f \in 1..n, NEW g \in 1..n, f < g PROVE Offset(f) + info.files[f] <= Offset(g)
  <2>1. f + 1 \in 1..(n + 1) /\ g \in 1..(n + 1) /\ f + 1 <= g
    BY <1>1, <1>4
  <2>2. Offset(f + 1) <= Offset(g)
    BY <2>1, OffsetsGrow
  <2> QED
    BY <1>3, <2>2
<1>5. n \in 1..n
  BY <1>1
<1>6. Offset(n) + info.files[n] = Total
  BY <1>3, <1>5
<1> QED
  BY <1>2, <1>3, <1>4, <1>6

LEMMA FileAtIs ==
    ASSUME info \in Layouts, NEW o \in Bytes
    PROVE  FileAt(o) \in DOMAIN info.files /\ Holds(FileAt(o), o)
<1> DEFINE n == Len(info.files)
           T == {k \in 0..n : o < Offset(k + 1) => \E f \in 1..k : Holds(f, o)}
<1>1. n \in Nat /\ DOMAIN info.files = 1..n /\ o \in Nat /\ o < Total
  BY FilesAre, SizesAre, SMTT(40) DEF Bytes
<1>2. /\ Offset(1) = 0 /\ Offset(n + 1) = Total
      /\ \A f \in 1..(n + 1) : Offset(f) \in Nat
      /\ \A f \in 1..n : Offset(f + 1) = Offset(f) + info.files[f]
  BY OffsetsAre
<1>3. 0 \in T
  <2>1. 0 + 1 = 1 /\ 0 \in 0..n
    BY <1>1
  <2> QED
    BY <1>1, <1>2, <2>1
<1>4. ASSUME NEW k \in 1..n, k - 1 \in T PROVE k \in T
  <2> SUFFICES ASSUME o < Offset(k + 1) PROVE \E f \in 1..k : Holds(f, o)
    OBVIOUS
  <2>1. (k - 1) + 1 = k /\ k \in 1..k /\ k \in 1..(n + 1) /\ \A f \in 1..(k - 1) : f \in 1..k
    BY <1>1
  <2>2. CASE o < Offset(k)
    BY <1>4, <2>1, <2>2
  <2>3. CASE ~(o < Offset(k))
    <3>1. Holds(k, o)
      BY <1>1, <1>2, <2>1, <2>3 DEF Holds
    <3> QED
      BY <2>1, <3>1
  <2> QED
    BY <2>2, <2>3
<1>5. n \in T
  <2> HIDE DEF T, n
  <2>1. \A k \in 0..n : k \in T
    BY <1>1, <1>3, <1>4, Climb
  <2> QED
    BY <1>1, <2>1
<1>6. \E f \in DOMAIN info.files : Offset(f) <= o /\ o < Offset(f) + info.files[f]
  BY <1>1, <1>2, <1>5 DEF Holds
<1> QED
  BY <1>6 DEF FileAt, Holds

\* A read goes through the files it has bytes of, and some of no length between them.
LEMMA FilesOfIs ==
    ASSUME info \in Layouts, NEW o \in Bytes, NEW len \in Nat \ {0}, o + len <= Total
    PROVE  {f \in FilesOf(o, len) : info.files[f] > 0} = {f \in DOMAIN info.files : \E x \in o..(o + len - 1) : Holds(f, x)}
<1> DEFINE n == Len(info.files)
           a == FileAt(o)
           Stops(g) == Offset(g) + info.files[g] >= o + len /\ \A h \in a..(g - 1) : Offset(h) + info.files[h] < o + len
           T == {g \in a..n : Offset(g) + info.files[g] >= o + len}
           last == CHOOSE g \in a..n : Stops(g)
<1>1. n \in Nat \ {0} /\ DOMAIN info.files = 1..n /\ o \in Nat /\ Total \in Nat
  BY FilesAre, SizesAre DEF Bytes
<1>2. a \in 1..n /\ Offset(a) <= o /\ o < Offset(a) + info.files[a]
  BY <1>1, FileAtIs DEF Holds
<1>3. FilesOf(o, len) = a..last
  BY DEF FilesOf
<1> HIDE DEF a
<1>4. /\ \A f \in 1..n : Offset(f) \in Nat /\ info.files[f] \in Nat
      /\ \A f, g \in 1..n : f < g => Offset(f) + info.files[f] <= Offset(g)
      /\ \A f \in 1..n : f + 1 \in 1..n => Offset(f) + info.files[f] = Offset(f + 1)
      /\ Offset(n) + info.files[n] = Total
  BY EndsGrow
<1>5. T \in SUBSET Nat /\ n \in T
  BY <1>1, <1>2, <1>4
<1>6. PICK g \in T : \A h \in T : g <= h
  <2> HIDE DEF T
  <2> QED
    BY <1>5, LeastNat
<1>7. g \in a..n /\ Stops(g)
  <2>1. \A h \in a..(g - 1) : h \in a..n /\ h \notin T
    BY <1>1, <1>2, <1>6
  <2>2. \A h \in a..n : h \notin T => Offset(h) + info.files[h] < o + len
    BY <1>1, <1>2, <1>4, SMTT(40)
  <2> QED
    BY <1>6, <2>1, <2>2
<1>8. last \in a..n /\ Stops(last)
  BY <1>7
<1> HIDE DEF last
<1>9. ASSUME NEW f \in a..last, info.files[f] > 0 PROVE f \in 1..n /\ \E x \in o..(o + len - 1) : Holds(f, x)
  <2>1. f \in 1..n
    BY <1>1, <1>2, <1>8
  <2>2. CASE f = a
    <3>1. o \in o..(o + len - 1)
      BY <1>1
    <3> QED
      BY <1>2, <2>1, <2>2, <3>1 DEF Holds
  <2>3. CASE f # a
    <3>1. f - 1 \in 1..n /\ f - 1 \in a..(last - 1) /\ (f - 1) + 1 = f /\ a < f
      BY <1>1, <1>2, <1>8, <2>1, <2>3
    <3>2. Offset(f - 1) + info.files[f - 1] = Offset(f) /\ Offset(f - 1) + info.files[f - 1] < o + len
      BY <1>4, <1>8, <2>1, <3>1
    <3>3. Offset(a) + info.files[a] <= Offset(f)
      BY <1>2, <1>4, <2>1, <3>1
    <3>4. Offset(f) \in o..(o + len - 1)
      BY <1>1, <1>2, <1>4, <2>1, <3>2, <3>3, SMTT(40)
    <3>5. Holds(f, Offset(f))
      BY <1>4, <1>9, <2>1 DEF Holds
    <3> QED
      BY <2>1, <3>4, <3>5
  <2> QED
    BY <2>2, <2>3
<1>10. ASSUME NEW f \in 1..n, NEW x \in o..(o + len - 1), Holds(f, x) PROVE f \in a..last /\ info.files[f] > 0
  <2>1. Offset(f) <= x /\ x < Offset(f) + info.files[f] /\ x \in Nat /\ o <= x /\ x < o + len
    BY <1>1, <1>10 DEF Holds
  <2>2. info.files[f] > 0
    BY <1>4, <2>1
  <2>3. ~(f < a)
    BY <1>1, <1>2, <1>4, <2>1, SMTT(40)
  <2>4. ~(last < f)
    <3>1. last \in 1..n /\ Offset(last) + info.files[last] >= o + len
      BY <1>1, <1>2, <1>8
    <3> QED
      BY <1>1, <1>4, <2>1, <3>1
  <2> QED
    BY <1>1, <1>2, <1>8, <2>2, <2>3, <2>4
<1> QED
  BY <1>1, <1>3, <1>9, <1>10

LEMMA PlacesAre ==
    ASSUME info \in Layouts
    PROVE  PlacesAgree
<1> SUFFICES ASSUME NEW o \in Bytes
             PROVE  LET p == o \div info.piece
                        b == BlockAt(p, o % info.piece)
                    IN  /\ b = o \div BlockSize /\ b \in PieceBlocks(p) /\ BlockAt(BlockLocation(b)[1], BlockLocation(b)[2]) = b
                        /\ b \in FileBlocks(FileAt(o)) /\ PieceHasFile(p, FileAt(o))
                        /\ \A len \in 1..Least(BlockSize, Total - o) :
                              {f \in FilesOf(o, len) : info.files[f] > 0} = {f \in DOMAIN info.files : \E x \in o..(o + len - 1) : Holds(f, x)}
  BY DEF PlacesAgree
<1> DEFINE p == o \div info.piece
           b == o \div BlockSize
           f == FileAt(o)
<1>1. /\ o \in Nat /\ o < Total /\ Total \in Nat \ {0} /\ info.piece \in Nat \ {0} /\ BlockSize \in Nat \ {0}
      /\ p \in ThePieces /\ b \in TheBlocks /\ b \in Nat
  <2>1. o \in Nat /\ o < Total /\ Total \in Nat \ {0} /\ info.piece \in Nat \ {0} /\ BlockSize \in Nat \ {0}
    BY SizesAre DEF Bytes
  <2> QED
    BY <2>1, PartsAre, DivIs
<1>2. BlockAt(p, o % info.piece) = b
  BY <1>1, BlocksDivide
<1>3. b \in PieceBlocks(p)
  BY <1>1, PieceBlocksAre
<1>4. BlockAt(BlockLocation(b)[1], BlockLocation(b)[2]) = b
  <2>1. (BlockSize * b) \div BlockSize = b /\ BlockSize * b \in Bytes
    BY <1>1, BlockHasByte
  <2>2. BlockSize * b \in Nat
    BY <1>1, <2>1 DEF Bytes
  <2>3. BlockSize * b = b * BlockSize
    BY <1>1
  <2>4. BlockAt((b * BlockSize) \div info.piece, (b * BlockSize) % info.piece) = (b * BlockSize) \div BlockSize
    BY <2>2, <2>3, BlocksDivide
  <2> QED
    BY <2>1, <2>3, <2>4 DEF BlockLocation
<1>5. f \in DOMAIN info.files /\ Offset(f) <= o /\ o < Offset(f) + info.files[f]
  BY FileAtIs DEF Holds
<1>6. info.files[f] \in Nat /\ Offset(f) \in Nat /\ info.files[f] > 0
  <2>1. info.files[f] \in Nat /\ Offset(f) \in Nat
    BY <1>5, FileSpan
  <2> QED
    BY <1>1, <1>5, <2>1
<1>7. b \in FileBlocks(f)
  <2>1. o \in Offset(f)..(Offset(f) + info.files[f] - 1)
    BY <1>1, <1>5, <1>6
  <2> QED
    BY <1>5, <1>6, <2>1, FileBlocksAre
<1>8. PieceHasFile(p, f)
  <2> DEFINE e == Offset(f) + info.files[f] - 1
  <2>1. Offset(f) + info.files[f] <= Total
    BY <1>5, FileSpan
  <2>2. e \in Nat /\ o <= e /\ e < Total /\ Offset(f) < Total
    <3>1. o \in Nat /\ Total \in Nat
      BY <1>1
    <3> QED
      BY <1>5, <1>6, <2>1, <3>1
  <2>3. LastPiece(f) = BytePiece(e) /\ FirstPiece(f) = BytePiece(Offset(f))
    BY <1>6 DEF LastPiece, FirstPiece
  <2> HIDE DEF e
  <2>4. BytePiece(e) = e \div info.piece /\ BytePiece(Offset(f)) = Offset(f) \div info.piece
    BY <1>1, <1>6, <2>2 DEF BytePiece
  <2>5. Offset(f) \div info.piece <= p /\ p <= e \div info.piece
    BY <1>1, <1>5, <1>6, <2>2, DivMono
  <2> QED
    BY <2>3, <2>4, <2>5 DEF PieceHasFile
<1>9. ASSUME NEW len \in 1..Least(BlockSize, Total - o)
      PROVE  {g \in FilesOf(o, len) : info.files[g] > 0} = {g \in DOMAIN info.files : \E x \in o..(o + len - 1) : Holds(g, x)}
  <2>1. len \in Nat \ {0} /\ o + len <= Total
    BY <1>1 DEF Least
  <2> QED
    BY <2>1, FilesOfIs
<1> QED
  BY <1>2, <1>3, <1>4, <1>7, <1>8, <1>9

-----------------------------------------------------------------------------
(* The invariant *)
PiecesInv == info \in Layouts /\ DndFits(dnd) /\ PriorityFits(priority) /\ CpFits(cp, dnd.piece)

LEMMA ValidBytesAre ==
    ASSUME info \in Layouts, NEW blocks \in SUBSET TheBlocks
    PROVE  ValidBytes(blocks) = {o \in Bytes : \A x \in Bytes : x \div info.piece = o \div info.piece => x \div BlockSize \in blocks}
<1> SUFFICES ASSUME NEW o \in Bytes
             PROVE  o \div info.piece \in PiecesIn(blocks)
                       <=> \A x \in Bytes : x \div info.piece = o \div info.piece => x \div BlockSize \in blocks
  BY DEF ValidBytes
<1> DEFINE p == o \div info.piece
<1>1. p \in ThePieces
  BY PartsAre
<1> HIDE DEF p
<1>2. PieceBlocks(p) \subseteq TheBlocks /\ \A x \in Bytes : x \div info.piece = p <=> x \div BlockSize \in PieceBlocks(p)
  BY <1>1, PieceBlocksAre
<1>3. ASSUME NEW b \in PieceBlocks(p) PROVE \E x \in Bytes : x \div BlockSize = b
  BY <1>2, BlockHasByte
<1>4. PieceBlocks(p) \subseteq blocks <=> \A x \in Bytes : x \div info.piece = p => x \div BlockSize \in blocks
  BY <1>2, <1>3
<1> QED
  BY <1>1, <1>4 DEF PiecesIn, p

LEMMA InvIsSound ==
    ASSUME PiecesInv
    PROVE  PiecesSound
<1> USE DEF PiecesInv
<1>1. DndOfFiles
  BY DEF DndFits, DndOfFiles, FilesOn
<1>2. PriorityOfFiles
  BY PriorityIs DEF PriorityAnswers, PriorityOfFiles, FilesOn
<1>3. /\ cp.blocks \in SUBSET TheBlocks /\ cp.doneDirty \in BOOLEAN /\ cp.validDirty \in BOOLEAN
      /\ cp.sizeNow = Cardinality(BytesIn(cp.blocks))
      /\ ~cp.doneDirty => cp.done = Cardinality(WantedBytes(cp.blocks, dnd.piece))
      /\ ~cp.validDirty => cp.valid = Cardinality(ValidBytes(cp.blocks))
  BY DEF CpFits
<1>4. CountsOfBytes
  <2>1. BytesIn(cp.blocks) = {o \in Bytes : There(o)}
    BY DEF BytesIn, There
  <2>2. WantedBytes(cp.blocks, dnd.piece) = {o \in Bytes : There(o) \/ ~dnd.piece[o \div info.piece]}
    BY DEF WantedBytes, There
  <2>3. ValidBytes(cp.blocks) = {o \in Bytes : \A x \in Bytes : x \div info.piece = o \div info.piece => There(x)}
    BY <1>3, ValidBytesAre DEF There
  <2>4. SizeWhenDone = Cardinality(WantedBytes(cp.blocks, dnd.piece))
    BY <1>3, DoneIs DEF SizeWhenDone
  <2>5. HaveValid = Cardinality(ValidBytes(cp.blocks))
    BY <1>3, ValidIs DEF HaveValid
  <2>6. \A f \in DOMAIN info.files :
          /\ FileBytes(f) = Cardinality({o \in Bytes : There(o) /\ Holds(f, o)})
          /\ FileIsComplete(f) <=> FileBytes(f) = info.files[f]
    BY <1>3, FileBytesAre, FileCompleteIs
  <2>7. \A p \in ThePieces :
          /\ MissingBytes(p) = Cardinality({o \in Bytes : o \div info.piece = p /\ ~There(o)})
          /\ p \in PieceBitfield <=> MissingBlocks(p) = 0
    BY <1>3, MissingBytesIs, CompleteIs
  <2>8. /\ cp.sizeNow = Cardinality({o \in Bytes : There(o)})
        /\ SizeWhenDone = Cardinality({o \in Bytes : There(o) \/ ~dnd.piece[o \div info.piece]})
        /\ HaveValid = Cardinality({o \in Bytes : \A x \in Bytes : x \div info.piece = o \div info.piece => There(x)})
    BY <1>3, <2>1, <2>2, <2>3, <2>4, <2>5, Zenon
  <2> QED
    BY <2>6, <2>7, <2>8, Zenon DEF CountsOfBytes
<1>5. PlacesAgree
  BY PlacesAre
<1> QED
  BY <1>1, <1>2, <1>4, <1>5 DEF PiecesSound

\* The layout stays, and what is said of it.
LEMMA InvFrozen ==
    ASSUME info \in Layouts, info' = info, DndFits(dnd'), PriorityFits(priority'), CpFits(cp', dnd'.piece)
    PROVE  PiecesInv'
<1>1. Total' = Total /\ BlockSize' = BlockSize
  BY DEF Total, BlockSize
<1>2. PieceCount' = PieceCount /\ BlockCount' = BlockCount
  BY <1>1 DEF PieceCount, BlockCount
<1>3. ThePieces' = ThePieces /\ TheBlocks' = TheBlocks /\ Bytes' = Bytes
  BY <1>1, <1>2 DEF ThePieces, TheBlocks, Bytes
<1>4. \A f : FirstPiece(f)' = FirstPiece(f) /\ LastPiece(f)' = LastPiece(f)
  BY <1>1, <1>2 DEF FirstPiece, LastPiece, BytePiece, Offset
<1>5. \A p : FilesOn(p)' = FilesOn(p)
  <2>1. \A p, f : PieceHasFile(p, f)' <=> PieceHasFile(p, f)
    BY <1>4 DEF PieceHasFile
  <2> QED
    BY <2>1 DEF FilesOn
<1>6. \A p, g, file : LevelFor(file, p, g)' = LevelFor(file, p, g)
  BY <1>4 DEF LevelFor
<1>7. DndFits(dnd)'
  BY <1>3, <1>5 DEF DndFits
<1>8. PriorityFits(priority)'
  BY <1>3, <1>5, <1>6 DEF PriorityFits
<1>9. \A p : PieceBlocks(p)' = PieceBlocks(p)
  BY <1>1, <1>2 DEF PieceBlocks, FirstBlock, LastBlock, PieceBytes, LastOf
<1>10. CpFits(cp, dnd.piece)'
  BY <1>1, <1>3, <1>9 DEF CpFits, BytesIn, WantedBytes, ValidBytes, PiecesIn
<1> QED
  BY <1>7, <1>8, <1>10 DEF PiecesInv

-----------------------------------------------------------------------------
(* The loops over the chosen files *)
PriorityAfter(pri, fs, level) ==
    LET after[k \in 0..Len(fs)] == IF k = 0 THEN pri ELSE InitFilePriority(after[k - 1], fs[k], level) IN after[Len(fs)]
DndAfter(d, fs, off) ==
    LET after[k \in 0..Len(fs)] == IF k = 0 THEN d ELSE SetFileDND(after[k - 1], fs[k], off) IN after[Len(fs)]

LEMMA PriorityLoop ==
    ASSUME info \in Layouts, NEW pri, PriorityFits(pri), NEW level \in Levels, NEW fs,
           Len(fs) \in Nat, \A k \in 1..Len(fs) : fs[k] \in DOMAIN info.files
    PROVE  PriorityFits(PriorityAfter(pri, fs, level))
<1> DEFINE n == Len(fs)
           All == {x \in [file : [DOMAIN info.files -> Levels], piece : [ThePieces -> Levels]] : PriorityFits(x)}
           F == [k \in 1..n |-> [x \in All |-> InitFilePriority(x, fs[k], level)]]
           X == [k \in 0..n |-> All]
           Loop(s) == s = [k \in 0..n |-> IF k = 0 THEN pri ELSE InitFilePriority(s[k - 1], fs[k], level)]
           g == CHOOSE s : Loop(s)
<1>1. \A x : x \in All <=> PriorityFits(x)
  BY DEF PriorityFits
<1>2. n \in Nat /\ (\A k \in 0..n : X[k] = All) /\ pri \in X[0]
  BY <1>1
<1>3. \A k \in 1..n : \A x \in All : F[k][x] = InitFilePriority(x, fs[k], level)
  OBVIOUS
<1>4. \A k \in 1..n : \A x \in All : InitFilePriority(x, fs[k], level) \in All
  BY <1>1, PriorityKept
<1> HIDE DEF All, F, X
<1>5. \A k \in 1..n : \A x \in X[k - 1] : F[k][x] \in X[k]
  BY <1>2, <1>3, <1>4
<1>6. PICK f : IsLoop(f, n, pri, F) /\ \A k \in 0..n : f[k] \in X[k]
  BY <1>2, <1>5, StepsExist
<1>7. Loop(f)
  <2>1. ASSUME NEW k \in 0..n
        PROVE  (IF k = 0 THEN pri ELSE F[k][f[k - 1]]) = IF k = 0 THEN pri ELSE InitFilePriority(f[k - 1], fs[k], level)
    <3>1. CASE k # 0
      <4>1. k \in 1..n /\ k - 1 \in 0..n
        BY <1>2, <3>1
      <4> QED
        BY <1>2, <1>3, <1>6, <3>1, <4>1
    <3> QED
      BY <3>1
  <2> QED
    BY <1>6, <2>1 DEF IsLoop
<1>8. Loop(g)
  BY <1>7
<1>9. PriorityAfter(pri, fs, level) = g[n]
  BY DEF PriorityAfter
<1> HIDE DEF g
<1>10. g[0] = pri /\ \A k \in 1..n : g[k] = InitFilePriority(g[k - 1], fs[k], level)
  BY <1>2, <1>8
<1>11. \A k \in 0..n : g[k] \in X[k]
  <2>1. \A k \in 1..n : g[k - 1] \in X[k - 1] => g[k] \in X[k]
    BY <1>2, <1>4, <1>10
  <2> QED
    BY <1>2, <1>10, <2>1, StepsReach
<1>12. g[n] \in All
  BY <1>2, <1>11
<1> QED
  BY <1>1, <1>9, <1>12

LEMMA DndLoop ==
    ASSUME info \in Layouts, NEW d, DndFits(d), NEW off \in BOOLEAN, NEW fs,
           Len(fs) \in Nat, \A k \in 1..Len(fs) : fs[k] \in DOMAIN info.files
    PROVE  DndFits(DndAfter(d, fs, off))
<1> DEFINE n == Len(fs)
           All == {x \in [file : [DOMAIN info.files -> BOOLEAN], piece : [ThePieces -> BOOLEAN]] : DndFits(x)}
           F == [k \in 1..n |-> [x \in All |-> SetFileDND(x, fs[k], off)]]
           X == [k \in 0..n |-> All]
           Loop(s) == s = [k \in 0..n |-> IF k = 0 THEN d ELSE SetFileDND(s[k - 1], fs[k], off)]
           g == CHOOSE s : Loop(s)
<1>1. \A x : x \in All <=> DndFits(x)
  BY DEF DndFits
<1>2. n \in Nat /\ (\A k \in 0..n : X[k] = All) /\ d \in X[0]
  BY <1>1
<1>3. \A k \in 1..n : \A x \in All : F[k][x] = SetFileDND(x, fs[k], off)
  OBVIOUS
<1>4. \A k \in 1..n : \A x \in All : SetFileDND(x, fs[k], off) \in All
  BY <1>1, DndKept
<1> HIDE DEF All, F, X
<1>5. \A k \in 1..n : \A x \in X[k - 1] : F[k][x] \in X[k]
  BY <1>2, <1>3, <1>4
<1>6. PICK f : IsLoop(f, n, d, F) /\ \A k \in 0..n : f[k] \in X[k]
  BY <1>2, <1>5, StepsExist
<1>7. Loop(f)
  <2>1. ASSUME NEW k \in 0..n
        PROVE  (IF k = 0 THEN d ELSE F[k][f[k - 1]]) = IF k = 0 THEN d ELSE SetFileDND(f[k - 1], fs[k], off)
    <3>1. CASE k # 0
      <4>1. k \in 1..n /\ k - 1 \in 0..n
        BY <1>2, <3>1
      <4> QED
        BY <1>2, <1>3, <1>6, <3>1, <4>1
    <3> QED
      BY <3>1
  <2> QED
    BY <1>6, <2>1 DEF IsLoop
<1>8. Loop(g)
  BY <1>7
<1>9. DndAfter(d, fs, off) = g[n]
  BY DEF DndAfter
<1> HIDE DEF g
<1>10. g[0] = d /\ \A k \in 1..n : g[k] = SetFileDND(g[k - 1], fs[k], off)
  BY <1>2, <1>8
<1>11. \A k \in 0..n : g[k] \in X[k]
  <2>1. \A k \in 1..n : g[k - 1] \in X[k - 1] => g[k] \in X[k]
    BY <1>2, <1>4, <1>10
  <2> QED
    BY <1>2, <1>10, <2>1, StepsReach
<1>12. g[n] \in All
  BY <1>2, <1>11
<1> QED
  BY <1>1, <1>9, <1>12

-----------------------------------------------------------------------------
(* The steps *)
LEMMA PiecesStart ==
    ASSUME PiecesInit
    PROVE  PiecesInv
<1> DEFINE file == [f \in DOMAIN info.files |-> Normal]
           pri == [file |-> file, piece |-> [p \in ThePieces |-> PiecePriority(file, p, FirstFile(p))]]
<1>1. info \in Layouts /\ dnd = AllWanted /\ priority = pri /\ cp = Reset
  BY DEF PiecesInit
<1>2. CpFits(cp, dnd.piece)
  BY <1>1, ResetFits
<1>3. DndFits(dnd)
  <2>1. ASSUME NEW p \in ThePieces PROVE \E f \in FilesOn(p) : f \in DOMAIN info.files
    <3>1. FirstFile(p) \in FilesOn(p)
      BY <1>1, FirstFileIs
    <3> QED
      BY <3>1 DEF FilesOn
  <2> QED
    BY <1>1, <2>1 DEF DndFits, AllWanted
<1>4. PriorityFits(pri)
  <2>1. file \in [DOMAIN info.files -> Levels]
    BY DEF Levels
  <2>2. \A p \in ThePieces : PiecePriority(file, p, FirstFile(p)) = Highest({LevelFor(file, p, g) : g \in FilesOn(p)})
    BY <1>1, FirstFileIs, AroundIsAll DEF PiecePriority
  <2>3. \A S : Highest(S) \in Levels
    BY DEF Highest, Levels
  <2> DEFINE piece == [p \in ThePieces |-> PiecePriority(file, p, FirstFile(p))]
  <2>4. \A p \in ThePieces : piece[p] = Highest({LevelFor(file, p, g) : g \in FilesOn(p)})
    BY <2>2
  <2>5. piece \in [ThePieces -> Levels]
    BY <2>2, <2>3
  <2> HIDE DEF file, piece
  <2>6. PriorityFits([file |-> file, piece |-> piece])
    BY <2>1, <2>4, <2>5 DEF PriorityFits
  <2> QED
    BY <2>6 DEF piece
<1> QED
  BY <1>1, <1>2, <1>3, <1>4 DEF PiecesInv

LEMMA PiecesStep ==
    ASSUME PiecesInv, [PiecesNext]_pieceVars
    PROVE  PiecesInv'
<1>1. info \in Layouts /\ DndFits(dnd) /\ PriorityFits(priority) /\ CpFits(cp, dnd.piece)
  BY DEF PiecesInv
<1>2. cp.blocks \in SUBSET TheBlocks /\ cp.done \in Int /\ cp.valid \in Int
  BY <1>1 DEF CpFits
<1> SUFFICES info' = info /\ DndFits(dnd') /\ PriorityFits(priority') /\ CpFits(cp', dnd'.piece)
  BY <1>1, InvFrozen
<1>3. ASSUME NEW b \in TheBlocks, GotBlock(b) PROVE info' = info /\ DndFits(dnd') /\ PriorityFits(priority') /\ CpFits(cp', dnd'.piece)
  <2>1. {b} \in SUBSET TheBlocks
    OBVIOUS
  <2>2. info' = info /\ dnd' = dnd /\ priority' = priority /\ cp' = Added(cp, {b})
    BY <1>3 DEF GotBlock
  <2> QED
    BY <1>1, <2>1, <2>2, AddedFits
<1>4. ASSUME NEW p \in ThePieces, NEW has \in BOOLEAN, SetHasPiece(p, has)
      PROVE  info' = info /\ DndFits(dnd') /\ PriorityFits(priority') /\ CpFits(cp', dnd'.piece)
  <2>1. info' = info /\ dnd' = dnd /\ priority' = priority /\ cp' = IF has THEN Added(cp, PieceBlocks(p)) ELSE PieceRemoved(cp, p)
    BY <1>4 DEF SetHasPiece
  <2>2. PieceBlocks(p) \in SUBSET TheBlocks
    BY <1>1, PieceBlocksAre
  <2>3. CpFits(Added(cp, PieceBlocks(p)), dnd.piece) /\ CpFits(PieceRemoved(cp, p), dnd.piece)
    BY <1>1, <2>2, AddedFits, RemovedFits
  <2> QED
    BY <1>1, <2>1, <2>3
<1>5. ASSUME NEW S \in SUBSET TheBlocks, LoadsProgress(S)
      PROVE  info' = info /\ DndFits(dnd') /\ PriorityFits(priority') /\ CpFits(cp', dnd'.piece)
  BY <1>1, <1>5, LoadedFits DEF LoadsProgress
<1>6. ASSUME NEW fs \in FileChoices PROVE Len(fs) \in Nat /\ \A k \in 1..Len(fs) : fs[k] \in DOMAIN info.files
  BY DEF FileChoices
<1>7. ASSUME NEW fs \in FileChoices, NEW level \in {Low, Normal, High}, SetFilePriorities(fs, level)
      PROVE  info' = info /\ DndFits(dnd') /\ PriorityFits(priority') /\ CpFits(cp', dnd'.piece)
  <2>1. info' = info /\ dnd' = dnd /\ cp' = cp
    BY <1>7 DEF SetFilePriorities
  <2>2. priority' = PriorityAfter(priority, fs, level)
    BY <1>7 DEF SetFilePriorities, PriorityAfter
  <2>3. level \in Levels
    BY DEF Levels
  <2> QED
    BY <1>1, <1>6, <2>1, <2>2, <2>3, PriorityLoop
<1>8. ASSUME NEW fs \in FileChoices, NEW do \in BOOLEAN, SetFileDLs(fs, do)
      PROVE  info' = info /\ DndFits(dnd') /\ PriorityFits(priority') /\ CpFits(cp', dnd'.piece)
  <2>1. info' = info /\ priority' = priority /\ cp' = [cp EXCEPT !.doneDirty = TRUE]
    BY <1>8 DEF SetFileDLs
  <2>2. dnd' = DndAfter(dnd, fs, ~do)
    BY <1>8 DEF SetFileDLs, DndAfter
  <2>3. (~do) \in BOOLEAN
    OBVIOUS
  <2>4. DndFits(dnd')
    BY <1>1, <1>6, <2>2, <2>3, DndLoop
  <2>5. CpFits(cp', dnd'.piece)
    BY <1>1, <2>1 DEF CpFits
  <2> QED
    BY <1>1, <2>1, <2>4, <2>5
<1>9. ASSUME AsksSizeWhenDone PROVE info' = info /\ DndFits(dnd') /\ PriorityFits(priority') /\ CpFits(cp', dnd'.piece)
  <2>1. info' = info /\ dnd' = dnd /\ priority' = priority /\ cp' = [cp EXCEPT !.done = DoneNow, !.doneDirty = FALSE]
    BY <1>9 DEF AsksSizeWhenDone
  <2>2. DoneNow = Cardinality(WantedBytes(cp.blocks, dnd.piece)) /\ DoneNow \in Int
    <3>1. WantedBytes(cp.blocks, dnd.piece) \in SUBSET Bytes
      BY DEF WantedBytes
    <3> QED
      BY <1>1, <1>2, <3>1, DoneIs, BytesAre
  <2>3. CpFits(cp', dnd.piece)
    BY <1>1, <2>1, <2>2 DEF CpFits
  <2> QED
    BY <1>1, <2>1, <2>3
<1>10. ASSUME AsksHaveValid PROVE info' = info /\ DndFits(dnd') /\ PriorityFits(priority') /\ CpFits(cp', dnd'.piece)
  <2>1. info' = info /\ dnd' = dnd /\ priority' = priority /\ cp' = [cp EXCEPT !.valid = ValidNow, !.validDirty = FALSE]
    BY <1>10 DEF AsksHaveValid
  <2>2. ValidNow = Cardinality(ValidBytes(cp.blocks)) /\ ValidNow \in Int
    <3>1. ValidBytes(cp.blocks) \in SUBSET Bytes
      BY DEF ValidBytes
    <3> QED
      BY <1>1, <1>2, <3>1, ValidIs, BytesAre
  <2>3. CpFits(cp', dnd.piece)
    BY <1>1, <2>1, <2>2 DEF CpFits
  <2> QED
    BY <1>1, <2>1, <2>3
<1>11. CASE UNCHANGED pieceVars
  BY <1>1, <1>11 DEF pieceVars
<1> QED
  BY <1>3, <1>4, <1>5, <1>7, <1>8, <1>9, <1>10, <1>11 DEF PiecesNext

-----------------------------------------------------------------------------
(* Whatever the files, the pieces and the blocks are: a piece is left out      *)
(* exactly if all its files are, it has their highest priority, the counters   *)
(* agree with the bytes that are there one by one, and blocks, pieces and files *)
(* name the same bytes (completion.c, torrent.c, inout.c).                      *)
THEOREM PiecesAreSound == PiecesSpec => []PiecesSound
<1>1. PiecesInit => PiecesInv
  BY PiecesStart
<1>2. PiecesInv /\ [PiecesNext]_pieceVars => PiecesInv'
  BY PiecesStep
<1>3. PiecesInv => PiecesSound
  BY InvIsSound
<1> QED
  BY <1>1, <1>2, <1>3, PTL DEF PiecesSpec
=============================================================================
