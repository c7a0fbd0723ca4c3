---------------------------- MODULE Session_proofs ----------------------------
(***************************************************************************)
(* The proofs about the parts of the session: the queue, the speed limits,   *)
(* seeding, bitfields, the blocklist, the files of a torrent, remote         *)
(* control; and, at the end, carried over to the specification that TLC       *)
(* checks.                                                                 *)
(***************************************************************************)
EXTENDS MCSession, Pieces_proofs

-----------------------------------------------------------------------------
(***************************************************************************)
(* For any torrents and any slots: the positions are 0, 1, 2, ... after any   *)
(* calls, and a pulse starts who is next.                                   *)
(*                                                                         *)
(* A torrent that is moved leaves a gap; those between the gap and where it   *)
(* goes move by one towards the gap, which makes them room for it: the places *)
(* of the others and the new one are again all the places (PlaceAfter).           *)
(***************************************************************************)
Doings == {"stopped", "queued", "queued, checking", "running", "checking"}
Aspects == [dir : Directions, stalled : BOOLEAN, files : BOOLEAN]
SlotCounts == [size : Nat, enabled : BOOLEAN]

\* The torrents of S are at different places, 0 to their number.
Lined(pos, S) ==
    /\ pos \in [QTorrents -> Int]
    /\ \A t \in QTorrents \ S : pos[t] = Nowhere
    /\ \A t \in S : pos[t] \in 0..(Cardinality(S) - 1)
    /\ \A t, x \in S : pos[t] = pos[x] => t = x

QueueTypes ==
    /\ doing \in [QTorrents -> Doings] /\ aspect \in [QTorrents -> Aspects]
    /\ slots \in [Directions -> SlotCounts]
QueueIInv == QueueTypes /\ Lined(position, Present) /\ PulseInOrder

-----------------------------------------------------------------------------
LEMMA GreatestIs ==
    ASSUME NEW S \in SUBSET Int, NEW x \in S, \A y \in S : y <= x
    PROVE  Max(S) = x
<1>1. x \in S /\ \A y \in S : x >= y
  OBVIOUS
<1>2. Max(S) \in S /\ \A y \in S : Max(S) >= y
  BY <1>1 DEF Max
<1>3. Max(S) \in Int /\ x \in Int /\ Max(S) >= x /\ x >= Max(S)
  BY <1>1, <1>2
<1> HIDE DEF Max
<1> QED
  BY <1>3

LEMMA LeastIs ==
    ASSUME NEW S \in SUBSET Int, NEW x \in S, \A y \in S : x <= y
    PROVE  Min(S) = x
<1>1. x \in S /\ \A y \in S : x =< y
  OBVIOUS
<1>2. Min(S) \in S /\ \A y \in S : Min(S) =< y
  BY <1>1 DEF Min
<1>3. Min(S) \in Int /\ x \in Int /\ Min(S) <= x /\ x <= Min(S)
  BY <1>1, <1>2
<1> HIDE DEF Min
<1> QED
  BY <1>3

\* Where the torrent at p goes when that at old goes to new; where it ends.
PlaceAfter(p, old, new) == IF Passed(old, new, p) THEN p + Shift(old, new) ELSE p
Dest(new, n) == IF new < n - 1 THEN new ELSE n - 1

LEMMA MovedFits ==
    ASSUME NEW n \in Nat, NEW old \in 0..(n - 1), NEW new \in Nat
    PROVE  /\ Dest(new, n) \in 0..(n - 1)
           /\ \A p \in 0..(n - 1) : p # old => /\ PlaceAfter(p, old, new) \in 0..(n - 1)
                                               /\ PlaceAfter(p, old, new) # Dest(new, n)
                                               /\ PlaceAfter(p, old, new) <= IF new < n - 1 THEN n - 1 ELSE n - 2
           /\ n >= 2 => \E p \in 0..(n - 1) : p # old /\ PlaceAfter(p, old, new) = IF new < n - 1 THEN n - 1 ELSE n - 2
<1> USE DEF PlaceAfter, Passed, Shift, Dest
<1>1. Dest(new, n) \in 0..(n - 1)
  OBVIOUS
<1>2. ASSUME NEW p \in 0..(n - 1), p # old
      PROVE  /\ PlaceAfter(p, old, new) \in 0..(n - 1)
             /\ PlaceAfter(p, old, new) # Dest(new, n)
             /\ PlaceAfter(p, old, new) <= IF new < n - 1 THEN n - 1 ELSE n - 2
  BY <1>2
<1>4. ASSUME n >= 2
      PROVE  \E p \in 0..(n - 1) : p # old /\ PlaceAfter(p, old, new) = IF new < n - 1 THEN n - 1 ELSE n - 2
  <2>1. CASE old = n - 1
    <3>1. n - 2 \in 0..(n - 1) /\ n - 2 # old
      BY <1>4, <2>1
    <3>2. PlaceAfter(n - 2, old, new) = IF new < n - 1 THEN n - 1 ELSE n - 2
      BY <1>4, <2>1
    <3> QED
      BY <3>1, <3>2
  <2>2. CASE old # n - 1
    <3>1. n - 1 \in 0..(n - 1) /\ n - 1 # old
      BY <1>4, <2>2
    <3>2. PlaceAfter(n - 1, old, new) = IF new < n - 1 THEN n - 1 ELSE n - 2
      BY <1>4, <2>2
    <3> QED
      BY <3>1, <3>2
  <2> QED
    BY <2>1, <2>2
<1> HIDE DEF PlaceAfter, Passed, Shift, Dest
<1> QED
  BY <1>1, <1>2, <1>4

LEMMA MovedApart ==
    ASSUME NEW n \in Nat, NEW old \in 0..(n - 1), NEW new \in Nat
    PROVE  \A p, q \in 0..(n - 1) : p # old /\ q # old /\ PlaceAfter(p, old, new) = PlaceAfter(q, old, new) => p = q
BY DEF PlaceAfter, Passed, Shift

\* Every place is taken.
LEMMA PlacesTaken ==
    ASSUME NEW S, IsFiniteSet(S), NEW pos, Lined(pos, S), S \subseteq QTorrents
    PROVE  /\ Cardinality(S) \in Nat
           /\ \A k \in 0..(Cardinality(S) - 1) : \E t \in S : pos[t] = k
<1> DEFINE n == Cardinality(S)
           D == 0..(n - 1)
           f == [t \in S |-> pos[t]]
<1>1. n \in Nat
  BY FS_CardinalityType
<1>2. IsFiniteSet(D) /\ Cardinality(D) = n
  <2>1. IsFiniteSet(D) /\ Cardinality(D) = IF 0 > n - 1 THEN 0 ELSE (n - 1) - 0 + 1
    BY <1>1, FS_Interval
  <2> HIDE DEF n, D
  <2> QED
    BY <1>1, <2>1
<1>3. f \in Injection(S, D)
  BY DEF Lined, Injection, IsInjective
<1> HIDE DEF D, f
<1>4. f \in Surjection(S, D)
  BY <1>2, <1>3, FS_Injection DEF n
<1>5. \A k \in D : \E t \in S : f[t] = k
  BY <1>4 DEF Surjection
<1>6. \A t \in S : f[t] = pos[t]
  BY DEF f
<1> QED
  BY <1>1, <1>5, <1>6 DEF D, n

\* tr_torrentSetQueuePosition
LEMMA SetKeepsLine ==
    ASSUME NEW pos, Lined(pos, Present), IsFiniteSet(Present), NEW t \in Present, NEW wanted \in Int
    PROVE  Lined(SetPosition(pos, t, wanted), Present)
<1> DEFINE old == pos[t]
           new == Max({0, wanted})
           n == Cardinality(Present)
           others == {x \in Present : x # t}
           moved == [x \in QTorrents |-> IF x \in others /\ Passed(old, new, pos[x]) THEN pos[x] + Shift(old, new) ELSE pos[x]]
           M == {Nowhere} \cup {moved[x] : x \in others}
           back == Max(M)
           last == IF new < n - 1 THEN n - 1 ELSE n - 2
           pos2 == [moved EXCEPT ![t] = Min({new, back + 1})]
<1>1. /\ Present \subseteq QTorrents /\ pos \in [QTorrents -> Int]
      /\ \A x \in QTorrents \ Present : pos[x] = Nowhere
      /\ \A x \in Present : pos[x] \in 0..(n - 1)
      /\ \A x, y \in Present : pos[x] = pos[y] => x = y
  BY DEF Lined, Present
<1>2. n \in Nat /\ \A k \in 0..(n - 1) : \E x \in Present : pos[x] = k
  BY <1>1, PlacesTaken
<1>3. new \in Nat
  <2>1. CASE wanted <= 0
    <3>1. Max({0, wanted}) = 0
      BY <2>1, GreatestIs
    <3> QED
      BY <3>1
  <2>2. CASE wanted > 0
    <3>1. Max({0, wanted}) = wanted
      BY <2>2, GreatestIs
    <3> QED
      BY <2>2, <3>1
  <2> QED
    BY <2>1, <2>2
<1>4. SetPosition(pos, t, wanted) = pos2
  BY DEF SetPosition
<1> HIDE DEF new, n
<1>5. old \in 0..(n - 1)
  BY <1>1
<1>6. \A x \in QTorrents : moved[x] = IF x \in others THEN PlaceAfter(pos[x], old, new) ELSE pos[x]
  BY DEF PlaceAfter
<1>7. moved \in [QTorrents -> Int]
  <2>1. ASSUME NEW x \in QTorrents PROVE moved[x] \in Int
    <3>1. CASE x \in others
      <4>1. pos[x] \in 0..(n - 1) /\ pos[x] # old
        BY <1>1, <3>1
      <4>2. PlaceAfter(pos[x], old, new) \in 0..(n - 1)
        BY <1>2, <1>3, <1>5, <4>1, MovedFits
      <4> QED
        BY <1>2, <1>6, <3>1, <4>2
    <3>2. CASE x \notin others
      BY <1>1, <1>6, <3>2
    <3> QED
      BY <3>1, <3>2
  <2> HIDE DEF others
  <2>2. \A x \in QTorrents : (IF x \in others /\ Passed(old, new, pos[x]) THEN pos[x] + Shift(old, new) ELSE pos[x]) \in Int
    BY <2>1
  <2> QED
    BY <2>2
<1> HIDE DEF moved, old
<1>8. \A x \in others : /\ pos[x] \in 0..(n - 1) /\ pos[x] # old
                        /\ moved[x] = PlaceAfter(pos[x], old, new)
                        /\ x \in QTorrents
  BY <1>1, <1>6 DEF old
<1>f. /\ \A p \in 0..(n - 1) : p # old => /\ PlaceAfter(p, old, new) \in 0..(n - 1)
                                          /\ PlaceAfter(p, old, new) # Dest(new, n)
                                          /\ PlaceAfter(p, old, new) <= last
      /\ \A p, q \in 0..(n - 1) : p # old /\ q # old /\ PlaceAfter(p, old, new) = PlaceAfter(q, old, new) => p = q
  <2>1. n \in Nat /\ old \in 0..(n - 1) /\ new \in Nat
    BY <1>2, <1>3, <1>5
  <2>2. \A p \in 0..(n - 1) : p # old => /\ PlaceAfter(p, old, new) \in 0..(n - 1)
                                         /\ PlaceAfter(p, old, new) # Dest(new, n)
                                         /\ PlaceAfter(p, old, new) <= last
    BY ONLY <2>1, MovedFits
  <2>3. \A p, q \in 0..(n - 1) : p # old /\ q # old /\ PlaceAfter(p, old, new) = PlaceAfter(q, old, new) => p = q
    BY ONLY <2>1, MovedApart
  <2> QED
    BY <2>2, <2>3
<1> HIDE DEF last
<1>9. \A x \in others : /\ moved[x] \in 0..(n - 1) /\ moved[x] # Dest(new, n) /\ moved[x] <= last
  BY <1>8, <1>f
<1>10. \A x, y \in others : moved[x] = moved[y] => x = y
  <2> TAKE x, y \in others
  <2> HAVE moved[x] = moved[y]
  <2>1. pos[x] = pos[y]
    BY <1>8, <1>f
  <2> QED
    BY <1>1, <2>1
<1> USE DEF last
<1>11. back = last
  <2>1. M \in SUBSET Int
    BY <1>2, <1>9 DEF Nowhere
  <2>2. last \in M
    <3>1. CASE n >= 2
      <4>1. PICK p \in 0..(n - 1) : p # old /\ PlaceAfter(p, old, new) = last
        BY <1>2, <1>3, <1>5, <3>1, MovedFits
      <4>2. PICK x \in Present : pos[x] = p
        BY <1>2
      <4>3. x \in others
        BY <4>1, <4>2 DEF old
      <4> QED
        BY <1>8, <4>1, <4>2, <4>3
    <3>2. CASE ~(n >= 2)
      <4>1. n = 1
        BY <1>2, <1>5, <3>2
      <4>2. last = -1
        BY <1>3, <4>1
      <4> QED
        BY <4>2 DEF Nowhere
    <3> QED
      BY <3>1, <3>2
  <2>3. \A y \in M : y <= last
    <3>1. Nowhere <= last
      BY <1>2, <1>3, <1>5 DEF Nowhere
    <3> QED
      BY <1>9, <3>1
  <2> HIDE DEF M, last
  <2> QED
    BY <2>1, <2>2, <2>3, GreatestIs
<1>12. Min({new, back + 1}) = Dest(new, n)
  <2> HIDE DEF back
  <2>1. CASE new < n - 1
    <3>1. back + 1 = n
      BY <1>2, <1>11, <2>1
    <3>2. Min({new, back + 1}) = new
      BY <1>2, <1>3, <2>1, <3>1, LeastIs
    <3> QED
      BY <2>1, <3>2 DEF Dest
  <2>2. CASE ~(new < n - 1)
    <3>1. back + 1 = n - 1
      BY <1>2, <1>11, <2>2
    <3>2. Min({new, back + 1}) = n - 1
      BY <1>2, <1>3, <2>2, <3>1, LeastIs
    <3> QED
      BY <2>2, <3>2 DEF Dest
  <2> QED
    BY <2>1, <2>2
<1>13. Dest(new, n) \in 0..(n - 1)
  BY <1>2, <1>3, <1>5, MovedFits
<1> HIDE DEF back, last, M
<1>14. /\ pos2 \in [QTorrents -> Int]
       /\ pos2[t] = Dest(new, n)
       /\ \A x \in QTorrents : x # t => pos2[x] = moved[x]
  BY <1>1, <1>2, <1>7, <1>12, <1>13
<1> HIDE DEF pos2
<1>15. \A x \in Present : x = t \/ x \in others
  OBVIOUS
<1>16. \A x \in QTorrents \ Present : x # t /\ x \notin others
  OBVIOUS
<1>17. \A x \in others : x # t
  OBVIOUS
<1> HIDE DEF others
<1>18. Lined(pos2, Present)
  <2>1. \A x \in QTorrents \ Present : pos2[x] = Nowhere
    BY <1>1, <1>6, <1>14, <1>16
  <2>2. \A x \in Present : pos2[x] \in 0..(n - 1)
    BY <1>8, <1>9, <1>13, <1>14, <1>15, <1>17
  <2>3. \A x, y \in Present : pos2[x] = pos2[y] => x = y
    BY <1>8, <1>9, <1>10, <1>14, <1>15, <1>17
  <2> QED
    BY <1>14, <2>1, <2>2, <2>3 DEF Lined, n
<1> QED
  BY <1>4, <1>18

-----------------------------------------------------------------------------
\* The torrents of S in the order of their positions: each has a number.
LEMMA InOrderIs ==
    ASSUME NEW S \in SUBSET Present, IsFiniteSet(S), Lined(position, Present)
    PROVE  Cardinality(S) \in Nat /\ InOrder(S) \in [1..Cardinality(S) -> S]
<1> DEFINE c == Cardinality(S)
           D == 1..c
           r == [t \in S |-> Cardinality(UpTo(S, t))]
<1>1. c \in Nat /\ IsFiniteSet(D) /\ Cardinality(D) = c
  BY FS_CardinalityType, FS_Interval
<1>2. \A t \in S : position[t] \in Int /\ \A x \in S : position[t] = position[x] => t = x
  BY DEF Lined, Present
<1>3. \A t \in S : IsFiniteSet(UpTo(S, t)) /\ Cardinality(UpTo(S, t)) \in D
  <2> TAKE t \in S
  <2> DEFINE L == UpTo(S, t)
             q == Cardinality(L)
  <2>1. L \in SUBSET S /\ t \in L
    BY <1>2 DEF UpTo
  <2> HIDE DEF L
  <2>2. IsFiniteSet(L) /\ q <= c
    BY <2>1, FS_Subset
  <2>3. q \in Nat /\ q # 0
    BY <2>1, <2>2, FS_CardinalityType, FS_EmptySet
  <2> HIDE DEF q, c
  <2>4. q \in 1..c
    BY <1>1, <2>2, <2>3
  <2> QED
    BY <2>2, <2>4 DEF L, q
<1>4. \A t, x \in S : position[t] < position[x] => Cardinality(UpTo(S, t)) # Cardinality(UpTo(S, x))
  <2> TAKE t, x \in S
  <2> HAVE position[t] < position[x]
  <2> DEFINE A == UpTo(S, t)
             B == UpTo(S, x)
  <2>1. A \in SUBSET B /\ x \in B /\ x \notin A
    <3>1. \A y \in S : position[y] \in Int
      BY <1>2
    <3>2. \A y \in S : position[y] <= position[t] => position[y] <= position[x]
      BY <3>1
    <3>3. position[x] <= position[x] /\ ~(position[x] <= position[t])
      BY <3>1
    <3> QED
      BY <3>2, <3>3 DEF UpTo
  <2>2. IsFiniteSet(B)
    BY <1>3
  <2> HIDE DEF A, B
  <2>3. Cardinality(A) # Cardinality(B)
    BY <2>1, <2>2, FS_Subset
  <2> QED
    BY <2>3 DEF A, B
<1>5. r \in Injection(S, D)
  <2>1. r \in [S -> D]
    BY <1>3
  <2>2. \A t, x \in S : r[t] = r[x] => t = x
    <3>1. \A t, x \in S : t = x \/ position[t] < position[x] \/ position[x] < position[t]
      BY <1>2
    <3> QED
      BY <1>4, <3>1
  <2> QED
    BY <2>1, <2>2 DEF Injection, IsInjective
<1> HIDE DEF r, D
<1>6. r \in Surjection(S, D)
  BY <1>1, <1>5, FS_Injection DEF c
<1>7. \A k \in D : \E t \in S : Cardinality(UpTo(S, t)) = k
  <2>1. \A k \in D : \E t \in S : r[t] = k
    BY <1>6 DEF Surjection
  <2>2. \A t \in S : r[t] = Cardinality(UpTo(S, t))
    BY DEF r
  <2> QED
    BY <2>1, <2>2
<1>8. InOrder(S) = [i \in D |-> CHOOSE t \in S : Cardinality(UpTo(S, t)) = i]
  BY DEF InOrder, D
<1> QED
  BY <1>1, <1>7, <1>8 DEF D

Lines == {pos \in [QTorrents -> Int] : Lined(pos, Present)}

\* tr_torrentsQueueMoveTop, -Up, -Down, -Bottom
LEMMA MovesKeepLine ==
    ASSUME NEW S \in SUBSET Present, IsFiniteSet(Present), Lined(position, Present),
           NEW where \in {"top", "up", "down", "bottom"}
    PROVE  Lined(MoveAll(S, where), Present)
<1> DEFINE n == Cardinality(S)
           line == IF where \in {"top", "down"} THEN Reverse(InOrder(S)) ELSE InOrder(S)
           Body(pos, k) == SetPosition(pos, line[k], GoesTo(where, pos, line[k]))
           X == [k \in 0..n |-> Lines]
           F == [k \in 1..n |-> [x \in Lines |-> Body(x, k)]]
           Loop(f) == f = [k \in 0..n |-> IF k = 0 THEN position ELSE Body(f[k - 1], k)]
           g == CHOOSE f : Loop(f)
<1>1. IsFiniteSet(S)
  BY FS_Subset
<1>2. n \in Nat /\ InOrder(S) \in [1..n -> S]
  BY <1>1, InOrderIs
<1>3. \A k \in 1..n : line[k] \in S
  <2>1. InOrder(S) \in Seq(S) /\ Len(InOrder(S)) = n
    BY <1>2
  <2>2. CASE where \in {"top", "down"}
    <3>1. line = [i \in 1..n |-> InOrder(S)[(n - i) + 1]]
      BY <2>1, <2>2 DEF Reverse
    <3>2. \A k \in 1..n : (n - k) + 1 \in 1..n
      BY <1>2
    <3> HIDE DEF line
    <3> QED
      BY <1>2, <3>1, <3>2
  <2>3. CASE where \notin {"top", "down"}
    BY <1>2, <2>3
  <2> QED
    BY <2>2, <2>3
<1>4. MoveAll(S, where) = g[n]
  BY DEF MoveAll
<1>5. position \in Lines
  BY DEF Lined, Lines
<1> HIDE DEF line
<1>6. ASSUME NEW pos \in Lines, NEW k \in 1..n PROVE Body(pos, k) \in Lines
  <2> DEFINE t == line[k]
             target == GoesTo(where, pos, t)
  <2>1. t \in Present
    BY <1>3
  <2>2. pos[t] \in Int /\ Lined(pos, Present)
    BY <2>1 DEF Lines, Present
  <2>3. target \in Int
    BY <2>2 DEF GoesTo, INT_MAX
  <2> HIDE DEF t, target
  <2>4. Lined(SetPosition(pos, t, target), Present)
    BY <2>1, <2>2, <2>3, SetKeepsLine
  <2> QED
    BY <2>4 DEF t, target, Lines, Lined
<1> HIDE DEF Body, n
<1>7. \A k \in 0..n : X[k] = Lines
  OBVIOUS
<1>8. \A k \in 1..n : \A x \in Lines : F[k][x] = Body(x, k)
  OBVIOUS
<1>9. 0 \in 0..n /\ \A k \in 1..n : k - 1 \in 0..n /\ k \in 0..n
  BY <1>2
<1> HIDE DEF X, F
<1>10. \E f : Loop(f)
  <2>1. \A k \in 1..n : \A x \in X[k - 1] : F[k][x] \in X[k]
    BY <1>6, <1>7, <1>8, <1>9
  <2>2. position \in X[0]
    BY <1>5, <1>7, <1>9
  <2>3. PICK f : IsLoop(f, n, position, F) /\ \A k \in 0..n : f[k] \in X[k]
    BY <1>2, <2>1, <2>2, StepsExist
  <2>4. ASSUME NEW k \in 0..n PROVE (IF k = 0 THEN position ELSE F[k][f[k - 1]]) = IF k = 0 THEN position ELSE Body(f[k - 1], k)
    <3>1. CASE k # 0
      <4>1. k \in 1..n
        BY <1>2, <3>1
      <4>2. f[k - 1] \in Lines
        BY <1>7, <1>9, <2>3, <4>1
      <4> QED
        BY <1>8, <4>1, <4>2
    <3> QED
      BY <3>1
  <2>5. f = [k \in 0..n |-> IF k = 0 THEN position ELSE Body(f[k - 1], k)]
    BY <2>3, <2>4 DEF IsLoop
  <2> QED
    BY <2>5
<1>11. Loop(g)
  BY <1>10
<1> HIDE DEF g
<1>12. g[0] = position /\ \A k \in 1..n : g[k] = Body(g[k - 1], k)
  BY <1>2, <1>11
<1>13. \A k \in 0..n : g[k] \in X[k]
  <2>1. ASSUME NEW k \in 1..n, g[k - 1] \in X[k - 1] PROVE g[k] \in X[k]
    <3>1. k - 1 \in 0..n /\ k \in 0..n
      BY <1>9
    <3>2. g[k - 1] \in Lines
      BY <1>7, <2>1, <3>1
    <3>3. Body(g[k - 1], k) \in Lines
      BY <1>6, <3>2
    <3> QED
      BY <1>7, <1>12, <3>1, <3>3
  <2>2. g[0] \in X[0]
    BY <1>5, <1>7, <1>9, <1>12
  <2> QED
    BY <1>2, <2>1, <2>2, StepsReach
<1>14. g[n] \in Lines
  BY <1>2, <1>7, <1>13
<1> QED
  BY <1>4, <1>14 DEF n, Lines

\* A line is one of the torrents that have a place in it.
LEMMA LinePresent ==
    ASSUME NEW S \in SUBSET QTorrents, NEW pos, Lined(pos, S), IsFiniteSet(S)
    PROVE  {t \in QTorrents : pos[t] # Nowhere} = S
<1>1. Cardinality(S) \in Nat
  BY FS_CardinalityType
<1>2. \A t \in S : pos[t] # Nowhere
  BY <1>1 DEF Lined, Nowhere
<1> QED
  BY <1>2 DEF Lined

\* torrentInit
LEMMA AddKeepsLine ==
    ASSUME Lined(position, Present), IsFiniteSet(Present), NEW t \in QTorrents \ Present
    PROVE  Lined([position EXCEPT ![t] = Cardinality(Present)], Present \cup {t})
<1> DEFINE n == Cardinality(Present)
           S == Present \cup {t}
           pos == [position EXCEPT ![t] = n]
<1>1. n \in Nat /\ Cardinality(S) = n + 1
  BY FS_CardinalityType, FS_AddElement
<1> HIDE DEF n, S
<1>2. /\ position \in [QTorrents -> Int]
      /\ \A x \in QTorrents \ Present : position[x] = Nowhere
      /\ \A x \in Present : position[x] \in 0..(n - 1)
      /\ \A x, y \in Present : position[x] = position[y] => x = y
  BY DEF Lined, n
<1>3. /\ pos \in [QTorrents -> Int] /\ pos[t] = n
      /\ \A x \in QTorrents : x # t => pos[x] = position[x]
  BY <1>1, <1>2
<1> HIDE DEF pos
<1>4. \A x \in S : x = t \/ (x \in Present /\ x # t /\ x \in QTorrents)
  BY DEF S, Present
<1>5. \A x \in QTorrents \ S : x # t /\ x \in QTorrents \ Present
  BY DEF S
<1>6. \A x \in S : pos[x] \in 0..(n + 1 - 1)
  BY <1>1, <1>2, <1>3, <1>4
<1>7. \A x, y \in S : pos[x] = pos[y] => x = y
  BY <1>1, <1>2, <1>3, <1>4
<1>8. \A x \in QTorrents \ S : pos[x] = Nowhere
  BY <1>2, <1>3, <1>5
<1>9. \A x \in S : pos[x] \in 0..(Cardinality(S) - 1)
  BY <1>1, <1>6
<1>10. Lined(pos, S)
  BY <1>3, <1>7, <1>8, <1>9 DEF Lined
<1> QED
  BY <1>10 DEF pos, S, n

\* freeTorrent
LEMMA FreeKeepsLine ==
    ASSUME Lined(position, Present), IsFiniteSet(Present), NEW t \in Present
    PROVE  Lined([x \in QTorrents |-> IF x = t THEN Nowhere
                                      ELSE IF position[x] > position[t] THEN position[x] - 1 ELSE position[x]],
                 Present \ {t})
<1> DEFINE n == Cardinality(Present)
           S == Present \ {t}
           p == position[t]
           pos == [x \in QTorrents |-> IF x = t THEN Nowhere
                                      ELSE IF position[x] > p THEN position[x] - 1 ELSE position[x]]
<1>1. n \in Nat /\ Cardinality(S) = n - 1
  BY FS_CardinalityType, FS_RemoveElement
<1> HIDE DEF n, S
<1>2. /\ position \in [QTorrents -> Int]
      /\ \A x \in QTorrents \ Present : position[x] = Nowhere
      /\ \A x \in Present : position[x] \in 0..(n - 1)
      /\ \A x, y \in Present : position[x] = position[y] => x = y
  BY DEF Lined, n
<1>3. p \in 0..(n - 1) /\ \A x \in Present : x # t => position[x] # p
  BY <1>2
<1>4. \A x \in S : x \in Present /\ x # t /\ x \in QTorrents
  BY DEF S, Present
<1>5. \A x \in QTorrents \ S : x = t \/ x \in QTorrents \ Present
  BY DEF S
<1> HIDE DEF p
<1>6. pos \in [QTorrents -> Int]
  BY <1>2, <1>3 DEF Nowhere
<1>7. \A x \in QTorrents : pos[x] = IF x = t THEN Nowhere ELSE IF position[x] > p THEN position[x] - 1 ELSE position[x]
  OBVIOUS
<1> HIDE DEF pos
<1>8. \A x \in S : pos[x] \in 0..(n - 1 - 1)
  BY <1>1, <1>2, <1>3, <1>4, <1>7
<1>9. \A x, y \in S : pos[x] = pos[y] => x = y
  <2> TAKE x, y \in S
  <2> HAVE pos[x] = pos[y]
  <2>1. position[x] = position[y]
    BY <1>2, <1>3, <1>4, <1>7
  <2> QED
    BY <1>2, <1>4, <2>1
<1>10. \A x \in QTorrents \ S : pos[x] = Nowhere
  BY <1>2, <1>3, <1>5, <1>7 DEF Nowhere
<1>11. Lined(pos, S)
  BY <1>1, <1>6, <1>8, <1>9, <1>10 DEF Lined
<1> QED
  BY <1>11 DEF pos, S, p

-----------------------------------------------------------------------------
(* The pulse                                                               *)

LEMMA StartedTyped ==
    ASSUME NEW w \in [QTorrents -> Doings], NEW t \in QTorrents, NEW b \in BOOLEAN
    PROVE  Started(w, t, b) \in [QTorrents -> Doings]
BY DEF Started, Doings

Stuck(w, t) == w[t] = "queued, checking" \/ ~aspect[t].files
\* torrentStart of the next in line: it runs, or nothing happens.
LEMMA StartedNow ==
    ASSUME NEW w \in [QTorrents -> Doings], NEW t \in QTorrents, w[t] \in {"queued", "queued, checking"}
    PROVE  \/ Started(w, t, TRUE) = w /\ Stuck(w, t)
           \/ ~Stuck(w, t) /\ w[t] = "queued" /\ Started(w, t, TRUE) = [w EXCEPT ![t] = "running"]
<1>1. CASE w[t] = "queued, checking"
  <2>1. Started(w, t, TRUE) = w
    BY <1>1 DEF Started
  <2> QED
    BY <1>1, <2>1 DEF Stuck
<1>2. CASE w[t] = "queued" /\ ~aspect[t].files
  <2>1. Started(w, t, TRUE) = w
    BY <1>2 DEF Started
  <2> QED
    BY <1>2, <2>1 DEF Stuck
<1>3. CASE w[t] = "queued" /\ aspect[t].files
  <2>1. Started(w, t, TRUE) = [w EXCEPT ![t] = "running"]
    BY <1>3 DEF Started
  <2> QED
    BY <1>3, <2>1 DEF Stuck
<1> QED
  BY <1>1, <1>2, <1>3

\* Who is next has the least position, and is one.
LEMMA NextIs ==
    ASSUME NEW w, NEW d, Lined(position, Present), IsFiniteSet(Present)
    PROVE  /\ NextQueued(w, d) = {} => Queued(w, d) = {}
           /\ \A t, x \in NextQueued(w, d) : t = x
           /\ \A t \in NextQueued(w, d) : t \in Queued(w, d) /\ \A x \in Queued(w, d) : position[t] <= position[x]
<1> DEFINE Q == Queued(w, d)
           N == NextQueued(w, d)
           T == {position[t] : t \in Q}
<1>1. Q \subseteq Present
  BY DEF Queued
<1>2. /\ \A t \in Q : position[t] \in Nat
      /\ \A t, x \in Q : position[t] = position[x] => t = x
  <2>1. Cardinality(Present) \in Nat
    BY FS_CardinalityType
  <2> QED
    BY <1>1, <2>1 DEF Lined
<1>3. N = {t \in Q : \A x \in Q : position[t] <= position[x]}
  BY DEF NextQueued
<1> HIDE DEF Q, N
<1>4. ASSUME Q # {} PROVE N # {}
  <2>1. T \in SUBSET Nat /\ T # {}
    BY <1>2, <1>4
  <2>2. PICK y \in T : \A z \in T : y <= z
    BY <2>1, LeastNat
  <2> QED
    BY <1>3, <2>2
<1>5. \A t, x \in N : t = x
  <2> TAKE t, x \in N
  <2>1. t \in Q /\ x \in Q /\ position[t] <= position[x] /\ position[x] <= position[t]
    BY <1>3
  <2>2. position[t] = position[x]
    BY <1>2, <2>1
  <2> QED
    BY <1>2, <2>1, <2>2
<1> QED
  BY <1>3, <1>4, <1>5 DEF Q, N

Pulses == [w : [QTorrents -> Doings], told : SUBSET Present]
\* What is true when the loop of the pulse has been gone through k times.
PulseGood(p, k, d) ==
    /\ p \in Pulses
    /\ IsFiniteSet(p.told) /\ Cardinality(p.told) <= k
    /\ PulseStarts(p.w) \subseteq p.told
    /\ \A x \in PulseStarts(p.w) : \A t \in Queued(p.w, d) : position[x] <= position[t]
    /\ \A x \in p.told : doing[x] # "running" /\ (p.w[x] = "running" \/ Stuck(p.w, x))
    /\ \A x \in QTorrents : p.w[x] \in {doing[x], "running"}
    /\ p.told \subseteq PulseStarts(p.w) => Cardinality(p.told) = k \/ Queued(p.w, d) = {}

LEMMA PulseKeeps ==
    ASSUME NEW p, NEW k \in Nat, NEW d, PulseGood(p, k, d), Lined(position, Present), IsFiniteSet(Present)
    PROVE  PulseGood(StartNext(p, d), k + 1, d)
<1> DEFINE w == p.w
           told == p.told
           c == Cardinality(told)
           next == NextQueued(w, d)
           t == CHOOSE t \in next : TRUE
           w2 == Started(w, t, TRUE)
           told2 == told \cup next
           q == [w |-> w2, told |-> told2]
<1>1. /\ p \in Pulses /\ w \in [QTorrents -> Doings] /\ told \in SUBSET Present
      /\ IsFiniteSet(told) /\ c <= k /\ c \in Nat
      /\ PulseStarts(w) \subseteq told
      /\ \A x \in PulseStarts(w) : \A u \in Queued(w, d) : position[x] <= position[u]
      /\ \A x \in told : doing[x] # "running" /\ (w[x] = "running" \/ Stuck(w, x))
      /\ \A x \in QTorrents : w[x] \in {doing[x], "running"}
      /\ told \subseteq PulseStarts(w) => c = k \/ Queued(w, d) = {}
  BY FS_CardinalityType DEF PulseGood, Pulses
<1>2. CASE next = {}
  <2>1. StartNext(p, d) = p
    BY <1>2 DEF StartNext
  <2>2. Queued(w, d) = {}
    BY <1>2, NextIs
  <2>3. c <= k + 1
    <3> HIDE DEF c
    <3> QED
      BY <1>1
  <2> QED
    BY <1>1, <2>1, <2>2, <2>3 DEF PulseGood
<1>3. CASE next # {}
  <2>1. StartNext(p, d) = q
    BY <1>3 DEF StartNext
  <2>2. /\ t \in Queued(w, d) /\ next = {t}
        /\ \A x \in Queued(w, d) : position[t] <= position[x]
    BY <1>3, NextIs
  <2>3. t \in Present /\ t \in QTorrents /\ w[t] \in {"queued", "queued, checking"} /\ Queued(w, d) # {}
    BY <2>2 DEF Queued, Present
  <2>4. \/ w2 = w /\ Stuck(w, t)
        \/ ~Stuck(w, t) /\ w[t] = "queued" /\ w2 = [w EXCEPT ![t] = "running"]
    BY <1>1, <2>3, StartedNow
  <2>5. w2 \in [QTorrents -> Doings]
    BY <1>1, <2>3, StartedTyped
  <2> HIDE DEF t, next
  <2>6. told2 = told \cup {t}
    BY <2>2
  <2>7. /\ IsFiniteSet(told2) /\ Cardinality(told2) \in Nat
        /\ Cardinality(told2) = IF t \in told THEN c ELSE c + 1
    BY <1>1, <2>6, FS_AddElement, FS_CardinalityType
  <2> HIDE DEF w2, told2, c, w
  <2>8. Cardinality(told2) <= k + 1
    BY <1>1, <2>7
  <2>9. \A x \in QTorrents : x # t => w2[x] = w[x]
    BY <1>1, <2>3, <2>4
  <2>10. w2[t] = IF w2 = w THEN w[t] ELSE "running"
    BY <1>1, <2>3, <2>4
  <2>11. doing[t] # "running"
    BY <1>1, <2>3
  <2>12. PulseStarts(w2) \subseteq told2
    BY <1>1, <2>6, <2>9 DEF PulseStarts, Present
  <2>13. Queued(w2, d) \subseteq Queued(w, d)
    BY <2>9, <2>3 DEF Queued, Present
  <2>14. \A x \in PulseStarts(w2) : \A u \in Queued(w2, d) : position[x] <= position[u]
    <3>1. \A x \in PulseStarts(w2) : x = t \/ x \in PulseStarts(w)
      BY <2>9 DEF PulseStarts, Present
    <3> QED
      BY <1>1, <2>2, <2>13, <3>1
  <2>15. \A x \in told2 : doing[x] # "running" /\ (w2[x] = "running" \/ Stuck(w2, x))
    <3>1. \A x \in told : x \in QTorrents
      BY <1>1 DEF Present
    <3>2. \A x \in told : x # t => w2[x] = w[x] /\ (Stuck(w2, x) <=> Stuck(w, x))
      BY <2>9, <3>1 DEF Stuck
    <3>3. w2[t] = "running" \/ Stuck(w2, t)
      <4>1. CASE w2 = w
        <5>1. Stuck(w, t)
          BY <1>1, <2>3, <2>4, <4>1
        <5> QED
          BY <4>1, <5>1
      <4>2. CASE w2 # w
        BY <2>10, <4>2
      <4> QED
        BY <4>1, <4>2
    <3> QED
      BY <1>1, <2>6, <2>11, <3>2, <3>3
  <2>16. \A x \in QTorrents : w2[x] \in {doing[x], "running"}
    BY <1>1, <2>9, <2>10, <2>3
  <2>17. ASSUME told2 \subseteq PulseStarts(w2) PROVE Cardinality(told2) = k + 1
    <3>1. w2[t] = "running" /\ w2 # w
      BY <2>3, <2>6, <2>17 DEF PulseStarts
    <3>2. ~Stuck(w, t) /\ w[t] = "queued"
      BY <2>4, <3>1
    <3>3. t \notin told
      BY <1>1, <3>2
    <3>4. told \subseteq PulseStarts(w)
      BY <1>1, <2>6, <2>9, <2>17, <3>3 DEF PulseStarts, Present
    <3>5. c = k
      BY <1>1, <2>3, <3>4
    <3> QED
      BY <1>1, <2>7, <3>3, <3>5
  <2>18. q \in Pulses /\ q.w = w2 /\ q.told = told2
    BY <1>1, <2>3, <2>5, <2>6 DEF Pulses
  <2>19. PulseGood(q, k + 1, d)
    BY <2>7, <2>8, <2>12, <2>14, <2>15, <2>16, <2>17, <2>18 DEF PulseGood
  <2> QED
    BY <2>1, <2>19
<1> QED
  BY <1>2, <1>3

\* queuePulse
LEMMA PulseIsInOrder ==
    ASSUME QueueTypes, Lined(position, Present), IsFiniteSet(Present), NEW d \in Directions, Pulse2(d)
    PROVE  doing' \in [QTorrents -> Doings] /\ PulseInOrder'
<1> DEFINE n == IF slots[d].enabled THEN FreeSlots(doing, d) ELSE 0
           x0 == [w |-> doing, told |-> {}]
           Body(p) == StartNext(p, d)
           X == [k \in 0..n |-> {p \in Pulses : PulseGood(p, k, d)}]
           F == [k \in 1..n |-> [x \in Pulses |-> Body(x)]]
           Loop(f) == f = [k \in 0..n |-> IF k = 0 THEN x0 ELSE Body(f[k - 1])]
           g == CHOOSE f : Loop(f)
           v == g[n]
<1>1. n \in Nat
  <2>1. Active(doing, d) \in SUBSET Present
    BY DEF Active
  <2> DEFINE a == Cardinality(Active(doing, d))
  <2>2. a \in Nat
    BY <2>1, FS_Subset, FS_CardinalityType
  <2>3. slots[d].size \in Nat
    BY DEF QueueTypes, SlotCounts
  <2> HIDE DEF a
  <2> DEFINE s == slots[d].size
  <2>4. FreeSlots(doing, d) = IF ~slots[d].enabled THEN INT_MAX ELSE IF a >= s THEN 0 ELSE s - a
    BY DEF FreeSlots, a
  <2> HIDE DEF s
  <2>5. FreeSlots(doing, d) \in Nat
    BY <2>2, <2>3, <2>4 DEF INT_MAX, s
  <2> QED
    BY <2>5
<1>2. /\ doing' = v.w
      /\ pulse2' = [dir |-> d, before |-> n, told |-> v.told, waiting |-> Queued(v.w, d),
                    started |-> PulseStarts(v.w),
                    overtaken |-> {t \in Queued(v.w, d) : \E x \in PulseStarts(v.w) : position[x] > position[t]}]
  BY DEF Pulse2
<1>3. x0 \in Pulses /\ PulseGood(x0, 0, d)
  <2>1. x0 \in Pulses /\ x0.w = doing /\ x0.told = {}
    BY DEF QueueTypes, Pulses
  <2>2. IsFiniteSet({}) /\ Cardinality({}) = 0
    BY FS_EmptySet
  <2>3. PulseStarts(doing) = {}
    BY DEF PulseStarts
  <2> HIDE DEF x0
  <2> QED
    BY <2>1, <2>2, <2>3 DEF PulseGood
<1> HIDE DEF x0, n
<1>4. \A k \in 0..n : \A p : p \in X[k] <=> p \in Pulses /\ PulseGood(p, k, d)
  OBVIOUS
<1>5. \A k \in 1..n : \A x \in Pulses : F[k][x] = Body(x)
  OBVIOUS
<1>6. 0 \in 0..n /\ \A k \in 1..n : k - 1 \in 0..n /\ k \in 0..n /\ k - 1 \in Nat /\ k = k - 1 + 1
  BY <1>1
<1> HIDE DEF X, F, Body
<1>7. ASSUME NEW k \in 1..n, NEW p \in X[k - 1] PROVE Body(p) \in X[k]
  <2>1. p \in Pulses /\ PulseGood(p, k - 1, d) /\ k - 1 \in Nat
    BY <1>4, <1>6
  <2>2. PulseGood(Body(p), k, d)
    <3> DEFINE j == k - 1
    <3>1. j \in Nat /\ PulseGood(p, j, d)
      BY <2>1
    <3> HIDE DEF j
    <3>2. PulseGood(StartNext(p, d), j + 1, d)
      BY <3>1, PulseKeeps
    <3>3. j + 1 = k
      BY <1>6 DEF j
    <3> QED
      BY <3>2, <3>3 DEF Body
  <2>3. Body(p) \in Pulses
    BY <2>2 DEF PulseGood
  <2> QED
    BY <1>4, <1>6, <2>2, <2>3
<1>8. \A k \in 1..n : \A x \in X[k - 1] : x \in Pulses
  BY <1>4, <1>6
<1>9. x0 \in X[0]
  BY <1>3, <1>4, <1>6
<1>10. \E f : Loop(f)
  <2>1. \A k \in 1..n : \A x \in X[k - 1] : F[k][x] \in X[k]
    BY <1>5, <1>7, <1>8
  <2>2. PICK f : IsLoop(f, n, x0, F) /\ \A k \in 0..n : f[k] \in X[k]
    BY <1>1, <1>9, <2>1, StepsExist
  <2>3. ASSUME NEW k \in 0..n PROVE (IF k = 0 THEN x0 ELSE F[k][f[k - 1]]) = IF k = 0 THEN x0 ELSE Body(f[k - 1])
    <3>1. CASE k # 0
      <4>1. k \in 1..n
        BY <1>1, <3>1
      <4>2. f[k - 1] \in Pulses
        BY <1>6, <1>8, <2>2, <4>1
      <4> QED
        BY <1>5, <4>1, <4>2
    <3> QED
      BY <3>1
  <2>4. f = [k \in 0..n |-> IF k = 0 THEN x0 ELSE Body(f[k - 1])]
    BY <2>2, <2>3 DEF IsLoop
  <2> QED
    BY <2>4
<1>11. Loop(g)
  BY <1>10
<1> HIDE DEF g
<1>12. g[0] = x0 /\ \A k \in 1..n : g[k] = Body(g[k - 1])
  BY <1>1, <1>11
<1>13. \A k \in 0..n : g[k] \in X[k]
  <2>1. \A k \in 1..n : g[k - 1] \in X[k - 1] => g[k] \in X[k]
    BY <1>7, <1>12
  <2>2. g[0] \in X[0]
    BY <1>9, <1>12
  <2> QED
    BY <1>1, <2>1, <2>2, StepsReach
<1>14. v \in Pulses /\ PulseGood(v, n, d)
  <2>1. n \in 0..n
    BY <1>1
  <2> QED
    BY <1>4, <1>13, <2>1
<1> HIDE DEF v
<1>15. /\ v.w \in [QTorrents -> Doings]
       /\ IsFiniteSet(v.told) /\ Cardinality(v.told) <= n
       /\ PulseStarts(v.w) \subseteq v.told
       /\ \A x \in PulseStarts(v.w) : \A t \in Queued(v.w, d) : position[x] <= position[t]
       /\ v.told \subseteq PulseStarts(v.w) => Cardinality(v.told) = n \/ Queued(v.w, d) = {}
  BY <1>14 DEF PulseGood, Pulses
<1>16. Cardinality(PulseStarts(v.w)) <= n
  <2> DEFINE a == Cardinality(PulseStarts(v.w))
             b == Cardinality(v.told)
  <2>1. IsFiniteSet(PulseStarts(v.w)) /\ a <= b
    BY <1>15, FS_Subset
  <2>2. a \in Nat /\ b \in Nat
    BY <1>15, <2>1, FS_CardinalityType
  <2>3. b <= n
    BY <1>15
  <2> HIDE DEF a, b
  <2>4. a <= n
    BY <1>1, <2>1, <2>2, <2>3
  <2> QED
    BY <2>4 DEF a
<1>17. {t \in Queued(v.w, d) : \E x \in PulseStarts(v.w) : position[x] > position[t]} = {}
  <2>1. \A x \in PulseStarts(v.w) : position[x] \in Int
    BY DEF PulseStarts, Lined, Present
  <2>2. \A t \in Queued(v.w, d) : position[t] \in Int
    BY DEF Queued, Lined, Present
  <2> QED
    BY <1>15, <2>1, <2>2
<1>18. Cardinality(v.told) < n /\ v.told = PulseStarts(v.w) => Queued(v.w, d) = {}
  <2> DEFINE b == Cardinality(v.told)
  <2>1. b \in Nat
    BY <1>15, FS_CardinalityType
  <2>2. b < n => b # n
    BY <1>1, <2>1
  <2> HIDE DEF b
  <2>3. v.told = PulseStarts(v.w) => b = n \/ Queued(v.w, d) = {}
    BY <1>15 DEF b
  <2>4. b < n /\ v.told = PulseStarts(v.w) => Queued(v.w, d) = {}
    BY <2>2, <2>3
  <2> QED
    BY <2>4 DEF b
<1>19. PulseInOrder'
  <2>1. /\ pulse2'.before = n /\ pulse2'.told = v.told /\ pulse2'.waiting = Queued(v.w, d)
        /\ pulse2'.started = PulseStarts(v.w) /\ pulse2'.overtaken = {}
    BY <1>2, <1>17
  <2> QED
    BY <1>15, <1>16, <1>18, <2>1 DEF PulseInOrder
<1> QED
  BY <1>2, <1>15, <1>19

-----------------------------------------------------------------------------
LEMMA InitQueueIInv == QueueInit => QueueIInv
<1> SUFFICES ASSUME QueueInit PROVE QueueIInv
  OBVIOUS
<1>1. Present = {}
  BY DEF QueueInit, Present
<1>2. QueueTypes
  <2>1. PICK n \in QueueSizes : slots = [d \in Directions |-> [size |-> n, enabled |-> TRUE]]
    BY DEF QueueInit
  <2>2. n \in Nat
    BY QueueAssumption
  <2> QED
    BY <2>1, <2>2 DEF QueueInit, QueueTypes, Doings, Aspects, SlotCounts, Directions
<1>3. Lined(position, {})
  BY DEF QueueInit, Lined, Nowhere
<1>4. PulseInOrder
  BY FS_EmptySet DEF QueueInit, NoPulse, PulseInOrder
<1> QED
  BY <1>1, <1>2, <1>3, <1>4 DEF QueueIInv

LEMMA QueueStep ==
    ASSUME QueueIInv, [QueueNext]_queueVars
    PROVE  QueueIInv'
<1> USE QueueAssumption
<1>1. QueueTypes /\ Lined(position, Present) /\ PulseInOrder
  BY DEF QueueIInv
<1>2. Present \subseteq QTorrents /\ IsFiniteSet(Present)
  BY FS_Subset DEF Present
<1>3. ASSUME UNCHANGED position PROVE Lined(position, Present)'
  <2>1. Present' = Present
    BY <1>3 DEF Present
  <2> QED
    BY <1>1, <1>3, <2>1 DEF Lined
<1>4. ASSUME UNCHANGED pulse2 PROVE PulseInOrder'
  BY <1>1, <1>4 DEF PulseInOrder
<1>5. ASSUME UNCHANGED <<doing, aspect, slots>> PROVE QueueTypes'
  BY <1>1, <1>5 DEF QueueTypes
<1>6. ASSUME NEW S \in SUBSET QTorrents, Lined(position', S) PROVE Lined(position, Present)'
  <2>1. IsFiniteSet(S)
    BY FS_Subset
  <2>2. Present' = S
    BY <1>6, <2>1, LinePresent DEF Present
  <2> QED
    BY <1>6, <2>2 DEF Lined
<1>7. CASE UNCHANGED queueVars
  BY <1>3, <1>4, <1>5, <1>7 DEF queueVars, QueueIInv
<1>8. ASSUME NEW t \in QTorrents, NEW p \in -1..Cardinality(QTorrents), SetQueuePosition(t, p) PROVE QueueIInv'
  <2>1. Cardinality(QTorrents) \in Nat
    BY FS_CardinalityType
  <2>2. p \in Int
    BY <2>1
  <2>3. t \in Present /\ position' = SetPosition(position, t, p)
    BY <1>8 DEF SetQueuePosition
  <2>4. Lined(position', Present)
    BY <1>1, <1>2, <2>2, <2>3, SetKeepsLine
  <2> QED
    BY <1>2, <1>4, <1>5, <1>6, <1>8, <2>4 DEF SetQueuePosition, QueueIInv
<1>9. ASSUME NEW S \in SUBSET QTorrents, NEW where \in {"top", "up", "down", "bottom"}, QueueMove(S, where) PROVE QueueIInv'
  <2>1. S \in SUBSET Present /\ position' = MoveAll(S, where)
    BY <1>9 DEF QueueMove
  <2>2. Lined(position', Present)
    BY <1>1, <1>2, <2>1, MovesKeepLine
  <2> QED
    BY <1>2, <1>4, <1>5, <1>6, <1>9, <2>2 DEF QueueMove, QueueIInv
<1>10. ASSUME NEW t \in QTorrents, NEW d \in Directions, Add(t, d) PROVE QueueIInv'
  <2>1. Lined(position', Present \cup {t})
    BY <1>1, <1>2, <1>10, AddKeepsLine DEF Add
  <2>2. QueueTypes'
    BY <1>1, <1>10 DEF Add, QueueTypes, Aspects
  <2> QED
    BY <1>2, <1>4, <1>6, <1>10, <2>1, <2>2 DEF Add, QueueIInv
<1>11. ASSUME NEW t \in QTorrents, Free(t) PROVE QueueIInv'
  <2>1. Lined(position', Present \ {t})
    BY <1>1, <1>2, <1>11, FreeKeepsLine DEF Free
  <2>2. QueueTypes'
    BY <1>1, <1>11 DEF Free, QueueTypes, Aspects, Doings, Directions
  <2> QED
    BY <1>2, <1>4, <1>6, <1>11, <2>1, <2>2 DEF Free, QueueIInv
<1>12. ASSUME NEW t \in QTorrents, NEW b \in BOOLEAN, Start(t, b) PROVE QueueIInv'
  <2>1. QueueTypes'
    BY <1>1, <1>12, StartedTyped DEF Start, QueueTypes
  <2> QED
    BY <1>3, <1>4, <1>12, <2>1 DEF Start, QueueIInv
<1>13. ASSUME NEW t \in QTorrents, Stop(t) PROVE QueueIInv'
  <2>1. QueueTypes'
    BY <1>1, <1>13 DEF Stop, QueueTypes, Doings
  <2> QED
    BY <1>3, <1>4, <1>13, <2>1 DEF Stop, QueueIInv
<1>14. ASSUME NEW t \in QTorrents, Check(t) PROVE QueueIInv'
  <2>1. QueueTypes'
    BY <1>1, <1>14 DEF Check, QueueTypes, Doings
  <2> QED
    BY <1>3, <1>4, <1>14, <2>1 DEF Check, QueueIInv
<1>15. ASSUME NEW t \in QTorrents, NEW d \in Directions, NEW s \in BOOLEAN, NEW f \in BOOLEAN, Becomes(t, d, s, f) PROVE QueueIInv'
  <2>1. QueueTypes'
    BY <1>1, <1>15 DEF Becomes, QueueTypes, Aspects
  <2> QED
    BY <1>3, <1>4, <1>15, <2>1 DEF Becomes, QueueIInv
<1>16. ASSUME NEW d \in Directions, QueuePulse(d) PROVE QueueIInv'
  <2>1. doing' \in [QTorrents -> Doings] /\ PulseInOrder'
    BY <1>1, <1>2, <1>16, PulseIsInOrder DEF QueuePulse
  <2>2. QueueTypes'
    BY <1>1, <1>16, <2>1 DEF QueuePulse, QueueTypes
  <2> QED
    BY <1>3, <1>16, <2>1, <2>2 DEF QueuePulse, QueueIInv
<1>17. ASSUME NEW d \in Directions, NEW n \in QueueSizes, NEW on \in BOOLEAN, SetQueue(d, n, on) PROVE QueueIInv'
  <2>1. QueueTypes'
    BY <1>1, <1>17 DEF SetQueue, QueueTypes, SlotCounts
  <2> QED
    BY <1>3, <1>4, <1>17, <2>1 DEF SetQueue, QueueIInv
<1>18. CASE QueueNext
  BY <1>8, <1>9, <1>10, <1>11, <1>12, <1>13, <1>14, <1>15, <1>16, <1>17, <1>18 DEF QueueNext
<1> QED
  BY <1>7, <1>18

LEMMA QueueIInvSound == QueueIInv => QueueSequenced /\ PulseInOrder
<1> SUFFICES ASSUME QueueIInv PROVE QueueSequenced /\ PulseInOrder
  OBVIOUS
<1>1. Present \subseteq QTorrents /\ IsFiniteSet(Present)
  BY QueueAssumption, FS_Subset DEF Present
<1>2. Lined(position, Present)
  BY DEF QueueIInv
<1>3. \A k \in 0..(Cardinality(Present) - 1) : \E t \in Present : position[t] = k
  BY <1>1, <1>2, PlacesTaken
<1>4. \A t \in Present : position[t] \in 0..(Cardinality(Present) - 1)
  BY <1>2 DEF Lined
<1> QED
  BY <1>3, <1>4 DEF QueueSequenced, QueueIInv

\* The positions have neither gap nor tie after any calls, and no pulse starts
\* more than it may or somebody before his turn (torrent.c, queuePulse).
THEOREM QueueIsInOrder == QueueSpec => [](QueueSequenced /\ PulseInOrder)
<1>1. QueueIInv /\ [QueueNext]_queueVars => QueueIInv'
  BY QueueStep
<1> QED
  BY <1>1, InitQueueIInv, QueueIInvSound, PTL DEF QueueSpec

-----------------------------------------------------------------------------
(***************************************************************************)
(* For any length of the day and of the week: the speed limits follow the   *)
(* schedule and the user, and a setting that is toggled settles.            *)
(*                                                                         *)
(* The schedule is kept as a table of minutes that is made anew when a      *)
(* setting of it changes; Scheduled reads the settings themselves.          *)
(***************************************************************************)
Turtles == [days : SUBSET (0..(DaysPerWeek - 1)), begin : 0..(MinutesPerDay - 1),
            end : 0..(MinutesPerDay - 1), clock : BOOLEAN, on : BOOLEAN, byUser : BOOLEAN,
            auto : {"on", "off", "unused"}, table : SUBSET Int]

\* A turtle whose table, automatic state and mode are those of its settings.
ScheduleInOrder(t, now) ==
    /\ t \in Turtles /\ t.table = TurtleTable(t)
    /\ t.clock => t.auto = AutoSwitchState(now \in TurtleTable(t))
    /\ t.clock /\ ~t.byUser => (t.on <=> now \in TurtleTable(t))

-----------------------------------------------------------------------------
LEMMA WeekNat == MinutesPerDay \in Nat /\ MinutesPerDay > 0 /\ DaysPerWeek \in Nat /\ MinutesPerWeek \in Nat /\ MinutesPerWeek > 0
<1>1. \A m, d \in Nat \ {0} : m * d \in Nat /\ m * d > 0
  BY SMT
<1> QED
  BY <1>1, ScheduleAssumption DEF MinutesPerWeek

\* The table holds minutes, and exactly the ones the settings cover.
LEMMA TableTyped ==
    ASSUME NEW t \in Turtles
    PROVE  TurtleTable(t) \in SUBSET Int
<1> SUFFICES ASSUME NEW now \in TurtleTable(t) PROVE now \in Int
  OBVIOUS
<1>1. PICK day \in t.days : now \in Covered(day, t.begin, t.end)
  BY DEF TurtleTable
<1>2. PICK m \in Int : now = (m + day * MinutesPerDay) % MinutesPerWeek
  <2> DEFINE last == (IF t.end <= t.begin THEN t.end + MinutesPerDay ELSE t.end) - 1
  <2>1. PICK m \in t.begin..last : now = (m + day * MinutesPerDay) % MinutesPerWeek
    BY <1>1 DEF Covered
  <2>2. m \in Int
    BY DEF Turtles
  <2> QED
    BY <2>1, <2>2
<1>3. day \in Nat
  BY WeekNat DEF Turtles
<1>4. \A d, n \in Nat : d * n \in Int
  BY SMT
<1>5. day * MinutesPerDay \in Int
  BY <1>3, <1>4, WeekNat
<1> QED
  BY <1>2, <1>5, WeekNat

LEMMA TableIsSchedule ==
    ASSUME turtle \in Turtles, NEW now
    PROVE  now \in TurtleTable(turtle) <=> Scheduled(now)
<1> DEFINE b == turtle.begin
           e == turtle.end
           last == (IF e <= b THEN e + MinutesPerDay ELSE e) - 1
<1>1. b \in Nat /\ e \in Nat /\ b < MinutesPerDay /\ e < MinutesPerDay /\ last \in Int
  BY WeekNat DEF Turtles
<1>2. \A day \in turtle.days : day * MinutesPerDay \in Int
  <2>1. \A d, n \in Nat : d * n \in Int
    BY SMT
  <2> QED
    BY <2>1, WeekNat DEF Turtles
<1>3. \A day \in turtle.days :
        now \in Covered(day, b, e) <=>
        \E m \in b..last : now = (m + day * MinutesPerDay) % MinutesPerWeek
  BY DEF Covered
<1>4. Scheduled(now) <=>
        \E day \in turtle.days : \E k \in 0..(2 * MinutesPerDay) :
          /\ now = (day * MinutesPerDay + b + k) % MinutesPerWeek
          /\ IF b < e THEN k < e - b ELSE k < MinutesPerDay - b + e
  BY DEF Scheduled
<1>5. ASSUME NEW day \in turtle.days
      PROVE (\E m \in b..last : now = (m + day * MinutesPerDay) % MinutesPerWeek) <=>
            \E k \in 0..(2 * MinutesPerDay) :
              /\ now = (day * MinutesPerDay + b + k) % MinutesPerWeek
              /\ IF b < e THEN k < e - b ELSE k < MinutesPerDay - b + e
  <2> DEFINE D == day * MinutesPerDay
  <2>1. D \in Int
    BY <1>2
  <2>2. last = IF b < e THEN e - 1 ELSE e + MinutesPerDay - 1
    BY <1>1, WeekNat
  <2> HIDE DEF D, b, e, last
  <2>3. ASSUME NEW m \in b..last, now = (m + D) % MinutesPerWeek
        PROVE  \E k \in 0..(2 * MinutesPerDay) : /\ now = (D + b + k) % MinutesPerWeek
                                                 /\ IF b < e THEN k < e - b ELSE k < MinutesPerDay - b + e
    <3> DEFINE k == m - b
    <3>1. /\ k \in 0..(2 * MinutesPerDay)
          /\ IF b < e THEN k < e - b ELSE k < MinutesPerDay - b + e
      BY <1>1, <2>2, <2>3, WeekNat
    <3>2. m + D = D + b + k
      BY <1>1, <2>1, <2>3
    <3> QED
      BY <2>3, <3>1, <3>2
  <2>4. ASSUME NEW k \in 0..(2 * MinutesPerDay), now = (D + b + k) % MinutesPerWeek,
               IF b < e THEN k < e - b ELSE k < MinutesPerDay - b + e
        PROVE  \E m \in b..last : now = (m + D) % MinutesPerWeek
    <3> DEFINE m == b + k
    <3>1. m \in b..last
      BY <1>1, <2>2, <2>4, WeekNat
    <3>2. m + D = D + b + k
      BY <1>1, <2>1, <2>4, WeekNat
    <3> QED
      BY <2>4, <3>1, <3>2
  <2> QED
    BY <2>3, <2>4 DEF D
<1>6. now \in TurtleTable(turtle) <=> \E day \in turtle.days : now \in Covered(day, b, e)
  BY DEF TurtleTable
<1> HIDE DEF b, e, last
<1> QED
  BY <1>3, <1>4, <1>5, <1>6

\* The bandwidth is told of the mode, and of nothing else of the schedule.
LEMMA OnlyTheMode ==
    ASSUME NEW t, NEW u, NEW l, t.on = u.on
    PROVE  UpdateBandwidth(t, l) = UpdateBandwidth(u, l)
BY DEF UpdateBandwidth, ActiveLimit

\* The table is made of the days, the begin and the end.
LEMMA SameTable ==
    ASSUME NEW t, NEW u, t.days = u.days, t.begin = u.begin, t.end = u.end
    PROVE  TurtleTable(t) = TurtleTable(u)
BY DEF TurtleTable

\* useAltSpeed changes the mode and who changed it last.
LEMMA UseAltParts ==
    ASSUME NEW t \in Turtles, NEW on \in BOOLEAN, NEW byUser \in BOOLEAN
    PROVE  LET u == UseAlt(t, on, byUser)
           IN  /\ u \in Turtles /\ (u.on <=> on)
               /\ u.days = t.days /\ u.begin = t.begin /\ u.end = t.end
               /\ u.table = t.table /\ u.clock = t.clock /\ u.auto = t.auto
               /\ (t.on <=> on) => u.byUser = t.byUser
               /\ ~(t.on <=> on) => u.byUser = byUser
               /\ (t.on <=> on) => u = t
<1> DEFINE y == [t EXCEPT !.on = on, !.byUser = byUser]
<1>1. /\ y \in Turtles /\ y.on = on /\ y.byUser = byUser
      /\ y.days = t.days /\ y.begin = t.begin /\ y.end = t.end
      /\ y.table = t.table /\ y.clock = t.clock /\ y.auto = t.auto
  BY DEF Turtles
<1>2. t.on \in BOOLEAN
  BY DEF Turtles
<1>3. /\ (t.on <=> on) => UseAlt(t, on, byUser) = t
      /\ ~(t.on <=> on) => UseAlt(t, on, byUser) = y
  BY <1>2 DEF UseAlt
<1> HIDE DEF y
<1> QED
  BY <1>1, <1>3

\* turtleBootstrap, from settings of any kind.
LEMMA BootstrapOK ==
    ASSUME NEW t \in Turtles, NEW now
    PROVE  ScheduleInOrder(Bootstrap2(t, now), now)
<1> DEFINE table == TurtleTable(t)
           in == now \in table
           loaded == [t EXCEPT !.byUser = FALSE, !.table = table]
           x == [loaded EXCEPT !.on = in, !.auto = AutoSwitchState(in)]
           y == [loaded EXCEPT !.auto = "unused"]
<1>1. table \in SUBSET Int /\ in \in BOOLEAN /\ AutoSwitchState(in) \in {"on", "off", "unused"}
  BY TableTyped DEF AutoSwitchState
<1>2. Bootstrap2(t, now) = IF t.clock THEN x ELSE y
  BY DEF Bootstrap2, InTurtleTime, Turtles
<1> HIDE DEF table, in
<1>3. /\ loaded \in Turtles /\ loaded.table = table /\ loaded.clock = t.clock
      /\ loaded.days = t.days /\ loaded.begin = t.begin /\ loaded.end = t.end
  BY <1>1 DEF Turtles
<1> HIDE DEF loaded
<1>4. /\ x \in Turtles /\ x.table = table /\ x.on = in /\ x.auto = AutoSwitchState(in)
      /\ x.days = t.days /\ x.begin = t.begin /\ x.end = t.end
  BY <1>1, <1>3 DEF Turtles
<1>5. /\ y \in Turtles /\ y.table = table /\ y.clock = t.clock
      /\ y.days = t.days /\ y.begin = t.begin /\ y.end = t.end
  BY <1>3 DEF Turtles
<1> HIDE DEF x, y
<1>6. TurtleTable(x) = table /\ TurtleTable(y) = table
  BY <1>4, <1>5, SameTable DEF table
<1>7. CASE t.clock
  <2>1. ScheduleInOrder(x, now)
    BY <1>4, <1>6 DEF ScheduleInOrder, in
  <2> QED
    BY <1>2, <1>7, <2>1
<1>8. CASE ~t.clock
  <2>1. ScheduleInOrder(y, now)
    BY <1>5, <1>6, <1>8 DEF ScheduleInOrder
  <2> QED
    BY <1>2, <1>8, <2>1
<1> QED
  BY <1>7, <1>8

\* userPokedTheClock, whatever was changed.
LEMMA PokedOK ==
    ASSUME NEW t \in Turtles, NEW now
    PROVE  ScheduleInOrder(Poked(t, now), now)
<1> DEFINE table == TurtleTable(t)
           in == now \in table
           fresh == [t EXCEPT !.auto = "unused", !.table = table]
           user == TRUE
           used == UseAlt(fresh, in, user)
           x == [used EXCEPT !.auto = AutoSwitchState(in)]
<1>1. /\ table \in SUBSET Int /\ in \in BOOLEAN /\ user \in BOOLEAN
      /\ AutoSwitchState(in) \in {"on", "off", "unused"}
  BY TableTyped DEF AutoSwitchState
<1>2. /\ fresh \in Turtles /\ fresh.table = table /\ fresh.clock = t.clock
      /\ fresh.days = t.days /\ fresh.begin = t.begin /\ fresh.end = t.end
  <2> HIDE DEF table
  <2> QED
    BY <1>1 DEF Turtles
<1>3. Poked(t, now) = IF t.clock THEN x ELSE fresh
  <2>1. InTurtleTime(fresh, now) = in
    BY <1>2 DEF InTurtleTime
  <2> QED
    BY <1>2, <2>1 DEF Poked
<1> HIDE DEF table, in, fresh, user
<1>4. /\ used \in Turtles /\ (used.on <=> in) /\ used.table = table /\ used.clock = fresh.clock
      /\ used.days = t.days /\ used.begin = t.begin /\ used.end = t.end
  BY <1>1, <1>2, UseAltParts
<1> HIDE DEF used
<1>5. /\ x \in Turtles /\ (x.on <=> in) /\ x.table = table /\ x.auto = AutoSwitchState(in)
      /\ x.days = t.days /\ x.begin = t.begin /\ x.end = t.end
  BY <1>1, <1>4 DEF Turtles
<1> HIDE DEF x
<1>6. TurtleTable(x) = table /\ TurtleTable(fresh) = table
  BY <1>2, <1>5, SameTable DEF table
<1>7. CASE t.clock
  <2>1. ScheduleInOrder(x, now)
    BY <1>5, <1>6 DEF ScheduleInOrder, in
  <2> QED
    BY <1>3, <1>7, <2>1
<1>8. CASE ~t.clock
  <2>1. ScheduleInOrder(fresh, now)
    BY <1>2, <1>6, <1>8 DEF ScheduleInOrder
  <2> QED
    BY <1>3, <1>8, <2>1
<1> QED
  BY <1>7, <1>8

\* turtleCheckClock: if what the schedule says has not changed, neither has the
\* mode, unless the user changed it.
LEMMA ClockOK ==
    ASSUME NEW t, NEW before, ScheduleInOrder(t, before), NEW now
    PROVE  ScheduleInOrder(Clock(t, now), now)
<1> DEFINE in == now \in TurtleTable(t)
           was == before \in TurtleTable(t)
           state == AutoSwitchState(in)
           y == [t EXCEPT !.auto = state]
           user == FALSE
           used == UseAlt(y, in, user)
<1>1. /\ t \in Turtles /\ t.table = TurtleTable(t)
      /\ in \in BOOLEAN /\ was \in BOOLEAN /\ user \in BOOLEAN
  BY DEF ScheduleInOrder
<1>2. state \in {"on", "off", "unused"} /\ (state = AutoSwitchState(was) => (in <=> was))
  BY DEF AutoSwitchState
<1>3. Clock(t, now) = IF ~t.clock \/ t.auto = state THEN t ELSE used
  BY <1>1 DEF Clock, InTurtleTime
<1>4. CASE ~t.clock \/ t.auto = state
  <2>1. t.clock => t.auto = state /\ (in <=> was)
    BY <1>2, <1>4 DEF ScheduleInOrder
  <2>2. ScheduleInOrder(t, now)
    BY <2>1 DEF ScheduleInOrder
  <2> QED
    BY <1>3, <1>4, <2>2
<1>5. CASE ~(~t.clock \/ t.auto = state)
  <2> HIDE DEF state, in, user
  <2>1. /\ y \in Turtles /\ y.table = t.table /\ y.auto = state /\ y.clock = t.clock
        /\ y.days = t.days /\ y.begin = t.begin /\ y.end = t.end
    BY <1>1, <1>2 DEF Turtles
  <2> HIDE DEF y
  <2>2. /\ used \in Turtles /\ (used.on <=> in) /\ used.table = t.table /\ used.auto = state
        /\ used.days = t.days /\ used.begin = t.begin /\ used.end = t.end
    BY <1>1, <2>1, UseAltParts
  <2> HIDE DEF used
  <2>3. TurtleTable(used) = TurtleTable(t)
    BY <2>2, SameTable
  <2>4. ScheduleInOrder(used, now)
    BY <1>1, <2>2, <2>3 DEF ScheduleInOrder, in, state
  <2> QED
    BY <1>3, <1>5, <2>4
<1> QED
  BY <1>4, <1>5

-----------------------------------------------------------------------------
LimitRecord == [primary : Speeds, alternative : Speeds, used : BOOLEAN]

\* What is posted: the bandwidth lags behind only while a change of the mode is,
\* and a toggle that was alone ends at what was asked for.
PostedOK ==
    /\ posted \in [alt : Nat, toggles : Nat, overlapped : BOOLEAN]
    /\ flags \in [set : BOOLEAN, asked : BOOLEAN]
    /\ posted.alt = 0 => bandwidth = UpdateBandwidth(turtle, limits)
    /\ ~posted.overlapped =>
         /\ posted.toggles \in {0, 1}
         /\ posted.toggles = 0 <=> (flags.set <=> flags.asked)

SIInv ==
    /\ ScheduleInOrder(turtle, minute)
    /\ limits \in LimitRecord
    /\ PostedOK

LEMMA InitSIInv == SchedInit => SIInv
<1> SUFFICES ASSUME SchedInit PROVE SIInv
  OBVIOUS
<1>1. PICK d \in SUBSET (0..(DaysPerWeek - 1)), c \in BOOLEAN, o \in BOOLEAN,
           b \in 0..(MinutesPerDay - 1), e \in 0..(MinutesPerDay - 1), p \in Speeds, a \in Speeds :
         /\ turtle = Bootstrap2([days |-> d, begin |-> b, end |-> e, clock |-> c, on |-> o, byUser |-> FALSE,
                                 auto |-> "unused", table |-> {}], 0)
         /\ limits = [primary |-> p, alternative |-> a, used |-> o]
  BY DEF SchedInit
<1> DEFINE t == [days |-> d, begin |-> b, end |-> e, clock |-> c, on |-> o, byUser |-> FALSE,
                 auto |-> "unused", table |-> {}]
<1>2. t \in Turtles
  BY DEF Turtles
<1> HIDE DEF t
<1>3. turtle = Bootstrap2(t, 0) /\ minute = 0
  BY <1>1 DEF t, SchedInit
<1>4. ScheduleInOrder(turtle, minute)
  BY <1>2, <1>3, BootstrapOK
<1>5. limits \in LimitRecord
  BY <1>1 DEF LimitRecord
<1>6. PostedOK
  BY DEF SchedInit, PostedOK
<1> QED
  BY <1>4, <1>5, <1>6 DEF SIInv

LEMMA NowTimerStep ==
    ASSUME SIInv, NowTimer
    PROVE  SIInv'
<1> DEFINE now == (minute + 1) % MinutesPerWeek
           t == Clock(turtle, now)
<1>1. /\ minute' = now /\ turtle' = t
      /\ bandwidth' = IF t.on # turtle.on THEN UpdateBandwidth(t, limits) ELSE bandwidth
      /\ UNCHANGED <<limits, flags, posted>>
  BY DEF NowTimer
<1> HIDE DEF now
<1>2. ScheduleInOrder(t, now)
  BY ClockOK DEF SIInv
<1> HIDE DEF t
<1>3. posted.alt = 0 => bandwidth' = UpdateBandwidth(t, limits)
  <2>1. CASE t.on # turtle.on
    BY <1>1, <2>1
  <2>2. CASE t.on = turtle.on
    BY <1>1, <2>2, OnlyTheMode DEF SIInv, PostedOK
  <2> QED
    BY <2>1, <2>2
<1> QED
  BY <1>1, <1>2, <1>3 DEF SIInv, PostedOK

LEMMA AltSpeedToggledStep ==
    ASSUME SIInv, AltSpeedToggled
    PROVE  SIInv'
<1> DEFINE n == posted.alt - 1
<1>1. posted.alt \in Nat /\ posted.alt > 0
  BY DEF SIInv, PostedOK, AltSpeedToggled
<1>2. n \in Nat
  BY <1>1
<1>3. posted' = [posted EXCEPT !.alt = n]
  BY DEF AltSpeedToggled
<1> HIDE DEF n
<1>4. /\ posted' \in [alt : Nat, toggles : Nat, overlapped : BOOLEAN]
      /\ posted'.toggles = posted.toggles /\ posted'.overlapped = posted.overlapped
  BY <1>2, <1>3 DEF SIInv, PostedOK
<1>5. bandwidth' = UpdateBandwidth(turtle, limits) /\ UNCHANGED <<turtle, minute, limits, flags>>
  BY DEF AltSpeedToggled
<1> QED
  BY <1>4, <1>5 DEF SIInv, PostedOK

LEMMA ToggleStep ==
    ASSUME SIInv, Toggle
    PROVE  SIInv'
<1> DEFINE n == posted.toggles - 1
<1>1. posted.toggles \in Nat /\ posted.toggles > 0
  BY DEF SIInv, PostedOK, Toggle
<1>2. n \in Nat /\ (posted.toggles \in {0, 1} => n = 0)
  BY <1>1
<1>3. posted' = [posted EXCEPT !.toggles = n]
  BY DEF Toggle
<1> HIDE DEF n
<1>4. /\ posted' \in [alt : Nat, toggles : Nat, overlapped : BOOLEAN]
      /\ posted'.alt = posted.alt /\ posted'.toggles = n /\ posted'.overlapped = posted.overlapped
  BY <1>2, <1>3 DEF SIInv, PostedOK
<1>5. UNCHANGED <<turtle, minute, limits, bandwidth>> /\ flags' = [flags EXCEPT !.set = ~@]
  BY DEF Toggle
<1>6. /\ flags' \in [set : BOOLEAN, asked : BOOLEAN]
      /\ (flags'.set <=> ~flags.set) /\ flags'.asked = flags.asked
      /\ flags.set \in BOOLEAN /\ flags.asked \in BOOLEAN
  BY <1>5 DEF SIInv, PostedOK
<1>7. ~posted.overlapped => n = 0 /\ (flags'.set <=> flags'.asked)
  BY <1>1, <1>2, <1>6 DEF SIInv, PostedOK
<1>8. PostedOK'
  <2>1. posted'.alt = 0 => bandwidth' = UpdateBandwidth(turtle', limits')
    BY <1>4, <1>5 DEF SIInv, PostedOK
  <2> QED
    BY <1>4, <1>6, <1>7, <2>1 DEF PostedOK
<1> QED
  BY <1>5, <1>8 DEF SIInv

\* A call that changes the mode posts altSpeedToggled.
LEMMA PostsOK ==
    ASSUME SIInv, NEW t, ScheduleInOrder(t, minute), turtle' = t, posted' = Posts(posted, turtle, t),
           UNCHANGED <<minute, limits, bandwidth, flags>>
    PROVE  SIInv'
<1> DEFINE n == posted.alt + 1
<1>1. posted \in [alt : Nat, toggles : Nat, overlapped : BOOLEAN] /\ n \in Nat /\ n # 0
  BY DEF SIInv, PostedOK
<1>2. CASE turtle.on = t.on
  <2>1. posted' = posted
    BY <1>2 DEF Posts
  <2>2. UpdateBandwidth(t, limits) = UpdateBandwidth(turtle, limits)
    BY <1>2, OnlyTheMode
  <2> QED
    BY <2>1, <2>2 DEF SIInv, PostedOK
<1>3. CASE turtle.on # t.on
  <2>1. posted' = [posted EXCEPT !.alt = n]
    BY <1>3 DEF Posts
  <2> HIDE DEF n
  <2>2. /\ posted' \in [alt : Nat, toggles : Nat, overlapped : BOOLEAN] /\ posted'.alt = n
        /\ posted'.toggles = posted.toggles /\ posted'.overlapped = posted.overlapped
    BY <1>1, <2>1
  <2> QED
    BY <1>1, <2>2 DEF SIInv, PostedOK
<1> QED
  BY <1>2, <1>3

LEMMA SetScheduleStep ==
    ASSUME SIInv, NEW t \in Turtles, SetSchedule(t)
    PROVE  SIInv'
<1>1. ScheduleInOrder(Poked(t, minute), minute)
  BY PokedOK
<1> QED
  BY <1>1, PostsOK DEF SetSchedule

LEMMA UseAltSpeedStep ==
    ASSUME SIInv, NEW on \in BOOLEAN, UseAltSpeed(on)
    PROVE  SIInv'
<1> DEFINE user == TRUE
           t == UseAlt(turtle, on, user)
<1>1. turtle \in Turtles /\ user \in BOOLEAN /\ ~(turtle.on <=> on)
  BY DEF SIInv, ScheduleInOrder, Turtles, UseAltSpeed
<1>2. turtle' = t /\ posted' = Posts(posted, turtle, t) /\ UNCHANGED <<minute, limits, bandwidth, flags>>
  BY DEF UseAltSpeed
<1> HIDE DEF user
<1>3. /\ t \in Turtles /\ t.days = turtle.days /\ t.begin = turtle.begin /\ t.end = turtle.end
      /\ t.table = turtle.table /\ t.clock = turtle.clock /\ t.auto = turtle.auto
      /\ t.byUser = user
  BY <1>1, UseAltParts
<1> HIDE DEF t
<1>4. TurtleTable(t) = TurtleTable(turtle)
  BY <1>3, SameTable
<1>5. ScheduleInOrder(t, minute)
  BY <1>3, <1>4 DEF SIInv, ScheduleInOrder, user
<1> QED
  BY <1>2, <1>5, PostsOK

LEMMA SetLimitsStep ==
    ASSUME SIInv, NEW l \in LimitRecord, SetLimits(l)
    PROVE  SIInv'
BY DEF SIInv, PostedOK, SetLimits, Told

LEMMA SetEnabledStep ==
    ASSUME SIInv, NEW on \in BOOLEAN, SetEnabled(on)
    PROVE  SIInv'
<1> DEFINE n == IF on # flags.set THEN posted.toggles + 1 ELSE posted.toggles
           over == posted.overlapped \/ posted.toggles > 0
<1>1. /\ posted \in [alt : Nat, toggles : Nat, overlapped : BOOLEAN]
      /\ flags \in [set : BOOLEAN, asked : BOOLEAN]
  BY DEF SIInv, PostedOK
<1>2. /\ n \in Nat /\ over \in BOOLEAN
      /\ posted.toggles = 0 => n \in {0, 1} /\ (n = 0 <=> (flags.set <=> on))
  BY <1>1
<1>3. flags' = [flags EXCEPT !.asked = on] /\ UNCHANGED <<turtle, minute, limits, bandwidth>>
  BY DEF SetEnabled
<1>4. posted' = [posted EXCEPT !.toggles = n, !.overlapped = over]
  BY DEF SetEnabled
<1>5. flags' \in [set : BOOLEAN, asked : BOOLEAN] /\ flags'.set = flags.set /\ (flags'.asked <=> on)
  BY <1>1, <1>3
<1>6. ~over => posted.toggles = 0
  BY <1>1
<1> HIDE DEF n, over
<1>7. /\ posted' \in [alt : Nat, toggles : Nat, overlapped : BOOLEAN]
      /\ posted'.alt = posted.alt /\ posted'.toggles = n /\ (posted'.overlapped <=> over)
  BY <1>1, <1>2, <1>4
<1>8. PostedOK'
  <2>1. posted'.alt = 0 => bandwidth' = UpdateBandwidth(turtle', limits')
    BY <1>3, <1>7 DEF SIInv, PostedOK
  <2> QED
    BY <1>2, <1>5, <1>6, <1>7, <2>1 DEF PostedOK
<1> QED
  BY <1>3, <1>8 DEF SIInv

LEMMA SchedStep ==
    ASSUME SIInv, [SchedNext]_schedVars
    PROVE  SIInv'
<1>1. turtle \in Turtles /\ limits \in LimitRecord
  BY DEF SIInv, ScheduleInOrder
<1>2. ASSUME NEW d \in SUBSET (0..(DaysPerWeek - 1)), SetSchedule([turtle EXCEPT !.days = d])
      PROVE  SIInv'
  <2>1. [turtle EXCEPT !.days = d] \in Turtles
    BY <1>1 DEF Turtles
  <2> QED
    BY <1>2, <2>1, SetScheduleStep
<1>3. ASSUME NEW m \in 0..(MinutesPerDay - 1),
             SetSchedule([turtle EXCEPT !.begin = m]) \/ SetSchedule([turtle EXCEPT !.end = m])
      PROVE  SIInv'
  <2>1. [turtle EXCEPT !.begin = m] \in Turtles /\ [turtle EXCEPT !.end = m] \in Turtles
    BY <1>1 DEF Turtles
  <2> QED
    BY <1>3, <2>1, SetScheduleStep
<1>4. ASSUME NEW c \in BOOLEAN, SetSchedule([turtle EXCEPT !.clock = c])
      PROVE  SIInv'
  <2>1. [turtle EXCEPT !.clock = c] \in Turtles
    BY <1>1 DEF Turtles
  <2> QED
    BY <1>4, <2>1, SetScheduleStep
<1>5. ASSUME NEW s \in Speeds,
             SetLimits([limits EXCEPT !.primary = s]) \/ SetLimits([limits EXCEPT !.alternative = s])
      PROVE  SIInv'
  <2>1. [limits EXCEPT !.primary = s] \in LimitRecord /\ [limits EXCEPT !.alternative = s] \in LimitRecord
    BY <1>1 DEF LimitRecord
  <2> QED
    BY <1>5, <2>1, SetLimitsStep
<1>6. ASSUME NEW u \in BOOLEAN, SetLimits([limits EXCEPT !.used = u])
      PROVE  SIInv'
  <2>1. [limits EXCEPT !.used = u] \in LimitRecord
    BY <1>1 DEF LimitRecord
  <2> QED
    BY <1>6, <2>1, SetLimitsStep
<1>7. CASE UNCHANGED schedVars
  BY <1>7 DEF schedVars, SIInv, PostedOK
<1> QED
  BY <1>2, <1>3, <1>4, <1>5, <1>6, <1>7, NowTimerStep, AltSpeedToggledStep, ToggleStep,
     UseAltSpeedStep, SetEnabledStep DEF SchedNext

\* The invariant says what is checked.
LEMMA SIInvSound == SIInv => ScheduleObeyed /\ TogglesSettle
<1> SUFFICES ASSUME SIInv PROVE ScheduleObeyed /\ TogglesSettle
  OBVIOUS
<1>1. turtle \in Turtles /\ Scheduled(minute) \in BOOLEAN /\ turtle.on \in BOOLEAN
  BY DEF SIInv, ScheduleInOrder, Turtles, Scheduled
<1>2. minute \in TurtleTable(turtle) <=> Scheduled(minute)
  BY <1>1, TableIsSchedule
<1>3. turtle.clock => turtle.auto = AutoSwitchState(Scheduled(minute))
  BY <1>2 DEF SIInv, ScheduleInOrder, AutoSwitchState
<1>4. turtle.clock /\ ~turtle.byUser => turtle.on = Scheduled(minute)
  BY <1>1, <1>2 DEF SIInv, ScheduleInOrder
<1>5. TogglesSettle
  BY DEF SIInv, PostedOK, TogglesSettle
<1> QED
  BY <1>3, <1>4, <1>5 DEF ScheduleObeyed, SIInv, PostedOK

\* The mode follows the schedule and the user, and the bandwidth the mode.
THEOREM ScheduleIsObeyed == SchedSpec => []ScheduleObeyed
<1>1. SchedSpec => []SIInv
  <2>1. SIInv /\ [SchedNext]_schedVars => SIInv'
    BY SchedStep
  <2> QED
    BY <2>1, InitSIInv, PTL DEF SchedSpec
<1> QED
  BY <1>1, SIInvSound, PTL

-----------------------------------------------------------------------------
(***************************************************************************)
(* For any ratios, idle limits and sizes: a torrent is stopped for what it   *)
(* has reached and for nothing else.                                        *)
(*                                                                         *)
(* What carries it: a torrent that counts as seed is complete; while a start *)
(* waits in the pipe no data move, so that what the start did not find done  *)
(* is not done when it runs either; and the last call that waits is the      *)
(* user's last word.                                                        *)
(***************************************************************************)
SeedTorrents == [running : BOOLEAN, stopping : BOOLEAN, seed : BOOLEAN, complete : BOOLEAN,
                 byIdle : BOOLEAN, error : Troubles]
SeedLimits == [mode : LimitModes, value : Nat, all : Nat, on : BOOLEAN]
TorrentLimits == [ratio : SeedLimits, idle : SeedLimits]
TransferStats == [up : Nat, down : Nat, upPrev : Nat, downPrev : Nat, idle : Nat]
UserWishes == [start : BOOLEAN, honest : BOOLEAN, ended : BOOLEAN]

SeedTypeOK ==
    /\ tor \in SeedTorrents /\ limit \in TorrentLimits /\ bytes \in TransferStats
    /\ posted2 \in Seq({"start", "stop"}) /\ wish \in UserWishes

StartWaits == \E i \in 1..Len(posted2) : posted2[i] = "start"
Untouched == posted2 # <<>> \/ bytes.up + bytes.down = 0

SeedTorrentInOrder(t) ==
    /\ t \in SeedTorrents
    /\ t.stopping => t.running
    /\ t.seed => t.complete
StartKept == wish.start /\ Untouched => ~RatioDone(tor) /\ tor.seed = tor.complete
LastWord == wish.start => IF posted2 = <<>> THEN tor.running \/ wish.ended ELSE posted2[Len(posted2)] = "start"
IdleEnded == tor.byIdle /\ tor.running => tor.stopping \/ StartWaits

SeedIInv == SeedTypeOK /\ SeedTorrentInOrder(tor) /\ wish.honest /\ StartKept /\ LastWord /\ IdleEnded

-----------------------------------------------------------------------------
\* The helpers keep the torrent in order.
LEMMA CheckKeeps ==
    ASSUME NEW t, SeedTorrentInOrder(t)
    PROVE  /\ SeedTorrentInOrder(CheckSeedLimit(t))
           /\ CheckSeedLimit(t).seed = t.seed /\ CheckSeedLimit(t).complete = t.complete
           /\ CheckSeedLimit(t).running = t.running /\ CheckSeedLimit(t).error = t.error
           /\ CheckSeedLimit(t).stopping /\ ~t.stopping => RatioDone(t) \/ IdleDone
           /\ CheckSeedLimit(t).byIdle /\ ~t.byIdle => CheckSeedLimit(t).stopping
           /\ t.stopping => CheckSeedLimit(t) = t
<1>1. CASE ~t.running \/ t.stopping \/ ~t.seed
  BY <1>1 DEF CheckSeedLimit, SeedTorrentInOrder
<1>2. CASE ~(~t.running \/ t.stopping \/ ~t.seed) /\ RatioDone(t)
  BY <1>2 DEF CheckSeedLimit, SeedTorrentInOrder, SeedTorrents
<1>3. CASE ~(~t.running \/ t.stopping \/ ~t.seed) /\ ~RatioDone(t) /\ IdleDone
  BY <1>3 DEF CheckSeedLimit, SeedTorrentInOrder, SeedTorrents
<1>4. CASE ~(~t.running \/ t.stopping \/ ~t.seed) /\ ~RatioDone(t) /\ ~IdleDone
  BY <1>4 DEF CheckSeedLimit, SeedTorrentInOrder, SeedTorrents
<1> QED
  BY <1>1, <1>2, <1>3, <1>4

LEMMA RecheckKeeps ==
    ASSUME NEW t, SeedTorrentInOrder(t)
    PROVE  /\ SeedTorrentInOrder(RecheckSeed(t))
           /\ RecheckSeed(t).running = t.running /\ RecheckSeed(t).complete = t.complete
           /\ RecheckSeed(t).seed = t.complete
           /\ RecheckSeed(t).byIdle /\ ~t.byIdle => RecheckSeed(t).stopping
           /\ t.stopping => RecheckSeed(t).stopping
           /\ RecheckSeed(t).stopping /\ ~t.stopping => RatioDone(RecheckSeed(t)) \/ IdleDone
           /\ t.seed = t.complete => RecheckSeed(t) = t
<1> DEFINE now == [t EXCEPT !.seed = t.complete]
<1>1. SeedTorrentInOrder(now) /\ now.running = t.running /\ now.complete = t.complete /\ now.seed = t.complete
      /\ now.byIdle = t.byIdle /\ now.stopping = t.stopping
  BY DEF SeedTorrentInOrder, SeedTorrents
<1>2. CASE t.seed = t.complete
  BY <1>2 DEF RecheckSeed
<1>3. CASE t.seed # t.complete /\ ~(now.seed /\ now.running)
  BY <1>1, <1>3 DEF RecheckSeed
<1>4. CASE t.seed # t.complete /\ now.seed /\ now.running
  <2>1. RecheckSeed(t) = CheckSeedLimit(now)
    BY <1>1, <1>4 DEF RecheckSeed
  <2> HIDE DEF now
  <2>2. RatioDone(CheckSeedLimit(now)) <=> RatioDone(now)
    BY <1>1, CheckKeeps DEF RatioDone
  <2>3. SeedTorrentInOrder(CheckSeedLimit(now)) /\ CheckSeedLimit(now).running = now.running
        /\ CheckSeedLimit(now).complete = now.complete /\ CheckSeedLimit(now).seed = now.seed
    BY <1>1, CheckKeeps
  <2>4. /\ CheckSeedLimit(now).byIdle /\ ~now.byIdle => CheckSeedLimit(now).stopping
        /\ CheckSeedLimit(now).stopping /\ ~now.stopping => RatioDone(now) \/ IdleDone
        /\ now.stopping => CheckSeedLimit(now).stopping
    BY <1>1, CheckKeeps
  <2> QED
    BY <2>1, <2>2, <2>3, <2>4, <1>1, <1>4
<1> HIDE DEF now
<1> QED
  BY <1>2, <1>3, <1>4

\* What is left of a goal, and what part of it is reached.
LEMMA GoalTyped ==
    ASSUME SeedTypeOK
    PROVE  Goal \in Nat /\ Uploaded \in Nat /\ BytesLeft \in Nat
<1>1. Baseline \in Nat
  BY SeedingAssumption DEF Baseline, SeedTypeOK, TransferStats
<1>2. LimitOf(limit.ratio) \in Nat
  BY DEF LimitOf, SeedTypeOK, TorrentLimits, SeedLimits
<1>3. \A a, b \in Nat : a * b \in Nat
  BY SMT
<1>4. Goal \in Nat
  BY <1>1, <1>2, <1>3 DEF Goal
<1>5. Uploaded \in Nat
  BY DEF Uploaded, SeedTypeOK, TransferStats
<1> QED
  BY <1>4, <1>5 DEF BytesLeft

LEMMA PartOfGoal ==
    ASSUME NEW x \in Nat, NEW g \in Nat, g > 0, x <= g
    PROVE  (x * 100) \div g \in 0..100
<1> DEFINE q == (x * 100) \div g
<1>1. q \in Int /\ g * q <= x * 100 /\ x * 100 < g * (q + 1)
  BY SMT
<1> HIDE DEF q
<1>2. q >= 0
  BY <1>1, SMT
<1>3. q <= 100
  BY <1>1, SMT
<1> QED
  BY <1>1, <1>2, <1>3 DEF q

LEMMA PercentBound ==
    ASSUME SeedTypeOK, SeedTorrentInOrder(tor)
    PROVE  SeedRatioPercentDone \in 0..100
<1>1. CASE ~(IsLimited2(limit.ratio) /\ tor.seed) \/ Finished
  BY <1>1 DEF SeedRatioPercentDone
<1>2. CASE IsLimited2(limit.ratio) /\ tor.seed /\ ~Finished
  <2>1. BytesLeft # 0
    BY <1>2 DEF Finished, RatioDone, SeedTorrentInOrder
  <2>2. Goal > Uploaded /\ Goal - BytesLeft = Uploaded /\ Goal # 0
    BY <2>1, GoalTyped DEF BytesLeft
  <2>3. SeedRatioPercentDone = (Uploaded * 100) \div Goal
    BY <1>2, <2>2 DEF SeedRatioPercentDone
  <2>4. Uploaded \in Nat /\ Goal \in Nat /\ Goal > 0 /\ Uploaded <= Goal
    BY <2>2, GoalTyped
  <2>5. (Uploaded * 100) \div Goal \in 0..100
    BY <2>4, PartOfGoal, Zenon
  <2> QED
    BY <2>3, <2>5
<1> QED
  BY <1>1, <1>2

LEMMA SeedIInvSound ==
    ASSUME SeedIInv
    PROVE  SeedingSound
<1>1. SeedTypeOK /\ SeedTorrentInOrder(tor)
  BY DEF SeedIInv
<1>2. tor.byIdle /\ tor.running => tor.stopping \/ posted2 # <<>>
  BY DEF SeedIInv, SeedTypeOK, IdleEnded, StartWaits
<1>3. wish.start /\ tor.running /\ bytes.up + bytes.down = 0 => ~RatioDone(tor)
  BY DEF SeedIInv, StartKept, Untouched
<1>4. wish.start /\ posted2 = <<>> => tor.running \/ wish.ended
  BY DEF SeedIInv, LastWord
<1>5. tor.error \in Troubles /\ (tor.stopping => tor.running) /\ wish.honest
  BY DEF SeedIInv, SeedTorrentInOrder, SeedTorrents
<1> QED
  BY <1>1, <1>2, <1>3, <1>4, <1>5, PercentBound DEF SeedingSound

LEMMA InitSeedIInv == SeedingInit => SeedIInv
<1> SUFFICES ASSUME SeedingInit PROVE SeedIInv
  OBVIOUS
<1>1. tor \in SeedTorrents /\ SeedTorrentInOrder(tor) /\ bytes \in TransferStats /\ wish \in UserWishes
  BY DEF SeedingInit, SeedTorrents, SeedTorrentInOrder, TransferStats, UserWishes, Troubles
<1>2. limit \in TorrentLimits
  BY SeedingAssumption DEF SeedingInit, TorrentLimits, SeedLimits, LimitModes
<1>3. posted2 \in Seq({"start", "stop"})
  BY DEF SeedingInit
<1>4. wish.honest /\ ~wish.start /\ ~tor.byIdle
  BY DEF SeedingInit
<1> QED
  BY <1>1, <1>2, <1>3, <1>4 DEF SeedIInv, SeedTypeOK, StartKept, LastWord, IdleEnded

-----------------------------------------------------------------------------
\* The limits and the figures, not the torrent, decide what is done.
LEMMA DoneDependsOn ==
    ASSUME NEW t, NEW u, t.seed = u.seed
    PROVE  RatioDone(t) <=> RatioDone(u)
BY DEF RatioDone

\* Calls that wait: a start among them, and the last one.
LEMMA OneMoreWaits ==
    ASSUME posted2 \in Seq({"start", "stop"}), NEW c \in {"start", "stop"}, posted2' = Append(posted2, c)
    PROVE  /\ posted2' \in Seq({"start", "stop"}) /\ posted2' # <<>> /\ posted2'[Len(posted2')] = c
           /\ StartWaits => StartWaits'
           /\ c = "start" => StartWaits'
<1>1. Len(posted2') = Len(posted2) + 1 /\ posted2' \in Seq({"start", "stop"}) /\ Len(posted2) \in Nat
  OBVIOUS
<1>2. posted2'[Len(posted2) + 1] = c /\ \A i \in 1..Len(posted2) : posted2'[i] = posted2[i]
  OBVIOUS
<1>3. posted2' # <<>>
  BY <1>1
<1> QED
  BY <1>1, <1>2, <1>3 DEF StartWaits

LEMMA OneLessWaits ==
    ASSUME posted2 \in Seq({"start", "stop"}), posted2 # <<>>, posted2' = Tail(posted2)
    PROVE  /\ posted2' \in Seq({"start", "stop"}) /\ Head(posted2) \in {"start", "stop"}
           /\ posted2' # <<>> => posted2'[Len(posted2')] = posted2[Len(posted2)]
           /\ posted2' = <<>> => posted2[Len(posted2)] = Head(posted2)
           /\ StartWaits /\ Head(posted2) # "start" => StartWaits'
<1>1. /\ posted2' \in Seq({"start", "stop"}) /\ Len(posted2) \in Nat \ {0} /\ Len(posted2') = Len(posted2) - 1
      /\ \A i \in 1..Len(posted2') : posted2'[i] = posted2[i + 1]
      /\ Head(posted2) = posted2[1] /\ Head(posted2) \in {"start", "stop"}
  OBVIOUS
<1>2. posted2' # <<>> => Len(posted2') \in 1..Len(posted2')
  BY <1>1
<1>3. posted2' = <<>> => Len(posted2) = 1
  <2>1. posted2' = <<>> => Len(posted2') = 0
    OBVIOUS
  <2> QED
    BY <1>1, <2>1
<1>4. ASSUME StartWaits, Head(posted2) # "start" PROVE StartWaits'
  <2>1. PICK i \in 1..Len(posted2) : posted2[i] = "start"
    BY <1>4 DEF StartWaits
  <2>2. i - 1 \in 1..Len(posted2') /\ posted2'[i - 1] = "start"
    BY <1>1, <1>4, <2>1
  <2> QED
    BY <2>2 DEF StartWaits
<1> QED
  BY <1>1, <1>2, <1>3, <1>4

-----------------------------------------------------------------------------
\* A start that runs finds the same figures, split anew between this run and
\* those before.
LEMMA StartRuns ==
    ASSUME SeedIInv, StartImpl, posted2 # <<>>, posted2' = Tail(posted2),
           UNCHANGED <<limit, wish, seedCalls>>
    PROVE  SeedIInv'
<1> DEFINE q == RecheckSeed(tor)
           p == ClearError(q)
<1>1. SeedTypeOK /\ SeedTorrentInOrder(tor) /\ tor \in SeedTorrents
  BY DEF SeedIInv, SeedTorrentInOrder
<1>2. SeedTorrentInOrder(q) /\ q.running = tor.running /\ q.complete = tor.complete
  BY <1>1, RecheckKeeps
<1>3. p \in SeedTorrents /\ p.complete = q.complete
  BY <1>2 DEF ClearError, SeedTorrentInOrder, SeedTorrents, Troubles
<1>4. tor' = [p EXCEPT !.running = TRUE, !.byIdle = FALSE, !.seed = tor.complete]
  BY DEF StartImpl
<1> HIDE DEF p, q
<1>5. SeedTorrentInOrder(tor') /\ tor'.running /\ ~tor'.byIdle /\ tor'.seed = tor.complete /\ tor'.complete = tor.complete
  BY <1>1, <1>2, <1>3, <1>4 DEF SeedTorrentInOrder, SeedTorrents
<1>6. bytes' \in TransferStats /\ bytes'.up + bytes'.upPrev = Uploaded
      /\ bytes'.down + bytes'.downPrev = bytes.down + bytes.downPrev
  BY <1>1, GoalTyped DEF StartImpl, SeedTypeOK, TransferStats
<1>7. Uploaded' = Uploaded /\ Baseline' = Baseline
  BY <1>6 DEF Uploaded, Baseline
<1>8. limit' = limit /\ wish' = wish
  OBVIOUS
<1>9. Goal' = Goal /\ BytesLeft' = BytesLeft
  BY <1>7, <1>8 DEF Goal, BytesLeft
<1>10. SeedTypeOK'
  BY <1>1, <1>5, <1>6, <1>8, OneLessWaits DEF SeedTypeOK, SeedTorrentInOrder
<1>11. StartKept'
  <2> SUFFICES ASSUME wish.start PROVE ~RatioDone(tor)' /\ tor'.seed = tor'.complete
    BY <1>8 DEF StartKept
  <2>1. ~RatioDone(tor) /\ tor.seed = tor.complete
    BY DEF SeedIInv, StartKept, Untouched
  <2> QED
    BY <2>1, <1>5, <1>8, <1>9 DEF RatioDone
<1>12. LastWord'
  <2>1. /\ posted2' # <<>> => posted2'[Len(posted2')] = posted2[Len(posted2)]
    BY <1>1, OneLessWaits DEF SeedTypeOK
  <2> QED
    BY <2>1, <1>5, <1>8 DEF SeedIInv, LastWord
<1>13. IdleEnded'
  BY <1>5 DEF IdleEnded
<1> QED
  BY <1>5, <1>8, <1>10, <1>11, <1>12, <1>13 DEF SeedIInv

LEMMA StopRuns ==
    ASSUME SeedIInv, RunsPosted, Head(posted2) # "start"
    PROVE  SeedIInv'
<1>1. SeedTypeOK /\ SeedTorrentInOrder(tor) /\ posted2 \in Seq({"start", "stop"}) /\ posted2 # <<>> /\ posted2' = Tail(posted2)
  BY DEF SeedIInv, SeedTypeOK, RunsPosted
<1>2. UNCHANGED <<tor, bytes, limit, wish>>
  BY DEF RunsPosted
<1>3. SeedTypeOK' /\ SeedTorrentInOrder(tor')
  BY <1>1, <1>2, OneLessWaits DEF SeedTypeOK
<1>4. RatioDone(tor)' <=> RatioDone(tor)
  BY <1>2 DEF RatioDone, BytesLeft, Goal, Uploaded, Baseline
<1>5. StartKept'
  BY <1>1, <1>2, <1>4 DEF SeedIInv, StartKept, Untouched
<1>6. LastWord'
  BY <1>1, <1>2, OneLessWaits DEF SeedIInv, LastWord
<1>7. IdleEnded'
  <2>1. tor.byIdle /\ tor.running => tor.stopping \/ StartWaits
    BY DEF SeedIInv, IdleEnded
  <2> QED
    BY <2>1, <1>1, <1>2, OneLessWaits DEF IdleEnded
<1> QED
  BY <1>2, <1>3, <1>5, <1>6, <1>7 DEF SeedIInv

-----------------------------------------------------------------------------
\* A step that only touches the torrent, and neither ends it nor completes it.
LEMMA TorrentKeeps ==
    ASSUME SeedIInv, UNCHANGED <<limit, bytes, posted2, wish>>,
           SeedTorrentInOrder(tor'), tor'.running = tor.running, tor'.seed = tor.seed,
           tor'.complete = tor.complete, tor'.byIdle = tor.byIdle, tor.stopping => tor'.stopping
    PROVE  SeedIInv'
<1>1. SeedTypeOK'
  BY DEF SeedIInv, SeedTypeOK, SeedTorrentInOrder
<1>2. RatioDone(tor)' <=> RatioDone(tor)
  BY DEF RatioDone, BytesLeft, Goal, Uploaded, Baseline
<1>3. StartKept' /\ LastWord'
  BY <1>2 DEF SeedIInv, StartKept, LastWord, Untouched
<1>4. IdleEnded'
  BY DEF SeedIInv, IdleEnded, StartWaits
<1> QED
  BY <1>1, <1>3, <1>4 DEF SeedIInv

LEMMA PulseStep ==
    ASSUME SeedIInv, SeedPulse
    PROVE  SeedIInv'
<1> DEFINE first == CheckSeedLimit(tor)
           checked == RecheckSeed(first)
<1>1. SeedTypeOK /\ SeedTorrentInOrder(tor) /\ wish \in UserWishes /\ wish.honest
  BY DEF SeedIInv, SeedTypeOK
<1>2. /\ SeedTorrentInOrder(first) /\ first.seed = tor.seed /\ first.complete = tor.complete /\ first.running = tor.running
      /\ first.stopping /\ ~tor.stopping => RatioDone(tor) \/ IdleDone
      /\ first.byIdle /\ ~tor.byIdle => first.stopping
      /\ tor.stopping => first.stopping
  BY <1>1, CheckKeeps
<1>3. RatioDone(first) <=> RatioDone(tor)
  BY <1>2, DoneDependsOn
<1>4. /\ SeedTorrentInOrder(checked) /\ checked.running = first.running /\ checked.complete = first.complete
      /\ checked.seed = first.complete
      /\ checked.byIdle /\ ~first.byIdle => checked.stopping
      /\ first.stopping => checked.stopping
      /\ first.seed = first.complete => checked = first
  BY <1>2, RecheckKeeps
<1>5. checked.stopping /\ ~first.stopping => RatioDone(checked) \/ IdleDone
  BY <1>2, RecheckKeeps
\* A torrent that is stopped now counts as seed already, or becomes one here.
<1>6. checked.stopping /\ ~tor.stopping => RatioDone(checked) \/ IdleDone
  <2>1. CASE first.stopping /\ ~tor.stopping /\ tor.seed
    <3>1. checked = first
      BY <1>1, <1>2, <1>4, <2>1 DEF SeedTorrentInOrder, SeedTorrents
    <3> QED
      BY <3>1, <1>2, <1>3, <2>1
  <2>2. CASE first.stopping /\ ~tor.stopping /\ ~tor.seed
    BY <2>2, <1>1 DEF CheckSeedLimit
  <2>3. CASE ~first.stopping
    BY <2>3, <1>5
  <2> QED
    BY <2>1, <2>2, <2>3
<1>7. /\ tor' = IF checked.stopping THEN [checked EXCEPT !.running = FALSE, !.stopping = FALSE] ELSE checked
      /\ wish' = [wish EXCEPT !.ended = wish.ended \/ (checked.stopping /\ posted2 = <<>>),
                              !.honest = IF checked.stopping /\ ~tor.stopping
                                         THEN wish.honest /\ (RatioDone(checked) \/ IdleDone) ELSE wish.honest]
      /\ UNCHANGED <<limit, bytes, posted2>>
  BY DEF SeedPulse
<1>8. checked \in SeedTorrents
  BY <1>4 DEF SeedTorrentInOrder
<1>9. RatioDone(tor)' <=> RatioDone(tor')
  BY <1>7 DEF RatioDone, BytesLeft, Goal, Uploaded, Baseline
<1> HIDE DEF first, checked
<1>10. wish' \in UserWishes /\ wish'.honest /\ wish'.start = wish.start
       /\ (wish'.ended <=> wish.ended \/ (checked.stopping /\ posted2 = <<>>))
  <2> DEFINE e == wish.ended \/ (checked.stopping /\ posted2 = <<>>)
             h == IF checked.stopping /\ ~tor.stopping
                  THEN wish.honest /\ (RatioDone(checked) \/ IdleDone) ELSE wish.honest
  <2>1. e \in BOOLEAN /\ h
    BY <1>1, <1>6
  <2>2. wish' = [wish EXCEPT !.ended = e, !.honest = h]
    BY <1>7
  <2> HIDE DEF h
  <2>3. wish' = [wish EXCEPT !.ended = e, !.honest = TRUE]
    BY <2>1, <2>2
  <2>4. wish'.ended = e
    BY <1>1, <2>3 DEF UserWishes
  <2>5. wish' \in UserWishes /\ wish'.honest /\ wish'.start = wish.start
    <3> HIDE DEF e
    <3> QED
      BY <1>1, <2>1, <2>3 DEF UserWishes
  <2> QED
    BY <2>4, <2>5
<1>11. CASE checked.stopping
  <2>1. tor' = [checked EXCEPT !.running = FALSE, !.stopping = FALSE]
    BY <1>7, <1>11
  <2>2. SeedTorrentInOrder(tor') /\ ~tor'.running /\ tor'.seed = checked.seed /\ tor'.complete = checked.complete
    BY <1>4, <1>8, <2>1 DEF SeedTorrentInOrder, SeedTorrents
  <2>3. SeedTypeOK'
    BY <1>1, <1>7, <1>10, <2>2 DEF SeedTypeOK, SeedTorrentInOrder
  <2>4. StartKept'
    <3>1. tor.seed = tor.complete => (RatioDone(tor') <=> RatioDone(tor)) /\ tor'.seed = tor'.complete
      BY <1>2, <1>4, <2>2, DoneDependsOn
    <3> QED
      BY <3>1, <1>7, <1>9, <1>10 DEF SeedIInv, StartKept, Untouched
  <2>5. LastWord' /\ IdleEnded'
    BY <1>7, <1>10, <1>11, <2>2 DEF SeedIInv, LastWord, IdleEnded
  <2> QED
    BY <1>10, <2>2, <2>3, <2>4, <2>5 DEF SeedIInv
<1>12. CASE ~checked.stopping
  <2>1. tor' = checked
    BY <1>7, <1>12
  <2>2. SeedTypeOK'
    BY <1>1, <1>7, <1>8, <1>10, <2>1 DEF SeedTypeOK
  <2>3. StartKept'
    <3>1. tor.seed = tor.complete => (RatioDone(tor') <=> RatioDone(tor)) /\ tor'.seed = tor'.complete
      BY <1>2, <1>4, <2>1, DoneDependsOn
    <3> QED
      BY <3>1, <1>7, <1>9, <1>10 DEF SeedIInv, StartKept, Untouched
  <2>4. LastWord'
    BY <1>2, <1>4, <1>7, <1>10, <1>12, <2>1 DEF SeedIInv, LastWord
  <2>5. IdleEnded'
    <3>1. tor.byIdle /\ tor.running => tor.stopping \/ StartWaits
      BY DEF SeedIInv, IdleEnded
    <3>2. tor'.byIdle => tor.byIdle
      BY <1>2, <1>4, <1>12, <2>1
    <3> QED
      BY <3>1, <3>2, <1>2, <1>4, <1>7, <1>12, <2>1 DEF IdleEnded, StartWaits
  <2> QED
    BY <1>4, <1>10, <2>1, <2>2, <2>3, <2>4, <2>5 DEF SeedIInv
<1> QED
  BY <1>11, <1>12

\* Data only move while no call waits, and then a start has been.
LEMMA TransferStep ==
    ASSUME SeedIInv, NEW up \in 0..1, NEW down \in 0..1, Transfers(up, down)
    PROVE  SeedIInv'
<1>1. SeedTypeOK /\ SeedTorrentInOrder(tor) /\ tor \in SeedTorrents /\ bytes \in TransferStats
  BY DEF SeedIInv, SeedTypeOK
<1>2. bytes' = [bytes EXCEPT !.up = bytes.up + up, !.down = bytes.down + down, !.idle = 0]
      /\ tor.running /\ posted2 = <<>> /\ up + down > 0 /\ UNCHANGED <<limit, posted2, wish>>
  BY DEF Transfers
<1>3. bytes' \in TransferStats /\ bytes'.up + bytes'.down > 0
  <2> DEFINE a == bytes.up + up
             b == bytes.down + down
  <2>1. a \in Nat /\ b \in Nat /\ a + b > 0
    BY <1>1, <1>2 DEF TransferStats
  <2>2. bytes' = [bytes EXCEPT !.up = a, !.down = b, !.idle = 0]
    BY <1>2
  <2> HIDE DEF a, b
  <2>3. bytes'.up = a /\ bytes'.down = b /\ bytes' \in TransferStats
    BY <1>1, <2>1, <2>2 DEF TransferStats
  <2> QED
    BY <2>1, <2>3
<1>4. PICK c \in BOOLEAN : tor' = [tor EXCEPT !.complete = tor.complete \/ (c /\ down > 0)]
  BY DEF Transfers
<1>5. tor' = tor \/ tor' = [tor EXCEPT !.complete = TRUE]
  <2>1. CASE tor.complete \/ (c /\ down > 0)
    BY <1>4, <2>1
  <2>2. CASE ~(tor.complete \/ (c /\ down > 0))
    BY <1>1, <1>4, <2>2 DEF SeedTorrents
  <2> QED
    BY <2>1, <2>2
<1>6. SeedTorrentInOrder(tor') /\ tor'.running = tor.running /\ tor'.stopping = tor.stopping /\ tor'.byIdle = tor.byIdle
  BY <1>1, <1>5 DEF SeedTorrentInOrder, SeedTorrents
<1>7. SeedTypeOK'
  BY <1>1, <1>2, <1>3, <1>6 DEF SeedTypeOK, SeedTorrentInOrder
<1>8. StartKept'
  BY <1>2, <1>3 DEF StartKept, Untouched
<1>9. LastWord'
  BY <1>2, <1>6 DEF SeedIInv, LastWord
<1>10. IdleEnded'
  BY <1>2, <1>6 DEF SeedIInv, IdleEnded, StartWaits
<1> QED
  BY <1>2, <1>6, <1>7, <1>8, <1>9, <1>10 DEF SeedIInv

LEMMA MinuteStep ==
    ASSUME SeedIInv, MinuteIdle
    PROVE  SeedIInv'
<1>1. SeedTypeOK
  BY DEF SeedIInv
<1>2. bytes' = [bytes EXCEPT !.idle = bytes.idle + 1] /\ UNCHANGED <<tor, limit, posted2, wish>>
  BY DEF MinuteIdle
<1>3. bytes' \in TransferStats /\ bytes'.up = bytes.up /\ bytes'.down = bytes.down
      /\ bytes'.upPrev = bytes.upPrev /\ bytes'.downPrev = bytes.downPrev
  BY <1>1, <1>2 DEF SeedTypeOK, TransferStats
<1>4. RatioDone(tor)' <=> RatioDone(tor)
  BY <1>2, <1>3 DEF RatioDone, BytesLeft, Goal, Uploaded, Baseline
<1>5. SeedTypeOK'
  BY <1>1, <1>2, <1>3 DEF SeedTypeOK
<1>6. StartKept'
  BY <1>2, <1>3, <1>4 DEF SeedIInv, StartKept, Untouched
<1>7. LastWord' /\ IdleEnded'
  BY <1>2 DEF SeedIInv, LastWord, IdleEnded, StartWaits
<1> QED
  BY <1>2, <1>5, <1>6, <1>7 DEF SeedIInv

LEMMA FailStep ==
    ASSUME SeedIInv, Fails
    PROVE  SeedIInv'
<1>1. tor' = [tor EXCEPT !.error = "LOCAL_ERROR", !.stopping = TRUE] /\ tor.running
  BY DEF Fails, LocalError
<1>2. SeedTorrentInOrder(tor') /\ tor'.running = tor.running /\ tor'.seed = tor.seed
      /\ tor'.complete = tor.complete /\ tor'.byIdle = tor.byIdle /\ tor'.stopping
  BY <1>1 DEF SeedIInv, SeedTorrentInOrder, SeedTorrents, Troubles
<1>3. UNCHANGED <<limit, bytes, posted2, wish>>
  BY DEF Fails
<1> QED
  BY <1>2, <1>3, TorrentKeeps

LEMMA TrackerStep ==
    ASSUME SeedIInv, NEW event \in {"TRACKER_WARNING", "TRACKER_ERROR", "CLEAR"}, TrackerSays(event)
    PROVE  SeedIInv'
<1>1. PICK e \in Troubles : tor' = [tor EXCEPT !.error = e]
  BY DEF TrackerSays, ClearError, Troubles
<1>2. SeedTorrentInOrder(tor') /\ tor'.running = tor.running /\ tor'.seed = tor.seed
      /\ tor'.complete = tor.complete /\ tor'.byIdle = tor.byIdle /\ tor'.stopping = tor.stopping
  BY <1>1 DEF SeedIInv, SeedTorrentInOrder, SeedTorrents
<1>3. UNCHANGED <<limit, bytes, posted2, wish>>
  BY DEF TrackerSays
<1> QED
  BY <1>2, <1>3, TorrentKeeps

-----------------------------------------------------------------------------
\* A limit that is reached when the user starts the torrent is not asked for.
LEMMA AllowedIsNotDone ==
    ASSUME SeedIInv, limit' = Allowed(tor), bytes' = bytes, NEW t, t.seed = tor.seed
    PROVE  limit' \in TorrentLimits /\ ~RatioDone(t)'
<1>1. limit \in TorrentLimits
  BY DEF SeedIInv, SeedTypeOK
<1>2. CASE RatioDone(tor)
  <2> DEFINE r == [limit.ratio EXCEPT !.mode = "UNLIMITED"]
  <2>1. limit' = [limit EXCEPT !.ratio = r]
    BY <1>2 DEF Allowed
  <2>2. r \in SeedLimits /\ r.mode = "UNLIMITED"
    BY <1>1 DEF TorrentLimits, SeedLimits, LimitModes
  <2> HIDE DEF r
  <2>3. limit' \in TorrentLimits /\ limit'.ratio = r
    BY <1>1, <2>1, <2>2 DEF TorrentLimits
  <2>4. ~IsLimited2(limit'.ratio)
    BY <2>2, <2>3 DEF IsLimited2
  <2> QED
    BY <2>3, <2>4 DEF RatioDone
<1>3. CASE ~RatioDone(tor)
  <2>1. limit' = limit
    BY <1>3 DEF Allowed
  <2>2. BytesLeft' = BytesLeft
    BY <2>1 DEF BytesLeft, Goal, Uploaded, Baseline
  <2> QED
    BY <1>1, <1>3, <2>1, <2>2 DEF RatioDone
<1> QED
  BY <1>2, <1>3

LEMMA UserStartStep ==
    ASSUME SeedIInv, UserStart(TRUE)
    PROVE  SeedIInv'
<1>1. SeedTypeOK /\ SeedTorrentInOrder(tor) /\ tor \in SeedTorrents
  BY DEF SeedIInv, SeedTypeOK
<1>2. /\ ~tor.running /\ tor' = [tor EXCEPT !.running = TRUE] /\ limit' = Allowed(tor)
      /\ posted2' = Append(posted2, "start") /\ bytes' = bytes
      /\ wish' = [start |-> tor.seed = tor.complete, honest |-> TRUE, ended |-> FALSE]
  BY DEF UserStart
<1>3. SeedTorrentInOrder(tor') /\ tor'.running /\ tor'.seed = tor.seed /\ tor'.complete = tor.complete
      /\ tor'.stopping = tor.stopping /\ tor'.byIdle = tor.byIdle
  BY <1>1, <1>2 DEF SeedTorrentInOrder, SeedTorrents
<1>4. posted2' \in Seq({"start", "stop"}) /\ posted2' # <<>> /\ posted2'[Len(posted2')] = "start" /\ StartWaits'
  BY <1>1, <1>2, OneMoreWaits DEF SeedTypeOK
<1>5. wish' \in UserWishes /\ wish'.honest /\ (wish'.start <=> tor.seed = tor.complete)
  <2> DEFINE w == tor.seed = tor.complete
  <2>1. w \in BOOLEAN /\ wish' = [start |-> w, honest |-> TRUE, ended |-> FALSE]
    BY <1>2
  <2>2. wish'.start = w
    BY <2>1
  <2>3. wish' \in UserWishes /\ wish'.honest
    <3> HIDE DEF w
    <3> QED
      BY <2>1 DEF UserWishes
  <2> QED
    BY <2>2, <2>3
<1>6. limit' \in TorrentLimits
  BY <1>2, AllowedIsNotDone
<1>7. ~RatioDone(tor)'
  <2>1. ~(IsLimited2(limit'.ratio) /\ tor.seed /\ BytesLeft' = 0)
    BY <1>2, AllowedIsNotDone DEF RatioDone
  <2> QED
    BY <1>3, <2>1 DEF RatioDone
<1>8. SeedTypeOK'
  BY <1>1, <1>2, <1>3, <1>4, <1>5, <1>6 DEF SeedTypeOK, SeedTorrentInOrder
<1>9. StartKept'
  BY <1>3, <1>5, <1>7 DEF StartKept
<1>10. LastWord' /\ IdleEnded'
  BY <1>4 DEF LastWord, IdleEnded
<1> QED
  BY <1>3, <1>5, <1>8, <1>9, <1>10 DEF SeedIInv

LEMMA UserStartsInVain ==
    ASSUME SeedIInv, UserStart(FALSE)
    PROVE  SeedIInv'
<1>1. tor' = LocalError(tor) /\ ~tor.running /\ UNCHANGED <<limit, posted2, wish, bytes>>
  BY DEF UserStart
<1>2. tor' = [tor EXCEPT !.error = "LOCAL_ERROR", !.stopping = FALSE]
  BY <1>1 DEF LocalError, SeedIInv, SeedTorrentInOrder, SeedTorrents
<1>3. SeedTorrentInOrder(tor') /\ tor'.running = tor.running /\ tor'.seed = tor.seed
      /\ tor'.complete = tor.complete /\ tor'.byIdle = tor.byIdle /\ ~tor.stopping
  BY <1>1, <1>2 DEF SeedIInv, SeedTorrentInOrder, SeedTorrents, Troubles
<1> QED
  BY <1>1, <1>3, TorrentKeeps

LEMMA UserStopStep ==
    ASSUME SeedIInv, UserStop
    PROVE  SeedIInv'
<1>1. SeedTypeOK /\ SeedTorrentInOrder(tor) /\ tor \in SeedTorrents
  BY DEF SeedIInv, SeedTypeOK
<1>2. /\ tor' = [tor EXCEPT !.running = FALSE, !.stopping = FALSE] /\ UNCHANGED <<limit, bytes>>
      /\ posted2' = Append(posted2, "stop")
      /\ wish' = [start |-> FALSE, honest |-> TRUE, ended |-> FALSE]
  BY DEF UserStop
<1>3. SeedTorrentInOrder(tor') /\ ~tor'.running
  BY <1>1, <1>2 DEF SeedTorrentInOrder, SeedTorrents
<1>4. posted2' \in Seq({"start", "stop"}) /\ wish' \in UserWishes /\ wish'.honest /\ ~wish'.start
  BY <1>1, <1>2 DEF SeedTypeOK, UserWishes
<1>5. SeedTypeOK'
  BY <1>1, <1>2, <1>3, <1>4 DEF SeedTypeOK, SeedTorrentInOrder
<1>6. StartKept' /\ LastWord' /\ IdleEnded'
  BY <1>3, <1>4 DEF StartKept, LastWord, IdleEnded
<1> QED
  BY <1>3, <1>4, <1>5, <1>6 DEF SeedIInv

LEMMA SetLimitStep ==
    ASSUME SeedIInv, NEW kind \in {"ratio", "idle"}, NEW l \in SeedLimits, SetSeedLimit(kind, l)
    PROVE  SeedIInv'
<1>1. SeedTypeOK /\ SeedTorrentInOrder(tor) /\ limit \in TorrentLimits /\ wish \in UserWishes /\ wish.honest
  BY DEF SeedIInv, SeedTypeOK
<1>2. /\ limit' = [limit EXCEPT ![kind] = l] /\ wish' = [wish EXCEPT !.start = FALSE]
      /\ UNCHANGED <<tor, bytes, posted2>>
  BY DEF SetSeedLimit
<1>3. limit' \in TorrentLimits
  BY <1>1, <1>2 DEF TorrentLimits
<1>4. wish' \in UserWishes /\ wish'.honest /\ ~wish'.start
  BY <1>1, <1>2 DEF UserWishes
<1>5. SeedTypeOK'
  BY <1>1, <1>2, <1>3, <1>4 DEF SeedTypeOK
<1>6. StartKept' /\ LastWord' /\ IdleEnded'
  BY <1>2, <1>4 DEF SeedIInv, StartKept, LastWord, IdleEnded, StartWaits
<1> QED
  BY <1>1, <1>2, <1>4, <1>5, <1>6 DEF SeedIInv

\* Whatever is set stays a limit.
LEMMA NewLimitTyped ==
    ASSUME SeedIInv, NEW kind \in {"ratio", "idle"}
    PROVE  /\ \A m \in LimitModes : [limit[kind] EXCEPT !.mode = m] \in SeedLimits
           /\ \A on \in BOOLEAN : [limit[kind] EXCEPT !.on = on] \in SeedLimits
           /\ \A r \in Ratios : [limit[kind] EXCEPT !.value = r] \in SeedLimits
<1>1. limit[kind] \in SeedLimits
  BY DEF SeedIInv, SeedTypeOK, TorrentLimits
<1> QED
  BY <1>1, SeedingAssumption DEF SeedLimits

LEMMA SeedingStep ==
    ASSUME SeedIInv, [SeedingNext]_seedVars
    PROVE  SeedIInv'
<1>1. CASE RunsPosted
  <2>1. CASE Head(posted2) = "start"
    <3>1. StartImpl /\ posted2 # <<>> /\ posted2' = Tail(posted2) /\ UNCHANGED <<limit, wish, seedCalls>>
      BY <1>1, <2>1 DEF RunsPosted
    <3> QED
      BY <3>1, StartRuns
  <2>2. CASE Head(posted2) # "start"
    BY <1>1, <2>2, StopRuns
  <2> QED
    BY <2>1, <2>2
<1>2. CASE SeedPulse
  BY <1>2, PulseStep
<1>3. CASE \E up, down \in 0..1 : Transfers(up, down)
  BY <1>3, TransferStep
<1>4. CASE MinuteIdle
  BY <1>4, MinuteStep
<1>5. CASE Fails
  BY <1>5, FailStep
<1>6. CASE \E event \in {"TRACKER_WARNING", "TRACKER_ERROR", "CLEAR"} : TrackerSays(event)
  BY <1>6, TrackerStep
<1>7. CASE \E files \in BOOLEAN : UserStart(files)
  BY <1>7, UserStartStep, UserStartsInVain
<1>8. CASE UserStop
  BY <1>8, UserStopStep
<1>9. CASE \E kind \in {"ratio", "idle"} :
             \/ \E m \in LimitModes : SetSeedLimit(kind, [limit[kind] EXCEPT !.mode = m])
             \/ \E on \in BOOLEAN : SetSeedLimit(kind, [limit[kind] EXCEPT !.on = on])
  BY <1>9, NewLimitTyped, SetLimitStep
<1>10. CASE \E r \in Ratios : SetSeedLimit("ratio", [limit.ratio EXCEPT !.value = r])
  <2>1. PICK r \in Ratios : SetSeedLimit("ratio", [limit["ratio"] EXCEPT !.value = r])
    BY <1>10
  <2> QED
    BY <2>1, NewLimitTyped, SetLimitStep
<1>11. CASE UNCHANGED seedVars
  <2>1. UNCHANGED <<limit, bytes, posted2, wish, tor>>
    BY <1>11 DEF seedVars
  <2> QED
    BY <2>1, TorrentKeeps DEF SeedIInv
<1> QED
  BY <1>1, <1>2, <1>3, <1>4, <1>5, <1>6, <1>7, <1>8, <1>9, <1>10, <1>11 DEF SeedingNext

\* The limits stop a torrent only for what it has reached (tr_torrentCheckSeedLimit,
\* torrentStart, torrentStartImpl).
THEOREM LimitsAreHonest == SeedingSpec => []SeedingSound
<1>1. SeedingInit => SeedIInv
  BY InitSeedIInv
<1>2. SeedIInv /\ [SeedingNext]_seedVars => SeedIInv'
  BY SeedingStep
<1>3. SeedIInv => SeedingSound
  BY SeedIInvSound
<1> QED
  BY <1>1, <1>2, <1>3, PTL DEF SeedingSpec

-----------------------------------------------------------------------------
(***************************************************************************)
(* For any sizes of fields and of bytes: a bitfield is the set that its      *)
(* calls asked for.                                                         *)
(*                                                                         *)
(* What carries it: the array is the set while the set is neither empty nor  *)
(* full, and is freed as soon as it is either; the array is long enough for  *)
(* what it holds; and the count is the set's cardinality.                   *)
(***************************************************************************)
FieldRecords == [bits : SUBSET Nat, alloc : Nat, count : FieldSizes, true : Nat, all : BOOLEAN, none : BOOLEAN]

\* A field of a known size that stands for S, and one with hints.
SizedIs(b, S) ==
    /\ S \subseteq 0..(b.count - 1) /\ b.true = Cardinality(S)
    /\ IF b.true = 0 \/ b.true = b.count THEN b.alloc = 0 /\ b.bits = {}
       ELSE b.bits = S /\ b.bits \subseteq InBytes(b.alloc)
HintedIs(b, S) ==
    IF b.all \/ b.none THEN b.alloc = 0 /\ b.bits = {}
    ELSE b.bits = S /\ b.bits \subseteq InBytes(b.alloc)
StandsFor(b, S) == b \in FieldRecords /\ IF b.count > 0 THEN SizedIs(b, S) ELSE HintedIs(b, S)

FieldIInv == StandsFor(field, truth)

-----------------------------------------------------------------------------
LEMMA SizesNat == ByteBits \in Nat /\ ByteBits > 0 /\ MaxBit \in Nat /\ \A c \in FieldSizes : c \in Nat
BY BitfieldAssumption

\* The byte of a bit.
LEMMA ByteOfBit ==
    ASSUME NEW n \in Nat, NEW a \in Nat
    PROVE  n \div ByteBits < a <=> n \in InBytes(a)
<1>1. \A B \in Nat \ {0} : n \div B < a <=> n < a * B
  <2> TAKE B \in Nat \ {0}
  <2> DEFINE q == n \div B
  <2>1. q \in Int /\ B * q <= n /\ n < B * (q + 1)
    BY SMT
  <2> HIDE DEF q
  <2>2. ASSUME q < a PROVE n < a * B
    <3>1. q + 1 <= a
      BY <2>1, <2>2
    <3>2. B * (q + 1) <= B * a
      BY <2>1, <3>1, SMT
    <3> QED
      BY <2>1, <3>2, SMT
  <2>3. ASSUME n < a * B PROVE q < a
    <3> SUFFICES ASSUME a <= q PROVE FALSE
      BY <2>1
    <3>1. B * a <= B * q
      BY <2>1, SMT
    <3> QED
      BY <2>1, <2>3, <3>1, SMT
  <2> QED
    BY <2>2, <2>3 DEF q
<1>2. \A a1, b1 \in Nat : a1 * b1 \in Nat
  BY SMT
<1> QED
  BY <1>1, <1>2, SizesNat DEF InBytes

\* Bytes that are needed for m bits hold each of them; more bytes hold more.
LEMMA BytesCover ==
    ASSUME NEW m \in Nat
    PROVE  BytesNeeded(m) \in Nat /\ (m > 0 => BytesNeeded(m) > 0) /\ 0..(m - 1) \subseteq InBytes(BytesNeeded(m))
<1>1. \A B \in Nat \ {0} : /\ (m + B - 1) \div B \in Nat /\ (m > 0 => (m + B - 1) \div B > 0)
                           /\ m <= ((m + B - 1) \div B) * B
  <2> TAKE B \in Nat \ {0}
  <2> DEFINE q == (m + B - 1) \div B
  <2>1. q \in Int /\ B * q <= m + B - 1 /\ m + B - 1 < B * (q + 1)
    BY SMT
  <2> HIDE DEF q
  <2>2. B * (q + 1) = B * q + B
    BY <2>1, SMT
  <2>3. m <= B * q
    BY <2>1, <2>2, SMT
  <2>4. q >= 0
    BY <2>1, <2>3, SMT
  <2>5. m > 0 => q > 0
    BY <2>1, <2>3, <2>4, SMT
  <2> QED
    BY <2>1, <2>3, <2>4, <2>5, SMT DEF q
<1>2. m <= BytesNeeded(m) * ByteBits /\ BytesNeeded(m) \in Nat /\ (m > 0 => BytesNeeded(m) > 0)
  BY <1>1, SizesNat DEF BytesNeeded
<1>3. \A a1, b1 \in Nat : a1 * b1 \in Nat
  BY SMT
<1> QED
  BY <1>2, <1>3, SizesNat DEF InBytes

LEMMA InMoreBytes ==
    ASSUME NEW a \in Nat, NEW b \in Nat, a <= b
    PROVE  InBytes(a) \subseteq InBytes(b)
<1>1. \A B \in Nat : a * B <= b * B /\ a * B \in Nat /\ b * B \in Nat
  BY SMT
<1> QED
  BY <1>1, SizesNat DEF InBytes

LEMMA IntervalSize ==
    ASSUME NEW begin \in Nat, NEW end \in Nat, begin < end
    PROVE  IsFiniteSet(begin..(end - 1)) /\ Cardinality(begin..(end - 1)) = end - begin
<1> DEFINE last == end - 1
<1>1. last \in Int /\ ~(begin > last) /\ last - begin + 1 = end - begin
  OBVIOUS
<1> HIDE DEF last
<1>2. IsFiniteSet(begin..last) /\ Cardinality(begin..last) = IF begin > last THEN 0 ELSE last - begin + 1
  BY <1>1, FS_Interval
<1> QED
  BY <1>1, <1>2 DEF last

\* tr_bitfieldSetRaw: which of the bits that are given are kept.
LEMMA KeptBits ==
    ASSUME NEW count \in Nat, NEW long \in Nat, NEW m \in Nat, NEW given \in SUBSET Nat,
           m <= long \/ given = {}, 0..(count - 1) \subseteq InBytes(m),
           NEW n, n = IF m < long THEN m ELSE long
    PROVE  /\ n \in Nat /\ given \cap 0..(count - 1) \subseteq InBytes(n)
           /\ {i \in given : i \in InBytes(n) /\ i < count} = given \cap 0..(count - 1)
<1>1. n \in Nat
  OBVIOUS
<1>2. CASE given = {}
  BY <1>1, <1>2
<1>3. CASE given # {}
  <2>1. n = m
    <3>1. m <= long
      BY <1>3, Zenon
    <3>2. CASE m < long
      BY <3>2
    <3>3. CASE ~(m < long)
      <4>1. m = long
        BY <3>1, <3>3, SMT
      <4> QED
        BY <3>3, <4>1
    <3> QED
      BY <3>2, <3>3
  <2>2. \A i \in given : i < count <=> i \in 0..(count - 1)
    OBVIOUS
  <2> QED
    BY <1>1, <2>1, <2>2
<1> QED
  BY <1>2, <1>3

\* Part of an interval of naturals, and all of one.
LEMMA PartOfInterval ==
    ASSUME NEW c \in Nat, NEW S \in SUBSET (0..(c - 1))
    PROVE  /\ IsFiniteSet(S) /\ Cardinality(S) \in Nat /\ Cardinality(S) <= c
           /\ Cardinality(S) = c => S = 0..(c - 1)
           /\ Cardinality(S) = 0 <=> S = {}
<1>1. IsFiniteSet(0..(c - 1)) /\ Cardinality(0..(c - 1)) = c
  BY FS_Interval
<1>2. IsFiniteSet(S) /\ Cardinality(S) <= Cardinality(0..(c - 1))
      /\ (Cardinality(S) = Cardinality(0..(c - 1)) => S = 0..(c - 1))
  BY <1>1, FS_Subset
<1>3. Cardinality(S) \in Nat
  BY <1>2, FS_CardinalityType
<1>4. Cardinality(S) = 0 <=> S = {}
  BY <1>2, FS_EmptySet
<1> QED
  BY <1>1, <1>2, <1>3, <1>4

-----------------------------------------------------------------------------
\* What a field of a known size says of the set.
LEMMA SizedTells ==
    ASSUME NEW b \in FieldRecords, NEW S, b.count > 0, SizedIs(b, S)
    PROVE  /\ b.count \in Nat /\ S \in SUBSET (0..(b.count - 1)) /\ b.true = Cardinality(S)
           /\ HasAll(b) <=> S = 0..(b.count - 1)
           /\ HasNone(b) <=> S = {}
           /\ ~HasAll(b) /\ ~HasNone(b) => b.bits = S /\ S \subseteq InBytes(b.alloc)
           /\ ~HasAll(b) => b.bits = S
<1>1. b.count \in Nat /\ S \in SUBSET (0..(b.count - 1)) /\ b.true = Cardinality(S)
  BY SizesNat DEF FieldRecords, SizedIs
<1>2. HasAll(b) <=> b.true = b.count
  BY DEF HasAll
<1>3. HasNone(b) <=> b.true = 0
  BY DEF HasNone
<1>4. Cardinality(0..(b.count - 1)) = b.count
  BY <1>1, FS_Interval
<1>5. HasAll(b) <=> S = 0..(b.count - 1)
  BY <1>1, <1>2, <1>4, PartOfInterval
<1>6. HasNone(b) <=> S = {}
  BY <1>1, <1>3, PartOfInterval
<1> QED
  BY <1>1, <1>2, <1>3, <1>5, <1>6 DEF SizedIs

LEMMA SizedHas ==
    ASSUME NEW b \in FieldRecords, NEW S, b.count > 0, SizedIs(b, S), NEW n \in 0..(b.count - 1)
    PROVE  Has(b, n) <=> n \in S
<1>1. n \in Nat /\ b.alloc \in Nat
  BY SizedTells DEF FieldRecords
<1>2. n \div ByteBits < b.alloc <=> n \in InBytes(b.alloc)
  BY <1>1, ByteOfBit
<1> QED
  BY <1>2, SizedTells DEF Has

LEMMA SizedRange ==
    ASSUME NEW b \in FieldRecords, NEW S, b.count > 0, SizedIs(b, S),
           NEW begin \in 0..b.count, NEW end \in 0..b.count, begin < end
    PROVE  CountRange(b, begin, end) = Cardinality(S \cap begin..(end - 1))
<1>1. b.count \in Nat /\ b.alloc \in Nat
  BY SizesNat DEF FieldRecords
<1>2. CASE HasAll(b)
  <2>1. S \cap begin..(end - 1) = begin..(end - 1)
    BY <1>1, <1>2, SizedTells
  <2>2. Cardinality(begin..(end - 1)) = end - begin
    BY <1>1, FS_Interval
  <2> QED
    BY <1>2, <2>1, <2>2 DEF CountRange
<1>3. CASE ~HasAll(b) /\ HasNone(b)
  <2>1. S \cap begin..(end - 1) = {}
    BY <1>3, SizedTells
  <2> QED
    BY <1>3, <2>1, FS_EmptySet DEF CountRange
<1>4. CASE ~HasAll(b) /\ ~HasNone(b)
  <2>1. b.bits = S /\ S \subseteq InBytes(b.alloc) /\ S \subseteq 0..(b.count - 1)
    BY <1>4, SizedTells
  <2>2. \A n \in begin..(end - 1) : n \div ByteBits < b.alloc <=> n \in InBytes(b.alloc)
    BY <1>1, ByteOfBit
  <2>3. CASE begin \div ByteBits >= b.alloc
    <3>1. ~(begin \in InBytes(b.alloc))
      <4>1. begin \in Nat /\ begin \div ByteBits \in Int
        BY <1>1, SizesNat
      <4> QED
        BY <1>1, <2>3, <4>1, ByteOfBit
    <3>2. \A n \in begin..(end - 1) : ~(n \in InBytes(b.alloc))
      <4>1. \A k \in Nat : k * ByteBits \in Nat
        BY SizesNat, SMT
      <4> QED
        BY <1>1, <3>1, <4>1 DEF InBytes
    <3>3. S \cap begin..(end - 1) = {}
      BY <2>1, <3>2
    <3>4. CountRange(b, begin, end) = 0
      BY <1>4, <2>3 DEF CountRange
    <3> QED
      BY <3>3, <3>4, FS_EmptySet
  <2>4. CASE ~(begin \div ByteBits >= b.alloc)
    <3>1. {n \in begin..(end - 1) : n \in b.bits /\ n \div ByteBits < b.alloc} = S \cap begin..(end - 1)
      BY <2>1, <2>2
    <3>2. ~(HasNone(b) \/ b.count = 0 \/ begin \div ByteBits >= b.alloc) /\ ~HasAll(b)
      BY <1>1, <1>4, <2>4
    <3>3. CountRange(b, begin, end) = Cardinality({n \in begin..(end - 1) : n \in b.bits /\ n \div ByteBits < b.alloc})
      BY <3>2, Zenon DEF CountRange
    <3> QED
      BY <3>1, <3>3
  <2> QED
    BY <2>3, <2>4
<1> QED
  BY <1>2, <1>3, <1>4

-----------------------------------------------------------------------------
\* tr_bitfieldSetTrueCount frees the array that is not needed, and leaves a
\* field that stands for what the array held.
LEMMA CountedSized ==
    ASSUME NEW b \in FieldRecords, b.count > 0, NEW S \in SUBSET (0..(b.count - 1)),
           b.bits = S, S \subseteq InBytes(b.alloc)
    PROVE  StandsFor(SetTrueCount(b, Cardinality(S)), S) /\ SetTrueCount(b, Cardinality(S)).count = b.count
<1> DEFINE n == Cardinality(S)
           c == [b EXCEPT !.true = n]
<1>1. b.count \in Nat /\ n \in Nat /\ n <= b.count
  BY SizesNat, PartOfInterval DEF FieldRecords
<1> HIDE DEF n
<1>2. c \in FieldRecords /\ c.true = n /\ c.count = b.count /\ c.bits = S /\ c.alloc = b.alloc
  BY <1>1 DEF FieldRecords
<1>3. HasAll(c) \/ HasNone(c) <=> n = b.count \/ n = 0
  BY <1>2 DEF HasAll, HasNone
<1>4. SetTrueCount(b, n) = IF HasAll(c) \/ HasNone(c) THEN Freed(c) ELSE c
  BY DEF SetTrueCount
<1> HIDE DEF c
<1>5. CASE n = b.count \/ n = 0
  <2>1. SetTrueCount(b, n) = [c EXCEPT !.bits = {}, !.alloc = 0]
    BY <1>3, <1>4, <1>5 DEF Freed
  <2> DEFINE f == [c EXCEPT !.bits = {}, !.alloc = 0]
  <2>2. f \in FieldRecords /\ f.true = n /\ f.count = b.count /\ f.alloc = 0 /\ f.bits = {}
    BY <1>2 DEF FieldRecords
  <2> HIDE DEF f
  <2>3. StandsFor(f, S)
    BY <1>5, <2>2 DEF StandsFor, SizedIs, n
  <2> QED
    BY <2>1, <2>2, <2>3 DEF f, n
<1>6. CASE ~(n = b.count \/ n = 0)
  <2>1. SetTrueCount(b, n) = c
    BY <1>3, <1>4, <1>6
  <2>2. StandsFor(c, S)
    BY <1>2, <1>6 DEF StandsFor, SizedIs, n
  <2> QED
    BY <1>2, <2>1, <2>2 DEF n
<1> QED
  BY <1>5, <1>6

\* tr_bitfieldEnsureBitsAlloced: afterwards the array is the set, and holds the
\* bits below end.
LEMMA RoomSized ==
    ASSUME NEW b \in FieldRecords, NEW S, b.count > 0, SizedIs(b, S), NEW end \in 0..b.count, end > 0
    PROVE  LET r == EnsureBitsAlloced(b, end)
           IN  r \in FieldRecords /\ r.count = b.count /\ r.bits = S /\ S \subseteq InBytes(r.alloc)
               /\ 0..(end - 1) \subseteq InBytes(r.alloc)
<1> DEFINE m == IF HasAll(b) /\ b.true > end THEN b.true ELSE end
           needed == BytesNeeded(m)
           r == EnsureBitsAlloced(b, end)
<1>1. b.count \in Nat /\ b.true \in Nat /\ b.alloc \in Nat /\ S \in SUBSET (0..(b.count - 1)) /\ (HasAll(b) => b.true = b.count)
      /\ b.count > 0
  BY SizedTells DEF HasAll, FieldRecords
<1>2. m \in Nat /\ m > 0 /\ end <= m /\ (HasAll(b) => m = b.count) /\ (~HasAll(b) => m = end)
  BY <1>1
<1> HIDE DEF m
<1>3. needed \in Nat /\ needed > 0 /\ 0..(m - 1) \subseteq InBytes(needed)
  BY <1>2, BytesCover
<1>4. 0..(end - 1) \subseteq InBytes(needed)
  BY <1>2, <1>3
<1>5. r = IF b.alloc >= needed THEN b ELSE [b EXCEPT !.alloc = needed, !.bits = IF HasAll(b) THEN 0..(b.true - 1) ELSE b.bits]
  BY DEF EnsureBitsAlloced, m
<1> HIDE DEF needed, r
<1>6. CASE HasAll(b)
  <2>1. b.alloc = 0 /\ S = 0..(b.count - 1) /\ b.true = b.count
    BY <1>1, <1>6, SizedTells DEF SizedIs
  <2>2. r = [b EXCEPT !.alloc = needed, !.bits = S]
    BY <1>3, <1>5, <1>6, <2>1
  <2>3. S \in SUBSET Nat
    BY <1>1
  <2>4. r \in FieldRecords /\ r.count = b.count /\ r.bits = S /\ r.alloc = needed
    BY <1>3, <2>2, <2>3 DEF FieldRecords
  <2> QED
    BY <1>2, <1>3, <1>4, <1>6, <2>1, <2>4 DEF r
<1>7. CASE ~HasAll(b)
  <2>1. b.bits = S
    BY <1>7, SizedTells
  <2>2. S \subseteq InBytes(b.alloc)
    <3>1. CASE HasNone(b)
      BY <3>1, SizedTells
    <3>2. CASE ~HasNone(b)
      BY <1>7, <3>2, SizedTells
    <3> QED
      BY <3>1, <3>2
  <2>3. CASE b.alloc >= needed
    <3>1. InBytes(needed) \subseteq InBytes(b.alloc)
      BY <1>1, <1>3, <2>3, InMoreBytes
    <3>2. r = b
      BY <1>5, <2>3
    <3> QED
      BY <3>1, <3>2, <1>4, <2>1, <2>2 DEF r
  <2>4. CASE ~(b.alloc >= needed)
    <3>1. r = [b EXCEPT !.alloc = needed, !.bits = b.bits]
      BY <1>5, <1>7, <2>4
    <3>2. r \in FieldRecords /\ r.count = b.count /\ r.bits = S /\ r.alloc = needed
      BY <1>3, <2>1, <3>1 DEF FieldRecords
    <3>3. InBytes(b.alloc) \subseteq InBytes(needed)
      BY <1>1, <1>3, <2>4, InMoreBytes
    <3> QED
      BY <3>2, <3>3, <1>4, <2>2 DEF r
  <2> QED
    BY <2>3, <2>4
<1> QED
  BY <1>6, <1>7

-----------------------------------------------------------------------------
LEMMA FreedField ==
    ASSUME NEW b \in FieldRecords
    PROVE  /\ Freed(b) \in FieldRecords /\ Freed(b).count = b.count /\ Freed(b).true = b.true
           /\ Freed(b).bits = {} /\ Freed(b).alloc = 0
BY DEF Freed, FieldRecords

LEMMA AllSized ==
    ASSUME NEW b \in FieldRecords, b.count > 0
    PROVE  StandsFor(SetHasAll(b), 0..(b.count - 1)) /\ SetHasAll(b).count = b.count
<1>1. b.count \in Nat /\ Cardinality(0..(b.count - 1)) = b.count
  BY SizesNat, FS_Interval DEF FieldRecords
<1>2. SetHasAll(b) = [Freed(b) EXCEPT !.true = b.count, !.all = TRUE, !.none = FALSE]
  BY DEF SetHasAll
<1>3. SetHasAll(b) \in FieldRecords /\ SetHasAll(b).true = b.count /\ SetHasAll(b).count = b.count
      /\ SetHasAll(b).bits = {} /\ SetHasAll(b).alloc = 0
  <2> DEFINE f == Freed(b)
  <2>1. f \in FieldRecords /\ f.count = b.count /\ f.bits = {} /\ f.alloc = 0
    BY FreedField
  <2>2. SetHasAll(b) = [f EXCEPT !.true = b.count, !.all = TRUE, !.none = FALSE]
    BY <1>2
  <2> HIDE DEF f
  <2> QED
    BY <1>1, <2>1, <2>2 DEF FieldRecords
<1> QED
  BY <1>1, <1>3 DEF StandsFor, SizedIs

LEMMA NoneStands ==
    ASSUME NEW b \in FieldRecords
    PROVE  StandsFor(SetHasNone(b), {}) /\ SetHasNone(b).count = b.count
<1>1. SetHasNone(b) = [Freed(b) EXCEPT !.true = 0, !.all = FALSE, !.none = TRUE]
  BY DEF SetHasNone
<1>2. SetHasNone(b) \in FieldRecords /\ SetHasNone(b).true = 0 /\ SetHasNone(b).count = b.count
      /\ SetHasNone(b).bits = {} /\ SetHasNone(b).alloc = 0 /\ SetHasNone(b).none
  <2> DEFINE f == Freed(b)
  <2>1. f \in FieldRecords /\ f.count = b.count /\ f.bits = {} /\ f.alloc = 0
    BY FreedField
  <2>2. SetHasNone(b) = [f EXCEPT !.true = 0, !.all = FALSE, !.none = TRUE]
    BY <1>1
  <2> HIDE DEF f
  <2> QED
    BY <2>1, <2>2 DEF FieldRecords
<1>3. Cardinality({}) = 0
  BY FS_EmptySet
<1> QED
  BY <1>2, <1>3 DEF StandsFor, SizedIs, HintedIs

LEMMA NewStands ==
    ASSUME NEW n \in FieldSizes
    PROVE  StandsFor(Constructed(n), {}) /\ Constructed(n).count = n
<1>1. Constructed(n) \in FieldRecords /\ Constructed(n).count = n /\ Constructed(n).true = 0
      /\ Constructed(n).bits = {} /\ Constructed(n).alloc = 0 /\ ~Constructed(n).all /\ ~Constructed(n).none
  BY DEF Constructed, FieldRecords
<1>2. Cardinality({}) = 0
  BY FS_EmptySet
<1> QED
  BY <1>1, <1>2 DEF StandsFor, SizedIs, HintedIs

-----------------------------------------------------------------------------
\* The calls on a field of a known size.
LEMMA BitAddedSized ==
    ASSUME NEW b \in FieldRecords, NEW S, b.count > 0, SizedIs(b, S), NEW n \in 0..(b.count - 1)
    PROVE  StandsFor(BitAdded(b, n), S \cup {n}) /\ BitAdded(b, n).count = b.count
<1>1. b.count \in Nat /\ S \in SUBSET (0..(b.count - 1)) /\ b.true = Cardinality(S)
  BY SizedTells
<1>2. CASE Has(b, n)
  <2>1. S \cup {n} = S /\ BitAdded(b, n) = b
    BY <1>2, SizedHas DEF BitAdded
  <2> QED
    BY <2>1 DEF StandsFor
<1>3. CASE ~Has(b, n)
  <2> DEFINE e == n + 1
             room == EnsureBitsAlloced(b, e)
             r == [room EXCEPT !.bits = room.bits \cup {n}]
             T == S \cup {n}
  <2>1. e \in 0..b.count /\ e > 0 /\ n \in 0..(e - 1)
    BY <1>1
  <2> HIDE DEF e
  <2>2. room \in FieldRecords /\ room.count = b.count /\ room.bits = S /\ S \subseteq InBytes(room.alloc)
        /\ 0..(e - 1) \subseteq InBytes(room.alloc)
    BY <2>1, RoomSized
  <2>3. n \in InBytes(room.alloc)
    BY <1>1, <2>1, <2>2
  <2> HIDE DEF room
  <2>4. n \in Nat /\ S \subseteq Nat
    BY <1>1
  <2>5. r \in FieldRecords /\ r.count = b.count /\ r.bits = T /\ r.alloc = room.alloc
    BY <2>2, <2>4 DEF FieldRecords
  <2>6. Cardinality(T) = b.true + 1
    <3>1. ~(n \in S) /\ IsFiniteSet(S)
      BY <1>1, <1>3, SizedHas, PartOfInterval
    <3> QED
      BY <1>1, <3>1, FS_AddElement
  <2>7. BitAdded(b, n) = SetTrueCount(r, b.true + 1)
    BY <1>3 DEF BitAdded, room, e
  <2> HIDE DEF r
  <2>8. T \in SUBSET (0..(r.count - 1)) /\ r.bits = T /\ T \subseteq InBytes(r.alloc) /\ r.count > 0
    BY <1>1, <2>2, <2>3, <2>5
  <2> HIDE DEF T
  <2>9. StandsFor(SetTrueCount(r, Cardinality(T)), T) /\ SetTrueCount(r, Cardinality(T)).count = r.count
    BY <2>5, <2>8, CountedSized
  <2> QED
    BY <2>5, <2>6, <2>7, <2>9 DEF T
<1> QED
  BY <1>2, <1>3

LEMMA RangeAddedSized ==
    ASSUME NEW b \in FieldRecords, NEW S, b.count > 0, SizedIs(b, S),
           NEW begin \in 0..b.count, NEW end \in 0..b.count, begin < end
    PROVE  LET added == RangeAdded(b, begin, end)
           IN  StandsFor(added, S \cup begin..(end - 1)) /\ added.count = b.count
<1> DEFINE R == begin..(end - 1)
           T == S \cup R
           diff == (end - begin) - CountRange(b, begin, end)
           room == EnsureBitsAlloced(b, end)
           r == [room EXCEPT !.bits = room.bits \cup R]
<1>1. b.count \in Nat /\ S \in SUBSET (0..(b.count - 1)) /\ b.true = Cardinality(S)
      /\ R \in SUBSET (0..(b.count - 1)) /\ end > 0
  BY SizedTells
<1>2. IsFiniteSet(R) /\ Cardinality(R) = end - begin
  <2>1. begin \in Nat /\ end \in Nat
    BY <1>1
  <2> QED
    BY <2>1, IntervalSize
<1>3. IsFiniteSet(S) /\ IsFiniteSet(S \cap R) /\ Cardinality(S) \in Nat /\ Cardinality(S \cap R) \in Nat
  <2>1. IsFiniteSet(S) /\ Cardinality(S) \in Nat
    BY <1>1, PartOfInterval
  <2>2. S \cap R \in SUBSET (0..(b.count - 1))
    BY <1>1
  <2> HIDE DEF R
  <2>3. IsFiniteSet(S \cap R) /\ Cardinality(S \cap R) \in Nat
    BY <1>1, <2>2, PartOfInterval
  <2> QED
    BY <2>1, <2>3
<1>4. CountRange(b, begin, end) = Cardinality(S \cap R)
  BY SizedRange
<1>5. RangeAdded(b, begin, end) = IF diff = 0 THEN b ELSE SetTrueCount(r, b.true + diff)
  BY <1>1 DEF RangeAdded
<1>6. room \in FieldRecords /\ room.count = b.count /\ room.bits = S /\ S \subseteq InBytes(room.alloc)
      /\ 0..(end - 1) \subseteq InBytes(room.alloc)
  BY <1>1, RoomSized
<1>7. R \subseteq InBytes(room.alloc)
  BY <1>1, <1>6
<1> HIDE DEF R, room
<1>8. Cardinality(T) = Cardinality(S) + Cardinality(R) - Cardinality(S \cap R)
  BY <1>2, <1>3, FS_Union
<1>9. CASE diff = 0
  <2>1. Cardinality(S \cap R) = Cardinality(R)
    BY <1>2, <1>3, <1>4, <1>9
  <2>2. S \cap R = R
    BY <1>2, <2>1, FS_Subset
  <2>3. T = S
    BY <2>2
  <2> QED
    BY <1>5, <1>9, <2>3 DEF StandsFor, R
<1>10. CASE diff # 0
  <2>1. S \subseteq Nat /\ R \subseteq Nat
    BY <1>1
  <2>2. r \in FieldRecords /\ r.count = b.count /\ r.bits = T /\ r.alloc = room.alloc
    BY <1>6, <2>1 DEF FieldRecords
  <2> HIDE DEF r
  <2>3. T \in SUBSET (0..(r.count - 1)) /\ r.bits = T /\ T \subseteq InBytes(r.alloc) /\ r.count > 0
    BY <1>1, <1>6, <1>7, <2>2
  <2>4. Cardinality(T) = b.true + diff
    BY <1>1, <1>2, <1>3, <1>4, <1>8
  <2> HIDE DEF T, diff
  <2>5. StandsFor(SetTrueCount(r, Cardinality(T)), T) /\ SetTrueCount(r, Cardinality(T)).count = r.count
    BY <2>2, <2>3, CountedSized
  <2> QED
    BY <1>5, <1>10, <2>2, <2>4, <2>5 DEF T, R
<1> QED
  BY <1>9, <1>10

LEMMA RangeRemovedSized ==
    ASSUME NEW b \in FieldRecords, NEW S, b.count > 0, SizedIs(b, S),
           NEW begin \in 0..b.count, NEW end \in 0..b.count, begin < end
    PROVE  LET left == RangeRemoved(b, begin, end)
           IN  StandsFor(left, S \ begin..(end - 1)) /\ left.count = b.count
<1> DEFINE R == begin..(end - 1)
           T == S \ R
           diff == CountRange(b, begin, end)
           room == EnsureBitsAlloced(b, end)
           r == [room EXCEPT !.bits = room.bits \ R]
<1>1. b.count \in Nat /\ S \in SUBSET (0..(b.count - 1)) /\ b.true = Cardinality(S) /\ end > 0
  BY SizedTells
<1>2. diff = Cardinality(S \cap R)
  BY SizedRange
<1>3. RangeRemoved(b, begin, end) = IF diff = 0 THEN b ELSE SetTrueCount(r, b.true - diff)
  BY <1>1 DEF RangeRemoved
<1>4. room \in FieldRecords /\ room.count = b.count /\ room.bits = S /\ S \subseteq InBytes(room.alloc)
  BY <1>1, RoomSized
<1> HIDE DEF R, room
<1>5. IsFiniteSet(S) /\ IsFiniteSet(S \cap R) /\ Cardinality(S) \in Nat /\ Cardinality(S \cap R) \in Nat
  <2>1. S \cap R \in SUBSET (0..(b.count - 1))
    BY <1>1
  <2> QED
    BY <1>1, <2>1, PartOfInterval
<1>6. Cardinality(T) = Cardinality(S) - Cardinality(S \cap R)
  BY <1>5, FS_Difference
<1>7. CASE diff = 0
  <2>1. S \cap R = {}
    BY <1>2, <1>5, <1>7, FS_EmptySet
  <2>2. T = S
    BY <2>1
  <2> QED
    BY <1>3, <1>7, <2>2 DEF StandsFor, R
<1>8. CASE diff # 0
  <2>1. S \subseteq Nat
    BY <1>1
  <2>2. r \in FieldRecords /\ r.count = b.count /\ r.bits = T /\ r.alloc = room.alloc
    BY <1>4, <2>1 DEF FieldRecords
  <2> HIDE DEF r
  <2>3. T \in SUBSET (0..(r.count - 1)) /\ r.bits = T /\ T \subseteq InBytes(r.alloc) /\ r.count > 0
    BY <1>1, <1>4, <2>2
  <2>4. Cardinality(T) = b.true - diff
    BY <1>1, <1>2, <1>6
  <2> HIDE DEF T, diff
  <2>5. StandsFor(SetTrueCount(r, Cardinality(T)), T) /\ SetTrueCount(r, Cardinality(T)).count = r.count
    BY <2>2, <2>3, CountedSized
  <2> QED
    BY <1>3, <1>8, <2>2, <2>4, <2>5 DEF T, R
<1> QED
  BY <1>7, <1>8

-----------------------------------------------------------------------------
\* Bytes from a message, a file or another field, into a field of a known
\* size: the bits beyond it are cleared, and there are enough bytes for them.
LEMMA RawSized ==
    ASSUME NEW b \in FieldRecords, b.count > 0, NEW long \in Nat, NEW bits \in SUBSET Nat,
           BytesNeeded(b.count) <= long \/ bits = {}
    PROVE  LET made == SetRaw(b, long, bits, TRUE)
           IN  StandsFor(made, bits \cap 0..(b.count - 1)) /\ made.count = b.count
<1> DEFINE m == BytesNeeded(b.count)
           n == IF m < long THEN m ELSE long
           T == bits \cap 0..(b.count - 1)
           r == [b EXCEPT !.bits = T, !.alloc = n]
<1>1. b.count \in Nat
  BY SizesNat DEF FieldRecords
<1>2. m \in Nat /\ 0..(b.count - 1) \subseteq InBytes(m)
  BY <1>1, BytesCover
<1>3. n \in Nat /\ T \subseteq InBytes(n) /\ {i \in bits : i \in InBytes(n) /\ i < b.count} = T
  <2> DEFINE c == b.count
  <2>1. /\ c \in Nat /\ m \in Nat /\ (m <= long \/ bits = {}) /\ 0..(c - 1) \subseteq InBytes(m)
        /\ n = IF m < long THEN m ELSE long
    BY <1>1, <1>2
  <2> HIDE DEF c, m, n
  <2>2. /\ n \in Nat /\ bits \cap 0..(c - 1) \subseteq InBytes(n)
        /\ {i \in bits : i \in InBytes(n) /\ i < c} = bits \cap 0..(c - 1)
    BY <2>1, KeptBits
  <2> QED
    BY <2>2 DEF c
<1>4. T \in SUBSET (0..(b.count - 1)) /\ T \subseteq InBytes(n)
  BY <1>3
<1>5. {i \in bits : i \in InBytes(n) /\ (TRUE => i < b.count)} = T
  BY <1>3
<1>6. SetRaw(b, long, bits, TRUE) =
        LET kept == {i \in bits : i \in InBytes(n) /\ (TRUE => i < b.count)}
        IN  SetTrueCount([b EXCEPT !.bits = kept, !.alloc = n], Cardinality(kept))
  BY DEF SetRaw
<1>7. SetRaw(b, long, bits, TRUE) = SetTrueCount(r, Cardinality(T))
  BY <1>5, <1>6
<1> HIDE DEF n
<1>8. T \in SUBSET Nat
  BY <1>1
<1> HIDE DEF T
<1>9. r \in FieldRecords /\ r.count = b.count /\ r.bits = T /\ r.alloc = n
  BY <1>3, <1>8 DEF FieldRecords
<1> HIDE DEF r
<1>10. StandsFor(SetTrueCount(r, Cardinality(T)), T) /\ SetTrueCount(r, Cardinality(T)).count = r.count
  BY <1>4, <1>9, CountedSized
<1> QED
  BY <1>7, <1>9, <1>10 DEF T

\* Flags into a field that was just made.
LEMMA FlagsSized ==
    ASSUME NEW c \in FieldSizes, c > 0, NEW S \in SUBSET (0..(c - 1))
    PROVE  StandsFor(SetFromFlags(Constructed(c), S), S) /\ SetFromFlags(Constructed(c), S).count = c
<1> DEFINE b == Constructed(c)
           room == EnsureBitsAlloced(Freed(b), c)
           r == [room EXCEPT !.bits = room.bits \cup S]
<1>1. b \in FieldRecords /\ b.count = c /\ StandsFor(b, {}) /\ c \in Nat /\ Freed(b) = b
  <2>1. StandsFor(b, {}) /\ b.count = c
    BY NewStands
  <2>2. Freed(b) = b
    <3>1. b \in FieldRecords /\ b.bits = {} /\ b.alloc = 0
      BY <2>1 DEF StandsFor, Constructed
    <3> HIDE DEF b
    <3> QED
      BY <3>1 DEF Freed, FieldRecords
  <2> QED
    BY <2>1, <2>2, SizesNat DEF StandsFor
<1>2. SizedIs(b, {}) /\ c \in 0..b.count
  BY <1>1 DEF StandsFor
<1>3. room = EnsureBitsAlloced(b, c)
  BY <1>1
<1>4. SetFromFlags(b, S) = SetTrueCount(r, Cardinality(S))
  <2>1. b.count = c
    BY <1>1
  <2> HIDE DEF b
  <2> QED
    BY <2>1 DEF SetFromFlags
<1> HIDE DEF b
<1>5. room \in FieldRecords /\ room.count = b.count /\ room.bits = {} /\ 0..(c - 1) \subseteq InBytes(room.alloc)
  BY <1>1, <1>2, <1>3, RoomSized
<1> HIDE DEF room
<1>6. S \in SUBSET Nat
  BY <1>1
<1>7. r \in FieldRecords /\ r.count = c /\ r.bits = S /\ r.alloc = room.alloc
  BY <1>1, <1>5, <1>6 DEF FieldRecords
<1> HIDE DEF r
<1>8. StandsFor(SetTrueCount(r, Cardinality(S)), S) /\ SetTrueCount(r, Cardinality(S)).count = r.count
  BY <1>5, <1>7, CountedSized
<1> QED
  BY <1>4, <1>7, <1>8 DEF b

-----------------------------------------------------------------------------
\* The calls on a field whose size is not known: its hints win.
LEMMA CountedHinted ==
    ASSUME NEW b \in FieldRecords, b.count = 0, NEW n \in Nat, NEW S, b.bits = S, S \subseteq InBytes(b.alloc)
    PROVE  StandsFor(SetTrueCount(b, n), S) /\ SetTrueCount(b, n).count = 0
<1> DEFINE c == [b EXCEPT !.true = n]
<1>1. c \in FieldRecords /\ c.count = 0 /\ c.bits = S /\ c.alloc = b.alloc /\ c.all = b.all /\ c.none = b.none
  BY DEF FieldRecords
<1>2. HasAll(c) \/ HasNone(c) <=> c.all \/ c.none
  BY <1>1 DEF HasAll, HasNone
<1>3. SetTrueCount(b, n) = IF HasAll(c) \/ HasNone(c) THEN Freed(c) ELSE c
  BY DEF SetTrueCount
<1> HIDE DEF c
<1>4. CASE c.all \/ c.none
  <2> DEFINE f == [c EXCEPT !.bits = {}, !.alloc = 0]
  <2>1. SetTrueCount(b, n) = f
    BY <1>2, <1>3, <1>4 DEF Freed
  <2>2. f \in FieldRecords /\ f.count = 0 /\ f.all = c.all /\ f.none = c.none /\ f.alloc = 0 /\ f.bits = {}
    BY <1>1 DEF FieldRecords
  <2> HIDE DEF f
  <2> QED
    BY <1>4, <2>1, <2>2 DEF StandsFor, HintedIs
<1>5. CASE ~(c.all \/ c.none)
  <2>1. SetTrueCount(b, n) = c
    BY <1>2, <1>3, <1>5
  <2> QED
    BY <1>1, <1>5, <2>1 DEF StandsFor, HintedIs
<1> QED
  BY <1>4, <1>5

LEMMA BitAddedHinted ==
    ASSUME NEW b \in FieldRecords, NEW S, b.count = 0, HintedIs(b, S), NEW n \in Nat
    PROVE  StandsFor(BitAdded(b, n), S \cup {n}) /\ BitAdded(b, n).count = 0
<1>1. b.alloc \in Nat /\ b.bits \in SUBSET Nat /\ (HasAll(b) <=> b.all) /\ (HasNone(b) <=> b.none) /\ b.true \in Nat
  BY DEF FieldRecords, HasAll, HasNone
<1>2. n \div ByteBits < b.alloc <=> n \in InBytes(b.alloc)
  BY <1>1, ByteOfBit
<1>3. CASE Has(b, n)
  <2>1. BitAdded(b, n) = b
    BY <1>3 DEF BitAdded
  <2>2. b.all \/ (~b.none /\ n \in b.bits)
    BY <1>1, <1>3 DEF Has
  <2> QED
    BY <2>1, <2>2 DEF StandsFor, HintedIs
<1>4. CASE ~Has(b, n)
  <2> DEFINE needed == BytesNeeded(n + 1)
             room == EnsureBitsAlloced(b, n + 1)
             r == [room EXCEPT !.bits = room.bits \cup {n}]
             T == b.bits \cup {n}
  <2>1. ~b.all
    BY <1>1, <1>4 DEF Has
  <2>2. n + 1 \in Nat /\ n \in 0..(n + 1 - 1)
    OBVIOUS
  <2>3. needed \in Nat /\ n \in InBytes(needed)
    BY <2>2, BytesCover
  <2>4. room = IF b.alloc >= needed THEN b ELSE [b EXCEPT !.alloc = needed, !.bits = b.bits]
    BY <1>1, <2>1 DEF EnsureBitsAlloced
  <2>5. BitAdded(b, n) = SetTrueCount(r, b.true + 1)
    BY <1>4 DEF BitAdded
  <2> HIDE DEF needed, room
  <2>6. room \in FieldRecords /\ room.count = 0 /\ room.bits = b.bits /\ room.all = b.all /\ room.none = b.none
        /\ needed <= room.alloc /\ b.alloc <= room.alloc /\ room.alloc \in Nat
    <3>1. CASE b.alloc >= needed
      BY <1>1, <2>3, <2>4, <3>1
    <3>2. CASE ~(b.alloc >= needed)
      <4>1. room = [b EXCEPT !.alloc = needed, !.bits = b.bits]
        BY <2>4, <3>2
      <4>2. room \in FieldRecords /\ room.count = 0 /\ room.bits = b.bits /\ room.all = b.all /\ room.none = b.none
            /\ room.alloc = needed
        BY <2>3, <4>1 DEF FieldRecords
      <4> QED
        BY <1>1, <2>3, <3>2, <4>2
    <3> QED
      BY <3>1, <3>2
  <2>7. b.bits \subseteq InBytes(room.alloc) /\ n \in InBytes(room.alloc)
    <3>1. InBytes(needed) \subseteq InBytes(room.alloc)
      BY <2>3, <2>6, InMoreBytes
    <3>2. InBytes(b.alloc) \subseteq InBytes(room.alloc)
      BY <1>1, <2>6, InMoreBytes
    <3>3. b.bits \subseteq InBytes(b.alloc)
      BY DEF HintedIs
    <3> QED
      BY <2>3, <3>1, <3>2, <3>3
  <2>8. r \in FieldRecords /\ r.count = 0 /\ r.bits = T /\ r.alloc = room.alloc /\ r.none = b.none /\ r.all = b.all
    BY <1>1, <2>6 DEF FieldRecords
  <2> HIDE DEF r
  <2>9. StandsFor(SetTrueCount(r, b.true + 1), T) /\ SetTrueCount(r, b.true + 1).count = 0
    <3>1. T \subseteq InBytes(r.alloc) /\ b.true + 1 \in Nat
      BY <1>1, <2>7, <2>8
    <3> HIDE DEF T
    <3> QED
      BY <2>8, <3>1, CountedHinted
  <2>10. CASE b.none
    <3>1. SetTrueCount(r, b.true + 1).none
      <4> DEFINE n1 == b.true + 1
                 c == [r EXCEPT !.true = n1]
      <4>1. c.none /\ c \in FieldRecords
        <5>1. n1 \in Nat /\ r \in FieldRecords /\ r.none
          BY <1>1, <2>8, <2>10
        <5> HIDE DEF n1
        <5> QED
          BY <5>1 DEF FieldRecords
      <4>2. Freed(c).none
        BY <4>1 DEF Freed, FieldRecords
      <4> QED
        BY <4>1, <4>2 DEF SetTrueCount
    <3> QED
      BY <2>5, <2>9, <3>1 DEF StandsFor, HintedIs
  <2>11. CASE ~b.none
    <3>1. b.bits = S
      BY <2>1, <2>11 DEF HintedIs
    <3> QED
      BY <2>5, <2>9, <3>1
  <2> QED
    BY <2>10, <2>11
<1> QED
  BY <1>3, <1>4

-----------------------------------------------------------------------------
LEMMA InitFieldIInv == BitfieldInit => FieldIInv
BY NewStands DEF BitfieldInit, FieldIInv

LEMMA FieldIInvSound ==
    ASSUME FieldIInv
    PROVE  FieldIsSet
<1>1. field \in FieldRecords /\ field.count \in Nat /\ field.alloc \in Nat
  BY SizesNat DEF FieldIInv, StandsFor, FieldRecords
<1>2. CASE field.count > 0
  <2>1. SizedIs(field, truth)
    BY <1>2 DEF FieldIInv, StandsFor
  <2>2. Bits = 0..(field.count - 1)
    BY <1>2 DEF Bits
  <2>3. field.true = Cardinality(truth)
    BY <2>1 DEF SizedIs
  <2>4. \A n \in Bits : Has(field, n) <=> n \in truth
    BY <1>1, <1>2, <2>1, <2>2, SizedHas
  <2>5. \A begin, end \in 0..field.count :
            begin < end => CountRange(field, begin, end) = Cardinality(truth \cap begin..(end - 1))
    BY <1>1, <1>2, <2>1, SizedRange
  <2>6. GetRaw(field) = truth
    <3>1. CASE HasAll(field)
      <4>1. field.alloc = 0 /\ truth = 0..(field.count - 1)
        BY <1>1, <1>2, <2>1, <3>1, SizedTells DEF SizedIs, HasAll
      <4> QED
        BY <3>1, <4>1 DEF GetRaw
    <3>2. CASE ~HasAll(field) /\ HasNone(field)
      <4>1. field.alloc = 0 /\ truth = {}
        BY <1>1, <1>2, <2>1, <3>2, SizedTells DEF SizedIs, HasNone
      <4> QED
        BY <3>2, <4>1 DEF GetRaw
    <3>3. CASE ~HasAll(field) /\ ~HasNone(field)
      <4>1. field.bits = truth /\ truth \subseteq InBytes(field.alloc) /\ truth # {}
        BY <1>1, <1>2, <2>1, <3>3, SizedTells
      <4>2. field.alloc # 0
        BY <1>1, <4>1, SizesNat DEF InBytes
      <4> QED
        BY <1>1, <4>1, <4>2 DEF GetRaw
    <3> QED
      BY <3>1, <3>2, <3>3
  <2>7. field.alloc > 0 => field.bits \subseteq InBytes(field.alloc)
    BY <2>1 DEF SizedIs
  <2> QED
    BY <1>2, <2>3, <2>4, <2>5, <2>6, <2>7 DEF FieldIsSet
<1>3. CASE ~(field.count > 0)
  <2>1. field.count = 0 /\ HintedIs(field, truth)
    BY <1>1, <1>3 DEF FieldIInv, StandsFor
  <2>2. Bits = 0..MaxBit
    BY <1>3 DEF Bits
  <2>3. ~field.none /\ ~field.all => \A n \in Bits : Has(field, n) <=> n \in truth
    <3> SUFFICES ASSUME ~field.none, ~field.all, NEW n \in Bits PROVE Has(field, n) <=> n \in truth
      OBVIOUS
    <3>1. field.bits = truth /\ truth \subseteq InBytes(field.alloc)
      BY <2>1 DEF HintedIs
    <3>2. n \in Nat
      BY <2>2, SizesNat
    <3>3. n \div ByteBits < field.alloc <=> n \in InBytes(field.alloc)
      BY <1>1, <3>2, ByteOfBit
    <3>4. ~HasAll(field) /\ ~HasNone(field)
      BY <2>1 DEF HasAll, HasNone
    <3> QED
      BY <3>1, <3>3, <3>4 DEF Has
  <2>4. field.alloc > 0 => field.bits \subseteq InBytes(field.alloc)
    BY <2>1 DEF HintedIs
  <2> QED
    BY <1>3, <2>3, <2>4 DEF FieldIsSet
<1> QED
  BY <1>2, <1>3

-----------------------------------------------------------------------------
LEMMA AddBitStep ==
    ASSUME FieldIInv, NEW n \in Bits, AddBit(n)
    PROVE  FieldIInv'
<1>1. field \in FieldRecords /\ field.count \in Nat
  BY SizesNat DEF FieldIInv, StandsFor, FieldRecords
<1>2. field' = BitAdded(field, n) /\ truth' = truth \cup {n}
  BY DEF AddBit, Does
<1>3. CASE field.count > 0
  <2>1. n \in 0..(field.count - 1) /\ SizedIs(field, truth)
    BY <1>3 DEF Bits, FieldIInv, StandsFor
  <2> QED
    BY <1>1, <1>2, <1>3, <2>1, BitAddedSized DEF FieldIInv
<1>4. CASE ~(field.count > 0)
  <2>1. n \in Nat /\ HintedIs(field, truth) /\ field.count = 0
    BY <1>1, <1>4, SizesNat DEF Bits, FieldIInv, StandsFor
  <2> QED
    BY <1>1, <1>2, <2>1, BitAddedHinted DEF FieldIInv
<1> QED
  BY <1>3, <1>4

LEMMA RangeStep ==
    ASSUME FieldIInv, NEW begin \in Bits \cup {field.count}, NEW end \in Bits \cup {field.count}, begin < end,
           AddRange(begin, end) \/ RemRange(begin, end)
    PROVE  FieldIInv'
<1>1. field \in FieldRecords /\ field.count \in Nat /\ field.count > 0
  BY SizesNat DEF FieldIInv, StandsFor, FieldRecords, AddRange, RemRange
<1>2. SizedIs(field, truth)
  BY <1>1 DEF FieldIInv, StandsFor
<1>3. begin \in 0..field.count /\ end \in 0..field.count
  BY <1>1 DEF Bits
<1>4. CASE AddRange(begin, end)
  <2>1. field' = RangeAdded(field, begin, end) /\ truth' = truth \cup begin..(end - 1)
    BY <1>4 DEF AddRange, Does
  <2> QED
    BY <1>1, <1>2, <1>3, <2>1, RangeAddedSized DEF FieldIInv
<1>5. CASE RemRange(begin, end)
  <2>1. field' = RangeRemoved(field, begin, end) /\ truth' = truth \ begin..(end - 1)
    BY <1>5 DEF RemRange, Does
  <2> QED
    BY <1>1, <1>2, <1>3, <2>1, RangeRemovedSized DEF FieldIInv
<1> QED
  BY <1>4, <1>5

LEMMA AllOrNoneStep ==
    ASSUME FieldIInv, SetAll \/ SetNone
    PROVE  FieldIInv'
<1>1. field \in FieldRecords /\ field.count \in Nat
  BY SizesNat DEF FieldIInv, StandsFor, FieldRecords
<1>2. CASE SetNone
  <2>1. field' = SetHasNone(field) /\ truth' = {}
    BY <1>2 DEF SetNone, Does
  <2> QED
    BY <1>1, <2>1, NoneStands DEF FieldIInv
<1>3. CASE SetAll /\ field.count > 0
  <2>1. field' = SetHasAll(field) /\ truth' = 0..(field.count - 1)
    BY <1>3 DEF SetAll, Does, Bits
  <2> QED
    BY <1>1, <1>3, <2>1, AllSized DEF FieldIInv
<1>4. CASE SetAll /\ ~(field.count > 0)
  <2> DEFINE f == Freed(field)
  <2>1. f \in FieldRecords /\ f.count = 0 /\ f.bits = {} /\ f.alloc = 0
    BY <1>1, <1>4, FreedField
  <2>2. field.count = 0 /\ field' = [f EXCEPT !.true = field.count, !.all = TRUE, !.none = FALSE]
    BY <1>1, <1>4 DEF SetAll, Does, SetHasAll
  <2> HIDE DEF f
  <2>3. field' \in FieldRecords /\ field'.count = 0 /\ field'.all /\ field'.alloc = 0 /\ field'.bits = {}
    BY <2>1, <2>2 DEF FieldRecords
  <2> QED
    BY <2>3 DEF FieldIInv, StandsFor, HintedIs
<1> QED
  BY <1>2, <1>3, <1>4

LEMMA FlagsStep ==
    ASSUME FieldIInv, NEW S \in SUBSET Bits, SetFlags(S)
    PROVE  FieldIInv'
<1>1. field \in FieldRecords /\ field.count \in FieldSizes /\ field.count > 0 /\ field = Constructed(field.count)
  BY DEF FieldIInv, StandsFor, FieldRecords, SetFlags
<1>2. field' = SetFromFlags(Constructed(field.count), S) /\ truth' = S
  BY <1>1 DEF SetFlags, Does
<1>3. S \in SUBSET (0..(field.count - 1))
  BY <1>1 DEF Bits
<1> QED
  BY <1>1, <1>2, <1>3, FlagsSized DEF FieldIInv

LEMMA BytesStep ==
    ASSUME FieldIInv, NEW long \in Nat, NEW S \in SUBSET Bits, SetBytes(long, S)
    PROVE  FieldIInv'
<1>1. field \in FieldRecords /\ field.count \in Nat
  BY SizesNat DEF FieldIInv, StandsFor, FieldRecords
<1>2. S \in SUBSET Nat /\ S \subseteq InBytes(long)
  BY <1>1, SizesNat DEF Bits, SetBytes
<1>3. CASE field.count > 0
  <2>1. field' = SetRaw(field, long, S, TRUE) /\ truth' = S \cap 0..(field.count - 1) /\ BytesNeeded(field.count) <= long
    BY <1>3 DEF SetBytes, Does, Bits
  <2> QED
    BY <1>1, <1>2, <1>3, <2>1, RawSized DEF FieldIInv
<1>4. CASE ~(field.count > 0)
  <2> DEFINE kept == {i \in S : i \in InBytes(long) /\ (FALSE => i < field.count)}
             r == [field EXCEPT !.bits = S, !.alloc = long]
  <2>1. field' = SetRaw(field, long, S, FALSE) /\ truth' = S
    <3>1. (field.count > 0) = FALSE /\ S \cap S = S
      BY <1>4
    <3>2. field' = SetRaw(field, long, S, field.count > 0)
          /\ truth' = S \cap (IF field.count > 0 THEN Bits ELSE S)
      BY DEF SetBytes, Does
    <3> QED
      BY <3>1, <3>2
  <2>2. kept = S
    BY <1>2
  <2>3. field' = SetTrueCount([field EXCEPT !.bits = kept, !.alloc = long], Cardinality(kept))
    BY <2>1 DEF SetRaw
  <2>4. field' = SetTrueCount(r, Cardinality(S))
    BY <2>2, <2>3
  <2> HIDE DEF kept
  <2>5. r \in FieldRecords /\ r.count = 0 /\ r.bits = S /\ r.alloc = long
    <3>1. r \in FieldRecords /\ r.count = field.count /\ r.bits = S /\ r.alloc = long
      BY <1>1, <1>2 DEF FieldRecords
    <3> QED
      BY <1>1, <1>4, <3>1
  <2> HIDE DEF r
  <2>6. Cardinality(S) \in Nat
    <3>1. IsFiniteSet(0..MaxBit) /\ S \subseteq 0..MaxBit
      BY <1>4, SizesNat, FS_Interval DEF Bits
    <3> QED
      BY <3>1, FS_Subset, FS_CardinalityType
  <2> QED
    BY <1>2, <2>1, <2>4, <2>5, <2>6, CountedHinted DEF FieldIInv
<1> QED
  BY <1>3, <1>4

\* What was known of a field without a size is known of the one that has it.
LEMMA SizedStep ==
    ASSUME FieldIInv, NEW n \in FieldSizes, Sized(n)
    PROVE  FieldIInv'
<1>1. field \in FieldRecords /\ field.count = 0 /\ n > 0 /\ n \in Nat /\ ~field.none /\ field.alloc \in Nat
      /\ field.bits \in SUBSET Nat /\ HintedIs(field, truth) /\ (field.alloc > 0 => BytesNeeded(n) <= field.alloc)
  BY SizesNat DEF FieldIInv, StandsFor, FieldRecords, Sized
<1>2. /\ field' = SetFromBitfield(Constructed(n), field)
      /\ truth' = IF HasAll(field) THEN 0..(n - 1) ELSE truth \cap 0..(n - 1)
  BY DEF Sized, Does
<1>3. (HasAll(field) <=> field.all) /\ ~HasNone(field)
  BY <1>1 DEF HasAll, HasNone
<1>4. Constructed(n) \in FieldRecords /\ Constructed(n).count = n
  BY NewStands DEF StandsFor
<1>5. CASE HasAll(field)
  BY <1>1, <1>2, <1>4, <1>5, AllSized DEF FieldIInv, SetFromBitfield
<1>6. CASE ~HasAll(field)
  <2>1. field' = SetRaw(Constructed(n), field.alloc, field.bits, TRUE) /\ truth' = truth \cap 0..(n - 1)
    BY <1>2, <1>3, <1>6 DEF SetFromBitfield
  <2>2. field.bits = truth /\ truth \subseteq InBytes(field.alloc)
    BY <1>1, <1>3, <1>6 DEF HintedIs
  <2>3. BytesNeeded(n) <= field.alloc \/ field.bits = {}
    BY <1>1, <2>2, SizesNat DEF InBytes
  <2> QED
    BY <1>1, <1>4, <2>1, <2>2, <2>3, RawSized DEF FieldIInv
<1> QED
  BY <1>5, <1>6

LEMMA FieldStep ==
    ASSUME FieldIInv, [BitfieldNext]_fieldVars
    PROVE  FieldIInv'
<1>1. CASE \E n \in Bits : AddBit(n)
  BY <1>1, AddBitStep
<1>2. CASE \E begin, end \in Bits \cup {field.count} : begin < end /\ (AddRange(begin, end) \/ RemRange(begin, end))
  BY <1>2, RangeStep
<1>3. CASE SetAll \/ SetNone
  BY <1>3, AllOrNoneStep
<1>4. CASE \E S \in SUBSET Bits : SetFlags(S)
  BY <1>4, FlagsStep
<1>5. CASE \E S \in SUBSET Bits, long \in 1..BytesNeeded(MaxBit + 1) : SetBytes(long, S)
  <2>1. PICK S \in SUBSET Bits, long \in 1..BytesNeeded(MaxBit + 1) : SetBytes(long, S)
    BY <1>5
  <2>2. MaxBit + 1 \in Nat
    BY SizesNat
  <2>3. BytesNeeded(MaxBit + 1) \in Nat
    BY <2>2, BytesCover
  <2>4. long \in Nat
    BY <2>3
  <2> QED
    BY <2>1, <2>4, BytesStep
<1>6. CASE \E n \in FieldSizes : Sized(n)
  BY <1>6, SizedStep
<1>7. CASE UNCHANGED fieldVars
  BY <1>7 DEF fieldVars, FieldIInv
<1> QED
  BY <1>1, <1>2, <1>3, <1>4, <1>5, <1>6, <1>7 DEF BitfieldNext

\* A bitfield is the set that its calls asked for (bitfield.c), for bytes and
\* sizes of any length.
THEOREM FieldStandsForSet == BitfieldSpec => []FieldIsSet
<1>1. BitfieldInit => FieldIInv
  BY InitFieldIInv
<1>2. FieldIInv /\ [BitfieldNext]_fieldVars => FieldIInv'
  BY FieldStep
<1>3. FieldIInv => FieldIsSet
  BY FieldIInvSound
<1> QED
  BY <1>1, <1>2, <1>3, PTL DEF BitfieldSpec

-----------------------------------------------------------------------------
(***************************************************************************)
(* For any lists, any texts and any ranges in them, reversed ones included:   *)
(* an address is blocked exactly if a list in use was asked to hold it.       *)
(*                                                                         *)
(* Ranges in the order of their first addresses are merged into rules that    *)
(* are apart (Apart), with what the first k ranges cover after k of them; a   *)
(* search by bisection in rules that are apart finds what they cover.         *)
(***************************************************************************)
AddressRange == Nat \X Nat
In(r, a) == r[1] <= a /\ a <= r[2]
Inside(ranges, a) == \E i \in 1..Len(ranges) : In(ranges[i], a)
\* The rules are in order and do not overlap.
Apart(rules) ==
    /\ rules \in Seq(AddressRange)
    /\ \A k \in 1..Len(rules) : k > 1 => rules[k - 1][1] <= rules[k][1] /\ rules[k - 1][2] < rules[k][1]

LEMMA RangesAre ==
    ASSUME NEW s \in Seq(AddressRange)
    PROVE  /\ Len(s) \in Nat /\ DOMAIN s = 1..Len(s)
           /\ \A i \in 1..Len(s) : s[i] \in AddressRange /\ s[i][1] \in Nat /\ s[i][2] \in Nat
<1>1. Len(s) \in Nat /\ DOMAIN s = 1..Len(s) /\ s \in [1..Len(s) -> AddressRange]
  BY LenProperties
<1> QED
  BY <1>1 DEF AddressRange

LEMMA ApartFar ==
    ASSUME NEW rules, Apart(rules)
    PROVE  \A i, j \in 1..Len(rules) : i < j => rules[i][1] <= rules[j][1] /\ rules[i][2] < rules[j][1]
<1> DEFINE n == Len(rules)
           Far(i, j) == rules[i][1] <= rules[j][1] /\ rules[i][2] < rules[j][1]
<1>1. /\ n \in Nat /\ \A i \in 1..n : rules[i][1] \in Nat /\ rules[i][2] \in Nat
  BY RangesAre DEF Apart
<1>2. \A k \in 1..n : k > 1 => Far(k - 1, k)
  BY DEF Apart
<1> HIDE DEF n
<1>3. ASSUME NEW i \in 1..n PROVE \A j \in 1..n : i < j => Far(i, j)
  <2> DEFINE T == {j \in 1..n : i < j /\ ~Far(i, j)}
  <2> SUFFICES ASSUME T # {} PROVE FALSE
    OBVIOUS
  <2>1. T \in SUBSET Nat
    OBVIOUS
  <2> HIDE DEF T
  <2>2. PICK m \in T : \A j \in T : m <= j
    BY <2>1, LeastNat
  <2>3. m \in 1..n /\ i < m /\ ~Far(i, m)
    BY <2>2 DEF T
  <2>4. m - 1 \in 1..n /\ m - 1 \notin T /\ m > 1
    BY <1>1, <2>2, <2>3 DEF T
  <2>5. Far(m - 1, m)
    BY <1>2, <2>3, <2>4
  <2>6. CASE i = m - 1
    BY <2>3, <2>5, <2>6
  <2>7. CASE i # m - 1
    <3>1. i < m - 1
      BY <2>3, <2>7
    <3>2. Far(i, m - 1)
      BY <2>4, <3>1 DEF T
    <3> QED
      BY <1>1, <2>3, <2>4, <2>5, <3>2
  <2> QED
    BY <2>6, <2>7
<1> QED
  BY <1>3 DEF n

-----------------------------------------------------------------------------
(* The search                                                              *)

\* bsearch with compareAddressToRange
LEMMA Bisection ==
    ASSUME NEW rules, Apart(rules), NEW a \in Nat
    PROVE  FoundIn(rules, a) = Inside(rules, a)
<1> DEFINE L == Len(rules)
           parts == {p \in (0..L) \X (0..L) : p[1] + p[2] <= L}
           Body(f, p) == IF p[2] = 0 THEN FALSE
                         ELSE IF a < rules[p[1] + p[2] \div 2 + 1][1] THEN f[<<p[1], p[2] \div 2>>]
                         ELSE IF a > rules[p[1] + p[2] \div 2 + 1][2]
                              THEN f[<<p[1] + p[2] \div 2 + 1, p[2] - p[2] \div 2 - 1>>]
                         ELSE TRUE
           at == CHOOSE f : f = [p \in parts |-> Body(f, p)]
           g == [p \in parts |-> \E k \in (p[1] + 1)..(p[1] + p[2]) : In(rules[k], a)]
<1>1. /\ L \in Nat /\ \A i \in 1..L : rules[i][1] \in Nat /\ rules[i][2] \in Nat
      /\ \A i, j \in 1..L : i < j => rules[i][1] <= rules[j][1] /\ rules[i][2] < rules[j][1]
  BY RangesAre, ApartFar DEF Apart
<1>2. FoundIn(rules, a) = at[<<0, L>>]
  BY DEF FoundIn
<1> HIDE DEF L
<1>3. ASSUME NEW p \in parts, p[2] # 0
      PROVE  LET m == p[1] + p[2] \div 2 + 1 IN
             /\ m \in (p[1] + 1)..(p[1] + p[2]) /\ m \in 1..L
             /\ <<p[1], p[2] \div 2>> \in parts /\ p[2] \div 2 \in 0..(p[2] - 1)
             /\ <<m, p[2] - p[2] \div 2 - 1>> \in parts /\ p[2] - p[2] \div 2 - 1 \in 0..(p[2] - 1)
             /\ p[1] + p[2] \div 2 = m - 1 /\ m + (p[2] - p[2] \div 2 - 1) = p[1] + p[2]
  <2> DEFINE lo == p[1]
             n == p[2]
             h == n \div 2
  <2>1. lo \in 0..L /\ n \in 0..L /\ lo + n <= L /\ n # 0
    BY <1>3
  <2>2. h \in Nat /\ 2 * h <= n /\ n <= 2 * h + 1
    BY <1>1, <2>1
  <2> HIDE DEF lo, n, h
  <2>3. /\ lo + h + 1 \in (lo + 1)..(lo + n) /\ lo + h + 1 \in 1..L
        /\ lo \in 0..L /\ h \in 0..L /\ lo + h <= L /\ h \in 0..(n - 1)
        /\ lo + h + 1 \in 0..L /\ n - h - 1 \in 0..L /\ (lo + h + 1) + (n - h - 1) <= L /\ n - h - 1 \in 0..(n - 1)
        /\ lo + h = (lo + h + 1) - 1 /\ (lo + h + 1) + (n - h - 1) = lo + n
    BY <1>1, <2>1, <2>2
  <2>4. <<lo, h>> \in parts /\ <<lo + h + 1, n - h - 1>> \in parts
    BY <2>3
  <2> HIDE DEF parts
  <2> QED
    BY <2>3, <2>4 DEF lo, n, h
<1>4. ASSUME NEW p \in parts PROVE g[p] = Body(g, p)
  <2> DEFINE lo == p[1]
             n == p[2]
             h == n \div 2
             m == lo + h + 1
             r == n - h - 1
             Some(i, j) == \E k \in i..j : In(rules[k], a)
  <2>1. lo \in 0..L /\ n \in 0..L /\ lo + n <= L
    OBVIOUS
  <2>2. g[p] = Some(lo + 1, lo + n)
    OBVIOUS
  <2>3. CASE n = 0
    <3>1. (lo + 1)..(lo + n) = {}
      BY <1>1, <2>1, <2>3
    <3>2. Body(g, p) = FALSE
      BY <2>3
    <3> QED
      BY <2>2, <3>1, <3>2
  <2>4. CASE n # 0
    <3>1. /\ m \in (lo + 1)..(lo + n) /\ m \in 1..L
          /\ <<lo, h>> \in parts /\ <<m, r>> \in parts
          /\ lo + h = m - 1 /\ m + r = lo + n
      BY <1>3, <2>4
    <3>2. g[<<lo, h>>] = Some(lo + 1, m - 1) /\ g[<<m, r>>] = Some(m + 1, lo + n)
      BY <3>1
    <3>3. Body(g, p) = IF a < rules[m][1] THEN g[<<lo, h>>] ELSE IF a > rules[m][2] THEN g[<<m, r>>] ELSE TRUE
      BY <2>4
    <3> HIDE DEF g, Body, m, r, h, lo, n, parts
    <3>4. \A k \in (lo + 1)..(lo + n) : k \in 1..L /\ (k \in (lo + 1)..(m - 1) \/ k = m \/ k \in (m + 1)..(lo + n))
      BY <1>1, <2>1, <3>1
    <3>5. /\ \A k \in (lo + 1)..(m - 1) : k \in (lo + 1)..(lo + n) /\ k < m
          /\ \A k \in (m + 1)..(lo + n) : k \in (lo + 1)..(lo + n) /\ m < k
      BY <1>1, <2>1, <3>1
    <3>6. CASE a < rules[m][1]
      <4>1. ~In(rules[m], a) /\ \A k \in (m + 1)..(lo + n) : ~In(rules[k], a)
        BY <1>1, <3>1, <3>4, <3>5, <3>6 DEF In
      <4> QED
        BY <2>2, <3>2, <3>3, <3>4, <3>5, <3>6, <4>1
    <3>7. CASE ~(a < rules[m][1]) /\ a > rules[m][2]
      <4>1. ~In(rules[m], a) /\ \A k \in (lo + 1)..(m - 1) : ~In(rules[k], a)
        BY <1>1, <3>1, <3>4, <3>5, <3>7 DEF In
      <4> QED
        BY <2>2, <3>2, <3>3, <3>4, <3>5, <3>7, <4>1
    <3>8. CASE ~(a < rules[m][1]) /\ ~(a > rules[m][2])
      <4>1. In(rules[m], a)
        BY <1>1, <3>1, <3>8 DEF In
      <4> QED
        BY <2>2, <3>1, <3>3, <3>8, <4>1
    <3> QED
      BY <3>6, <3>7, <3>8
  <2> QED
    BY <2>3, <2>4
<1> DEFINE Solves(f) == f = [p \in parts |-> Body(f, p)]
<1>5. Solves(g)
  <2> HIDE DEF g, parts, Body
  <2>1. \A p \in parts : g[p] = Body(g, p)
    BY <1>4
  <2>2. g = [p \in parts |-> g[p]]
    BY DEF g
  <2> QED
    BY <2>1, <2>2
<1>6. Solves(at)
  <2> HIDE DEF g, parts, Body
  <2> QED
    BY <1>5
<1> HIDE DEF at
<1>7. \A p \in parts : at[p] = Body(at, p)
  <2> HIDE DEF Body, parts
  <2> QED
    BY <1>6
<1>8. \A p \in parts : at[p] = g[p]
  <2> DEFINE T == {p[2] : p \in {q \in parts : at[q] # g[q]}}
  <2> SUFFICES ASSUME T # {} PROVE FALSE
    OBVIOUS
  <2>1. T \in SUBSET Nat
    <3>1. \A p \in parts : p[2] \in Nat
      BY <1>1
    <3> HIDE DEF parts, at, g
    <3> QED
      BY <3>1
  <2>2. PICK n \in T : \A j \in T : n <= j
    BY <2>1, LeastNat
  <2>3. PICK p \in parts : at[p] # g[p] /\ p[2] = n
    BY <2>2
  <2>4. \A q \in parts : q[2] \in 0..(n - 1) => at[q] = g[q]
    <3> TAKE q \in parts
    <3> HAVE q[2] \in 0..(n - 1)
    <3>1. q[2] \in T => n <= q[2]
      BY <2>2
    <3>2. n \in Nat
      BY <2>1
    <3> HIDE DEF g
    <3>3. q[2] \notin T
      BY <3>1, <3>2
    <3> QED
      BY <3>3
  <2> HIDE DEF T
  <2>5. at[p] = Body(at, p) /\ g[p] = Body(g, p)
    BY <1>4, <1>7
  <2> HIDE DEF g
  <2>6. CASE p[2] = 0
    BY <2>3, <2>5, <2>6
  <2>7. CASE p[2] # 0
    <3> DEFINE x == <<p[1], p[2] \div 2>>
               y == <<p[1] + p[2] \div 2 + 1, p[2] - p[2] \div 2 - 1>>
    <3>1. x \in parts /\ x[2] \in 0..(n - 1) /\ y \in parts /\ y[2] \in 0..(n - 1)
      BY <1>3, <2>3, <2>7
    <3> HIDE DEF parts
    <3>2. at[x] = g[x] /\ at[y] = g[y]
      BY <2>4, <3>1
    <3>3. Body(at, p) = Body(g, p)
      BY <3>2
    <3> QED
      BY <2>3, <2>5, <3>3
  <2> QED
    BY <2>6, <2>7
<1>9. <<0, L>> \in parts
  BY <1>1
<1>10. g[<<0, L>>] = \E k \in 1..L : In(rules[k], a)
  BY <1>1, <1>9
<1> QED
  BY <1>2, <1>8, <1>9, <1>10 DEF Inside, L

-----------------------------------------------------------------------------
(* A text becomes rules                                                    *)

\* Each range has a rank of its own, in the order of their first addresses.
LEMMA RanksAre ==
    ASSUME NEW ranges \in Seq(AddressRange)
    PROVE  /\ \A j \in 1..Len(ranges) : Rank(ranges, j) \in 1..Len(ranges)
           /\ \A i, j \in 1..Len(ranges) : Rank(ranges, i) = Rank(ranges, j) => i = j
           /\ \A k \in 1..Len(ranges) : \E j \in 1..Len(ranges) : Rank(ranges, j) = k
           /\ \A i, j \in 1..Len(ranges) : Rank(ranges, i) < Rank(ranges, j) => ranges[i][1] <= ranges[j][1]
<1> DEFINE n == Len(ranges)
           D == 1..n
           Lower(j) == {i \in D : Before(ranges, i, j)}
           r == [j \in D |-> Rank(ranges, j)]
<1>1. /\ n \in Nat /\ DOMAIN ranges = D
      /\ \A i \in D : ranges[i] \in AddressRange /\ ranges[i][1] \in Nat
  BY RangesAre
<1>2. IsFiniteSet(D) /\ Cardinality(D) = n
  <2>1. IsFiniteSet(D) /\ Cardinality(D) = IF 1 > n THEN 0 ELSE n - 1 + 1
    BY <1>1, FS_Interval
  <2> HIDE DEF n, D
  <2> QED
    BY <1>1, <2>1
<1>3. \A j \in D : Rank(ranges, j) = Cardinality(Lower(j))
  BY <1>1 DEF Rank
<1>4. D \subseteq Int
  BY <1>1
<1> HIDE DEF n
<1>5. \A j \in D : IsFiniteSet(Lower(j)) /\ Rank(ranges, j) \in D
  <2> TAKE j \in D
  <2> DEFINE L == Lower(j)
             q == Cardinality(L)
  <2>1. L \in SUBSET D /\ j \in L
    BY <1>1, <1>4 DEF Before
  <2> HIDE DEF L, D
  <2>2. IsFiniteSet(L) /\ q <= n
    BY <1>2, <2>1, FS_Subset
  <2>3. q \in Nat /\ q # 0
    BY <2>1, <2>2, FS_CardinalityType, FS_EmptySet
  <2> HIDE DEF q
  <2>4. q \in D
    BY <1>1, <2>2, <2>3 DEF D
  <2>5. Rank(ranges, j) = q
    BY <1>3 DEF q, L
  <2> QED
    BY <2>2, <2>4, <2>5 DEF L
<1>6. ASSUME NEW i \in D, NEW j \in D, i # j, Before(ranges, i, j)
      PROVE  Rank(ranges, i) < Rank(ranges, j)
  <2> DEFINE A == Lower(i)
             B == Lower(j)
  <2>1. A \in SUBSET B /\ j \in B /\ j \notin A
    <3>1. \A k \in D : Before(ranges, k, i) => Before(ranges, k, j)
      BY <1>1, <1>4, <1>6 DEF Before
    <3>2. Before(ranges, j, j) /\ ~Before(ranges, j, i)
      BY <1>1, <1>4, <1>6 DEF Before
    <3> QED
      BY <3>1, <3>2
  <2>2. IsFiniteSet(A) /\ IsFiniteSet(B) /\ Rank(ranges, i) = Cardinality(A) /\ Rank(ranges, j) = Cardinality(B)
    BY <1>3, <1>5
  <2> HIDE DEF A, B
  <2>3. Cardinality(A) <= Cardinality(B) /\ Cardinality(A) # Cardinality(B)
    BY <2>1, <2>2, FS_Subset
  <2>4. Cardinality(A) \in Nat /\ Cardinality(B) \in Nat
    BY <2>2, FS_CardinalityType
  <2> QED
    BY <2>2, <2>3, <2>4
<1>7. \A i, j \in D : i = j \/ Before(ranges, i, j) \/ Before(ranges, j, i)
  BY <1>1, <1>4 DEF Before
<1>8. \A i, j \in D : Rank(ranges, i) = Rank(ranges, j) => i = j
  <2>1. \A i \in D : Rank(ranges, i) \in Int
    BY <1>4, <1>5
  <2>2. \A i, j \in D : i # j /\ Before(ranges, i, j) => Rank(ranges, i) < Rank(ranges, j)
    BY <1>6
  <2> HIDE DEF D
  <2>3. \A i, j \in D : i # j /\ Before(ranges, i, j) => Rank(ranges, i) # Rank(ranges, j)
    BY <2>1, <2>2
  <2> QED
    BY <1>7, <2>3
<1>9. r \in Injection(D, D)
  BY <1>5, <1>8 DEF Injection, IsInjective
<1>10. r \in Surjection(D, D)
  <2> HIDE DEF r, D
  <2> QED
    BY <1>2, <1>9, FS_Injection
<1>11. \A k \in D : \E j \in D : Rank(ranges, j) = k
  <2>1. \A k \in D : \E j \in D : r[j] = k
    BY <1>10 DEF Surjection
  <2> QED
    BY <2>1
<1>12. ASSUME NEW i \in D, NEW j \in D, Rank(ranges, i) < Rank(ranges, j) PROVE ranges[i][1] <= ranges[j][1]
  <2> DEFINE a == Rank(ranges, i)
             b == Rank(ranges, j)
  <2>0. a \in Int /\ b \in Int /\ a < b
    BY <1>4, <1>5, <1>12
  <2> HIDE DEF a, b
  <2>1. i # j /\ ~(Rank(ranges, j) < Rank(ranges, i))
    BY <2>0 DEF a, b
  <2>2. ~Before(ranges, j, i)
    BY <1>6, <2>1
  <2>3. ~(ranges[j][1] < ranges[i][1])
    BY <2>2 DEF Before
  <2> QED
    BY <1>1, <2>3
<1> HIDE DEF D
<1> QED
  BY <1>5, <1>8, <1>11, <1>12 DEF D, n

LEMMA SortedIs ==
    ASSUME NEW ranges \in Seq(AddressRange)
    PROVE  /\ Sorted(ranges) \in Seq(AddressRange) /\ Len(Sorted(ranges)) = Len(ranges)
           /\ \A k \in 1..Len(ranges) : k > 1 => Sorted(ranges)[k - 1][1] <= Sorted(ranges)[k][1]
           /\ \A k \in 1..Len(ranges) : \E j \in 1..Len(ranges) : Sorted(ranges)[k] = ranges[j]
           /\ \A j \in 1..Len(ranges) : \E k \in 1..Len(ranges) : Sorted(ranges)[k] = ranges[j]
<1> DEFINE n == Len(ranges)
           D == 1..n
           ord == [k \in D |-> CHOOSE j \in D : Rank(ranges, j) = k]
<1>1. /\ n \in Nat /\ DOMAIN ranges = D /\ D \subseteq Int
      /\ \A i \in D : ranges[i] \in AddressRange /\ ranges[i][1] \in Nat
  BY RangesAre
<1>2. /\ \A j \in D : Rank(ranges, j) \in D
      /\ \A i, j \in D : Rank(ranges, i) = Rank(ranges, j) => i = j
      /\ \A k \in D : \E j \in D : Rank(ranges, j) = k
      /\ \A i, j \in D : Rank(ranges, i) < Rank(ranges, j) => ranges[i][1] <= ranges[j][1]
  BY RanksAre
<1>3. Sorted(ranges) = [k \in D |-> ranges[ord[k]]]
  BY <1>1 DEF Sorted
<1> HIDE DEF n
<1>4. \A k \in D : ord[k] \in D /\ Rank(ranges, ord[k]) = k
  BY <1>2
<1> HIDE DEF ord
<1>5. \A k \in D : Sorted(ranges)[k] = ranges[ord[k]]
  BY <1>3
<1>6. Sorted(ranges) \in Seq(AddressRange) /\ Len(Sorted(ranges)) = n
  <2>1. \A k \in 1..n : ranges[ord[k]] \in AddressRange
    BY <1>1, <1>4
  <2>2. Sorted(ranges) = [k \in 1..n |-> ranges[ord[k]]]
    BY <1>3
  <2> QED
    BY <1>1, <2>1, <2>2
<1>7. ASSUME NEW k \in D, k > 1 PROVE Sorted(ranges)[k - 1][1] <= Sorted(ranges)[k][1]
  <2>1. k - 1 \in D /\ k - 1 < k
    BY <1>1, <1>7
  <2>2. ord[k] \in D /\ ord[k - 1] \in D /\ Rank(ranges, ord[k - 1]) < Rank(ranges, ord[k])
    BY <1>4, <2>1
  <2> QED
    BY <1>2, <1>5, <2>1, <2>2
<1>8. ASSUME NEW j \in D PROVE \E k \in D : Sorted(ranges)[k] = ranges[j]
  <2>1. Rank(ranges, j) \in D /\ ord[Rank(ranges, j)] = j
    BY <1>2, <1>4
  <2> QED
    BY <1>5, <2>1
<1> QED
  BY <1>4, <1>5, <1>6, <1>7, <1>8 DEF n

\* The rules after the first k of the ranges s.
Upto(rules, s, k) ==
    /\ Apart(rules)
    /\ IF k = 0 THEN rules = <<>> ELSE rules # <<>> /\ Last(rules)[1] <= s[k][1]
    /\ \A a \in Nat : Inside(rules, a) <=> \E i \in 1..k : In(s[i], a)

LEMMA KeptStep ==
    ASSUME NEW s \in Seq(AddressRange), NEW k \in 1..Len(s), k > 1 => s[k - 1][1] <= s[k][1],
           NEW rules, Upto(rules, s, k - 1)
    PROVE  Upto(Kept(rules, s[k]), s, k)
<1> DEFINE n == Len(rules)
           r == s[k]
           new == Kept(rules, r)
           b == rules[n][1]
           e == rules[n][2]
<1>1. /\ rules \in Seq(AddressRange) /\ n \in Nat
      /\ \A i \in 1..n : rules[i] \in AddressRange /\ rules[i][1] \in Nat /\ rules[i][2] \in Nat
      /\ \A i \in 1..n : i > 1 => rules[i - 1][1] <= rules[i][1] /\ rules[i - 1][2] < rules[i][1]
  BY RangesAre DEF Upto, Apart
<1>2. r \in AddressRange /\ r[1] \in Nat /\ r[2] \in Nat /\ Len(s) \in Nat
  BY RangesAre
<1>3. /\ n = 0 <=> rules = <<>>
      /\ n # 0 => n \in 1..n /\ b \in Nat /\ e \in Nat /\ b <= r[1]
  <2>1. n = 0 <=> rules = <<>>
    BY <1>1, EmptySeq
  <2>2. ASSUME n # 0 PROVE n \in 1..n /\ b \in Nat /\ e \in Nat /\ b <= r[1]
    <3>1. n \in 1..n
      BY <1>1, <2>2
    <3>2. b \in Nat /\ e \in Nat
      BY <1>1, <3>1
    <3>3. Last(rules) = rules[n]
      BY DEF Last
    <3>4. k - 1 # 0 /\ k \in Nat
      BY <2>1, <2>2, <1>2 DEF Upto
    <3>5. b <= s[k - 1][1]
      BY <3>3, <3>4, <2>1, <2>2 DEF Upto
    <3>6. k - 1 \in 1..Len(s) /\ k > 1
      BY <1>2, <3>4
    <3>7. s[k - 1][1] \in Nat /\ s[k - 1][1] <= s[k][1]
      BY <3>6, RangesAre
    <3> QED
      BY <1>2, <3>1, <3>2, <3>5, <3>7
  <2> QED
    BY <2>1, <2>2
<1>4. \A a \in Nat : (\E i \in 1..k : In(s[i], a)) <=> Inside(rules, a) \/ In(r, a)
  <2> TAKE a \in Nat
  <2>1. Inside(rules, a) <=> \E i \in 1..(k - 1) : In(s[i], a)
    BY DEF Upto
  <2>2. \A i : i \in 1..k <=> i \in 1..(k - 1) \/ i = k
    BY <1>2
  <2> QED
    BY <2>1, <2>2
<1>5. k \in Nat /\ k # 0
  BY <1>2
<1>6. Last(rules) = rules[n]
  BY DEF Last
<1>7. SUFFICES /\ Apart(new) /\ new # <<>> /\ Last(new)[1] <= r[1]
               /\ \A a \in Nat : Inside(new, a) <=> Inside(rules, a) \/ In(r, a)
  <2> HIDE DEF new, r
  <2> QED
    BY <1>4, <1>5, <1>7 DEF Upto, new, r
<1> HIDE DEF n, r
<1>8. CASE rules = <<>> \/ e < r[1]
  <2>1. new = Append(rules, r)
    BY <1>6, <1>8 DEF Kept
  <2>2. /\ new \in Seq(AddressRange) /\ Len(new) = n + 1
        /\ \A i \in 1..n : new[i] = rules[i]
        /\ new[n + 1] = r
    BY <1>1, <1>2, <2>1, AppendProperties DEF n
  <2>3. Last(new) = r /\ new # <<>>
    BY <1>1, <2>2, EmptySeq DEF Last
  <2> HIDE DEF new
  <2>4. Apart(new)
    <3> SUFFICES ASSUME NEW i \in 1..(n + 1), i > 1
                 PROVE  new[i - 1][1] <= new[i][1] /\ new[i - 1][2] < new[i][1]
      BY <2>2 DEF Apart
    <3>1. CASE i = n + 1
      <4>1. n # 0 /\ i - 1 = n /\ n \in 1..n
        <5>1. n \in Nat
          BY <1>1
        <5> HIDE DEF b, e
        <5> QED
          BY <3>1, <5>1
      <4>2. new[i - 1] = rules[n] /\ new[i] = r
        BY <2>2, <3>1, <4>1
      <4> QED
        BY <1>3, <1>8, <4>1, <4>2
    <3>2. CASE i # n + 1
      <4>1. i \in 1..n /\ i - 1 \in 1..n
        BY <1>1, <3>2
      <4> QED
        BY <1>1, <2>2, <4>1
    <3> QED
      BY <3>1, <3>2
  <2>5. ASSUME NEW a \in Nat PROVE Inside(new, a) <=> Inside(rules, a) \/ In(r, a)
    <3>1. \A i : i \in 1..(n + 1) <=> i \in 1..n \/ i = n + 1
      BY <1>1
    <3> QED
      BY <2>2, <3>1 DEF Inside, n
  <2>6. r[1] <= r[1]
    BY <1>2
  <2> QED
    BY <2>3, <2>4, <2>5, <2>6
<1>9. CASE rules # <<>> /\ ~(e < r[1]) /\ e < r[2]
  <2>1. new = [rules EXCEPT ![n] = <<b, r[2]>>]
    BY <1>6, <1>9 DEF Kept, n
  <2>2. n \in 1..n /\ b \in Nat /\ e \in Nat /\ b <= r[1]
    BY <1>3, <1>9
  <2>3. /\ new \in Seq(AddressRange) /\ Len(new) = n
        /\ \A i \in 1..n : i # n => new[i] = rules[i]
        /\ new[n] = <<b, r[2]>>
    <3>1. rules \in [1..n -> AddressRange] /\ <<b, r[2]>> \in AddressRange
      BY <1>1, <1>2, <2>2, SMTT(40) DEF AddressRange, n
    <3>2. new \in [1..n -> AddressRange]
      BY <2>1, <3>1
    <3> QED
      BY <1>1, <2>1, <2>2, <3>1, <3>2
  <2>4. Last(new) = <<b, r[2]>> /\ new # <<>>
    BY <2>2, <2>3, EmptySeq DEF Last
  <2> HIDE DEF new
  <2>5. Apart(new)
    <3> SUFFICES ASSUME NEW i \in 1..n, i > 1
                 PROVE  new[i - 1][1] <= new[i][1] /\ new[i - 1][2] < new[i][1]
      BY <2>3 DEF Apart
    <3>1. i - 1 \in 1..n /\ i - 1 # n
      BY <1>1
    <3>2. new[i - 1] = rules[i - 1] /\ new[i][1] = rules[i][1]
      BY <2>3, <3>1
    <3> QED
      BY <1>1, <3>2
  <2>6. ASSUME NEW a \in Nat PROVE Inside(new, a) <=> Inside(rules, a) \/ In(r, a)
    <3>1. In(new[n], a) <=> In(rules[n], a) \/ In(r, a)
      BY <1>2, <1>9, <2>2, <2>3 DEF In
    <3>2. Inside(new, a) <=> \E i \in 1..n : In(new[i], a)
      BY <2>3 DEF Inside
    <3>3. Inside(rules, a) <=> \E i \in 1..n : In(rules[i], a)
      BY DEF Inside, n
    <3> QED
      BY <2>2, <2>3, <3>1, <3>2, <3>3
  <2> QED
    BY <2>2, <2>4, <2>5, <2>6
<1>10. CASE rules # <<>> /\ ~(e < r[1]) /\ ~(e < r[2])
  <2>1. new = rules
    BY <1>6, <1>10 DEF Kept
  <2>2. n \in 1..n /\ b \in Nat /\ e \in Nat /\ b <= r[1]
    BY <1>3, <1>10
  <2>3. ASSUME NEW a \in Nat PROVE In(r, a) => Inside(rules, a)
    <3>1. In(r, a) => In(rules[n], a)
      BY <1>2, <1>10, <2>2 DEF In
    <3> QED
      BY <2>2, <3>1 DEF Inside, n
  <2> QED
    BY <1>6, <1>10, <2>1, <2>2, <2>3 DEF Upto
<1> QED
  BY <1>8, <1>9, <1>10

\* _tr_blocklistSetContent: apart, and no address more or less.
LEMMA MergedIs ==
    ASSUME NEW ranges \in Seq(AddressRange)
    PROVE  Apart(Merged(ranges)) /\ \A a \in Nat : Inside(Merged(ranges), a) <=> Inside(ranges, a)
<1> DEFINE n == Len(ranges)
           s == Sorted(ranges)
           X == [k \in 0..n |-> {rules \in Seq(AddressRange) : Upto(rules, s, k)}]
           F == [k \in 1..n |-> [x \in Seq(AddressRange) |-> Kept(x, s[k])]]
           Loop(f) == f = [k \in 0..n |-> IF k = 0 THEN <<>> ELSE Kept(f[k - 1], s[k])]
           g == CHOOSE f : Loop(f)
<1>1. /\ n \in Nat /\ s \in Seq(AddressRange) /\ Len(s) = n
      /\ \A k \in 1..n : k > 1 => s[k - 1][1] <= s[k][1]
      /\ \A k \in 1..n : \E j \in 1..n : s[k] = ranges[j]
      /\ \A j \in 1..n : \E k \in 1..n : s[k] = ranges[j]
  BY SortedIs, RangesAre
<1>2. Merged(ranges) = g[n]
  BY DEF Merged
<1>3. \A a \in Nat : Inside(ranges, a) <=> \E i \in 1..n : In(s[i], a)
  <2> TAKE a \in Nat
  <2> HIDE DEF s
  <2> QED
    BY <1>1 DEF Inside
<1> HIDE DEF n, s
<1>4. \A k \in 0..n : \A x : x \in X[k] <=> x \in Seq(AddressRange) /\ Upto(x, s, k)
  OBVIOUS
<1>5. \A k \in 1..n : \A x \in Seq(AddressRange) : F[k][x] = Kept(x, s[k])
  OBVIOUS
<1>6. 0 \in 0..n /\ n \in 0..n /\ \A k \in 1..n : k - 1 \in 0..n /\ k \in 0..n
  BY <1>1
<1>7. ASSUME NEW k \in 1..n, NEW x \in Seq(AddressRange), Upto(x, s, k - 1)
      PROVE  Kept(x, s[k]) \in Seq(AddressRange) /\ Upto(Kept(x, s[k]), s, k)
  <2>1. Upto(Kept(x, s[k]), s, k)
    BY <1>1, <1>7, KeptStep
  <2> QED
    BY <2>1 DEF Upto, Apart
<1>8. <<>> \in Seq(AddressRange) /\ Upto(<<>>, s, 0)
  <2>1. /\ <<>> \in Seq(AddressRange) /\ Len(<<>>) = 0 /\ 1..0 = {}
    OBVIOUS
  <2> QED
    BY <2>1 DEF Upto, Apart, Inside
<1> HIDE DEF X, F
<1>9. <<>> \in X[0]
  BY <1>4, <1>6, <1>8
<1>10. \E f : Loop(f)
  <2>1. ASSUME NEW k \in 1..n, NEW x \in X[k - 1] PROVE F[k][x] \in X[k]
    <3>1. k - 1 \in 0..n /\ k \in 0..n
      BY <1>6
    <3>2. x \in Seq(AddressRange) /\ Upto(x, s, k - 1)
      BY <1>4, <3>1
    <3>3. Kept(x, s[k]) \in Seq(AddressRange) /\ Upto(Kept(x, s[k]), s, k)
      BY <1>7, <3>2
    <3> QED
      BY <1>4, <1>5, <3>1, <3>2, <3>3
  <2>2. PICK f : IsLoop(f, n, <<>>, F) /\ \A k \in 0..n : f[k] \in X[k]
    BY <1>1, <1>9, <2>1, StepsExist
  <2>3. ASSUME NEW k \in 0..n PROVE (IF k = 0 THEN <<>> ELSE F[k][f[k - 1]]) = IF k = 0 THEN <<>> ELSE Kept(f[k - 1], s[k])
    <3>1. CASE k # 0
      <4>1. k \in 1..n /\ k - 1 \in 0..n
        BY <1>1, <3>1
      <4>2. f[k - 1] \in Seq(AddressRange)
        BY <1>4, <2>2, <4>1
      <4> QED
        BY <1>5, <4>1, <4>2
    <3> QED
      BY <3>1
  <2>4. f = [k \in 0..n |-> IF k = 0 THEN <<>> ELSE Kept(f[k - 1], s[k])]
    BY <2>2, <2>3 DEF IsLoop
  <2> QED
    BY <2>4
<1>11. Loop(g)
  BY <1>10
<1> HIDE DEF g
<1>12. g[0] = <<>> /\ \A k \in 1..n : g[k] = Kept(g[k - 1], s[k])
  <2>1. 0 \in 0..n /\ \A k \in 1..n : k \in 0..n /\ k # 0
    BY <1>1
  <2>2. \A k \in 0..n : g[k] = IF k = 0 THEN <<>> ELSE Kept(g[k - 1], s[k])
    BY <1>11
  <2> QED
    BY <2>1, <2>2
<1>13. \A k \in 0..n : g[k] \in X[k]
  <2>1. ASSUME NEW k \in 1..n, g[k - 1] \in X[k - 1] PROVE g[k] \in X[k]
    <3>1. k - 1 \in 0..n /\ k \in 0..n
      BY <1>6
    <3>2. g[k - 1] \in Seq(AddressRange) /\ Upto(g[k - 1], s, k - 1)
      BY <1>4, <2>1, <3>1
    <3>3. Kept(g[k - 1], s[k]) \in Seq(AddressRange) /\ Upto(Kept(g[k - 1], s[k]), s, k)
      BY <1>7, <3>2
    <3> QED
      BY <1>4, <1>12, <3>1, <3>3
  <2>2. g[0] \in X[0]
    BY <1>9, <1>12
  <2> QED
    BY <1>1, <2>1, <2>2, StepsReach
<1>14. Upto(g[n], s, n)
  BY <1>4, <1>6, <1>13
<1> QED
  BY <1>2, <1>3, <1>14 DEF Upto

-----------------------------------------------------------------------------
(* What a file or a mapped list holds                                      *)

Files == [there : BOOLEAN, ranges : Seq(AddressRange)]
Lists == [name : ListNames, on : BOOLEAN, rules : Files]
\* Rules that are apart and have exactly the addresses of S.
HasExactly(file, S) == Apart(file.ranges) /\ \A a \in Addresses : Inside(file.ranges, a) <=> a \in S
\* Who is to be blocked now.
Forbidden(a) == listsOn /\ \E i \in 1..Len(lists) : a \in meant[lists[i].name]

ListTypes ==
    /\ lists \in Seq(Lists) /\ binary \in [ListNames -> Files] /\ texts \in [ListNames -> Files]
    /\ listsOn \in BOOLEAN /\ settled \in BOOLEAN
    /\ verdict \in [Addresses -> {Unknown, 0, 1}] /\ meant \in [ListNames -> SUBSET Addresses]
FilesHold == \A n \in ListNames : HasExactly(binary[n], meant[n])
ListsHold == \A i \in 1..Len(lists) :
    /\ lists[i].on = listsOn
    /\ lists[i].rules.there => HasExactly(lists[i].rules, meant[lists[i].name])
DefaultOnce ==
    /\ ~texts[DefaultList].there
    /\ \A i, j \in 1..Len(lists) : lists[i].name = DefaultList /\ lists[j].name = DefaultList => i = j
VerdictsMeant == settled => \A a \in Addresses : verdict[a] # Unknown => (verdict[a] = 1 <=> Forbidden(a))
ListIInv == ListTypes /\ FilesHold /\ ListsHold /\ DefaultOnce /\ VerdictsMeant

LEMMA FileHolds ==
    ASSUME NEW text \in Seq(AddressRange)
    PROVE  File(Merged(text)) \in Files /\ HasExactly(File(Merged(text)), CoveredBy(text))
<1>1. Apart(Merged(text)) /\ \A a \in Nat : Inside(Merged(text), a) <=> Inside(text, a)
  BY MergedIs
<1>2. \A a \in Addresses : a \in Nat
  BY BlocklistAssumption
<1>3. \A a \in Addresses : Inside(text, a) <=> a \in CoveredBy(text)
  BY RangesAre DEF Inside, In, CoveredBy
<1>4. File(Merged(text)).ranges = Merged(text) /\ File(Merged(text)) \in Files
  BY <1>1 DEF File, Files, Apart
<1> QED
  BY <1>1, <1>2, <1>3, <1>4 DEF HasExactly

LEMMA NothingHeld == NoFile \in Files /\ ~NoFile.there /\ HasExactly(NoFile, {})
<1>1. <<>> \in Seq(AddressRange) /\ Len(<<>>) = 0 /\ 1..0 = {}
  OBVIOUS
<1> QED
  BY <1>1 DEF NoFile, Files, HasExactly, Apart, Inside

LEMMA ListsAre ==
    ASSUME NEW s \in Seq(Lists)
    PROVE  /\ Len(s) \in Nat /\ DOMAIN s = 1..Len(s)
           /\ \A i \in 1..Len(s) : s[i] \in Lists
BY LenProperties

\* The rules of a list, in memory or still in its file (blocklistEnsureLoaded).
LEMMA LoadedHolds ==
    ASSUME ListTypes, FilesHold, ListsHold, NEW i \in 1..Len(lists)
    PROVE  /\ Loaded(lists[i]) \in Lists
           /\ Loaded(lists[i]).name = lists[i].name /\ Loaded(lists[i]).on = lists[i].on
           /\ HasExactly(Loaded(lists[i]).rules, meant[lists[i].name])
<1> DEFINE b == lists[i]
<1>1. b \in Lists
  BY ListsAre DEF ListTypes
<1>2. b.name \in ListNames /\ b.rules \in Files /\ binary[b.name] \in Files
  BY <1>1 DEF Lists, ListTypes
<1>3. HasExactly(binary[b.name], meant[b.name]) /\ (b.rules.there => HasExactly(b.rules, meant[b.name]))
  BY <1>2 DEF FilesHold, ListsHold
<1> SUFFICES /\ Loaded(b) \in Lists /\ Loaded(b).name = b.name /\ Loaded(b).on = b.on
             /\ HasExactly(Loaded(b).rules, meant[b.name])
  OBVIOUS
<1> HIDE DEF b
<1>4. CASE b.rules.there
  BY <1>1, <1>3, <1>4 DEF Loaded
<1>5. CASE ~b.rules.there
  <2>1. Loaded(b) = [b EXCEPT !.rules = binary[b.name]]
    BY <1>5 DEF Loaded
  <2>2. /\ Loaded(b) \in Lists /\ Loaded(b).name = b.name /\ Loaded(b).on = b.on
        /\ Loaded(b).rules = binary[b.name]
    BY <1>1, <1>2, <2>1 DEF Lists
  <2> QED
    BY <1>3, <2>2
<1> QED
  BY <1>4, <1>5

LEMMA BlockedIs ==
    ASSUME ListTypes, FilesHold, ListsHold, NEW a \in Addresses
    PROVE  Blocked(a) <=> Forbidden(a)
<1>1. a \in Nat
  BY BlocklistAssumption
<1>2. ASSUME NEW i \in 1..Len(lists)
      PROVE  HasAddress(lists[i], a) <=> listsOn /\ a \in meant[lists[i].name]
  <2>1. HasExactly(Loaded(lists[i]).rules, meant[lists[i].name])
    BY LoadedHolds
  <2>2. FoundIn(Rules(lists[i]), a) <=> Inside(Rules(lists[i]), a)
    BY <1>1, <2>1, Bisection DEF HasExactly, Rules
  <2>3. lists[i].on = listsOn /\ lists[i].on \in BOOLEAN
    BY ListsAre DEF ListsHold, ListTypes, Lists
  <2> QED
    BY <2>1, <2>2, <2>3 DEF HasAddress, HasExactly, Rules
<1>3. DOMAIN lists = 1..Len(lists)
  BY ListsAre DEF ListTypes
<1> QED
  BY <1>2, <1>3 DEF Blocked, Forbidden

LEMMA ListIInvSound == ListIInv => BlocklistSound
<1> SUFFICES ASSUME ListIInv PROVE BlocklistSound
  OBVIOUS
<1>1. DOMAIN lists = 1..Len(lists)
  BY ListsAre DEF ListIInv, ListTypes
<1>2. \A a \in Addresses : Blocked(a) <=> Forbidden(a)
  BY BlockedIs DEF ListIInv
<1>3. BlocksWhatIsMeant
  BY <1>1, <1>2 DEF BlocksWhatIsMeant, Forbidden
<1>4. RulesApart
  <2> SUFFICES ASSUME NEW i \in 1..Len(lists), NEW k \in 2..Len(Rules(lists[i]))
               PROVE  Rules(lists[i])[k - 1][2] < Rules(lists[i])[k][1]
    BY <1>1 DEF RulesApart
  <2>1. Apart(Rules(lists[i]))
    BY LoadedHolds DEF ListIInv, HasExactly, Rules
  <2>2. k \in 1..Len(Rules(lists[i])) /\ k > 1
    BY <2>1, RangesAre DEF Apart
  <2> QED
    BY <2>1, <2>2 DEF Apart
<1>5. VerdictsRight
  BY <1>2 DEF ListIInv, VerdictsMeant, VerdictsRight
<1> QED
  BY <1>3, <1>4, <1>5 DEF BlocklistSound

-----------------------------------------------------------------------------
(* The steps                                                               *)

LEMMA RefreshKeeps ==
    ASSUME ListTypes, FilesHold, ListsHold, NEW L, L = [i \in DOMAIN lists |-> L[i]],
           \A i \in 1..Len(lists) : L[i] = lists[i] \/ L[i] = Loaded(lists[i])
    PROVE  /\ L \in Seq(Lists) /\ Len(L) = Len(lists)
           /\ \A i \in 1..Len(lists) : /\ L[i].name = lists[i].name /\ L[i].on = listsOn
                                       /\ L[i].rules.there => HasExactly(L[i].rules, meant[lists[i].name])
<1>1. /\ Len(lists) \in Nat /\ DOMAIN lists = 1..Len(lists)
      /\ \A i \in 1..Len(lists) : lists[i] \in Lists
  BY ListsAre DEF ListTypes
<1>2. ASSUME NEW i \in 1..Len(lists)
      PROVE  /\ L[i] \in Lists /\ L[i].name = lists[i].name /\ L[i].on = listsOn
             /\ L[i].rules.there => HasExactly(L[i].rules, meant[lists[i].name])
  <2>1. lists[i].on = listsOn /\ (lists[i].rules.there => HasExactly(lists[i].rules, meant[lists[i].name]))
    BY DEF ListsHold
  <2>2. CASE L[i] = lists[i]
    BY <1>1, <2>1, <2>2
  <2>3. CASE L[i] = Loaded(lists[i])
    BY <2>1, <2>3, LoadedHolds
  <2> QED
    BY <2>2, <2>3
<1>3. L \in Seq(Lists) /\ Len(L) = Len(lists)
  <2> DEFINE n == Len(lists)
  <2>1. n \in Nat /\ L = [i \in 1..n |-> L[i]] /\ \A i \in 1..n : L[i] \in Lists
    BY <1>1, <1>2
  <2> HIDE DEF n
  <2>2. L \in Seq(Lists) /\ Len(L) = n
    BY <2>1
  <2> QED
    BY <2>2 DEF n
<1> QED
  BY <1>2, <1>3

\* Who is to be blocked depends on which lists are in use, not on what is mapped.
LEMMA RefreshStep ==
    ASSUME ListIInv, lists' = [i \in DOMAIN lists |-> lists'[i]],
           \A i \in 1..Len(lists) : lists'[i] = lists[i] \/ lists'[i] = Loaded(lists[i]),
           UNCHANGED <<binary, texts, listsOn, meant, settled>>
    PROVE  /\ lists' \in Seq(Lists) /\ FilesHold' /\ ListsHold' /\ DefaultOnce'
           /\ \A a \in Addresses : Forbidden(a)' <=> Forbidden(a)
<1>1. /\ lists' \in Seq(Lists) /\ Len(lists') = Len(lists)
      /\ \A i \in 1..Len(lists) : /\ lists'[i].name = lists[i].name /\ lists'[i].on = listsOn
                                  /\ lists'[i].rules.there => HasExactly(lists'[i].rules, meant[lists[i].name])
  <2> DEFINE L == lists'
  <2>1. ListTypes /\ FilesHold /\ ListsHold
    BY DEF ListIInv
  <2>2. L = [i \in DOMAIN lists |-> L[i]] /\ \A i \in 1..Len(lists) : L[i] = lists[i] \/ L[i] = Loaded(lists[i])
    OBVIOUS
  <2> HIDE DEF L
  <2>3. /\ L \in Seq(Lists) /\ Len(L) = Len(lists)
        /\ \A i \in 1..Len(lists) : /\ L[i].name = lists[i].name /\ L[i].on = listsOn
                                    /\ L[i].rules.there => HasExactly(L[i].rules, meant[lists[i].name])
    BY ONLY <2>1, <2>2, RefreshKeeps
  <2> QED
    BY <2>3 DEF L
<1>2. FilesHold'
  BY DEF ListIInv, FilesHold, HasExactly
<1>3. ListsHold'
  <2> SUFFICES ASSUME NEW i \in 1..Len(lists')
               PROVE  /\ lists'[i].on = listsOn'
                      /\ lists'[i].rules.there => HasExactly(lists'[i].rules, meant'[lists'[i].name])
    BY DEF ListsHold, HasExactly
  <2> QED
    BY <1>1
<1>4. DefaultOnce'
  BY <1>1 DEF ListIInv, DefaultOnce
<1>5. \A a \in Addresses : Forbidden(a)' <=> Forbidden(a)
  BY <1>1 DEF Forbidden
<1> QED
  BY <1>1, <1>2, <1>3, <1>4, <1>5

LEMMA InitListIInv == BlocklistInit => ListIInv
<1> SUFFICES ASSUME BlocklistInit PROVE ListIInv
  OBVIOUS
<1>1. lists = <<>> /\ Len(lists) = 0 /\ 1..0 = {} /\ lists \in Seq(Lists)
  BY DEF BlocklistInit
<1>2. ListTypes
  BY <1>1, NothingHeld DEF BlocklistInit, ListTypes
<1>3. FilesHold
  BY NothingHeld DEF BlocklistInit, FilesHold
<1>4. ListsHold /\ DefaultOnce
  BY <1>1, NothingHeld, BlocklistAssumption DEF BlocklistInit, ListsHold, DefaultOnce
<1>5. VerdictsMeant
  BY DEF BlocklistInit, VerdictsMeant
<1> QED
  BY <1>2, <1>3, <1>4, <1>5 DEF ListIInv

LEMMA AsksVerdictKeeps == ASSUME ListIInv, NEW a \in Addresses, AsksVerdict(a) PROVE ListIInv'
<1>1. DOMAIN lists = 1..Len(lists)
  BY ListsAre DEF ListIInv, ListTypes
<1>2. lists' = LoadedFor(a) /\ UNCHANGED <<binary, texts, listsOn, meant, settled>>
  BY DEF AsksVerdict
<1>3. /\ lists' = [i \in DOMAIN lists |-> lists'[i]]
      /\ \A i \in 1..Len(lists) : lists'[i] = lists[i] \/ lists'[i] = Loaded(lists[i])
  BY <1>1, <1>2 DEF LoadedFor
<1>4. /\ lists' \in Seq(Lists) /\ FilesHold' /\ ListsHold' /\ DefaultOnce'
      /\ \A b \in Addresses : Forbidden(b)' <=> Forbidden(b)
  BY <1>2, <1>3, RefreshStep
<1>5. verdict' = [verdict EXCEPT ![a] = IF Blocked(a) THEN 1 ELSE 0]
  BY DEF AsksVerdict
<1>6. ListTypes'
  BY <1>2, <1>4, <1>5 DEF ListIInv, ListTypes
<1>7. VerdictsMeant'
  <2> SUFFICES ASSUME settled, NEW b \in Addresses, verdict'[b] # Unknown
               PROVE  verdict'[b] = 1 <=> Forbidden(b)'
    BY <1>2 DEF VerdictsMeant
  <2>1. Forbidden(b)' <=> Forbidden(b)
    BY <1>4
  <2>2. CASE b = a
    <3>1. verdict'[b] = 1 <=> Blocked(a)
      BY <1>5, <2>2 DEF ListIInv, ListTypes
    <3>2. Blocked(a) <=> Forbidden(a)
      BY BlockedIs DEF ListIInv
    <3> QED
      BY <2>1, <2>2, <3>1, <3>2
  <2>3. CASE b # a
    <3>1. verdict'[b] = verdict[b]
      BY <1>5, <2>3 DEF ListIInv, ListTypes
    <3> QED
      BY <2>1, <3>1 DEF ListIInv, VerdictsMeant
  <2> QED
    BY <2>2, <2>3
<1> QED
  BY <1>4, <1>6, <1>7 DEF ListIInv

LEMMA CountsRulesKeeps == ASSUME ListIInv, CountsRules PROVE ListIInv'
<1>1. DOMAIN lists = 1..Len(lists)
  BY ListsAre DEF ListIInv, ListTypes
<1>2. /\ lists' = [i \in DOMAIN lists |-> Loaded(lists[i])]
      /\ UNCHANGED <<binary, texts, listsOn, verdict, meant, settled>>
  BY DEF CountsRules
<1>3. /\ lists' = [i \in DOMAIN lists |-> lists'[i]]
      /\ \A i \in 1..Len(lists) : lists'[i] = lists[i] \/ lists'[i] = Loaded(lists[i])
  BY <1>1, <1>2
<1>4. /\ lists' \in Seq(Lists) /\ FilesHold' /\ ListsHold' /\ DefaultOnce'
      /\ \A b \in Addresses : Forbidden(b)' <=> Forbidden(b)
  BY <1>2, <1>3, RefreshStep
<1> QED
  BY <1>2, <1>4 DEF ListIInv, ListTypes, VerdictsMeant

LEMMA SetEnabledKeeps == ASSUME ListIInv, NEW on \in BOOLEAN, SetBlocklistEnabled(on) PROVE ListIInv'
<1>1. /\ Len(lists) \in Nat /\ DOMAIN lists = 1..Len(lists)
      /\ \A i \in 1..Len(lists) : lists[i] \in Lists
  BY ListsAre DEF ListIInv, ListTypes
<1>2. /\ lists' = [i \in DOMAIN lists |-> [lists[i] EXCEPT !.on = on]]
      /\ listsOn' = on /\ settled' = FALSE /\ UNCHANGED <<binary, texts, verdict, meant>>
  BY DEF SetBlocklistEnabled
<1>3. /\ lists' \in Seq(Lists) /\ Len(lists') = Len(lists)
      /\ \A i \in 1..Len(lists) : /\ lists'[i].name = lists[i].name /\ lists'[i].on = on
                                  /\ lists'[i].rules = lists[i].rules
  <2> DEFINE n == Len(lists)
  <2>1. lists' = [i \in 1..n |-> [lists[i] EXCEPT !.on = on]]
    BY <1>1, <1>2
  <2>2. \A i \in 1..n : [lists[i] EXCEPT !.on = on] \in Lists
    BY <1>1 DEF Lists
  <2>3. \A i \in 1..n : /\ [lists[i] EXCEPT !.on = on].name = lists[i].name
                        /\ [lists[i] EXCEPT !.on = on].on = on
                        /\ [lists[i] EXCEPT !.on = on].rules = lists[i].rules
    BY <1>1 DEF Lists
  <2> HIDE DEF n
  <2>4. lists' \in Seq(Lists) /\ Len(lists') = n
    BY <1>1, <2>1, <2>2 DEF n
  <2>5. \A i \in 1..n : lists'[i] = [lists[i] EXCEPT !.on = on]
    BY <2>1
  <2> QED
    BY <2>3, <2>4, <2>5 DEF n
<1>4. ListTypes' /\ FilesHold'
  BY <1>2, <1>3 DEF ListIInv, ListTypes, FilesHold, HasExactly
<1>5. ListsHold'
  <2> SUFFICES ASSUME NEW i \in 1..Len(lists)
               PROVE  /\ lists'[i].on = listsOn'
                      /\ lists'[i].rules.there => HasExactly(lists'[i].rules, meant[lists'[i].name])
    BY <1>2, <1>3 DEF ListsHold, HasExactly
  <2> QED
    BY <1>2, <1>3 DEF ListIInv, ListsHold
<1>6. DefaultOnce' /\ VerdictsMeant'
  BY <1>2, <1>3 DEF ListIInv, DefaultOnce, VerdictsMeant
<1> QED
  BY <1>4, <1>5, <1>6 DEF ListIInv

LEMMA TextsAre == \A text \in SomeTexts : text \in Seq(AddressRange)
<1>1. \A r \in TextRanges : r \in AddressRange
  BY BlocklistAssumption DEF AddressRange
<1>2. <<>> \in Seq(AddressRange)
  OBVIOUS
<1>3. \A r \in AddressRange : <<r>> \in Seq(AddressRange)
  OBVIOUS
<1>4. \A r, s \in AddressRange : <<r, s>> \in Seq(AddressRange)
  OBVIOUS
<1> TAKE text \in SomeTexts
<1>5. text = <<>> \/ (\E r \in TextRanges : text = <<r>>) \/ (\E r, s \in TextRanges : text = <<r, s>>)
  BY DEF SomeTexts
<1> QED
  BY <1>1, <1>2, <1>3, <1>4, <1>5

LEMMA UserAddsTextKeeps ==
    ASSUME ListIInv, NEW name \in ListNames, NEW text \in SomeTexts, UserAddsText(name, text) PROVE ListIInv'
<1>1. /\ name # DefaultList /\ texts' = [texts EXCEPT ![name] = File(text)]
      /\ UNCHANGED <<lists, binary, listsOn, verdict, meant, settled>>
  BY DEF UserAddsText
<1>2. File(text) \in Files
  BY TextsAre DEF File, Files
<1>3. texts' \in [ListNames -> Files] /\ texts'[DefaultList] = texts[DefaultList]
  BY <1>1, <1>2, BlocklistAssumption DEF ListIInv, ListTypes
<1>4. ListTypes'
  BY <1>1, <1>3 DEF ListIInv, ListTypes
<1>5. FilesHold' /\ ListsHold' /\ DefaultOnce' /\ VerdictsMeant'
  BY <1>1, <1>3 DEF ListIInv, FilesHold, ListsHold, HasExactly, DefaultOnce, VerdictsMeant, Forbidden
<1> QED
  BY <1>4, <1>5 DEF ListIInv

\* With the list that is downloaded, which is added if it is not there.
LEMMA AllLists ==
    ASSUME ListIInv, NEW all,
           \/ all = lists /\ \E i \in DOMAIN lists : lists[i].name = DefaultList
           \/ all = Append(lists, NewList(DefaultList)) /\ ~\E i \in DOMAIN lists : lists[i].name = DefaultList
    PROVE  /\ all \in Seq(Lists) /\ Len(all) \in Nat /\ DOMAIN all = 1..Len(all)
           /\ \A i \in 1..Len(all) : /\ all[i] \in Lists /\ all[i].on = listsOn
                                     /\ all[i].rules.there => HasExactly(all[i].rules, meant[all[i].name])
           /\ \E i \in 1..Len(all) : all[i].name = DefaultList
           /\ \A i, j \in 1..Len(all) : all[i].name = DefaultList /\ all[j].name = DefaultList => i = j
<1>1. /\ lists \in Seq(Lists) /\ Len(lists) \in Nat /\ DOMAIN lists = 1..Len(lists)
      /\ \A i \in 1..Len(lists) : lists[i] \in Lists
  BY ListsAre DEF ListIInv, ListTypes
<1>2. CASE all = lists /\ \E i \in DOMAIN lists : lists[i].name = DefaultList
  BY <1>1, <1>2 DEF ListIInv, ListsHold, DefaultOnce
<1>3. CASE all = Append(lists, NewList(DefaultList)) /\ ~\E i \in DOMAIN lists : lists[i].name = DefaultList
  <2> DEFINE n == Len(lists)
             new == NewList(DefaultList)
  <2>1. new \in Lists /\ new.name = DefaultList /\ new.on = listsOn /\ ~new.rules.there
    BY NothingHeld, BlocklistAssumption DEF NewList, NotMapped, Lists, ListIInv, ListTypes
  <2> HIDE DEF new
  <2>2. /\ all \in Seq(Lists) /\ Len(all) = n + 1
        /\ \A i \in 1..n : all[i] = lists[i]
        /\ all[n + 1] = new
    <3>1. all = Append(lists, new)
      BY <1>3 DEF new
    <3>2. lists \in Seq(Lists) /\ new \in Lists
      BY <1>1, <2>1
    <3> QED
      BY ONLY <3>1, <3>2, AppendProperties
  <2>3. n \in Nat /\ \A i : i \in 1..(n + 1) <=> i \in 1..n \/ i = n + 1
    BY <1>1
  <2>4. \A i \in 1..n : /\ lists[i] \in Lists /\ lists[i].on = listsOn /\ lists[i].name # DefaultList
                        /\ lists[i].rules.there => HasExactly(lists[i].rules, meant[lists[i].name])
    BY <1>1, <1>3 DEF ListIInv, ListsHold
  <2>5. DOMAIN all = 1..Len(all) /\ Len(all) \in Nat
    BY <2>2, ListsAre
  <2> HIDE DEF n
  <2>6. \A i \in 1..(n + 1) : /\ all[i] \in Lists /\ all[i].on = listsOn
                              /\ all[i].rules.there => HasExactly(all[i].rules, meant[all[i].name])
    BY <2>1, <2>2, <2>3, <2>4
  <2>7. \A i \in 1..(n + 1) : all[i].name = DefaultList <=> i = n + 1
    BY <2>1, <2>2, <2>3, <2>4
  <2> QED
    BY <2>2, <2>3, <2>5, <2>6, <2>7
<1> QED
  BY <1>2, <1>3

LEMMA SetContentKeeps ==
    ASSUME ListIInv, NEW text \in SomeTexts, NEW how \in {"unreadable", "unwritable", "done"}, SetContent(text, how)
    PROVE  ListIInv'
<1> DEFINE have == {i \in DOMAIN lists : lists[i].name = DefaultList}
           all == IF have = {} THEN Append(lists, NewList(DefaultList)) ELSE lists
           i == CHOOSE k \in DOMAIN all : all[k].name = DefaultList
           new == File(Merged(text))
           rules == CASE how = "unreadable" -> all[i].rules [] how = "unwritable" -> NotMapped [] how = "done" -> new
           n == Len(all)
<1>1. /\ lists' = [all EXCEPT ![i].rules = rules]
      /\ binary' = IF how = "done" THEN [binary EXCEPT ![DefaultList] = new] ELSE binary
      /\ meant' = IF how = "done" THEN [meant EXCEPT ![DefaultList] = CoveredBy(text)] ELSE meant
      /\ settled' = FALSE /\ UNCHANGED <<texts, listsOn, verdict>>
  BY DEF SetContent
<1>2. \/ all = lists /\ \E k \in DOMAIN lists : lists[k].name = DefaultList
      \/ all = Append(lists, NewList(DefaultList)) /\ ~\E k \in DOMAIN lists : lists[k].name = DefaultList
  OBVIOUS
<1> HIDE DEF have, all
<1>3. /\ all \in Seq(Lists) /\ n \in Nat /\ DOMAIN all = 1..n
      /\ \A k \in 1..n : /\ all[k] \in Lists /\ all[k].on = listsOn
                         /\ all[k].rules.there => HasExactly(all[k].rules, meant[all[k].name])
      /\ \E k \in 1..n : all[k].name = DefaultList
      /\ \A k, j \in 1..n : all[k].name = DefaultList /\ all[j].name = DefaultList => k = j
  BY ONLY ListIInv, <1>2, AllLists
<1>4. i \in 1..n /\ all[i].name = DefaultList
  BY <1>3
<1> HIDE DEF i, n
<1>5. new \in Files /\ HasExactly(new, CoveredBy(text)) /\ CoveredBy(text) \in SUBSET Addresses
  BY TextsAre, FileHolds DEF CoveredBy
<1> HIDE DEF new
<1>6. rules \in Files
  BY <1>3, <1>4, <1>5, NothingHeld DEF Lists, NotMapped
<1>7. rules.there => HasExactly(rules, meant'[DefaultList])
  <2>1. CASE how = "unreadable"
    BY <1>1, <1>3, <1>4, <2>1
  <2>2. CASE how = "unwritable"
    BY <2>2, NothingHeld DEF NotMapped
  <2>3. CASE how = "done"
    BY <1>1, <1>5, <2>3, BlocklistAssumption DEF ListIInv, ListTypes
  <2> QED
    BY <2>1, <2>2, <2>3
<1>8. /\ binary' \in [ListNames -> Files] /\ meant' \in [ListNames -> SUBSET Addresses]
      /\ \A m \in ListNames : m # DefaultList => binary'[m] = binary[m] /\ meant'[m] = meant[m]
      /\ HasExactly(binary'[DefaultList], meant'[DefaultList])
  <2>1. CASE how = "done"
    BY <1>1, <1>5, <2>1, BlocklistAssumption DEF ListIInv, ListTypes
  <2>2. CASE how # "done"
    BY <1>1, <2>2, BlocklistAssumption DEF ListIInv, ListTypes, FilesHold
  <2> QED
    BY <2>1, <2>2
<1> HIDE DEF rules
<1>9. /\ lists' \in Seq(Lists) /\ Len(lists') = n
      /\ \A k \in 1..n : /\ lists'[k].name = all[k].name /\ lists'[k].on = all[k].on
                         /\ lists'[k].rules = IF k = i THEN rules ELSE all[k].rules
  <2> DEFINE b == [all[i] EXCEPT !.rules = rules]
  <2>1. b \in Lists /\ b.name = all[i].name /\ b.on = all[i].on /\ b.rules = rules
    BY <1>3, <1>4, <1>6 DEF Lists
  <2>2. lists' = [all EXCEPT ![i] = b]
    BY <1>1
  <2> HIDE DEF b
  <2>3. all \in [1..n -> Lists]
    BY <1>3 DEF n
  <2>4. lists' \in [1..n -> Lists] /\ \A k \in 1..n : lists'[k] = IF k = i THEN b ELSE all[k]
    BY <1>4, <2>1, <2>2, <2>3
  <2>5. lists' \in Seq(Lists) /\ Len(lists') = n
    BY <1>3, <2>4
  <2> QED
    BY <1>4, <2>1, <2>4, <2>5
<1>10. ListTypes'
  BY <1>1, <1>8, <1>9 DEF ListIInv, ListTypes
<1>11. FilesHold'
  <2> SUFFICES ASSUME NEW m \in ListNames PROVE HasExactly(binary'[m], meant'[m])
    BY DEF FilesHold, HasExactly
  <2> QED
    BY <1>8 DEF ListIInv, FilesHold
<1>12. ListsHold'
  <2> SUFFICES ASSUME NEW k \in 1..n
               PROVE  /\ lists'[k].on = listsOn'
                      /\ lists'[k].rules.there => HasExactly(lists'[k].rules, meant'[lists'[k].name])
    BY <1>9 DEF ListsHold, HasExactly
  <2>1. lists'[k].on = listsOn'
    BY <1>1, <1>3, <1>9
  <2>2. CASE k = i
    BY <1>4, <1>7, <1>9, <2>1, <2>2
  <2>3. CASE k # i
    <3>1. all[k].name # DefaultList /\ all[k].name \in ListNames
      BY <1>3, <1>4, <2>3 DEF Lists
    <3> QED
      BY <1>3, <1>8, <1>9, <2>1, <2>3, <3>1
  <2> QED
    BY <2>2, <2>3
<1>13. DefaultOnce'
  BY <1>1, <1>3, <1>9 DEF ListIInv, DefaultOnce
<1>14. VerdictsMeant'
  BY <1>1 DEF VerdictsMeant
<1> QED
  BY <1>10, <1>11, <1>12, <1>13, <1>14 DEF ListIInv

\* A set as a sequence.
LEMMA SetSeqIs ==
    ASSUME NEW S, IsFiniteSet(S)
    PROVE  /\ SetToSeq(S) \in Seq(S) /\ Len(SetToSeq(S)) = Cardinality(S) /\ Cardinality(S) \in Nat
           /\ \A i, j \in 1..Cardinality(S) : SetToSeq(S)[i] = SetToSeq(S)[j] => i = j
<1> DEFINE c == Cardinality(S)
           m == SetToSeq(S)
<1>1. c \in Nat /\ ExistsBijection(1..c, S)
  BY FS_CardinalityType
<1>2. m \in [1..c -> S] /\ IsInjective(m)
  <2>1. \E f : f \in [1..c -> S] /\ IsInjective(f)
    BY <1>1 DEF ExistsBijection, Bijection, Injection
  <2> QED
    BY <2>1 DEF SetToSeq
<1> HIDE DEF m, c
<1>3. m \in Seq(S) /\ Len(m) = c
  BY <1>1, <1>2
<1>4. \A i, j \in 1..c : m[i] = m[j] => i = j
  BY <1>2 DEF IsInjective
<1> QED
  BY <1>1, <1>3, <1>4 DEF m, c

\* loadBlocklists, tr_sessionReloadBlocklists
LEMMA ReloadKeeps == ASSUME ListIInv, ReloadLists PROVE ListIInv'
<1> DEFINE there == {n \in ListNames : binary[n].there}
           given == {n \in ListNames : texts[n].there}
           found == SetToSeq(there)
           made == SetToSeq(given)
           Of(name) == [name |-> name, on |-> listsOn, rules |-> NotMapped]
           Made(name) == [Of(name) EXCEPT !.rules = File(Merged(texts[name].ranges))]
           p == Cardinality(there)
           q == Cardinality(given)
           A == [i \in DOMAIN found |-> Of(found[i])]
           B == [i \in DOMAIN made |-> Made(made[i])]
<1>1. /\ lists' = A \o B
      /\ binary' = [n \in ListNames |-> IF texts[n].there THEN File(Merged(texts[n].ranges)) ELSE binary[n]]
      /\ meant' = [n \in ListNames |-> IF texts[n].there THEN CoveredBy(texts[n].ranges) ELSE meant[n]]
      /\ verdict' = [a \in Addresses |-> Unknown] /\ settled' = TRUE /\ UNCHANGED <<texts, listsOn>>
  BY DEF ReloadLists, LoadsDirectory, LoadedDirectory
<1>2. IsFiniteSet(there) /\ IsFiniteSet(given)
  BY BlocklistAssumption, FS_Subset
<1> HIDE DEF there, given
<1>3. /\ p \in Nat /\ DOMAIN found = 1..p /\ \A i \in 1..p : found[i] \in there
      /\ \A i, j \in 1..p : found[i] = found[j] => i = j
  <2>1. /\ found \in Seq(there) /\ Len(found) = p /\ p \in Nat
        /\ \A i, j \in 1..p : found[i] = found[j] => i = j
    BY <1>2, SetSeqIs
  <2> HIDE DEF found, p
  <2> QED
    BY <2>1, LenProperties
<1>4. /\ q \in Nat /\ DOMAIN made = 1..q /\ \A i \in 1..q : made[i] \in given
  <2>1. made \in Seq(given) /\ Len(made) = q /\ q \in Nat
    BY <1>2, SetSeqIs
  <2> HIDE DEF made, q
  <2> QED
    BY <2>1, LenProperties
<1>5. \A n \in given : n \in ListNames /\ texts[n].there /\ n # DefaultList
  BY DEF given, ListIInv, DefaultOnce
<1>6. \A n \in there : n \in ListNames
  BY DEF there
<1> HIDE DEF found, made, p, q
<1>7. \A n \in ListNames : /\ File(Merged(texts[n].ranges)) \in Files
                           /\ HasExactly(File(Merged(texts[n].ranges)), CoveredBy(texts[n].ranges))
                           /\ CoveredBy(texts[n].ranges) \in SUBSET Addresses
  <2>1. \A n \in ListNames : texts[n].ranges \in Seq(AddressRange)
    BY DEF ListIInv, ListTypes, Files
  <2> QED
    BY <2>1, FileHolds DEF CoveredBy
<1>8. /\ binary' \in [ListNames -> Files] /\ meant' \in [ListNames -> SUBSET Addresses]
      /\ \A n \in ListNames : HasExactly(binary'[n], meant'[n])
  <2> DEFINE bin(n) == IF texts[n].there THEN File(Merged(texts[n].ranges)) ELSE binary[n]
             mea(n) == IF texts[n].there THEN CoveredBy(texts[n].ranges) ELSE meant[n]
  <2>1. \A n \in ListNames : bin(n) \in Files /\ mea(n) \in SUBSET Addresses /\ HasExactly(bin(n), mea(n))
    BY <1>7 DEF ListIInv, ListTypes, FilesHold
  <2>2. binary' = [n \in ListNames |-> bin(n)] /\ meant' = [n \in ListNames |-> mea(n)]
    BY <1>1
  <2> HIDE DEF bin, mea
  <2> QED
    BY <2>1, <2>2
<1>9. \A n \in given : HasExactly(File(Merged(texts[n].ranges)), meant'[n])
  BY <1>1, <1>5, <1>7
<1>10. ASSUME NEW n \in ListNames
       PROVE  /\ Of(n) \in Lists /\ Of(n).name = n /\ Of(n).on = listsOn /\ ~Of(n).rules.there
              /\ Made(n) \in Lists /\ Made(n).name = n /\ Made(n).on = listsOn
              /\ Made(n).rules = File(Merged(texts[n].ranges))
  <2>1. listsOn \in BOOLEAN /\ File(Merged(texts[n].ranges)) \in Files
    BY <1>7 DEF ListIInv, ListTypes
  <2> QED
    BY <2>1, NothingHeld DEF NotMapped, Lists
<1> HIDE DEF Of, Made
<1>11. /\ A \in Seq(Lists) /\ Len(A) = p /\ B \in Seq(Lists) /\ Len(B) = q
       /\ \A i \in 1..p : A[i] = Of(found[i])
       /\ \A i \in 1..q : B[i] = Made(made[i])
  <2>1. /\ \A i \in 1..p : Of(found[i]) \in Lists
        /\ \A i \in 1..q : Made(made[i]) \in Lists
    BY <1>3, <1>4, <1>5, <1>6, <1>10
  <2>2. A = [i \in 1..p |-> Of(found[i])] /\ B = [i \in 1..q |-> Made(made[i])]
    BY <1>3, <1>4
  <2> HIDE DEF A, B
  <2> QED
    BY <1>3, <1>4, <2>1, <2>2
<1> HIDE DEF A, B
<1>12. /\ lists' \in Seq(Lists) /\ Len(lists') = p + q
       /\ \A i \in 1..(p + q) : lists'[i] = IF i <= p THEN A[i] ELSE B[i - p]
  <2>1. /\ A \o B \in Seq(Lists) /\ Len(A \o B) = Len(A) + Len(B)
        /\ \A i \in 1..(Len(A) + Len(B)) : (A \o B)[i] = IF i <= Len(A) THEN A[i] ELSE B[i - Len(A)]
    BY <1>11, ConcatProperties
  <2> QED
    BY <1>1, <1>11, <2>1
<1>13. ASSUME NEW i \in 1..(p + q)
       PROVE  \/ i \in 1..p /\ lists'[i] = Of(found[i]) /\ found[i] \in there
              \/ \E n \in given : lists'[i] = Made(n)
  <2>1. CASE i <= p
    <3>1. i \in 1..p
      BY <1>3, <1>4, <2>1
    <3> QED
      BY <1>3, <1>11, <1>12, <2>1, <3>1
  <2>2. CASE ~(i <= p)
    <3>1. i - p \in 1..q
      BY <1>3, <1>4, <2>2
    <3>2. lists'[i] = Made(made[i - p]) /\ made[i - p] \in given
      BY <1>4, <1>11, <1>12, <2>2, <3>1
    <3> QED
      BY <3>2
  <2> QED
    BY <2>1, <2>2
<1>14. ListTypes'
  BY <1>1, <1>8, <1>12 DEF ListIInv, ListTypes
<1>15. FilesHold'
  BY <1>8 DEF FilesHold, HasExactly
<1>16. ListsHold'
  <2> SUFFICES ASSUME NEW i \in 1..(p + q)
               PROVE  /\ lists'[i].on = listsOn'
                      /\ lists'[i].rules.there => HasExactly(lists'[i].rules, meant'[lists'[i].name])
    BY <1>12 DEF ListsHold, HasExactly
  <2>1. CASE i \in 1..p /\ lists'[i] = Of(found[i]) /\ found[i] \in there
    BY <1>1, <1>6, <1>10, <2>1
  <2>2. CASE \E n \in given : lists'[i] = Made(n)
    <3>1. PICK n \in given : lists'[i] = Made(n)
      BY <2>2
    <3>2. /\ lists'[i].name = n /\ lists'[i].on = listsOn
          /\ lists'[i].rules = File(Merged(texts[n].ranges))
      BY <1>5, <1>10, <3>1
    <3>3. HasExactly(lists'[i].rules, meant'[lists'[i].name])
      BY <1>9, <3>2
    <3> QED
      BY <1>1, <3>2, <3>3
  <2> QED
    BY <1>13, <2>1, <2>2
<1>17. DefaultOnce'
  <2>1. ASSUME NEW i \in 1..(p + q), lists'[i].name = DefaultList
        PROVE  i \in 1..p /\ found[i] = DefaultList
    <3>1. ~\E n \in given : lists'[i] = Made(n)
      BY <1>5, <1>10, <2>1
    <3> QED
      BY <1>6, <1>10, <1>13, <2>1, <3>1
  <2> QED
    BY <1>1, <1>3, <1>12, <2>1 DEF ListIInv, DefaultOnce
<1>18. VerdictsMeant'
  BY <1>1 DEF VerdictsMeant
<1> QED
  BY <1>14, <1>15, <1>16, <1>17, <1>18 DEF ListIInv

LEMMA ListStep == ASSUME ListIInv, [BlocklistNext]_listVars PROVE ListIInv'
<1>1. CASE UNCHANGED listVars
  BY <1>1 DEF listVars, ListIInv, ListTypes, FilesHold, ListsHold, HasExactly, DefaultOnce, VerdictsMeant, Forbidden
<1>2. CASE BlocklistNext
  BY <1>2, AsksVerdictKeeps, CountsRulesKeeps, ReloadKeeps, SetEnabledKeeps, SetContentKeeps, UserAddsTextKeeps
     DEF BlocklistNext
<1> QED
  BY <1>1, <1>2

\* An address is blocked exactly if blocking is on and a list in use was asked
\* to hold it, whatever is mapped and whatever failed; and a verdict that was
\* cached since the lists were last changed is right (blocklist.c).
THEOREM BlocksExactly == BlocklistSpec => []BlocklistSound
<1>1. ListIInv /\ [BlocklistNext]_listVars => ListIInv'
  BY ListStep
<1> QED
  BY <1>1, InitListIInv, ListIInvSound, PTL DEF BlocklistSpec

-----------------------------------------------------------------------------
(***************************************************************************)
(* For any number of files, of any blocks, and any directory of the user:    *)
(* what is claimed is found, and what is complete is in its place.          *)
(*                                                                         *)
(* What carries it: nothing of a file is on the disk, and all that is        *)
(* claimed of it waits; or it is at one place, in the current directory, and *)
(* nothing of it anywhere else, and a descriptor that is open is open on it. *)
(* And the download directory is the current one, of two, only if they are   *)
(* the same.                                                               *)
(***************************************************************************)
CopyOnDisk == [there : BOOLEAN, has : SUBSET TBlocks]
DirsOfTorrent == [download : Dirs, incomplete : {"none", "unfinished"}, current : {"download", "incomplete"}]
Disks == [Places -> CopyOnDisk]
Opens == [TFiles -> Places \cup {Shut2, Unlinked}]
Waits == [TFiles -> SUBSET TBlocks]
FileWorlds == [dirs : DirsOfTorrent, disk : Disks, open : Opens, cached : Waits]
FileStatuses == [completeness : {"leech", "seed", "partial seed"}, wanted : SUBSET TFiles, naming : {"name", "part"},
                 asked : Dirs \cup {"none"}, life : {"here", "removed", "deleted"}, reloaded : BOOLEAN]

\* What of a file is on the disk, where no descriptors and no cache are asked.
Bare(D, f) == \A q \in Places : q[2] = f => D[q] = Nothing2
Alone(D, p) ==
    /\ D[p].there /\ D[p].has # {}
    /\ \A q \in Places : q[2] = p[2] /\ q # p => D[q] = Nothing2

\* h: the blocks of the file that are claimed
NoneOnDisk(w, h, f) == Bare(w.disk, f) /\ w.cached[f] = h /\ w.open[f] = Shut2
Lies(w, h, f, p) ==
    /\ p \in Places /\ p[2] = f /\ p[1] = CurrentDir(w.dirs) /\ Alone(w.disk, p)
    /\ h = w.disk[p].has \cup w.cached[f]
    /\ w.open[f] = Shut2 \/ w.open[f] = p
FileOK(w, h, f) == NoneOnDisk(w, h, f) \/ \E p \in Places : Lies(w, h, f, p)
\* What is complete does not wait, and has its name.
FileNamed(w, h, f) ==
    h = TBlocks => w.cached[f] = {} /\ \A p \in Places : p[2] = f /\ w.disk[p].there => p[3] = "name"

DirsOK(d) == d \in DirsOfTorrent /\ (d.incomplete = "none" => d.current = "download")
OneHome(d, h) == d.current = "download" /\ d.incomplete # "none" => d.incomplete = d.download /\ h # {}
InPlace(d, s) == s.completeness # "leech" /\ s.asked = "none" /\ ~s.reloaded =>
                     d.current = "download" \/ d.incomplete = "none"

WorldIs(w) == w \in FileWorlds /\ DirsOK(w.dirs)
WorldGood(w, H) ==
    /\ WorldIs(w) /\ OneHome(w.dirs, H[1])
    /\ \A f \in TFiles : FileOK(w, H[f], f) /\ FileNamed(w, H[f], f)
FilesGood ==
    /\ had \in Waits /\ status2 \in FileStatuses
    /\ WorldGood(State, had) /\ InPlace(dirs, status2)
FilesIInv ==
    ~rash => IF status2.life = "deleted" THEN \A p \in Places : ~disk2[p].there ELSE FilesGood

-----------------------------------------------------------------------------
\* A place is a directory, a file, and which of its names.
LEMMA PlaceIs ==
    ASSUME NEW p \in Places
    PROVE  /\ p[1] \in Dirs /\ p[2] \in TFiles /\ p[3] \in {"name", "part"}
           /\ p = <<p[1], p[2], p[3]>>
BY DEF Places

LEMMA PlaceOf ==
    ASSUME NEW d \in Dirs, NEW f \in TFiles, NEW n \in {"name", "part"}
    PROVE  <<d, f, n>> \in Places
BY DEF Places

LEMMA PlaceIsOpen ==
    ASSUME NEW p \in Places
    PROVE  p # Shut2 /\ p # Unlinked
<1>1. Len(p) = 3
  BY PlaceIs
<1>2. Len(Shut2) = 0 /\ Len(Unlinked) = 1
  BY DEF Shut2, Unlinked
<1> QED
  BY <1>1, <1>2

LEMMA CurrentIsDir ==
    ASSUME NEW d, DirsOK(d)
    PROVE  CurrentDir(d) \in Dirs /\ d.download \in Dirs /\ (d.incomplete # "none" => d.incomplete \in Dirs)
BY DEF DirsOK, DirsOfTorrent, CurrentDir, Dirs

\* Each is a place of the file; and each place in the current directory is one.
LEMMA CandidatePlaces ==
    ASSUME NEW d, DirsOK(d), NEW f \in TFiles
    PROVE  /\ DOMAIN Candidates(d, f) \in SUBSET Nat
           /\ \A i \in DOMAIN Candidates(d, f) : Candidates(d, f)[i] \in Places /\ Candidates(d, f)[i][2] = f
           /\ \A p \in Places : p[1] = CurrentDir(d) /\ p[2] = f =>
                 \E i \in DOMAIN Candidates(d, f) : Candidates(d, f)[i] = p
<1>0. /\ d.download \in Dirs /\ (d.incomplete # "none" => d.incomplete \in Dirs)
      /\ d.incomplete = "none" => d.current = "download"
      /\ d.current \in {"download", "incomplete"}
  BY CurrentIsDir DEF DirsOK, DirsOfTorrent
<1>n. \A x \in Dirs : <<x, f, "name">> \in Places /\ <<x, f, "part">> \in Places
  BY PlaceOf
<1>p. \A p \in Places : p[2] = f => p = <<p[1], f, "name">> \/ p = <<p[1], f, "part">>
  BY PlaceIs
<1> DEFINE a == <<d.download, f, "name">>
           b == <<d.incomplete, f, "name">>
           c == <<d.incomplete, f, "part">>
           e == <<d.download, f, "part">>
           C == Candidates(d, f)
<1>s. a[2] = f /\ b[2] = f /\ c[2] = f /\ e[2] = f
  OBVIOUS
<1>1. CASE d.incomplete = "none"
  <2>1. C = <<a, e>>
    BY <1>1 DEF Candidates
  <2>2. DOMAIN C = {1, 2} /\ C[1] = a /\ C[2] = e
    <3> HIDE DEF a, e, C
    <3> QED
      BY <2>1
  <2>3. CurrentDir(d) = d.download
    BY <1>1, <1>0 DEF CurrentDir
  <2>4. \A p \in Places : p[1] = d.download /\ p[2] = f => p = a \/ p = e
    BY <1>p
  <2>5. a \in Places /\ e \in Places
    BY <1>0, <1>n
  <2> HIDE DEF a, e, C
  <2> QED
    BY <2>2, <2>3, <2>4, <2>5, <1>s DEF C
<1>2. CASE d.incomplete # "none"
  <2>1. C = <<a, b, c, e>>
    BY <1>2 DEF Candidates
  <2>2. DOMAIN C = {1, 2, 3, 4} /\ C[1] = a /\ C[2] = b /\ C[3] = c /\ C[4] = e
    <3> HIDE DEF a, b, c, e, C
    <3> QED
      BY <2>1
  <2>3. CurrentDir(d) \in {d.download, d.incomplete}
    BY <1>2, <1>0 DEF CurrentDir
  <2>4. \A p \in Places : p[1] = d.download /\ p[2] = f => p = a \/ p = e
    BY <1>p
  <2>5. \A p \in Places : p[1] = d.incomplete /\ p[2] = f => p = b \/ p = c
    BY <1>p
  <2>6. a \in Places /\ e \in Places /\ b \in Places /\ c \in Places
    BY <1>0, <1>2, <1>n
  <2> HIDE DEF a, b, c, e, C
  <2> QED
    BY <2>2, <2>3, <2>4, <2>5, <2>6, <1>s DEF C
<1> QED
  BY <1>1, <1>2

\* The file that is at one place only, in the current directory, is found.
LEMMA FoundIs ==
    ASSUME NEW w, DirsOK(w.dirs), NEW f \in TFiles, NEW p \in Places,
           p[2] = f, p[1] = CurrentDir(w.dirs), Alone(w.disk, p)
    PROVE  ~Missing(w, f) /\ Found(w, f) = p
<1> DEFINE C == Candidates(w.dirs, f)
           T == Hits(w, f)
<1>0. /\ DOMAIN C \in SUBSET Nat
      /\ \A i \in DOMAIN C : C[i] \in Places /\ C[i][2] = f
      /\ \E i \in DOMAIN C : C[i] = p
  BY CandidatePlaces
<1>1. T = {i \in DOMAIN C : w.disk[C[i]].there}
  BY DEF Hits
<1> HIDE DEF C, T
<1>2. \A q \in Places : q[2] = f /\ q # p => ~w.disk[q].there
  BY DEF Alone, Nothing2
<1>3. T # {} /\ T \in SUBSET Nat /\ \A i \in T : C[i] = p
  BY <1>0, <1>1, <1>2 DEF Alone
<1>4. PICK x \in T : \A y \in T : x <= y
  BY <1>3, LeastNat
<1>5. Min(T) \in T
  BY <1>4 DEF Min
<1> QED
  BY <1>3, <1>5 DEF T, C, Missing, Found

LEMMA MissingIs ==
    ASSUME NEW w, DirsOK(w.dirs), NEW f \in TFiles, Bare(w.disk, f)
    PROVE  Missing(w, f)
BY CandidatePlaces DEF Missing, Hits, Bare, Nothing2

\* What is found is at a place of the file.
LEMMA FoundPlace ==
    ASSUME NEW w, DirsOK(w.dirs), NEW f \in TFiles, ~Missing(w, f)
    PROVE  Found(w, f) \in Places /\ Found(w, f)[2] = f
<1> DEFINE C == Candidates(w.dirs, f)
           T == Hits(w, f)
<1>0. /\ DOMAIN C \in SUBSET Nat
      /\ \A i \in DOMAIN C : C[i] \in Places /\ C[i][2] = f
  BY CandidatePlaces
<1>1. T = {i \in DOMAIN C : w.disk[C[i]].there} /\ T # {}
  BY DEF Hits, Missing
<1> HIDE DEF C, T
<1>4. PICK x \in T : \A y \in T : x <= y
  BY <1>0, <1>1, LeastNat
<1>5. Min(T) \in T
  BY <1>4 DEF Min
<1> QED
  BY <1>0, <1>1, <1>5 DEF T, C, Found

\* A file that nothing was done to, but perhaps its descriptor was closed.
LEMMA FileFrame ==
    ASSUME NEW v, NEW w, NEW h, NEW f \in TFiles, FileOK(v, h, f),
           CurrentDir(w.dirs) = CurrentDir(v.dirs),
           \A p \in Places : p[2] = f => w.disk[p] = v.disk[p],
           w.cached[f] = v.cached[f], w.open[f] = v.open[f] \/ w.open[f] = Shut2
    PROVE  FileOK(w, h, f)
<1>1. CASE NoneOnDisk(v, h, f)
  BY <1>1 DEF FileOK, NoneOnDisk, Bare
<1>2. ASSUME NEW p \in Places, Lies(v, h, f, p)
      PROVE  FileOK(w, h, f)
  <2>1. w.disk[p] = v.disk[p] /\ \A q \in Places : q[2] = p[2] => w.disk[q] = v.disk[q]
    BY <1>2 DEF Lies
  <2>2. Alone(w.disk, p)
    BY <1>2, <2>1 DEF Lies, Alone
  <2>3. Lies(w, h, f, p)
    BY <1>2, <2>1, <2>2 DEF Lies
  <2> QED
    BY <2>3 DEF FileOK
<1> QED
  BY <1>1, <1>2 DEF FileOK

LEMMA NamedFrame ==
    ASSUME NEW v, NEW w, NEW h, NEW f \in TFiles, FileNamed(v, h, f),
           \A p \in Places : p[2] = f => w.disk[p] = v.disk[p],
           w.cached[f] = v.cached[f]
    PROVE  FileNamed(w, h, f)
BY DEF FileNamed

\* A descriptor that is open, is open on the file.
LEMMA FileIsOpen ==
    ASSUME NEW w, NEW h, NEW f \in TFiles, FileOK(w, h, f)
    PROVE  w.open[f] # Unlinked /\ (w.open[f] # Shut2 => w.open[f] \in Places /\ Lies(w, h, f, w.open[f]))
<1>1. Shut2 # Unlinked
  BY DEF Shut2, Unlinked
<1> QED
  BY <1>1, PlaceIsOpen DEF FileOK, NoneOnDisk, Lies

-----------------------------------------------------------------------------
\* Closing and flushing.
LEMMA ClosedWorld ==
    ASSUME NEW w, WorldIs(w)
    PROVE  /\ WorldIs(CloseAll(w)) /\ CloseAll(w).dirs = w.dirs /\ CloseAll(w).disk = w.disk
           /\ CloseAll(w).cached = w.cached /\ \A f \in TFiles : CloseAll(w).open[f] = Shut2
BY DEF WorldIs, FileWorlds, CloseAll, Opens

LEMMA FlushedParts ==
    ASSUME NEW w, WorldIs(w), NEW S \in SUBSET TFiles
    PROVE  /\ Flushed(w, S).dirs = w.dirs
           /\ Flushed(w, S).cached = [f \in TFiles |-> IF f \in S /\ w.cached[f] # {} THEN {} ELSE w.cached[f]]
           /\ Flushed(w, S).open = [f \in TFiles |-> IF f \in S /\ w.cached[f] # {} THEN Target(w, f) ELSE w.open[f]]
           /\ Flushed(w, S).disk = [p \in Places |->
                 IF p[2] \in S /\ w.cached[p[2]] # {} /\ p = Target(w, p[2])
                 THEN [there |-> TRUE, has |-> w.disk[p].has \cup w.cached[p[2]]] ELSE w.disk[p]]
           /\ Flushed(w, S) = [dirs |-> Flushed(w, S).dirs, disk |-> Flushed(w, S).disk,
                               open |-> Flushed(w, S).open, cached |-> Flushed(w, S).cached]
<1> DEFINE writes == {f \in S : w.cached[f] # {}}
<1>0. w = [dirs |-> w.dirs, disk |-> w.disk, open |-> w.open, cached |-> w.cached]
  BY DEF WorldIs, FileWorlds
<1>1. \A f : f \in writes <=> f \in S /\ w.cached[f] # {}
  OBVIOUS
<1> HIDE DEF writes
<1> DEFINE c == [f \in TFiles |-> IF f \in writes THEN {} ELSE w.cached[f]]
           o == [f \in TFiles |-> IF f \in writes THEN Target(w, f) ELSE w.open[f]]
           d == [p \in Places |-> IF p[2] \in writes /\ p = Target(w, p[2])
                                  THEN [there |-> TRUE, has |-> w.disk[p].has \cup w.cached[p[2]]] ELSE w.disk[p]]
<1>2. Flushed(w, S) = [w EXCEPT !.cached = c, !.open = o, !.disk = d]
  BY DEF Flushed, writes
<1>3. c = [f \in TFiles |-> IF f \in S /\ w.cached[f] # {} THEN {} ELSE w.cached[f]]
  BY <1>1
<1>4. o = [f \in TFiles |-> IF f \in S /\ w.cached[f] # {} THEN Target(w, f) ELSE w.open[f]]
  BY <1>1
<1>5. d = [p \in Places |-> IF p[2] \in S /\ w.cached[p[2]] # {} /\ p = Target(w, p[2])
                            THEN [there |-> TRUE, has |-> w.disk[p].has \cup w.cached[p[2]]] ELSE w.disk[p]]
  BY <1>1
<1> HIDE DEF c, o, d
<1>6. Flushed(w, S) = [dirs |-> w.dirs, disk |-> d, open |-> o, cached |-> c]
  BY <1>0, <1>2
<1> QED
  BY <1>3, <1>4, <1>5, <1>6

\* Where the blocks of a file go: where it is, or where it is made.
LEMMA TargetOf ==
    ASSUME NEW w, WorldIs(w), NEW h, NEW f \in TFiles, FileOK(w, h, f), status2 \in FileStatuses
    PROVE  /\ Target(w, f) \in Places /\ Target(w, f)[2] = f /\ Target(w, f)[1] = CurrentDir(w.dirs)
           /\ \A p \in Places : Lies(w, h, f, p) => Target(w, f) = p
<1>1. CASE NoneOnDisk(w, h, f)
  <2>1. Missing(w, f) /\ w.open[f] = Shut2
    BY <1>1, MissingIs DEF NoneOnDisk, WorldIs
  <2>2. Target(w, f) = <<CurrentDir(w.dirs), f, status2.naming>>
    BY <2>1 DEF Target
  <2>3. status2.naming \in {"name", "part"} /\ CurrentDir(w.dirs) \in Dirs
    BY CurrentIsDir DEF FileStatuses, WorldIs
  <2>4. ASSUME NEW p \in Places, Lies(w, h, f, p) PROVE FALSE
    BY <1>1, <2>4 DEF NoneOnDisk, Bare, Lies, Alone, Nothing2
  <2>5. <<CurrentDir(w.dirs), f, status2.naming>> \in Places
    BY <2>3, PlaceOf
  <2> QED
    BY <2>2, <2>4, <2>5
<1>2. ASSUME NEW p \in Places, Lies(w, h, f, p)
      PROVE  Target(w, f) = p
  <2>1. ~Missing(w, f) /\ Found(w, f) = p
    BY <1>2, FoundIs DEF Lies, WorldIs
  <2> QED
    BY <1>2, <2>1 DEF Target, Lies
<1> QED
  BY <1>1, <1>2 DEF FileOK, Lies

LEMMA FlushedType ==
    ASSUME NEW w, WorldIs(w), NEW S \in SUBSET TFiles, NEW H, \A f \in TFiles : FileOK(w, H[f], f),
           status2 \in FileStatuses
    PROVE  WorldIs(Flushed(w, S))
<1> DEFINE v == Flushed(w, S)
<1>0. \A f \in TFiles : Target(w, f) \in Places
  BY TargetOf
<1>w. w.dirs \in DirsOfTorrent /\ w.disk \in Disks /\ w.open \in Opens /\ w.cached \in Waits /\ DirsOK(w.dirs)
  BY DEF WorldIs, FileWorlds
<1>1. v.cached \in Waits
  <2> DEFINE E(f) == IF f \in S /\ w.cached[f] # {} THEN {} ELSE w.cached[f]
  <2>1. \A f \in TFiles : E(f) \in SUBSET TBlocks
    BY <1>w DEF Waits
  <2>2. v.cached = [f \in TFiles |-> E(f)]
    BY FlushedParts, ZenonT(60)
  <2> HIDE DEF E
  <2> QED
    BY <2>1, <2>2 DEF Waits
<1>2. v.open \in Opens
  <2> DEFINE E(f) == IF f \in S /\ w.cached[f] # {} THEN Target(w, f) ELSE w.open[f]
  <2>1. \A f \in TFiles : E(f) \in Places \cup {Shut2, Unlinked}
    BY <1>w, <1>0 DEF Opens
  <2>2. v.open = [f \in TFiles |-> E(f)]
    BY FlushedParts
  <2> HIDE DEF E
  <2> QED
    BY <2>1, <2>2 DEF Opens
<1>3. v.disk \in Disks
  <2> DEFINE E(p) == IF p[2] \in S /\ w.cached[p[2]] # {} /\ p = Target(w, p[2])
                     THEN [there |-> TRUE, has |-> w.disk[p].has \cup w.cached[p[2]]] ELSE w.disk[p]
  <2>1. ASSUME NEW p \in Places PROVE E(p) \in CopyOnDisk
    <3>1. w.disk[p] \in CopyOnDisk /\ p[2] \in TFiles /\ w.cached[p[2]] \in SUBSET TBlocks
      BY <1>w, PlaceIs DEF Disks, Waits
    <3> QED
      BY <3>1 DEF CopyOnDisk
  <2>2. v.disk = [p \in Places |-> E(p)]
    BY FlushedParts
  <2> HIDE DEF E
  <2> QED
    BY <2>1, <2>2 DEF Disks
<1>4. v.dirs = w.dirs /\ v = [dirs |-> v.dirs, disk |-> v.disk, open |-> v.open, cached |-> v.cached]
  BY FlushedParts
<1> HIDE DEF v
<1>5. v \in FileWorlds
  BY <1>1, <1>2, <1>3, <1>4, <1>w DEF FileWorlds
<1> QED
  BY <1>5, <1>4, <1>w DEF WorldIs, v

\* What waits goes to the file; of others nothing changes.
LEMMA FlushedFile ==
    ASSUME NEW w, WorldIs(w), NEW S \in SUBSET TFiles, NEW h, NEW f \in TFiles, FileOK(w, h, f),
           status2 \in FileStatuses
    PROVE  /\ FileOK(Flushed(w, S), h, f) /\ (FileNamed(w, h, f) => FileNamed(Flushed(w, S), h, f))
           /\ f \in S => Flushed(w, S).cached[f] = {}
<1> DEFINE v == Flushed(w, S)
           t == Target(w, f)
<1>v. /\ v.cached = [x \in TFiles |-> IF x \in S /\ w.cached[x] # {} THEN {} ELSE w.cached[x]]
      /\ v.open = [x \in TFiles |-> IF x \in S /\ w.cached[x] # {} THEN Target(w, x) ELSE w.open[x]]
      /\ v.disk = [p \in Places |->
              IF p[2] \in S /\ w.cached[p[2]] # {} /\ p = Target(w, p[2])
              THEN [there |-> TRUE, has |-> w.disk[p].has \cup w.cached[p[2]]] ELSE w.disk[p]]
  BY FlushedParts, ZenonT(60)
<1>d. v.dirs = w.dirs
  BY FlushedParts
<1> HIDE DEF v
<1>c. v.cached[f] = IF f \in S /\ w.cached[f] # {} THEN {} ELSE w.cached[f]
  BY <1>v
<1>o. v.open[f] = IF f \in S /\ w.cached[f] # {} THEN t ELSE w.open[f]
  BY <1>v
<1>p. \A p \in Places : p[2] = f => v.disk[p] = IF f \in S /\ w.cached[f] # {} /\ p = t
                 THEN [there |-> TRUE, has |-> w.disk[p].has \cup w.cached[f]] ELSE w.disk[p]
  <2> TAKE p \in Places
  <2>1. v.disk[p] = IF p[2] \in S /\ w.cached[p[2]] # {} /\ p = Target(w, p[2])
                    THEN [there |-> TRUE, has |-> w.disk[p].has \cup w.cached[p[2]]] ELSE w.disk[p]
    BY <1>v
  <2> HAVE p[2] = f
  <2> QED
    BY <2>1
<1>t. /\ t \in Places /\ t[2] = f /\ t[1] = CurrentDir(w.dirs)
      /\ \A p \in Places : Lies(w, h, f, p) => t = p
  BY TargetOf
<1> HIDE DEF t
<1>1. CASE ~(f \in S /\ w.cached[f] # {})
  <2>1. FileOK(v, h, f)
    BY <1>c, <1>o, <1>p, <1>d, <1>1, FileFrame
  <2>2. FileNamed(w, h, f) => FileNamed(v, h, f)
    BY <1>c, <1>p, <1>1, NamedFrame
  <2> QED
    BY <1>1, <1>c, <2>1, <2>2 DEF v
<1>2. CASE f \in S /\ w.cached[f] # {}
  <2>1. v.cached[f] = {} /\ v.open[f] = t /\ v.disk[t] = [there |-> TRUE, has |-> w.disk[t].has \cup w.cached[f]]
    BY <1>2, <1>c, <1>o, <1>p, <1>t
  <2>2. \A q \in Places : q[2] = f /\ q # t => v.disk[q] = w.disk[q]
    BY <1>2, <1>p
  <2>3. h = w.disk[t].has \cup w.cached[f] /\ \A q \in Places : q[2] = f /\ q # t => w.disk[q] = Nothing2
    <3>1. CASE NoneOnDisk(w, h, f)
      BY <3>1, <1>t DEF NoneOnDisk, Bare, Nothing2
    <3>2. ASSUME NEW p \in Places, Lies(w, h, f, p) PROVE <2>3
      BY <3>2, <1>t DEF Lies, Alone
    <3> QED
      BY <3>1, <3>2 DEF FileOK
  <2>4. Alone(v.disk, t)
    BY <2>1, <2>2, <2>3, <1>t, <1>2 DEF Alone
  <2>5. Lies(v, h, f, t)
    BY <2>1, <2>3, <2>4, <1>t, <1>d DEF Lies
  <2>6. FileNamed(w, h, f) => FileNamed(v, h, f)
    BY <1>2 DEF FileNamed
  <2> QED
    BY <2>1, <2>5, <2>6, <1>t DEF FileOK, v
<1> QED
  BY <1>1, <1>2

-----------------------------------------------------------------------------
\* The file that is complete gets its name; of others nothing changes.
LEMMA CompletedParts ==
    ASSUME NEW w, WorldIs(w), NEW f \in TFiles
    PROVE  /\ FileCompleted(w, f).dirs = w.dirs /\ FileCompleted(w, f).cached = w.cached
           /\ FileCompleted(w, f).open = [w.open EXCEPT ![f] = Shut2]
           /\ FileCompleted(w, f) \in FileWorlds <=> FileCompleted(w, f).disk \in Disks
           /\ FileCompleted(w, f).disk =
                 IF Missing(w, f) \/ Found(w, f)[3] = "name" THEN w.disk
                 ELSE Moved(w, Found(w, f), <<Found(w, f)[1], f, "name">>)
<1>0. /\ w = [dirs |-> w.dirs, disk |-> w.disk, open |-> w.open, cached |-> w.cached]
      /\ w.dirs \in DirsOfTorrent /\ w.disk \in Disks /\ w.open \in Opens /\ w.cached \in Waits
  BY DEF WorldIs, FileWorlds
<1> DEFINE o == [w.open EXCEPT ![f] = Shut2]
           D == Moved(w, Found(w, f), <<Found(w, f)[1], f, "name">>)
<1>1. [w EXCEPT !.open[f] = Shut2] = [dirs |-> w.dirs, disk |-> w.disk, open |-> o, cached |-> w.cached]
  BY <1>0
<1>2. o \in Opens
  BY <1>0 DEF Opens
<1> HIDE DEF o, D
<1>3. CASE Missing(w, f) \/ Found(w, f)[3] = "name"
  <2>1. FileCompleted(w, f) = [dirs |-> w.dirs, disk |-> w.disk, open |-> o, cached |-> w.cached]
    BY <1>1, <1>3 DEF FileCompleted
  <2> QED
    BY <1>0, <1>2, <1>3, <2>1 DEF FileWorlds, o
<1>4. CASE ~(Missing(w, f) \/ Found(w, f)[3] = "name")
  <2>1. FileCompleted(w, f) = [dirs |-> w.dirs, disk |-> D, open |-> o, cached |-> w.cached]
    BY <1>1, <1>4 DEF FileCompleted, D
  <2> QED
    BY <1>0, <1>2, <1>4, <2>1 DEF FileWorlds, o, D
<1> QED
  BY <1>3, <1>4

LEMMA CompletedFile ==
    ASSUME NEW w, WorldIs(w), NEW f \in TFiles, NEW h, FileOK(w, h, f), w.cached[f] = {}
    PROVE  /\ WorldIs(FileCompleted(w, f))
           /\ FileOK(FileCompleted(w, f), h, f) /\ FileNamed(FileCompleted(w, f), h, f)
           /\ \A p \in Places : p[2] # f => FileCompleted(w, f).disk[p] = w.disk[p]
<1> DEFINE v == FileCompleted(w, f)
<1>0. w.disk \in Disks /\ w.open \in Opens /\ DirsOK(w.dirs)
  BY DEF WorldIs, FileWorlds
<1>1. /\ v.dirs = w.dirs /\ v.cached = w.cached /\ v.open = [w.open EXCEPT ![f] = Shut2]
      /\ v \in FileWorlds <=> v.disk \in Disks
      /\ v.disk = IF Missing(w, f) \/ Found(w, f)[3] = "name" THEN w.disk
                  ELSE Moved(w, Found(w, f), <<Found(w, f)[1], f, "name">>)
  BY CompletedParts
<1> HIDE DEF v
<1>2. v.open[f] = Shut2 /\ CurrentDir(v.dirs) = CurrentDir(w.dirs) /\ v.cached[f] = {}
  BY <1>0, <1>1 DEF Opens
<1>3. CASE NoneOnDisk(w, h, f)
  <2>1. v.disk = w.disk
    BY <1>1, <1>3, MissingIs DEF NoneOnDisk, WorldIs
  <2>2. FileOK(v, h, f)
    BY <1>1, <1>2, <2>1, FileFrame
  <2>3. FileNamed(v, h, f)
    BY <1>2, <1>3, <2>1 DEF FileNamed, NoneOnDisk, Bare, Nothing2
  <2> QED
    BY <1>0, <1>1, <2>1, <2>2, <2>3 DEF WorldIs, v
<1>4. ASSUME NEW p \in Places, Lies(w, h, f, p)
      PROVE  /\ WorldIs(v) /\ FileOK(v, h, f) /\ FileNamed(v, h, f)
             /\ \A q \in Places : q[2] # f => v.disk[q] = w.disk[q]
  <2>0. /\ p[2] = f /\ p[1] = CurrentDir(w.dirs) /\ Alone(w.disk, p) /\ h = w.disk[p].has \cup {}
        /\ p[1] \in Dirs /\ p[3] \in {"name", "part"} /\ p = <<p[1], f, p[3]>>
    BY <1>4, PlaceIs DEF Lies
  <2>1. ~Missing(w, f) /\ Found(w, f) = p
    BY <2>0, FoundIs DEF WorldIs
  <2>2. CASE p[3] = "name"
    <3>1. v.disk = w.disk
      BY <1>1, <2>1, <2>2
    <3>2. FileOK(v, h, f)
      BY <1>1, <1>2, <3>1, FileFrame
    <3>3. \A q \in Places : q[2] = f /\ w.disk[q].there => q = p
      BY <2>0 DEF Alone, Nothing2
    <3>4. FileNamed(v, h, f)
      BY <1>2, <2>2, <3>1, <3>3 DEF FileNamed
    <3> QED
      BY <1>0, <1>1, <3>1, <3>2, <3>4 DEF WorldIs
  <2>3. CASE p[3] = "part"
    <3> DEFINE t == <<p[1], f, "name">>
    <3>1. t \in Places /\ t[1] = p[1] /\ t[2] = f /\ t[3] = "name"
      BY <2>0, PlaceOf
    <3>2. t # p
      BY <3>1, <2>3
    <3>3. v.disk = [w.disk EXCEPT ![t] = w.disk[p], ![p] = Nothing2]
      BY <1>1, <2>1, <2>3 DEF Moved
    <3> HIDE DEF t
    <3>4. /\ v.disk \in Disks /\ v.disk[t] = w.disk[p] /\ v.disk[p] = Nothing2
          /\ \A q \in Places : q # t /\ q # p => v.disk[q] = w.disk[q]
      <4>1. Nothing2 \in CopyOnDisk /\ w.disk[p] \in CopyOnDisk
        BY <1>0 DEF Nothing2, CopyOnDisk, Disks
      <4> QED
        BY <1>0, <3>1, <3>2, <3>3, <4>1 DEF Disks
    <3>5. Alone(v.disk, t)
      BY <2>0, <3>1, <3>4 DEF Alone
    <3>6. Lies(v, h, f, t)
      BY <1>2, <2>0, <3>1, <3>4, <3>5 DEF Lies
    <3>7. FileNamed(v, h, f)
      <4>1. \A q \in Places : q[2] = f /\ v.disk[q].there => q = t
        BY <3>1, <3>5 DEF Alone, Nothing2
      <4> QED
        BY <1>2, <3>1, <4>1 DEF FileNamed
    <3>8. \A q \in Places : q[2] # f => v.disk[q] = w.disk[q]
      BY <2>0, <3>1, <3>4
    <3> QED
      BY <1>0, <1>1, <3>1, <3>4, <3>6, <3>7, <3>8 DEF WorldIs, FileOK
  <2> QED
    BY <2>0, <2>2, <2>3
<1> QED
  BY <1>3, <1>4 DEF FileOK, v

-----------------------------------------------------------------------------
\* Moving: each file that is there is in the other directory then.
AfterMove(w, S, dir, p) ==
    IF ~(p[2] \in S /\ ~Missing(w, p[2]) /\ Found(w, p[2])[1] # dir) THEN w.disk[p]
    ELSE IF p = <<dir, p[2], Found(w, p[2])[3]>> THEN w.disk[Found(w, p[2])]
    ELSE IF p = Found(w, p[2]) THEN Nothing2 ELSE w.disk[p]
OpenAfterMove(w, S, dir, across, f) ==
    IF ~(f \in S /\ ~Missing(w, f) /\ Found(w, f)[1] # dir) \/ w.open[f] # Found(w, f) THEN w.open[f]
    ELSE IF across THEN Unlinked ELSE <<dir, f, Found(w, f)[3]>>
LEMMA MovedParts ==
    ASSUME NEW w, WorldIs(w), NEW S \in SUBSET TFiles, NEW dir \in Dirs, NEW across \in BOOLEAN
    PROVE  MoveFiles(w, S, dir, across) =
               [dirs |-> w.dirs, disk |-> [p \in Places |-> AfterMove(w, S, dir, p)],
                open |-> [f \in TFiles |-> OpenAfterMove(w, S, dir, across, f)], cached |-> w.cached]
<1> DEFINE movers == {f \in S : ~Missing(w, f) /\ Found(w, f)[1] # dir}
<1>0. w = [dirs |-> w.dirs, disk |-> w.disk, open |-> w.open, cached |-> w.cached]
  BY DEF WorldIs, FileWorlds
<1>1. \A f : f \in movers <=> f \in S /\ ~Missing(w, f) /\ Found(w, f)[1] # dir
  OBVIOUS
<1> DEFINE d == [p \in Places |-> IF p[2] \notin movers THEN w.disk[p]
                                  ELSE IF p = <<dir, p[2], Found(w, p[2])[3]>> THEN w.disk[Found(w, p[2])]
                                  ELSE IF p = Found(w, p[2]) THEN Nothing2 ELSE w.disk[p]]
           o == [f \in TFiles |-> IF f \notin movers \/ w.open[f] # Found(w, f) THEN w.open[f]
                                  ELSE IF across THEN Unlinked ELSE <<dir, f, Found(w, f)[3]>>]
<1>2. MoveFiles(w, S, dir, across) = [w EXCEPT !.disk = d, !.open = o]
  BY DEF MoveFiles
<1> HIDE DEF movers
<1>3. d = [p \in Places |-> AfterMove(w, S, dir, p)]
  BY <1>1 DEF AfterMove
<1>4. o = [f \in TFiles |-> OpenAfterMove(w, S, dir, across, f)]
  BY <1>1 DEF OpenAfterMove
<1> HIDE DEF d, o
<1>5. MoveFiles(w, S, dir, across) = [dirs |-> w.dirs, disk |-> d, open |-> o, cached |-> w.cached]
  BY <1>0, <1>2
<1> QED
  BY <1>3, <1>4, <1>5

LEMMA MovedDisk ==
    ASSUME NEW w, WorldIs(w), NEW S \in SUBSET TFiles, NEW dir \in Dirs, NEW across \in BOOLEAN
    PROVE  MoveFiles(w, S, dir, across).disk = [p \in Places |-> AfterMove(w, S, dir, p)]
BY MovedParts

\* What of a file is on a disk: nothing, if nothing is claimed; or it is once
\* there, in the directory, with all that is claimed.
OnDisk(D, dir, h, f) ==
    \/ Bare(D, f) /\ h = {}
    \/ \E p \in Places : p[2] = f /\ p[1] = dir /\ Alone(D, p) /\ h = D[p].has
NamedOnDisk(D, h, f) == h = TBlocks => \A p \in Places : p[2] = f /\ D[p].there => p[3] = "name"

LEMMA MovedFile ==
    ASSUME NEW w, WorldIs(w), NEW dir \in Dirs, NEW across \in BOOLEAN, dir # CurrentDir(w.dirs),
           NEW f \in TFiles, NEW h, FileOK(w, h, f), FileNamed(w, h, f), w.cached[f] = {}
    PROVE  /\ OnDisk(MoveFiles(w, TFiles, dir, across).disk, dir, h, f)
           /\ NamedOnDisk(MoveFiles(w, TFiles, dir, across).disk, h, f)
           /\ \A p \in Places : p[2] = f => MoveFiles(w, TFiles, dir, across).disk[p] \in CopyOnDisk
<1> DEFINE D == MoveFiles(w, TFiles, dir, across).disk
<1>1. D = [p \in Places |-> AfterMove(w, TFiles, dir, p)]
  <2>1. TFiles \in SUBSET TFiles
    OBVIOUS
  <2> QED
    BY <2>1, MovedDisk DEF D
<1>0. w.disk \in Disks /\ DirsOK(w.dirs)
  BY DEF WorldIs, FileWorlds
<1> HIDE DEF D
<1>2. CASE NoneOnDisk(w, h, f)
  <2>1. Missing(w, f)
    BY <1>2, <1>0, MissingIs DEF NoneOnDisk
  <2>2. \A p \in Places : p[2] = f => D[p] = w.disk[p]
    BY <1>1, <2>1 DEF AfterMove
  <2>3. Bare(D, f) /\ h = {}
    BY <1>2, <2>2 DEF NoneOnDisk, Bare
  <2>4. NamedOnDisk(D, h, f)
    BY <2>3 DEF NamedOnDisk, Bare, Nothing2
  <2> QED
    BY <2>2, <2>3, <2>4, <1>0 DEF OnDisk, D, Disks
<1>3. ASSUME NEW p \in Places, Lies(w, h, f, p)
      PROVE  OnDisk(D, dir, h, f) /\ NamedOnDisk(D, h, f) /\ \A q \in Places : q[2] = f => D[q] \in CopyOnDisk
  <2>0. /\ p[2] = f /\ p[1] = CurrentDir(w.dirs) /\ Alone(w.disk, p) /\ h = w.disk[p].has
        /\ p[1] \in Dirs /\ p[3] \in {"name", "part"} /\ p = <<p[1], f, p[3]>>
    BY <1>3, PlaceIs DEF Lies
  <2>1. ~Missing(w, f) /\ Found(w, f) = p
    BY <1>0, <2>0, FoundIs
  <2> DEFINE t == <<dir, f, p[3]>>
  <2>2. t \in Places /\ t[1] = dir /\ t[2] = f /\ t[3] = p[3]
    BY <2>0, PlaceOf
  <2>3. t # p
    BY <2>0, <2>2
  <2>4. \A q \in Places : q[2] = f => D[q] = IF q = t THEN w.disk[p] ELSE IF q = p THEN Nothing2 ELSE w.disk[q]
    <3> TAKE q \in Places
    <3>1. D[q] = IF ~(q[2] \in TFiles /\ ~Missing(w, q[2]) /\ Found(w, q[2])[1] # dir) THEN w.disk[q]
                 ELSE IF q = <<dir, q[2], Found(w, q[2])[3]>> THEN w.disk[Found(w, q[2])]
                 ELSE IF q = Found(w, q[2]) THEN Nothing2 ELSE w.disk[q]
      BY <1>1 DEF AfterMove
    <3> HAVE q[2] = f
    <3> QED
      BY <2>0, <2>1, <3>1
  <2> HIDE DEF t
  <2>5. D[t] = w.disk[p] /\ \A q \in Places : q[2] = f /\ q # t => D[q] = Nothing2
    BY <2>0, <2>2, <2>3, <2>4 DEF Alone
  <2>6. Alone(D, t)
    BY <2>0, <2>2, <2>5 DEF Alone
  <2>7. OnDisk(D, dir, h, f)
    BY <2>0, <2>2, <2>5, <2>6 DEF OnDisk
  <2>8. NamedOnDisk(D, h, f)
    <3>1. h = TBlocks => p[3] = "name"
      BY <2>0 DEF FileNamed, Alone
    <3> QED
      BY <2>2, <2>5, <3>1 DEF NamedOnDisk, Nothing2
  <2>9. Nothing2 \in CopyOnDisk /\ w.disk[p] \in CopyOnDisk
    BY <1>0 DEF Nothing2, CopyOnDisk, Disks
  <2> QED
    BY <2>5, <2>7, <2>8, <2>9
<1> QED
  BY <1>2, <1>3 DEF FileOK, D

LEMMA MovedWorld ==
    ASSUME NEW w, WorldIs(w), NEW dir \in Dirs, NEW across \in BOOLEAN, dir # CurrentDir(w.dirs),
           NEW H, \A f \in TFiles : FileOK(w, H[f], f) /\ FileNamed(w, H[f], f),
           \A f \in TFiles : w.cached[f] = {}
    PROVE  /\ WorldIs(MoveFiles(w, TFiles, dir, across))
           /\ MoveFiles(w, TFiles, dir, across).dirs = w.dirs
           /\ MoveFiles(w, TFiles, dir, across).cached = w.cached
           /\ \A f \in TFiles : /\ OnDisk(MoveFiles(w, TFiles, dir, across).disk, dir, H[f], f)
                                /\ NamedOnDisk(MoveFiles(w, TFiles, dir, across).disk, H[f], f)
<1> DEFINE v == MoveFiles(w, TFiles, dir, across)
<1>s. TFiles \in SUBSET TFiles
  OBVIOUS
<1>w. w.dirs \in DirsOfTorrent /\ w.cached \in Waits /\ w.open \in Opens /\ DirsOK(w.dirs)
  BY DEF WorldIs, FileWorlds
<1>1. v = [dirs |-> w.dirs, disk |-> [p \in Places |-> AfterMove(w, TFiles, dir, p)],
           open |-> [f \in TFiles |-> OpenAfterMove(w, TFiles, dir, across, f)], cached |-> w.cached]
  BY <1>s, MovedParts, ZenonT(60)
<1>2. /\ \A f \in TFiles : OnDisk(v.disk, dir, H[f], f) /\ NamedOnDisk(v.disk, H[f], f)
      /\ \A f \in TFiles : \A p \in Places : p[2] = f => v.disk[p] \in CopyOnDisk
  BY MovedFile
<1> HIDE DEF v
<1>3. v.disk = [p \in Places |-> AfterMove(w, TFiles, dir, p)]
  BY <1>1
<1>4. v.open = [f \in TFiles |-> OpenAfterMove(w, TFiles, dir, across, f)]
  BY <1>1
<1>5. v.disk \in Disks
  <2>1. \A p \in Places : AfterMove(w, TFiles, dir, p) \in CopyOnDisk
    BY <1>2, <1>3, PlaceIs
  <2> QED
    BY <2>1, <1>3 DEF Disks
<1>6. v.open \in Opens
  <2>1. ASSUME NEW f \in TFiles PROVE OpenAfterMove(w, TFiles, dir, across, f) \in Places \cup {Shut2, Unlinked}
    <3>1. w.open[f] \in Places \cup {Shut2, Unlinked}
      BY <1>w DEF Opens
    <3>2. ~Missing(w, f) => <<dir, f, Found(w, f)[3]>> \in Places
      BY <1>w, FoundPlace, PlaceIs, PlaceOf
    <3> QED
      BY <3>1, <3>2 DEF OpenAfterMove
  <2> QED
    BY <2>1, <1>4 DEF Opens
<1>7. v \in FileWorlds /\ v.dirs = w.dirs /\ v.cached = w.cached
  <2>1. v = [dirs |-> w.dirs, disk |-> v.disk, open |-> v.open, cached |-> w.cached]
    BY <1>1
  <2> QED
    BY <2>1, <1>5, <1>6, <1>w DEF FileWorlds
<1> QED
  BY <1>2, <1>7, <1>w DEF WorldIs, v

\* Nothing is flushed, and what is deleted is not there.
LEMMA NothingDeleted ==
    ASSUME NEW w, WorldIs(w), \A f \in TFiles : w.cached[f] = {},
           \A p \in Places : p[1] = CurrentDir(w.dirs) => w.disk[p] = Nothing2
    PROVE  DeleteLocalData(w) = CloseAll(w)
<1>0. /\ w = [dirs |-> w.dirs, disk |-> w.disk, open |-> w.open, cached |-> w.cached]
      /\ w.disk \in Disks /\ w.open \in Opens /\ w.cached \in Waits /\ DirsOK(w.dirs)
  BY DEF WorldIs, FileWorlds
<1>1. Flushed(w, TFiles) = w
  <2> DEFINE S == TFiles
             v == Flushed(w, S)
  <2>s. S \in SUBSET TFiles
    OBVIOUS
  <2> HIDE DEF S
  <2>1. /\ v.dirs = w.dirs
        /\ v.cached = [f \in TFiles |-> IF f \in S /\ w.cached[f] # {} THEN {} ELSE w.cached[f]]
        /\ v.open = [f \in TFiles |-> IF f \in S /\ w.cached[f] # {} THEN Target(w, f) ELSE w.open[f]]
        /\ v.disk = [p \in Places |->
                 IF p[2] \in S /\ w.cached[p[2]] # {} /\ p = Target(w, p[2])
                 THEN [there |-> TRUE, has |-> w.disk[p].has \cup w.cached[p[2]]] ELSE w.disk[p]]
        /\ v = [dirs |-> v.dirs, disk |-> v.disk, open |-> v.open, cached |-> v.cached]
    BY <2>s, FlushedParts
  <2> HIDE DEF v
  <2>2. v.cached = w.cached /\ v.open = w.open
    BY <2>1, <1>0 DEF Waits, Opens
  <2>3. \A p \in Places : v.disk[p] = w.disk[p]
    <3> TAKE p \in Places
    <3>1. v.disk[p] = IF p[2] \in S /\ w.cached[p[2]] # {} /\ p = Target(w, p[2])
                 THEN [there |-> TRUE, has |-> w.disk[p].has \cup w.cached[p[2]]] ELSE w.disk[p]
      BY <2>1
    <3>2. p[2] \in TFiles
      BY PlaceIs
    <3> QED
      BY <3>1, <3>2
  <2>4. v.disk = w.disk
    <3>1. v.disk = [p \in Places |-> v.disk[p]]
      BY <2>1
    <3>2. w.disk = [p \in Places |-> w.disk[p]]
      BY <1>0 DEF Disks
    <3> QED
      BY <2>3, <3>1, <3>2
  <2>5. v = w
    BY <1>0, <2>1, <2>2, <2>4
  <2> QED
    BY <2>5 DEF v, S
<1>2. DeletedFiles(CloseAll(w)) = CloseAll(w)
  <2> DEFINE x == CloseAll(w)
             here(f, n) == <<CurrentDir(x.dirs), f, n>>
             victims == {here(f, IF x.disk[here(f, "name")].there THEN "name" ELSE "part") : f \in TFiles}
             E == [p \in Places |-> IF p \in victims THEN Nothing2 ELSE x.disk[p]]
  <2>1. /\ x.dirs = w.dirs /\ x.disk = w.disk
        /\ x = [dirs |-> w.dirs, disk |-> w.disk, open |-> x.open, cached |-> w.cached]
    BY <1>0 DEF CloseAll
  <2>2. DeletedFiles(x) = [x EXCEPT !.disk = E]
    BY DEF DeletedFiles
  <2>3. \A p \in victims : p[1] = CurrentDir(w.dirs)
    <3>1. \A f, n : here(f, n)[1] = CurrentDir(w.dirs)
      BY <2>1
    <3> HIDE DEF here
    <3> QED
      BY <3>1
  <2> HIDE DEF x, victims
  <2>4. \A p \in Places : E[p] = w.disk[p]
    BY <2>1, <2>3
  <2>5. E = w.disk
    BY <2>4, <1>0 DEF Disks
  <2> HIDE DEF E
  <2>6. DeletedFiles(x) = x
    BY <2>1, <2>2, <2>5
  <2> QED
    BY <2>6 DEF x
<1> QED
  BY <1>1, <1>2 DEF DeleteLocalData

\* The new place of the torrent is its only directory.
LEMMA SettledThere ==
    ASSUME NEW w, NEW dir, w = [dirs |-> w.dirs, disk |-> w.disk, open |-> w.open, cached |-> w.cached],
           w.dirs \in DirsOfTorrent
    PROVE  Settled(SetDownloadDir(w, dir)) =
               [dirs |-> [download |-> dir, incomplete |-> "none", current |-> "download"],
                disk |-> w.disk, open |-> w.open, cached |-> w.cached]
<1> DEFINE x == [w EXCEPT !.dirs.download = dir]
           c == IF x.dirs.incomplete = "none" THEN "download"
                ELSE IF Missing(x, 1) THEN "incomplete"
                ELSE IF Found(x, 1)[1] = x.dirs.download THEN "download" ELSE "incomplete"
<1>1. /\ x = [dirs |-> x.dirs, disk |-> w.disk, open |-> w.open, cached |-> w.cached]
      /\ x.dirs = [download |-> dir, incomplete |-> w.dirs.incomplete, current |-> w.dirs.current]
  BY DEF DirsOfTorrent
<1>2. SetDownloadDir(w, dir) = [x EXCEPT !.dirs.current = c]
  BY DEF SetDownloadDir, Refreshed
<1> HIDE DEF x, c
<1>3. SetDownloadDir(w, dir) = [dirs |-> [download |-> dir, incomplete |-> w.dirs.incomplete, current |-> c],
                                disk |-> w.disk, open |-> w.open, cached |-> w.cached]
  BY <1>1, <1>2
<1> QED
  BY <1>3 DEF Settled

-----------------------------------------------------------------------------
\* The first file tells which directory is the current one.
RefreshedTo(w) ==
    IF w.dirs.incomplete = "none" THEN "download"
    ELSE IF Missing(w, 1) THEN "incomplete"
    ELSE IF Found(w, 1)[1] = w.dirs.download THEN "download" ELSE "incomplete"

LEMMA RefreshedIs ==
    ASSUME NEW w, WorldIs(w)
    PROVE  Refreshed(w) =
               [dirs |-> [download |-> w.dirs.download, incomplete |-> w.dirs.incomplete, current |-> RefreshedTo(w)],
                disk |-> w.disk, open |-> w.open, cached |-> w.cached]
<1> DEFINE c == RefreshedTo(w)
<1>0. /\ w = [dirs |-> w.dirs, disk |-> w.disk, open |-> w.open, cached |-> w.cached]
      /\ w.dirs = [download |-> w.dirs.download, incomplete |-> w.dirs.incomplete, current |-> w.dirs.current]
  BY DEF WorldIs, FileWorlds, DirsOfTorrent
<1>1. Refreshed(w) = [w EXCEPT !.dirs.current = c]
  BY DEF Refreshed, RefreshedTo
<1> HIDE DEF c
<1>2. Refreshed(w) = [dirs |-> [download |-> w.dirs.download, incomplete |-> w.dirs.incomplete, current |-> c],
                      disk |-> w.disk, open |-> w.open, cached |-> w.cached]
  BY <1>0, <1>1
<1> QED
  BY <1>2 DEF c

LEMMA RefreshedType ==
    ASSUME NEW w, WorldIs(w)
    PROVE  WorldIs(Refreshed(w))
<1>1. RefreshedTo(w) \in {"download", "incomplete"} /\ (w.dirs.incomplete = "none" => RefreshedTo(w) = "download")
  BY DEF RefreshedTo
<1> QED
  BY <1>1, RefreshedIs DEF WorldIs, FileWorlds, DirsOfTorrent, DirsOK

\* Where all is flushed, the directory stays what it was.
LEMMA RefreshedKeeps ==
    ASSUME NEW w, WorldIs(w), NEW h, FileOK(w, h, 1), w.cached[1] = {}, OneHome(w.dirs, h), 1 \in TFiles
    PROVE  /\ CurrentDir(Refreshed(w).dirs) = CurrentDir(w.dirs) /\ OneHome(Refreshed(w).dirs, h)
           /\ w.dirs.current = "download" \/ w.dirs.incomplete = "none" => Refreshed(w).dirs.current = "download"
<1> DEFINE v == Refreshed(w)
           c == RefreshedTo(w)
<1>0. DirsOK(w.dirs) /\ w.dirs.current \in {"download", "incomplete"}
  BY DEF WorldIs, DirsOK, DirsOfTorrent
<1>1. v.dirs = [download |-> w.dirs.download, incomplete |-> w.dirs.incomplete, current |-> c]
  BY RefreshedIs
<1> HIDE DEF v
<1>2. CASE w.dirs.incomplete = "none"
  BY <1>0, <1>1, <1>2 DEF RefreshedTo, CurrentDir, OneHome, DirsOK, v
<1>3. CASE w.dirs.incomplete # "none" /\ NoneOnDisk(w, h, 1)
  <2>1. Missing(w, 1)
    BY <1>0, <1>3, MissingIs DEF NoneOnDisk
  <2>2. c = "incomplete"
    BY <1>3, <2>1 DEF RefreshedTo
  <2>3. w.dirs.current = "incomplete"
    BY <1>0, <1>3 DEF NoneOnDisk, OneHome
  <2> QED
    BY <1>1, <1>3, <2>2, <2>3 DEF CurrentDir, OneHome, v
<1>4. ASSUME w.dirs.incomplete # "none", NEW p \in Places, Lies(w, h, 1, p)
      PROVE  /\ CurrentDir(v.dirs) = CurrentDir(w.dirs) /\ OneHome(v.dirs, h)
             /\ w.dirs.current = "download" => v.dirs.current = "download"
  <2>1. ~Missing(w, 1) /\ Found(w, 1) = p /\ p[1] = CurrentDir(w.dirs) /\ h # {}
    BY <1>0, <1>4, FoundIs DEF Lies, Alone
  <2>2. c = IF p[1] = w.dirs.download THEN "download" ELSE "incomplete"
    BY <1>4, <2>1 DEF RefreshedTo
  <2> HIDE DEF c
  <2>3. CASE w.dirs.current = "download"
    BY <1>1, <2>1, <2>2, <2>3 DEF CurrentDir, OneHome
  <2>4. CASE w.dirs.current = "incomplete"
    BY <1>1, <2>1, <2>2, <2>4 DEF CurrentDir, OneHome
  <2> QED
    BY <1>0, <2>3, <2>4
<1> QED
  BY <1>2, <1>3, <1>4 DEF FileOK, v

-----------------------------------------------------------------------------
\* Moving the torrent.
LEMMA EveryFile ==
    /\ 1 \in TFiles /\ {f \in TFiles : f < NoFailure} = TFiles
    /\ \A f \in TFiles : ~(f >= NoFailure)
<1>1. Cardinality(TFiles) \in Nat
  BY FilesAssumption, FS_CardinalityType
<1>2. \A f \in TFiles : f \in Nat /\ f <= Cardinality(TFiles)
  BY <1>1, FilesAssumption
<1>3. \A f \in TFiles : f < NoFailure /\ ~(f >= NoFailure)
  BY <1>1, <1>2 DEF NoFailure
<1> QED
  BY <1>3, FilesAssumption

LEMMA MovedElsewhere ==
    ASSUME NEW w, NEW H, WorldGood(w, H), NEW dir \in Dirs, NEW across \in BOOLEAN,
           dir # CurrentDir(w.dirs), \A f \in TFiles : w.cached[f] = {}
    PROVE  /\ WorldGood(Relocated(w, dir, TRUE, across, NoFailure), H)
           /\ Relocated(w, dir, TRUE, across, NoFailure).dirs.incomplete = "none"
<1> DEFINE v == MoveFiles(w, TFiles, dir, across)
           e == CloseAll(v)
           r == Relocated(w, dir, TRUE, across, NoFailure)
<1>1. /\ WorldIs(v) /\ v.dirs = w.dirs /\ v.cached = w.cached
      /\ \A f \in TFiles : OnDisk(v.disk, dir, H[f], f) /\ NamedOnDisk(v.disk, H[f], f)
  BY MovedWorld DEF WorldGood
<1>2. r = Settled(SetDownloadDir(DeleteLocalData(v), dir))
  BY EveryFile DEF Relocated
<1> HIDE DEF v
<1>3. \A p \in Places : p[1] = CurrentDir(v.dirs) => v.disk[p] = Nothing2
  <2> SUFFICES ASSUME NEW p \in Places, p[1] = CurrentDir(v.dirs) PROVE v.disk[p] = Nothing2
    OBVIOUS
  <2>1. p[2] \in TFiles
    BY PlaceIs
  <2>2. OnDisk(v.disk, dir, H[p[2]], p[2])
    BY <1>1, <2>1
  <2> QED
    BY <1>1, <2>1, <2>2 DEF OnDisk, Bare, Alone
<1>4. DeleteLocalData(v) = e
  BY <1>1, <1>3, NothingDeleted
<1>5. WorldIs(e) /\ e.dirs = v.dirs /\ e.disk = v.disk /\ e.cached = v.cached /\ \A f \in TFiles : e.open[f] = Shut2
  BY <1>1, ClosedWorld
<1> HIDE DEF e
<1>6. r = [dirs |-> [download |-> dir, incomplete |-> "none", current |-> "download"],
           disk |-> e.disk, open |-> e.open, cached |-> e.cached]
  <2>1. e = [dirs |-> e.dirs, disk |-> e.disk, open |-> e.open, cached |-> e.cached] /\ e.dirs \in DirsOfTorrent
    BY <1>5 DEF WorldIs, FileWorlds
  <2> QED
    BY <1>2, <1>4, <2>1, SettledThere
<1> HIDE DEF r
<1>7. WorldIs(r) /\ OneHome(r.dirs, H[1])
  BY <1>5, <1>6 DEF WorldIs, FileWorlds, DirsOfTorrent, DirsOK, OneHome
<1>8. ASSUME NEW f \in TFiles PROVE FileOK(r, H[f], f) /\ FileNamed(r, H[f], f)
  <2>0. CurrentDir(r.dirs) = dir /\ r.disk = v.disk /\ r.cached[f] = {} /\ r.open[f] = Shut2
    BY <1>1, <1>5, <1>6 DEF CurrentDir
  <2>1. OnDisk(v.disk, dir, H[f], f) /\ NamedOnDisk(v.disk, H[f], f)
    BY <1>1
  <2>2. FileNamed(r, H[f], f)
    BY <2>0, <2>1 DEF FileNamed, NamedOnDisk
  <2>3. CASE Bare(v.disk, f) /\ H[f] = {}
    BY <2>0, <2>2, <2>3 DEF FileOK, NoneOnDisk
  <2>4. ASSUME NEW p \in Places, p[2] = f, p[1] = dir, Alone(v.disk, p), H[f] = v.disk[p].has
        PROVE  FileOK(r, H[f], f)
    BY <2>0, <2>4 DEF FileOK, Lies
  <2> QED
    BY <2>1, <2>2, <2>3, <2>4 DEF OnDisk
<1>9. WorldGood(r, H) /\ r.dirs.incomplete = "none"
  BY <1>6, <1>7, <1>8 DEF WorldGood
<1> QED
  BY <1>9 DEF r

LEMMA MovedHere ==
    ASSUME NEW w, NEW H, WorldGood(w, H), NEW dir \in Dirs, NEW across \in BOOLEAN,
           dir = CurrentDir(w.dirs), w.dirs.current # "incomplete"
    PROVE  /\ WorldGood(Relocated(w, dir, TRUE, across, NoFailure), H)
           /\ Relocated(w, dir, TRUE, across, NoFailure).dirs.incomplete = "none"
<1> DEFINE r == Relocated(w, dir, TRUE, across, NoFailure)
<1>0. w = [dirs |-> w.dirs, disk |-> w.disk, open |-> w.open, cached |-> w.cached]
  BY DEF WorldGood, WorldIs, FileWorlds
<1>1. r = Settled(w)
  BY DEF Relocated
<1>2. r = [dirs |-> [download |-> w.dirs.download, incomplete |-> "none", current |-> "download"],
           disk |-> w.disk, open |-> w.open, cached |-> w.cached]
  BY <1>0, <1>1 DEF Settled
<1> HIDE DEF r
<1>3. WorldIs(r) /\ OneHome(r.dirs, H[1]) /\ CurrentDir(r.dirs) = CurrentDir(w.dirs)
  BY <1>2 DEF WorldGood, WorldIs, FileWorlds, DirsOfTorrent, DirsOK, OneHome, CurrentDir
<1>4. ASSUME NEW f \in TFiles PROVE FileOK(r, H[f], f) /\ FileNamed(r, H[f], f)
  <2>1. r.disk = w.disk /\ r.cached = w.cached /\ r.open = w.open /\ FileOK(w, H[f], f) /\ FileNamed(w, H[f], f)
    BY <1>2 DEF WorldGood
  <2>2. FileOK(r, H[f], f)
    BY <1>3, <2>1, FileFrame
  <2> QED
    BY <2>1, <2>2, NamedFrame
<1>5. WorldGood(r, H) /\ r.dirs.incomplete = "none"
  BY <1>2, <1>3, <1>4 DEF WorldGood
<1> QED
  BY <1>5 DEF r

\* The directory changes and no file is moved: there is none.
LEMMA NothingToMove ==
    ASSUME NEW w, NEW H, WorldGood(w, H), NEW dir \in Dirs, NEW across \in BOOLEAN, NEW failsAt,
           \A f \in TFiles : H[f] = {}, NEW move \in BOOLEAN, ~move
    PROVE  /\ WorldGood(Relocated(w, dir, move, across, failsAt), H)
           /\ w.dirs.incomplete = "none" => Relocated(w, dir, move, across, failsAt).dirs.incomplete = "none"
           /\ w.dirs.incomplete = "none" \/ w.dirs.current = "incomplete"
<1> DEFINE r == Relocated(w, dir, move, across, failsAt)
           x == [w EXCEPT !.dirs.download = dir]
<1>h. w.dirs.incomplete = "none" \/ w.dirs.current = "incomplete"
  BY EveryFile DEF WorldGood, WorldIs, DirsOK, DirsOfTorrent, OneHome
<1>1. CASE dir = CurrentDir(w.dirs)
  BY <1>1, <1>h DEF Relocated
<1>2. CASE dir # CurrentDir(w.dirs)
  <2>0. /\ w = [dirs |-> w.dirs, disk |-> w.disk, open |-> w.open, cached |-> w.cached]
        /\ w.dirs = [download |-> w.dirs.download, incomplete |-> w.dirs.incomplete, current |-> w.dirs.current]
    BY DEF WorldGood, WorldIs, FileWorlds, DirsOfTorrent
  <2>1. r = Refreshed(x)
    BY <1>2 DEF Relocated, SetDownloadDir
  <2>2. x = [dirs |-> [download |-> dir, incomplete |-> w.dirs.incomplete, current |-> w.dirs.current],
             disk |-> w.disk, open |-> w.open, cached |-> w.cached]
    BY <2>0
  <2> HIDE DEF x
  <2>3. WorldIs(x)
    BY <2>2 DEF WorldGood, WorldIs, FileWorlds, DirsOfTorrent, DirsOK
  <2>4. /\ WorldIs(r)
        /\ r = [dirs |-> [download |-> dir, incomplete |-> w.dirs.incomplete, current |-> RefreshedTo(x)],
                disk |-> w.disk, open |-> w.open, cached |-> w.cached]
    <3>1. WorldIs(Refreshed(x))
      BY <2>3, RefreshedType
    <3>2. Refreshed(x) = [dirs |-> [download |-> x.dirs.download, incomplete |-> x.dirs.incomplete, current |-> RefreshedTo(x)],
                          disk |-> x.disk, open |-> x.open, cached |-> x.cached]
      BY <2>3, RefreshedIs
    <3> QED
      BY <2>1, <2>2, <3>1, <3>2
  <2> HIDE DEF r
  <2>5. ASSUME NEW f \in TFiles PROVE NoneOnDisk(w, {}, f) /\ FileNamed(w, {}, f)
    <3>1. FileOK(w, {}, f) /\ FileNamed(w, {}, f)
      BY DEF WorldGood
    <3> QED
      BY <3>1 DEF FileOK, Lies, Alone
  <2>6. ASSUME NEW f \in TFiles PROVE FileOK(r, H[f], f) /\ FileNamed(r, H[f], f)
    <3>1. r.disk = w.disk /\ r.cached = w.cached /\ r.open = w.open /\ H[f] = {}
      BY <2>4
    <3> QED
      BY <2>5, <3>1 DEF FileOK, NoneOnDisk, FileNamed
  <2>7. OneHome(r.dirs, H[1])
    <3>1. Missing(x, 1)
      <4>1. Bare(x.disk, 1) /\ 1 \in TFiles
        BY <2>2, <2>5, EveryFile DEF NoneOnDisk
      <4> QED
        BY <2>3, <4>1, MissingIs DEF WorldIs
    <3>2. w.dirs.incomplete # "none" => RefreshedTo(x) = "incomplete"
      BY <2>2, <3>1 DEF RefreshedTo
    <3> QED
      BY <2>4, <3>2 DEF OneHome
  <2>8. WorldGood(r, H) /\ (w.dirs.incomplete = "none" => r.dirs.incomplete = "none")
    BY <2>4, <2>6, <2>7 DEF WorldGood
  <2> QED
    BY <1>h, <2>8 DEF r
<1> QED
  BY <1>1, <1>2

-----------------------------------------------------------------------------
\* The steps
LEMMA InitFiles == FilesInit => FilesIInv
<1> SUFFICES ASSUME FilesInit PROVE FilesIInv
  OBVIOUS
<1>1. /\ had = [f \in TFiles |-> {}] /\ cached = [f \in TFiles |-> {}] /\ open2 = [f \in TFiles |-> Shut2]
      /\ disk2 = [p \in Places |-> Nothing2]
      /\ had \in Waits /\ cached \in Waits /\ open2 \in Opens
  BY DEF FilesInit, Waits, Opens
<1>2. disk2 \in Disks
  BY <1>1 DEF Disks, CopyOnDisk, Nothing2
<1>3. dirs \in DirsOfTorrent /\ DirsOK(dirs) /\ OneHome(dirs, had[1])
  BY DEF FilesInit, DirsOfTorrent, DirsOK, OneHome, Dirs
<1>4. status2 \in FileStatuses /\ status2.life = "here" /\ status2.completeness = "leech"
  BY DEF FilesInit, FileStatuses
<1>5. WorldIs(State)
  BY <1>1, <1>2, <1>3 DEF WorldIs, FileWorlds, State
<1>6. ASSUME NEW f \in TFiles PROVE FileOK(State, had[f], f) /\ FileNamed(State, had[f], f)
  BY <1>1 DEF FileOK, NoneOnDisk, Bare, FileNamed, State, Nothing2
<1>7. WorldGood(State, had)
  BY <1>3, <1>5, <1>6 DEF WorldGood, State
<1>8. FilesGood
  BY <1>1, <1>4, <1>7 DEF FilesGood, InPlace
<1> QED
  BY <1>4, <1>8 DEF FilesIInv

LEMMA NowIs ==
    ASSUME NEW w, WorldIs(w), Now(w)
    PROVE  State' = w /\ dirs' = w.dirs
BY DEF WorldIs, FileWorlds, Now, State

LEMMA StateIs ==
    State.dirs = dirs /\ State.disk = disk2 /\ State.open = open2 /\ State.cached = cached
BY DEF State

LEMMA GoodAfter ==
    ASSUME had' \in Waits, status2' \in FileStatuses, status2'.life # "deleted",
           NEW w, Now(w), WorldGood(w, had'), InPlace(w.dirs, status2')
    PROVE  FilesIInv'
<1>1. State' = w /\ dirs' = w.dirs
  BY NowIs DEF WorldGood
<1>2. FilesGood'
  BY <1>1 DEF FilesGood
<1> QED
  BY <1>2 DEF FilesIInv

LEMMA ClosedGood ==
    ASSUME NEW w, NEW H, WorldGood(w, H)
    PROVE  WorldGood(CloseAll(w), H) /\ CloseAll(w).dirs = w.dirs
<1> DEFINE v == CloseAll(w)
<1>1. /\ WorldIs(v) /\ v.dirs = w.dirs /\ v.disk = w.disk /\ v.cached = w.cached
      /\ \A f \in TFiles : v.open[f] = Shut2
  BY ClosedWorld DEF WorldGood
<1> HIDE DEF v
<1>2. ASSUME NEW f \in TFiles PROVE FileOK(v, H[f], f) /\ FileNamed(v, H[f], f)
  <2>0. FileOK(w, H[f], f) /\ FileNamed(w, H[f], f) /\ v.open[f] = Shut2 /\ CurrentDir(v.dirs) = CurrentDir(w.dirs)
    BY <1>1 DEF WorldGood
  <2>1. FileOK(v, H[f], f)
    BY <1>1, <2>0, FileFrame
  <2>2. FileNamed(v, H[f], f)
    BY <1>1, <2>0, NamedFrame
  <2> QED
    BY <2>1, <2>2
<1>3. WorldGood(v, H)
  BY <1>1, <1>2 DEF WorldGood
<1> QED
  BY <1>1, <1>3 DEF v

LEMMA FlushedGood ==
    ASSUME NEW w, NEW H, WorldGood(w, H), NEW S \in SUBSET TFiles, status2 \in FileStatuses
    PROVE  /\ WorldGood(Flushed(w, S), H) /\ Flushed(w, S).dirs = w.dirs
           /\ \A f \in S : Flushed(w, S).cached[f] = {}
<1> DEFINE v == Flushed(w, S)
<1>0. WorldIs(w) /\ \A f \in TFiles : FileOK(w, H[f], f) /\ FileNamed(w, H[f], f)
  BY DEF WorldGood
<1>1. WorldIs(v)
  BY <1>0, FlushedType
<1>2. v.dirs = w.dirs
  BY <1>0, FlushedParts
<1>3. \A f \in TFiles : FileOK(v, H[f], f) /\ FileNamed(v, H[f], f) /\ (f \in S => v.cached[f] = {})
  BY <1>0, FlushedFile
<1> HIDE DEF v
<1>4. WorldGood(v, H)
  BY <1>1, <1>2, <1>3 DEF WorldGood
<1> QED
  BY <1>2, <1>3, <1>4 DEF v

LEMMA FlushStep ==
    ASSUME FilesGood, NEW f \in TFiles, FlushesFile(f)
    PROVE  FilesIInv'
<1>1. /\ Lives /\ Now(Flushed(State, {f})) /\ had' = had /\ status2' = status2
      /\ had \in Waits /\ status2 \in FileStatuses /\ WorldGood(State, had) /\ InPlace(dirs, status2)
  BY DEF FlushesFile, FilesGood
<1> DEFINE w == Flushed(State, {f})
<1>2. WorldGood(w, had) /\ w.dirs = dirs
  BY <1>1, FlushedGood, StateIs
<1> HIDE DEF w
<1> QED
  BY <1>1, <1>2, GoodAfter DEF w, Lives

LEMMA EvictStep ==
    ASSUME FilesGood, NEW f \in TFiles, EvictsFile(f)
    PROVE  FilesIInv'
<1>1. /\ Lives /\ open2' = [open2 EXCEPT ![f] = Shut2] /\ UNCHANGED <<dirs, disk2, cached, had, status2>>
      /\ had \in Waits /\ status2 \in FileStatuses /\ WorldGood(State, had) /\ InPlace(dirs, status2)
  BY DEF EvictsFile, FilesGood
<1> DEFINE w == [dirs |-> dirs, disk |-> disk2, open |-> [open2 EXCEPT ![f] = Shut2], cached |-> cached]
<1>2. Now(w)
  BY <1>1 DEF Now
<1>3. w.dirs = dirs /\ w.disk = disk2 /\ w.cached = cached /\ w.open = [open2 EXCEPT ![f] = Shut2]
  OBVIOUS
<1>4. dirs \in DirsOfTorrent /\ disk2 \in Disks /\ open2 \in Opens /\ cached \in Waits
  BY <1>1 DEF WorldGood, WorldIs, FileWorlds, State
<1>5. [open2 EXCEPT ![f] = Shut2] \in Opens /\ \A g \in TFiles : w.open[g] = open2[g] \/ w.open[g] = Shut2
  BY <1>4 DEF Opens
<1>6. w \in FileWorlds
  BY <1>4, <1>5 DEF FileWorlds
<1> HIDE DEF w
<1>7. WorldIs(w) /\ OneHome(w.dirs, had[1])
  BY <1>1, <1>3, <1>6, StateIs DEF WorldIs, WorldGood
<1>8. ASSUME NEW g \in TFiles PROVE FileOK(w, had[g], g) /\ FileNamed(w, had[g], g)
  <2>0. FileOK(State, had[g], g) /\ FileNamed(State, had[g], g)
    BY <1>1 DEF WorldGood
  <2>1. FileOK(w, had[g], g)
    BY <1>3, <1>5, <2>0, StateIs, FileFrame
  <2>2. FileNamed(w, had[g], g)
    BY <1>3, <2>0, StateIs, NamedFrame
  <2> QED
    BY <2>1, <2>2
<1>9. WorldGood(w, had)
  BY <1>7, <1>8 DEF WorldGood
<1> QED
  BY <1>1, <1>2, <1>3, <1>9, GoodAfter DEF Lives

\* A block arrives: it waits, and if all of the file is there the file is
\* flushed, and gets its name.
LEMMA BlockArrives ==
    ASSUME FilesGood, NEW f \in TFiles, NEW b \in TBlocks, b \notin had[f],
           NEW w, w = [State EXCEPT !.cached[f] = @ \cup {b}],
           NEW H, H = [had EXCEPT ![f] = @ \cup {b}]
    PROVE  /\ WorldIs(w) /\ w.dirs = dirs /\ OneHome(dirs, H[1]) /\ H \in Waits
           /\ H[f] = had[f] \cup {b} /\ \A g \in TFiles : FileOK(w, H[g], g)
           /\ \A g \in TFiles : g # f => FileNamed(w, H[g], g)
           /\ had[f] # TBlocks
<1>0. /\ had \in Waits /\ WorldGood(State, had) /\ WorldIs(State) /\ OneHome(dirs, had[1])
      /\ \A g \in TFiles : FileOK(State, had[g], g) /\ FileNamed(State, had[g], g)
  BY StateIs DEF FilesGood, WorldGood
<1>1. dirs \in DirsOfTorrent /\ disk2 \in Disks /\ open2 \in Opens /\ cached \in Waits /\ DirsOK(dirs)
  BY <1>0, StateIs DEF WorldIs, FileWorlds
<1> DEFINE c == [cached EXCEPT ![f] = @ \cup {b}]
<1>2. c \in Waits /\ c[f] = cached[f] \cup {b} /\ \A g \in TFiles : g # f => c[g] = cached[g]
  BY <1>1 DEF Waits
<1>3. H \in Waits /\ H[f] = had[f] \cup {b} /\ \A g \in TFiles : g # f => H[g] = had[g]
  BY <1>0 DEF Waits
<1>4. w = [dirs |-> dirs, disk |-> disk2, open |-> open2, cached |-> c]
  BY DEF State
<1> HIDE DEF c
<1>5. WorldIs(w) /\ w.dirs = dirs /\ w.disk = disk2 /\ w.open = open2 /\ w.cached = c
  <2>1. w.dirs = dirs /\ w.disk = disk2 /\ w.open = open2 /\ w.cached = c
    BY ONLY <1>4
  <2>2. w \in FileWorlds
    BY ONLY <1>1, <1>2, <1>4 DEF FileWorlds
  <2> QED
    BY ONLY <1>1, <2>1, <2>2 DEF WorldIs
<1>6. OneHome(dirs, H[1])
  BY <1>0, <1>3, EveryFile DEF OneHome
<1>7. ASSUME NEW g \in TFiles, g # f PROVE FileOK(w, H[g], g) /\ FileNamed(w, H[g], g)
  <2>1. FileOK(State, H[g], g) /\ FileNamed(State, H[g], g)
    BY <1>0, <1>3, <1>7
  <2>2. FileOK(w, H[g], g)
    BY <1>2, <1>5, <1>7, <2>1, StateIs, FileFrame, ZenonT(60)
  <2>3. FileNamed(w, H[g], g)
    BY <1>2, <1>5, <1>7, <2>1, StateIs, NamedFrame, ZenonT(60)
  <2> QED
    BY <2>2, <2>3
<1>8. FileOK(w, H[f], f)
  <2>1. CASE NoneOnDisk(State, had[f], f)
    <3>1. NoneOnDisk(w, H[f], f)
      BY <1>2, <1>3, <1>5, <2>1, StateIs DEF NoneOnDisk
    <3> QED
      BY <3>1 DEF FileOK
  <2>2. ASSUME NEW p \in Places, Lies(State, had[f], f, p) PROVE FileOK(w, H[f], f)
    <3>1. Lies(w, H[f], f, p)
      BY <1>2, <1>3, <1>5, <2>2, StateIs, ZenonT(60) DEF Lies
    <3> QED
      BY <3>1 DEF FileOK
  <2> QED
    BY <1>0, <2>1, <2>2 DEF FileOK
<1> QED
  BY <1>3, <1>5, <1>6, <1>7, <1>8

\* What is claimed can be read.
LEMMA ReadableIs ==
    ASSUME NEW w, WorldIs(w), NEW h, NEW f \in TFiles, FileOK(w, h, f)
    PROVE  Readable(w, f) = h
<1>1. CASE NoneOnDisk(w, h, f)
  BY <1>1, MissingIs DEF NoneOnDisk, Readable, WorldIs
<1>2. ASSUME NEW p \in Places, Lies(w, h, f, p) PROVE Readable(w, f) = h
  <2>1. ~Missing(w, f) /\ Found(w, f) = p
    BY <1>2, FoundIs DEF Lies, WorldIs
  <2>2. p \notin {Shut2, Unlinked}
    BY PlaceIsOpen
  <2> QED
    BY <1>2, <2>1, <2>2 DEF Lies, Readable
<1> QED
  BY <1>1, <1>2 DEF FileOK

LEMMA BlockStep ==
    ASSUME FilesGood, NEW f \in TFiles, NEW b \in TBlocks, GotFileBlock(f, b)
    PROVE  FilesIInv'
<1> DEFINE w == [State EXCEPT !.cached[f] = @ \cup {b}]
           H == [had EXCEPT ![f] = @ \cup {b}]
           whole == had[f] \cup {b} = TBlocks
           x == Flushed(w, {f})
           y == FileCompleted(x, f)
<1>0. Lives /\ status2 \in FileStatuses /\ status2' = status2 /\ InPlace(dirs, status2) /\ b \notin had[f]
  BY DEF FilesGood, GotFileBlock
<1>1. /\ WorldIs(w) /\ w.dirs = dirs /\ OneHome(dirs, H[1]) /\ H \in Waits
      /\ H[f] = had[f] \cup {b} /\ \A g \in TFiles : FileOK(w, H[g], g)
      /\ \A g \in TFiles : g # f => FileNamed(w, H[g], g)
  BY <1>0, BlockArrives, ZenonT(60)
<1>2. Readable(w, f) = H[f]
  <2> HIDE DEF w, H
  <2> QED
    BY <1>1, ReadableIs
<1>3. /\ Now(IF whole THEN y ELSE w) /\ had' = H
  <2>1. /\ Now(IF whole /\ Readable(w, f) = TBlocks THEN FileCompleted(Flushed(w, {f}), f) ELSE w)
        /\ had' = [had EXCEPT ![f] = IF whole /\ ~(Readable(w, f) = TBlocks) THEN {} ELSE @ \cup {b}]
    BY DEF GotFileBlock
  <2>2. whole => Readable(w, f) = TBlocks
    BY <1>1, <1>2
  <2> HIDE DEF w, whole
  <2> QED
    BY <2>1, <2>2
<1> HIDE DEF w, H
<1>4. CASE ~whole
  <2>1. FileNamed(w, H[f], f)
    BY <1>1, <1>4 DEF FileNamed
  <2>2. WorldGood(w, H)
    BY <1>1, <2>1 DEF WorldGood
  <2> QED
    BY <1>0, <1>1, <1>3, <1>4, <2>2, GoodAfter DEF Lives
<1>5. CASE whole
  <2>1. /\ WorldIs(x) /\ x.dirs = w.dirs /\ x.cached[f] = {}
        /\ \A g \in TFiles : FileOK(x, H[g], g) /\ (g # f => FileNamed(x, H[g], g))
    <3>1. WorldIs(x)
      BY <1>0, <1>1, FlushedType
    <3>2. x.dirs = w.dirs
      BY <1>1, FlushedParts, ZenonT(60)
    <3>3. \A g \in TFiles : /\ FileOK(x, H[g], g) /\ (FileNamed(w, H[g], g) => FileNamed(x, H[g], g))
                            /\ (g \in {f} => x.cached[g] = {})
      BY <1>0, <1>1, FlushedFile
    <3> QED
      BY <1>1, <3>1, <3>2, <3>3
  <2> HIDE DEF x
  <2>2. /\ y.dirs = x.dirs /\ y.cached = x.cached /\ y.open = [x.open EXCEPT ![f] = Shut2]
    BY <2>1, CompletedParts
  <2>3. /\ WorldIs(y) /\ FileOK(y, H[f], f) /\ FileNamed(y, H[f], f)
        /\ \A p \in Places : p[2] # f => y.disk[p] = x.disk[p]
    BY <2>1, CompletedFile
  <2> HIDE DEF y
  <2>4. ASSUME NEW g \in TFiles, g # f PROVE FileOK(y, H[g], g) /\ FileNamed(y, H[g], g)
    <3>1. y.open[g] = x.open[g]
      BY <2>1, <2>2, <2>4 DEF WorldIs, FileWorlds, Opens
    <3>2. FileOK(x, H[g], g) /\ FileNamed(x, H[g], g)
      BY <2>1, <2>4
    <3>3. \A p \in Places : p[2] = g => y.disk[p] = x.disk[p]
      BY <2>3, <2>4
    <3>4. FileOK(y, H[g], g)
      BY <2>2, <3>1, <3>2, <3>3, FileFrame
    <3>5. FileNamed(y, H[g], g)
      BY <2>2, <3>2, <3>3, NamedFrame
    <3> QED
      BY <3>4, <3>5
  <2>5. WorldGood(y, H) /\ y.dirs = dirs
    BY <1>1, <2>1, <2>2, <2>3, <2>4 DEF WorldGood
  <2> HIDE DEF whole
  <2> QED
    BY <1>0, <1>1, <1>3, <1>5, <2>5, GoodAfter DEF Lives
<1> QED
  BY <1>4, <1>5

LEMMA WantStep ==
    ASSUME FilesGood, NEW f \in TFiles, NEW wanted \in BOOLEAN, SetFileDL(f, wanted)
    PROVE  FilesIInv'
<1>1. /\ Lives /\ UNCHANGED <<dirs, disk2, open2, cached, had>>
      /\ had \in Waits /\ status2 \in FileStatuses /\ WorldGood(State, had) /\ InPlace(dirs, status2)
      /\ status2' = [status2 EXCEPT !.wanted = IF wanted THEN @ \cup {f} ELSE @ \ {f}]
  BY DEF SetFileDL, FilesGood
<1>2. /\ status2' \in FileStatuses /\ status2'.life = status2.life /\ status2'.completeness = status2.completeness
      /\ status2'.asked = status2.asked /\ status2'.reloaded = status2.reloaded
  BY <1>1 DEF FileStatuses
<1>3. Now(State) /\ InPlace(dirs, status2')
  BY <1>1, <1>2 DEF Now, State, InPlace
<1> QED
  BY <1>1, <1>2, <1>3, StateIs, GoodAfter DEF Lives

LEMMA CompletenessIs ==
    CompletenessNow \in {"leech", "seed", "partial seed"}
BY DEF CompletenessNow

LEMMA RecheckStep ==
    ASSUME FilesGood, Recheck
    PROVE  FilesIInv'
<1>1. /\ Lives /\ Now(CloseAll(State)) /\ had' = had
      /\ had \in Waits /\ status2 \in FileStatuses /\ WorldGood(State, had) /\ InPlace(dirs, status2)
      /\ status2' = [status2 EXCEPT !.completeness = CompletenessNow,
                        !.asked = IF CompletenessNow # "leech" /\ dirs.current = "incomplete" THEN dirs.download ELSE @]
  BY DEF Recheck, FilesGood
<1>2. dirs.download \in Dirs /\ dirs.current \in {"download", "incomplete"}
  BY <1>1, StateIs DEF WorldGood, WorldIs, FileWorlds, DirsOfTorrent
<1>3. dirs.download # "none"
  BY <1>2, FilesAssumption DEF Dirs
<1>4. /\ status2' \in FileStatuses /\ status2'.life = status2.life
      /\ status2'.completeness = CompletenessNow
      /\ CompletenessNow # "leech" /\ dirs.current = "incomplete" => status2'.asked = dirs.download
  BY <1>1, <1>2, CompletenessIs DEF FileStatuses
<1>5. InPlace(dirs, status2')
  BY <1>2, <1>3, <1>4 DEF InPlace
<1> DEFINE w == CloseAll(State)
<1>6. WorldGood(w, had) /\ w.dirs = dirs
  BY <1>1, StateIs, ClosedGood
<1> HIDE DEF w
<1> QED
  BY <1>1, <1>4, <1>5, <1>6, GoodAfter DEF w, Lives

\* A move that loses nothing.
LEMMA MoveGood ==
    ASSUME NEW w, NEW H, WorldGood(w, H), NEW dir \in Dirs, NEW across \in BOOLEAN, ~Loses(w, dir, TRUE)
    PROVE  /\ WorldGood(Relocated(w, dir, TRUE, across, NoFailure), H)
           /\ Relocated(w, dir, TRUE, across, NoFailure).dirs.incomplete = "none"
<1>1. CASE dir = CurrentDir(w.dirs)
  BY <1>1, MovedHere DEF Loses
<1>2. CASE dir # CurrentDir(w.dirs)
  <2>1. \A f \in TFiles : w.cached[f] = {}
    BY <1>2 DEF Loses
  <2> QED
    BY <1>2, <2>1, MovedElsewhere
<1> QED
  BY <1>1, <1>2

LEMMA PlaceStep ==
    ASSUME FilesGood, NEW across \in BOOLEAN, MovesToPlace(across), ~rash'
    PROVE  FilesIInv'
<1>1. /\ Lives /\ status2.asked # "none" /\ had' = had
      /\ Now(Relocated(State, status2.asked, TRUE, across, NoFailure))
      /\ ~Loses(State, status2.asked, TRUE)
      /\ status2' = [status2 EXCEPT !.asked = "none"]
      /\ had \in Waits /\ status2 \in FileStatuses /\ WorldGood(State, had)
  BY DEF MovesToPlace, FilesGood
<1>2. status2.asked \in Dirs /\ status2' \in FileStatuses /\ status2'.life = status2.life
  BY <1>1 DEF FileStatuses
<1> DEFINE w == Relocated(State, status2.asked, TRUE, across, NoFailure)
<1>3. WorldGood(w, had) /\ w.dirs.incomplete = "none"
  BY <1>1, <1>2, MoveGood
<1> HIDE DEF w
<1>4. InPlace(w.dirs, status2')
  BY <1>3 DEF InPlace
<1> QED
  BY <1>1, <1>2, <1>3, <1>4, GoodAfter DEF w, Lives

LEMMA LocationStep ==
    ASSUME FilesGood, NEW dir \in Dirs, NEW move \in BOOLEAN, NEW across \in BOOLEAN,
           NEW failsAt \in TFiles \cup {NoFailure}, SetLocation(dir, move, across, failsAt), ~rash'
    PROVE  FilesIInv'
<1>1. /\ Lives /\ had' = had /\ status2' = status2
      /\ Now(Relocated(State, dir, move, across, failsAt))
      /\ ~Loses(State, dir, move) /\ failsAt = NoFailure
      /\ had \in Waits /\ status2 \in FileStatuses /\ WorldGood(State, had) /\ InPlace(dirs, status2)
  BY DEF SetLocation, FilesGood
<1> DEFINE w == Relocated(State, dir, move, across, failsAt)
<1>2. CASE move = TRUE
  <2>1. WorldGood(w, had) /\ w.dirs.incomplete = "none"
    BY <1>1, <1>2, MoveGood
  <2> HIDE DEF w
  <2>2. InPlace(w.dirs, status2)
    BY <2>1 DEF InPlace
  <2> QED
    BY <1>1, <2>1, <2>2, GoodAfter DEF w, Lives
<1>3. CASE move = FALSE
  <2>1. \A f \in TFiles : had[f] = {}
    BY <1>1, <1>3 DEF Loses
  <2>2. /\ WorldGood(w, had) /\ (dirs.incomplete = "none" => w.dirs.incomplete = "none")
        /\ dirs.incomplete = "none" \/ dirs.current = "incomplete"
    <3> DEFINE v == Relocated(State, dir, move, across, failsAt)
    <3>1. w = v
      OBVIOUS
    <3>2. /\ WorldGood(v, had) /\ (State.dirs.incomplete = "none" => v.dirs.incomplete = "none")
          /\ State.dirs.incomplete = "none" \/ State.dirs.current = "incomplete"
      BY ONLY <1>1, <1>3, <2>1, NothingToMove
    <3> HIDE DEF v, w
    <3> QED
      BY <3>1, <3>2, StateIs
  <2> HIDE DEF w
  <2>3. InPlace(w.dirs, status2)
    BY <1>1, <2>2 DEF InPlace
  <2> QED
    BY <1>1, <2>2, <2>3, GoodAfter DEF w, Lives
<1> QED
  BY <1>2, <1>3

LEMMA ReloadStep ==
    ASSUME FilesGood, Reload
    PROVE  FilesIInv'
<1> DEFINE x == Flushed(State, TFiles)
           y == CloseAll(x)
           w == Refreshed(y)
<1>1. /\ Lives /\ had' = had /\ status2.asked = "none" /\ Now(w)
      /\ had \in Waits /\ status2 \in FileStatuses /\ WorldGood(State, had) /\ InPlace(dirs, status2)
      /\ status2' = [status2 EXCEPT !.completeness = CompletenessNow,
                                    !.reloaded = @ \/ status2.completeness # CompletenessNow]
  BY DEF Reload, FilesGood
<1>2. /\ status2' \in FileStatuses /\ status2'.life = status2.life
      /\ ~status2'.reloaded => ~status2.reloaded /\ status2'.completeness = status2.completeness
      /\ status2'.asked = status2.asked
  BY <1>1, CompletenessIs DEF FileStatuses
<1>3. WorldGood(x, had) /\ x.dirs = dirs /\ \A f \in TFiles : x.cached[f] = {}
  <2>1. TFiles \in SUBSET TFiles
    OBVIOUS
  <2> QED
    BY <1>1, <2>1, StateIs, FlushedGood
<1> HIDE DEF x
<1>4. WorldGood(y, had) /\ y.dirs = dirs /\ \A f \in TFiles : y.cached[f] = {}
  BY <1>3, ClosedGood, ClosedWorld DEF WorldGood
<1> HIDE DEF y
<1>5. WorldIs(y) /\ OneHome(y.dirs, had[1]) /\ \A f \in TFiles : FileOK(y, had[f], f) /\ FileNamed(y, had[f], f)
  BY <1>4 DEF WorldGood
<1>6. /\ CurrentDir(w.dirs) = CurrentDir(y.dirs) /\ OneHome(w.dirs, had[1])
      /\ y.dirs.current = "download" \/ y.dirs.incomplete = "none" => w.dirs.current = "download"
  BY <1>4, <1>5, EveryFile, RefreshedKeeps
<1>7. WorldIs(w)
  BY <1>5, RefreshedType
<1>8. w.disk = y.disk /\ w.open = y.open /\ w.cached = y.cached
  BY <1>5, RefreshedIs
<1> HIDE DEF w
<1>9. ASSUME NEW f \in TFiles PROVE FileOK(w, had[f], f) /\ FileNamed(w, had[f], f)
  <2>1. FileOK(w, had[f], f)
    BY <1>5, <1>6, <1>8, FileFrame
  <2>2. FileNamed(w, had[f], f)
    BY <1>5, <1>8, NamedFrame
  <2> QED
    BY <2>1, <2>2
<1>10. WorldGood(w, had)
  BY <1>6, <1>7, <1>9 DEF WorldGood
<1>11. InPlace(w.dirs, status2')
  BY <1>1, <1>2, <1>4, <1>6 DEF InPlace
<1> QED
  BY <1>1, <1>2, <1>10, <1>11, GoodAfter DEF Lives

\* Of what is in its place nothing is left.
LEMMA DeletedGood ==
    ASSUME NEW w, NEW H, WorldGood(w, H), \A f \in TFiles : w.cached[f] = {}, NEW p \in Places
    PROVE  ~DeletedFiles(w).disk[p].there
<1> DEFINE here(f, n) == <<CurrentDir(w.dirs), f, n>>
           victim(f) == here(f, IF w.disk[here(f, "name")].there THEN "name" ELSE "part")
           victims == {here(f, IF w.disk[here(f, "name")].there THEN "name" ELSE "part") : f \in TFiles}
           E == [q \in Places |-> IF q \in victims THEN Nothing2 ELSE w.disk[q]]
<1>0. /\ w = [dirs |-> w.dirs, disk |-> w.disk, open |-> w.open, cached |-> w.cached]
      /\ CurrentDir(w.dirs) \in Dirs /\ p[2] \in TFiles
  BY CurrentIsDir, PlaceIs DEF WorldGood, WorldIs, FileWorlds
<1>1. DeletedFiles(w).disk = E
  <2>1. DeletedFiles(w) = [w EXCEPT !.disk = E]
    BY DEF DeletedFiles
  <2> HIDE DEF E
  <2> QED
    BY <1>0, <2>1
<1>2. E[p] = IF p \in victims THEN Nothing2 ELSE w.disk[p]
  OBVIOUS
<1>3. w.disk[p].there => p = victim(p[2])
  <2> SUFFICES ASSUME w.disk[p].there PROVE p = victim(p[2])
    OBVIOUS
  <2>1. FileOK(w, H[p[2]], p[2])
    BY <1>0 DEF WorldGood
  <2>2. PICK q \in Places : Lies(w, H[p[2]], p[2], q)
    BY <2>1 DEF FileOK, NoneOnDisk, Bare, Nothing2
  <2>3. p = q
    BY <2>2 DEF Lies, Alone, Nothing2
  <2>4. p[1] = CurrentDir(w.dirs) /\ p[3] \in {"name", "part"} /\ p = <<p[1], p[2], p[3]>>
    BY <2>2, <2>3, PlaceIs DEF Lies
  <2>5. CASE p[3] = "name"
    BY <2>4, <2>5
  <2>6. CASE p[3] = "part"
    <3>1. here(p[2], "name") \in Places /\ here(p[2], "name") # p /\ here(p[2], "name")[2] = p[2]
      BY <1>0, <2>4, <2>6, PlaceOf
    <3>2. ~w.disk[here(p[2], "name")].there
      BY <2>2, <2>3, <3>1 DEF Lies, Alone, Nothing2
    <3> QED
      BY <2>4, <2>6, <3>2
  <2> QED
    BY <2>4, <2>5, <2>6
<1>4. victim(p[2]) \in victims
  BY <1>0
<1> HIDE DEF E, victims, victim
<1> QED
  BY <1>1, <1>2, <1>3, <1>4 DEF Nothing2

LEMMA RemoveStep ==
    ASSUME FilesGood, NEW delete \in BOOLEAN, RemoveFiles(delete)
    PROVE  FilesIInv'
<1> DEFINE x == Flushed(State, TFiles)
           y == CloseAll(x)
<1>1. /\ Lives /\ had' = had
      /\ Now(IF delete THEN DeletedFiles(y) ELSE y)
      /\ had \in Waits /\ status2 \in FileStatuses /\ WorldGood(State, had) /\ InPlace(dirs, status2)
      /\ status2' = [status2 EXCEPT !.life = IF delete THEN "deleted" ELSE "removed"]
  BY DEF RemoveFiles, FilesGood, DeleteLocalData
<1>3. WorldGood(x, had) /\ x.dirs = dirs /\ \A f \in TFiles : x.cached[f] = {}
  <2>1. TFiles \in SUBSET TFiles
    OBVIOUS
  <2> QED
    BY <1>1, <2>1, StateIs, FlushedGood
<1> HIDE DEF x
<1>4. WorldGood(y, had) /\ y.dirs = dirs /\ \A f \in TFiles : y.cached[f] = {}
  BY <1>3, ClosedGood, ClosedWorld DEF WorldGood
<1> HIDE DEF y
<1>5. CASE delete = TRUE
  <2>1. disk2' = DeletedFiles(y).disk /\ status2'.life = "deleted"
    BY <1>1, <1>5 DEF Now, FileStatuses
  <2>2. \A p \in Places : ~disk2'[p].there
    BY <1>4, <2>1, DeletedGood
  <2> QED
    BY <2>1, <2>2 DEF FilesIInv
<1>6. CASE delete = FALSE
  <2>1. /\ status2' \in FileStatuses /\ status2'.life # "deleted" /\ status2'.completeness = status2.completeness
        /\ status2'.asked = status2.asked /\ status2'.reloaded = status2.reloaded /\ Now(y)
    BY <1>1, <1>6 DEF FileStatuses
  <2>2. InPlace(y.dirs, status2')
    BY <1>1, <1>4, <2>1 DEF InPlace
  <2> QED
    BY <1>1, <1>4, <2>1, <2>2, GoodAfter
<1> QED
  BY <1>5, <1>6

LEMMA FilesStep == FilesIInv /\ [FilesNext]_filesVars => FilesIInv'
<1> SUFFICES ASSUME FilesIInv, [FilesNext]_filesVars PROVE FilesIInv'
  OBVIOUS
<1>1. CASE UNCHANGED filesVars
  BY <1>1 DEF filesVars, FilesIInv, FilesGood, State
<1>2. CASE rash'
  BY <1>2 DEF FilesIInv
<1>3. CASE FilesNext /\ ~rash'
  <2>1. ~rash /\ Lives
    <3>1. \A f \in TFiles, b \in TBlocks : GotFileBlock(f, b) => Lives /\ rash' = rash
      BY DEF GotFileBlock
    <3>2. \A f \in TFiles : FlushesFile(f) \/ EvictsFile(f) => Lives /\ rash' = rash
      BY DEF FlushesFile, EvictsFile
    <3>3. \A f \in TFiles, wanted \in BOOLEAN : SetFileDL(f, wanted) => Lives /\ rash' = rash
      BY DEF SetFileDL
    <3>4. Recheck \/ Reload => Lives /\ rash' = rash
      BY DEF Recheck, Reload
    <3>5. \A across \in BOOLEAN : MovesToPlace(across) => Lives /\ (~rash' => ~rash)
      BY DEF MovesToPlace
    <3>6. \A dir \in Dirs, move, across \in BOOLEAN, failsAt \in TFiles \cup {NoFailure} :
             SetLocation(dir, move, across, failsAt) => Lives /\ (~rash' => ~rash)
      BY DEF SetLocation
    <3>7. \A delete \in BOOLEAN : RemoveFiles(delete) => Lives /\ rash' = rash
      BY DEF RemoveFiles
    <3> QED
      BY <1>3, <3>1, <3>2, <3>3, <3>4, <3>5, <3>6, <3>7 DEF FilesNext
  <2>2. FilesGood
    BY <2>1 DEF FilesIInv, Lives
  <2>3. ASSUME NEW f \in TFiles,
               \/ \E b \in TBlocks : GotFileBlock(f, b)
               \/ FlushesFile(f)
               \/ EvictsFile(f)
               \/ \E wanted \in BOOLEAN : SetFileDL(f, wanted)
        PROVE  FilesIInv'
    BY <2>2, <2>3, BlockStep, FlushStep, EvictStep, WantStep
  <2> QED
    BY <1>3, <2>2, <2>3, RecheckStep, PlaceStep, LocationStep, ReloadStep, RemoveStep DEF FilesNext
<1> QED
  BY <1>1, <1>2, <1>3

LEMMA FilesIInvSound == FilesIInv => FilesKept /\ CompletedInPlace
<1> SUFFICES ASSUME FilesIInv, ~rash PROVE FilesKept /\ CompletedInPlace
  BY DEF FilesKept, CompletedInPlace
<1>1. CASE status2.life = "deleted"
  <2>1. ~Lives /\ \A p \in Places : ~disk2[p].there
    BY <1>1 DEF FilesIInv, Lives
  <2>2. \A f \in TFiles, d \in Dirs : <<d, f, "name">> \in Places
    BY PlaceOf
  <2> QED
    BY <2>1, <2>2 DEF FilesKept, CompletedInPlace
<1>2. CASE status2.life # "deleted"
  <2>1. FilesGood
    BY <1>2 DEF FilesIInv
  <2>2. WorldIs(State) /\ \A f \in TFiles : FileOK(State, had[f], f) /\ FileNamed(State, had[f], f)
    BY <2>1 DEF FilesGood, WorldGood
  <2>3. DataFindable
    <3> DEFINE w == CloseAll(State)
    <3>1. WorldGood(w, had)
      BY <2>1, ClosedGood DEF FilesGood
    <3> HIDE DEF w
    <3>2. \A f \in TFiles : Readable(w, f) = had[f]
      BY <3>1, ReadableIs DEF WorldGood
    <3> QED
      BY <3>2 DEF DataFindable, w
  <2>4. ASSUME NEW f \in TFiles, NEW d \in Dirs
        PROVE  ~(disk2[<<d, f, "name">>].there /\ disk2[<<d, f, "part">>].there)
    <3> DEFINE a == <<d, f, "name">>
               c == <<d, f, "part">>
    <3>1. a \in Places /\ c \in Places /\ a[2] = f /\ c[2] = f /\ a # c
      BY PlaceOf
    <3>2. FileOK(State, had[f], f) /\ State.disk = disk2
      BY <2>2, StateIs
    <3> HIDE DEF a, c
    <3>3. ~(disk2[a].there /\ disk2[c].there)
      BY <3>1, <3>2 DEF FileOK, NoneOnDisk, Bare, Lies, Alone, Nothing2
    <3> QED
      BY <3>3 DEF a, c
  <2>5. ASSUME NEW f \in TFiles, had[f] = TBlocks
        PROVE  Found(State, f)[3] = "name"
    <3>1. FileOK(State, TBlocks, f) /\ FileNamed(State, TBlocks, f)
      BY <2>2, <2>5
    <3>2. State.cached[f] = {} /\ \A p \in Places : p[2] = f /\ State.disk[p].there => p[3] = "name"
      BY <3>1 DEF FileNamed
    <3>3. PICK p \in Places : Lies(State, TBlocks, f, p)
      BY <3>1, <3>2, FilesAssumption DEF FileOK, NoneOnDisk
    <3>4. Found(State, f) = p
      BY <2>2, <3>3, FoundIs DEF Lies, WorldIs
    <3> QED
      BY <3>2, <3>3, <3>4 DEF Lies, Alone
  <2>6. InPlace(dirs, status2)
    BY <2>1 DEF FilesGood
  <2>7. FilesKept
    BY <1>2, <2>3, <2>4 DEF FilesKept
  <2> QED
    BY <2>5, <2>6, <2>7 DEF CompletedInPlace, InPlace
<1> QED
  BY <1>1, <1>2

\* What is claimed of a file is found, as the file or in the cache, whatever was
\* moved, restarted and removed; no file is left twice, and none that is deleted;
\* and what is complete is in its place, by its name (setLocation,
\* tr_torrentFindFile2, tr_torrentFileCompleted, tr_cacheFlushFile).
THEOREM FilesAreKept == FilesSpec => [](FilesKept /\ CompletedInPlace)
<1>1. FilesSpec => []FilesIInv
  BY InitFiles, FilesStep, PTL DEF FilesSpec
<1> QED
  BY <1>1, FilesIInvSound, PTL

-----------------------------------------------------------------------------
(***************************************************************************)
(* Remote control, for any torrents, files, trackers, ports and numbers of  *)
(* calls.                                                                  *)
(***************************************************************************)
PostedOps == {"start", "changed", "restart", "close"}
IsPosted(what) == \E i \in 1..Len(rpcPosted) : rpcPosted[i] = what
\* What is not yet as asked has a posted call that will see to it.
SeenTo ==
    /\ ~rpc.enabled /\ (rpc.httpd # NotServing \/ IsPosted("start")) => IsPosted("changed")
    /\ rpc.enabled /\ rpc.httpd = NotServing => rpcPosted # <<>>
    /\ rpc.enabled /\ rpc.httpd # NotServing /\ rpc.httpd # rpc.port => rpc.hurried \/ IsPosted("restart")
ServerInv ==
    /\ rpc \in [enabled : BOOLEAN, port : Nat \ {0}, httpd : Nat, alive : BOOLEAN, hurried : BOOLEAN]
    /\ rpcPosted \in Seq(PostedOps)
    /\ \A i \in 1..Len(rpcPosted) : /\ rpcPosted[i] = "start" => i = 1
                                    /\ rpcPosted[i] = "close" => i = Len(rpcPosted)
    /\ rpc.alive /\ ~IsPosted("close") => SeenTo

LEMMA ServerInit == RpcInit => ServerInv
<1> SUFFICES ASSUME RpcInit PROVE ServerInv
  OBVIOUS
<1>1. PICK on \in BOOLEAN, p \in RpcPorts :
         rpc = NewServer(on, p) /\ rpcPosted = IF on THEN <<"start">> ELSE <<>>
  BY DEF RpcInit
<1>2. p \in Nat \ {0}
  BY RpcAssumption
<1>3. rpcPosted \in Seq(PostedOps) /\ \A i \in 1..Len(rpcPosted) : i = 1 /\ Len(rpcPosted) = 1 /\ rpcPosted[i] = "start"
  <2>1. CASE on
    <3>1. rpcPosted = <<"start">> /\ "start" \in PostedOps
      BY <1>1, <2>1 DEF PostedOps
    <3> QED
      BY <3>1
  <2>2. CASE ~on
    <3>1. rpcPosted = <<>>
      BY <1>1, <2>2
    <3> QED
      BY <3>1
  <2> QED
    BY <2>1, <2>2
<1>4. on => rpcPosted # <<>>
  BY <1>1
<1>5. ~on => Len(rpcPosted) = 0
  BY <1>1
<1> QED
  BY <1>1, <1>2, <1>3, <1>4, <1>5 DEF ServerInv, SeenTo, IsPosted, NewServer, NotServing

LEMMA PostedMore ==
    ASSUME ServerInv, NEW what \in PostedOps, rpcPosted' = Append(rpcPosted, what)
    PROVE  /\ rpcPosted' \in Seq(PostedOps) /\ rpcPosted' # <<>>
           /\ Len(rpcPosted') = Len(rpcPosted) + 1 /\ Len(rpcPosted) \in Nat
           /\ \A i \in 1..Len(rpcPosted) : rpcPosted'[i] = rpcPosted[i]
           /\ rpcPosted'[Len(rpcPosted) + 1] = what
           /\ \A op : IsPosted(op)' <=> IsPosted(op) \/ op = what
<1>1. rpcPosted \in Seq(PostedOps)
  BY DEF ServerInv
<1>2. /\ rpcPosted' \in Seq(PostedOps)
      /\ Len(rpcPosted') = Len(rpcPosted) + 1 /\ Len(rpcPosted) \in Nat
      /\ \A i \in 1..Len(rpcPosted) : rpcPosted'[i] = rpcPosted[i]
      /\ rpcPosted'[Len(rpcPosted) + 1] = what
  BY <1>1
<1>3. rpcPosted' # <<>>
  BY <1>2
<1>4. ASSUME NEW op PROVE IsPosted(op)' <=> IsPosted(op) \/ op = what
  BY <1>2 DEF IsPosted
<1> QED
  BY <1>2, <1>3, <1>4

LEMMA NotClosing ==
    ASSUME ServerInv, "close" \notin ToSet(rpcPosted)
    PROVE  ~IsPosted("close")
<1>1. DOMAIN rpcPosted = 1..Len(rpcPosted)
  BY DEF ServerInv
<1> QED
  BY <1>1 DEF IsPosted, ToSet

LEMMA EnabledKeeps ==
    ASSUME ServerInv, NEW on \in BOOLEAN, SetRpcEnabled(on)
    PROVE  ServerInv'
<1>1. /\ rpc.alive /\ ~IsPosted("close") /\ SeenTo
      /\ rpc' = [rpc EXCEPT !.enabled = on, !.hurried = @ \/ (on /\ ~rpc.enabled /\ rpc.httpd # NotServing)]
      /\ rpcPosted' = Append(rpcPosted, "changed")
  BY NotClosing DEF SetRpcEnabled, ServerInv
<1>2. /\ rpcPosted' \in Seq(PostedOps) /\ rpcPosted' # <<>>
      /\ Len(rpcPosted') = Len(rpcPosted) + 1 /\ Len(rpcPosted) \in Nat
      /\ \A i \in 1..Len(rpcPosted) : rpcPosted'[i] = rpcPosted[i]
      /\ rpcPosted'[Len(rpcPosted) + 1] = "changed"
      /\ \A op : IsPosted(op)' <=> IsPosted(op) \/ op = "changed"
  BY <1>1, PostedMore DEF PostedOps
<1>3. rpc' \in [enabled : BOOLEAN, port : Nat \ {0}, httpd : Nat, alive : BOOLEAN, hurried : BOOLEAN]
  BY <1>1 DEF ServerInv
<1>4. \A i \in 1..Len(rpcPosted') : /\ rpcPosted'[i] = "start" => i = 1
                                    /\ rpcPosted'[i] = "close" => i = Len(rpcPosted')
  <2>1. \A i \in 1..Len(rpcPosted) : rpcPosted[i] # "close"
    BY <1>1 DEF IsPosted
  <2> QED
    BY <1>2, <2>1 DEF ServerInv
<1>5. SeenTo'
  <2>1. rpc'.enabled = on /\ rpc'.httpd = rpc.httpd /\ rpc'.port = rpc.port
    BY <1>1 DEF ServerInv
  <2>2. rpc'.hurried <=> rpc.hurried \/ (on /\ ~rpc.enabled /\ rpc.httpd # NotServing)
    BY <1>1 DEF ServerInv
  <2> QED
    BY <1>1, <1>2, <2>1, <2>2 DEF SeenTo, NotServing
<1> QED
  BY <1>2, <1>3, <1>4, <1>5 DEF ServerInv

LEMMA PortKeeps ==
    ASSUME ServerInv, NEW p \in RpcPorts, SetRpcPort(p)
    PROVE  ServerInv'
<1>1. /\ rpc.alive /\ ~IsPosted("close") /\ SeenTo
      /\ rpc' = [rpc EXCEPT !.port = p]
      /\ rpcPosted' = IF rpc.enabled THEN Append(rpcPosted, "restart") ELSE rpcPosted
  BY NotClosing DEF SetRpcPort, ServerInv
<1>2. p \in Nat \ {0}
  BY RpcAssumption
<1>3. rpc' \in [enabled : BOOLEAN, port : Nat \ {0}, httpd : Nat, alive : BOOLEAN, hurried : BOOLEAN]
  BY <1>1, <1>2 DEF ServerInv
<1>4. rpc'.enabled = rpc.enabled /\ rpc'.httpd = rpc.httpd /\ rpc'.hurried = rpc.hurried
  BY <1>1 DEF ServerInv
<1>5. CASE rpc.enabled
  <2>1. /\ rpcPosted' \in Seq(PostedOps) /\ rpcPosted' # <<>>
        /\ Len(rpcPosted') = Len(rpcPosted) + 1 /\ Len(rpcPosted) \in Nat
        /\ \A i \in 1..Len(rpcPosted) : rpcPosted'[i] = rpcPosted[i]
        /\ rpcPosted'[Len(rpcPosted) + 1] = "restart"
        /\ \A op : IsPosted(op)' <=> IsPosted(op) \/ op = "restart"
    BY <1>1, <1>5, PostedMore DEF PostedOps
  <2>2. \A i \in 1..Len(rpcPosted') : /\ rpcPosted'[i] = "start" => i = 1
                                      /\ rpcPosted'[i] = "close" => i = Len(rpcPosted')
    <3>1. \A i \in 1..Len(rpcPosted) : rpcPosted[i] # "close"
      BY <1>1 DEF IsPosted
    <3> QED
      BY <2>1, <3>1 DEF ServerInv
  <2>3. SeenTo'
    BY <1>4, <1>5, <2>1 DEF SeenTo
  <2> QED
    BY <1>3, <2>1, <2>2, <2>3 DEF ServerInv
<1>6. CASE ~rpc.enabled
  <2>1. rpcPosted' = rpcPosted
    BY <1>1, <1>6
  <2>2. \A op : IsPosted(op)' <=> IsPosted(op)
    BY <2>1 DEF IsPosted
  <2>3. SeenTo'
    BY <1>1, <1>4, <1>6, <2>2 DEF SeenTo, NotServing
  <2> QED
    BY <1>3, <2>1, <2>3 DEF ServerInv
<1> QED
  BY <1>5, <1>6 DEF ServerInv

LEMMA CloseKeeps ==
    ASSUME ServerInv, RpcClose
    PROVE  ServerInv'
<1>1. /\ ~IsPosted("close") /\ rpc' = rpc /\ rpcPosted' = Append(rpcPosted, "close")
  BY NotClosing DEF RpcClose
<1>2. /\ rpcPosted' \in Seq(PostedOps)
      /\ Len(rpcPosted') = Len(rpcPosted) + 1 /\ Len(rpcPosted) \in Nat
      /\ \A i \in 1..Len(rpcPosted) : rpcPosted'[i] = rpcPosted[i]
      /\ rpcPosted'[Len(rpcPosted) + 1] = "close"
      /\ IsPosted("close")'
  BY <1>1, PostedMore DEF PostedOps
<1>3. \A i \in 1..Len(rpcPosted) : rpcPosted[i] # "close"
  BY <1>1 DEF IsPosted
<1>4. \A i \in 1..Len(rpcPosted') : /\ rpcPosted'[i] = "start" => i = 1
                                    /\ rpcPosted'[i] = "close" => i = Len(rpcPosted')
  BY <1>2, <1>3 DEF ServerInv
<1> QED
  BY <1>1, <1>2, <1>4 DEF ServerInv

LEMMA RunKeeps ==
    ASSUME ServerInv, RunsRpcPosted
    PROVE  ServerInv'
<1> DEFINE h == Head(rpcPosted)
           n == Len(rpcPosted)
<1>1. /\ rpcPosted \in Seq(PostedOps) /\ rpcPosted # <<>>
      /\ rpcPosted' = Tail(rpcPosted) /\ rpc' = Executed(rpc, h)
  BY DEF ServerInv, RunsRpcPosted
<1>2. /\ n \in Nat /\ n >= 1 /\ rpcPosted' \in Seq(PostedOps) /\ Len(rpcPosted') = n - 1
      /\ \A i \in 1..(n - 1) : rpcPosted'[i] = rpcPosted[i + 1]
      /\ h = rpcPosted[1] /\ h \in PostedOps
  BY <1>1
<1> HIDE DEF h, n
<1>3. \A i \in 1..(n - 1) : /\ rpcPosted'[i] # "start"
                            /\ rpcPosted'[i] = "close" => i = n - 1
  <2> TAKE i \in 1..(n - 1)
  <2>1. i + 1 \in 1..Len(rpcPosted) /\ i + 1 # 1 /\ Len(rpcPosted) = n
    BY <1>2 DEF n
  <2> QED
    BY <1>2, <2>1 DEF ServerInv
<1>4. ASSUME NEW op PROVE IsPosted(op) <=> h = op \/ IsPosted(op)'
  <2>1. ASSUME IsPosted(op), h # op PROVE IsPosted(op)'
    <3>1. PICK i \in 1..n : rpcPosted[i] = op
      BY <2>1 DEF IsPosted, n
    <3>2. i # 1
      BY <1>2, <2>1, <3>1
    <3>3. i - 1 \in 1..(n - 1) /\ (i - 1) + 1 = i
      BY <1>2, <3>2
    <3>4. rpcPosted'[i - 1] = op
      BY <1>2, <3>1, <3>3
    <3> QED
      BY <1>2, <3>3, <3>4 DEF IsPosted
  <2>2. ASSUME IsPosted(op)' PROVE IsPosted(op)
    <3>1. PICK i \in 1..(n - 1) : rpcPosted'[i] = op
      BY <1>2, <2>2 DEF IsPosted
    <3>2. i + 1 \in 1..n /\ rpcPosted[i + 1] = op
      BY <1>2, <3>1
    <3> QED
      BY <3>2 DEF IsPosted, n
  <2>3. ASSUME h = op PROVE IsPosted(op)
    <3>1. 1 \in 1..n /\ rpcPosted[1] = op
      BY <1>2, <2>3
    <3> QED
      BY <3>1 DEF IsPosted, n
  <2> QED
    BY <2>1, <2>2, <2>3
<1>5. ~IsPosted("start")'
  BY <1>2, <1>3 DEF IsPosted
<1>6. rpc \in [enabled : BOOLEAN, port : Nat \ {0}, httpd : Nat, alive : BOOLEAN, hurried : BOOLEAN]
  BY DEF ServerInv
<1>7. rpc' \in [enabled : BOOLEAN, port : Nat \ {0}, httpd : Nat, alive : BOOLEAN, hurried : BOOLEAN]
  BY <1>1, <1>2, <1>6 DEF PostedOps, Executed, Restarted, ServerStarted, ServerStopped, NotServing
<1>8. ASSUME rpc'.alive, ~IsPosted("close")' PROVE SeenTo'
  <2>1. h # "close"
    BY <1>1, <1>6, <1>8 DEF Executed, ServerStopped
  <2>2. SeenTo
    <3>1. rpc.alive
      BY <1>1, <1>2, <1>6, <1>8, <2>1 DEF PostedOps, Executed, Restarted, ServerStarted, ServerStopped
    <3> QED
      BY <1>4, <1>8, <2>1, <3>1 DEF ServerInv
  <2>3. rpc'.enabled = rpc.enabled /\ rpc'.port = rpc.port
    BY <1>1, <1>2, <1>6, <2>1 DEF PostedOps, Executed, Restarted, ServerStarted, ServerStopped
  <2>4. CASE rpc.enabled
    <3>1. CASE rpc.httpd = NotServing \/ h = "restart"
      <4>1. rpc'.httpd = rpc.port
        BY <1>1, <1>2, <1>6, <2>1, <2>4, <3>1 DEF PostedOps, Executed, Restarted, ServerStarted, ServerStopped, NotServing
      <4> QED
        BY <1>6, <2>3, <2>4, <4>1 DEF SeenTo, NotServing
    <3>2. CASE ~(rpc.httpd = NotServing \/ h = "restart")
      <4>1. rpc' = rpc
        BY <1>1, <1>2, <1>6, <2>1, <2>4, <3>2 DEF PostedOps, Executed, ServerStarted
      <4>2. IsPosted("restart") => IsPosted("restart")'
        BY <1>4, <3>2
      <4> QED
        BY <2>2, <2>4, <3>2, <4>1, <4>2 DEF SeenTo
    <3> QED
      BY <3>1, <3>2
  <2>5. CASE ~rpc.enabled
    <3>1. CASE h = "changed"
      <4>1. rpc'.httpd = NotServing
        BY <1>1, <1>6, <2>5, <3>1 DEF Executed, ServerStopped
      <4> QED
        BY <1>5, <2>3, <2>5, <4>1 DEF SeenTo
    <3>2. CASE h = "restart"
      <4>1. rpc' = rpc
        BY <1>1, <2>5, <3>2 DEF Executed, Restarted
      <4>2. IsPosted("changed") => IsPosted("changed")'
        BY <1>4, <3>2
      <4> QED
        BY <1>5, <2>2, <2>5, <4>1, <4>2 DEF SeenTo
    <3>3. CASE h = "start"
      <4>1. IsPosted("start")
        BY <1>4, <3>3
      <4>2. IsPosted("changed")'
        BY <1>4, <2>2, <2>5, <3>3, <4>1 DEF SeenTo
      <4> QED
        BY <2>3, <2>5, <4>2 DEF SeenTo
    <3> QED
      BY <1>2, <2>1, <3>1, <3>2, <3>3 DEF PostedOps
  <2> QED
    BY <1>6, <2>4, <2>5
<1>9. \A i \in 1..Len(rpcPosted') : /\ rpcPosted'[i] = "start" => i = 1
                                    /\ rpcPosted'[i] = "close" => i = Len(rpcPosted')
  BY <1>2, <1>3
<1> QED
  BY <1>2, <1>7, <1>8, <1>9 DEF ServerInv

LEMMA ServerStep == ServerInv /\ [RpcNext]_rpcVars => ServerInv'
<1> SUFFICES ASSUME ServerInv, [RpcNext]_rpcVars PROVE ServerInv'
  OBVIOUS
<1>1. ASSUME UNCHANGED <<rpc, rpcPosted>> PROVE ServerInv'
  BY <1>1 DEF ServerInv, SeenTo, IsPosted
<1>2. \/ \E on \in BOOLEAN : SetRpcEnabled(on)
      \/ \E p \in RpcPorts : SetRpcPort(p)
      \/ RpcClose \/ RunsRpcPosted \/ UNCHANGED <<rpc, rpcPosted>>
  BY DEF RpcNext, rpcVars, HandleRequest, TransferEnds, TorrentSet, TorrentRemove, Polls, SecondPasses
<1> QED
  BY <1>1, <1>2, EnabledKeeps, PortKeeps, CloseKeeps, RunKeeps

LEMMA ServerInvSound == ServerInv => ServerObeys
<1> SUFFICES ASSUME ServerInv, rpc.alive, rpcPosted = <<>>
             PROVE  IF ~rpc.enabled THEN rpc.httpd = NotServing
                    ELSE rpc.httpd # NotServing /\ (rpc.hurried \/ rpc.httpd = rpc.port)
  BY DEF ServerObeys
<1>1. \A op : ~IsPosted(op)
  BY DEF IsPosted
<1> QED
  BY <1>1 DEF ServerInv, SeenTo

\* The server does what was last asked of it, once what was posted has been
\* done (onEnabledChanged, restartServer).
THEOREM ServerDoesObey == RpcSpec => []ServerObeys
BY ServerInit, ServerStep, ServerInvSound, PTL DEF RpcSpec

-----------------------------------------------------------------------------
(* Lists of trackers *)
Tracker == [url : TrackerUrls, tier : Nat]
TiersFit(list) ==
    list # <<>> => /\ list[1].tier = 0
                   /\ \A i \in 2..Len(list) : list[i].tier \in {list[i - 1].tier, list[i - 1].tier + 1}
UrlsOf(list) == {list[i].url : i \in DOMAIN list}

LEMMA TrackersAre ==
    ASSUME NEW list \in Seq(Tracker)
    PROVE  /\ Len(list) \in Nat /\ DOMAIN list = 1..Len(list)
           /\ \A i \in 1..Len(list) : list[i] \in Tracker /\ list[i].tier \in Nat /\ list[i].url \in TrackerUrls
<1>1. Len(list) \in Nat /\ DOMAIN list = 1..Len(list) /\ list \in [1..Len(list) -> Tracker]
  BY LenProperties
<1> QED
  BY <1>1 DEF Tracker

\* In the order of their tiers, with none lost (qsort by compareTrackerByTier).
LEMMA ByTierIs ==
    ASSUME NEW list \in Seq(Tracker)
    PROVE  /\ ByTier(list) \in Seq(Tracker) /\ Len(ByTier(list)) = Len(list)
           /\ \A k \in 1..Len(list) : k > 1 => ByTier(list)[k - 1].tier <= ByTier(list)[k].tier
           /\ \A j \in 1..Len(list) : \E k \in 1..Len(list) : ByTier(list)[k] = list[j]
<1> DEFINE n == Len(list)
           D == 1..n
           keys == [i \in D |-> <<list[i].tier, i>>]
           ord == [k \in D |-> CHOOSE j \in D : TierPlace(list, j) = k]
<1>1. /\ n \in Nat /\ DOMAIN list = D /\ D \subseteq Nat
      /\ \A i \in D : list[i] \in Tracker /\ list[i].tier \in Nat
  BY TrackersAre
<1> HIDE DEF n
<1>2. \A i \in D : keys[i] \in AddressRange /\ keys[i][1] = list[i].tier
  BY <1>1 DEF AddressRange
<1>3. keys \in Seq(AddressRange) /\ Len(keys) = n /\ DOMAIN keys = D
  <2>1. keys = [i \in 1..n |-> keys[i]] /\ \A i \in 1..n : keys[i] \in AddressRange
    BY <1>2
  <2> QED
    BY <1>1, <2>1
<1> HIDE DEF keys
<1>4. ASSUME NEW j \in D PROVE TierPlace(list, j) = Rank(keys, j)
  <2>1. {i \in DOMAIN keys : Before(keys, i, j)}
          = {i \in DOMAIN list : list[i].tier < list[j].tier \/ (list[i].tier = list[j].tier /\ i <= j)}
    BY <1>1, <1>2, <1>3 DEF Before
  <2> QED
    BY <2>1 DEF TierPlace, Rank
<1>5. /\ \A j \in D : Rank(keys, j) \in D
      /\ \A i, j \in D : Rank(keys, i) = Rank(keys, j) => i = j
      /\ \A k \in D : \E j \in D : Rank(keys, j) = k
      /\ \A i, j \in D : Rank(keys, i) < Rank(keys, j) => keys[i][1] <= keys[j][1]
  BY <1>3, RanksAre
<1>6. ByTier(list) = [k \in D |-> list[ord[k]]]
  BY <1>1 DEF ByTier
<1>7. \A k \in D : ord[k] \in D /\ TierPlace(list, ord[k]) = k
  BY <1>4, <1>5
<1> HIDE DEF ord
<1>8. \A k \in D : ord[k] \in D /\ Rank(keys, ord[k]) = k
  BY <1>4, <1>7
<1>9. \A k \in D : ByTier(list)[k] = list[ord[k]]
  BY <1>6
<1>10. ByTier(list) \in Seq(Tracker) /\ Len(ByTier(list)) = n
  <2>1. \A k \in 1..n : list[ord[k]] \in Tracker
    BY <1>1, <1>8
  <2>2. ByTier(list) = [k \in 1..n |-> list[ord[k]]]
    BY <1>6
  <2> QED
    BY <1>1, <2>1, <2>2
<1>11. ASSUME NEW k \in D, k > 1 PROVE ByTier(list)[k - 1].tier <= ByTier(list)[k].tier
  <2>1. k - 1 \in D /\ k - 1 < k
    BY <1>1, <1>11
  <2>2. ord[k] \in D /\ ord[k - 1] \in D /\ Rank(keys, ord[k - 1]) < Rank(keys, ord[k])
    BY <1>8, <2>1
  <2>3. keys[ord[k - 1]][1] <= keys[ord[k]][1]
    BY <1>5, <2>2
  <2> QED
    BY <1>2, <1>9, <2>1, <2>2, <2>3
<1>12. ASSUME NEW j \in D PROVE \E k \in D : ByTier(list)[k] = list[j]
  <2>1. Rank(keys, j) \in D /\ ord[Rank(keys, j)] = j
    BY <1>5, <1>8
  <2> QED
    BY <1>9, <2>1
<1> QED
  BY <1>10, <1>11, <1>12 DEF n

LEMMA TierNumber ==
    ASSUME NEW n \in Nat, NEW tier \in [1..n -> Nat], \A k \in 1..n : k > 1 => tier[k - 1] <= tier[k],
           NEW number, number = [i \in 1..n |-> Cardinality({tier[j] : j \in 1..(i - 1)} \ {tier[i]})]
    PROVE  /\ \A i \in 1..n : number[i] \in Nat
           /\ n > 0 => number[1] = 0
           /\ \A i \in 2..n : number[i] \in {number[i - 1], number[i - 1] + 1}
<1> DEFINE A(i) == {tier[j] : j \in 1..(i - 1)}
<1>1. \A i \in 1..n : number[i] = Cardinality(A(i) \ {tier[i]})
  OBVIOUS
<1>5. \A k \in 0..n : k \in {m \in 0..n : \A j \in 1..m : tier[j] <= tier[m]}
  <2> DEFINE T == {m \in 0..n : \A j \in 1..m : tier[j] <= tier[m]}
  <2>1. 0 \in T
    OBVIOUS
  <2>2. ASSUME NEW k \in 1..n, k - 1 \in T PROVE k \in T
    <3>1. ASSUME NEW j \in 1..k PROVE tier[j] <= tier[k]
      <4>1. CASE j = k
        BY <4>1
      <4>2. CASE j # k
        <5>1. j \in 1..(k - 1) /\ k > 1 /\ k - 1 \in 1..n /\ j \in 1..n
          BY <4>2
        <5>2. tier[j] <= tier[k - 1] /\ tier[k - 1] <= tier[k]
          BY <2>2, <5>1
        <5> QED
          BY <5>1, <5>2
      <4> QED
        BY <4>1, <4>2
    <3> QED
      BY <3>1
  <2> HIDE DEF T
  <2>3. \A k \in 0..n : k \in T
    BY <2>1, <2>2, Climb
  <2> QED
    BY <2>3 DEF T
<1>2. ASSUME NEW i \in 1..n PROVE IsFiniteSet(A(i))
  <2>1. IsFiniteSet(0..tier[i]) /\ tier[i] \in Nat
    BY FS_Interval
  <2>2. \A j \in 1..i : j \in 1..n /\ tier[j] <= tier[i] /\ tier[j] \in Nat
    BY <1>5
  <2>3. \A j \in 1..(i - 1) : j \in 1..i
    OBVIOUS
  <2>4. A(i) \in SUBSET (0..tier[i])
    BY <2>1, <2>2, <2>3
  <2> QED
    BY <2>1, <2>4, FS_Subset
<1>3. \A i \in 1..n : IsFiniteSet(A(i) \ {tier[i]}) /\ number[i] \in Nat
  <2> TAKE i \in 1..n
  <2> DEFINE B == A(i) \ {tier[i]}
  <2>1. B \in SUBSET A(i)
    OBVIOUS
  <2>2. IsFiniteSet(B) /\ Cardinality(B) \in Nat
    BY <1>2, <2>1, FS_Subset, FS_CardinalityType
  <2> QED
    BY <1>1, <2>2
<1>4. ASSUME n > 0 PROVE number[1] = 0
  <2>1. A(1) \ {tier[1]} = {} /\ 1 \in 1..n
    BY <1>4
  <2> QED
    BY <1>1, <2>1, FS_EmptySet
<1>6. ASSUME NEW i \in 2..n PROVE number[i] \in {number[i - 1], number[i - 1] + 1}
  <2>1. i \in 1..n /\ i - 1 \in 1..n /\ i > 1
    OBVIOUS
  <2> DEFINE P == A(i - 1)
             t == tier[i - 1]
             u == tier[i]
  <2>2. A(i) = P \cup {t}
    <3>1. \A j \in 1..(i - 1) : j = i - 1 \/ j \in 1..((i - 1) - 1)
      OBVIOUS
    <3>2. i - 1 \in 1..(i - 1) /\ \A j \in 1..((i - 1) - 1) : j \in 1..(i - 1)
      OBVIOUS
    <3> QED
      BY <3>1, <3>2
  <2>3. t \in Nat /\ u \in Nat /\ t <= u
    BY <2>1
  <2>4. \A x \in P : x \in Nat /\ x <= t
    <3>1. \A j \in 1..(i - 1) : tier[j] <= tier[i - 1]
      BY <1>5, <2>1
    <3> QED
      BY <2>1, <3>1
  <2>5. IsFiniteSet(P) /\ number[i - 1] = Cardinality(P \ {t}) /\ number[i] = Cardinality((P \cup {t}) \ {u})
    BY <1>1, <1>2, <2>1, <2>2
  <2>6. IsFiniteSet(P \ {t}) /\ number[i - 1] \in Nat
    BY <1>3, <2>1
  <2> HIDE DEF P, t, u
  <2>7. CASE t = u
    <3>1. (P \cup {t}) \ {u} = P \ {t}
      BY <2>7
    <3> QED
      BY <2>5, <3>1
  <2>8. CASE t # u
    <3>1. u \notin P \cup {t}
      BY <2>3, <2>4, <2>8
    <3>2. (P \cup {t}) \ {u} = (P \ {t}) \cup {t} /\ t \notin P \ {t}
      BY <3>1
    <3>3. Cardinality((P \ {t}) \cup {t}) = Cardinality(P \ {t}) + 1
      BY <2>6, <3>2, FS_AddElement
    <3> QED
      BY <2>5, <3>2, <3>3
  <2> QED
    BY <2>7, <2>8
<1> QED
  BY <1>3, <1>4, <1>6

\* tr_torrentSetAnnounceList, getannounce
LEMMA RenumberedIs ==
    ASSUME NEW list \in Seq(Tracker)
    PROVE  Renumbered(list) \in Seq(Tracker) /\ TiersFit(Renumbered(list)) /\ UrlsOf(list) \subseteq UrlsOf(Renumbered(list))
<1> DEFINE sorted == ByTier(list)
           n == Len(list)
           tier == [i \in 1..n |-> sorted[i].tier]
           number == [i \in 1..n |-> Cardinality({tier[j] : j \in 1..(i - 1)} \ {tier[i]})]
           new == Renumbered(list)
<1>1. /\ sorted \in Seq(Tracker) /\ Len(sorted) = n /\ n \in Nat
      /\ \A k \in 1..n : k > 1 => sorted[k - 1].tier <= sorted[k].tier
      /\ \A j \in 1..n : \E k \in 1..n : sorted[k] = list[j]
  BY ByTierIs, TrackersAre
<1>2. DOMAIN sorted = 1..n /\ \A i \in 1..n : sorted[i].tier \in Nat /\ sorted[i].url \in TrackerUrls
  BY <1>1, TrackersAre
<1>3. new = [i \in 1..n |-> [url |-> sorted[i].url, tier |-> Cardinality({sorted[j].tier : j \in 1..(i - 1)} \ {sorted[i].tier})]]
  BY <1>2 DEF Renumbered
<1> HIDE DEF sorted, n, new
<1>4. tier \in [1..n -> Nat] /\ \A k \in 1..n : k > 1 => tier[k - 1] <= tier[k]
  <2>1. tier \in [1..n -> Nat]
    BY <1>2
  <2>2. \A i \in 1..n : tier[i] = sorted[i].tier
    OBVIOUS
  <2> HIDE DEF tier
  <2>3. \A k \in 1..n : k > 1 => k - 1 \in 1..n
    BY <1>1
  <2>4. \A k \in 1..n : k > 1 => tier[k - 1] <= tier[k]
    BY <1>1, <2>2, <2>3
  <2> QED
    BY <2>1, <2>4
<1>5. \A i \in 1..n : number[i] = Cardinality({sorted[j].tier : j \in 1..(i - 1)} \ {sorted[i].tier})
  <2> TAKE i \in 1..n
  <2>1. {tier[j] : j \in 1..(i - 1)} = {sorted[j].tier : j \in 1..(i - 1)}
    <3>1. \A j \in 1..(i - 1) : tier[j] = sorted[j].tier
      BY <1>1
    <3> QED
      BY <3>1
  <2> QED
    BY <2>1
<1> HIDE DEF tier
<1>6. /\ \A i \in 1..n : number[i] \in Nat
      /\ n > 0 => number[1] = 0
      /\ \A i \in 2..n : number[i] \in {number[i - 1], number[i - 1] + 1}
  <2>1. number = [i \in 1..n |-> Cardinality({tier[j] : j \in 1..(i - 1)} \ {tier[i]})]
    OBVIOUS
  <2> HIDE DEF number
  <2> QED
    BY <1>1, <1>4, <2>1, TierNumber, ZenonT(60)
<1> HIDE DEF number
<1>7. \A i \in 1..n : new[i] = [url |-> sorted[i].url, tier |-> number[i]]
  <2> TAKE i \in 1..n
  <2>1. new[i] = [url |-> sorted[i].url, tier |-> Cardinality({sorted[j].tier : j \in 1..(i - 1)} \ {sorted[i].tier})]
    BY <1>3
  <2> QED
    BY <1>5, <2>1
<1>8. new \in Seq(Tracker) /\ Len(new) = n /\ DOMAIN new = 1..n
  <2>1. ASSUME NEW i \in 1..n PROVE new[i] \in Tracker
    <3>1. sorted[i].url \in TrackerUrls /\ number[i] \in Nat /\ new[i] = [url |-> sorted[i].url, tier |-> number[i]]
      BY <1>2, <1>6, <1>7
    <3> QED
      BY <3>1 DEF Tracker
  <2>2. new = [i \in 1..n |-> new[i]]
    BY <1>3
  <2> QED
    BY <1>1, <2>1, <2>2
<1>9. \A i \in 1..n : new[i].tier = number[i] /\ new[i].url = sorted[i].url
  <2> TAKE i \in 1..n
  <2>1. new[i] = [url |-> sorted[i].url, tier |-> number[i]]
    BY <1>7
  <2> QED
    BY <2>1
<1>10. TiersFit(new)
  <2>1. new # <<>> => n > 0 /\ 1 \in 1..n
    BY <1>1, <1>8
  <2>2. \A i \in 2..n : i \in 1..n /\ i - 1 \in 1..n
    BY <1>1
  <2> QED
    BY <1>6, <1>8, <1>9, <2>1, <2>2 DEF TiersFit
<1>11. UrlsOf(list) \subseteq UrlsOf(new)
  <2> SUFFICES ASSUME NEW j \in 1..n PROVE \E i \in 1..n : new[i].url = list[j].url
    BY <1>8, TrackersAre DEF UrlsOf, n
  <2>1. PICK i \in 1..n : sorted[i] = list[j]
    BY <1>1
  <2>2. new[i].url = list[j].url
    BY <1>9, <2>1
  <2> QED
    BY <2>2
<1> QED
  BY <1>8, <1>10, <1>11 DEF new

LEMMA HighestTier ==
    ASSUME NEW list \in Seq(Tracker), list # <<>>
    PROVE  Max({list[i].tier : i \in DOMAIN list}) \in Nat
<1> DEFINE n == Len(list)
           S == {list[i].tier : i \in DOMAIN list}
<1>1. n \in Nat /\ DOMAIN list = 1..n /\ \A i \in 1..n : list[i].tier \in Nat
  BY TrackersAre
<1>2. n >= 1
  BY <1>1
<1> HIDE DEF n
<1>3. \E b \in Nat : \A i \in 1..n : list[i].tier <= b
  <2> DEFINE T == {m \in 0..n : \E b \in Nat : \A i \in 1..m : list[i].tier <= b}
  <2>1. 0 \in T
    <3>1. 0 \in Nat /\ \A i \in 1..0 : list[i].tier <= 0
      OBVIOUS
    <3> QED
      BY <1>1, <3>1
  <2>2. ASSUME NEW k \in 1..n, k - 1 \in T PROVE k \in T
    <3>1. PICK b \in Nat : \A i \in 1..(k - 1) : list[i].tier <= b
      BY <2>2
    <3> DEFINE c == b + list[k].tier
    <3>2. c \in Nat /\ list[k].tier <= c /\ b <= c
      BY <1>1
    <3>3. \A i \in 1..k : list[i].tier <= c
      <4> HIDE DEF c
      <4>1. \A i \in 1..k : i = k \/ i \in 1..(k - 1)
        OBVIOUS
      <4>2. \A i \in 1..(k - 1) : list[i].tier \in Nat /\ list[i].tier <= b
        BY <1>1, <3>1
      <4>3. \A i \in 1..(k - 1) : list[i].tier <= c
        BY <3>2, <4>2
      <4> QED
        BY <3>2, <4>1, <4>3
    <3> HIDE DEF c
    <3>4. \E d \in Nat : \A i \in 1..k : list[i].tier <= d
      BY <3>2, <3>3, Zenon
    <3>5. k \in 0..n
      BY <1>1
    <3> QED
      BY <3>4, <3>5
  <2> HIDE DEF T
  <2>3. \A k \in 0..n : k \in T
    BY <1>1, <2>1, <2>2, Climb
  <2>4. n \in T
    BY <1>1, <2>3
  <2> QED
    BY <2>4 DEF T
<1>4. PICK b \in Nat : \A i \in 1..n : list[i].tier <= b
  BY <1>3
<1>5. S \in SUBSET (0..b) /\ S # {}
  BY <1>1, <1>2, <1>4
<1> HIDE DEF S
<1>6. Max(S) \in S
  BY <1>5, GreatestUpTo
<1> QED
  BY <1>5, <1>6 DEF S

\* addTrackerUrls: what it had, and all that are valid.
LEMMA AddUrlsIs ==
    ASSUME NEW list \in Seq(Tracker), NEW urls \in Seq(Urls)
    PROVE  /\ AddUrls(list, urls) \in Seq(Tracker)
           /\ ToSet(urls) \ {BadUrl} \subseteq UrlsOf(AddUrls(list, urls))
<1> DEFINE n == Len(urls)
           Next(ts, u) == [url |-> u, tier |-> IF ts = <<>> THEN 0 ELSE 1 + Max({ts[i].tier : i \in DOMAIN ts})]
           Body(ts, k) == IF urls[k] = BadUrl \/ \E i \in DOMAIN ts : ts[i].url = urls[k] THEN ts
                          ELSE Append(ts, Next(ts, urls[k]))
           X == [k \in 0..n |-> {ts \in Seq(Tracker) : \A i \in 1..k : urls[i] = BadUrl \/ urls[i] \in UrlsOf(ts)}]
           F == [k \in 1..n |-> [ts \in Seq(Tracker) |-> Body(ts, k)]]
           Loop(f) == f = [k \in 0..n |-> IF k = 0 THEN list ELSE Body(f[k - 1], k)]
           g == CHOOSE f : Loop(f)
<1>1. n \in Nat /\ DOMAIN urls = 1..n /\ \A k \in 1..n : urls[k] \in Urls
  OBVIOUS
<1>2. AddUrls(list, urls) = g[n]
  BY DEF AddUrls
<1> HIDE DEF n
<1>3. ASSUME NEW ts \in Seq(Tracker), NEW u \in TrackerUrls PROVE Next(ts, u) \in Tracker
  <2>1. ts # <<>> => Max({ts[i].tier : i \in DOMAIN ts}) \in Nat
    BY HighestTier
  <2> DEFINE m == Max({ts[i].tier : i \in DOMAIN ts})
  <2>2. ts # <<>> => m \in Nat
    BY <2>1
  <2> HIDE DEF m
  <2>3. (IF ts = <<>> THEN 0 ELSE 1 + m) \in Nat
    BY <2>2
  <2> QED
    BY <2>3 DEF Tracker, m
<1>4. \A k \in 0..n : X[k] = {ts \in Seq(Tracker) : \A i \in 1..k : urls[i] = BadUrl \/ urls[i] \in UrlsOf(ts)}
  OBVIOUS
<1>5. \A k \in 1..n : \A ts \in Seq(Tracker) : F[k][ts] = Body(ts, k)
  OBVIOUS
<1>6. 0 \in 0..n /\ \A k \in 1..n : k - 1 \in 0..n /\ k \in 0..n
  BY <1>1
<1> HIDE DEF X, F
<1>7. ASSUME NEW k \in 1..n, NEW ts \in X[k - 1] PROVE ts \in Seq(Tracker) /\ Body(ts, k) \in X[k]
  <2>1. ts \in Seq(Tracker) /\ \A i \in 1..(k - 1) : urls[i] = BadUrl \/ urls[i] \in UrlsOf(ts)
    BY <1>4, <1>6
  <2>2. \A i \in 1..k : i = k \/ i \in 1..(k - 1)
    BY <1>1
  <2>3. CASE urls[k] = BadUrl \/ \E i \in DOMAIN ts : ts[i].url = urls[k]
    <3>1. urls[k] = BadUrl \/ urls[k] \in UrlsOf(ts)
      BY <2>3 DEF UrlsOf
    <3>2. Body(ts, k) = ts
      BY <2>3
    <3> QED
      BY <1>4, <1>6, <2>1, <2>2, <3>1, <3>2
  <2>4. CASE ~(urls[k] = BadUrl \/ \E i \in DOMAIN ts : ts[i].url = urls[k])
    <3> DEFINE e == Next(ts, urls[k])
               us == Append(ts, e)
    <3>1. urls[k] \in TrackerUrls
      BY <1>1, <2>4 DEF Urls
    <3>2. e \in Tracker /\ e.url = urls[k]
      BY <1>3, <2>1, <3>1
    <3>3. Body(ts, k) = us
      BY <2>4
    <3> HIDE DEF e
    <3>4. /\ us \in Seq(Tracker) /\ DOMAIN ts = 1..Len(ts) /\ DOMAIN us = 1..(Len(ts) + 1) /\ Len(ts) \in Nat
          /\ us[Len(ts) + 1] = e /\ \A i \in 1..Len(ts) : us[i] = ts[i]
      BY <2>1, <3>2
    <3>5. UrlsOf(ts) \subseteq UrlsOf(us) /\ urls[k] \in UrlsOf(us)
      <4> HIDE DEF us
      <4>1. \A i \in DOMAIN ts : i \in DOMAIN us /\ us[i].url = ts[i].url
        BY <3>4
      <4>2. Len(ts) + 1 \in DOMAIN us /\ us[Len(ts) + 1].url = urls[k]
        BY <3>2, <3>4
      <4> QED
        BY <4>1, <4>2 DEF UrlsOf
    <3> HIDE DEF us
    <3> QED
      BY <1>4, <1>6, <2>1, <2>2, <3>3, <3>4, <3>5
  <2> QED
    BY <2>1, <2>3, <2>4
<1> HIDE DEF Body
<1>8. list \in X[0]
  BY <1>4, <1>6
<1>9. PICK f : IsLoop(f, n, list, F) /\ \A k \in 0..n : f[k] \in X[k]
  <2>1. \A k \in 1..n : \A x \in X[k - 1] : F[k][x] \in X[k]
    BY <1>5, <1>7
  <2> QED
    BY <1>1, <1>8, <2>1, StepsExist
<1>10. Loop(f)
  <2>1. ASSUME NEW k \in 0..n PROVE (IF k = 0 THEN list ELSE F[k][f[k - 1]]) = IF k = 0 THEN list ELSE Body(f[k - 1], k)
    <3>1. CASE k # 0
      <4>1. k \in 1..n
        BY <1>1, <3>1
      <4>2. f[k - 1] \in Seq(Tracker)
        BY <1>6, <1>7, <1>9, <4>1
      <4> QED
        BY <1>5, <4>1, <4>2
    <3> QED
      BY <3>1
  <2> QED
    BY <1>9, <2>1 DEF IsLoop
<1>11. Loop(g)
  BY <1>10
<1> HIDE DEF g
<1>12. g[0] = list /\ \A k \in 1..n : g[k] = Body(g[k - 1], k)
  BY <1>1, <1>11
<1>13. \A k \in 0..n : g[k] \in X[k]
  <2>1. g[0] \in X[0] /\ \A k \in 1..n : g[k - 1] \in X[k - 1] => g[k] \in X[k]
    BY <1>7, <1>8, <1>12
  <2> QED
    BY <1>1, <2>1, StepsReach
<1>14. g[n] \in Seq(Tracker) /\ \A i \in 1..n : urls[i] = BadUrl \/ urls[i] \in UrlsOf(g[n])
  BY <1>1, <1>4, <1>13
<1> QED
  BY <1>1, <1>2, <1>14 DEF ToSet

-----------------------------------------------------------------------------
\* replaceTrackers: the list keeps its length and its tiers.
LEMMA ReplaceUrlsIs ==
    ASSUME NEW list \in Seq(Tracker), NEW pairs, Len(pairs) \in Nat,
           \A k \in 1..Len(pairs) : pairs[k][1] \in Nat /\ pairs[k][2] \in Urls
    PROVE  ReplaceUrls(list, pairs) \in Seq(Tracker)
<1> DEFINE n == Len(pairs)
           S == {ts \in Seq(Tracker) : Len(ts) = Len(list)}
           Body(ts, k) == IF pairs[k][1] < Len(list) /\ pairs[k][2] # BadUrl
                          THEN [ts EXCEPT ![pairs[k][1] + 1].url = pairs[k][2]] ELSE ts
           X == [k \in 0..n |-> S]
           F == [k \in 1..n |-> [ts \in S |-> Body(ts, k)]]
           Loop(f) == f = [k \in 0..n |-> IF k = 0 THEN list ELSE Body(f[k - 1], k)]
           g == CHOOSE f : Loop(f)
<1>1. n \in Nat /\ \A k \in 1..n : pairs[k][1] \in Nat /\ pairs[k][2] \in Urls
  OBVIOUS
<1>2. ReplaceUrls(list, pairs) = g[n]
  BY DEF ReplaceUrls
<1>3. Len(list) \in Nat
  OBVIOUS
<1> HIDE DEF n
<1>4. \A k \in 0..n : X[k] = S
  OBVIOUS
<1>5. \A k \in 1..n : \A ts \in S : F[k][ts] = Body(ts, k)
  OBVIOUS
<1>6. 0 \in 0..n /\ \A k \in 1..n : k - 1 \in 0..n /\ k \in 0..n
  BY <1>1
<1> HIDE DEF X, F
<1>7. ASSUME NEW k \in 1..n, NEW ts \in S PROVE Body(ts, k) \in S
  <2> DEFINE i == pairs[k][1] + 1
             u == pairs[k][2]
  <2>1. CASE pairs[k][1] < Len(list) /\ u # BadUrl
    <3>1. i \in 1..Len(ts) /\ u \in TrackerUrls
      BY <1>1, <1>3, <2>1 DEF Urls
    <3>2. Body(ts, k) = [ts EXCEPT ![i].url = u]
      BY <2>1
    <3> HIDE DEF i, u
    <3>3. [ts[i] EXCEPT !.url = u] \in Tracker
      BY <3>1, TrackersAre DEF Tracker
    <3>4. [ts EXCEPT ![i].url = u] \in Seq(Tracker) /\ Len([ts EXCEPT ![i].url = u]) = Len(ts)
      <4> DEFINE e == [ts[i] EXCEPT !.url = u]
      <4>1. [ts EXCEPT ![i].url = u] = [ts EXCEPT ![i] = e]
        OBVIOUS
      <4>2. e \in Tracker
        BY <3>3
      <4> HIDE DEF e
      <4>3. [ts EXCEPT ![i] = e] \in Seq(Tracker) /\ Len([ts EXCEPT ![i] = e]) = Len(ts)
        BY <3>1, <4>2
      <4> QED
        BY <4>1, <4>3
    <3> QED
      BY <3>2, <3>4
  <2>2. CASE ~(pairs[k][1] < Len(list) /\ u # BadUrl)
    BY <2>2
  <2> QED
    BY <2>1, <2>2
<1> HIDE DEF Body
<1>8. list \in S
  OBVIOUS
<1> HIDE DEF S
<1>9. PICK f : IsLoop(f, n, list, F) /\ \A k \in 0..n : f[k] \in X[k]
  <2>1. \A k \in 1..n : \A x \in X[k - 1] : F[k][x] \in X[k]
    BY <1>4, <1>5, <1>6, <1>7
  <2>2. list \in X[0]
    BY <1>4, <1>6, <1>8
  <2> QED
    BY <1>1, <2>1, <2>2, StepsExist
<1>10. Loop(f)
  <2>1. ASSUME NEW k \in 0..n PROVE (IF k = 0 THEN list ELSE F[k][f[k - 1]]) = IF k = 0 THEN list ELSE Body(f[k - 1], k)
    <3>1. CASE k # 0
      <4>1. k \in 1..n
        BY <1>1, <3>1
      <4>2. f[k - 1] \in S
        BY <1>4, <1>6, <1>9, <4>1
      <4> QED
        BY <1>5, <4>1, <4>2
    <3> QED
      BY <3>1
  <2> QED
    BY <1>9, <2>1 DEF IsLoop
<1>11. Loop(g)
  BY <1>10
<1> HIDE DEF g
<1>12. g[0] = list /\ \A k \in 1..n : g[k] = Body(g[k - 1], k)
  BY <1>1, <1>11
<1>13. \A k \in 0..n : g[k] \in X[k]
  <2>1. g[0] \in X[0] /\ \A k \in 1..n : g[k - 1] \in X[k - 1] => g[k] \in X[k]
    BY <1>4, <1>6, <1>7, <1>8, <1>12
  <2> QED
    BY <1>1, <2>1, StepsReach
<1>14. g[n] \in S
  BY <1>1, <1>4, <1>13
<1> QED
  BY <1>2, <1>14 DEF S

\* removeTrackers, one position after the other: what each step keeps.
LEMMA RemoveLoop ==
    ASSUME NEW D, NEW list \in Seq(D), NEW ids, NEW n, n = Len(list),
           NEW X, X \in [0..n -> SUBSET Seq(D)], list \in X[0],
           \A k \in 1..n : \A ts \in X[k - 1] : (IF n - k \in ToSet(ids) THEN RemoveAt(ts, n - k + 1) ELSE ts) \in X[k]
    PROVE  RemoveUrls(list, ids) \in X[n]
<1> DEFINE Body(ts, k) == IF n - k \in ToSet(ids) THEN RemoveAt(ts, n - k + 1) ELSE ts
           F == [k \in 1..n |-> [ts \in Seq(D) |-> Body(ts, k)]]
           Loop(f) == f = [k \in 0..n |-> IF k = 0 THEN list ELSE Body(f[k - 1], k)]
           g == CHOOSE f : Loop(f)
<1>1. n \in Nat
  OBVIOUS
<1>2. RemoveUrls(list, ids) = g[n]
  BY DEF RemoveUrls
<1>3. \A k \in 1..n : \A ts \in X[k - 1] : Body(ts, k) \in X[k]
  OBVIOUS
<1>4. \A k \in 1..n : \A ts \in Seq(D) : F[k][ts] = Body(ts, k)
  OBVIOUS
<1>5. 0 \in 0..n /\ \A k \in 1..n : k - 1 \in 0..n /\ k \in 0..n
  BY <1>1
<1> HIDE DEF F, Body
<1>6. \A k \in 0..n : \A ts \in X[k] : ts \in Seq(D)
  OBVIOUS
<1>7. PICK f : IsLoop(f, n, list, F) /\ \A k \in 0..n : f[k] \in X[k]
  <2>1. \A k \in 1..n : \A x \in X[k - 1] : F[k][x] \in X[k]
    BY <1>3, <1>4, <1>5, <1>6
  <2> QED
    BY <1>1, <2>1, StepsExist
<1>8. Loop(f)
  <2>1. ASSUME NEW k \in 0..n PROVE (IF k = 0 THEN list ELSE F[k][f[k - 1]]) = IF k = 0 THEN list ELSE Body(f[k - 1], k)
    <3>1. CASE k # 0
      <4>1. k \in 1..n
        BY <1>1, <3>1
      <4>2. f[k - 1] \in Seq(D)
        BY <1>5, <1>6, <1>7, <4>1
      <4> QED
        BY <1>4, <4>1, <4>2
    <3> QED
      BY <3>1
  <2> QED
    BY <1>7, <2>1 DEF IsLoop
<1>9. Loop(g)
  BY <1>8
<1> HIDE DEF g
<1>10. g[0] = list /\ \A k \in 1..n : g[k] = Body(g[k - 1], k)
  BY <1>1, <1>9, SMTT(40)
<1>11. \A k \in 0..n : g[k] \in X[k]
  <2>1. g[0] \in X[0] /\ \A k \in 1..n : g[k - 1] \in X[k - 1] => g[k] \in X[k]
    BY <1>3, <1>10
  <2> QED
    BY <1>1, <2>1, StepsReach
<1> QED
  BY <1>1, <1>2, <1>11

LEMMA RemoveUrlsIs ==
    ASSUME NEW D, NEW list \in Seq(D), NEW ids
    PROVE  RemoveUrls(list, ids) \in Seq(D)
<1> DEFINE n == Len(list)
           X == [k \in 0..n |-> {ts \in Seq(D) : Len(ts) >= n - k}]
<1>1. n \in Nat
  OBVIOUS
<1>2. list \in {ts \in Seq(D) : Len(ts) >= n - 0}
  OBVIOUS
<1> HIDE DEF n
<1>3. X \in [0..n -> SUBSET Seq(D)] /\ \A k \in 0..n : X[k] = {ts \in Seq(D) : Len(ts) >= n - k}
  OBVIOUS
<1> HIDE DEF X
<1>4. ASSUME NEW k \in 1..n, NEW ts \in X[k - 1]
      PROVE  (IF n - k \in ToSet(ids) THEN RemoveAt(ts, n - k + 1) ELSE ts) \in X[k]
  <2>1. k \in 0..n /\ k - 1 \in 0..n /\ n - k + 1 \in Int /\ n - k + 1 >= 1 /\ k \in Int
    BY <1>1
  <2>2. ts \in Seq(D) /\ Len(ts) >= n - (k - 1) /\ Len(ts) \in Nat
    BY <1>3, <2>1
  <2>3. n - k + 1 \in 1..Len(ts) /\ Len(ts) - 1 >= n - k
    BY <1>1, <2>1, <2>2
  <2>4. RemoveAt(ts, n - k + 1) \in Seq(D) /\ Len(RemoveAt(ts, n - k + 1)) = Len(ts) - 1
    BY <2>2, <2>3, RemovedShape
  <2> QED
    BY <1>1, <1>3, <2>1, <2>2, <2>3, <2>4
<1>5. list \in X[0]
  BY <1>1, <1>2, <1>3
<1>6. RemoveUrls(list, ids) \in X[n]
  BY <1>3, <1>4, <1>5, RemoveLoop DEF n
<1> QED
  BY <1>1, <1>3, <1>6

\* Removing by position takes out exactly the positions named, whatever they
\* are and in whatever order.
LEMMA RemovesThese ==
    ASSUME NEW n \in Nat, NEW ids, NEW left, left = RemoveUrls([x \in 1..n |-> x], ids)
    PROVE  /\ \A a \in 2..Len(left) : left[a - 1] < left[a]
           /\ ToSet(left) = {x \in 1..n : x - 1 \notin ToSet(ids)}
<1> DEFINE all == [x \in 1..n |-> x]
           Good(k, ts) == /\ \A x \in 1..(n - k) : ts[x] = x
                          /\ Len(ts) >= n - k
                          /\ \A a, b \in 1..Len(ts) : a < b => ts[a] < ts[b]
                          /\ \A x \in 1..n : (\E a \in 1..Len(ts) : ts[a] = x) <=> (x <= n - k \/ x - 1 \notin ToSet(ids))
           X == [k \in 0..n |-> {ts \in Seq(1..n) : Good(k, ts)}]
<1>1. all \in Seq(1..n) /\ Len(all) = n /\ \A x \in 1..n : all[x] = x
  <2>1. \A x \in 1..n : x \in 1..n
    OBVIOUS
  <2> QED
    BY <2>1
<1> HIDE DEF all
<1>2. X \in [0..n -> SUBSET Seq(1..n)] /\ \A k \in 0..n : X[k] = {ts \in Seq(1..n) : Good(k, ts)}
  OBVIOUS
<1> HIDE DEF X
<1>3. all \in X[0]
  <2>1. Good(0, all)
    <3>1. Len(all) >= n - 0 /\ \A x \in 1..(n - 0) : all[x] = x
      BY <1>1
    <3>2. \A a, b \in 1..Len(all) : a < b => all[a] < all[b]
      BY <1>1
    <3>3. \A x \in 1..n : x <= n - 0 /\ \E a \in 1..Len(all) : all[a] = x
      BY <1>1
    <3> QED
      BY <3>1, <3>2, <3>3
  <2> QED
    BY <1>1, <1>2, <2>1
<1>4. ASSUME NEW k \in 1..n, NEW ts \in X[k - 1]
      PROVE  (IF n - k \in ToSet(ids) THEN RemoveAt(ts, n - k + 1) ELSE ts) \in X[k]
  <2> DEFINE i == n - k + 1
             m == Len(ts)
  <2>1. k \in 0..n /\ k - 1 \in 0..n /\ i \in 1..n /\ n - (k - 1) = i /\ n - k = i - 1 /\ k \in Int
    OBVIOUS
  <2>2. ts \in Seq(1..n) /\ Good(k - 1, ts)
    BY <1>2, <2>1
  <2>3. /\ m \in Nat /\ m >= i /\ \A a \in 1..m : ts[a] \in 1..n
        /\ \A x \in 1..i : ts[x] = x
        /\ \A a, b \in 1..m : a < b => ts[a] < ts[b]
        /\ \A x \in 1..n : (\E a \in 1..m : ts[a] = x) <=> (x <= i \/ x - 1 \notin ToSet(ids))
    BY <2>1, <2>2
  <2> HIDE DEF i, m, Good
  <2>4. CASE i - 1 \in ToSet(ids)
    <3> DEFINE us == RemoveAt(ts, i)
    <3>1. i \in 1..m /\ m = Len(ts)
      BY <2>1, <2>3 DEF m
    <3>2. us \in Seq(1..n) /\ Len(us) = m - 1 /\ \A j \in 1..(m - 1) : us[j] = IF j < i THEN ts[j] ELSE ts[j + 1]
      BY <2>2, <3>1, RemovedShape
    <3> HIDE DEF us
    <3>3. Len(us) >= i - 1 /\ \A x \in 1..(i - 1) : us[x] = x
      <4>1. Len(us) >= i - 1
        BY <2>1, <2>3, <3>2
      <4>2. \A x \in 1..(i - 1) : x \in 1..(m - 1) /\ x < i /\ x \in 1..i
        BY <2>1, <2>3
      <4>3. \A x \in 1..(i - 1) : us[x] = ts[x] /\ ts[x] = x
        BY <2>3, <3>2, <4>2
      <4> QED
        BY <4>1, <4>3
    <3>4. ASSUME NEW a \in 1..(m - 1), NEW b \in 1..(m - 1), a < b PROVE us[a] < us[b]
      <4>1. a \in 1..m /\ a + 1 \in 1..m /\ b \in 1..m /\ b + 1 \in 1..m /\ a < b + 1 /\ a + 1 < b + 1 /\ ~(b < i /\ ~(a < i))
        BY <2>1, <2>3, <3>4
      <4>2. us[a] = (IF a < i THEN ts[a] ELSE ts[a + 1]) /\ us[b] = IF b < i THEN ts[b] ELSE ts[b + 1]
        BY <3>2
      <4>3. ts[a] < ts[b] /\ ts[a] < ts[b + 1] /\ ts[a + 1] < ts[b + 1]
        BY <2>3, <3>4, <4>1
      <4> QED
        BY <4>1, <4>2, <4>3
    <3>5. ASSUME NEW x \in 1..n PROVE (\E a \in 1..(m - 1) : us[a] = x) <=> (x <= i - 1 \/ x - 1 \notin ToSet(ids))
      <4>1. ASSUME NEW a \in 1..(m - 1), us[a] = x PROVE x # i /\ \E b \in 1..m : ts[b] = x
        <5>1. CASE a < i
          <6>1. us[a] = ts[a] /\ a \in 1..m /\ ts[a] = a
            BY <2>1, <2>3, <3>2, <5>1
          <6> QED
            BY <2>1, <4>1, <5>1, <6>1
        <5>2. CASE ~(a < i)
          <6>1. us[a] = ts[a + 1] /\ a + 1 \in 1..m /\ i < a + 1
            BY <2>1, <2>3, <3>2, <5>2
          <6>2. ts[i] = i /\ ts[i] < ts[a + 1]
            BY <2>1, <2>3, <3>1, <6>1
          <6> QED
            BY <2>1, <4>1, <6>1, <6>2
        <5> QED
          BY <5>1, <5>2
      <4>2. ASSUME NEW b \in 1..m, ts[b] = x, x # i PROVE \E a \in 1..(m - 1) : us[a] = x
        <5>1. CASE b < i
          <6>1. b \in 1..(m - 1) /\ us[b] = ts[b]
            BY <2>1, <2>3, <3>2, <5>1
          <6> QED
            BY <4>2, <6>1
        <5>2. CASE b > i
          <6>1. b - 1 \in 1..(m - 1) /\ ~(b - 1 < i) /\ (b - 1) + 1 = b
            BY <2>1, <2>3, <5>2
          <6>2. us[b - 1] = ts[b]
            BY <3>2, <6>1
          <6> QED
            BY <4>2, <6>1, <6>2
        <5>3. CASE b = i
          BY <2>1, <2>3, <4>2, <5>3
        <5> QED
          BY <2>1, <2>3, <5>1, <5>2, <5>3
      <4>3. (\E b \in 1..m : ts[b] = x) <=> (x <= i \/ x - 1 \notin ToSet(ids))
        BY <2>3
      <4>4. CASE x = i
        <5>1. x - 1 \in ToSet(ids) /\ ~(x <= i - 1)
          BY <2>1, <2>4, <4>4
        <5> QED
          BY <4>1, <4>4, <5>1
      <4>5. CASE x # i
        <5>1. x <= i - 1 <=> x <= i
          BY <2>1, <4>5
        <5> QED
          BY <4>1, <4>2, <4>3, <4>5, <5>1
      <4> QED
        BY <4>4, <4>5
    <3>6. Good(k, us)
      <4>1. n - k = i - 1 /\ Len(us) = m - 1
        BY <2>1, <3>2
      <4>2. \A a, b \in 1..Len(us) : a < b => us[a] < us[b]
        BY <3>4, <4>1
      <4>3. \A x \in 1..n : (\E a \in 1..Len(us) : us[a] = x) <=> (x <= i - 1 \/ x - 1 \notin ToSet(ids))
        BY <3>5, <4>1
      <4> QED
        BY <3>3, <4>1, <4>2, <4>3 DEF Good
    <3>7. n - k = i - 1 /\ n - k + 1 = i
      BY <2>1 DEF i
    <3> QED
      BY <1>2, <2>1, <2>4, <3>2, <3>6, <3>7 DEF us
  <2>5. CASE i - 1 \notin ToSet(ids)
    <3>1. ASSUME NEW x \in 1..n PROVE (\E a \in 1..m : ts[a] = x) <=> (x <= i - 1 \/ x - 1 \notin ToSet(ids))
      <4>1. x <= i <=> x <= i - 1 \/ x = i
        BY <2>1
      <4>2. (\E a \in 1..m : ts[a] = x) <=> (x <= i \/ x - 1 \notin ToSet(ids))
        BY <2>3
      <4>3. x = i => x - 1 \notin ToSet(ids)
        BY <2>5
      <4> QED
        BY <4>1, <4>2, <4>3
    <3>2. Good(k, ts)
      <4>1. n - k = i - 1 /\ Len(ts) = m
        BY <2>1 DEF m
      <4>2. m >= i - 1 /\ \A x \in 1..(i - 1) : ts[x] = x
        BY <2>1, <2>3
      <4>3. \A a, b \in 1..m : a < b => ts[a] < ts[b]
        BY <2>3
      <4> QED
        BY <3>1, <4>1, <4>2, <4>3 DEF Good
    <3> QED
      BY <1>2, <2>1, <2>2, <2>5, <3>2
  <2> QED
    BY <2>4, <2>5
<1> HIDE DEF Good
<1>5. left \in X[n]
  <2>1. RemoveUrls(all, ids) \in X[n]
    BY <1>1, <1>2, <1>3, <1>4, RemoveLoop
  <2> QED
    BY <2>1 DEF all
<1>6. left \in Seq(1..n) /\ Good(n, left)
  BY <1>2, <1>5
<1>7. /\ DOMAIN left = 1..Len(left) /\ Len(left) \in Nat /\ \A a \in 1..Len(left) : left[a] \in 1..n
      /\ \A a, b \in 1..Len(left) : a < b => left[a] < left[b]
      /\ \A x \in 1..n : (\E a \in 1..Len(left) : left[a] = x) <=> (x <= n - n \/ x - 1 \notin ToSet(ids))
  <2>1. DOMAIN left = 1..Len(left) /\ Len(left) \in Nat /\ \A a \in 1..Len(left) : left[a] \in 1..n
    <3>1. left \in Seq(1..n)
      BY <1>6
    <3> QED
      BY <3>1
  <2> QED
    BY <1>6, <2>1 DEF Good
<1>8. ASSUME NEW a \in 2..Len(left) PROVE left[a - 1] < left[a]
  <2>1. a \in 1..Len(left) /\ a - 1 \in 1..Len(left) /\ a - 1 < a
    BY <1>7
  <2> QED
    BY <1>7, <2>1
<1>9. \A x \in 1..n : x \in ToSet(left) <=> x - 1 \notin ToSet(ids)
  <2> TAKE x \in 1..n
  <2>1. ~(x <= n - n)
    OBVIOUS
  <2> QED
    BY <1>7, <2>1 DEF ToSet
<1>10. ToSet(left) \subseteq 1..n
  BY <1>7 DEF ToSet
<1> QED
  BY <1>8, <1>9, <1>10

LEMMA RemovesExactlyHolds == RemovesExactly
<1> SUFFICES ASSUME NEW n \in 0..3, NEW i \in 0..3, NEW j \in 0..3, NEW k \in 0..3
             PROVE  LET left == RemoveUrls([x \in 1..n |-> x], <<i, j, k>>)
                    IN  /\ \A a \in 2..Len(left) : left[a - 1] < left[a]
                        /\ ToSet(left) = {x \in 1..n : x - 1 \notin {i, j, k}}
  BY DEF RemovesExactly
<1> DEFINE ids == <<i, j, k>>
           left == RemoveUrls([x \in 1..n |-> x], ids)
<1>1. ToSet(ids) = {i, j, k}
  <2>1. DOMAIN ids = {1, 2, 3}
    OBVIOUS
  <2> QED
    BY <2>1 DEF ToSet
<1>2. n \in Nat
  OBVIOUS
<1>3. /\ \A a \in 2..Len(left) : left[a - 1] < left[a]
      /\ ToSet(left) = {x \in 1..n : x - 1 \notin ToSet(ids)}
  BY <1>2, RemovesThese
<1> QED
  BY <1>1, <1>3

-----------------------------------------------------------------------------
(* torrent-set *)
Controlled == [present : BOOLEAN, dnd : SUBSET RpcFiles, limit : {"none", "slow"}, trackers : {list \in Seq(Tracker) : TiersFit(list)}]
Accs == [error : BOOLEAN, tors : [RpcTorrents -> Controlled]]
\* The torrent x has all that was asked of it.
GotAll(args, x) ==
    /\ \A list \in args.unwanted : (IF list = <<>> THEN RpcFiles ELSE ToSet(list)) \subseteq x.dnd
    /\ args.limit # "none" => x.limit = args.limit
    /\ \A list \in args.add : ToSet(list) \ {BadUrl} \subseteq UrlsOf(x.trackers)
\* A step of torrent-set touches the torrent t alone, and forgets no error.
Touches(t, acc, b) ==
    /\ b \in Accs /\ (acc.error => b.error)
    /\ \A u \in RpcTorrents : (u # t => b.tors[u] = acc.tors[u]) /\ b.tors[u].present = acc.tors[u].present
SameFiles(t, acc, b) == b.tors[t].dnd = acc.tors[t].dnd /\ b.tors[t].limit = acc.tors[t].limit
ArgsFit(args) ==
    /\ args.limit \in {"none", "slow"}
    /\ args.unwanted # {} => args.wanted = {} /\ \E list : args.unwanted = {list}
    /\ args.wanted # {} => \E list : args.wanted = {list}
    /\ args.add # {} => args.remove = {} /\ args.replace = {} /\ \E list \in Seq(Urls) : args.add = {list}
    /\ args.replace # {} => \E pairs : /\ args.replace = {pairs} /\ Len(pairs) \in Nat
                                       /\ \A k \in 1..Len(pairs) : pairs[k][1] \in Nat /\ pairs[k][2] \in Urls

LEMMA TheOne == ASSUME NEW x PROVE The({x}) = x
BY DEF The

LEMMA ArgsAre == ASSUME NEW args \in ArgsAsked PROVE ArgsFit(args)
<1>1. ASSUME NEW l, args = [NoArgs EXCEPT !.unwanted = {l}, !.limit = "slow"] PROVE ArgsFit(args)
  <2>1. args.limit = "slow" /\ args.unwanted = {l} /\ args.wanted = {} /\ args.add = {} /\ args.replace = {}
    BY <1>1 DEF NoArgs, NoArg
  <2> QED
    BY <2>1 DEF ArgsFit
<1>2. ASSUME NEW l, args = [NoArgs EXCEPT !.wanted = {l}] PROVE ArgsFit(args)
  <2>1. args.limit = "none" /\ args.unwanted = {} /\ args.wanted = {l} /\ args.add = {} /\ args.replace = {}
    BY <1>2 DEF NoArgs, NoArg
  <2> QED
    BY <2>1 DEF ArgsFit
<1>3. ASSUME NEW two \in Urls \X Urls, args = [NoArgs EXCEPT !.add = {two}] PROVE ArgsFit(args)
  <2>1. args.limit = "none" /\ args.unwanted = {} /\ args.wanted = {} /\ args.add = {two} /\ args.remove = {} /\ args.replace = {}
    BY <1>3 DEF NoArgs, NoArg
  <2>2. two \in Seq(Urls)
    <3>1. PICK u \in Urls, v \in Urls : two = <<u, v>>
      OBVIOUS
    <3> QED
      BY <3>1
  <2> QED
    BY <2>1, <2>2 DEF ArgsFit
<1>4. ASSUME NEW two, args = [NoArgs EXCEPT !.remove = {two}] PROVE ArgsFit(args)
  <2>1. args.limit = "none" /\ args.unwanted = {} /\ args.wanted = {} /\ args.add = {} /\ args.replace = {}
    BY <1>4 DEF NoArgs, NoArg
  <2> QED
    BY <2>1 DEF ArgsFit
<1>5. ASSUME NEW pair \in (0..1) \X Urls, args = [NoArgs EXCEPT !.replace = {<<pair>>}] PROVE ArgsFit(args)
  <2> DEFINE pairs == <<pair>>
  <2>1. args.limit = "none" /\ args.unwanted = {} /\ args.wanted = {} /\ args.add = {} /\ args.replace = {pairs}
    BY <1>5 DEF NoArgs, NoArg
  <2>2. Len(pairs) = 1 /\ pairs[1] = pair /\ pair[1] \in Nat /\ pair[2] \in Urls
    OBVIOUS
  <2> HIDE DEF pairs
  <2>3. Len(pairs) \in Nat /\ \A k \in 1..Len(pairs) : k = 1
    BY <2>2
  <2>4. \A k \in 1..Len(pairs) : pairs[k][1] \in Nat /\ pairs[k][2] \in Urls
    BY <2>2, <2>3
  <2>5. \E ps : /\ args.replace = {ps} /\ Len(ps) \in Nat
                /\ \A k \in 1..Len(ps) : ps[k][1] \in Nat /\ ps[k][2] \in Urls
    BY <2>1, <2>3, <2>4
  <2> QED
    BY <2>1, <2>5 DEF ArgsFit
<1>6. \/ \E l \in FileLists : args = [NoArgs EXCEPT !.unwanted = {l}, !.limit = "slow"]
      \/ \E l \in FileLists : args = [NoArgs EXCEPT !.wanted = {l}]
      \/ \E two \in Urls \X Urls : args = [NoArgs EXCEPT !.add = {two}]
      \/ \E two \in (0..2) \X (0..2) : args = [NoArgs EXCEPT !.remove = {two}]
      \/ \E pair \in (0..1) \X Urls : args = [NoArgs EXCEPT !.replace = {<<pair>>}]
  BY DEF ArgsAsked
<1> QED
  BY <1>1, <1>2, <1>3, <1>4, <1>5, <1>6

LEMMA TouchesAgain ==
    ASSUME NEW t \in RpcTorrents, NEW a, NEW b, NEW c, Touches(t, a, b), Touches(t, b, c)
    PROVE  Touches(t, a, c)
BY DEF Touches

LEMMA TouchesNothing ==
    ASSUME NEW t \in RpcTorrents, NEW a \in Accs
    PROVE  Touches(t, a, a)
BY DEF Touches

\* Only t's own record is another, with the same presence.
LEMMA TouchesOne ==
    ASSUME NEW t \in RpcTorrents, NEW acc \in Accs, NEW x \in Controlled, x.present = acc.tors[t].present,
           NEW e \in BOOLEAN, acc.error => e,
           NEW b, b = [error |-> e, tors |-> [acc.tors EXCEPT ![t] = x]]
    PROVE  Touches(t, acc, b) /\ b.tors[t] = x
<1>1. acc.tors \in [RpcTorrents -> Controlled]
  BY DEF Accs
<1>2. b.error = e /\ b.tors \in [RpcTorrents -> Controlled] /\ b.tors[t] = x /\ \A u \in RpcTorrents : u # t => b.tors[u] = acc.tors[u]
  BY <1>1
<1>3. b \in Accs
  BY <1>2 DEF Accs
<1> QED
  BY <1>2, <1>3 DEF Touches

\* setFileDLs
LEMMA FilesSetIs ==
    ASSUME NEW t \in RpcTorrents, NEW acc \in Accs, NEW l, NEW off \in BOOLEAN,
           NEW b, b = FilesSet(acc, t, {l}, off)
    PROVE  /\ Touches(t, acc, b)
           /\ off /\ ~b.error => (IF l = <<>> THEN RpcFiles ELSE ToSet(l)) \subseteq b.tors[t].dnd
<1> DEFINE files == IF l = <<>> THEN RpcFiles ELSE InRange(l)
           e == ToSet(l) \ RpcFiles # {}
           x == [acc.tors[t] EXCEPT !.dnd = IF off THEN @ \cup files ELSE @ \ files]
<1>1. acc.tors \in [RpcTorrents -> Controlled] /\ acc.error \in BOOLEAN /\ acc.tors[t] \in Controlled
  BY DEF Accs
<1>2. files \subseteq RpcFiles /\ (~e => (IF l = <<>> THEN RpcFiles ELSE ToSet(l)) \subseteq files)
  BY DEF InRange, ToSet
<1>3. CASE acc.error
  <2>1. b = acc
    BY <1>3 DEF FilesSet
  <2> QED
    BY <1>3, <2>1, TouchesNothing
<1>4. CASE ~acc.error
  <2>1. b = [error |-> e, tors |-> [acc.tors EXCEPT ![t].dnd = IF off THEN @ \cup files ELSE @ \ files]]
    <3>1. {l} # NoArg /\ The({l}) = l
      BY TheOne DEF NoArg
    <3> QED
      BY <1>4, <3>1 DEF FilesSet
  <2>2. [acc.tors EXCEPT ![t].dnd = IF off THEN @ \cup files ELSE @ \ files] = [acc.tors EXCEPT ![t] = x]
    BY <1>1
  <2>3. x \in Controlled /\ x.present = acc.tors[t].present /\ (off => files \subseteq x.dnd)
    <3> HIDE DEF files
    <3> QED
      BY <1>1, <1>2 DEF Controlled
  <2>4. e \in BOOLEAN
    OBVIOUS
  <2> HIDE DEF x, e, files
  <2>5. b = [error |-> e, tors |-> [acc.tors EXCEPT ![t] = x]]
    BY <2>1, <2>2
  <2>6. acc.error => e
    BY <1>4
  <2>7. Touches(t, acc, b) /\ b.tors[t] = x
    BY <2>3, <2>4, <2>5, <2>6, TouchesOne
  <2>8. b.error = e
    BY <2>5
  <2> QED
    BY <1>2, <2>3, <2>7, <2>8 DEF e
<1> QED
  BY <1>1, <1>3, <1>4

LEMMA LimitSetIs ==
    ASSUME NEW t \in RpcTorrents, NEW acc \in Accs, NEW lim \in {"none", "slow"},
           NEW b, b = LimitSet(acc, t, lim)
    PROVE  /\ Touches(t, acc, b) /\ b.tors[t].dnd = acc.tors[t].dnd
           /\ lim # "none" => b.tors[t].limit = lim
<1> DEFINE x == [acc.tors[t] EXCEPT !.limit = IF lim = "none" THEN @ ELSE lim]
<1>1. acc.tors \in [RpcTorrents -> Controlled] /\ acc.error \in BOOLEAN /\ acc.tors[t] \in Controlled
      /\ acc = [error |-> acc.error, tors |-> acc.tors]
  BY DEF Accs
<1>2. b = [error |-> acc.error, tors |-> [acc.tors EXCEPT ![t] = x]]
  BY <1>1 DEF LimitSet
<1>3. /\ x \in Controlled /\ x.present = acc.tors[t].present /\ x.dnd = acc.tors[t].dnd
      /\ lim # "none" => x.limit = lim
  BY <1>1 DEF Controlled
<1> HIDE DEF x
<1>4. Touches(t, acc, b) /\ b.tors[t] = x
  BY <1>1, <1>2, <1>3, TouchesOne
<1> QED
  BY <1>3, <1>4

\* tr_torrentSetAnnounceList
LEMMA TrackersSetIs ==
    ASSUME NEW t \in RpcTorrents, NEW acc \in Accs, NEW changed \in BOOLEAN, NEW list \in Seq(Tracker), NEW saved \in BOOLEAN,
           NEW b, b = AnnounceListSet(acc, t, changed, list, saved)
    PROVE  /\ Touches(t, acc, b) /\ SameFiles(t, acc, b)
           /\ ~b.error /\ saved => UrlsOf(list) \subseteq UrlsOf(b.tors[t].trackers)
<1> DEFINE new == Renumbered(list)
           x == [acc.tors[t] EXCEPT !.trackers = new]
<1>1. acc.tors \in [RpcTorrents -> Controlled] /\ acc.error \in BOOLEAN /\ acc.tors[t] \in Controlled
      /\ acc = [error |-> acc.error, tors |-> acc.tors]
  BY DEF Accs
<1>2. new \in Seq(Tracker) /\ TiersFit(new) /\ UrlsOf(list) \subseteq UrlsOf(new)
  BY RenumberedIs
<1> HIDE DEF new
<1>3. CASE acc.error
  <2>1. b = acc
    BY <1>3 DEF AnnounceListSet
  <2> QED
    BY <1>3, <2>1, TouchesNothing DEF SameFiles
<1>4. CASE ~acc.error /\ ~changed
  <2>1. b = [acc EXCEPT !.error = TRUE]
    BY <1>4 DEF AnnounceListSet
  <2>2. b.error /\ b.tors = acc.tors /\ b \in Accs
    BY <1>1, <2>1 DEF Accs
  <2> QED
    BY <2>2 DEF Touches, SameFiles
<1>5. CASE ~acc.error /\ changed /\ ~saved
  <2>1. b = acc
    BY <1>5 DEF AnnounceListSet
  <2> QED
    BY <1>5, <2>1, TouchesNothing DEF SameFiles
<1>6. CASE ~acc.error /\ changed /\ saved
  <2>1. b = [acc EXCEPT !.tors[t].trackers = Renumbered(list)]
    BY <1>6 DEF AnnounceListSet
  <2>2. b = [error |-> acc.error, tors |-> [acc.tors EXCEPT ![t] = x]]
    BY <1>1, <2>1 DEF new
  <2>3. x \in Controlled /\ x.present = acc.tors[t].present /\ x.dnd = acc.tors[t].dnd
        /\ x.limit = acc.tors[t].limit /\ x.trackers = new
    BY <1>1, <1>2 DEF Controlled
  <2> HIDE DEF x
  <2>4. Touches(t, acc, b) /\ b.tors[t] = x
    BY <1>1, <2>2, <2>3, TouchesOne
  <2> QED
    BY <1>2, <2>3, <2>4 DEF SameFiles
<1> QED
  BY <1>1, <1>3, <1>4, <1>5, <1>6

\* torrentSet does to one torrent all that was asked, or says that it did not.
LEMMA SetOneIs ==
    ASSUME NEW t \in RpcTorrents, NEW acc \in Accs, NEW args, ArgsFit(args), NEW saved \in BOOLEAN,
           NEW b, b = SetOne(acc, t, args, saved)
    PROVE  Touches(t, acc, b) /\ (~b.error /\ saved => GotAll(args, b.tors[t]))
<1> DEFINE f1 == FilesSet(acc, t, args.unwanted, TRUE)
           f2 == FilesSet(f1, t, args.wanted, FALSE)
           l == LimitSet(f2, t, args.limit)
           list(x) == x.tors[t].trackers
           a == IF args.add = NoArg THEN l
                ELSE AnnounceListSet(l, t, Adds(list(l), The(args.add)), AddUrls(list(l), The(args.add)), saved)
           r == IF args.remove = NoArg THEN a
                ELSE AnnounceListSet(a, t, Removes(list(a), The(args.remove)), RemoveUrls(list(a), The(args.remove)), saved)
           p == IF args.replace = NoArg THEN r
                ELSE AnnounceListSet(r, t, Replaces(list(r), The(args.replace)), ReplaceUrls(list(r), The(args.replace)), saved)
<1>1. b = p
  BY DEF SetOne
<1>2. ASSUME NEW x \in Accs PROVE list(x) \in Seq(Tracker)
  BY DEF Accs, Controlled
<1>3. Touches(t, acc, f1) /\ \A s \in args.unwanted : ~f1.error => (IF s = <<>> THEN RpcFiles ELSE ToSet(s)) \subseteq f1.tors[t].dnd
  <2>1. CASE args.unwanted = {}
    <3>1. f1 = acc
      BY <2>1 DEF FilesSet, NoArg
    <3> HIDE DEF f1
    <3> QED
      BY <2>1, <3>1, TouchesNothing
  <2>2. CASE args.unwanted # {}
    <3>1. PICK s : args.unwanted = {s}
      BY <2>2 DEF ArgsFit
    <3>2. f1 = FilesSet(acc, t, {s}, TRUE)
      BY <3>1
    <3> HIDE DEF f1
    <3> QED
      BY <3>1, <3>2, FilesSetIs
  <2> QED
    BY <2>1, <2>2
<1> HIDE DEF f1
<1>4. f1 \in Accs
  BY <1>3 DEF Touches
<1>5. Touches(t, f1, f2) /\ (args.unwanted # {} => f2 = f1)
  <2>1. CASE args.wanted = {}
    <3>1. f2 = f1
      BY <2>1 DEF FilesSet, NoArg
    <3> HIDE DEF f2
    <3> QED
      BY <1>4, <3>1, TouchesNothing
  <2>2. CASE args.wanted # {}
    <3>1. PICK s : args.wanted = {s}
      BY <2>2 DEF ArgsFit
    <3>2. f2 = FilesSet(f1, t, {s}, FALSE) /\ args.unwanted = {}
      BY <2>2, <3>1 DEF ArgsFit
    <3> HIDE DEF f2
    <3> QED
      BY <1>4, <3>2, FilesSetIs
  <2> QED
    BY <2>1, <2>2
<1> HIDE DEF f2
<1>6. f2 \in Accs
  BY <1>5 DEF Touches
<1>7. Touches(t, f2, l) /\ l.tors[t].dnd = f2.tors[t].dnd /\ (args.limit # "none" => l.tors[t].limit = args.limit)
  BY <1>6, LimitSetIs DEF ArgsFit
<1> HIDE DEF l
<1>8. l \in Accs
  BY <1>7 DEF Touches
<1>9. /\ Touches(t, l, a) /\ SameFiles(t, l, a)
      /\ \A s \in args.add : ~a.error /\ saved => ToSet(s) \ {BadUrl} \subseteq UrlsOf(a.tors[t].trackers)
  <2>1. CASE args.add = {}
    <3>1. a = l
      BY <2>1 DEF NoArg
    <3> HIDE DEF a
    <3> QED
      BY <1>8, <2>1, <3>1, TouchesNothing DEF SameFiles
  <2>2. CASE args.add # {}
    <3>1. PICK s \in Seq(Urls) : args.add = {s}
      BY <2>2 DEF ArgsFit
    <3> DEFINE changed == Adds(list(l), s)
               new == AddUrls(list(l), s)
    <3>2. a = AnnounceListSet(l, t, changed, new, saved)
      BY <2>2, <3>1, TheOne DEF NoArg
    <3>3. changed \in BOOLEAN
      BY DEF Adds
    <3>4. new \in Seq(Tracker) /\ ToSet(s) \ {BadUrl} \subseteq UrlsOf(new)
      BY <1>2, <1>8, AddUrlsIs
    <3> HIDE DEF a, changed, new
    <3>5. Touches(t, l, a) /\ SameFiles(t, l, a) /\ (~a.error /\ saved => UrlsOf(new) \subseteq UrlsOf(a.tors[t].trackers))
      BY <1>8, <3>2, <3>3, <3>4, TrackersSetIs
    <3> QED
      BY <3>1, <3>4, <3>5
  <2> QED
    BY <2>1, <2>2
<1> HIDE DEF a
<1>10. a \in Accs
  BY <1>9 DEF Touches
<1>11. Touches(t, a, r) /\ SameFiles(t, a, r) /\ (args.remove = {} => r = a)
  <2>1. CASE args.remove = {}
    <3>1. r = a
      BY <2>1 DEF NoArg
    <3> HIDE DEF r
    <3> QED
      BY <1>10, <3>1, TouchesNothing DEF SameFiles
  <2>2. CASE args.remove # {}
    <3> DEFINE changed == Removes(list(a), The(args.remove))
               new == RemoveUrls(list(a), The(args.remove))
    <3>1. r = AnnounceListSet(a, t, changed, new, saved)
      BY <2>2 DEF NoArg
    <3>2. changed \in BOOLEAN
      BY DEF Removes
    <3>3. new \in Seq(Tracker)
      BY <1>2, <1>10, RemoveUrlsIs
    <3> HIDE DEF r, changed, new
    <3> QED
      BY <1>10, <2>2, <3>1, <3>2, <3>3, TrackersSetIs
  <2> QED
    BY <2>1, <2>2
<1> HIDE DEF r
<1>12. r \in Accs
  BY <1>11 DEF Touches
<1>13. Touches(t, r, b) /\ SameFiles(t, r, b) /\ (args.replace = {} => b = r)
  <2>1. CASE args.replace = {}
    <3>1. b = r
      BY <1>1, <2>1 DEF NoArg
    <3> QED
      BY <1>12, <3>1, TouchesNothing DEF SameFiles
  <2>2. CASE args.replace # {}
    <3>1. PICK pairs : /\ args.replace = {pairs} /\ Len(pairs) \in Nat
                       /\ \A k \in 1..Len(pairs) : pairs[k][1] \in Nat /\ pairs[k][2] \in Urls
      BY <2>2 DEF ArgsFit
    <3> DEFINE changed == Replaces(list(r), pairs)
               new == ReplaceUrls(list(r), pairs)
    <3>2. b = AnnounceListSet(r, t, changed, new, saved)
      BY <1>1, <2>2, <3>1, TheOne DEF NoArg
    <3>3. changed \in BOOLEAN
      BY DEF Replaces
    <3>4. new \in Seq(Tracker)
      BY <1>2, <1>12, <3>1, ReplaceUrlsIs
    <3> HIDE DEF changed, new
    <3> QED
      BY <1>12, <2>2, <3>2, <3>3, <3>4, TrackersSetIs
  <2> QED
    BY <2>1, <2>2
<1> HIDE DEF p, list
<1>14. Touches(t, acc, b)
  <2>1. Touches(t, acc, l)
    BY <1>3, <1>5, <1>7, TouchesAgain
  <2>2. Touches(t, acc, r)
    BY <1>9, <1>11, <2>1, TouchesAgain
  <2> QED
    BY <1>13, <2>2, TouchesAgain
<1>15. ASSUME ~b.error, saved PROVE GotAll(args, b.tors[t])
  <2>1. ~r.error /\ ~a.error /\ ~l.error /\ ~f2.error /\ ~f1.error
    BY <1>5, <1>7, <1>9, <1>11, <1>13, <1>15 DEF Touches
  <2>2. b.tors[t].dnd = f2.tors[t].dnd /\ b.tors[t].limit = l.tors[t].limit
    BY <1>7, <1>9, <1>11, <1>13 DEF SameFiles
  <2>3. \A s \in args.unwanted : (IF s = <<>> THEN RpcFiles ELSE ToSet(s)) \subseteq b.tors[t].dnd
    <3> TAKE s \in args.unwanted
    <3>1. f2 = f1
      BY <1>5
    <3> QED
      BY <1>3, <2>1, <2>2, <3>1
  <2>4. \A s \in args.add : ToSet(s) \ {BadUrl} \subseteq UrlsOf(b.tors[t].trackers)
    <3> TAKE s \in args.add
    <3>1. args.remove = {} /\ args.replace = {}
      BY DEF ArgsFit
    <3>2. b = a
      BY <1>11, <1>13, <3>1
    <3> QED
      BY <1>9, <1>15, <2>1, <3>2
  <2> QED
    BY <1>7, <2>2, <2>3, <2>4 DEF GotAll
<1> QED
  BY <1>14, <1>15

\* What torrentSet ends with.
AllSet(ids, args, saved) ==
    LET L[k \in 0..Len(ids)] == IF k = 0 THEN [error |-> FALSE, tors |-> controlled]
                                ELSE IF controlled[ids[k]].present THEN SetOne(L[k - 1], ids[k], args, saved)
                                ELSE L[k - 1]
    IN  L[Len(ids)]

\* torrentSet, for every torrent that is asked for and is there.
LEMMA SetAllIs ==
    ASSUME controlled \in [RpcTorrents -> Controlled], NEW args, ArgsFit(args), NEW saved \in BOOLEAN,
           NEW ids \in Seq(RpcTorrents), \A i, j \in 1..Len(ids) : ids[i] = ids[j] => i = j,
           NEW end, end = AllSet(ids, args, saved)
    PROVE  /\ end \in Accs /\ \A t \in RpcTorrents : end.tors[t].present = controlled[t].present
           /\ ~end.error /\ saved => \A t \in ToSet(ids) : controlled[t].present => GotAll(args, end.tors[t])
<1> DEFINE n == Len(ids)
           x0 == [error |-> FALSE, tors |-> controlled]
           Body(acc, k) == IF controlled[ids[k]].present THEN SetOne(acc, ids[k], args, saved) ELSE acc
           Said(k, acc) == /\ \A t \in RpcTorrents : acc.tors[t].present = controlled[t].present
                           /\ ~acc.error /\ saved => \A i \in 1..k : controlled[ids[i]].present => GotAll(args, acc.tors[ids[i]])
           X == [k \in 0..n |-> {acc \in Accs : Said(k, acc)}]
           F == [k \in 1..n |-> [acc \in Accs |-> Body(acc, k)]]
           Loop(f) == f = [k \in 0..n |-> IF k = 0 THEN x0 ELSE Body(f[k - 1], k)]
           g == CHOOSE f : Loop(f)
<1>1. n \in Nat /\ DOMAIN ids = 1..n /\ \A k \in 1..n : ids[k] \in RpcTorrents
  OBVIOUS
<1>2. end = g[n]
  BY DEF AllSet
<1>3. \A i, j \in 1..n : ids[i] = ids[j] => i = j
  OBVIOUS
<1> HIDE DEF n
<1>4. \A k \in 0..n : X[k] = {acc \in Accs : Said(k, acc)}
  OBVIOUS
<1>5. \A k \in 1..n : \A acc \in Accs : F[k][acc] = Body(acc, k)
  OBVIOUS
<1>6. 0 \in 0..n /\ \A k \in 1..n : k - 1 \in 0..n /\ k \in 0..n
  BY <1>1
<1> HIDE DEF X, F
<1>7. ASSUME NEW k \in 1..n, NEW acc \in X[k - 1] PROVE acc \in Accs /\ Body(acc, k) \in X[k]
  <2> DEFINE t == ids[k]
             b == Body(acc, k)
  <2>1. acc \in Accs /\ Said(k - 1, acc) /\ t \in RpcTorrents
    <3>1. k - 1 \in 0..n /\ t \in RpcTorrents
      BY <1>1, <1>6
    <3> HIDE DEF Said
    <3>2. X[k - 1] = {x \in Accs : Said(k - 1, x)}
      BY <1>4, <3>1
    <3> QED
      BY <3>1, <3>2
  <2>2. \A i \in 1..k : i = k \/ i \in 1..(k - 1)
    BY <1>1
  <2>3. \A i \in 1..(k - 1) : i \in 1..n /\ i # k
    BY <1>1
  <2>4. CASE controlled[t].present
    <3>1. b = SetOne(acc, t, args, saved)
      BY <2>4
    <3> HIDE DEF b
    <3>2. Touches(t, acc, b) /\ (~b.error /\ saved => GotAll(args, b.tors[t]))
      BY <2>1, <3>1, SetOneIs
    <3>3. ASSUME ~b.error, saved, NEW i \in 1..k, controlled[ids[i]].present PROVE GotAll(args, b.tors[ids[i]])
      <4>1. CASE i = k
        BY <3>2, <3>3, <4>1
      <4>2. CASE i # k
        <5>1. i \in 1..(k - 1) /\ i \in 1..n /\ ids[i] # t /\ ids[i] \in RpcTorrents
          BY <1>1, <1>3, <2>2, <2>3, <4>2
        <5>2. ~acc.error /\ b.tors[ids[i]] = acc.tors[ids[i]]
          BY <3>2, <3>3, <5>1 DEF Touches
        <5>3. GotAll(args, acc.tors[ids[i]])
          BY <2>1, <3>3, <5>1, <5>2
        <5> QED
          BY <5>2, <5>3
      <4> QED
        BY <4>1, <4>2
    <3>4. Said(k, b)
      <4>1. \A u \in RpcTorrents : b.tors[u].present = controlled[u].present
        BY <2>1, <3>2 DEF Touches
      <4> QED
        BY <3>3, <4>1
    <3>5. b \in Accs
      BY <3>2 DEF Touches
    <3> HIDE DEF Said
    <3>6. b \in X[k]
      BY <1>4, <1>6, <3>4, <3>5
    <3> QED
      BY <2>1, <3>6 DEF b
  <2>5. CASE ~controlled[t].present
    <3>1. b = acc
      BY <2>5
    <3>2. Said(k, acc)
      BY <2>1, <2>2, <2>5
    <3> HIDE DEF Said
    <3> QED
      BY <1>4, <1>6, <2>1, <3>1, <3>2
  <2> QED
    BY <2>4, <2>5
<1> HIDE DEF Body
<1>8. x0 \in X[0]
  <2>1. x0 \in Accs
    BY DEF Accs
  <2>2. Said(0, x0)
    OBVIOUS
  <2> HIDE DEF Said, x0
  <2> QED
    BY <1>4, <1>6, <2>1, <2>2
<1> HIDE DEF Said, x0
<1>9. PICK f : IsLoop(f, n, x0, F) /\ \A k \in 0..n : f[k] \in X[k]
  <2>1. \A k \in 1..n : \A x \in X[k - 1] : F[k][x] \in X[k]
    BY <1>5, <1>7
  <2> QED
    BY <1>1, <1>8, <2>1, StepsExist
<1>10. Loop(f)
  <2>1. ASSUME NEW k \in 0..n PROVE (IF k = 0 THEN x0 ELSE F[k][f[k - 1]]) = IF k = 0 THEN x0 ELSE Body(f[k - 1], k)
    <3>1. CASE k # 0
      <4>1. k \in 1..n
        BY <1>1, <3>1
      <4>2. f[k - 1] \in Accs
        BY <1>6, <1>7, <1>9, <4>1
      <4> QED
        BY <1>5, <4>1, <4>2
    <3> QED
      BY <3>1
  <2> QED
    BY <1>9, <2>1 DEF IsLoop
<1>11. Loop(g)
  BY <1>10
<1> HIDE DEF g
<1>12. g[0] = x0 /\ \A k \in 1..n : g[k] = Body(g[k - 1], k)
  BY <1>1, <1>11
<1>13. \A k \in 0..n : g[k] \in X[k]
  <2>1. g[0] \in X[0] /\ \A k \in 1..n : g[k - 1] \in X[k - 1] => g[k] \in X[k]
    BY <1>7, <1>8, <1>12
  <2> QED
    BY <1>1, <2>1, StepsReach
<1>14. end \in Accs /\ Said(n, end)
  BY <1>1, <1>2, <1>4, <1>13
<1> QED
  BY <1>1, <1>14 DEF Said, ToSet

-----------------------------------------------------------------------------
(* All of them *)
HttpInv ==
    /\ http \in [HttpRequests -> [kind : Kinds \cup {"none"}, waits : BOOLEAN, replies : Nat, dropped : BOOLEAN]]
    /\ \A r \in HttpRequests :
          /\ http[r].waits => http[r].kind \in TransferKinds /\ http[r].replies = 0
          /\ ~http[r].waits /\ http[r].kind \notin NoReply \cup TwoReplies \cup {"none"} => http[r].replies = 1
ControlInv ==
    /\ controlled \in [RpcTorrents -> Controlled]
    /\ lastSet \in [who : SUBSET RpcTorrents, args : ArgsAsked \cup {NoArgs}, error : BOOLEAN, saved : BOOLEAN]
    /\ ~lastSet.error /\ lastSet.saved => \A t \in lastSet.who : GotAll(lastSet.args, controlled[t])
RemovedInv ==
    /\ rpcClock \in Nat /\ removed \subseteq RpcTorrents \X Nat
    /\ view \in [known : SUBSET RpcTorrents, when : Nat, prompt : BOOLEAN] /\ view.when <= rpcClock
    /\ RemovalsHeard
RequestInv == HttpInv /\ ControlInv /\ RemovedInv
RpcInv == ServerInv /\ RequestInv

LEMMA RpcInvSound == RpcInv => RpcSound
<1> SUFFICES ASSUME ServerInv, RequestInv PROVE RpcSound
  BY DEF RpcInv
<1>1. OneReply
  <2> SUFFICES ASSUME NEW r \in HttpRequests, http[r].kind \notin NoReply \cup TwoReplies \cup {"none"}
               PROVE  http[r].replies = (IF http[r].waits THEN 0 ELSE 1)
    BY DEF OneReply
  <2> QED
    BY DEF RequestInv, HttpInv
<1>2. AnswerTellsAll
  BY DEF RequestInv, ControlInv, GotAll, UrlsOf, AnswerTellsAll
<1>3. TiersInOrder
  <2>1. \A t \in RpcTorrents : TiersFit(controlled[t].trackers)
    BY DEF RequestInv, ControlInv, Controlled
  <2> QED
    BY <2>1 DEF TiersFit, TiersInOrder
<1> QED
  BY <1>1, <1>2, <1>3, RemovesExactlyHolds, ServerInvSound DEF RequestInv, RemovedInv, RpcSound

LEMMA InitRequestInv == RpcInit => RequestInv
<1> SUFFICES ASSUME RpcInit PROVE RequestInv
  OBVIOUS
<1>1. HttpInv
  BY DEF RpcInit, HttpInv, NotAsked
<1>2. PICK list \in FirstTrackers :
          controlled = [t \in RpcTorrents |-> [present |-> TRUE, dnd |-> {}, limit |-> "none", trackers |-> list]]
  BY DEF RpcInit
<1>3. list \in Seq(Tracker) /\ TiersFit(list)
  <2>1. CASE list = <<>>
    BY <2>1 DEF TiersFit
  <2>2. CASE list # <<>>
    <3>1. PICK p \in TrackerUrls \X TrackerUrls : list = <<[url |-> p[1], tier |-> 0], [url |-> p[2], tier |-> 0]>>
      BY <2>2 DEF FirstTrackers
    <3> DEFINE a == [url |-> p[1], tier |-> 0]
               b == [url |-> p[2], tier |-> 0]
    <3>2. a \in Tracker /\ b \in Tracker /\ a.tier = 0 /\ b.tier = 0 /\ list = <<a, b>>
      BY <3>1 DEF Tracker
    <3> HIDE DEF a, b
    <3>3. list \in Seq(Tracker) /\ Len(list) = 2 /\ list[1].tier = 0 /\ list[2].tier = 0
      BY <3>2
    <3>4. \A i \in 2..Len(list) : i = 2
      BY <3>3
    <3> QED
      BY <3>3, <3>4 DEF TiersFit
  <2> QED
    BY <2>1, <2>2
<1>4. ControlInv
  <2>1. controlled \in [RpcTorrents -> Controlled]
    BY <1>2, <1>3 DEF Controlled
  <2>2. lastSet = [who |-> {}, args |-> NoArgs, error |-> FALSE, saved |-> TRUE]
    BY DEF RpcInit
  <2> QED
    BY <2>1, <2>2 DEF ControlInv
<1>5. RemovedInv
  <2>1. \A t \in RpcTorrents : controlled[t].present
    BY <1>2
  <2>2. removed = {} /\ view = [known |-> RpcTorrents, when |-> 0, prompt |-> TRUE] /\ rpcClock = 0
    BY DEF RpcInit
  <2>3. RemovalsHeard
    BY <2>1, <2>2 DEF RemovalsHeard
  <2> QED
    BY <2>2, <2>3 DEF RemovedInv
<1> QED
  BY <1>1, <1>4, <1>5 DEF RequestInv

LEMMA HttpKept == ASSUME HttpInv, UNCHANGED http PROVE HttpInv'
BY DEF HttpInv

LEMMA ControlKept == ASSUME ControlInv, UNCHANGED <<controlled, lastSet>> PROVE ControlInv'
BY DEF ControlInv

LEMMA RemovedKept == ASSUME RemovedInv, UNCHANGED <<removed, view, rpcClock>>,
                            \A t \in RpcTorrents : controlled'[t].present = controlled[t].present
                     PROVE  RemovedInv'
BY DEF RemovedInv, RemovalsHeard

\* A request is answered at once or by the end of its transfer.
LEMMA RequestKeeps ==
    ASSUME RequestInv, NEW r \in HttpRequests, (\E kind \in Kinds : HandleRequest(r, kind)) \/ TransferEnds(r)
    PROVE  RequestInv'
<1>1. UNCHANGED <<controlled, removed, view, lastSet, rpcClock>>
  BY DEF HandleRequest, TransferEnds
<1>2. CASE \E kind \in Kinds : HandleRequest(r, kind)
  <2>1. PICK kind \in Kinds : HandleRequest(r, kind)
    BY <1>2
  <2> DEFINE x == [kind |-> kind, waits |-> kind \in TransferKinds, replies |-> Replies(kind), dropped |-> FALSE]
  <2>2. http' = [http EXCEPT ![r] = x]
    BY <2>1 DEF HandleRequest
  <2>3. /\ x \in [kind : Kinds \cup {"none"}, waits : BOOLEAN, replies : Nat, dropped : BOOLEAN]
        /\ x.waits => x.kind \in TransferKinds /\ x.replies = 0
        /\ ~x.waits /\ x.kind \notin NoReply \cup TwoReplies \cup {"none"} => x.replies = 1
    <3>1. Replies(kind) \in Nat
      BY DEF Replies
    <3>2. kind \in TransferKinds => Replies(kind) = 0
      BY DEF Replies
    <3>3. kind \notin TransferKinds /\ kind \notin NoReply \cup TwoReplies \cup {"none"} => Replies(kind) = 1
      BY DEF Replies
    <3>4. x.kind = kind /\ x.waits = (kind \in TransferKinds) /\ x.replies = Replies(kind) /\ x.dropped = FALSE
      OBVIOUS
    <3>5. x \in [kind : Kinds \cup {"none"}, waits : BOOLEAN, replies : Nat, dropped : BOOLEAN]
      BY <3>1
    <3> HIDE DEF x
    <3> QED
      BY <3>2, <3>3, <3>4, <3>5
  <2> HIDE DEF x
  <2>4. HttpInv'
    BY <2>2, <2>3 DEF RequestInv, HttpInv
  <2> QED
    BY <1>1, <2>4, ControlKept, RemovedKept DEF RequestInv
<1>3. CASE TransferEnds(r)
  <2>1. http[r].waits /\ http' = [http EXCEPT ![r].waits = FALSE, ![r].replies = @ + 1]
    BY <1>3 DEF TransferEnds
  <2> DEFINE x == [http[r] EXCEPT !.waits = FALSE, !.replies = @ + 1]
  <2>2. http' = [http EXCEPT ![r] = x]
    BY <2>1 DEF RequestInv, HttpInv
  <2>3. /\ x \in [kind : Kinds \cup {"none"}, waits : BOOLEAN, replies : Nat, dropped : BOOLEAN]
        /\ ~x.waits /\ x.replies = 1
    BY <2>1 DEF RequestInv, HttpInv
  <2> HIDE DEF x
  <2>4. HttpInv'
    BY <2>2, <2>3 DEF RequestInv, HttpInv
  <2> QED
    BY <1>1, <2>4, ControlKept, RemovedKept DEF RequestInv
<1> QED
  BY <1>2, <1>3

LEMMA ServerActsKeep ==
    ASSUME RequestInv, \/ \E on \in BOOLEAN : SetRpcEnabled(on)
                       \/ \E p \in RpcPorts : SetRpcPort(p)
                       \/ RpcClose \/ RunsRpcPosted
    PROVE  RequestInv'
<1>1. UNCHANGED <<controlled, removed, view, lastSet, rpcClock>>
  BY DEF SetRpcEnabled, SetRpcPort, RpcClose, RunsRpcPosted
<1>2. CASE UNCHANGED http
  BY <1>1, <1>2, HttpKept, ControlKept, RemovedKept DEF RequestInv
<1>3. CASE RunsRpcPosted
  <2>1. \A r \in HttpRequests : \/ http'[r] = http[r]
                                \/ http'[r] = [http[r] EXCEPT !.dropped = @ \/ http[r].waits]
    BY <1>3 DEF RunsRpcPosted
  <2>2. http' = [r \in HttpRequests |-> http'[r]]
    BY <1>3 DEF RunsRpcPosted
  <2>3. \A r \in HttpRequests :
          /\ http'[r] \in [kind : Kinds \cup {"none"}, waits : BOOLEAN, replies : Nat, dropped : BOOLEAN]
          /\ http'[r].kind = http[r].kind /\ http'[r].waits = http[r].waits /\ http'[r].replies = http[r].replies
    BY <2>1 DEF RequestInv, HttpInv
  <2>4. HttpInv'
    BY <2>2, <2>3 DEF RequestInv, HttpInv
  <2> QED
    BY <1>1, <2>4, ControlKept, RemovedKept DEF RequestInv
<1> QED
  BY <1>2, <1>3 DEF SetRpcEnabled, SetRpcPort, RpcClose

LEMMA TorrentSetKeeps ==
    ASSUME RequestInv, NEW args \in ArgsAsked, NEW saved \in BOOLEAN, TorrentSet(SetToSeq(RpcTorrents), args, saved)
    PROVE  RequestInv'
<1> DEFINE ids == SetToSeq(RpcTorrents)
           end == AllSet(ids, args, saved)
           who == {t \in ToSet(ids) : controlled[t].present}
<1>1. /\ controlled' = end.tors
      /\ lastSet' = [who |-> who, args |-> args, error |-> end.error, saved |-> saved]
      /\ UNCHANGED <<http, removed, view, rpcClock>>
  BY DEF TorrentSet, AllSet
<1>2. ids \in Seq(RpcTorrents) /\ \A i, j \in 1..Len(ids) : ids[i] = ids[j] => i = j
  BY RpcAssumption, SetSeqIs
<1>3. controlled \in [RpcTorrents -> Controlled] /\ ArgsFit(args)
  BY ArgsAre DEF RequestInv, ControlInv
<1>4. who \subseteq RpcTorrents
  BY <1>2 DEF ToSet
<1> HIDE DEF ids
<1>5. /\ end \in Accs
      /\ ~end.error /\ saved => \A t \in ToSet(ids) : controlled[t].present => GotAll(args, end.tors[t])
  BY <1>2, <1>3, SetAllIs
<1>6. \A t \in RpcTorrents : end.tors[t].present = controlled[t].present
  BY <1>2, <1>3, SetAllIs
<1> HIDE DEF end
<1>7. ControlInv'
  <2>1. controlled' \in [RpcTorrents -> Controlled] /\ end.error \in BOOLEAN
    BY <1>1, <1>5 DEF Accs
  <2>2. lastSet'.who = who /\ lastSet'.args = args /\ lastSet'.error = end.error /\ lastSet'.saved = saved
    BY <1>1
  <2>3. lastSet' \in [who : SUBSET RpcTorrents, args : ArgsAsked \cup {NoArgs}, error : BOOLEAN, saved : BOOLEAN]
    BY <1>1, <1>4, <2>1
  <2>4. ASSUME ~end.error, saved, NEW t \in who PROVE GotAll(args, controlled'[t])
    BY <1>1, <1>5, <2>4
  <2> QED
    BY <2>1, <2>2, <2>3, <2>4 DEF ControlInv
<1> QED
  BY <1>1, <1>6, <1>7, HttpKept, RemovedKept DEF RequestInv

\* A removal is noted with its second.
LEMMA TorrentRemoveKeeps ==
    ASSUME RequestInv, NEW t \in RpcTorrents, TorrentRemove(t)
    PROVE  RequestInv'
<1>1. /\ controlled' = [controlled EXCEPT ![t].present = FALSE]
      /\ removed' = removed \cup {<<t, rpcClock>>} /\ lastSet' = [lastSet EXCEPT !.who = @ \ {t}]
      /\ UNCHANGED <<http, view, rpcClock>>
  BY DEF TorrentRemove
<1>2. controlled \in [RpcTorrents -> Controlled] /\ ControlInv /\ RemovedInv
  BY DEF RequestInv, ControlInv
<1>3. controlled' \in [RpcTorrents -> Controlled] /\ \A u \in RpcTorrents : u # t => controlled'[u] = controlled[u]
  BY <1>1, <1>2 DEF Controlled
<1>4. ControlInv'
  <2>1. lastSet' \in [who : SUBSET RpcTorrents, args : ArgsAsked \cup {NoArgs}, error : BOOLEAN, saved : BOOLEAN]
        /\ lastSet'.who = lastSet.who \ {t} /\ lastSet'.args = lastSet.args
        /\ lastSet'.error = lastSet.error /\ lastSet'.saved = lastSet.saved
    BY <1>1, <1>2 DEF ControlInv
  <2>2. lastSet.who \subseteq RpcTorrents
    BY <1>2 DEF ControlInv
  <2>3. \A u \in lastSet'.who : u \in lastSet.who /\ controlled'[u] = controlled[u]
    BY <1>3, <2>1, <2>2
  <2> QED
    BY <1>2, <1>3, <2>1, <2>3 DEF ControlInv
<1>5. RemovedInv'
  <2>1. removed' \subseteq RpcTorrents \X Nat /\ <<t, rpcClock>> \in removed' /\ removed \subseteq removed'
    BY <1>1, <1>2 DEF RemovedInv
  <2>2. view.when <= rpcClock /\ view' = view /\ rpcClock' = rpcClock /\ view.known \subseteq RpcTorrents
    BY <1>1, <1>2 DEF RemovedInv
  <2>3. ASSUME view.prompt, NEW u \in view.known
        PROVE  controlled'[u].present \/ \E r \in removed' : r[1] = u /\ r[2] >= view.when
    <3>1. CASE u = t
      <4>1. <<t, rpcClock>>[1] = u /\ <<t, rpcClock>>[2] >= view.when
        BY <1>2, <2>2, <3>1 DEF RemovedInv
      <4> QED
        BY <2>1, <4>1
    <3>2. CASE u # t
      <4>1. controlled'[u] = controlled[u]
        BY <1>3, <2>2, <3>2
      <4>2. controlled[u].present \/ \E r \in removed : r[1] = u /\ r[2] >= view.when
        BY <1>2, <2>3 DEF RemovedInv, RemovalsHeard
      <4> QED
        BY <2>1, <4>1, <4>2
    <3> QED
      BY <3>1, <3>2
  <2>4. RemovalsHeard'
    BY <2>2, <2>3 DEF RemovalsHeard
  <2> QED
    BY <1>2, <2>1, <2>2, <2>4 DEF RemovedInv
<1> QED
  BY <1>1, <1>4, <1>5, HttpKept DEF RequestInv

\* Who asks in time finds every removal since it last asked in the answer.
LEMMA PollsKeeps ==
    ASSUME RequestInv, Polls
    PROVE  RequestInv'
<1>1. /\ view' = [known |-> view.known \ {r[1] : r \in Recent(rpcClock)}, when |-> rpcClock,
                  prompt |-> view.prompt /\ rpcClock <= view.when + Window]
      /\ UNCHANGED <<http, controlled, removed, lastSet, rpcClock>>
  BY DEF Polls
<1>2. RemovedInv /\ Window \in Nat
  BY RpcAssumption DEF RequestInv
<1>3. view' \in [known : SUBSET RpcTorrents, when : Nat, prompt : BOOLEAN] /\ view'.when = rpcClock
      /\ view'.known = view.known \ {r[1] : r \in Recent(rpcClock)}
      /\ (view'.prompt => view.prompt /\ rpcClock <= view.when + Window)
  BY <1>1, <1>2 DEF RemovedInv
<1>4. ASSUME view'.prompt, NEW u \in view'.known PROVE controlled[u].present
  <2>1. view.prompt /\ rpcClock <= view.when + Window /\ u \in view.known /\ u \notin {r[1] : r \in Recent(rpcClock)}
    BY <1>3, <1>4
  <2>2. ASSUME NEW r \in removed, r[1] = u, r[2] >= view.when PROVE FALSE
    <3>1. r[2] \in Nat /\ view.when \in Nat /\ rpcClock \in Nat
      BY <1>2 DEF RemovedInv
    <3>2. r[2] + Window >= rpcClock
      BY <1>2, <2>1, <2>2, <3>1
    <3>3. r \in Recent(rpcClock)
      BY <3>2 DEF Recent
    <3> QED
      BY <2>1, <2>2, <3>3
  <2> QED
    BY <1>2, <2>1, <2>2 DEF RemovedInv, RemovalsHeard
<1>5. RemovedInv'
  <2>1. RemovalsHeard'
    BY <1>1, <1>4 DEF RemovalsHeard
  <2> QED
    BY <1>1, <1>2, <1>3, <2>1 DEF RemovedInv
<1> QED
  BY <1>1, <1>5, HttpKept, ControlKept DEF RequestInv

LEMMA SecondKeeps ==
    ASSUME RequestInv, SecondPasses
    PROVE  RequestInv'
<1>1. rpcClock' = rpcClock + 1 /\ UNCHANGED <<http, controlled, removed, view, lastSet>>
  BY DEF SecondPasses
<1>2. RemovedInv'
  BY <1>1 DEF RequestInv, RemovedInv, RemovalsHeard
<1> QED
  BY <1>1, <1>2, HttpKept, ControlKept DEF RequestInv

LEMMA RequestStep == RequestInv /\ [RpcNext]_rpcVars => RequestInv'
<1> SUFFICES ASSUME RequestInv, [RpcNext]_rpcVars PROVE RequestInv'
  OBVIOUS
<1>1. CASE UNCHANGED rpcVars
  BY <1>1, HttpKept, ControlKept, RemovedKept DEF RequestInv, rpcVars
<1>2. CASE RpcNext
  <2>1. CASE \/ \E on \in BOOLEAN : SetRpcEnabled(on)
             \/ \E p \in RpcPorts : SetRpcPort(p)
             \/ RpcClose \/ RunsRpcPosted
    BY <2>1, ServerActsKeep
  <2>2. CASE \E r \in HttpRequests : (\E kind \in Kinds : HandleRequest(r, kind)) \/ TransferEnds(r)
    BY <2>2, RequestKeeps
  <2>3. CASE \E args \in ArgsAsked, saved \in BOOLEAN : TorrentSet(SetToSeq(RpcTorrents), args, saved)
    BY <2>3, TorrentSetKeeps
  <2>4. CASE \E t \in RpcTorrents : TorrentRemove(t)
    BY <2>4, TorrentRemoveKeeps
  <2>5. CASE Polls \/ SecondPasses
    BY <2>5, PollsKeeps, SecondKeeps
  <2> QED
    BY <1>2, <2>1, <2>2, <2>3, <2>4, <2>5 DEF RpcNext
<1> QED
  BY <1>1, <1>2

LEMMA InitRpcInv == RpcInit => RpcInv
BY ServerInit, InitRequestInv DEF RpcInv

LEMMA RpcStep == RpcInv /\ [RpcNext]_rpcVars => RpcInv'
BY ServerStep, RequestStep DEF RpcInv

\* The server obeys, requests are answered once and truly, trackers and removals
\* are told as they are (rpc-server.c, rpcimpl.c).
THEOREM RpcIsSound == RpcSpec => []RpcSound
BY InitRpcInv, RpcStep, RpcInvSound, PTL DEF RpcSpec

-----------------------------------------------------------------------------
(***************************************************************************)
(* Each behaviour of SessionSpec exercises one part: what was proved of that *)
(* part's steps holds along it.                                             *)
(***************************************************************************)
LEMMA StepOfQueue ==
    ASSUME [SessionNext]_sessionVars, part' = "queue"
    PROVE  part = "queue" /\ [QueueNext]_queueVars
BY DEF SessionNext, sessionVars, QueuePart, SpeedPart, FilesPart, SeedingPart, BitsPart, PiecesPart, RpcPart, ListsPart

LEMMA StepOfLists ==
    ASSUME [SessionNext]_sessionVars, part' = "lists"
    PROVE  part = "lists" /\ [BlocklistNext]_listVars
BY DEF SessionNext, sessionVars, QueuePart, SpeedPart, FilesPart, SeedingPart, BitsPart, PiecesPart, RpcPart, ListsPart

LEMMA StepOfSpeed ==
    ASSUME [SessionNext]_sessionVars, part' = "speed"
    PROVE  part = "speed" /\ [SchedNext]_schedVars
BY DEF SessionNext, sessionVars, QueuePart, SpeedPart, FilesPart, SeedingPart, BitsPart, PiecesPart, RpcPart, ListsPart

LEMMA StepOfSeeding ==
    ASSUME [SessionNext]_sessionVars, part' = "seeding"
    PROVE  part = "seeding" /\ [SeedingNext]_seedVars
BY DEF SessionNext, sessionVars, QueuePart, SpeedPart, FilesPart, SeedingPart, BitsPart, PiecesPart, RpcPart, ListsPart

LEMMA StepOfBits ==
    ASSUME [SessionNext]_sessionVars, part' = "bits"
    PROVE  part = "bits" /\ [BitfieldNext]_fieldVars
BY DEF SessionNext, sessionVars, QueuePart, SpeedPart, FilesPart, SeedingPart, BitsPart, PiecesPart, RpcPart, ListsPart

LEMMA StepOfFiles ==
    ASSUME [SessionNext]_sessionVars, part' = "files"
    PROVE  part = "files" /\ [FilesNext]_filesVars
BY DEF SessionNext, sessionVars, QueuePart, SpeedPart, FilesPart, SeedingPart, BitsPart, PiecesPart, RpcPart, ListsPart

LEMMA StepOfPieces ==
    ASSUME [SessionNext]_sessionVars, part' = "pieces"
    PROVE  part = "pieces" /\ [PiecesNext]_pieceVars
BY DEF SessionNext, sessionVars, QueuePart, SpeedPart, FilesPart, SeedingPart, BitsPart, PiecesPart, RpcPart, ListsPart

LEMMA StepOfRpc ==
    ASSUME [SessionNext]_sessionVars, part' = "rpc"
    PROVE  part = "rpc" /\ [RpcNext]_rpcVars
BY DEF SessionNext, sessionVars, QueuePart, SpeedPart, FilesPart, SeedingPart, BitsPart, PiecesPart, RpcPart, ListsPart

\* The positions of the queue are 0, 1, 2, ... and a pulse starts who is next
\* (tr_torrentSetQueuePosition, queuePulse).
THEOREM QueueKeepsOrder == SessionSpec => []QueueInOrder
<1> DEFINE Inv == part = "queue" => QueueIInv
<1>1. SessionInit => Inv
  BY InitQueueIInv DEF SessionInit
<1>2. Inv /\ [SessionNext]_sessionVars => Inv'
  BY StepOfQueue, QueueStep
<1>3. Inv => QueueInOrder
  BY QueueIInvSound DEF QueueInOrder
<1> QED
  BY <1>1, <1>2, <1>3, PTL DEF SessionSpec

\* The speed limits are those of the schedule and of the user, and a setting
\* that is toggled ends as it was asked (turtleCheckClock, toggle_pex).
THEOREM ScheduleIsKept == SessionSpec => []ScheduleKept
<1> DEFINE Inv == part = "speed" => SIInv
<1>1. SessionInit => Inv
  BY InitSIInv DEF SessionInit
<1>2. Inv /\ [SessionNext]_sessionVars => Inv'
  BY StepOfSpeed, SchedStep
<1>3. Inv => ScheduleKept
  BY SIInvSound DEF ScheduleKept
<1> QED
  BY <1>1, <1>2, <1>3, PTL DEF SessionSpec

\* A torrent is stopped at its limits and for nothing else, and what a user
\* started on purpose after that goes on (tr_torrentCheckSeedLimit, torrentStart).
THEOREM SeedingIsHonest == SessionSpec => []SeedingStops
<1> DEFINE Inv == part = "seeding" => SeedIInv
<1>1. SessionInit => Inv
  BY InitSeedIInv DEF SessionInit
<1>2. Inv /\ [SessionNext]_sessionVars => Inv'
  BY StepOfSeeding, SeedingStep
<1>3. Inv => SeedingStops
  BY SeedIInvSound DEF SeedingStops
<1> QED
  BY <1>1, <1>2, <1>3, PTL DEF SessionSpec

\* A bitfield is the set that its calls asked for (bitfield.c).
THEOREM FieldsStandForSets == SessionSpec => []FieldsAreSets
<1> DEFINE Inv == part = "bits" => FieldIInv
<1>1. SessionInit => Inv
  BY InitFieldIInv DEF SessionInit
<1>2. Inv /\ [SessionNext]_sessionVars => Inv'
  BY StepOfBits, FieldStep
<1>3. Inv => FieldsAreSets
  BY FieldIInvSound DEF FieldsAreSets
<1> QED
  BY <1>1, <1>2, <1>3, PTL DEF SessionSpec

\* An address is blocked exactly if it is meant to be (blocklist.c).
THEOREM BlocklistsAreKept == SessionSpec => []BlocklistKept
<1> DEFINE Inv == part = "lists" => ListIInv
<1>1. SessionInit => Inv
  BY InitListIInv DEF SessionInit
<1>2. Inv /\ [SessionNext]_sessionVars => Inv'
  BY StepOfLists, ListStep
<1>3. Inv => BlocklistKept
  BY ListIInvSound DEF BlocklistKept
<1> QED
  BY <1>1, <1>2, <1>3, PTL DEF SessionSpec

\* What a torrent claims is found, and is in its place (setLocation,
\* tr_torrentFindFile2).
THEOREM FilesStayInPlace == SessionSpec => []FilesInPlace
<1> DEFINE Inv == part = "files" => FilesIInv
<1>1. SessionInit => Inv
  BY InitFiles DEF SessionInit
<1>2. Inv /\ [SessionNext]_sessionVars => Inv'
  BY StepOfFiles, FilesStep
<1>3. Inv => FilesInPlace
  BY FilesIInvSound DEF FilesInPlace
<1> QED
  BY <1>1, <1>2, <1>3, PTL DEF SessionSpec

\* Requests are answered once and truly, and a removal is told to who asks in
\* time (rpc-server.c, rpcimpl.c).
THEOREM RpcAnswersTruly == SessionSpec => []RpcAnswers
<1> DEFINE Inv == part = "rpc" => RpcInv
<1>1. SessionInit => Inv
  BY InitRpcInv DEF SessionInit
<1>2. Inv /\ [SessionNext]_sessionVars => Inv'
  BY StepOfRpc, RpcStep
<1>3. Inv => RpcAnswers
  BY RpcInvSound DEF RpcAnswers
<1> QED
  BY <1>1, <1>2, <1>3, PTL DEF SessionSpec

\* What is wanted and what is there is what the files chosen and the blocks
\* received say, byte for byte (setFileDND, calculatePiecePriority, completion.c).
THEOREM PiecesAreCounted == SessionSpec => []PiecesCounted
<1> DEFINE Inv == part = "pieces" => PiecesInv
<1>1. SessionInit => Inv
  BY PiecesStart DEF SessionInit
<1>2. Inv /\ [SessionNext]_sessionVars => Inv'
  BY StepOfPieces, PiecesStep
<1>3. Inv => PiecesCounted
  BY InvIsSound DEF PiecesCounted
<1> QED
  BY <1>1, <1>2, <1>3, PTL DEF SessionSpec
=============================================================================
