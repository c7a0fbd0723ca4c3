--------------------------- MODULE WritePath_proofs ---------------------------
(***************************************************************************)
(* For any torrents and any size of the cache: the cache keeps its limit,   *)
(* and, while no write failed, what is claimed in memory is there and what  *)
(* is claimed in the .resume files is in the files.                         *)
(*                                                                         *)
(* A flush takes blocks from the cache to the files.  What all the flushes  *)
(* have in common is the relation Flushed, which is reflexive and           *)
(* transitive; the handlers are chains of flushes.                          *)
(***************************************************************************)
EXTENDS WritePath, FiniteSetTheorems, FunctionTheorems, SequenceTheorems, WellFoundedInduction, TLAPS

-----------------------------------------------------------------------------
(* Numbers *)

\* A set of naturals has a least element.
LEMMA LeastNat ==
    ASSUME NEW T \in SUBSET Nat, T # {}
    PROVE  \E x \in T : \A y \in T : x <= y
<1> DEFINE R == OpToRel(<, Nat)
<1>1. IsWellFoundedOn(R, Nat)
  BY NatLessThanWellFounded
<1>2. \A x, y \in Nat : y < x => <<y, x>> \in R
  BY DEF OpToRel
<1> HIDE DEF R
<1>3. PICK x \in T : \A y \in T : ~(<<y, x>> \in R)
  BY <1>1, WFMin
<1>4. \A y \in T : ~(y < x)
  BY <1>2, <1>3
<1>5. \A y \in T : x <= y
  BY <1>4, <1>3, SMT
<1> QED
  BY <1>5

\* Induction, for a set of naturals.
LEMMA Induction ==
    ASSUME NEW S \in SUBSET Nat, 0 \in S, \A n \in Nat : n \in S => n + 1 \in S
    PROVE  S = Nat
<1> SUFFICES ASSUME Nat \ S # {} PROVE FALSE
  OBVIOUS
<1>1. PICK x \in Nat \ S : \A y \in Nat \ S : x <= y
  BY LeastNat
<1>2. x # 0 /\ x - 1 \in Nat /\ ~(x <= x - 1)
  BY <1>1
<1>3. x - 1 \in S
  BY <1>1, <1>2
<1> QED
  BY <1>1, <1>2, <1>3

\* Division by the blocks of a piece keeps the order.
LEMMA DivMonotone ==
    ASSUME NEW i \in Nat, NEW j \in Nat, i <= j
    PROVE  i \div BlocksPerPiece <= j \div BlocksPerPiece
<1> DEFINE B == BlocksPerPiece
           q == i \div B
           r == j \div B
<1>1. B \in Nat /\ B > 0
  BY SizesAssumption
<1>2. /\ q \in Nat /\ r \in Nat
      /\ i % B \in 0..(B - 1) /\ j % B \in 0..(B - 1)
      /\ i = B * q + (i % B) /\ j = B * r + (j % B)
  BY <1>1
<1> HIDE DEF q, r, B
<1>3. SUFFICES ASSUME q >= r + 1 PROVE FALSE
  BY <1>2 DEF q, r, B
<1>4. B * q >= B * (r + 1)
  BY <1>1, <1>2, <1>3
<1>5. B * (r + 1) = B * r + B
  BY <1>1, <1>2
<1>6. \A x, y, m, n : x \in Int /\ y \in Int /\ m \in 0..(B - 1) /\ n \in 0..(B - 1) /\ x >= y + B => x + m > y + n
  BY <1>1
<1>7. B * q \in Int /\ B * r \in Int
  BY <1>1, <1>2
<1>8. B * q >= B * r + B
  BY <1>4, <1>5
<1>9. i > j
  BY <1>2, <1>6, <1>7, <1>8
<1> QED
  BY <1>9

-----------------------------------------------------------------------------
(* Blocks, pieces and runs *)

LEMMA BlockShape ==
    ASSUME NEW b \in Blocks
    PROVE  /\ b[1] \in Torrents /\ b \in BlocksOf(b[1]) /\ b[2] \in Nat
           /\ b[2] \in 0..NumBlocks[b[1]] - 1 /\ b = <<b[1], b[2]>>
BY SizesAssumption DEF Blocks, BlocksOf

LEMMA TorrentBlock ==
    ASSUME NEW t \in Torrents, NEW b \in BlocksOf(t)
    PROVE  b \in Blocks /\ b[1] = t
BY DEF Blocks, BlocksOf

\* A piece has blocks, all of one torrent, and the blocks know their piece.
LEMMA PieceShape ==
    ASSUME NEW t \in Torrents, NEW p \in Pieces(t)
    PROVE  /\ p[1] = t
           /\ PieceBlocks(p) \subseteq BlocksOf(t) /\ PieceBlocks(p) \subseteq Blocks
           /\ PieceBlocks(p) # {}
           /\ \A b \in Blocks : b \in PieceBlocks(p) <=> Piece(b) = p
<1>1. PICK b \in BlocksOf(t) : p = Piece(b)
  BY DEF Pieces
<1>2. p[1] = t
  BY <1>1, TorrentBlock DEF Piece
<1>3. PieceBlocks(p) \subseteq BlocksOf(t) /\ b \in PieceBlocks(p)
  BY <1>1, <1>2 DEF PieceBlocks
<1>4. \A c \in Blocks : Piece(c) = p => c \in PieceBlocks(p)
  BY <1>2, BlockShape DEF Piece, PieceBlocks
<1> QED
  BY <1>2, <1>3, <1>4, TorrentBlock DEF PieceBlocks

LEMMA PieceOfBlock ==
    ASSUME NEW b \in Blocks
    PROVE  b[1] \in Torrents /\ Piece(b) \in Pieces(b[1]) /\ b \in PieceBlocks(Piece(b))
BY BlockShape DEF Pieces, PieceBlocks, Piece

\* The first and the last block of a run.
RunSets == {r \in SUBSET Blocks : r # {} /\ \E t \in Torrents : r \subseteq BlocksOf(t)}

LEMMA Ends ==
    ASSUME NEW r \in RunSets
    PROVE  /\ FirstBlock(r) \in r /\ \A d \in r : FirstBlock(r)[2] <= d[2]
           /\ LastBlock(r) \in r /\ \A d \in r : d[2] <= LastBlock(r)[2]
<1>1. r # {} /\ \A d \in r : d \in Blocks /\ d[2] \in Nat
  BY BlockShape DEF RunSets
<1>2. PICK t \in Torrents : r \subseteq BlocksOf(t)
  BY DEF RunSets
<1>3. \E b \in r : \A d \in r : b[2] <= d[2]
  <2>1. PICK x \in {d[2] : d \in r} : \A y \in {d[2] : d \in r} : x <= y
    <3>1. {d[2] : d \in r} \in SUBSET Nat /\ {d[2] : d \in r} # {}
      BY <1>1
    <3> QED
      BY <3>1, LeastNat
  <2> QED
    BY <2>1
<1>4. \E b \in r : \A d \in r : d[2] <= b[2]
  <2> DEFINE n == NumBlocks[t]
             T == {n - d[2] : d \in r}
  <2>1. n \in Nat /\ \A d \in r : d[2] \in Nat /\ d[2] <= n
    BY <1>2, SizesAssumption DEF BlocksOf
  <2>2. T \in SUBSET Nat /\ T # {}
    BY <1>1, <2>1
  <2>3. PICK x \in T : \A y \in T : x <= y
    BY <2>2, LeastNat
  <2>4. PICK b \in r : x = n - b[2]
    BY <2>3
  <2>5. \A d \in r : n - b[2] <= n - d[2]
    BY <2>3, <2>4
  <2>6. \A d \in r : d[2] <= b[2]
    BY <2>1, <2>4, <2>5
  <2> QED
    BY <2>6
<1> QED
  BY <1>3, <1>4 DEF FirstBlock, LastBlock

-----------------------------------------------------------------------------
(* Sequences that enumerate a set *)

LEMMA Enumerates ==
    ASSUME NEW R, IsFiniteSet(R), NEW q \in SetToSeqs(R)
    PROVE  /\ q \in Seq(R) /\ Len(q) = Cardinality(R) /\ DOMAIN q = 1..Len(q)
           /\ \A x \in R : \E i \in DOMAIN q : q[i] = x
<1>1. Cardinality(R) \in Nat
  BY FS_CardinalityType
<1>2. q \in [1..Cardinality(R) -> R] /\ \A i, j \in 1..Cardinality(R) : i # j => q[i] # q[j]
  BY DEF SetToSeqs
<1>3. q \in Seq(R) /\ Len(q) = Cardinality(R) /\ DOMAIN q = 1..Len(q)
  BY <1>1, <1>2
<1>4. IsFiniteSet(1..Cardinality(R)) /\ Cardinality(1..Cardinality(R)) = Cardinality(R)
  BY <1>1, FS_Interval
<1>5. q \in Injection(1..Cardinality(R), R)
  BY <1>2 DEF Injection, IsInjective
<1>6. q \in Surjection(1..Cardinality(R), R)
  BY <1>4, <1>5, FS_Injection
<1> QED
  BY <1>2, <1>3, <1>6 DEF Surjection

-----------------------------------------------------------------------------
(* Flushing *)

Data == {"none", "good", "bad"}
Stores == {s \in [cache : [Blocks -> Data], disk : [Blocks -> Data], failed : SUBSET Torrents, fails : 0..MaxFails] :
              IsFiniteSet(Cached(s))}

\* r is what flushes make of s: blocks leave the cache; while no write fails,
\* every block reads as before, and the files gain only what is read.
Flushed(s, r) ==
    /\ r \in Stores /\ Cached(r) \subseteq Cached(s)
    /\ s.fails <= r.fails
    /\ r.fails = s.fails =>
          /\ r.failed = s.failed
          /\ \A b \in Blocks : ReadBlock(r, b) = ReadBlock(s, b) /\ r.disk[b] \in {s.disk[b], ReadBlock(s, b)}

LEMMA StoreShape ==
    ASSUME NEW s \in Stores
    PROVE  /\ s.cache \in [Blocks -> Data] /\ s.disk \in [Blocks -> Data]
           /\ s.failed \in SUBSET Torrents /\ s.fails \in 0..MaxFails /\ s.fails \in Int
           /\ IsFiniteSet(Cached(s)) /\ Cached(s) \subseteq Blocks
BY BoundsAssumption DEF Stores, Cached

LEMMA FlushedRefl ==
    ASSUME NEW s \in Stores
    PROVE  Flushed(s, s)
BY StoreShape DEF Flushed

LEMMA FlushedTrans ==
    ASSUME NEW s \in Stores, NEW r, NEW u, Flushed(s, r), Flushed(r, u)
    PROVE  Flushed(s, u)
<1>1. r \in Stores /\ u \in Stores
  BY DEF Flushed
<1>2. s.fails \in Int /\ r.fails \in Int /\ u.fails \in Int
  BY <1>1, StoreShape
<1>3. s.fails <= r.fails /\ r.fails <= u.fails
  BY DEF Flushed
<1>4. s.fails <= u.fails /\ (u.fails = s.fails => r.fails = s.fails /\ u.fails = r.fails)
  BY <1>2, <1>3
<1>5. Cached(u) \subseteq Cached(s)
  BY DEF Flushed
<1>6. ASSUME u.fails = s.fails
      PROVE  /\ u.failed = s.failed
             /\ \A b \in Blocks : ReadBlock(u, b) = ReadBlock(s, b) /\ u.disk[b] \in {s.disk[b], ReadBlock(s, b)}
  <2>1. r.fails = s.fails /\ u.fails = r.fails
    BY <1>4, <1>6
  <2>2. r.failed = s.failed /\ u.failed = r.failed
    BY <2>1 DEF Flushed
  <2>3. \A b \in Blocks : ReadBlock(r, b) = ReadBlock(s, b) /\ r.disk[b] \in {s.disk[b], ReadBlock(s, b)}
    BY <2>1 DEF Flushed
  <2>4. \A b \in Blocks : ReadBlock(u, b) = ReadBlock(r, b) /\ u.disk[b] \in {r.disk[b], ReadBlock(r, b)}
    BY <2>1 DEF Flushed
  <2> QED
    BY <2>2, <2>3, <2>4
<1> QED
  BY <1>1, <1>4, <1>5, <1>6 DEF Flushed

\* Writing a set of cached blocks to the files and taking a set from the cache.
LEMMA Moved ==
    ASSUME NEW s \in Stores, NEW W, NEW R
    PROVE  LET r == Take(Write(s, W), R)
           IN  /\ r \in Stores /\ r.failed = s.failed /\ r.fails = s.fails
               /\ r = [cache |-> r.cache, disk |-> r.disk, failed |-> s.failed, fails |-> s.fails]
               /\ Cached(r) = Cached(s) \ R
               /\ \A b \in Blocks : /\ r.cache[b] = IF b \in R THEN "none" ELSE s.cache[b]
                                    /\ r.disk[b] = IF b \in W THEN s.cache[b] ELSE s.disk[b]
<1> DEFINE c == [b \in Blocks |-> IF b \in R THEN "none" ELSE s.cache[b]]
           d == [b \in Blocks |-> IF b \in W THEN s.cache[b] ELSE s.disk[b]]
           r == [cache |-> c, disk |-> d, failed |-> s.failed, fails |-> s.fails]
<1>1. s = [cache |-> s.cache, disk |-> s.disk, failed |-> s.failed, fails |-> s.fails]
  BY DEF Stores
<1>2. Write(s, W) = [cache |-> s.cache, disk |-> d, failed |-> s.failed, fails |-> s.fails]
  BY <1>1 DEF Write
<1>3. Take(Write(s, W), R) = r
  BY <1>2 DEF Take
<1>4. c \in [Blocks -> Data] /\ d \in [Blocks -> Data]
  BY StoreShape DEF Data
<1>5. \A b \in Blocks : /\ r.cache[b] = IF b \in R THEN "none" ELSE s.cache[b]
                        /\ r.disk[b] = IF b \in W THEN s.cache[b] ELSE s.disk[b]
  OBVIOUS
<1>6. Cached(r) = Cached(s) \ R
  BY <1>5 DEF Cached
<1>7. IsFiniteSet(Cached(r))
  BY <1>6, StoreShape, FS_Difference
<1>8. r \in Stores
  <2>1. r.cache = c /\ r.disk = d /\ r.failed = s.failed /\ r.fails = s.fails
    OBVIOUS
  <2> HIDE DEF c, d
  <2>2. r \in [cache : [Blocks -> Data], disk : [Blocks -> Data], failed : SUBSET Torrents, fails : 0..MaxFails]
    BY <1>4, StoreShape
  <2> QED
    BY <2>2, <1>7 DEF Stores
<1> QED
  BY <1>3, <1>5, <1>6, <1>8

\* flushRuns: every run in turn, or some of them and a part of the one that fails.
LEMMA RunsAreFlushed ==
    ASSUME NEW s \in Stores, NEW q \in Seq(RunSets), \A i \in DOMAIN q : q[i] \subseteq Cached(s),
           NEW r \in FlushRuns(s, q)
    PROVE  /\ Flushed(s, r)
           /\ r.fails = s.fails => Cached(r) = Cached(s) \ RunsUpTo(q, Len(q))
           /\ r.fails # s.fails => \E k \in DOMAIN q : Cached(r) = Cached(s) \ RunsUpTo(q, k)
<1> DEFINE good(k) == FlushFirst(s, q, k)
           torn(k, m) == Take(Write(good(k - 1), {b \in q[k] : b[2] < m}), q[k])
           lost(k, m) == FailAt(s, q, k, m)
<1>1. Len(q) \in Nat /\ DOMAIN q = 1..Len(q) /\ \A i \in DOMAIN q : q[i] \in RunSets
  OBVIOUS
<1>2. \A k \in 0..Len(q) : RunsUpTo(q, k) \subseteq Cached(s)
  BY <1>1 DEF RunsUpTo
<1>3. \A k \in 0..Len(q) :
          /\ good(k) \in Stores /\ good(k).failed = s.failed /\ good(k).fails = s.fails
          /\ Cached(good(k)) = Cached(s) \ RunsUpTo(q, k)
          /\ \A b \in Blocks : good(k).disk[b] = IF b \in RunsUpTo(q, k) THEN s.cache[b] ELSE s.disk[b]
          /\ \A b \in Blocks : good(k).cache[b] = IF b \in RunsUpTo(q, k) THEN "none" ELSE s.cache[b]
  BY Moved DEF FlushFirst
<1>4. CASE r = good(Len(q))
  <2>1. \A b \in Blocks : ReadBlock(r, b) = ReadBlock(s, b) /\ r.disk[b] \in {s.disk[b], ReadBlock(s, b)}
    <3> SUFFICES ASSUME NEW b \in Blocks
                 PROVE  ReadBlock(r, b) = ReadBlock(s, b) /\ r.disk[b] \in {s.disk[b], ReadBlock(s, b)}
      OBVIOUS
    <3>1. /\ r.disk[b] = IF b \in RunsUpTo(q, Len(q)) THEN s.cache[b] ELSE s.disk[b]
          /\ r.cache[b] = IF b \in RunsUpTo(q, Len(q)) THEN "none" ELSE s.cache[b]
      BY <1>1, <1>3, <1>4
    <3>2. b \in RunsUpTo(q, Len(q)) => s.cache[b] # "none"
      BY <1>1, <1>2 DEF Cached
    <3> QED
      BY <3>1, <3>2 DEF ReadBlock
  <2>2. /\ r \in Stores /\ r.failed = s.failed /\ r.fails = s.fails
        /\ Cached(r) = Cached(s) \ RunsUpTo(q, Len(q))
    BY <1>1, <1>3, <1>4
  <2>3. s.fails <= r.fails
    BY <2>2, StoreShape
  <2> QED
    BY <2>1, <2>2, <2>3 DEF Flushed
<1>5. ASSUME NEW k \in DOMAIN q, NEW m, s.fails < MaxFails, r = lost(k, m)
      PROVE  Flushed(s, r) /\ r.fails # s.fails /\ Cached(r) = Cached(s) \ RunsUpTo(q, k)
  <2>1. k - 1 \in 0..Len(q)
    BY <1>1
  <2>2. good(k - 1) \in Stores /\ good(k - 1).failed = s.failed /\ good(k - 1).fails = s.fails
        /\ Cached(good(k - 1)) = Cached(s) \ RunsUpTo(q, k - 1)
    BY <2>1, <1>3
  <2>3. /\ torn(k, m) \in Stores /\ torn(k, m).failed = s.failed /\ torn(k, m).fails = s.fails
        /\ Cached(torn(k, m)) = Cached(good(k - 1)) \ q[k]
    <3> HIDE DEF good
    <3> QED
      BY <2>2, Moved
  <2> HIDE DEF torn
  <2>4. FirstBlock(q[k])[1] \in Torrents
    <3>1. FirstBlock(q[k]) \in q[k] /\ q[k] \subseteq Blocks
      BY <1>1, Ends DEF RunSets
    <3> QED
      BY <3>1, BlockShape
  <2>5. /\ r.failed = s.failed \cup {FirstBlock(q[k])[1]} /\ r.fails = s.fails + 1
        /\ r.cache = torn(k, m).cache /\ r.disk = torn(k, m).disk
    BY <2>3, <1>5 DEF Stores, FailAt, torn
  <2>6. r \in Stores
    <3>1. r = [cache |-> r.cache, disk |-> r.disk, failed |-> r.failed, fails |-> r.fails]
      BY <2>3, <1>5 DEF Stores, FailAt, torn
    <3>2. r.cache \in [Blocks -> Data] /\ r.disk \in [Blocks -> Data]
      BY <2>3, <2>5, StoreShape
    <3>3. r.failed \in SUBSET Torrents
      BY <2>4, <2>5, StoreShape
    <3>4. r.fails \in 0..MaxFails
      BY <2>5, <1>5, StoreShape, BoundsAssumption
    <3>5. IsFiniteSet(Cached(r))
      BY <2>3, <2>5, StoreShape DEF Cached
    <3> QED
      BY <3>1, <3>2, <3>3, <3>4, <3>5 DEF Stores
  <2>7. Cached(r) = Cached(torn(k, m))
    BY <2>5 DEF Cached
  <2>8. RunsUpTo(q, k) = RunsUpTo(q, k - 1) \cup q[k]
    <3>1. 1..k = (1..(k - 1)) \cup {k}
      BY <1>1
    <3> QED
      BY <3>1 DEF RunsUpTo
  <2>9. s.fails \in Int
    BY StoreShape
  <2>10. s.fails <= r.fails /\ r.fails # s.fails
    BY <2>5, <2>9
  <2> QED
    BY <2>2, <2>3, <2>6, <2>7, <2>8, <2>10 DEF Flushed
<1>6. r = good(Len(q)) \/ \E k \in DOMAIN q, m \in UNION {{b[2] : b \in q[j]} : j \in DOMAIN q} : s.fails < MaxFails /\ r = lost(k, m)
  BY DEF FlushRuns
<1>7. r = good(Len(q)) => r.fails = s.fails
  BY <1>1, <1>3
<1> HIDE DEF good, lost, torn
<1>8. CASE r = good(Len(q))
  <2>1. Flushed(s, r) /\ r.fails = s.fails /\ Cached(r) = Cached(s) \ RunsUpTo(q, Len(q))
    BY <1>8, <1>4, <1>7, <1>1, <1>3
  <2> QED
    BY <2>1
<1>9. CASE \E k \in DOMAIN q, m \in UNION {{b[2] : b \in q[j]} : j \in DOMAIN q} : s.fails < MaxFails /\ r = lost(k, m)
  BY <1>5, <1>9
<1> QED
  BY <1>6, <1>8, <1>9

\* Some whole runs, in any order.
LEMMA SomeAreFlushed ==
    ASSUME NEW s \in Stores, NEW R \in SUBSET RunSets, IsFiniteSet(R), \A x \in R : x \subseteq Cached(s),
           NEW q \in SetToSeqs(R), NEW r \in FlushRuns(s, q)
    PROVE  Flushed(s, r) /\ (r.fails = s.fails => Cached(r) = Cached(s) \ UNION R)
<1>1. /\ q \in Seq(R) /\ DOMAIN q = 1..Len(q)
      /\ \A x \in R : \E i \in DOMAIN q : q[i] = x
  BY Enumerates
<1>2. q \in Seq(RunSets) /\ \A i \in DOMAIN q : q[i] \in R
  BY <1>1
<1>3. RunsUpTo(q, Len(q)) = UNION R
  BY <1>1, <1>2 DEF RunsUpTo
<1> QED
  BY <1>2, <1>3, RunsAreFlushed

\* getBlockRun: a run holds its block, is cached, and is of one torrent.
LEMMA RunShape ==
    ASSUME NEW s \in Stores, NEW b \in Cached(s), NEW from \in Nat, from <= b[2]
    PROVE  /\ RunFrom(s, b, from) \in RunSets /\ RunFrom(s, b, from) \subseteq Cached(s)
           /\ b \in RunFrom(s, b, from)
<1>1. b \in Blocks /\ b[1] \in Torrents /\ b \in BlocksOf(b[1]) /\ b[2] \in Nat
  BY BlockShape DEF Cached
<1>2. \A d \in BlocksOf(b[1]) : d \in Blocks /\ d[1] = b[1] /\ d[2] \in Nat /\ d = <<d[1], d[2]>>
  BY <1>1, TorrentBlock, BlockShape
<1>3. b = <<b[1], b[2]>>
  BY <1>1, <1>2
<1>4. \A e \in BlocksOf(b[1]) : e[2] <= b[2] /\ b[2] <= e[2] => e = b
  BY <1>1, <1>2, <1>3
<1>5. b \in RunFrom(s, b, from)
  BY <1>1, <1>4 DEF RunFrom
<1>6. ASSUME NEW d \in RunFrom(s, b, from)
      PROVE  d \in Cached(s)
  <2>1. d \in BlocksOf(b[1]) /\ d[2] \in Nat
    BY <1>2 DEF RunFrom
  <2>2. (d[2] <= d[2] /\ d[2] <= b[2]) \/ (b[2] <= d[2] /\ d[2] <= d[2])
    BY <2>1, <1>1
  <2> QED
    BY <2>1, <2>2 DEF RunFrom
<1>7. RunFrom(s, b, from) \subseteq BlocksOf(b[1])
  BY DEF RunFrom
<1>8. RunFrom(s, b, from) \in RunSets
  BY <1>1, <1>2, <1>5, <1>7 DEF RunSets
<1> QED
  BY <1>5, <1>6, <1>8

LEMMA RunsFinite ==
    ASSUME NEW s, NEW B, IsFiniteSet(B), NEW from
    PROVE  IsFiniteSet({RunFrom(s, b, from) : b \in B})
<1> DEFINE R == {RunFrom(s, b, from) : b \in B}
           f == [b \in B |-> RunFrom(s, b, from)]
<1>1. f \in Surjection(B, R)
  BY DEF Surjection
<1> QED
  BY <1>1, FS_Surjection

\* tr_cacheFlushFile and tr_cacheFlushTorrent.
LEMMA RangeIsFlushed ==
    ASSUME NEW s \in Stores, NEW t \in Torrents, NEW from \in Nat, NEW to \in Int, NEW r \in FlushRange(s, t, from, to)
    PROVE  Flushed(s, r) /\ (r.fails = s.fails => Cached(r) \cap InRange(s, t, from, to) = {})
<1> DEFINE B == InRange(s, t, from, to)
           R == {RunFrom(s, b, from) : b \in B}
<1>1. B \subseteq Cached(s) /\ \A b \in B : from <= b[2]
  BY DEF InRange
<1>2. IsFiniteSet(B)
  BY <1>1, StoreShape, FS_Subset
<1>3. IsFiniteSet(R)
  BY <1>2, RunsFinite
<1>4. \A b \in B : RunFrom(s, b, from) \in RunSets /\ RunFrom(s, b, from) \subseteq Cached(s) /\ b \in RunFrom(s, b, from)
  BY <1>1, RunShape
<1>5. R \in SUBSET RunSets /\ \A x \in R : x \subseteq Cached(s)
  BY <1>4
<1>6. B \subseteq UNION R
  BY <1>4
<1>7. PICK q \in SetToSeqs(R) : r \in FlushRuns(s, q)
  BY DEF FlushRange, Ascending
<1>8. Flushed(s, r) /\ (r.fails = s.fails => Cached(r) = Cached(s) \ UNION R)
  BY <1>3, <1>5, <1>7, SomeAreFlushed
<1> QED
  BY <1>6, <1>8

LEMMA TorrentIsFlushed ==
    ASSUME NEW s \in Stores, NEW t \in Torrents, NEW r \in FlushTorrent(s, t)
    PROVE  Flushed(s, r) /\ (r.fails = s.fails => Cached(r) \cap BlocksOf(t) = {})
<1>1. NumBlocks[t] - 1 \in Int
  BY SizesAssumption
<1>2. Flushed(s, r) /\ (r.fails = s.fails => Cached(r) \cap InRange(s, t, 0, NumBlocks[t] - 1) = {})
  BY <1>1, RangeIsFlushed DEF FlushTorrent
<1>3. Cached(s) \cap BlocksOf(t) \subseteq InRange(s, t, 0, NumBlocks[t] - 1)
  <2> SUFFICES ASSUME NEW b \in Cached(s) \cap BlocksOf(t)
               PROVE  0 <= b[2] /\ b[2] <= NumBlocks[t] - 1
    BY DEF InRange
  <2>1. b \in Blocks /\ b[1] = t
    BY TorrentBlock
  <2>2. b[2] \in 0..NumBlocks[t] - 1
    BY <2>1, BlockShape
  <2> QED
    BY <2>2, <1>1
<1> QED
  BY <1>2, <1>3 DEF Flushed

\* The function that FlushInTurn defines by recursion, up to the n-th file.
Turns(s, t, q, f, n) ==
    f = [k \in 0..n |-> IF k = 0 THEN {s} ELSE UNION {FlushRange(x, t, q[k][1], q[k][2]) : x \in f[k - 1]}]

LEMMA TurnsExist ==
    ASSUME NEW s, NEW t, NEW q
    PROVE  \A n \in Nat : \E f : Turns(s, t, q, f, n)
<1> DEFINE G(k, X) == UNION {FlushRange(x, t, q[k][1], q[k][2]) : x \in X}
           D == {n \in Nat : \E f : f = [k \in 0..n |-> IF k = 0 THEN {s} ELSE G(k, f[k - 1])]}
<1> HIDE DEF G
<1>1. 0 \in D
  <2>1. [k \in 0..0 |-> {s}] = [k \in 0..0 |-> IF k = 0 THEN {s} ELSE G(k, [i \in 0..0 |-> {s}][k - 1])]
    OBVIOUS
  <2> QED
    BY <2>1
<1>2. ASSUME NEW n \in Nat, n \in D
      PROVE  n + 1 \in D
  <2>1. PICK f : f = [k \in 0..n |-> IF k = 0 THEN {s} ELSE G(k, f[k - 1])]
    BY <1>2
  <2> DEFINE g == [k \in 0..(n + 1) |-> IF k = n + 1 THEN G(n + 1, f[n]) ELSE f[k]]
  <2>2. \A k \in 0..n : g[k] = f[k]
    OBVIOUS
  <2>3. g[n + 1] = G(n + 1, g[n])
    BY <2>2
  <2>4. \A k \in 0..(n + 1) : g[k] = IF k = 0 THEN {s} ELSE G(k, g[k - 1])
    <3> SUFFICES ASSUME NEW k \in 0..(n + 1) PROVE g[k] = IF k = 0 THEN {s} ELSE G(k, g[k - 1])
      OBVIOUS
    <3>1. CASE k = n + 1
      BY <3>1, <2>3
    <3>2. CASE k = 0
      BY <3>2, <2>1, <2>2
    <3>3. CASE k \in 1..n
      <4>1. k \in 0..n /\ k - 1 \in 0..n /\ k # 0
        BY <3>3
      <4>2. f[k] = G(k, f[k - 1])
        BY <4>1, <2>1
      <4>3. g[k] = f[k] /\ g[k - 1] = f[k - 1]
        BY <4>1, <2>2
      <4> QED
        BY <4>1, <4>2, <4>3
    <3> QED
      BY <3>1, <3>2, <3>3
  <2>5. g = [k \in 0..(n + 1) |-> g[k]]
    OBVIOUS
  <2> HIDE DEF g
  <2>6. g = [k \in 0..(n + 1) |-> IF k = 0 THEN {s} ELSE G(k, g[k - 1])]
    BY <2>4, <2>5
  <2> QED
    BY <2>6
<1> HIDE DEF D
<1>3. D = Nat
  <2>1. D \in SUBSET Nat
    BY DEF D
  <2> QED
    BY <1>1, <1>2, <2>1, Induction
<1> QED
  BY <1>3 DEF Turns, D, G

\* peerCallbackFunc flushes one completed file after the other.
LEMMA FilesAreFlushed ==
    ASSUME NEW s \in Stores, NEW t \in Torrents, NEW F \in SUBSET Files[t], NEW r \in FlushFiles(s, t, F)
    PROVE  Flushed(s, r)
<1>1. PICK q \in FileOrders(F) : r \in FlushInTurn(s, t, q)
  BY DEF FlushFiles
<1>2. NumBlocks[t] \in Nat /\ Files[t] \subseteq (0..NumBlocks[t] - 1) \X (0..NumBlocks[t] - 1)
  BY SizesAssumption
<1>3. IsFiniteSet(F)
  <2>1. IsFiniteSet(0..NumBlocks[t] - 1)
    BY <1>2, FS_Interval
  <2>2. IsFiniteSet((0..NumBlocks[t] - 1) \X (0..NumBlocks[t] - 1))
    BY <2>1, FS_Product
  <2>3. F \in SUBSET ((0..NumBlocks[t] - 1) \X (0..NumBlocks[t] - 1))
    BY <1>2
  <2> QED
    BY <2>2, <2>3, FS_Subset
<1>4. q \in Seq(F) /\ Len(q) \in Nat /\ DOMAIN q = 1..Len(q)
  BY <1>1, <1>3, Enumerates DEF FileOrders
<1>5. \A k \in 1..Len(q) : q[k][1] \in Nat /\ q[k][2] \in Int
  BY <1>2, <1>4
<1> DEFINE f == CHOOSE g : Turns(s, t, q, g, Len(q))
<1>6. Turns(s, t, q, f, Len(q))
  BY <1>4, TurnsExist
<1>7. r \in f[Len(q)]
  BY <1>1 DEF FlushInTurn, Turns
<1> HIDE DEF f
<1> DEFINE D == {n \in Nat : n <= Len(q) => \A x \in f[n] : Flushed(s, x)}
<1>8. 0 \in D
  BY <1>6, <1>4, FlushedRefl DEF Turns
<1>9. ASSUME NEW n \in Nat, n \in D
      PROVE  n + 1 \in D
  <2> SUFFICES ASSUME n + 1 <= Len(q), NEW y \in f[n + 1] PROVE Flushed(s, y)
    OBVIOUS
  <2>1. f[n + 1] = UNION {FlushRange(x, t, q[n + 1][1], q[n + 1][2]) : x \in f[n]}
    <3>1. n + 1 \in 0..Len(q) /\ n + 1 # 0 /\ (n + 1) - 1 = n
      BY <1>4
    <3> QED
      BY <3>1, <1>6 DEF Turns
  <2>2. PICK x \in f[n] : y \in FlushRange(x, t, q[n + 1][1], q[n + 1][2])
    BY <2>1
  <2>3. Flushed(s, x) /\ x \in Stores
    BY <1>9, <1>4, <2>2 DEF Flushed
  <2>4. n + 1 \in 1..Len(q)
    BY <1>4
  <2>5. Flushed(x, y)
    BY <2>2, <2>3, <2>4, <1>5, RangeIsFlushed
  <2> QED
    BY <2>3, <2>5, FlushedTrans
<1> HIDE DEF D
<1>10. D = Nat
  <2>1. D \in SUBSET Nat
    BY DEF D
  <2> QED
    BY <1>8, <1>9, <2>1, Induction
<1>11. Len(q) \in D
  BY <1>4, <1>10
<1> QED
  BY <1>4, <1>7, <1>11 DEF D

\* calcRuns: the runs of what is cached are finitely many.
LEMMA RunsShape ==
    ASSUME NEW s \in Stores
    PROVE  /\ IsFiniteSet(Runs(s)) /\ Runs(s) \in SUBSET RunSets
           /\ \A x \in Runs(s) : x \subseteq Cached(s)
           /\ UNION Runs(s) = Cached(s)
<1>1. IsFiniteSet(Runs(s))
  BY StoreShape, RunsFinite DEF Runs
<1>2. \A b \in Cached(s) : 0 <= b[2]
  BY StoreShape, BlockShape
<1>3. \A b \in Cached(s) : RunFrom(s, b, 0) \in RunSets /\ RunFrom(s, b, 0) \subseteq Cached(s) /\ b \in RunFrom(s, b, 0)
  BY <1>2, RunShape
<1> QED
  BY <1>1, <1>3 DEF Runs

\* A cached block of a complete piece is in a run that tr_cacheFlushDone takes:
\* the run ends in a complete piece, or it spans pieces.
LEMMA DoneHasClass ==
    ASSUME NEW s \in Stores, NEW h, NEW b \in Cached(s), PieceIsComplete(h, Piece(b))
    PROVE  Class(RunFrom(s, b, 0), h) > 0
<1> DEFINE r == RunFrom(s, b, 0)
           c == FirstBlock(r)
           d == LastBlock(r)
<1>1. b \in Blocks /\ 0 <= b[2]
  BY StoreShape, BlockShape
<1>2. r \in RunSets /\ b \in r
  BY <1>1, RunShape
<1>3. r \subseteq BlocksOf(b[1])
  BY DEF RunFrom
<1> HIDE DEF r
<1>4. /\ c \in r /\ c[2] <= b[2]
      /\ d \in r /\ b[2] <= d[2]
  BY <1>2, Ends
<1>5. /\ c \in Blocks /\ d \in Blocks /\ c[1] = b[1] /\ d[1] = b[1]
      /\ c[2] \in Nat /\ b[2] \in Nat /\ d[2] \in Nat
  BY <1>1, <1>2, <1>3, <1>4, BlockShape, TorrentBlock DEF RunSets
<1> HIDE DEF c, d
<1>6. c[2] \div BlocksPerPiece <= b[2] \div BlocksPerPiece /\ b[2] \div BlocksPerPiece <= d[2] \div BlocksPerPiece
  BY <1>4, <1>5, DivMonotone
<1>7. \A i \in Nat : i \div BlocksPerPiece \in Int
  BY SizesAssumption
<1>8. CASE Piece(d) = Piece(b)
  BY <1>8 DEF Class, IsPieceDone, IsMultiPiece, r, c, d
<1>9. CASE Piece(d) # Piece(b)
  <2>1. d[2] \div BlocksPerPiece # b[2] \div BlocksPerPiece
    BY <1>9, <1>5 DEF Piece
  <2>2. c[2] \div BlocksPerPiece # d[2] \div BlocksPerPiece
    BY <2>1, <1>5, <1>6, <1>7
  <2>3. Piece(c) # Piece(d)
    BY <2>2 DEF Piece
  <2> QED
    BY <2>3 DEF Class, IsPieceDone, IsMultiPiece, c, d, r
<1> QED
  BY <1>8, <1>9 DEF r

\* tr_cacheFlushDone leaves no block of a complete piece in the cache.
LEMMA DoneIsFlushed ==
    ASSUME NEW s \in Stores, NEW h, NEW r \in FlushDone(s, h)
    PROVE  /\ Flushed(s, r)
           /\ r.fails = s.fails => \A b \in Cached(r) : ~PieceIsComplete(h, Piece(b))
<1> DEFINE R == {x \in Runs(s) : Class(x, h) > 0}
<1>1. IsFiniteSet(R) /\ R \in SUBSET RunSets /\ \A x \in R : x \subseteq Cached(s)
  <2>1. R \in SUBSET Runs(s)
    OBVIOUS
  <2> QED
    BY <2>1, RunsShape, FS_Subset
<1>2. PICK q \in SetToSeqs(R) : r \in FlushRuns(s, q)
  BY DEF FlushDone, Ranked
<1>3. Flushed(s, r) /\ (r.fails = s.fails => Cached(r) = Cached(s) \ UNION R)
  BY <1>1, <1>2, SomeAreFlushed
<1>4. ASSUME NEW b \in Cached(s), PieceIsComplete(h, Piece(b))
      PROVE  b \in UNION R
  <2>1. Class(RunFrom(s, b, 0), h) > 0
    BY <1>4, DoneHasClass
  <2>2. 0 <= b[2]
    BY StoreShape, BlockShape
  <2>3. b \in RunFrom(s, b, 0)
    BY <2>2, RunShape
  <2>4. RunFrom(s, b, 0) \in R
    BY <2>1 DEF Runs
  <2> QED
    BY <2>3, <2>4
<1>5. r.fails = s.fails => Cached(r) \subseteq Cached(s) /\ Cached(r) \cap UNION R = {}
  BY <1>3
<1> HIDE DEF R
<1> QED
  BY <1>3, <1>4, <1>5

\* cacheTrim's loop finds as many runs as its cutoff needs, and at least one.
LEMMA CutoffFound ==
    ASSUME NEW s \in Stores, NeedsTrim(s), NEW q \in SetToSeqs(Runs(s))
    PROVE  \E k \in DOMAIN q : Cardinality(RunsUpTo(q, k)) >= Cutoff /\ Cardinality(RunsUpTo(q, k - 1)) < Cutoff
<1> DEFINE T == {k \in 0..Len(q) : Cardinality(RunsUpTo(q, k)) >= Cutoff}
<1>1. /\ q \in Seq(Runs(s)) /\ DOMAIN q = 1..Len(q) /\ Len(q) \in Nat
      /\ \A x \in Runs(s) : \E i \in DOMAIN q : q[i] = x
  BY RunsShape, Enumerates
<1>2. RunsUpTo(q, Len(q)) = Cached(s)
  BY <1>1, RunsShape DEF RunsUpTo
<1>3. MaxBlocks \in Nat /\ Cutoff \in Nat /\ Cutoff > 0 /\ Cutoff <= MaxBlocks + 1
  BY BoundsAssumption DEF Cutoff
<1>4. Cardinality(Cached(s)) \in Nat
  BY StoreShape, FS_CardinalityType
<1>5. Len(q) \in T
  BY <1>1, <1>2, <1>3, <1>4 DEF NeedsTrim
<1>6. RunsUpTo(q, 0) = {}
  BY DEF RunsUpTo
<1>7. PICK k \in T : \A j \in T : k <= j
  <2>1. T \in SUBSET Nat /\ T # {}
    BY <1>5
  <2> QED
    BY <2>1, LeastNat
<1>8. k # 0
  <2>1. Cardinality(RunsUpTo(q, 0)) = 0
    BY <1>6, FS_EmptySet
  <2>2. Cardinality(RunsUpTo(q, k)) >= Cutoff
    BY <1>7
  <2> QED
    BY <2>1, <2>2, <1>3
<1>9. k \in DOMAIN q /\ k - 1 \in 0..Len(q) /\ k - 1 \notin T
  BY <1>1, <1>7, <1>8
<1>10. Cardinality(RunsUpTo(q, k - 1)) \in Nat
  <2>1. RunsUpTo(q, k - 1) \in SUBSET Cached(s)
    BY <1>1, <1>9, RunsShape DEF RunsUpTo
  <2> QED
    BY <2>1, StoreShape, FS_Subset, FS_CardinalityType
<1>11. ~(Cardinality(RunsUpTo(q, k - 1)) >= Cutoff)
  BY <1>9
<1> QED
  BY <1>3, <1>7, <1>9, <1>10, <1>11

\* cacheTrim takes at least one block from a cache that is too full, even when
\* a write fails.
LEMMA TrimIsFlushed ==
    ASSUME NEW s \in Stores, NEW h, NEW r \in CacheTrim(s, h)
    PROVE  Flushed(s, r) /\ (NeedsTrim(s) => Cached(r) # Cached(s))
<1>1. CASE ~NeedsTrim(s)
  BY <1>1, FlushedRefl DEF CacheTrim
<1>2. CASE NeedsTrim(s)
  <2>1. PICK q \in SetToSeqs(Runs(s)) : r \in FlushRuns(s, ToCutoff(q))
    BY <1>2 DEF CacheTrim, Ranked
  <2>2. PICK k \in DOMAIN q : ToCutoff(q) = SubSeq(q, 1, k)
    BY <1>2, CutoffFound DEF ToCutoff
  <2> DEFINE p == ToCutoff(q)
  <2>3. q \in Seq(Runs(s)) /\ DOMAIN q = 1..Len(q) /\ Len(q) \in Nat
    BY RunsShape, Enumerates
  <2>4. k \in Nat /\ k >= 1 /\ \A i \in 1..k : q[i] \in Runs(s)
    BY <2>2, <2>3
  <2>5. p \in Seq(Runs(s)) /\ Len(p) = k /\ \A i \in 1..k : p[i] = q[i]
    BY <2>2, <2>4, SubSeqProperties
  <2> HIDE DEF p
  <2>6. p \in Seq(RunSets) /\ DOMAIN p = 1..k /\ \A i \in DOMAIN p : p[i] \in RunSets /\ p[i] \subseteq Cached(s)
    BY <2>4, <2>5, RunsShape
  <2>7. Flushed(s, r) /\ \E j \in DOMAIN p : Cached(r) = Cached(s) \ RunsUpTo(p, j)
    <3>1. r \in FlushRuns(s, p)
      BY <2>1 DEF p
    <3>2. k \in DOMAIN p
      BY <2>4, <2>6
    <3> QED
      BY <3>1, <3>2, <2>5, <2>6, RunsAreFlushed
  <2>8. PICK j \in DOMAIN p : Cached(r) = Cached(s) \ RunsUpTo(p, j)
    BY <2>7
  <2>9. PICK b : b \in p[1] /\ b \in Cached(s)
    BY <2>4, <2>6 DEF RunSets
  <2>10. b \in RunsUpTo(p, j)
    BY <2>4, <2>6, <2>8, <2>9 DEF RunsUpTo
  <2> QED
    BY <2>7, <2>8, <2>9, <2>10
<1> QED
  BY <1>1, <1>2

-----------------------------------------------------------------------------
(* The invariant *)

\* While no write failed: only torrents that run have blocks in the cache, what
\* is claimed on disk is claimed in memory, and both claims are backed.
Backed ==
    /\ \A b \in Cached(Store) : b[1] \in running
    /\ \A t \in Torrents : \A p \in Pieces(t) :
          /\ PieceIsComplete(resume, p) => PieceIsComplete(have, p)
          /\ PieceIsComplete(have, p) => \A b \in PieceBlocks(p) : ReadBlock(Store, b) = "good"
          /\ PieceIsComplete(resume, p) => \A b \in PieceBlocks(p) : disk[b] = "good"

Limited == IsFiniteSet(Cached(Store)) /\ Cardinality(Cached(Store)) <= MaxBlocks

IInv == TypeOK /\ Limited /\ closed \cap running = {} /\ (fails = 0 => Backed)

\* The cache, the files and the count of failed writes after the flushes u.
Moves(u) == cache' = u.cache /\ disk' = u.disk /\ fails' = u.fails

LEMMA StoreTyped ==
    ASSUME TypeOK, Limited
    PROVE  Store \in Stores
BY DEF TypeOK, Limited, Store, Stores, Data, Cached

LEMMA MovesTyped ==
    ASSUME NEW u \in Stores, Moves(u)
    PROVE  /\ cache' \in [Blocks -> {"none", "good", "bad"}] /\ disk' \in [Blocks -> {"none", "good", "bad"}]
           /\ fails' \in 0..MaxFails
           /\ Cached(Store)' = Cached(u)
           /\ \A b \in Blocks : ReadBlock(Store', b) = ReadBlock(u, b) /\ disk'[b] = u.disk[b]
BY StoreShape DEF Moves, Data, Cached, Store, ReadBlock

\* A flush alone keeps the limit; while no write fails every block reads as
\* before and the files gain only what is read.
LEMMA FlushKeeps ==
    ASSUME TypeOK, Limited, NEW u, Flushed(Store, u), Moves(u)
    PROVE  /\ Limited'
           /\ fails' = 0 => /\ fails = 0 /\ u.fails = Store.fails
                            /\ \A b \in Blocks : /\ ReadBlock(Store', b) = ReadBlock(Store, b)
                                                 /\ disk'[b] \in {disk[b], ReadBlock(Store, b)}
<1>1. u \in Stores /\ Cached(u) \subseteq Cached(Store) /\ Store \in Stores
  BY StoreTyped DEF Flushed
<1>2. Cached(Store)' = Cached(u)
  BY <1>1, MovesTyped
<1>3. Limited'
  <2>1. IsFiniteSet(Cached(u)) /\ Cardinality(Cached(u)) <= Cardinality(Cached(Store))
    BY <1>1, FS_Subset DEF Limited
  <2>2. Cardinality(Cached(u)) \in Nat /\ Cardinality(Cached(Store)) \in Nat
    BY <2>1, FS_CardinalityType DEF Limited
  <2>3. Cardinality(Cached(u)) <= MaxBlocks
    BY <2>1, <2>2, BoundsAssumption DEF Limited
  <2> QED
    BY <1>2, <2>1, <2>3 DEF Limited
<1>4. ASSUME fails' = 0
      PROVE  fails = 0 /\ u.fails = Store.fails
  <2>1. u.fails = 0 /\ Store.fails = fails /\ fails \in Nat /\ Store.fails <= u.fails
    BY <1>4, BoundsAssumption DEF Moves, Store, TypeOK, Flushed
  <2> QED
    BY <2>1
<1>5. u.fails = Store.fails =>
          \A b \in Blocks : ReadBlock(u, b) = ReadBlock(Store, b) /\ u.disk[b] \in {disk[b], ReadBlock(Store, b)}
  BY DEF Flushed, Store
<1>6. \A b \in Blocks : ReadBlock(Store', b) = ReadBlock(u, b) /\ disk'[b] = u.disk[b]
  BY <1>1, MovesTyped
<1> QED
  BY <1>3, <1>4, <1>5, <1>6

\* What is complete of some pieces when a set of blocks grows or shrinks.
LEMMA Unclaimed ==
    ASSUME NEW t \in Torrents, NEW p \in Pieces(t), NEW h, NEW k \in SUBSET Blocks,
           \A b \in PieceBlocks(p) : b \in h <=> b \in k
    PROVE  PieceIsComplete(h, p) <=> PieceIsComplete(k, p)
BY DEF PieceIsComplete

LEMMA ClaimsShape ==
    ASSUME NEW T, NEW t \in Torrents, NEW p \in Pieces(t), resume \in SUBSET Blocks, have \in SUBSET Blocks
    PROVE  PieceIsComplete(Claims(T), p) <=> IF t \in T THEN PieceIsComplete(have, p) ELSE PieceIsComplete(resume, p)
<1>1. \A b \in PieceBlocks(p) : b[1] = t
  BY PieceShape, TorrentBlock
<1> QED
  BY <1>1 DEF PieceIsComplete, Claims

LEMMA InitIInv == Init => IInv
<1> SUFFICES ASSUME Init PROVE IInv
  OBVIOUS
<1>1. Cached(Store) = {}
  BY DEF Init, Cached, Store
<1>2. Limited
  BY <1>1, FS_EmptySet, BoundsAssumption DEF Limited
<1>3. TypeOK
  BY BoundsAssumption DEF Init, TypeOK
<1>4. Backed
  BY <1>1, PieceShape DEF Init, Backed, PieceIsComplete
<1> QED
  BY <1>2, <1>3, <1>4 DEF IInv, Init

\* A block that comes in: the trim and the files that become complete are a
\* chain of flushes of a cache that holds one block more.
LEMMA GotBlockKeeps ==
    ASSUME IInv, NEW b \in Blocks, NEW data \in {"good", "bad"}, GotBlock(b, data)
    PROVE  IInv'
<1> DEFINE P == Piece(b)
           h == have \cup {b}
           w == [Store EXCEPT !.cache[b] = data]
<1>0. /\ TypeOK /\ Limited /\ Store \in Stores /\ b[1] \in Torrents
      /\ P \in Pieces(b[1]) /\ b \in PieceBlocks(P)
  BY StoreTyped, PieceOfBlock DEF IInv
<1>1. /\ w = [cache |-> w.cache, disk |-> disk, failed |-> {}, fails |-> fails]
      /\ w.disk = disk /\ w.failed = {} /\ w.fails = fails
      /\ w.cache = [cache EXCEPT ![b] = data]
  BY DEF Store
<1>2. /\ w.cache \in [Blocks -> Data]
      /\ \A x \in Blocks : w.cache[x] = IF x = b THEN data ELSE Store.cache[x]
  BY <1>0, <1>1 DEF TypeOK, Data, Store
<1> HIDE DEF w
<1>3. /\ Cached(w) = Cached(Store) \cup {b}
      /\ \A x \in Blocks : x # b => ReadBlock(w, x) = ReadBlock(Store, x)
  BY <1>1, <1>2 DEF Cached, ReadBlock, Store
<1>4. IsFiniteSet(Cached(w)) /\ Cardinality(Cached(w)) <= MaxBlocks + 1
  <2>1. IsFiniteSet(Cached(Store)) /\ Cardinality(Cached(Store)) \in Nat /\ Cardinality(Cached(Store)) <= MaxBlocks
    BY <1>0, FS_CardinalityType DEF Limited
  <2>2. IsFiniteSet(Cached(w)) /\ Cardinality(Cached(w)) \in {Cardinality(Cached(Store)), Cardinality(Cached(Store)) + 1}
    BY <2>1, <1>3, FS_AddElement
  <2> QED
    BY <2>1, <2>2, BoundsAssumption
<1>5. w \in Stores
  BY <1>0, <1>1, <1>2, <1>4 DEF Stores, TypeOK, Data
<1>6. /\ Open /\ b[1] \in running /\ ~PieceIsComplete(have, P)
      /\ bads' \in 0..MaxBad
      /\ UNCHANGED <<running, resume, closed, crashes>>
  BY <1>0, BoundsAssumption DEF GotBlock, TypeOK
<1>7. PICK s \in CacheTrim(w, have) :
          \/ Stored(s) /\ UNCHANGED <<have, dirty>>
          \/ /\ ~PieceIsComplete(h, P)
             /\ Stored(s) /\ have' = h /\ dirty' = dirty \cup {b[1]}
          \/ Stored(s) /\ have' = h \ PieceBlocks(P) /\ dirty' = dirty \cup {b[1]}
          \/ /\ PieceIsComplete(h, P) /\ TestPiece(s, P)
             /\ \E u \in FlushFiles(s, b[1], CompletedFiles(h, P)) : Stored(u)
             /\ have' = h /\ dirty' = dirty \cup {b[1]}
  BY DEF GotBlock, w
<1>8. Flushed(w, s) /\ s \in Stores /\ (NeedsTrim(w) => Cached(s) # Cached(w))
  BY <1>5, TrimIsFlushed DEF Flushed
<1>9. PICK u : /\ Flushed(s, u) /\ Stored(u)
               /\ \/ have' = have \/ (have' = h /\ ~PieceIsComplete(h, P)) \/ have' = h \ PieceBlocks(P)
                  \/ have' = h /\ TestPiece(s, P)
               /\ dirty' \in {dirty, dirty \cup {b[1]}}
  <2>1. Flushed(s, s)
    BY <1>8, FlushedRefl
  <2>2. ASSUME NEW u \in FlushFiles(s, b[1], CompletedFiles(h, P))
        PROVE  Flushed(s, u)
    <3>1. P[1] = b[1]
      BY DEF Piece
    <3>2. CompletedFiles(h, P) \in SUBSET Files[b[1]]
      BY <3>1 DEF CompletedFiles
    <3> QED
      BY <3>2, <1>0, <1>8, FilesAreFlushed
  <2> QED
    BY <1>7, <2>1, <2>2
<1>10. Flushed(w, u) /\ u \in Stores
  BY <1>5, <1>8, <1>9, FlushedTrans DEF Flushed
<1>11. Moves(u) /\ stopping' = stopping \cup (u.failed \cap running)
  BY <1>9 DEF Stored, Moves
<1>12. Limited'
  <2>1. IsFiniteSet(Cached(s)) /\ Cardinality(Cached(s)) \in Nat /\ Cardinality(Cached(w)) \in Nat
        /\ Cardinality(Cached(s)) <= Cardinality(Cached(w))
        /\ (Cardinality(Cached(s)) = Cardinality(Cached(w)) => Cached(s) = Cached(w))
    <3>1. Cached(s) \in SUBSET Cached(w)
      BY <1>8 DEF Flushed
    <3> QED
      BY <3>1, <1>4, FS_Subset, FS_CardinalityType
  <2>2. Cardinality(Cached(s)) <= MaxBlocks
    <3>1. CASE NeedsTrim(w)
      BY <3>1, <2>1, <1>4, <1>8, BoundsAssumption
    <3>2. CASE ~NeedsTrim(w)
      BY <3>2, <2>1, BoundsAssumption DEF NeedsTrim
    <3> QED
      BY <3>1, <3>2
  <2>3. IsFiniteSet(Cached(u)) /\ Cardinality(Cached(u)) \in Nat /\ Cardinality(Cached(u)) <= Cardinality(Cached(s))
    <3>1. Cached(u) \in SUBSET Cached(s)
      BY <1>9 DEF Flushed
    <3> QED
      BY <3>1, <2>1, FS_Subset, FS_CardinalityType
  <2>4. Cached(Store)' = Cached(u)
    BY <1>10, <1>11, MovesTyped
  <2>5. Cardinality(Cached(u)) <= MaxBlocks
    BY <2>1, <2>2, <2>3, BoundsAssumption
  <2> QED
    BY <2>3, <2>4, <2>5 DEF Limited
<1>13. TypeOK'
  <2>1. cache' \in [Blocks -> {"none", "good", "bad"}] /\ disk' \in [Blocks -> {"none", "good", "bad"}] /\ fails' \in 0..MaxFails
    BY <1>10, <1>11, MovesTyped
  <2>2. stopping' \subseteq running /\ have' \subseteq Blocks /\ dirty' \subseteq Torrents
    BY <1>0, <1>9, <1>11 DEF TypeOK
  <2> QED
    BY <2>1, <2>2, <1>0, <1>6 DEF TypeOK
<1>14. ASSUME fails' = 0 PROVE Backed'
  <2>1. u.fails = w.fails /\ s.fails = w.fails /\ u.fails = s.fails /\ fails = 0
    <3>1. u.fails = 0 /\ w.fails \in Nat /\ s.fails \in Nat /\ w.fails <= s.fails /\ s.fails <= u.fails
      BY <1>14, <1>11, <1>5, <1>8, <1>9, StoreShape, BoundsAssumption DEF Flushed, Moves
    <3> QED
      BY <3>1, <1>1
  <2>2. Backed
    BY <2>1 DEF IInv
  <2>3. \A x \in Blocks : /\ ReadBlock(Store', x) = ReadBlock(s, x)
                          /\ x # b => /\ ReadBlock(Store', x) = ReadBlock(Store, x)
                                      /\ disk'[x] \in {disk[x], ReadBlock(Store, x)}
    <3>1. \A x \in Blocks : ReadBlock(Store', x) = ReadBlock(u, x) /\ disk'[x] = u.disk[x]
      BY <1>10, <1>11, MovesTyped
    <3>2. \A x \in Blocks : ReadBlock(u, x) = ReadBlock(s, x)
      BY <1>9, <2>1 DEF Flushed
    <3>3. \A x \in Blocks : ReadBlock(u, x) = ReadBlock(w, x) /\ u.disk[x] \in {w.disk[x], ReadBlock(w, x)}
      BY <1>10, <2>1 DEF Flushed
    <3> QED
      BY <3>1, <3>2, <3>3, <1>1, <1>3
  <2>4. \A x \in Cached(Store)' : x[1] \in running'
    <3>1. Cached(Store)' \subseteq Cached(Store) \cup {b}
      BY <1>3, <1>10, <1>11, MovesTyped DEF Flushed
    <3> QED
      BY <3>1, <1>6, <2>2 DEF Backed
  <2>5. ASSUME NEW t \in Torrents, NEW p \in Pieces(t)
        PROVE  /\ PieceIsComplete(resume', p) => PieceIsComplete(have', p)
               /\ PieceIsComplete(have', p) => \A x \in PieceBlocks(p) : ReadBlock(Store', x) = "good"
               /\ PieceIsComplete(resume', p) => \A x \in PieceBlocks(p) : disk'[x] = "good"
    <3>1. /\ PieceBlocks(p) \subseteq Blocks
          /\ \A x \in PieceBlocks(p) : Piece(x) = p
      BY <2>5, PieceShape
    <3>2. /\ PieceIsComplete(resume, p) => PieceIsComplete(have, p)
          /\ PieceIsComplete(have, p) => \A x \in PieceBlocks(p) : ReadBlock(Store, x) = "good"
          /\ PieceIsComplete(resume, p) => \A x \in PieceBlocks(p) : disk[x] = "good"
      BY <2>2, <2>5 DEF Backed
    <3>3. CASE p = P
      <4>1. ~PieceIsComplete(resume', p)
        BY <3>2, <3>3, <1>6
      <4>2. ASSUME PieceIsComplete(have', p)
            PROVE  TestPiece(s, P)
        <5>1. have' # have /\ ~(have' = h /\ ~PieceIsComplete(h, P)) /\ have' # h \ PieceBlocks(P)
          BY <4>2, <3>3, <1>0, <1>6 DEF PieceIsComplete
        <5> QED
          BY <5>1, <1>9
      <4> QED
        BY <4>1, <4>2, <3>1, <3>3, <2>3 DEF TestPiece
    <3>4. CASE p # P
      <4>1. \A x \in PieceBlocks(p) : x # b /\ x \notin PieceBlocks(P) /\ x \in Blocks
        BY <3>1, <3>4, PieceShape, <1>0
      <4>2. \A x \in PieceBlocks(p) : x \in have' <=> x \in have
        BY <4>1, <1>9
      <4>3. PieceIsComplete(have', p) <=> PieceIsComplete(have, p)
        BY <4>2 DEF PieceIsComplete
      <4>4. \A x \in PieceBlocks(p) : /\ ReadBlock(Store', x) = ReadBlock(Store, x)
                                      /\ disk'[x] \in {disk[x], ReadBlock(Store, x)}
        BY <4>1, <2>3
      <4> QED
        BY <4>3, <4>4, <3>2, <1>6
    <3> QED
      BY <3>3, <3>4
  <2> QED
    BY <2>4, <2>5 DEF Backed, PieceIsComplete, PieceBlocks, Pieces
<1>15. (closed \cap running = {})'
  BY <1>6 DEF IInv
<1> QED
  BY <1>12, <1>13, <1>14, <1>15 DEF IInv

\* The save timer claims what its flush left nowhere but in the files.
LEMMA SaveTimerKeeps ==
    ASSUME IInv, SaveTimer
    PROVE  IInv'
<1>0. TypeOK /\ Limited /\ Store \in Stores
  BY StoreTyped DEF IInv
<1>1. PICK u \in FlushDone(Store, have) : Stored(u)
  BY DEF SaveTimer
<1>2. /\ resume' = Claims(dirty) /\ dirty' = {}
      /\ UNCHANGED <<have, running, closed, bads, crashes>>
  BY DEF SaveTimer
<1>3. Flushed(Store, u) /\ u \in Stores
  BY <1>0, <1>1, DoneIsFlushed DEF Flushed
<1>4. Moves(u) /\ stopping' = stopping \cup (u.failed \cap running)
  BY <1>1 DEF Stored, Moves
<1>5. /\ Limited'
      /\ fails' = 0 => /\ fails = 0 /\ u.fails = Store.fails
                       /\ \A b \in Blocks : /\ ReadBlock(Store', b) = ReadBlock(Store, b)
                                            /\ disk'[b] \in {disk[b], ReadBlock(Store, b)}
  BY <1>0, <1>3, <1>4, FlushKeeps
<1>6. TypeOK'
  BY <1>0, <1>2, <1>3, <1>4, MovesTyped DEF TypeOK, Claims
<1>7. ASSUME fails' = 0 PROVE Backed'
  <2>1. Backed
    BY <1>5, <1>7 DEF IInv
  <2>2. \A b \in Cached(Store)' : b \in Cached(Store)
    BY <1>3, <1>4, MovesTyped DEF Flushed
  <2>3. ASSUME NEW t \in Torrents, NEW p \in Pieces(t)
        PROVE  /\ PieceIsComplete(resume', p) => PieceIsComplete(have', p)
               /\ PieceIsComplete(have', p) => \A x \in PieceBlocks(p) : ReadBlock(Store', x) = "good"
               /\ PieceIsComplete(resume', p) => \A x \in PieceBlocks(p) : disk'[x] = "good"
    <3>1. /\ PieceIsComplete(resume, p) => PieceIsComplete(have, p)
          /\ PieceIsComplete(have, p) => \A x \in PieceBlocks(p) : ReadBlock(Store, x) = "good"
      BY <2>1, <2>3 DEF Backed
    <3>2. PieceIsComplete(resume', p) => PieceIsComplete(have, p)
      BY <1>0, <1>2, <3>1, ClaimsShape DEF TypeOK
    <3>3. PieceBlocks(p) \subseteq Blocks /\ \A x \in PieceBlocks(p) : Piece(x) = p
      BY <2>3, PieceShape
    <3>4. ASSUME PieceIsComplete(have, p), NEW x \in PieceBlocks(p)
          PROVE  ReadBlock(Store', x) = "good" /\ disk'[x] = "good"
      <4>1. ReadBlock(Store', x) = "good"
        BY <3>1, <3>3, <3>4, <1>5, <1>7
      <4>2. x \notin Cached(u)
        BY <3>3, <3>4, <1>0, <1>1, <1>5, <1>7, DoneIsFlushed
      <4>3. disk'[x] = ReadBlock(u, x) /\ ReadBlock(u, x) = ReadBlock(Store', x)
        BY <4>2, <3>3, <1>3, <1>4, MovesTyped DEF Cached, ReadBlock
      <4> QED
        BY <4>1, <4>3
    <3> QED
      BY <3>2, <3>4, <1>2
  <2> QED
    BY <2>1, <2>2, <2>3, <1>2 DEF Backed, PieceIsComplete, PieceBlocks, Pieces
<1> QED
  BY <1>2, <1>5, <1>6, <1>7 DEF IInv

\* A torrent that stops or closes flushes all of its blocks before it claims them.
Leaves(t) ==
    /\ running' = running \ {t} /\ stopping' = stopping \ {t} /\ dirty' = dirty \ {t}
    /\ \E u \in FlushTorrent(Store, t) : Moves(u)
    /\ \E T \in SUBSET {t} : resume' = Claims(T)
    /\ closed' \in {closed, closed \cup {t}}
    /\ UNCHANGED <<have, bads, crashes>>

LEMMA LeavesKeeps ==
    ASSUME IInv, NEW t \in Torrents, Leaves(t)
    PROVE  IInv'
<1>0. TypeOK /\ Limited /\ Store \in Stores /\ closed \cap running = {}
  BY StoreTyped DEF IInv
<1>1. PICK u \in FlushTorrent(Store, t) : Moves(u)
  BY DEF Leaves
<1>2. PICK T \in SUBSET {t} : resume' = Claims(T)
  BY DEF Leaves
<1>3. Flushed(Store, u) /\ u \in Stores /\ (u.fails = Store.fails => Cached(u) \cap BlocksOf(t) = {})
  BY <1>0, TorrentIsFlushed DEF Flushed
<1>5. /\ Limited'
      /\ fails' = 0 => /\ fails = 0 /\ u.fails = Store.fails
                       /\ \A b \in Blocks : /\ ReadBlock(Store', b) = ReadBlock(Store, b)
                                            /\ disk'[b] \in {disk[b], ReadBlock(Store, b)}
  BY <1>0, <1>1, <1>3, FlushKeeps
<1>6. TypeOK'
  BY <1>0, <1>1, <1>2, <1>3, MovesTyped DEF TypeOK, Claims, Leaves
<1>7. ASSUME fails' = 0 PROVE Backed'
  <2>1. Backed
    BY <1>5, <1>7 DEF IInv
  <2>2. \A b \in Cached(Store)' : b \in Cached(Store) /\ b[1] # t
    <3>1. Cached(Store)' = Cached(u) /\ Cached(u) \subseteq Cached(Store) /\ Cached(u) \cap BlocksOf(t) = {}
      BY <1>1, <1>3, <1>5, <1>7, MovesTyped DEF Flushed
    <3>2. \A b \in Cached(Store) : b \in BlocksOf(b[1])
      BY <1>0, StoreShape, BlockShape
    <3> QED
      BY <3>1, <3>2
  <2>3. \A b \in Cached(Store)' : b[1] \in running'
    BY <2>1, <2>2 DEF Backed, Leaves
  <2>4. ASSUME NEW k \in Torrents, NEW p \in Pieces(k)
        PROVE  /\ PieceIsComplete(resume', p) => PieceIsComplete(have', p)
               /\ PieceIsComplete(have', p) => \A x \in PieceBlocks(p) : ReadBlock(Store', x) = "good"
               /\ PieceIsComplete(resume', p) => \A x \in PieceBlocks(p) : disk'[x] = "good"
    <3>1. /\ PieceIsComplete(resume, p) => PieceIsComplete(have, p)
          /\ PieceIsComplete(have, p) => \A x \in PieceBlocks(p) : ReadBlock(Store, x) = "good"
          /\ PieceIsComplete(resume, p) => \A x \in PieceBlocks(p) : disk[x] = "good"
      BY <2>1, <2>4 DEF Backed
    <3>2. PieceIsComplete(resume', p) => PieceIsComplete(have, p) /\ (k # t => PieceIsComplete(resume, p))
      BY <1>0, <1>2, <3>1, ClaimsShape DEF TypeOK
    <3>3. /\ PieceBlocks(p) \subseteq Blocks /\ \A x \in PieceBlocks(p) : x[1] = k
      BY <2>4, PieceShape, TorrentBlock
    <3>4. have' = have
      BY DEF Leaves
    <3>5. ASSUME PieceIsComplete(have, p), NEW x \in PieceBlocks(p)
          PROVE  ReadBlock(Store', x) = "good"
      BY <3>1, <3>3, <3>5, <1>5, <1>7
    <3>6. ASSUME PieceIsComplete(resume', p), NEW x \in PieceBlocks(p)
          PROVE  disk'[x] = "good"
      <4>1. CASE k = t
        <5>1. x \notin Cached(u)
          BY <2>2, <3>3, <4>1, <1>1, <1>3, MovesTyped
        <5>2. disk'[x] = ReadBlock(u, x) /\ ReadBlock(u, x) = ReadBlock(Store', x)
          BY <5>1, <3>3, <1>1, <1>3, MovesTyped DEF Cached, ReadBlock
        <5> QED
          BY <5>2, <3>2, <3>5, <3>6
      <4>2. CASE k # t
        <5>1. disk[x] = "good" /\ ReadBlock(Store, x) = "good"
          BY <4>2, <3>1, <3>2, <3>6
        <5>2. disk'[x] \in {disk[x], ReadBlock(Store, x)}
          BY <3>3, <1>5, <1>7
        <5> QED
          BY <5>1, <5>2
      <4> QED
        BY <4>1, <4>2
    <3> QED
      BY <3>2, <3>4, <3>5, <3>6
  <2> QED
    BY <2>3, <2>4 DEF Backed, PieceIsComplete, PieceBlocks, Pieces
<1>8. (closed \cap running = {})'
  BY <1>0 DEF Leaves
<1> QED
  BY <1>5, <1>6, <1>7, <1>8 DEF IInv

\* The verify thread reads the files of a torrent that has nothing in the cache.
LEMMA VerifyKeeps ==
    ASSUME IInv, NEW t \in Torrents, Verify(t)
    PROVE  IInv'
<1> DEFINE fit == {p \in Pieces(t) : \A b \in PieceBlocks(p) : disk[b] = "good"}
           had == {p \in Pieces(t) : PieceIsComplete(have, p)}
<1>0. TypeOK /\ Limited /\ closed \cap running = {}
  BY DEF IInv
<1>1. /\ have' = (have \ UNION {PieceBlocks(p) : p \in had}) \cup UNION {PieceBlocks(p) : p \in fit}
      /\ t \notin running /\ dirty' \in {dirty, dirty \cup {t}}
      /\ UNCHANGED <<cache, disk, running, stopping, resume, closed, bads, fails, crashes>>
  BY DEF Verify
<1>2. \A p \in Pieces(t) : PieceBlocks(p) \subseteq Blocks /\ \A b \in Blocks : b \in PieceBlocks(p) => Piece(b) = p
  BY PieceShape
<1>3. have' \subseteq Blocks
  BY <1>0, <1>1, <1>2 DEF TypeOK
<1>4. TypeOK' /\ Limited'
  BY <1>0, <1>1, <1>3 DEF TypeOK, Limited, Cached, Store
<1>5. ASSUME fails' = 0 PROVE Backed'
  <2>1. Backed
    BY <1>1, <1>5 DEF IInv
  <2>2. Cached(Store)' = Cached(Store) /\ \A x \in Blocks : ReadBlock(Store', x) = ReadBlock(Store, x)
    BY <1>1 DEF Cached, Store, ReadBlock
  <2>3. ASSUME NEW k \in Torrents, NEW p \in Pieces(k)
        PROVE  /\ PieceIsComplete(resume', p) => PieceIsComplete(have', p)
               /\ PieceIsComplete(have', p) => \A x \in PieceBlocks(p) : ReadBlock(Store', x) = "good"
               /\ PieceIsComplete(resume', p) => \A x \in PieceBlocks(p) : disk'[x] = "good"
    <3>1. /\ PieceIsComplete(resume, p) => PieceIsComplete(have, p)
          /\ PieceIsComplete(have, p) => \A x \in PieceBlocks(p) : ReadBlock(Store, x) = "good"
          /\ PieceIsComplete(resume, p) => \A x \in PieceBlocks(p) : disk[x] = "good"
      BY <2>1, <2>3 DEF Backed
    <3>2. /\ PieceBlocks(p) \subseteq Blocks /\ PieceBlocks(p) # {}
          /\ \A x \in PieceBlocks(p) : Piece(x) = p /\ x[1] = k /\ x \in Blocks
      BY <2>3, PieceShape, TorrentBlock
    <3>3. ASSUME p \notin fit
          PROVE  PieceIsComplete(have', p) => PieceIsComplete(have, p) /\ k # t
      <4>1. \A x \in PieceBlocks(p) : x \notin UNION {PieceBlocks(r) : r \in fit}
        BY <1>2, <3>2, <3>3
      <4>2. PieceIsComplete(have', p) => PieceIsComplete(have, p) /\ p \notin had
        <5> SUFFICES ASSUME PieceIsComplete(have', p) PROVE PieceIsComplete(have, p) /\ p \notin had
          OBVIOUS
        <5>1. \A x \in PieceBlocks(p) : x \in have /\ x \notin UNION {PieceBlocks(r) : r \in had}
          BY <4>1, <1>1 DEF PieceIsComplete
        <5> QED
          BY <5>1, <3>2 DEF PieceIsComplete
      <4>3. k = t => (PieceIsComplete(have, p) => p \in had)
        BY <2>3
      <4> QED
        BY <4>2, <4>3
    <3>4. CASE p \in fit
      <4>1. k = t /\ PieceIsComplete(have', p) /\ \A x \in PieceBlocks(p) : disk[x] = "good"
        <5>1. k = t
          BY <2>3, <3>4, PieceShape
        <5>2. PieceBlocks(p) \subseteq UNION {PieceBlocks(r) : r \in fit}
          BY <3>4
        <5> QED
          BY <5>1, <5>2, <3>4, <1>1 DEF PieceIsComplete
      <4>2. \A x \in PieceBlocks(p) : x \notin Cached(Store)
        BY <4>1, <3>2, <1>1, <2>1 DEF Backed
      <4>3. \A x \in PieceBlocks(p) : ReadBlock(Store, x) = disk[x]
        BY <4>2, <3>2 DEF Cached, ReadBlock, Store
      <4> QED
        BY <4>1, <4>3, <3>2, <2>2, <1>1
    <3>5. CASE p \notin fit
      <4>1. k = t => ~PieceIsComplete(resume, p)
        BY <3>1, <3>5, <2>3
      <4>2. k # t => (PieceIsComplete(have, p) => PieceIsComplete(have', p))
        <5> SUFFICES ASSUME k # t, PieceIsComplete(have, p), NEW x \in PieceBlocks(p) PROVE x \in have'
          BY DEF PieceIsComplete
        <5>1. x[1] = k /\ x \in have
          BY <3>2 DEF PieceIsComplete
        <5>2. \A r \in had : \A y \in PieceBlocks(r) : y[1] = t
          BY PieceShape, TorrentBlock
        <5> QED
          BY <5>1, <5>2, <1>1
      <4> QED
        BY <4>1, <4>2, <3>1, <3>2, <3>3, <3>5, <2>2, <1>1
    <3> QED
      BY <3>4, <3>5
  <2>4. \A b \in Cached(Store)' : b[1] \in running'
    BY <2>1, <2>2, <1>1 DEF Backed
  <2> QED
    BY <2>3, <2>4 DEF Backed, PieceIsComplete, PieceBlocks, Pieces
<1> QED
  BY <1>0, <1>1, <1>4, <1>5 DEF IInv

\* After a crash only the .resume files claim anything, and they are backed.
LEMMA CrashKeeps ==
    ASSUME IInv, Crash
    PROVE  IInv'
<1>0. TypeOK /\ (fails = 0 => Backed)
  BY DEF IInv
<1>1. Cached(Store)' = {}
  BY DEF Crash, Cached, Store
<1>2. Limited'
  BY <1>1, FS_EmptySet, BoundsAssumption DEF Limited
<1>3. TypeOK'
  <2>1. crashes' \in 0..MaxCrashes
    BY <1>0, BoundsAssumption DEF TypeOK, Crash
  <2> QED
    BY <1>0, <2>1 DEF TypeOK, Crash
<1>4. ASSUME fails' = 0 PROVE Backed'
  <2>1. Backed /\ have' = resume /\ resume' = resume /\ disk' = disk
    BY <1>0, <1>4 DEF Crash
  <2>2. \A x \in Blocks : ReadBlock(Store', x) = disk[x]
    BY DEF Crash, ReadBlock, Store
  <2>3. ASSUME NEW k \in Torrents, NEW p \in Pieces(k)
        PROVE  /\ PieceIsComplete(resume', p) => PieceIsComplete(have', p)
               /\ PieceIsComplete(have', p) => \A x \in PieceBlocks(p) : ReadBlock(Store', x) = "good"
               /\ PieceIsComplete(resume', p) => \A x \in PieceBlocks(p) : disk'[x] = "good"
    <3>1. PieceIsComplete(resume, p) => \A x \in PieceBlocks(p) : disk[x] = "good"
      BY <2>1, <2>3 DEF Backed
    <3>2. PieceBlocks(p) \subseteq Blocks
      BY <2>3, PieceShape
    <3> QED
      BY <3>1, <3>2, <2>1, <2>2
  <2> QED
    BY <2>3, <1>1 DEF Backed, PieceIsComplete, PieceBlocks, Pieces
<1> QED
  BY <1>2, <1>3, <1>4 DEF IInv, Crash

LEMMA StartKeeps ==
    ASSUME IInv, NEW t \in Torrents, Start(t)
    PROVE  IInv'
<1>1. /\ TypeOK /\ Limited /\ closed = {} /\ running' = running \cup {t}
      /\ UNCHANGED <<cache, disk, have, stopping, dirty, resume, closed, bads, fails, crashes>>
  BY DEF IInv, Start, Open
<1>2. Store' = Store
  BY <1>1 DEF Store
<1>3. TypeOK' /\ Limited' /\ (closed \cap running = {})'
  BY <1>1, <1>2 DEF TypeOK, Limited, Cached
<1>4. ASSUME fails' = 0 PROVE Backed'
  BY <1>1, <1>2, <1>4 DEF Backed, PieceIsComplete, PieceBlocks, Pieces, IInv, Cached, ReadBlock
<1> QED
  BY <1>3, <1>4 DEF IInv

LEMMA NextStep ==
    ASSUME IInv, [Next]_vars
    PROVE  IInv'
<1>1. ASSUME NEW b \in Blocks, NEW data \in {"good", "bad"}, GotBlock(b, data)
      PROVE  IInv'
  BY <1>1, GotBlockKeeps
<1>2. CASE SaveTimer
  BY <1>2, SaveTimerKeeps
<1>3. ASSUME NEW t \in Torrents, Start(t)
      PROVE  IInv'
  BY <1>3, StartKeeps
<1>4. ASSUME NEW t \in Torrents, Stop(t)
      PROVE  IInv'
  <2>1. Leaves(t)
    BY <1>4 DEF Stop, Leaves, Moves
  <2> QED
    BY <2>1, LeavesKeeps
<1>5. ASSUME NEW t \in Torrents, Verify(t)
      PROVE  IInv'
  BY <1>5, VerifyKeeps
<1>6. ASSUME NEW t \in Torrents, CloseTorrent(t)
      PROVE  IInv'
  <2>1. {t} \cap dirty \in SUBSET {t}
    OBVIOUS
  <2>2. Leaves(t)
    BY <1>6, <2>1 DEF CloseTorrent, Leaves, Moves
  <2> QED
    BY <2>2, LeavesKeeps
<1>7. CASE Crash
  BY <1>7, CrashKeeps
<1>8. CASE UNCHANGED vars
  <2>1. Store' = Store /\ UNCHANGED <<cache, disk, have, running, stopping, dirty, resume, closed, bads, fails, crashes>>
    BY <1>8 DEF vars, Store
  <2> QED
    BY <2>1 DEF IInv, TypeOK, Limited, Backed, Cached, ReadBlock, PieceIsComplete, PieceBlocks, Pieces
<1> QED
  BY <1>1, <1>2, <1>3, <1>4, <1>5, <1>6, <1>7, <1>8 DEF Next

LEMMA InvSound == IInv => LimitKept /\ HaveBacked /\ ResumeBacked
BY DEF IInv, LimitKept, Limited, Backed, HaveBacked, ResumeBacked

\* The inductive invariant holds in every reachable state, for any torrents,
\* pieces, files and any size of the cache.
THEOREM Inductive == Spec => []IInv
<1>1. Init => IInv
  BY InitIInv
<1>2. IInv /\ [Next]_vars => IInv'
  BY NextStep
<1> QED
  BY <1>1, <1>2, PTL DEF Spec

\* cacheTrim: between two handlers the cache is within its limit, also when
\* the writes that should relieve it fail.
THEOREM LimitIsKept == Spec => []LimitKept
BY Inductive, InvSound, PTL

\* What the program takes for a complete piece is good in the cache and the
\* files together, as long as no write failed.
THEOREM HaveIsBacked == Spec => []HaveBacked
BY Inductive, InvSound, PTL

\* A crash at any moment leaves no piece that is claimed and not there, as long
\* as no write failed: tr_cacheFlushDone comes before tr_torrentSave.
THEOREM ResumeIsBacked == Spec => []ResumeBacked
BY Inductive, InvSound, PTL

\* The assertion of tr_cacheFree, which fails after a failed write, holds
\* without one: a session that closed its torrents has nothing in the cache.
THEOREM EmptyAtClose == Spec => [](fails = 0 => CacheEmptyAtClose)
<1>1. IInv => (fails = 0 => CacheEmptyAtClose)
  BY DEF IInv, Backed, TypeOK, CacheEmptyAtClose
<1> QED
  BY <1>1, Inductive, PTL
=============================================================================
