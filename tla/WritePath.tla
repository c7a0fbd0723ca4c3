----------------------------- MODULE WritePath -----------------------------
(***************************************************************************)
(* The way of a downloaded block: the write-back cache (cache.c), the      *)
(* completion bitfield (completion.c), the check of a piece that became    *)
(* complete (peer-mgr.c, torrent.c), the files (inout.c) and the .resume   *)
(* file that survives a crash (session.c, resume.c).  All of it runs in    *)
(* the event thread, but for the verify thread.                            *)
(*                                                                         *)
(* Data is "good" when it is what the metainfo's hash was made of, and a   *)
(* piece passes its hash test when all of its blocks are good.  The array  *)
(* of cached blocks is sorted by torrent and block, so it is a function of *)
(* the block here; the rank of a run of blocks is its class, its length    *)
(* and age (below 0x1000, some 36 hours) deciding arbitrarily within one.  *)
(***************************************************************************)
EXTENDS Naturals, FiniteSets, Sequences, SequencesExt, FiniteSetsExt

CONSTANTS Torrents,
          NumBlocks,       \* blocks of each torrent
          BlocksPerPiece,  \* the last piece may have fewer
          Files,           \* each torrent's files: <<first, last>> blocks
          MaxBlocks,       \* cache->max_blocks
          MaxBad, MaxFails, MaxCrashes  \* bounds: bad blocks, failed writes, crashes

ASSUME SizesAssumption ==
    /\ NumBlocks \in [Torrents -> Nat \ {0}]
    /\ BlocksPerPiece \in Nat \ {0}
    /\ \A t \in Torrents : Files[t] \subseteq (0..NumBlocks[t] - 1) \X (0..NumBlocks[t] - 1)
ASSUME BoundsAssumption == {MaxBlocks, MaxBad, MaxFails, MaxCrashes} \subseteq Nat

BlocksOf(t) == {<<t, i>> : i \in 0..NumBlocks[t] - 1}
Blocks == UNION {BlocksOf(t) : t \in Torrents}

VARIABLES cache, disk,        \* what each holds of each block; "none" is nothing
          have,               \* completion.blockBitfield of every torrent
          running, stopping,  \* isRunning and isStopping
          dirty,              \* isDirty
          resume,             \* the blocks the .resume files claim
          closed,             \* torrents freed by sessionCloseImpl
          bads, fails, crashes

vars == <<cache, disk, have, running, stopping, dirty, resume, closed, bads, fails, crashes>>

Init == /\ cache = [b \in Blocks |-> "none"]
        /\ disk = [b \in Blocks |-> "none"]
        /\ have = {} /\ resume = {}
        /\ running = {} /\ stopping = {} /\ dirty = {} /\ closed = {}
        /\ bads = 0 /\ fails = 0 /\ crashes = 0

Piece(b) == <<b[1], b[2] \div BlocksPerPiece>>
PieceBlocks(p) == {b \in BlocksOf(p[1]) : Piece(b) = p}
Pieces(t) == {Piece(b) : b \in BlocksOf(t)}
PieceIsComplete(h, p) == PieceBlocks(p) \subseteq h
FileIsComplete(h, t, f) == \A i \in f[1]..f[2] : <<t, i>> \in h

-----------------------------------------------------------------------------
(* Runs of contiguous cached blocks, and what flushing some of them leaves. *)
(* s is a record of the cache, the disk, the torrents whose writes failed  *)
(* and how many writes failed so far.                                      *)
Cached(s) == {b \in Blocks : s.cache[b] # "none"}

\* The run of blocks around b, without those before `from`: what getBlockRun
\* finds from the first of them.
RunFrom(s, b, from) ==
    {d \in BlocksOf(b[1]) :
        /\ d[2] >= from
        /\ \A e \in BlocksOf(b[1]) :
              (d[2] <= e[2] /\ e[2] <= b[2]) \/ (b[2] <= e[2] /\ e[2] <= d[2]) => e \in Cached(s)}
Runs(s) == {RunFrom(s, b, 0) : b \in Cached(s)}

LastBlock(r) == CHOOSE b \in r : \A d \in r : d[2] <= b[2]
FirstBlock(r) == CHOOSE b \in r : \A d \in r : b[2] <= d[2]
IsMultiPiece(r) == Piece(FirstBlock(r)) # Piece(LastBlock(r))
IsPieceDone(r, h) == PieceIsComplete(h, Piece(LastBlock(r)))

\* DONEFLAG and MULTIFLAG, as calcRuns puts them in a rank.
Class(r, h) == (IF IsPieceDone(r, h) THEN 2 ELSE 0) + (IF IsMultiPiece(r) THEN 1 ELSE 0)

\* calcRuns: runs, in some order by descending rank.
Ranked(R, h) ==
    {q \in SetToSeqs(R) : \A i, j \in DOMAIN q : i < j => Class(q[i], h) >= Class(q[j], h)}

\* flushContiguous for each run of q until one fails: the blocks of a run leave
\* the cache before tr_ioWrite, which may fail after writing some of them.
Take(s, R) == [s EXCEPT !.cache = [b \in Blocks |-> IF b \in R THEN "none" ELSE @[b]]]
Write(s, R) == [s EXCEPT !.disk = [b \in Blocks |-> IF b \in R THEN s.cache[b] ELSE @[b]]]
RunsUpTo(q, k) == UNION {q[i] : i \in 1..k}

FlushFirst(s, q, k) == Take(Write(s, RunsUpTo(q, k)), RunsUpTo(q, k))
FailAt(s, q, k, m) ==
    [Take(Write(FlushFirst(s, q, k - 1), {b \in q[k] : b[2] < m}), q[k])
       EXCEPT !.failed = @ \cup {FirstBlock(q[k])[1]}, !.fails = @ + 1]
FlushRuns(s, q) ==
    {FlushFirst(s, q, Len(q))} \cup
    {FailAt(s, q, k, m) : k \in {j \in DOMAIN q : s.fails < MaxFails},
                          m \in UNION {{b[2] : b \in q[j]} : j \in DOMAIN q}}
Ok(s) == s.failed = {}

\* Mutant: the limit is off by one.
NeedsTrim_Late(s) == Cardinality(Cached(s)) > MaxBlocks + 1

\* cacheTrim: too many blocks, so flush the highest runs up to the cutoff.
NeedsTrim(s) == Cardinality(Cached(s)) > MaxBlocks
Cutoff == 1 + (MaxBlocks \div 4)
ToCutoff(q) ==
    SubSeq(q, 1, CHOOSE k \in DOMAIN q :
                    /\ Cardinality(RunsUpTo(q, k)) >= Cutoff
                    /\ Cardinality(RunsUpTo(q, k - 1)) < Cutoff)
CacheTrim(s, h) ==
    IF NeedsTrim(s)
      THEN UNION {FlushRuns(s, ToCutoff(q)) : q \in Ranked(Runs(s), h)}
      ELSE {s}

\* Mutant: runs that end in an incomplete piece stay, whatever they begin with.
FlushDone_DoneOnly(s, h) ==
    UNION {FlushRuns(s, q) : q \in Ranked({r \in Runs(s) : IsPieceDone(r, h)}, h)}

\* tr_cacheFlushDone: what it flushes are the runs of a class above zero, the
\* first in the order of the ranks.
FlushDone(s, h) ==
    UNION {FlushRuns(s, q) : q \in Ranked({r \in Runs(s) : Class(r, h) > 0}, h)}

\* tr_cacheFlushFile and tr_cacheFlushTorrent: the runs that begin in the range,
\* in their order.
InRange(s, t, from, to) == {b \in Cached(s) \cap BlocksOf(t) : from <= b[2] /\ b[2] <= to}
Ascending(R) ==
    {q \in SetToSeqs(R) : \A i, j \in DOMAIN q : i < j => FirstBlock(q[i])[2] < FirstBlock(q[j])[2]}
FlushRange(s, t, from, to) ==
    UNION {FlushRuns(s, q) : q \in Ascending({RunFrom(s, b, from) : b \in InRange(s, t, from, to)})}
FlushTorrent(s, t) == FlushRange(s, t, 0, NumBlocks[t] - 1)

\* The files of t that contain piece p and are complete; they are flushed one
\* after the other, whatever becomes of the writes.
CompletedFiles(h, p) ==
    {f \in Files[p[1]] : FileIsComplete(h, p[1], f)
                         /\ \E i \in f[1]..f[2] : Piece(<<p[1], i>>) = p}
FileOrders(F) ==
    {q \in SetToSeqs(F) : \A i, j \in DOMAIN q :
        i < j => q[i][1] < q[j][1] \/ (q[i][1] = q[j][1] /\ q[i][2] < q[j][2])}
FlushInTurn(s, t, q) ==
    LET after[n \in 0..Len(q)] ==
            IF n = 0 THEN {s} ELSE UNION {FlushRange(x, t, q[n][1], q[n][2]) : x \in after[n - 1]}
    IN  after[Len(q)]
FlushFiles(s, t, F) == UNION {FlushInTurn(s, t, q) : q \in FileOrders(F)}

-----------------------------------------------------------------------------
Store == [cache |-> cache, disk |-> disk, failed |-> {}, fails |-> fails]

\* The variables after the cache did s; a failed write stops its torrent.
Stored(s) == /\ cache' = s.cache /\ disk' = s.disk /\ fails' = s.fails
             /\ stopping' = stopping \cup (s.failed \cap running)

Open == closed = {}

\* tr_cacheReadBlock: from the files where the cache has nothing.
ReadBlock(s, b) == IF s.cache[b] # "none" THEN s.cache[b] ELSE s.disk[b]

\* Mutant: the last block of the piece is not hashed.
TestPiece_SkipsLast(s, p) ==
    \A b \in PieceBlocks(p) : b # LastBlock(PieceBlocks(p)) => ReadBlock(s, b) = "good"

\* tr_ioTestPiece: recalculateHash reads the piece's blocks through the cache.
TestPiece(s, p) == \A b \in PieceBlocks(p) : ReadBlock(s, b) = "good"

\* clientGotBlock, and peerCallbackFunc's TR_PEER_CLIENT_GOT_BLOCK, for a block
\* that was asked for: put it in the cache; unless a write failed, add it to
\* the completion, check a piece that is complete now, and flush its files.
GotBlock(b, data) ==
    LET p == Piece(b)
        t == b[1]
        h == have \cup {b}
    IN  /\ Open /\ t \in running /\ ~PieceIsComplete(have, p)
        /\ bads' = IF data = "bad" THEN bads + 1 ELSE bads
        /\ bads' <= MaxBad
        /\ \E s \in CacheTrim([Store EXCEPT !.cache[b] = data], have) :
              \/ ~Ok(s) /\ Stored(s) /\ UNCHANGED <<have, dirty>>
              \/ /\ Ok(s) /\ b \in have
                 /\ Stored(s) /\ UNCHANGED <<have, dirty>>
              \/ /\ Ok(s) /\ b \notin have /\ ~PieceIsComplete(h, p)
                 /\ Stored(s) /\ have' = h /\ dirty' = dirty \cup {t}
              \/ /\ Ok(s) /\ b \notin have /\ PieceIsComplete(h, p) /\ ~TestPiece(s, p)
                 /\ Stored(s) /\ have' = h \ PieceBlocks(p) /\ dirty' = dirty \cup {t}
              \/ /\ Ok(s) /\ b \notin have /\ PieceIsComplete(h, p) /\ TestPiece(s, p)
                 /\ \E s2 \in FlushFiles(s, t, CompletedFiles(h, p)) : Stored(s2)
                 /\ have' = h /\ dirty' = dirty \cup {t}
        /\ UNCHANGED <<running, resume, closed, crashes>>

\* tr_torrentSave of the torrents T: resume.c writes their bitfields.
Claims(T) == {b \in resume : b[1] \notin T} \cup {b \in have : b[1] \in T}

\* onSaveTimer: an error of the flush is only logged.
SaveTimer ==
    /\ Open
    /\ \E s \in FlushDone(Store, have) : Stored(s)
    /\ resume' = Claims(dirty) /\ dirty' = {}
    /\ UNCHANGED <<have, running, closed, bads, crashes>>

\* torrentStartImpl.
Start(t) ==
    /\ Open /\ t \notin running
    /\ running' = running \cup {t}
    /\ UNCHANGED <<cache, disk, have, stopping, dirty, resume, closed, bads, fails, crashes>>

\* Mutant: isStopping is not cleared.
Stop_KeepsStopping(t) ==
    /\ Open /\ t \in running
    /\ running' = running \ {t}
    /\ \E s \in FlushTorrent(Store, t) : cache' = s.cache /\ disk' = s.disk /\ fails' = s.fails
    /\ resume' = Claims({t}) /\ dirty' = dirty \ {t}
    /\ UNCHANGED <<have, stopping, closed, bads, crashes>>

\* tr_torrentStop and stopTorrent, asked for or for a local error.
Stop(t) ==
    /\ Open /\ t \in running
    /\ running' = running \ {t}
    /\ \E s \in FlushTorrent(Store, t) :
          /\ cache' = s.cache /\ disk' = s.disk /\ fails' = s.fails
          /\ stopping' = stopping \ {t}
    /\ resume' = Claims({t}) /\ dirty' = dirty \ {t}
    /\ UNCHANGED <<have, closed, bads, crashes>>

\* The verify thread on a stopped torrent: it reads the files, not the cache.
Verify(t) ==
    LET good == {p \in Pieces(t) : \A b \in PieceBlocks(p) : disk[b] = "good"}
        had == {p \in Pieces(t) : PieceIsComplete(have, p)}
    IN  /\ Open /\ t \notin running
        /\ have' = (have \ UNION {PieceBlocks(p) : p \in had}) \cup UNION {PieceBlocks(p) : p \in good}
        /\ dirty' = IF good = had THEN dirty ELSE dirty \cup {t}
        /\ UNCHANGED <<cache, disk, running, stopping, resume, closed, bads, fails, crashes>>

\* sessionCloseImpl: closeTorrent for each torrent, in some order, then
\* tr_cacheFree.
CloseTorrent(t) ==
    /\ t \notin closed
    /\ closed' = closed \cup {t}
    /\ running' = running \ {t}
    /\ \E s \in FlushTorrent(Store, t) :
          /\ cache' = s.cache /\ disk' = s.disk /\ fails' = s.fails
          /\ stopping' = stopping \ {t}
    /\ resume' = Claims({t} \cap dirty) /\ dirty' = dirty \ {t}
    /\ UNCHANGED <<have, bads, crashes>>

\* The process dies and is started again: the .resume files are loaded.
Crash ==
    /\ crashes < MaxCrashes
    /\ crashes' = crashes + 1
    /\ cache' = [b \in Blocks |-> "none"]
    /\ have' = resume
    /\ running' = {} /\ stopping' = {} /\ dirty' = {} /\ closed' = {}
    /\ UNCHANGED <<disk, resume, bads, fails>>

Next == \/ \E b \in Blocks, data \in {"good", "bad"} : GotBlock(b, data)
        \/ SaveTimer
        \/ \E t \in Torrents : Start(t) \/ Stop(t) \/ Verify(t) \/ CloseTorrent(t)
        \/ Crash

Spec == Init /\ [][Next]_vars

-----------------------------------------------------------------------------
\* Types; isStopping is only ever set on a running torrent.
TypeOK ==
    /\ cache \in [Blocks -> {"none", "good", "bad"}]
    /\ disk \in [Blocks -> {"none", "good", "bad"}]
    /\ have \subseteq Blocks /\ resume \subseteq Blocks
    /\ stopping \subseteq running /\ running \subseteq Torrents
    /\ dirty \subseteq Torrents /\ closed \subseteq Torrents
    /\ bads \in 0..MaxBad /\ fails \in 0..MaxFails /\ crashes \in 0..MaxCrashes

\* The cache never holds more than its limit between two handlers, not even
\* when the writes that should relieve it fail (cacheTrim).
LimitKept == TypeOK /\ Cardinality(Cached(Store)) <= MaxBlocks

\* While no write failed, what the program takes for a complete piece reads as
\* good data, from the cache and the files together.
HaveBacked ==
    fails = 0 => \A t \in Torrents : \A p \in Pieces(t) :
                    PieceIsComplete(have, p) =>
                        \A b \in PieceBlocks(p) : ReadBlock(Store, b) = "good"

\* While no write failed, a piece the .resume file claims is good in the files
\* alone: a crash at any moment leaves no piece that is claimed and not there
\* (tr_cacheFlushDone before tr_torrentSave).
ResumeBacked ==
    fails = 0 => \A t \in Torrents : \A p \in Pieces(t) :
                    PieceIsComplete(resume, p) => \A b \in PieceBlocks(p) : disk[b] = "good"

\* assert (tr_ptrArrayEmpty (&cache->blocks)) in tr_cacheFree: nothing is left
\* in the cache when every torrent is closed.
CacheEmptyAtClose == closed = Torrents => Cached(Store) = {}
=============================================================================
