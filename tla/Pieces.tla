------------------------------- MODULE Pieces -------------------------------
(***************************************************************************)
(* What of a torrent is wanted and what is there (completion.c, torrent.c,   *)
(* inout.c): its files lie end to end in its pieces, a piece is made of        *)
(* blocks, and files of any length - also none - share pieces.  The user        *)
(* chooses files; the peers are asked for pieces and send blocks.               *)
(***************************************************************************)
EXTENDS Integers, FiniteSets, Sequences

CONSTANTS Layouts,       \* what a torrent may be: [files |-> lengths, piece |-> pieceSize]
          MaxBlockSize,  \* MAX_BLOCK_SIZE
          MaxPieceCalls

(* a sum, term by term *)
SumOf(n, a) == LET s[k \in 0..n] == IF k = 0 THEN 0 ELSE s[k - 1] + a[k] IN s[n]
(* tr_getBlockSize: halved until a peer will send it; 0 if that does not divide the piece *)
BlockSizeFor(size) ==
    LET Halved[b \in 0..size] == IF b > MaxBlockSize THEN Halved[b \div 2] ELSE b
    IN  IF Halved[size] = 0 \/ size % Halved[size] # 0 THEN 0 ELSE Halved[size]
(* tr_metainfoParseImpl refuses a torrent without a byte, torrentParseImpl one *)
(* whose pieces cannot be divided: tr_getBlockSize says 0 for it.              *)
Layout == {l \in [files : Seq(Nat), piece : Nat \ {0}] :
              /\ BlockSizeFor(l.piece) \in Nat \ {0} /\ l.piece % BlockSizeFor(l.piece) = 0
              /\ \E f \in DOMAIN l.files : l.files[f] > 0}
ASSUME PiecesAssumption == \A l \in Layouts : l \in Layout

VARIABLES
    info,       \* the torrent's layout
    dnd,        \* dnd.file, dnd.piece: what is not to be downloaded
    priority,   \* priority.file, priority.piece
    cp,         \* tr_completion: blocks, sizeNow and the two lazy sums
    pieceCalls
pieceVars == <<info, dnd, priority, cp, pieceCalls>>
PieceCall == pieceCalls < MaxPieceCalls /\ pieceCalls' = pieceCalls + 1

Low == -1   Normal == 0   High == 1
Least(a, b) == IF a < b THEN a ELSE b
CeilDiv(a, b) == (a + b - 1) \div b

(* torrentInitFromInfo *)
Total == SumOf(Len(info.files), info.files)
BlockSize == BlockSizeFor(info.piece)
PieceCount == CeilDiv(Total, info.piece)
BlockCount == CeilDiv(Total, BlockSize)
LastOf(size) == IF Total % size = 0 THEN size ELSE Total % size
ThePieces == 0..(PieceCount - 1)
TheBlocks == 0..(BlockCount - 1)
(* tr_torPieceCountBytes, tr_torBlockCountBytes *)
PieceBytes(p) == IF p = PieceCount - 1 THEN LastOf(info.piece) ELSE info.piece
BlockBytes(b) == IF b = BlockCount - 1 THEN LastOf(BlockSize) ELSE BlockSize

(* tr_torrentInitFilePieces, getBytePiece, initFilePieces *)
Offset(f) == SumOf(f - 1, info.files)
BytePiece(at) == IF at = Total THEN PieceCount - 1 ELSE at \div info.piece
FirstPiece(f) == BytePiece(Offset(f))
LastPiece(f) == BytePiece(Offset(f) + (IF info.files[f] > 0 THEN info.files[f] - 1 ELSE 0))
PieceHasFile(p, f) == FirstPiece(f) <= p /\ p <= LastPiece(f)
FirstFile(p) == CHOOSE f \in DOMAIN info.files : LastPiece(f) >= p /\ \A g \in 1..(f - 1) : LastPiece(g) < p

(* tr_torGetFileBlockRange, tr_torGetPieceBlockRange, tr_torrentGetBlockLocation, _tr_block *)
FileBlocks(f) ==
    LET first == Offset(f) \div BlockSize
    IN  first..(IF info.files[f] = 0 THEN first ELSE (Offset(f) + info.files[f] - 1) \div BlockSize)
FirstBlock(p) == (p * info.piece) \div BlockSize
LastBlock(p) == (p * info.piece + PieceBytes(p) - 1) \div BlockSize
PieceBlocks(p) == FirstBlock(p)..LastBlock(p)
BlockLocation(b) == <<(b * BlockSize) \div info.piece, (b * BlockSize) % info.piece>>
BlockAt(p, offset) == p * (info.piece \div BlockSize) + offset \div BlockSize
(* tr_ioFindFileLocation: the search never stops at a file of no length *)
FileAt(offset) == CHOOSE f \in DOMAIN info.files : Offset(f) <= offset /\ offset < Offset(f) + info.files[f]
(* readOrWritePiece: the files a read of len bytes at offset goes through *)
FilesOf(offset, len) ==
    LET last == CHOOSE g \in FileAt(offset)..Len(info.files) :
                    /\ Offset(g) + info.files[g] >= offset + len
                    /\ \A h \in FileAt(offset)..(g - 1) : Offset(h) + info.files[h] < offset + len
    IN  FileAt(offset)..last

(***************************************************************************)
(* Priorities                                                              *)
(***************************************************************************)
(* calculatePiecePriority: from a file that is in the piece back to the first, then on *)
FilesAround(p, hint) ==
    {g \in DOMAIN info.files : \A h \in (IF g < hint THEN g..(hint - 1) ELSE hint..g) : PieceHasFile(p, h)}
Highest(levels) == IF High \in levels THEN High ELSE IF Normal \in levels THEN Normal ELSE Low
LevelFor(pri, p, g) == IF pri[g] >= Normal /\ p \in {FirstPiece(g), LastPiece(g)} THEN High ELSE pri[g]
PiecePriority(pri, p, hint) == Highest({LevelFor(pri, p, g) : g \in FilesAround(p, hint)})
(* tr_torrentInitFilePriority *)
InitFilePriority(pri, f, level) ==
    LET file == [pri.file EXCEPT ![f] = level]
    IN  [file |-> file,
         piece |-> [p \in ThePieces |-> IF PieceHasFile(p, f) THEN PiecePriority(file, p, f) ELSE pri.piece[p]]]

(***************************************************************************)
(* Do not download                                                         *)
(***************************************************************************)
(* setFileDND: the ends of a file belong to its neighbours too *)
(* Mutant: only the file next to it *)
SetFileDND_Next(d, f, off) ==
    LET file == [d.file EXCEPT ![f] = off]
        first == off /\ (f > 1 /\ LastPiece(f - 1) = FirstPiece(f) => file[f - 1])
        last == off /\ (f < Len(info.files) /\ FirstPiece(f + 1) = LastPiece(f) => file[f + 1])
    IN  [file |-> file,
         piece |-> [p \in ThePieces |->
             IF p = FirstPiece(f) /\ p = LastPiece(f) THEN first /\ last
             ELSE IF p = FirstPiece(f) THEN first ELSE IF p = LastPiece(f) THEN last
             ELSE IF PieceHasFile(p, f) THEN off ELSE d.piece[p]]]
SetFileDND(d, f, off) ==
    LET file == [d.file EXCEPT ![f] = off]
        first == off /\ \A g \in 1..(f - 1) :
                           (\A h \in g..(f - 1) : LastPiece(h) = FirstPiece(f)) => file[g]
        last == off /\ \A g \in (f + 1)..Len(info.files) :
                          (\A h \in (f + 1)..g : FirstPiece(h) = LastPiece(f)) => file[g]
    IN  [file |-> file,
         piece |-> [p \in ThePieces |->
             IF p = FirstPiece(f) /\ p = LastPiece(f) THEN first /\ last
             ELSE IF p = FirstPiece(f) THEN first ELSE IF p = LastPiece(f) THEN last
             ELSE IF PieceHasFile(p, f) THEN off ELSE d.piece[p]]]

(***************************************************************************)
(* What there is                                                           *)
(***************************************************************************)
CountIn(S) == Cardinality(cp.blocks \cap S)
HasAllBlocks == CountIn(TheBlocks) = BlockCount
PieceComplete(p) == HasAllBlocks \/ PieceBlocks(p) \subseteq cp.blocks
(* tr_cpConstruct, tr_cpReset *)
Reset == [blocks |-> {}, sizeNow |-> 0, doneDirty |-> TRUE, validDirty |-> TRUE, done |-> 0, valid |-> 0]
(* tr_cpBlockInit *)
BlocksInit(S) ==
    [Reset EXCEPT !.blocks = S, !.done = cp.done, !.valid = cp.valid,
        !.sizeNow = Cardinality(S) * BlockSize - (IF BlockCount - 1 \in S THEN BlockSize - LastOf(BlockSize) ELSE 0)]
(* tr_cpBlockAdd, tr_cpPieceAdd, tr_cpPieceRem; changed or not, a removed piece dirties the sums *)
BytesOf(S) == SumOf(BlockCount, [k \in 1..BlockCount |-> IF k - 1 \in S THEN BlockBytes(k - 1) ELSE 0])
Added(c, S) == IF S \subseteq c.blocks THEN c
               ELSE [c EXCEPT !.blocks = @ \cup S, !.sizeNow = @ + BytesOf(S \ c.blocks), !.doneDirty = TRUE, !.validDirty = TRUE]
PieceRemoved(c, p) ==
    [c EXCEPT !.blocks = @ \ PieceBlocks(p), !.sizeNow = @ - BytesOf(PieceBlocks(p) \cap c.blocks),
              !.doneDirty = TRUE, !.validDirty = TRUE]
(* tr_cpHaveValid, tr_cpSizeWhenDone: the sums, made when they are dirty *)
ValidNow == SumOf(PieceCount, [k \in 1..PieceCount |-> IF PieceComplete(k - 1) THEN PieceBytes(k - 1) ELSE 0])
WantedOf(p) == IF ~dnd.piece[p] THEN PieceBytes(p)
               ELSE CountIn(PieceBlocks(p)) * BlockSize
                      - (IF BlockCount - 1 \in PieceBlocks(p) \cap cp.blocks THEN BlockSize - LastOf(BlockSize) ELSE 0)
DoneNow == IF HasAllBlocks THEN Total ELSE SumOf(PieceCount, [k \in 1..PieceCount |-> WantedOf(k - 1)])
SizeWhenDone == IF cp.doneDirty THEN DoneNow ELSE cp.done
HaveValid == IF cp.validDirty THEN ValidNow ELSE cp.valid
(* tr_cpGetStatus *)
CpStatus == IF HasAllBlocks THEN "seed" ELSE IF cp.sizeNow = SizeWhenDone THEN "partial" ELSE "leech"
(* tr_cpMissingBlocksInPiece, tr_cpMissingBytesInPiece, tr_cpFileIsComplete, tr_cpCreatePieceBitfield *)
MissingBlocks(p) == IF HasAllBlocks THEN 0 ELSE Cardinality(PieceBlocks(p)) - CountIn(PieceBlocks(p))
MissingBytes(p) ==
    IF HasAllBlocks THEN 0
    ELSE PieceBytes(p) - CountIn(FirstBlock(p)..(LastBlock(p) - 1)) * BlockSize
                       - (IF LastBlock(p) \in cp.blocks THEN BlockBytes(LastBlock(p)) ELSE 0)
FileIsComplete(f) == info.files[f] = 0 \/ FileBlocks(f) \subseteq cp.blocks
PieceBitfield == IF HasAllBlocks THEN ThePieces ELSE {p \in ThePieces : PieceComplete(p)}
(* fileBytesCompleted: the first, the last and the blocks between *)
FileBytes(f) ==
    LET first == Offset(f) \div BlockSize
        last == (Offset(f) + info.files[f] - 1) \div BlockSize
    IN  IF info.files[f] = 0 THEN 0
        ELSE IF first = last THEN (IF first \in cp.blocks THEN info.files[f] ELSE 0)
        ELSE (IF first \in cp.blocks THEN BlockSize - (Offset(f) % BlockSize) ELSE 0)
               + CountIn((first + 1)..(last - 1)) * BlockSize
               + (IF last \in cp.blocks THEN Offset(f) + info.files[f] - BlockSize * last ELSE 0)

(***************************************************************************)
(* Operations                                                              *)
(***************************************************************************)
AllWanted == [file |-> [f \in DOMAIN info.files |-> FALSE], piece |-> [p \in ThePieces |-> FALSE]]
PiecesInit ==
    /\ info \in Layouts
    /\ dnd = AllWanted
    /\ LET pri == [f \in DOMAIN info.files |-> Normal]
       IN  priority = [file |-> pri, piece |-> [p \in ThePieces |-> PiecePriority(pri, p, FirstFile(p))]]
    /\ cp = Reset /\ pieceCalls = 0

GotBlock(b) == PieceCall /\ cp' = Added(cp, {b}) /\ UNCHANGED <<info, dnd, priority>>
(* tr_torrentSetHasPiece: a piece is checked *)
SetHasPiece(p, has) ==
    /\ PieceCall /\ cp' = (IF has THEN Added(cp, PieceBlocks(p)) ELSE PieceRemoved(cp, p))
    /\ UNCHANGED <<info, dnd, priority>>
LoadsProgress(S) == PieceCall /\ cp' = BlocksInit(S) /\ UNCHANGED <<info, dnd, priority>>
(* tr_torrentSetFilePriorities: the files in the order they are given *)
SetFilePriorities(fs, level) ==
    /\ PieceCall /\ UNCHANGED <<info, dnd, cp>>
    /\ priority' = LET after[k \in 0..Len(fs)] == IF k = 0 THEN priority ELSE InitFilePriority(after[k - 1], fs[k], level)
                   IN  after[Len(fs)]
(* tr_torrentSetFileDLs; tr_cpInvalidateDND *)
SetFileDLs(fs, do) ==
    /\ PieceCall
    /\ dnd' = LET after[k \in 0..Len(fs)] == IF k = 0 THEN dnd ELSE SetFileDND(after[k - 1], fs[k], ~do)
              IN  after[Len(fs)]
    /\ cp' = [cp EXCEPT !.doneDirty = TRUE] /\ UNCHANGED <<info, priority>>
AsksSizeWhenDone ==
    /\ cp.doneDirty /\ cp' = [cp EXCEPT !.done = DoneNow, !.doneDirty = FALSE]
    /\ UNCHANGED <<info, dnd, priority, pieceCalls>>
AsksHaveValid ==
    /\ cp.validDirty /\ cp' = [cp EXCEPT !.valid = ValidNow, !.validDirty = FALSE]
    /\ UNCHANGED <<info, dnd, priority, pieceCalls>>

FileChoices == {<<f>> : f \in DOMAIN info.files} \cup {<<f, g>> : f, g \in DOMAIN info.files}
PiecesNext ==
    \/ \E b \in TheBlocks : GotBlock(b)
    \/ \E p \in ThePieces, has \in BOOLEAN : SetHasPiece(p, has)
    \/ \E S \in SUBSET TheBlocks : LoadsProgress(S)
    \/ \E fs \in FileChoices : \/ \E level \in {Low, Normal, High} : SetFilePriorities(fs, level)
                           \/ \E do \in BOOLEAN : SetFileDLs(fs, do)
    \/ AsksSizeWhenDone
    \/ AsksHaveValid
PiecesSpec == PiecesInit /\ [][PiecesNext]_pieceVars

(***************************************************************************)
(* Properties                                                              *)
(***************************************************************************)
(* The byte at offset is in file f *)
Holds(f, offset) == Offset(f) <= offset /\ offset < Offset(f) + info.files[f]
(* A piece is left out exactly if every file with a byte in it is (a file of   *)
(* no length counts for the piece it stands in), whatever files were chosen    *)
(* in what order.                                                              *)
DndOfFiles == \A p \in ThePieces :
    dnd.piece[p] <=> \A f \in DOMAIN info.files : PieceHasFile(p, f) => dnd.file[f]
(* A piece has the highest priority of the files it has a part of, and the     *)
(* first and last pieces of a file that is wanted come first.                  *)
PriorityOfFiles == \A p \in ThePieces :
    LET in == {f \in DOMAIN info.files : PieceHasFile(p, f)}
        ends == {f \in in : p \in {FirstPiece(f), LastPiece(f)}}
    IN  /\ priority.piece[p] = High <=> (\E f \in in : priority.file[f] = High) \/ (\E f \in ends : priority.file[f] >= Normal)
        /\ priority.piece[p] = Low <=> \A f \in in : priority.file[f] = Low
(* The counters agree with the bytes that are there, one by one: what there    *)
(* is, what will be, what each file has and what each piece lacks.             *)
Bytes == 0..(Total - 1)
There(offset) == offset \div BlockSize \in cp.blocks
CountsOfBytes ==
    /\ cp.sizeNow = Cardinality({o \in Bytes : There(o)})
    /\ SizeWhenDone = Cardinality({o \in Bytes : There(o) \/ ~dnd.piece[o \div info.piece]})
    /\ HaveValid = Cardinality({o \in Bytes : \A x \in Bytes : x \div info.piece = o \div info.piece => There(x)})
    /\ \A f \in DOMAIN info.files :
          /\ FileBytes(f) = Cardinality({o \in Bytes : There(o) /\ Holds(f, o)})
          /\ FileIsComplete(f) <=> FileBytes(f) = info.files[f]
    /\ \A p \in ThePieces :
          /\ MissingBytes(p) = Cardinality({o \in Bytes : o \div info.piece = p /\ ~There(o)})
          /\ p \in PieceBitfield <=> MissingBlocks(p) = 0
(* Blocks, pieces and files name the same bytes *)
PlacesAgree ==
    \A o \in Bytes :
        LET p == o \div info.piece
            b == BlockAt(p, o % info.piece)
        IN  /\ b = o \div BlockSize /\ b \in PieceBlocks(p) /\ BlockAt(BlockLocation(b)[1], BlockLocation(b)[2]) = b
            /\ b \in FileBlocks(FileAt(o)) /\ PieceHasFile(p, FileAt(o))
            /\ \A len \in 1..Least(BlockSize, Total - o) :
                  {f \in FilesOf(o, len) : info.files[f] > 0} = {f \in DOMAIN info.files : \E x \in o..(o + len - 1) : Holds(f, x)}
PiecesSound == DndOfFiles /\ PriorityOfFiles /\ CountsOfBytes /\ PlacesAgree
=============================================================================
