---------------------------- MODULE TorrentFiles ----------------------------
(***************************************************************************)
(* torrent.c: where the files of a torrent are.  They begin in the           *)
(* incomplete directory, with .part after their names; a file that is         *)
(* complete gets its name, a torrent that is complete its place, and the      *)
(* user may move it.  Blocks wait in the cache (cache.c), an open descriptor  *)
(* stays with its file (fdlimit.c), and what is claimed is on disk or waits.  *)
(***************************************************************************)
EXTENDS Naturals, FiniteSets, SequencesExt

CONSTANTS TFiles,          \* 1 .. fileCount; every file is one piece
          TBlocks,         \* the blocks of a file
          Elsewhere,       \* a directory the user may name
          MaxFileCalls
ASSUME FilesAssumption ==
    /\ IsFiniteSet(TFiles) /\ TFiles = 1..Cardinality(TFiles) /\ 1 \in TFiles
    /\ TBlocks # {} /\ Elsewhere # "none" /\ MaxFileCalls \in Nat

Dirs == {"downloads", "unfinished", Elsewhere}
Places == Dirs \X TFiles \X {"name", "part"}
Shut2 == <<>>                   \* not open
Unlinked == <<"unlinked">>      \* open, but the file was copied away

VARIABLES
    dirs,       \* tor->downloadDir, incompleteDir ("none" if NULL), and which is currentDir
    disk2,      \* disk2[p]: the file at a place: whether it is there, and the blocks it holds
    open2,      \* open2[f]: the place of the file that f's cached descriptor is open on
    cached,     \* cached[f]: blocks in the write cache
    had,        \* had[f]: blocks that the completion claims
    status2,    \* tor->completeness, wanted files, a move that is posted, the torrent's life
    rash,       \* something was done that loses data: see DataFindable
    fileCalls
filesVars == <<dirs, disk2, open2, cached, had, status2, rash, fileCalls>>

(* What the functions of the file take and give *)
State == [dirs |-> dirs, disk |-> disk2, open |-> open2, cached |-> cached]
Now(w) == dirs' = w.dirs /\ disk2' = w.disk /\ open2' = w.open /\ cached' = w.cached
FileCall == fileCalls < MaxFileCalls /\ fileCalls' = fileCalls + 1

(***************************************************************************)
(* Finding, writing and reading                                            *)
(***************************************************************************)
CurrentDir(d) == IF d.current = "download" THEN d.download ELSE d.incomplete
(* tr_torrentFindFile2: the names it tries, in its order *)
Candidates(d, f) ==
    IF d.incomplete = "none" THEN <<<<d.download, f, "name">>, <<d.download, f, "part">>>>
    ELSE <<<<d.download, f, "name">>, <<d.incomplete, f, "name">>, <<d.incomplete, f, "part">>,
           <<d.download, f, "part">>>>
Hits(w, f) == {i \in DOMAIN Candidates(w.dirs, f) : w.disk[Candidates(w.dirs, f)[i]].there}
Missing(w, f) == Hits(w, f) = {}
Found(w, f) == Candidates(w.dirs, f)[Min(Hits(w, f))]

(* refreshCurrentDir *)
Refreshed(w) ==
    [w EXCEPT !.dirs.current =
        IF w.dirs.incomplete = "none" THEN "download"
        ELSE IF Missing(w, 1) THEN "incomplete"
        ELSE IF Found(w, 1)[1] = w.dirs.download THEN "download" ELSE "incomplete"]

(* readOrWriteBytes: the file that is open, or found, or made *)
Target(w, f) == IF w.open[f] # Shut2 THEN w.open[f]
                ELSE IF ~Missing(w, f) THEN Found(w, f)
                ELSE <<CurrentDir(w.dirs), f, status2.naming>>
(* tr_cacheFlushFile, of those of S of which blocks wait: a write to a file    *)
(* that is unlinked is lost                                                    *)
Flushed(w, S) ==
    LET writes == {f \in S : w.cached[f] # {}}
    IN  [w EXCEPT !.cached = [f \in TFiles |-> IF f \in writes THEN {} ELSE @[f]],
                  !.open = [f \in TFiles |-> IF f \in writes THEN Target(w, f) ELSE @[f]],
                  !.disk = [p \in Places |-> IF p[2] \in writes /\ p = Target(w, p[2])
                                             THEN [there |-> TRUE, has |-> @[p].has \cup w.cached[p[2]]] ELSE @[p]]]
(* tr_fdTorrentClose *)
CloseAll(w) == [w EXCEPT !.open = [f \in TFiles |-> Shut2]]

(* What a read of the file's blocks finds: the cache first *)
Readable(w, f) ==
    w.cached[f] \cup (IF w.open[f] \notin {Shut2, Unlinked} THEN w.disk[w.open[f]].has
                      ELSE IF ~Missing(w, f) THEN w.disk[Found(w, f)].has ELSE {})

(* What is at a place comes to another, and nothing stays *)
Nothing2 == [there |-> FALSE, has |-> {}]
Moved(w, from, to) == [w.disk EXCEPT ![to] = w.disk[from], ![from] = Nothing2]
(* Mutant: the file keeps its .part *)
FileCompleted_Part(w, f) == [w EXCEPT !.open[f] = Shut2]
(* tr_torrentFileCompleted *)
FileCompleted(w, f) ==
    LET shut == [w EXCEPT !.open[f] = Shut2]
        at == Found(w, f)
    IN  IF Missing(w, f) \/ at[3] = "name" THEN shut
        ELSE [shut EXCEPT !.disk = Moved(w, at, <<at[1], f, "name">>)]

(***************************************************************************)
(* Moving and deleting                                                     *)
(***************************************************************************)
(* deleteLocalData: of each file the name, or else the part, in currentDir *)
DeletedFiles(w) ==
    LET here(f, n) == <<CurrentDir(w.dirs), f, n>>
        victims == {here(f, IF w.disk[here(f, "name")].there THEN "name" ELSE "part") : f \in TFiles}
    IN  [w EXCEPT !.disk = [p \in Places |-> IF p \in victims THEN Nothing2 ELSE @[p]]]
(* tr_torrentDeleteLocalData *)
DeleteLocalData(w) == DeletedFiles(CloseAll(Flushed(w, TFiles)))

(* tr_moveFile, of each of S that is found and not there yet: on the same      *)
(* file system the descriptor goes along                                       *)
MoveFiles(w, S, dir, across) ==
    LET movers == {f \in S : ~Missing(w, f) /\ Found(w, f)[1] # dir}
        to(f) == <<dir, f, Found(w, f)[3]>>
    IN  [w EXCEPT !.disk = [p \in Places |-> IF p[2] \notin movers THEN @[p]
                                             ELSE IF p = to(p[2]) THEN @[Found(w, p[2])]
                                             ELSE IF p = Found(w, p[2]) THEN Nothing2 ELSE @[p]],
                  !.open = [f \in TFiles |-> IF f \notin movers \/ @[f] # Found(w, f) THEN @[f]
                                             ELSE IF across THEN Unlinked ELSE to(f)]]

(* setLocation: of the files before the one that fails all were moved; the   *)
(* others stay, and nothing else changes                                     *)
SetDownloadDir(w, dir) == Refreshed([w EXCEPT !.dirs.download = dir])
Settled(w) == [w EXCEPT !.dirs = [download |-> @.download, incomplete |-> "none", current |-> "download"]]
Relocated(w, dir, move, across, failsAt) ==
    LET moved == IF move THEN MoveFiles(w, {f \in TFiles : f < failsAt}, dir, across) ELSE w
        emptied == IF move THEN DeleteLocalData(moved) ELSE moved
        failed == move /\ \E f \in TFiles : f >= failsAt /\ ~Missing(w, f) /\ Found(w, f)[1] # dir
        done == IF dir = CurrentDir(w.dirs) THEN w ELSE SetDownloadDir(emptied, dir)
    IN  IF failed /\ dir # CurrentDir(w.dirs) THEN moved ELSE IF move THEN Settled(done) ELSE done
NoFailure == 1 + Cardinality(TFiles)

(***************************************************************************)
(* What happens                                                            *)
(***************************************************************************)
FilesInit ==
    /\ dirs \in {[download |-> "downloads", incomplete |-> "unfinished", current |-> "incomplete"],
                 [download |-> "downloads", incomplete |-> "none", current |-> "download"]}
    /\ disk2 = [p \in Places |-> Nothing2]
    /\ open2 = [f \in TFiles |-> Shut2]
    /\ cached = [f \in TFiles |-> {}] /\ had = [f \in TFiles |-> {}]
    /\ \E n \in {"name", "part"} :
         status2 = [completeness |-> "leech", wanted |-> TFiles, naming |-> n, asked |-> "none",
                    life |-> "here", reloaded |-> FALSE]
    /\ rash = FALSE /\ fileCalls = 0
Lives == status2.life = "here"

(* peerCallbackFunc, PEER_GOT_BLOCK: the piece is tested when it is complete *)
GotFileBlock(f, b) ==
    /\ Lives /\ f \in status2.wanted /\ b \notin had[f]
    /\ LET w == [State EXCEPT !.cached[f] = @ \cup {b}]
           whole == had[f] \cup {b} = TBlocks
           passes == Readable(w, f) = TBlocks
       IN  /\ Now(IF whole /\ passes THEN FileCompleted(Flushed(w, {f}), f) ELSE w)
           /\ had' = [had EXCEPT ![f] = IF whole /\ ~passes THEN {} ELSE @ \cup {b}]
    /\ UNCHANGED <<status2, rash, fileCalls>>

(* The save timer and tr_cacheTrim *)
FlushesFile(f) ==
    /\ Lives /\ cached[f] # {} /\ Now(Flushed(State, {f}))
    /\ UNCHANGED <<had, status2, rash, fileCalls>>
(* fdlimit.c takes the slot for another file *)
EvictsFile(f) ==
    /\ Lives /\ open2[f] # Shut2 /\ open2' = [open2 EXCEPT ![f] = Shut2]
    /\ UNCHANGED <<dirs, disk2, cached, had, status2, rash, fileCalls>>

(* tr_cpGetStatus *)
CompletenessNow ==
    IF \A f \in TFiles : had[f] = TBlocks THEN "seed"
    ELSE IF \A f \in status2.wanted : had[f] = TBlocks THEN "partial seed" ELSE "leech"

(* When a move, or a delete, leaves behind what only the cache or an unlinked *)
(* file has, or it is the files that stay and the directory that goes         *)
Loses(w, dir, move) ==
    IF ~move THEN \E f \in TFiles : had[f] # {}
    ELSE IF dir = CurrentDir(w.dirs) THEN w.dirs.current = "incomplete"
    ELSE \E f \in TFiles : w.cached[f] # {}

(* tr_torrentRecheckCompleteness, by a pulse, a start, or whoever asks for the *)
(* activity; the torrent that became a seed is moved to its place, by the       *)
(* event thread, at once if that is the caller                                  *)
Recheck ==
    LET now == CompletenessNow
    IN  /\ Lives /\ now # status2.completeness
        /\ status2' = [status2 EXCEPT !.completeness = now,
                          !.asked = IF now # "leech" /\ dirs.current = "incomplete" THEN dirs.download ELSE @]
        /\ Now(CloseAll(State))
        /\ UNCHANGED <<had, rash, fileCalls>>
MovesToPlace(across) ==
    /\ Lives /\ status2.asked # "none"
    /\ Now(Relocated(State, status2.asked, TRUE, across, NoFailure))
    /\ rash' = (rash \/ Loses(State, status2.asked, TRUE))
    /\ status2' = [status2 EXCEPT !.asked = "none"]
    /\ UNCHANGED <<had, fileCalls>>

(* tr_torrentSetLocation *)
SetLocation(dir, move, across, failsAt) ==
    /\ Lives /\ FileCall
    /\ Now(Relocated(State, dir, move, across, failsAt))
    /\ rash' = (rash \/ Loses(State, dir, move) \/ failsAt # NoFailure)
    /\ UNCHANGED <<had, status2>>
(* tr_torrentSetFileDLs *)
SetFileDL(f, wanted) ==
    /\ Lives /\ FileCall
    /\ status2' = [status2 EXCEPT !.wanted = IF wanted THEN @ \cup {f} ELSE @ \ {f}]
    /\ status2'.wanted # status2.wanted
    /\ UNCHANGED <<dirs, disk2, open2, cached, had, rash>>

(* The session is closed, and the torrent is loaded again (torrentInit): its   *)
(* completeness is what it is by then                                           *)
Reload ==
    /\ Lives /\ FileCall /\ status2.asked = "none"
    /\ Now(Refreshed(CloseAll(Flushed(State, TFiles))))
    /\ status2' = [status2 EXCEPT !.completeness = CompletenessNow,
                                  !.reloaded = @ \/ status2.completeness # CompletenessNow]
    /\ UNCHANGED <<had, rash>>
(* tr_torrentRemove; removeTorrent *)
RemoveFiles(delete) ==
    /\ Lives /\ status2.asked = "none"
    /\ Now(IF delete THEN DeleteLocalData(State) ELSE CloseAll(Flushed(State, TFiles)))
    /\ status2' = [status2 EXCEPT !.life = IF delete THEN "deleted" ELSE "removed"]
    /\ UNCHANGED <<had, rash, fileCalls>>

FilesNext ==
    \/ \E f \in TFiles :
         \/ \E b \in TBlocks : GotFileBlock(f, b)
         \/ FlushesFile(f)
         \/ EvictsFile(f)
         \/ \E wanted \in BOOLEAN : SetFileDL(f, wanted)
    \/ Recheck
    \/ \E across \in BOOLEAN : MovesToPlace(across)
    \/ \E dir \in Dirs, move, across \in BOOLEAN, failsAt \in TFiles \cup {NoFailure} :
         SetLocation(dir, move, across, failsAt)
    \/ Reload
    \/ \E delete \in BOOLEAN : RemoveFiles(delete)
FilesSpec == FilesInit /\ [][FilesNext]_filesVars

(***************************************************************************)
(* Properties                                                              *)
(***************************************************************************)
(* What the completion claims can be read: from the cache, or from the file   *)
(* that is found.  It is not so after a move that left blocks in the cache,    *)
(* named the incomplete directory, or failed (rash).                           *)
DataFindable ==
    \A f \in TFiles : had[f] \subseteq Readable(CloseAll(State), f)
FilesKept ==
    /\ ~rash /\ Lives => DataFindable
    /\ ~rash => \A f \in TFiles, d \in Dirs : ~(disk2[<<d, f, "name">>].there /\ disk2[<<d, f, "part">>].there)
    /\ ~rash /\ status2.life = "deleted" => \A p \in Places : ~disk2[p].there
(* A file that is complete has its name, and a torrent that became complete    *)
(* is in its download directory, if it was not loaded again in between         *)
CompletedInPlace ==
    ~rash /\ Lives =>
        /\ \A f \in TFiles : had[f] = TBlocks => Found(State, f)[3] = "name"
        /\ status2.completeness # "leech" /\ status2.asked = "none" /\ ~status2.reloaded =>
              dirs.current = "download" \/ dirs.incomplete = "none"

(* "set the new location and reverify" (torrent.c:2977) *)
LocationVerified == Lives => DataFindable
=============================================================================
