------------------------------ MODULE MCSession ------------------------------
(***************************************************************************)
(* Small instances of what the session does with its torrents and settings:  *)
(* the queue, the speed limits, the files, seeding, bitfields, pieces, remote *)
(* control and the blocklists.  Each behaviour exercises one of them.         *)
(***************************************************************************)
EXTENDS TorrentQueue, SpeedSchedule, TorrentFiles, Seeding, Bitfield, Pieces, Rpc, Blocklist

VARIABLE part
PartsAlike == Permutations(QTorrents) \cup Permutations(TBlocks)
SomeLayouts == {[files |-> <<1, 0, 3, 2>>, piece |-> 4], [files |-> <<3, 5, 0>>, piece |-> 4],
                [files |-> <<0, 2, 0, 0, 1>>, piece |-> 2]}
SomeRanges == {<<0, 0>>, <<1, 3>>, <<2, 2>>, <<0, 2>>, <<3, 1>>}

SessionInit ==
    /\ part \in {"queue", "speed", "files", "seeding", "bits", "pieces", "rpc", "lists"}
    /\ IF part = "queue" THEN QueueInit
       ELSE position = <<>> /\ doing = <<>> /\ aspect = <<>> /\ slots = <<>> /\ pulse2 = <<>> /\ qCalls = 0
    /\ IF part = "speed" THEN SchedInit
       ELSE /\ turtle = <<>> /\ minute = 0 /\ limits = <<>> /\ bandwidth = <<>>
            /\ flags = <<>> /\ posted = <<>> /\ settings = 0
    /\ IF part = "files" THEN FilesInit
       ELSE /\ dirs = <<>> /\ disk2 = <<>> /\ open2 = <<>> /\ cached = <<>>
            /\ had = <<>> /\ status2 = <<>> /\ rash = FALSE /\ fileCalls = 0
    /\ IF part = "seeding" THEN SeedingInit
       ELSE tor = <<>> /\ limit = <<>> /\ bytes = <<>> /\ posted2 = <<>> /\ wish = <<>> /\ seedCalls = 0
    /\ IF part = "bits" THEN BitfieldInit ELSE field = <<>> /\ truth = {} /\ fieldCalls = 0
    /\ IF part = "pieces" THEN PiecesInit
       ELSE info = <<>> /\ dnd = <<>> /\ priority = <<>> /\ cp = <<>> /\ pieceCalls = 0
    /\ IF part = "rpc" THEN RpcInit
       ELSE /\ rpc = <<>> /\ rpcPosted = <<>> /\ http = <<>> /\ controlled = <<>> /\ removed = {}
            /\ view = <<>> /\ lastSet = <<>> /\ rpcClock = 0 /\ rpcCalls = 0
    /\ IF part = "lists" THEN BlocklistInit
       ELSE /\ lists = <<>> /\ binary = <<>> /\ texts = <<>> /\ listsOn = FALSE
            /\ verdict = <<>> /\ meant = <<>> /\ settled = TRUE /\ listCalls = 0

sessionVars == <<part, queueVars, schedVars, filesVars, seedVars, fieldVars, pieceVars, rpcVars, listVars>>
QueuePart    == part = "queue"   /\ QueueNext
SpeedPart    == part = "speed"   /\ SchedNext
FilesPart    == part = "files"   /\ FilesNext
SeedingPart  == part = "seeding" /\ SeedingNext
BitsPart     == part = "bits"    /\ BitfieldNext
PiecesPart   == part = "pieces"  /\ PiecesNext
RpcPart      == part = "rpc"     /\ RpcNext
ListsPart    == part = "lists"   /\ BlocklistNext
SessionNext ==
    /\ UNCHANGED part
    /\ \/ QueuePart   /\ UNCHANGED <<schedVars, filesVars, seedVars, fieldVars, pieceVars, rpcVars, listVars>>
       \/ SpeedPart   /\ UNCHANGED <<queueVars, filesVars, seedVars, fieldVars, pieceVars, rpcVars, listVars>>
       \/ FilesPart   /\ UNCHANGED <<queueVars, schedVars, seedVars, fieldVars, pieceVars, rpcVars, listVars>>
       \/ SeedingPart /\ UNCHANGED <<queueVars, schedVars, filesVars, fieldVars, pieceVars, rpcVars, listVars>>
       \/ BitsPart    /\ UNCHANGED <<queueVars, schedVars, filesVars, seedVars, pieceVars, rpcVars, listVars>>
       \/ PiecesPart  /\ UNCHANGED <<queueVars, schedVars, filesVars, seedVars, fieldVars, rpcVars, listVars>>
       \/ RpcPart     /\ UNCHANGED <<queueVars, schedVars, filesVars, seedVars, fieldVars, pieceVars, listVars>>
       \/ ListsPart   /\ UNCHANGED <<queueVars, schedVars, filesVars, seedVars, fieldVars, pieceVars, rpcVars>>
SessionSpec == SessionInit /\ [][SessionNext]_sessionVars

(* The queue has no gaps and no ties, and a pulse starts who is next          *)
(* (tr_torrentSetQueuePosition, queuePulse)                                   *)
QueueInOrder == part = "queue" => QueueSequenced /\ PulseInOrder

(* The speed limits are those of the schedule, and settings end as asked      *)
(* (turtleCheckClock, toggle_pex and the like)                                *)
ScheduleKept == part = "speed" => ScheduleObeyed /\ TogglesSettle

(* What is claimed is found where the files are (tr_torrentFindFile2,         *)
(* setLocation, tr_torrentFileCompleted)                                      *)
FilesInPlace == part = "files" => FilesKept /\ CompletedInPlace

(* Torrents stop at their limits and for nothing else (tr_torrentCheckSeedLimit) *)
SeedingStops == part = "seeding" => SeedingSound

(* A bitfield is the set it stands for (bitfield.c)                           *)
FieldsAreSets == part = "bits" => FieldIsSet

(* What is wanted and what is there agree with the bytes (completion.c,       *)
(* setFileDND, tr_torrentInitFilePriority)                                    *)
PiecesCounted == part = "pieces" => PiecesSound

(* Requests are answered once and truly (rpc-server.c, rpcimpl.c)             *)
RpcAnswers == part = "rpc" => RpcSound

(* An address is blocked if a list was asked to hold it (blocklist.c)         *)
BlocklistKept == part = "lists" => BlocklistSound
=============================================================================
