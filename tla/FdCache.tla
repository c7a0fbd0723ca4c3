------------------------------- MODULE FdCache -------------------------------
(***************************************************************************)
(* fdlimit.c and its users in inout.c and net.c: the session's cache of     *)
(* open files, of which the least recently used makes room, and the count   *)
(* of the peers' sockets.  A file's descriptor is named by the file it is   *)
(* open on.                                                                 *)
(***************************************************************************)
EXTENDS Naturals, FiniteSetsExt

CONSTANTS FdTorrents, FdIndexes,  \* the files: an index in a torrent
          CacheSize,              \* FILE_CACHE_SIZE, 32 in the code
          Oversized,              \* files that are longer on disk than in the torrent
          PeerLimits,             \* values of session->peerLimit
          MaxFdSteps              \* accesses and socket calls
ASSUME FdAssumption == {CacheSize, MaxFdSteps} \subseteq Nat \ {0} /\ PeerLimits \subseteq Nat

Files == FdTorrents \X FdIndexes
Slots == 1..CacheSize
NoFile == <<>>

VARIABLES
    slot,      \* slot[s]: a tr_cached_file; "fd" is what is really open, "botched"
               \* if the open that left it there failed, "spoilt" if one ever did
    disk,      \* disk[f]: absent, right or large
    given,     \* the descriptor the last access used, and for which file
    sockets,   \* the peers' sockets: counted, owned by a tr_peerIo, forgotten
    fdSteps
fdVars == <<slot, disk, given, sockets, fdSteps>>

UnusedSlot == [fd |-> NoFile, label |-> NoFile, writable |-> FALSE, usedAt |-> 0,
               botched |-> FALSE, spoilt |-> FALSE]
(* ensureSessionFdInfoExists: the limit of the system is above the peers' *)
NoSockets(limit) == [limit |-> limit, count |-> 0, owned |-> 0, lost |-> 0]
FdInit ==
    /\ slot = [s \in Slots |-> UnusedSlot]
    /\ disk \in [Files -> {"absent", "right", "large"}] /\ {f \in Files : disk[f] = "large"} = Oversized
    /\ given = [for |-> NoFile, fd |-> NoFile, write |-> FALSE, writable |-> FALSE, botched |-> FALSE]
    /\ \E l \in PeerLimits : sockets = NoSockets(l)
    /\ fdSteps = 0
Step == fdSteps < MaxFdSteps /\ fdSteps' = fdSteps + 1

IsOpen(s) == slot[s].fd # NoFile
(* cached_file_close *)
Shut(o) == [o EXCEPT !.fd = NoFile, !.botched = FALSE]

(* fileset_lookup: the first slot that has the file's label and is open *)
Labelled(f) == {s \in Slots : IsOpen(s) /\ slot[s].label = f}
Lookup(f) == {s \in Labelled(f) : \A x \in Labelled(f) : s <= x}

(* Mutant: the slot that is recycled is not closed *)
EmptySlot_Open(s) == [slot[s] EXCEPT !.botched = FALSE]
(* fileset_get_empty_slot: an unused slot, or the least recently used one *)
EmptySlot(s) == Shut(slot[s])
Oldest == LET unused == {s \in Slots : ~IsOpen(s)}
              least == {s \in Slots : \A x \in Slots : slot[s].usedAt <= slot[x].usedAt}
          IN  Min(IF unused # {} THEN unused ELSE least)

Uses(s, o, f, write) ==
    /\ slot' = [slot EXCEPT ![s] = [o EXCEPT !.usedAt = fdSteps + 1]]
    /\ given' = [for |-> f, fd |-> o.fd, write |-> write, writable |-> o.writable, botched |-> o.botched]

(* cached_file_open: the open may fail, and the truncation of a file that   *)
(* is too large does when the file is opened to be read.  Then the          *)
(* descriptor stays in the slot, under the slot's old label.                *)
CachedFileOpen(s, o, f, write) ==
    LET label(x) == [x EXCEPT !.label = f, !.writable = write]
        grown == [disk EXCEPT ![f] = "right"]
    IN  \/ slot' = [slot EXCEPT ![s] = o] /\ UNCHANGED <<disk, given>>
        \/ /\ disk[f] = "large" /\ ~write
           /\ slot' = [slot EXCEPT ![s] = [o EXCEPT !.fd = f, !.botched = TRUE, !.spoilt = TRUE]]
           /\ UNCHANGED <<disk, given>>
        \/ /\ disk[f] = "right" \/ write
           /\ Uses(s, label([o EXCEPT !.fd = f]), f, write) /\ disk' = grown

(* tr_fdFileCheckout *)
FileCheckout(f, write) ==
    \/ \E s \in Lookup(f) :
         IF write /\ ~slot[s].writable THEN CachedFileOpen(s, Shut(slot[s]), f, write)
         ELSE Uses(s, slot[s], f, write) /\ UNCHANGED disk
    \/ /\ Lookup(f) = {}
       /\ LET o == EmptySlot(Oldest)
          IN  IF o.fd = NoFile THEN CachedFileOpen(Oldest, o, f, write)
              ELSE Uses(Oldest, [o EXCEPT !.label = f], f, write) /\ UNCHANGED disk

(* readOrWriteBytes, and tr_fdFileGetCached in it *)
Access(f, write) ==
    LET cached == {s \in Lookup(f) : write => slot[s].writable}
    IN  /\ Step
        /\ \/ \E s \in cached : Uses(s, slot[s], f, write) /\ UNCHANGED disk
           \/ cached = {} /\ (disk[f] # "absent" \/ write) /\ FileCheckout(f, write)
        /\ UNCHANGED sockets

(* tr_fdFileClose, before a file is renamed; and tr_fdTorrentClose, when a   *)
(* torrent stops, moves or becomes complete                                  *)
FileClose(f) ==
    /\ Step /\ Lookup(f) # {}
    /\ slot' = [s \in Slots |-> IF s \in Lookup(f) THEN Shut(slot[s]) ELSE slot[s]]
    /\ UNCHANGED <<disk, given, sockets>>
TorrentClose(t) ==
    /\ Step
    /\ slot' = [s \in Slots |-> IF slot[s].label # NoFile /\ slot[s].label[1] = t /\ IsOpen(s) THEN Shut(slot[s]) ELSE slot[s]]
    /\ slot' # slot
    /\ UNCHANGED <<disk, given, sockets>>

(***************************************************************************)
(* Sockets                                                                 *)
(***************************************************************************)
(* Mutant: no socket is counted twice, but one that fails stays counted *)
SocketClose_Kept(k) == [k EXCEPT !.owned = @ - 1]
(* tr_fdSocketClose, by tr_netClose *)
SocketClose(k) == [k EXCEPT !.count = @ - 1, !.owned = @ - 1]
Counted(k) == [k EXCEPT !.count = @ + 1, !.owned = @ + 1]

(* tr_netOpenPeerSocket with tr_fdSocketCreate: when the source address      *)
(* cannot be bound, the caller gets an error and nobody the socket           *)
OpenPeerSocket(outcome) ==
    /\ Step /\ sockets.count < sockets.limit
    /\ sockets' = CASE outcome = "ok" -> Counted(sockets)
                    [] outcome = "no connection" -> SocketClose(Counted(sockets))
                    [] outcome = "no source" -> [sockets EXCEPT !.count = @ + 1, !.lost = @ + 1]
    /\ UNCHANGED <<slot, disk, given>>
(* tr_netAccept with tr_fdSocketAccept; one too many is closed uncounted *)
NetAccept ==
    /\ Step /\ sockets.count < sockets.limit
    /\ sockets' \in {Counted(sockets), SocketClose(Counted(sockets))}
    /\ UNCHANGED <<slot, disk, given>>
(* tr_netClose of a connection *)
NetClose ==
    /\ Step /\ sockets.owned > 0 /\ sockets' = SocketClose(sockets)
    /\ UNCHANGED <<slot, disk, given>>
(* tr_sessionSetPeerLimit *)
SetPeerLimit(l) ==
    /\ Step /\ sockets.limit # l /\ sockets' = [sockets EXCEPT !.limit = l]
    /\ UNCHANGED <<slot, disk, given>>

FdNext ==
    \/ \E f \in Files, write \in BOOLEAN : Access(f, write)
    \/ \E f \in Files : FileClose(f)
    \/ \E t \in FdTorrents : TorrentClose(t)
    \/ \E o \in {"ok", "no connection", "no source"} : OpenPeerSocket(o)
    \/ NetAccept
    \/ NetClose
    \/ \E l \in PeerLimits : SetPeerLimit(l)
FdSpec == FdInit /\ [][FdNext]_fdVars

(***************************************************************************)
(* Properties                                                              *)
(***************************************************************************)
(* A descriptor that is used for a file is open on that file, and for        *)
(* writing if it is written to - but for a descriptor that an open which     *)
(* failed half-way left behind.  A file is open in two slots under its name   *)
(* only if such opens had come to both of them; and every socket that counts *)
(* is somebody's or was forgotten.                                           *)
FdSound ==
    /\ given.fd # given.for => given.botched
    /\ given.write => given.writable
    /\ \A s \in Slots : IsOpen(s) /\ slot[s].fd # slot[s].label => slot[s].botched
    /\ \A f \in Files : \A s, x \in Labelled(f) :
          s # x /\ ~slot[s].botched /\ ~slot[x].botched => slot[s].spoilt /\ slot[x].spoilt
    /\ sockets.count = sockets.owned + sockets.lost

(* "Returns an fd to the specified filename." (fdlimit.h:46) *)
FdIsTheFiles == given.fd = given.for
=============================================================================
