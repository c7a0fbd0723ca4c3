----------------------------- MODULE Extensions -----------------------------
(***************************************************************************)
(* The extension protocol of peer-msgs.c between a magnet torrent and the  *)
(* peers it is connected to: the LTEP handshake, metadata exchange         *)
(* (torrent-magnet.c) and peer exchange.  Each peer runs the same code and *)
(* has the metadata; a liar gives a wrong size or wrong data.              *)
(***************************************************************************)
EXTENDS Integers, FiniteSets, FiniteSetsExt, SequencesExt

CONSTANTS ExtPeers, Liars,
          MetaCount,      \* pieces of the real metadata
          WrongCounts,    \* sizes, in pieces, a liar may claim
          MetadataReqq,   \* METADATA_REQQ
          Addresses,      \* whom the torrent may be connected to
          MaxPex,         \* MAX_PEX_PEER_COUNT, MAX_PEX_ADDED, MAX_PEX_DROPPED
          MaxExtEvents, MagnetSpends   \* a magnet torrent has so many fewer
ASSUME ExtAssumption ==
    /\ Liars \subseteq ExtPeers
    /\ {MetaCount, MetadataReqq, MaxPex} \subseteq Nat \ {0}
    /\ WrongCounts \subseteq Nat \ {0} /\ IsFiniteSet(WrongCounts) /\ IsFiniteSet(Addresses)
    /\ {MaxExtEvents, MagnetSpends} \subseteq Nat

VARIABLES
    meta,       \* tr_incomplete_metadata, and what became of the torrent
    msgs,       \* msgs[p]: our tr_peermsgs for p, as far as extensions go
    askedMeta,  \* askedMeta[p]: p's peerAskedForMetadata, from us
    toPeer, toUs, \* the streams
    connected,  \* tr_peerMgrGetPeers (TR_PEERS_CONNECTED)
    told,       \* told[p]: the peers p has been told of and not told away
    allowsPex,  \* tr_torrentAllowsPex
    usable,     \* the info dictionary parses, and has a block size
    extEvents
extVars == <<meta, msgs, askedMeta, toPeer, toUs, connected, told, allowsPex, usable, extEvents>>

MaxCount == CHOOSE n \in WrongCounts \cup {MetaCount} : \A k \in WrongCounts \cup {MetaCount} : k <= n
MetaPiece == 1..MaxCount
Node == [piece : MetaPiece, recent : BOOLEAN]   \* metadata_node; asked for in the last 3 seconds
NewNodes(n) == [i \in 1..n |-> [piece |-> i, recent |-> FALSE]]
NoMeta == [count |-> 0, needed |-> <<>>, good |-> {}, bad |-> {}, has |-> FALSE, file |-> "magnet"]
AllMeta == [NoMeta EXCEPT !.has = TRUE, !.file = "torrent"]

(* sendLtepHandshake, by tr_peerMsgsNew: what each side says it can do *)
Hello2(p, count) == [type |-> "handshake", pex |-> allowsPex, count |-> count]
Hellos(p) == IF p \in Liars THEN WrongCounts \cup {MetaCount} ELSE {MetaCount}

ExtInit ==
    /\ allowsPex \in BOOLEAN /\ usable \in BOOLEAN
    /\ meta \in {NoMeta, AllMeta}
    /\ msgs = [p \in ExtPeers |-> [supportsPex |-> FALSE, supportsMeta |-> FALSE, pex |-> {}]]
    /\ askedMeta = [p \in ExtPeers |-> <<>>]
    /\ toPeer = [p \in ExtPeers |-> <<>>]
    /\ \E claim \in [ExtPeers -> WrongCounts \cup {MetaCount}] :
         /\ \A p \in ExtPeers : claim[p] \in Hellos(p)
         /\ toUs = [p \in ExtPeers |-> <<Hello2(p, claim[p])>>]
    /\ connected = {}
    /\ extEvents = IF meta.has THEN 0 ELSE MagnetSpends
    /\ told = [p \in ExtPeers |-> {}]

ExtEvent == extEvents < MaxExtEvents /\ extEvents' = extEvents + 1
Say(p, m) == toPeer' = [toPeer EXCEPT ![p] = Append(@, m)]
Answer(p, m) == toUs' = [toUs EXCEPT ![p] = Append(@, m)]

(***************************************************************************)
(* Peer exchange                                                           *)
(***************************************************************************)
(* The best of a set, up to n; which they are does not matter *)
Some(S, n) == {T \in SUBSET S : Cardinality(T) = IF Cardinality(S) < n THEN Cardinality(S) ELSE n}

(* Mutant: a peer that is gone is told away, but stays on our list *)
Diffs_Kept(old, new) ==
    {[added |-> a, dropped |-> d, elements |-> old \cup a] :
       a \in Some(new \ old, MaxPex), d \in Some(old \ new, MaxPex)}
(* tr_set_compare with pexAddedCb, pexDroppedCb and pexElementCb: what is  *)
(* new and what is gone; what is kept is what was told, and no more        *)
Diffs(old, new) ==
    {[added |-> a, dropped |-> d, elements |-> (old \cap new) \cup a] :
       a \in Some(new \ old, MaxPex), d \in Some(old \ new, MaxPex)}

(* sendPex, for a tr_peermsgs record m *)
SendPex(p, m) ==
    IF m.supportsPex /\ allowsPex
    THEN \E new \in Some(connected, MaxPex) : \E d \in Diffs(m.pex, new) :
           IF d.added \cup d.dropped = {}
           THEN msgs' = [msgs EXCEPT ![p] = m] /\ UNCHANGED toPeer
           ELSE /\ msgs' = [msgs EXCEPT ![p] = [m EXCEPT !.pex = d.elements]]
                /\ Say(p, [type |-> "pex", added |-> d.added, dropped |-> d.dropped])
    ELSE msgs' = [msgs EXCEPT ![p] = m] /\ UNCHANGED toPeer

PexPulse(p) ==
    /\ ExtEvent
    /\ SendPex(p, msgs[p])
    /\ toPeer' # toPeer
    /\ UNCHANGED <<meta, askedMeta, toUs, connected, told, allowsPex, usable>>

ConnectionsChange(S) ==
    /\ ExtEvent /\ S # connected
    /\ connected' = S
    /\ UNCHANGED <<meta, msgs, askedMeta, toPeer, toUs, told, allowsPex, usable>>

(***************************************************************************)
(* Metadata                                                                *)
(***************************************************************************)
(* tr_torrentSetMetadataSizeHint: the first to name a size decides *)
SizeHint(n) == IF meta.has \/ meta.count > 0 THEN meta
               ELSE [meta EXCEPT !.count = n, !.needed = NewNodes(n)]

(* parseLtepHandshake, and the answers parseLtep sends *)
GotHandshake(p, m) ==
    /\ meta' = SizeHint(m.count)
    /\ SendPex(p, [msgs[p] EXCEPT !.supportsPex = m.pex, !.supportsMeta = TRUE])

(* updateMetadataRequests, tr_torrentGetNextMetadataRequest: ask for the    *)
(* piece asked for least recently, and put it last                         *)
RequestMetadata(p) ==
    /\ msgs[p].supportsMeta
    /\ meta.needed # <<>> /\ ~Head(meta.needed).recent
    /\ meta' = [meta EXCEPT !.needed = Append(Tail(@), [Head(@) EXCEPT !.recent = TRUE])]
    /\ Say(p, [type |-> "request", piece |-> Head(meta.needed).piece])
    /\ UNCHANGED <<msgs, askedMeta, toUs, connected, told, allowsPex, usable, extEvents>>

(* MIN_REPEAT_INTERVAL_SECS pass *)
MetaTick ==
    /\ ExtEvent
    /\ \E i \in DOMAIN meta.needed : meta.needed[i].recent
    /\ meta' = [meta EXCEPT !.needed = [i \in DOMAIN @ |-> [@[i] EXCEPT !.recent = FALSE]]]
    /\ UNCHANGED <<msgs, askedMeta, toPeer, toUs, connected, told, allowsPex, usable>>

(* Mutant: the piece that completes nothing stays on the list of needed *)
Without_Nothing(needed, piece) == needed
Without(needed, piece) ==
    LET at == {i \in DOMAIN needed : needed[i].piece = piece}
    IN  IF at = {} THEN needed ELSE RemoveAt(needed, Min(at))

(* The last piece has come: the hash must match, the file of the magnet     *)
(* link must load, and the merged metainfo must parse.  On failure all is   *)
(* asked for again; the old file is gone by then if the hash was right.     *)
Completed(m) ==
    LET checksum == m.bad = {} /\ m.count = MetaCount
        merged == checksum /\ m.file = "magnet"
    IN  IF merged /\ usable THEN [m EXCEPT !.has = TRUE, !.file = "torrent"]
        ELSE [m EXCEPT !.needed = NewNodes(m.count), !.good = {}, !.bad = {},
                       !.file = IF merged THEN "none" ELSE @]

(* parseUtMetadata and tr_torrentSetMetadataPiece; the smell test and the   *)
(* list of needed pieces                                                   *)
GotMetadata(p, m) ==
    LET needed == Without(meta.needed, m.piece)
        wanted == ~meta.has /\ m.piece <= meta.count /\ \E i \in DOMAIN meta.needed : meta.needed[i].piece = m.piece
        stored == IF m.ok THEN [meta EXCEPT !.needed = needed, !.good = @ \cup {m.piece}]
                  ELSE [meta EXCEPT !.needed = needed, !.bad = @ \cup {m.piece}]
    IN  /\ meta' = IF ~wanted THEN meta ELSE IF needed = <<>> THEN Completed(stored) ELSE stored
        /\ UNCHANGED <<msgs, toPeer>>

(* parseLtep, for the next message of the stream *)
ExtReceive(p) ==
    LET m == Head(toUs[p])
    IN  /\ toUs[p] # <<>>
        /\ toUs' = [toUs EXCEPT ![p] = Tail(@)]
        /\ CASE m.type = "handshake" -> GotHandshake(p, m)
             [] m.type = "data"      -> GotMetadata(p, m)
             [] m.type = "reject"    -> UNCHANGED <<meta, msgs, toPeer>>
        /\ UNCHANGED <<askedMeta, connected, told, allowsPex, usable, extEvents>>

(* The peer's side: a request is queued or rejected at once, one piece is   *)
(* served each time the output buffer is filled; a pex message is believed  *)
Rejection(piece) == [type |-> "reject", piece |-> piece]
PeerReceive(p) ==
    LET m == Head(toPeer[p])
        room == Len(askedMeta[p]) < MetadataReqq
    IN  /\ toPeer[p] # <<>>
        /\ toPeer' = [toPeer EXCEPT ![p] = Tail(@)]
        /\ IF m.type = "request"
           THEN /\ askedMeta' = IF room THEN [askedMeta EXCEPT ![p] = Append(@, m.piece)] ELSE askedMeta
                /\ IF room THEN UNCHANGED toUs ELSE Answer(p, Rejection(m.piece))
                /\ UNCHANGED told
           ELSE /\ told' = [told EXCEPT ![p] = (@ \ m.dropped) \cup m.added]
                /\ UNCHANGED <<askedMeta, toUs>>
        /\ UNCHANGED <<meta, msgs, connected, allowsPex, usable, extEvents>>

PeerServe(p) ==
    LET piece == Head(askedMeta[p])
    IN  /\ askedMeta[p] # <<>>
        /\ askedMeta' = [askedMeta EXCEPT ![p] = Tail(@)]
        /\ \E ok \in IF p \in Liars THEN BOOLEAN ELSE {TRUE} :
             Answer(p, IF piece <= MetaCount \/ ~ok THEN [type |-> "data", piece |-> piece, ok |-> ok]
                       ELSE Rejection(piece))
        /\ UNCHANGED <<meta, msgs, toPeer, connected, told, allowsPex, usable, extEvents>>

ExtNext ==
    \/ \E p \in ExtPeers : PexPulse(p) \/ RequestMetadata(p) \/ ExtReceive(p) \/ PeerReceive(p) \/ PeerServe(p)
    \/ \E S \in SUBSET Addresses : ConnectionsChange(S)
    \/ MetaTick
ExtSpec == ExtInit /\ [][ExtNext]_extVars

(***************************************************************************)
(* Properties                                                              *)
(***************************************************************************)
NeededPieces == {meta.needed[i].piece : i \in DOMAIN meta.needed}
ExtTypeOK ==
    /\ meta.needed \in Seq(Node) /\ meta.count \in {0} \cup WrongCounts \cup {MetaCount}
    /\ meta.good \cup meta.bad \subseteq MetaPiece
    /\ meta.has \in BOOLEAN /\ meta.file \in {"magnet", "torrent", "none"}
    /\ \A p \in ExtPeers : msgs[p].pex \subseteq Addresses /\ Len(askedMeta[p]) <= MetadataReqq

(* The pieces of the metadata are each needed once or held, never both and  *)
(* never neither, through rotation by requests, answers of two peers and    *)
(* a failed attempt; the torrent gets its metadata only from right pieces   *)
(* (tr_torrentSetMetadataPiece, tr_torrentGetNextMetadataRequest)           *)
MetadataAccounted ==
    LET held == meta.good \cup meta.bad
    IN  /\ Len(meta.needed) = Cardinality(NeededPieces)
        /\ NeededPieces \cap held = {}
        /\ NeededPieces \cup held = 1..meta.count
        /\ meta.count > 0 => (meta.has <=> NeededPieces = {})
        /\ meta.has => meta.bad = {} /\ meta.file = "torrent"
        /\ meta.has /\ meta.count > 0 => meta.good = 1..MetaCount

(* What a peer knows when it has heard messages *)
Hears(S, m) == IF m.type = "pex" THEN (S \ m.dropped) \cup m.added ELSE S
Heard(S, s) ==
    LET f[k \in 0..Len(s)] == IF k = 0 THEN S ELSE Hears(f[k - 1], s[k])
    IN  f

(* What a peer was told, once it has read what is on the way, is what our   *)
(* tr_peermsgs remembers: nobody is forgotten and nobody told twice         *)
(* (sendPex, tr_set_compare)                                                *)
PexRemembered ==
    \A p \in ExtPeers :
        LET ms == toPeer[p]
        IN  /\ Heard(told[p], ms)[Len(ms)] = msgs[p].pex
            /\ \A i \in DOMAIN toPeer[p] : toPeer[p][i].type = "pex" =>
                  toPeer[p][i].added \cap toPeer[p][i].dropped = {}
=============================================================================
