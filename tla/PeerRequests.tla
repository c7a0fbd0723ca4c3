---------------------------- MODULE PeerRequests ----------------------------
(***************************************************************************)
(* Which peer is asked for which block (peer-mgr.c).  A torrent keeps the  *)
(* requests it has made, sorted by block and peer; the list of the pieces  *)
(* it wants, each with the number of its requests, kept in order of        *)
(* weight; and the number of peers that have each piece (replication).     *)
(* Peers are numbered in the order of their addresses in memory.  A web    *)
(* seed is a peer with no peer_msgs, which goes on fetching blocks whose   *)
(* requests were removed.                                                  *)
(*                                                                         *)
(* Random salts are fixed (a piece's number) and binary searches find the  *)
(* first place that is not smaller.  A request is new, or older than       *)
(* REQUEST_TTL_SECS.                                                       *)
(***************************************************************************)
EXTENDS Integers, FiniteSets, Sequences, SequencesExt, FiniteSetsExt

CONSTANTS NumPieces, PieceBlocks,    \* pieces, and the blocks of all but the last
          LastBlocks,                \* blocks of the last piece
          HighPieces,                \* pieces of files with a high priority
          BtPeers, Webseeds,         \* numbers of peers
          Desired,                   \* desiredRequestCount of a peer
          MaxReqEvents               \* bound: events of peers and of the user

Pieces == 1..NumPieces
Blocks == 1..((NumPieces - 1) * PieceBlocks + LastBlocks)
AllPeers == BtPeers \cup Webseeds

ASSUME RequestsAssumption ==
    /\ NumPieces \in Nat \ {0} /\ PieceBlocks \in Nat \ {0} /\ LastBlocks \in 1..PieceBlocks
    /\ HighPieces \subseteq Pieces
    /\ AllPeers \subseteq Nat /\ BtPeers \cap Webseeds = {} /\ IsFiniteSet(AllPeers)
    /\ Desired \in Nat \ {0} /\ MaxReqEvents \in Nat

VARIABLES torrent,   \* the Torrent, with its peers' have and pendingReqsToPeer,
                     \* the torrent's finished blocks and its wanted pieces
          fetching,  \* the blocks a web seed's tasks have still to deliver
          choked,    \* peers that choke us
          aged,      \* requests older than the TTL
          running, reqEvents

reqVars == <<torrent, fetching, choked, aged, running, reqEvents>>

-----------------------------------------------------------------------------
(* Blocks, pieces and the order of pieces.                                 *)

PieceOf(b) == ((b - 1) \div PieceBlocks) + 1
BlocksOf(p) == {b \in Blocks : PieceOf(b) = p}
Missing(t, p) == Cardinality(BlocksOf(p) \ t.done)
IsSeed(t) == \A p \in t.wanted : Missing(t, p) = 0
LeftBlocks(t) == Cardinality({b \in Blocks \ t.done : PieceOf(b) \in t.wanted})

Asked(t, b) == {r.peer : r \in {x \in t.requests : x.block = b}}

\* Mutant: the counts start at zero.
WithReplication_Zero(t) ==
    IF t.rep # <<>> THEN t ELSE [t EXCEPT !.rep = [p \in Pieces |-> 0]]

\* replicationNew: every connected peer's bits are counted.
WithReplication(t) ==
    IF t.rep # <<>> THEN t
    ELSE [t EXCEPT !.rep = [p \in Pieces |-> Cardinality({q \in t.peers : p \in t.have[q]})]]

\* The primary key of comparePieceByWeight.
Weight(t, x) ==
    IF Missing(t, x.index) > x.count THEN Missing(t, x.index) - x.count
    ELSE PieceBlocks + x.count

\* comparePieceByWeight: weight, priority, rarity, salt.
Before(t, x, y) ==
    LET Key(z) == <<Weight(t, z), IF z.index \in HighPieces THEN 0 ELSE 1, t.rep[z.index], z.index>>
    IN  \E k \in 1..4 : /\ Key(x)[k] < Key(y)[k]
                        /\ \A j \in 1..(k - 1) : Key(x)[j] = Key(y)[j]

\* What is on the list, and a list of what is in S, sorted: each has as many before
\* it as its place tells.
OnList(t) == {t.pieces[i] : i \in DOMAIN t.pieces}
ByWeight(t, S) ==
    [i \in 1..Cardinality(S) |-> CHOOSE x \in S : Cardinality({y \in S : Before(t, y, x)}) = i - 1]
SortByWeight(t) ==
    LET u == WithReplication(t)
    IN  [u EXCEPT !.pieces = ByWeight(u, OnList(u)), !.state = "weight"]

\* A piece goes in front of the first one that is not before it.
Place(t, s, x) ==
    LET k == CHOOSE i \in 1..(Len(s) + 1) :
                /\ \A j \in 1..(i - 1) : Before(t, s[j], x)
                /\ i <= Len(s) => ~Before(t, s[i], x)
    IN  InsertAt(s, k, x)

Position(t, p) == {i \in DOMAIN t.pieces : t.pieces[i].index = p}

\* pieceListResortPiece.
Resort(t, p) ==
    IF Position(t, p) = {} THEN t
    ELSE LET u == WithReplication(t)
             i == Min(Position(t, p))
             x == t.pieces[i]
             inPlace == /\ i > 1 => ~Before(u, x, u.pieces[i - 1])
                        /\ i < Len(u.pieces) => ~Before(u, u.pieces[i + 1], x)
         IN  IF u.state # "weight" THEN SortByWeight(u)
             ELSE IF inPlace THEN u
             ELSE [u EXCEPT !.pieces = Place(u, RemoveAt(u.pieces, i), x)]

\* pieceListRebuild: pieces of the old list keep their counts.
Rebuild(t) ==
    IF IsSeed(t) THEN t
    ELSE LET u == WithReplication(t)
             Old(p) == IF Position(t, p) = {} THEN [index |-> p, count |-> 0]
                       ELSE t.pieces[Min(Position(t, p))]
             new == {Old(p) : p \in {x \in t.wanted : Missing(t, x) > 0}}
         IN  [u EXCEPT !.pieces = ByWeight(u, new), !.state = "weight"]

\* pieceListRemovePiece.
RemovePiece(t, p) ==
    IF Position(t, p) = {} THEN t ELSE [t EXCEPT !.pieces = RemoveAt(@, Min(Position(t, p)))]

-----------------------------------------------------------------------------
(* Adding and removing requests.                                           *)

\* requestListAdd, and the piece's count.
OneMore(x, b) == IF x.index = PieceOf(b) THEN [x EXCEPT !.count = @ + 1] ELSE x
AddRequest(t, b, q) ==
    [t EXCEPT !.requests = @ \cup {[block |-> b, peer |-> q]},
              !.pending[q] = @ + 1,
              !.pieces = [i \in DOMAIN t.pieces |-> OneMore(t.pieces[i], b)]]

\* decrementPendingReqCount.
Settle(t, q) == [t EXCEPT !.pending[q] = IF @ > 0 THEN @ - 1 ELSE @]

\* requestListRemove.
ListRemove(t, b, q) ==
    IF q \notin Asked(t, b) THEN t
    ELSE [Settle(t, q) EXCEPT !.requests = @ \ {[block |-> b, peer |-> q]}]

\* Mutant: the count is not tested.
PieceRemoveRequest_Untested(t, b) ==
    LET i == Position(t, PieceOf(b))
    IN  IF i = {} THEN t
        ELSE Resort([t EXCEPT !.pieces[Min(i)].count = @ - 1], PieceOf(b))

\* pieceListRemoveRequest.
PieceRemoveRequest(t, b) ==
    LET i == Position(t, PieceOf(b))
    IN  IF i = {} \/ \E j \in i : t.pieces[j].count = 0 THEN t
        ELSE Resort([t EXCEPT !.pieces[Min(i)].count = @ - 1], PieceOf(b))

\* Mutant: the piece's count is left alone.
RemoveFromTables_ListOnly(t, b, q) == ListRemove(t, b, q)

\* removeRequestFromTables.
RemoveFromTables(t, b, q) == PieceRemoveRequest(ListRemove(t, b, q), b)

\* The first request of S in the order of the array, by block and then by peer; and
\* pieceListRemoveRequest for one after the other.
FirstOf(S) == CHOOSE x \in S : \A y \in S : x.block < y.block \/ (x.block = y.block /\ x.peer <= y.peer)
Relief(t, S) ==
    LET f[k \in 0..Cardinality(S)] ==
          IF k = 0 THEN [t |-> t, left |-> S]
          ELSE LET done == f[k - 1]
                   r == FirstOf(done.left)
               IN  [t |-> PieceRemoveRequest(done.t, r.block), left |-> done.left \ {r}]
    IN  f

\* The requests S leave all three records: refillUpkeep's cancels, which leave the list
\* first, and loops of removeRequestFromTables, whose parts do not see each other.
Cancelled(t, S) ==
    LET Of(q) == Cardinality({r \in S : r.peer = q})
        u == [t EXCEPT !.requests = @ \ S,
                       !.pending = [q \in AllPeers |-> IF @[q] > Of(q) THEN @[q] - Of(q) ELSE 0]]
    IN  Relief(u, S)[Cardinality(S)].t

\* peerDeclinedAllRequests.
DeclinedAll(t, q) == Cancelled(t, {r \in t.requests : r.peer = q})

\* updateEndgame: in endgame once what was requested covers what is left.
UpdateEndgame(t, activeSeeds) ==
    LET n == Cardinality(t.requests)
        busy == Cardinality({q \in t.peers : t.pending[q] > 0}) + activeSeeds
    IN  IF n < LeftBlocks(t) THEN [t EXCEPT !.endgame = 0]
        ELSE IF t.endgame # 0 THEN t
        ELSE [t EXCEPT !.endgame = n \div (IF busy > 0 THEN busy ELSE 1)]

\* Mutant: blocks may be asked of any number of peers.
MayAsk_Anyone(t, b, q, n) == q \notin Asked(t, b)

\* May block b be asked of q too, with n requests still wanted?
MayAsk(t, b, q, n) ==
    \/ Asked(t, b) = {}
    \/ /\ t.endgame # 0
       /\ Cardinality(Asked(t, b)) = 1
       /\ q \notin Asked(t, b)
       /\ t.pending[q] + n >= t.endgame

\* One block of tr_peerMgrGetNextRequests' loop; a is its progress, whose interval
\* may grow past want when blocks are asked in intervals.
Consider(a, b, q, want, intervals) ==
    LET grows == intervals /\ a.got > 0 /\ a.last = b - 1 /\ PieceOf(b - 1) = PieceOf(b)
    IN  IF \/ b \notin Blocks
           \/ a.got >= want /\ ~grows
           \/ PieceOf(b) \notin a.t.have[q] \/ b \in a.t.done
           \/ ~MayAsk(a.t, b, q, want - a.got)
        THEN a
        ELSE [t |-> AddRequest(a.t, b, q), asked |-> a.asked \cup {b}, last |-> b,
              seen |-> PieceOf(b), got |-> IF grows THEN a.got ELSE a.got + 1]

\* The insertion sort that follows: the pieces in front are put in their places, the
\* last of them first.
Insertions(t, front) ==
    LET f[k \in 0..front] ==
          IF k = 0 THEN t
          ELSE LET u == f[k - 1]
                   i == front + 1 - k
               IN  [u EXCEPT !.pieces = SubSeq(@, 1, i - 1) \o Place(u, SubSeq(@, i + 1, Len(@)), @[i])]
    IN  f
Reinsert(t, front) == Insertions(t, front)[front]

\* tr_peerMgrGetNextRequests' loop over the pieces' blocks, in the order of the list.
Asking(u, q, want, intervals) ==
    LET BlockAt(k) == (u.pieces[(k \div PieceBlocks) + 1].index - 1) * PieceBlocks + (k % PieceBlocks) + 1
        f[k \in 0..(Len(u.pieces) * PieceBlocks)] ==
          IF k = 0 THEN [t |-> u, asked |-> {}, last |-> 0, seen |-> 0, got |-> 0]
          ELSE Consider(f[k - 1], BlockAt(k - 1), q, want, intervals)
    IN  f

\* tr_peerMgrGetNextRequests: [t, asked].
NextRequests(t, q, want, intervals, activeSeeds) ==
    LET s == IF t.pieces = <<>> THEN Rebuild(t) ELSE t
        u == UpdateEndgame(IF s.state # "weight" THEN SortByWeight(s) ELSE s, activeSeeds)
        end == Asking(u, q, want, intervals)[Len(u.pieces) * PieceBlocks]
        \* The loop stops behind the piece that filled the request, else at the end.
        front == IF end.got >= want THEN Min(Position(u, end.seen) \cup {Len(u.pieces)})
                 ELSE Len(u.pieces) - 1
    IN  [t |-> IF end.got = 0 THEN u ELSE Reinsert(WithReplication(end.t), front), asked |-> end.asked]

-----------------------------------------------------------------------------
(* Events of peers (peerCallbackFunc) and of peer_msgs.                    *)

Event == reqEvents < MaxReqEvents /\ reqEvents' = reqEvents + 1
Others == <<fetching, choked, running>>

\* A handshake is done: getPeer, and a new tr_peermsgs.
Connect(q) ==
    /\ running /\ q \in BtPeers \ torrent.peers
    /\ torrent' = [torrent EXCEPT !.peers = @ \cup {q}]
    /\ choked' = choked \cup {q}
    /\ UNCHANGED <<fetching, aged, running, reqEvents>>

\* BT_HAVE: only a piece that is new counts.
GotHave(q, p) ==
    /\ Event /\ q \in torrent.peers /\ p \notin torrent.have[q]
    /\ LET t == [torrent EXCEPT !.have[q] = @ \cup {p}]
           u == IF t.rep = <<>> THEN t ELSE [t EXCEPT !.rep[p] = @ + 1]
       IN  torrent' = IF t.rep # <<>> /\ t.state = "weight" THEN Resort(u, p) ELSE u
    /\ UNCHANGED <<fetching, choked, aged, running>>

\* tr_incrReplicationFromBitfield, tr_decrReplicationFromBitfield.
Recount(t, S, by) ==
    IF t.rep = <<>> THEN t
    ELSE [t EXCEPT !.rep = [p \in Pieces |-> @[p] + IF p \in S THEN by ELSE 0],
                   !.state = IF @ = "weight" /\ S # Pieces /\ S # {} THEN "unsorted" ELSE @]

\* BT_BITFIELD, HAVE_ALL and HAVE_NONE.
GotBitfield(q, S) ==
    /\ Event /\ q \in torrent.peers
    /\ torrent' = Recount([torrent EXCEPT !.have[q] = S], S, 1)
    /\ UNCHANGED <<fetching, choked, aged, running>>

GotUnchoke(q) ==
    /\ q \in choked /\ choked' = choked \ {q}
    /\ UNCHANGED <<torrent, fetching, aged, running, reqEvents>>

\* BT_CHOKE: without the fast extension its requests are gone.
GotChoke(q) ==
    /\ Event /\ q \in torrent.peers \ choked /\ choked' = choked \cup {q}
    /\ \E fext \in BOOLEAN : torrent' = IF fext THEN torrent ELSE DeclinedAll(torrent, q)
    /\ aged' = aged \cap torrent'.requests
    /\ UNCHANGED <<fetching, running>>

\* BT_FEXT_REJECT, of a block that was requested or not.
GotReject(q, b) ==
    /\ Event /\ q \in torrent.peers
    /\ torrent' = RemoveFromTables(torrent, b, q)
    /\ aged' = aged \cap torrent'.requests
    /\ UNCHANGED Others

\* TR_PEER_CLIENT_GOT_BLOCK: ok tells whether a piece it completes is good.
Received(t, b, q, ok) ==
    LET p == PieceOf(b)
        one == RemoveFromTables(t, b, q)
        all == Cancelled(one, {r \in one.requests : r.block = b})
        add == Resort([all EXCEPT !.done = @ \cup {b}], p)
    IN  IF b \in t.done THEN all
        ELSE IF Missing(add, p) > 0 THEN add
        ELSE IF ok THEN RemovePiece(add, p)
        ELSE [add EXCEPT !.done = @ \ BlocksOf(p)]

\* A block of a peer is taken only if it was requested of it (clientGotBlock).
GotBlock(q, b) ==
    /\ q \in torrent.peers /\ q \in Asked(torrent, b) /\ Missing(torrent, PieceOf(b)) > 0
    /\ \/ torrent' = Received(torrent, b, q, TRUE) /\ UNCHANGED reqEvents
       \/ Event /\ torrent' = Received(torrent, b, q, FALSE)
    /\ aged' = aged \cap torrent'.requests
    /\ UNCHANGED Others

\* A web seed's task delivers its next block or gives up (webseed.c).
WebseedGot(q, b) ==
    /\ b \in fetching[q] /\ fetching' = [fetching EXCEPT ![q] = @ \ {b}]
    /\ \/ torrent' = Received(torrent, b, q, TRUE) /\ UNCHANGED reqEvents
       \/ Event /\ torrent' = RemoveFromTables(torrent, b, q)
    /\ aged' = aged \cap torrent'.requests
    /\ UNCHANGED <<choked, running>>

ActiveSeeds == Cardinality({w \in Webseeds : fetching[w] # {}})

\* updateBlockRequests, from a peer's pulse.
Pulse(q) ==
    /\ running /\ q \in torrent.peers \ choked /\ ~IsSeed(torrent)
    /\ 100 * torrent.pending[q] <= 66 * Desired
    /\ torrent' = NextRequests(torrent, q, Desired - torrent.pending[q], FALSE, ActiveSeeds).t
    /\ UNCHANGED <<aged, reqEvents>> /\ UNCHANGED Others

\* on_idle of a web seed, which has every piece.
WebseedIdle(q) ==
    /\ running /\ q \in Webseeds /\ fetching[q] = {} /\ ~IsSeed(torrent)
    /\ LET r == NextRequests(torrent, q, Desired, TRUE, ActiveSeeds)
       IN  torrent' = r.t /\ fetching' = [fetching EXCEPT ![q] = @ \cup r.asked]
    /\ UNCHANGED <<choked, aged, running, reqEvents>>

\* Two minutes pass.
Age == /\ aged' = torrent.requests
       /\ UNCHANGED <<torrent, reqEvents>> /\ UNCHANGED Others

\* refillUpkeep: old requests are cancelled, but those of web seeds and those being
\* read; reading says which block each peer is in the middle of.
Upkeep ==
    /\ aged # {}
    /\ \E reading \in [BtPeers -> {0} \cup {r.block : r \in aged}] :
         LET cancel == {r \in aged : r.peer \in BtPeers /\ reading[r.peer] # r.block}
         IN  /\ torrent' = Cancelled(torrent, cancel)
             /\ aged' = aged \ cancel
    /\ UNCHANGED reqEvents /\ UNCHANGED Others

\* closePeer and removePeer.
Close(q) ==
    /\ Event /\ q \in torrent.peers
    /\ LET t == Recount([torrent EXCEPT !.peers = @ \ {q}], torrent.have[q], -1)
       IN  torrent' = [DeclinedAll(t, q) EXCEPT !.have[q] = {}, !.pending[q] = 0]
    /\ aged' = aged \cap torrent'.requests
    /\ choked' = choked \ {q}
    /\ UNCHANGED <<fetching, running>>

-----------------------------------------------------------------------------
(* Operations on the torrent.                                              *)

\* tr_peerMgrStartTorrent.
StartTorrent ==
    /\ ~running /\ running' = TRUE
    /\ torrent' = [torrent EXCEPT !.state = "unsorted"]
    /\ UNCHANGED <<fetching, choked, aged, reqEvents>>

\* stopTorrent: peers are popped from the end and deleted one after the other.
Popping(t) ==
    LET f[k \in 0..Cardinality(t.peers)] ==
          IF k = 0 THEN [t EXCEPT !.rep = <<>>, !.state = "unsorted"]
          ELSE LET u == f[k - 1]
                   q == Max(u.peers)
               IN  [DeclinedAll([u EXCEPT !.peers = @ \ {q}], q) EXCEPT !.have[q] = {}, !.pending[q] = 0]
    IN  f
StopTorrent ==
    /\ Event /\ running /\ running' = FALSE
    /\ torrent' = Popping(torrent)[Cardinality(torrent.peers)]
    /\ aged' = aged \cap torrent'.requests
    /\ choked' = {}
    /\ UNCHANGED fetching

\* tr_torrentSetFileDLs: other pieces are wanted.
SetWanted(S) ==
    /\ Event /\ S # torrent.wanted
    /\ torrent' = Rebuild([torrent EXCEPT !.wanted = S])
    /\ UNCHANGED <<fetching, choked, aged, running>>

\* The verifier finds a finished piece to be bad while the torrent is stopped.
VerifiedBad(p) ==
    /\ Event /\ ~running /\ Missing(torrent, p) = 0
    /\ torrent' = [torrent EXCEPT !.done = @ \ BlocksOf(p)]
    /\ UNCHANGED <<fetching, choked, aged, running>>

\* torrentNew.
\* block_request without its age, and weighted_piece without its salt.
Request == [block : Blocks, peer : AllPeers]
WeightedPiece == [index : Pieces, count : Nat]

\* The Torrent of peer-mgr.c, and what it asks the tr_torrent and its peers.
Torrent ==
    [requests : SUBSET Request, pieces : Seq(WeightedPiece), state : {"unsorted", "weight"},
     rep : [Pieces -> Nat] \cup {<<>>}, endgame : Nat, peers : SUBSET BtPeers,
     pending : [AllPeers -> Nat], done : SUBSET Blocks, wanted : SUBSET Pieces,
     have : [AllPeers -> SUBSET Pieces]]

ReqInit ==
    /\ torrent = [requests |-> {}, pieces |-> <<>>, state |-> "unsorted", rep |-> <<>>, endgame |-> 0,
                  peers |-> {}, pending |-> [q \in AllPeers |-> 0], done |-> {}, wanted |-> Pieces,
                  have |-> [q \in AllPeers |-> IF q \in Webseeds THEN Pieces ELSE {}]]
    /\ fetching = [w \in Webseeds |-> {}] /\ choked = {} /\ aged = {}
    /\ running = FALSE /\ reqEvents = 0

PeerStep(q) ==
    \/ Connect(q) \/ GotUnchoke(q) \/ GotChoke(q) \/ Close(q) \/ Pulse(q)
    \/ \E p \in Pieces : GotHave(q, p)
    \/ \E S \in SUBSET Pieces : GotBitfield(q, S)
    \/ \E b \in Blocks : GotReject(q, b) \/ GotBlock(q, b)
UserStep == \/ StartTorrent \/ StopTorrent \/ \E S \in SUBSET Pieces : SetWanted(S)
            \/ \E p \in Pieces : VerifiedBad(p)
ReqNext ==
    \/ \E q \in BtPeers : PeerStep(q)
    \/ \E w \in Webseeds : WebseedIdle(w) \/ \E b \in Blocks : WebseedGot(w, b)
    \/ Age \/ Upkeep \/ UserStep

ReqSpec == ReqInit /\ [][ReqNext]_reqVars

-----------------------------------------------------------------------------
(* Properties.                                                             *)

\* The shape of the state, and no count below zero: pending requests, the requests
\* of a listed piece, which an unexpected reject also takes from, and the endgame's.
ReqTypeOK ==
    /\ torrent \in Torrent
    /\ fetching \in [Webseeds -> SUBSET Blocks] /\ aged \subseteq torrent.requests
    /\ choked \subseteq torrent.peers /\ running \in BOOLEAN

\* The three records of what was requested agree (requestListAdd, requestListRemove,
\* pieceListRemoveRequest): a peer's pendingReqsToPeer is the number of its requests,
\* and no listed piece counts more requests than there are, which would leave it at
\* the end of the list for ever.
RequestsAgree ==
    /\ ReqTypeOK
    /\ \A q \in AllPeers :
          torrent.pending[q] = Cardinality({r \in torrent.requests : r.peer = q})
    /\ \A i \in DOMAIN torrent.pieces :
          torrent.pieces[i].count <=
              Cardinality({r \in torrent.requests : PieceOf(r.block) = torrent.pieces[i].index})

\* Nothing is asked for in vain (tr_peerMgrGetNextRequests and GOT_BLOCK): a block is
\* requested of two peers at most and of nobody once it is there, and of peers that
\* are connected.
NoVainRequest ==
    \A b \in Blocks : /\ Cardinality(Asked(torrent, b)) <= 2
                      /\ b \in torrent.done => Asked(torrent, b) = {}
                      /\ Asked(torrent, b) \subseteq torrent.peers \cup Webseeds

\* A piece's replication covers the connected peers that have it, whatever they say
\* twice and whenever the counts are dropped and made again: taking a peer's pieces
\* away never takes an unsigned count below zero.
RarityCovers ==
    torrent.rep # <<>> =>
        \A p \in Pieces : torrent.rep[p] >= Cardinality({q \in torrent.peers : p \in torrent.have[q]})

\* What peer-mgr.c says of Torrent::pieces: it "lists the pieces that we want to
\* request".  While there is a list, every wanted piece that misses blocks is on it.
ListCoversWanted ==
    running /\ torrent.pieces # <<>> =>
        \A p \in torrent.wanted : Missing(torrent, p) > 0 => Position(torrent, p) # {}

=============================================================================
