------------------------------- MODULE Swarm -------------------------------
(***************************************************************************)
(* Whom a torrent knows, is connected to, uploads to and is interested in  *)
(* (peer-mgr.c).  An atom is what is known of an address, connected or     *)
(* not; a peer is a connection whose handshake is done.  Blame is of one   *)
(* piece.                                                                  *)
(*                                                                         *)
(* Rates, times, sources, scores and past failures are data: where they    *)
(* decide an order or a delay, any is possible.  A freed peer that is      *)
(* still t->optimistic is Gone, until malloc gives its memory to a new     *)
(* peer.                                                                   *)
(***************************************************************************)
EXTENDS Integers, FiniteSets, Sequences, SequencesExt, FiniteSetsExt

CONSTANTS Addrs,
          UploadSlots,      \* session->uploadSlotsPerTorrent
          TorrentLimit,     \* tor->maxConnectedPeers
          SessionLimit,     \* session->peerLimit
          Reserved,         \* slots of the session left to incoming connections
          MaxAtoms,         \* getMaxAtomCount
          PerPulse,         \* MAX_CONNECTIONS_PER_PULSE
          MinInteresting,   \* MIN_INTERESTING_PEERS
          BadPieces,        \* MAX_BAD_PIECES_PER_PEER
          Optimism,         \* OPTIMISTIC_UNCHOKE_MULTIPLIER
          MaxRemembered,    \* MAX_REMEMBERED_PEERS
          MaxSwarmEvents,   \* bound: events of the network and of the user
          Nobody, Gone

ASSUME SwarmAssumption ==
    /\ IsFiniteSet(Addrs) /\ {Nobody, Gone} \cap Addrs = {} /\ Nobody # Gone
    /\ {UploadSlots, TorrentLimit, SessionLimit, Reserved, MaxAtoms, PerPulse, MinInteresting,
        BadPieces, Optimism, MaxRemembered, MaxSwarmEvents} \subseteq Nat

VARIABLES swarm,       \* the Torrent: pool, atoms, peers, outgoing handshakes, choking
          incoming,    \* the manager's incoming handshakes
          blocked,     \* addresses on the blocklist
          rated,       \* peers that were interested at the last rechokeUploads
          remembered,  \* peers in the .resume file
          swarmEvents

swarmVars == <<swarm, incoming, blocked, rated, remembered, swarmEvents>>

-----------------------------------------------------------------------------
(* Atoms and peers.                                                        *)

\* ensureAtomExists' new atom.  seed tells a seedProbability of 100; listed is the cached
\* answer of the blocklist.
NewAtom(seed) == [seed |-> seed, banned |-> FALSE, listed |-> "unknown"]
NoConn == [choked |-> TRUE, they |-> FALSE, we |-> FALSE, purge |-> FALSE, strikes |-> 0, blamed |-> FALSE]

EnsureAtom(s, a, seed) ==
    IF a \notin s.pool THEN [s EXCEPT !.pool = @ \cup {a}, !.atom[a] = NewAtom(seed)]
    ELSE [s EXCEPT !.atom[a].seed = @ \/ seed]

\* peerIsInUse: by address, as handshakes are kept.
InUse(s, a) == a \in s.peers \cup s.outgoing \cup incoming

\* removePeer, closePeer, peerDelete, of each peer of S.
RemovePeers(s, S) ==
    [s EXCEPT !.peers = @ \ S, !.conn = [a \in Addrs |-> IF a \in S THEN NoConn ELSE @[a]],
              !.optimistic = IF @ \in S THEN Gone ELSE @]

\* isAtomBlocklisted: the answer is cached.
Listed(a) == CASE swarm.atom[a].listed = "yes" -> TRUE
               [] swarm.atom[a].listed = "no" -> FALSE
               [] OTHER -> a \in blocked
CacheListed(s, S) ==
    [s EXCEPT !.atom = [a \in Addrs |-> IF a \in S THEN [@[a] EXCEPT !.listed = IF Listed(a) THEN "yes" ELSE "no"]
                                        ELSE @[a]]]

\* addStrike, to each peer of S.
Struck(c) ==
    IF c.strikes + 1 < BadPieces THEN [c EXCEPT !.strikes = @ + 1]
    ELSE [c EXCEPT !.strikes = BadPieces, !.purge = TRUE]
AddStrikes(s, S) ==
    LET banned == {a \in S : s.conn[a].strikes + 1 >= BadPieces}
    IN  [s EXCEPT !.conn = [a \in Addrs |-> IF a \in S THEN Struck(@[a]) ELSE @[a]],
                  !.atom = [a \in Addrs |-> IF a \in banned THEN [@[a] EXCEPT !.banned = TRUE] ELSE @[a]]]

-----------------------------------------------------------------------------
(* Addresses, handshakes and what peers say.                               *)

Net == swarmEvents < MaxSwarmEvents /\ swarmEvents' = swarmEvents + 1

\* tr_peerMgrAddPex.
AddPex(a, seed) ==
    /\ Net /\ a \notin blocked
    /\ swarm' = EnsureAtom(swarm, a, seed)
    /\ UNCHANGED <<incoming, blocked, rated, remembered>>

\* tr_peerMgrMarkAllAsSeeds, when a tracker says there are only seeds.
MarkAllAsSeeds ==
    /\ Net /\ swarm' = [swarm EXCEPT
           !.atom = [a \in Addrs |-> IF a \in swarm.pool THEN [@[a] EXCEPT !.seed = TRUE] ELSE @[a]]]
    /\ UNCHANGED <<incoming, blocked, rated, remembered>>

\* tr_peerMgrAddIncoming.
AddIncoming(a) ==
    /\ Net /\ a \notin blocked \cup incoming
    /\ incoming' = incoming \cup {a}
    /\ UNCHANGED <<swarm, blocked, rated, remembered>>

\* myHandshakeDoneCB's cases in which it keeps the connection.
Accepts(s, a, isIncoming) ==
    /\ ~s.atom[a].banned
    /\ ~(isIncoming /\ Cardinality(s.peers) >= TorrentLimit)
    /\ a \notin s.peers

\* myHandshakeDoneCB of one that succeeded: a set, for the memory a new peer gets.
HandshakeOk(s, a, isIncoming) ==
    LET t == EnsureAtom(s, a, FALSE)
        new == [t EXCEPT !.peers = @ \cup {a}, !.conn[a] = NoConn]
    IN  IF ~Accepts(t, a, isIncoming) THEN {t}
        ELSE IF t.optimistic = Gone THEN {new, [new EXCEPT !.optimistic = a]} ELSE {new}

\* myHandshakeDoneCB: it failed, or its torrent is stopped, or it succeeded.
HandshakeDone(a, isIncoming) ==
    /\ a \in IF isIncoming THEN incoming ELSE swarm.outgoing
    /\ incoming' = IF isIncoming THEN incoming \ {a} ELSE incoming
    /\ LET s == IF isIncoming THEN swarm ELSE [swarm EXCEPT !.outgoing = @ \ {a}]
       IN  swarm' \in {s} \cup IF s.running THEN HandshakeOk(s, a, isIncoming) ELSE {}
    /\ UNCHANGED <<blocked, rated, remembered, swarmEvents>>

\* BT_INTERESTED, BT_NOT_INTERESTED.
PeerInterest(a) ==
    /\ a \in swarm.peers
    /\ swarm' = [swarm EXCEPT !.conn[a].they = ~@]
    /\ UNCHANGED <<incoming, blocked, rated, remembered, swarmEvents>>

\* tr_peerUpdateProgress, once the peer has everything.
PeerHasAll(a) ==
    /\ Net /\ a \in swarm.peers /\ ~swarm.atom[a].seed
    /\ swarm' = [swarm EXCEPT !.atom[a].seed = TRUE]
    /\ UNCHANGED <<incoming, blocked, rated, remembered>>

\* GOT_BLOCK: the peer is to blame if the piece it belongs to is bad.
GotData(a) ==
    /\ a \in swarm.peers /\ swarm' = [swarm EXCEPT !.conn[a].blamed = TRUE]
    /\ UNCHANGED <<incoming, blocked, rated, remembered, swarmEvents>>

\* tr_peerMgrSetBlame: every peer that ever sent a block of the piece gets a strike.
BadPiece ==
    /\ Net
    /\ swarm' = AddStrikes(swarm, {a \in swarm.peers : swarm.conn[a].blamed})
    /\ UNCHANGED <<incoming, blocked, rated, remembered>>

\* TR_PEER_ERROR: a protocol error, or the connection is lost.
PeerError(a) ==
    /\ Net /\ a \in swarm.peers
    /\ swarm' = [swarm EXCEPT !.conn[a].purge = TRUE]
    /\ UNCHANGED <<incoming, blocked, rated, remembered>>

-----------------------------------------------------------------------------
(* Choking and interest.                                                   *)

PeerSeed(s, a) == s.atom[a].seed

\* Mutant: those behind the last slot keep what they had.
Rechoked_KeepsRest(s, order, k, extra, maxed) ==
    [a \in Addrs |->
        IF a \notin s.peers THEN s.conn[a]
        ELSE [s.conn[a] EXCEPT !.choked =
                CASE \E i \in 1..k : order[i] = a -> maxed /\ @
                  [] a = extra -> FALSE
                  [] OTHER -> @]]

\* What each peer's choke becomes: order ranks those who compete, the first k of them
\* get a slot, extra is a new optimistic unchoke.
Rechoked(s, order, k, extra, maxed) ==
    [a \in Addrs |->
        IF a \notin s.peers THEN s.conn[a]
        ELSE [s.conn[a] EXCEPT !.choked =
                CASE \E i \in 1..k : order[i] = a -> maxed /\ @
                  [] a = extra -> FALSE
                  [] a = s.optimistic /\ a \notin Range(order) /\ ~PeerSeed(s, a) -> @
                  [] OTHER -> TRUE]]

\* How many of the first n are interested, and how many it takes to fill the slots:
\* slots are counted in interested peers.
Interested(s, order, n) == Cardinality({i \in 1..n : s.conn[order[i]].they})
Filled(s, order) ==
    Min({i \in 0..Len(order) : Interested(s, order, i) >= UploadSlots} \cup {Len(order)})

\* rechokeUploads.
Uploads(old, order, chokeAll, maxed, extra) ==
    LET s == IF old.scaler > 0 THEN [old EXCEPT !.scaler = @ - 1]
             ELSE [old EXCEPT !.optimistic = Nobody]
        k == Filled(s, order)
        rest == {order[i] : i \in (k + 1)..Len(order)}
        draws == {a \in rest : s.conn[a].they /\ s.optimistic = Nobody /\ ~maxed}
    IN  IF chokeAll THEN [s EXCEPT !.conn = [a \in Addrs |-> [@[a] EXCEPT !.choked = TRUE]]]
        ELSE [s EXCEPT !.conn = Rechoked(s, order, k, IF extra \in draws THEN extra ELSE Nobody, maxed),
                       !.optimistic = IF extra \in draws THEN extra ELSE @,
                       !.scaler = IF extra \in draws THEN Optimism ELSE @]

\* Those who compete for a slot.
Competing(s) ==
    {a \in s.peers : ~PeerSeed(s, a) /\ (a # s.optimistic \/ s.scaler = 0)}

\* rechokeDownloads: interest in some of the peers that have what we want; cancels and
\* blocks received decide in how many of them, and in which.
Downloads(s, chosen) ==
    [s EXCEPT !.conn = [a \in Addrs |-> IF a \in s.peers THEN [@[a] EXCEPT !.we = a \in chosen] ELSE @[a]]]
Chosen(s) ==
    {C \in SUBSET s.peers :
        /\ Cardinality(C) <= TorrentLimit
        /\ Cardinality(C) >= Min({MinInteresting, TorrentLimit, Cardinality({a \in s.peers : PeerSeed(s, a)})})}

\* rechokePulse.
Rechoke ==
    /\ swarm.running /\ swarm.peers # {}
    /\ LET after == {Uploads(swarm, order, x[1], x[2], x[3]) :
                        order \in SetToSeqs(Competing(swarm)),
                        x \in BOOLEAN \X BOOLEAN \X (swarm.peers \cup {Nobody})}
       IN  \E s \in after : swarm' \in IF s.seeding THEN {s} ELSE {Downloads(s, C) : C \in Chosen(s)}
    /\ rated' = {a \in swarm.peers : swarm.conn[a].they}
    /\ UNCHANGED <<incoming, blocked, remembered, swarmEvents>>

-----------------------------------------------------------------------------
(* Life and death.                                                         *)

\* enforceTorrentPeerLimit, enforceSessionPeerLimit: the least lively go, those to be
\* purged first.
Cull(s, limit) ==
    LET n == Max({Cardinality(s.peers) - limit, 0})
        purged == {a \in s.peers : s.conn[a].purge}
    IN  {RemovePeers(s, C) : C \in {D \in kSubset(n, s.peers) : D \subseteq purged \/ purged \subseteq D}}

\* shouldPeerBeClosed; idle are those that exchanged nothing for long, late those
\* connected long enough for PEX.
ShouldClose(s, a, idle, late) ==
    IF s.conn[a].purge THEN TRUE
    ELSE IF s.seeding /\ PeerSeed(s, a) THEN a \in late
    ELSE a \in idle

\* isPeerCandidate; due are the atoms whose reconnect interval is over.
Askable(s, due) == {a \in s.pool \cap due : ~(s.seeding /\ PeerSeed(s, a)) /\ ~InUse(s, a)}
Candidates(s, due) == {a \in Askable(s, due) : ~Listed(a) /\ ~s.atom[a].banned}

\* getPeerCandidates: there is room in the session and the torrent.
Looks(s) == /\ SessionLimit - Reserved > Cardinality(s.peers)
            /\ s.running /\ TorrentLimit > Cardinality(s.peers)

\* makeNewPeerConnections, initiateConnection: a peerIo may not be created.
Connected(s, due) ==
    LET t == CacheListed(s, Askable(s, due))
    IN  {[t EXCEPT !.outgoing = @ \cup C] :
            C \in {D \in SUBSET Candidates(s, due) : Cardinality(D) <= PerPulse}}

\* reconnectPulse.  A seed whose upload is maxed out looks for no peers.
Reconnect ==
    /\ \E s1 \in UNION {Cull(s, SessionLimit) : s \in IF swarm.running THEN Cull(swarm, TorrentLimit) ELSE {swarm}} :
       \E idle, late \in SUBSET s1.peers :
         LET bad == {a \in s1.peers : ~s1.running \/ ShouldClose(s1, a, idle, late)}
             s2 == RemovePeers(s1, bad)
         IN  \/ (~Looks(s2) \/ s2.seeding) /\ swarm' = s2
             \/ Looks(s2) /\ \E due \in SUBSET s2.pool : swarm' \in Connected(s2, due)
    /\ UNCHANGED <<incoming, blocked, rated, remembered, swarmEvents>>

\* Mutant: handshakes are forgotten.
KeptAtoms_PeersOnly(s) == s.peers

KeptAtoms(s) == {a \in s.pool : InUse(s, a)}

\* atomPulse: with too many atoms, those in use stay, and the best of the others.
AtomPulse ==
    /\ Cardinality(swarm.pool) > MaxAtoms
    /\ \E K \in SUBSET (swarm.pool \ KeptAtoms(swarm)) :
         LET kept == KeptAtoms(swarm) \cup K
         IN  /\ Cardinality(K) = Max({MaxAtoms - Cardinality(KeptAtoms(swarm)), 0})
             /\ swarm' = [swarm EXCEPT !.pool = kept,
                            !.atom = [a \in Addrs |-> IF a \in kept THEN @[a] ELSE NewAtom(FALSE)]]
    /\ UNCHANGED <<incoming, blocked, rated, remembered, swarmEvents>>

-----------------------------------------------------------------------------
(* The user and the session.                                               *)

\* tr_peerMgrOnBlocklistChanged.
BlocklistChanged(S) ==
    /\ Net /\ S # blocked /\ blocked' = S
    /\ swarm' = [swarm EXCEPT !.atom = [a \in Addrs |-> [@[a] EXCEPT !.listed = "unknown"]]]
    /\ UNCHANGED <<incoming, rated, remembered>>

\* tr_peerMgrClearInterest.
ClearInterest(s) == [s EXCEPT !.conn = [a \in Addrs |-> [@[a] EXCEPT !.we = FALSE]]]

\* tr_torrentRecheckCompleteness.
Completeness ==
    /\ Net
    /\ swarm' = IF swarm.seeding THEN [swarm EXCEPT !.seeding = FALSE]
                ELSE [ClearInterest(swarm) EXCEPT !.seeding = TRUE]
    /\ UNCHANGED <<incoming, blocked, rated, remembered>>

\* tr_peerMgrStartTorrent; its rechokePulse is the next one.
StartSwarm ==
    /\ ~swarm.running /\ swarm' = [swarm EXCEPT !.running = TRUE]
    /\ UNCHANGED <<incoming, blocked, rated, remembered, swarmEvents>>

\* stopTorrent: peers are deleted, outgoing handshakes aborted.
StopSwarm ==
    /\ Net /\ swarm.running
    /\ swarm' = [RemovePeers(swarm, swarm.peers) EXCEPT !.running = FALSE, !.outgoing = {}]
    /\ UNCHANGED <<incoming, blocked, rated, remembered>>

\* savePeers: isAtomInteresting, the most useful first.
Save ==
    /\ LET useful == {a \in swarm.pool : ~(swarm.seeding /\ PeerSeed(swarm, a))}
           idle == {a \in useful : ~InUse(swarm, a)}
           good == useful \ {a \in idle : Listed(a) \/ swarm.atom[a].banned}
       IN  /\ remembered' \in kSubset(Min({MaxRemembered, Cardinality(good)}), good)
           /\ swarm' = CacheListed(swarm, idle)
    /\ UNCHANGED <<incoming, blocked, rated, swarmEvents>>

EmptySwarm ==
    [pool |-> {}, atom |-> [a \in Addrs |-> NewAtom(FALSE)], peers |-> {},
     conn |-> [a \in Addrs |-> NoConn], outgoing |-> {}, optimistic |-> Nobody, scaler |-> 0,
     running |-> FALSE, seeding |-> FALSE]

\* The program ends, or dies, and loadPeers adds the peers it remembers.
Restart ==
    /\ Net /\ swarm' = [EmptySwarm EXCEPT !.pool = remembered \ blocked]
    /\ incoming' = {} /\ UNCHANGED <<blocked, rated, remembered>>

SwarmInit ==
    /\ swarm = EmptySwarm /\ incoming = {} /\ blocked = {} /\ rated = {} /\ remembered = {} /\ swarmEvents = 0

SwarmNext ==
    \/ \E a \in Addrs :
         \/ \E seed \in BOOLEAN : AddPex(a, seed)
         \/ \E isIncoming \in BOOLEAN : HandshakeDone(a, isIncoming)
         \/ AddIncoming(a) \/ PeerInterest(a) \/ PeerHasAll(a) \/ GotData(a) \/ PeerError(a)
    \/ MarkAllAsSeeds \/ BadPiece \/ Rechoke \/ Reconnect \/ AtomPulse
    \/ \E S \in SUBSET Addrs : BlocklistChanged(S)
    \/ Completeness \/ StartSwarm \/ StopSwarm \/ Save \/ Restart

SwarmSpec == SwarmInit /\ [][SwarmNext]_swarmVars

-----------------------------------------------------------------------------
(* Properties.                                                             *)

\* The shape of the state.
SwarmTypeOK ==
    /\ swarm.pool \cup swarm.peers \cup swarm.outgoing \cup incoming \subseteq Addrs
    /\ blocked \cup rated \cup remembered \subseteq Addrs
    /\ swarm.optimistic \in Addrs \cup {Nobody, Gone} /\ swarm.scaler \in Nat
    /\ {swarm.running, swarm.seeding} \subseteq BOOLEAN

\* Every peer and every outgoing handshake has its atom, whatever atomPulse frees; a
\* banned peer that is connected is about to be closed; a stopped torrent has no
\* connection, whatever handshakes end after it stopped; a seed is interested in nobody.
AtomsKept ==
    /\ SwarmTypeOK
    /\ swarm.peers \cup swarm.outgoing \subseteq swarm.pool
    /\ \A a \in swarm.peers : swarm.atom[a].banned => swarm.conn[a].purge
    /\ ~swarm.running => swarm.peers \cup swarm.outgoing = {}
    /\ swarm.seeding => \A a \in swarm.peers : ~swarm.conn[a].we

\* However ranks and interest change and whatever the optimistic peer's memory becomes,
\* no more than uploadSlotsPerTorrent of the peers that were interested when
\* rechokeUploads ran are unchoked, besides the optimistic one.
SlotsKept ==
    Cardinality({a \in rated \cap swarm.peers : ~swarm.conn[a].choked /\ a # swarm.optimistic}) <= UploadSlots

=============================================================================
