------------------------------- MODULE PeerIo -------------------------------
(***************************************************************************)
(* The peer-io objects of peer-io.c under the tree of bandwidths of        *)
(* bandwidth.c: session, torrent, connection.  Every half second           *)
(* tr_bandwidthAllocate deals out what each bandwidth may use, lets the    *)
(* connections take turns, and enables on-demand events for the rest of    *)
(* the period.  Bytes come in units; speeds are units per period; a limit  *)
(* binds both directions.                                                  *)
(***************************************************************************)
EXTENDS Integers, FiniteSets, SequencesExt

CONSTANTS Ios,              \* connections of one torrent
          SpeedLimits,      \* the values a limit may have, or Unlimited
          IoChunk,          \* the 3000 bytes of phaseOne
          MaxIoOut,         \* bounds outbuf
          MaxIoEvents
ASSUME IoAssumption == /\ SpeedLimits \subseteq Nat
                       /\ IoChunk \in Nat \ {0} /\ {MaxIoOut, MaxIoEvents} \subseteq Nat

Unlimited == 99
Nodes == Ios \cup {"session", "torrent"}
Directions == {"UP", "DOWN"}
ParentOf(n) == IF n = "torrent" THEN "session" ELSE "torrent"

VARIABLES
    band,      \* band[n]: the tr_bandwidth of a node
    outbuf,    \* outbuf[io]: outbuf_datatypes, the lengths queued in order
    queued,    \* queued[io]: the length of outbuf itself
    owned,     \* the connections a tr_peer or tr_handshake still holds
    refs,      \* refs[io]: refCount; 0 when it is destroyed
    enabled,   \* enabled[io]: pendingEvents
    pulse,     \* what is left of a tr_bandwidthAllocate: connections to flush,
               \* passes of phaseOne, the pool of the present one, refs held
    allotted,  \* ghost: what band[n].left was when it was last set
    used,      \* ghost: piece data moved since, by connections that honor the limit
    ioEvents
ioVars == <<band, outbuf, queued, owned, refs, enabled, pulse, allotted, used, ioEvents>>

Band == [limit : SpeedLimits \cup {Unlimited}, honor : BOOLEAN, left : [Directions -> Nat]]
Idle == [dir |-> "none", flush |-> {}, passes |-> 0, pool |-> {}, held |-> {}]
Chunk == [len : Nat \ {0}, piece : BOOLEAN]

IoInit ==
    /\ band = [n \in Nodes |-> [limit |-> Unlimited, honor |-> TRUE, left |-> [d \in Directions |-> 0]]]
    /\ outbuf = [io \in Ios |-> <<>>]
    /\ queued = [io \in Ios |-> 0]
    /\ owned = Ios
    /\ refs = [io \in Ios |-> 1]
    /\ enabled = [io \in Ios |-> {}]
    /\ pulse = Idle
    /\ allotted = [n \in Nodes |-> [d \in Directions |-> 0]]
    /\ used = [n \in Nodes |-> [d \in Directions |-> 0]]
    /\ ioEvents = 0

IoEvent == ioEvents < MaxIoEvents /\ ioEvents' = ioEvents + 1
Live(io) == refs[io] > 0
IsLimited(n) == band[n].limit # Unlimited
SmallerOf(a, b) == IF a < b THEN a ELSE b

(* The nodes whose limit binds a connection: the chain of parents, as far  *)
(* as each honors the next                                                 *)
Chain(io) == IF ~band[io].honor THEN {io}
             ELSE IF ~band["torrent"].honor THEN {io, "torrent"} ELSE Nodes \ (Ios \ {io})
Binding(io) == {n \in Chain(io) : IsLimited(n)}

(* Mutant: the parents' limits are forgotten *)
Clamp_Own(io, d, want) ==
    IF IsLimited(io) /\ band[io].left[d] < want THEN 0..band[io].left[d] ELSE {want}
(* tr_bandwidthClamp: near its speed limit a node may give less, or nothing *)
Clamp(io, d, want) ==
    LET most == {want} \cup {band[n].left[d] : n \in Binding(io)}
        clamped == CHOOSE m \in most : \A k \in most : m <= k
    IN  IF Binding(io) = {} THEN {want} ELSE 0..clamped

(* Mutant: the allotment is not clamped at zero *)
Spend_Unclamped(left, n) == left - n
Spend(left, n) == left - SmallerOf(left, n)

(* tr_bandwidthUsed: up to the root, whatever is honored; only piece data   *)
(* counts against the allotment                                            *)
UsedBy(io) == {io, "torrent", "session"}
CountUse(io, d, n) ==
    /\ band' = [k \in Nodes |-> IF k \in UsedBy(io) /\ IsLimited(k)
                                THEN [band[k] EXCEPT !.left[d] = Spend(@, n)] ELSE band[k]]
    /\ used' = [k \in Nodes |-> IF k \in Binding(io) THEN [used[k] EXCEPT ![d] = @ + n] ELSE used[k]]

(* Sums(s, kinds)[k]: the bytes of the first k chunks, as far as they are   *)
(* of those kinds: piece data or not                                       *)
Sums(s, kinds) ==
    LET f[k \in 0..Len(s)] ==
          IF k = 0 THEN 0 ELSE f[k - 1] + (IF s[k].piece \in kinds THEN s[k].len ELSE 0)
    IN  f
Total(s) == Sums(s, BOOLEAN)[Len(s)]
PieceIn(s) == Sums(s, {TRUE})[Len(s)]

(* didWriteWrapper, peer_io_pull_datatype: n written bytes take the first   *)
(* chunks away, and a part of the next                                     *)
WriteOff(s, n) ==
    LET k == Max({j \in 0..Len(s) : Sums(s, BOOLEAN)[j] <= n})
        taken == n - Sums(s, BOOLEAN)[k]
    IN  [i \in 1..(Len(s) - k) |-> IF i = 1 THEN [s[k + 1] EXCEPT !.len = @ - taken] ELSE s[k + i]]

(* tr_peerIoWriteBuf: queue and type together *)
Queue(io, c) == /\ outbuf' = [outbuf EXCEPT ![io] = Append(@, c)]
                /\ queued' = [queued EXCEPT ![io] = @ + c.len]
(* The owner writes at any time: didWrite and canRead call it back *)
IoWrite(io) ==
    /\ IoEvent /\ io \in owned
    /\ \E len \in 1..2, piece \in BOOLEAN :
         queued[io] + len <= MaxIoOut /\ Queue(io, [len |-> len, piece |-> piece])
    /\ UNCHANGED <<band, owned, refs, enabled, pulse, allotted, used>>

Sent(io, n) ==
    LET rest == WriteOff(outbuf[io], n)
    IN  /\ outbuf' = [outbuf EXCEPT ![io] = rest]
        /\ queued' = [queued EXCEPT ![io] = @ - n]
        /\ CountUse(io, "UP", PieceIn(outbuf[io]) - PieceIn(rest))

(* tr_peerIoSetEnabled; a destroyed peer-io has no events *)
Enable(io, d, on) ==
    enabled' = [enabled EXCEPT ![io] = IF on THEN @ \cup {d} ELSE @ \ {d}]

(* event_write_cb: the event is one-shot, and stays on while data is left *)
EventWrite(io) ==
    /\ pulse = Idle /\ "UP" \in enabled[io] /\ Live(io)
    /\ \E room \in Clamp(io, "UP", queued[io]) :
         \/ /\ room = 0
            /\ Enable(io, "UP", FALSE)
            /\ UNCHANGED <<band, outbuf, queued, used>>
         \/ /\ room > 0
            /\ \E n \in 0..room :          \* 0: the socket would block
                 /\ Sent(io, n)
                 /\ Enable(io, "UP", n < queued[io])
    /\ UNCHANGED <<owned, refs, pulse, allotted, ioEvents>>

(* event_read_cb and canReadWrapper: what was read is used as piece data,   *)
(* as protocol data, or waits for more                                      *)
EventRead(io) ==
    /\ IoEvent /\ pulse = Idle /\ "DOWN" \in enabled[io] /\ Live(io)
    /\ \E room \in Clamp(io, "DOWN", 2) :
         \/ /\ room = 0
            /\ Enable(io, "DOWN", FALSE)
            /\ UNCHANGED <<band, used>>
         \/ /\ room > 0
            /\ \E piece \in 0..room : CountUse(io, "DOWN", piece)
            /\ UNCHANGED enabled
    /\ UNCHANGED <<outbuf, queued, owned, refs, pulse, allotted>>

(* gotError, or the peer manager: the owner lets go (tr_peerIoClear,        *)
(* tr_peerIoUnref); the object goes when the last reference does            *)
Released(S) ==
    LET gone == {io \in S : refs[io] = 1}
    IN  /\ refs' = [io \in Ios |-> IF io \in S THEN refs[io] - 1 ELSE refs[io]]
        /\ outbuf' = [io \in Ios |-> IF io \in gone THEN <<>> ELSE outbuf[io]]
        /\ queued' = [io \in Ios |-> IF io \in gone THEN 0 ELSE queued[io]]
IoClose(io) ==
    /\ IoEvent /\ io \in owned
    /\ owned' = owned \ {io}
    /\ Released({io})
    /\ enabled' = [enabled EXCEPT ![io] = {}]
    /\ UNCHANGED <<band, pulse, allotted, used>>

(* Preferences: a limit, or whether a torrent honors the session's; a      *)
(* single connection is never limited                                      *)
SetLimit(n, l) ==
    /\ IoEvent /\ pulse = Idle /\ band[n].limit # l
    /\ band' = [band EXCEPT ![n].limit = l]
    /\ allotted' = [allotted EXCEPT ![n] = band[n].left]
    /\ used' = [used EXCEPT ![n] = [d \in Directions |-> 0]]
    /\ UNCHANGED <<outbuf, queued, owned, refs, enabled, pulse>>
SetHonor ==
    /\ IoEvent /\ pulse = Idle
    /\ band' = [band EXCEPT !["torrent"].honor = ~@]
    /\ UNCHANGED <<outbuf, queued, owned, refs, enabled, pulse, allotted, used>>

(***************************************************************************)
(* tr_bandwidthAllocate, one connection's turn a step; nothing else of the *)
(* event thread runs between the steps                                     *)
(***************************************************************************)
(* allocateBandwidth: the tree's allotments; each connection is referenced  *)
LiveIos == {io \in Ios : Live(io)}
AllocateBegin(d) ==
    /\ IoEvent /\ pulse = Idle
    /\ LET share == [n \in Nodes |-> IF IsLimited(n) THEN band[n].limit ELSE band[n].left[d]]
       IN  /\ band' = [n \in Nodes |-> [band[n] EXCEPT !.left[d] = share[n]]]
           /\ allotted' = [n \in Nodes |-> [allotted[n] EXCEPT ![d] = share[n]]]
           /\ used' = [n \in Nodes |-> [used[n] EXCEPT ![d] = 0]]
    /\ refs' = [io \in Ios |-> IF Live(io) THEN refs[io] + 1 ELSE 0]
    /\ \E passes \in 2..3 :       \* phaseOne for normal and low, or also for high
         pulse' = [dir |-> d, flush |-> LiveIos, passes |-> passes, pool |-> {}, held |-> LiveIos]
    /\ UNCHANGED <<outbuf, queued, owned, enabled>>

(* tr_peerIoFlushOutgoingProtocolMsgs: what is queued before piece data *)
ProtocolInFront(s) == Sums(s, BOOLEAN)[Max({j \in 0..Len(s) : \A i \in 1..j : ~s[i].piece})]
AllocateFlush(io) ==
    /\ io \in pulse.flush
    /\ pulse' = [pulse EXCEPT !.flush = @ \ {io}]
    /\ \E room \in Clamp(io, "UP", ProtocolInFront(outbuf[io])) : \E n \in 0..room : Sent(io, n)
    /\ UNCHANGED <<owned, refs, enabled, allotted, ioEvents>>

AllocatePass ==
    /\ pulse # Idle /\ pulse.flush = {} /\ pulse.pool = {} /\ pulse.passes > 0
    /\ pulse' = [pulse EXCEPT !.passes = @ - 1, !.pool = pulse.held]
    /\ UNCHANGED <<band, outbuf, queued, owned, refs, enabled, allotted, used, ioEvents>>

(* phaseOne: a random peer gets a chunk, and another turn if it used it up  *)
AllocateTurn(io) ==
    LET d == pulse.dir
        want == IF d = "UP" THEN SmallerOf(IoChunk, queued[io]) ELSE IoChunk
    IN  /\ io \in pulse.pool
        /\ \E room \in Clamp(io, d, want) : \E n \in 0..room :
             /\ pulse' = [pulse EXCEPT !.pool = IF n = IoChunk THEN @ ELSE @ \ {io}]
             /\ IF d = "UP" THEN Sent(io, n)
                ELSE (\E piece \in 0..n : CountUse(io, d, piece)) /\ UNCHANGED <<outbuf, queued>>
        /\ UNCHANGED <<owned, refs, enabled, allotted, ioEvents>>

(* The second phase: on-demand events for those with bandwidth left; one    *)
(* whose last reference this was is destroyed, its events with it           *)
AllocateEnd ==
    /\ pulse # Idle /\ pulse.flush = {} /\ pulse.pool = {} /\ pulse.passes = 0
    /\ \E on \in SUBSET pulse.held :
         /\ \A io \in pulse.held : \E room \in Clamp(io, pulse.dir, 1) : io \in on <=> room > 0
         /\ enabled' = [io \in Ios |->
              IF io \notin owned THEN {}
              ELSE IF io \in on THEN enabled[io] \cup {pulse.dir} ELSE enabled[io] \ {pulse.dir}]
    /\ Released(pulse.held)
    /\ pulse' = Idle
    /\ UNCHANGED <<band, owned, allotted, used, ioEvents>>

IoNext ==
    \/ \E io \in Ios : IoWrite(io) \/ EventWrite(io) \/ EventRead(io) \/ IoClose(io)
                       \/ AllocateFlush(io) \/ AllocateTurn(io)
    \/ \E n \in {"session", "torrent"}, l \in SpeedLimits \cup {Unlimited} : SetLimit(n, l)
    \/ SetHonor
    \/ \E d \in Directions : AllocateBegin(d)
    \/ AllocatePass
    \/ AllocateEnd
IoSpec == IoInit /\ [][IoNext]_ioVars

(***************************************************************************)
(* Properties                                                              *)
(***************************************************************************)
IoTypeOK ==
    /\ band \in [Nodes -> Band]
    /\ \A io \in Ios : outbuf[io] \in Seq(Chunk)
    /\ queued \in [Ios -> Nat] /\ refs \in [Ios -> Nat]
    /\ owned \subseteq Ios /\ enabled \in [Ios -> SUBSET Directions]

(* A limited bandwidth has no more left than it was given less what its     *)
(* connections used, so that together they never move more piece data in a  *)
(* period than the limit, as far as they honor it (tr_bandwidthClamp,       *)
(* tr_bandwidthUsed); a limit that is set counts from what is left then.    *)
(* The queue of types describes the bytes of outbuf (didWriteWrapper), and  *)
(* nobody's turn comes after a connection is destroyed (tr_peerIoRef).      *)
WithinAllotment ==
    /\ \A n \in Nodes, d \in Directions :
         IsLimited(n) => band[n].left[d] + used[n][d] <= allotted[n][d]
    /\ \A io \in Ios : Total(outbuf[io]) = queued[io]
    /\ pulse.flush \cup pulse.pool \cup owned \subseteq LiveIos
=============================================================================
