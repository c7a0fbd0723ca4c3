------------------------------ MODULE PeerMsgs ------------------------------
(***************************************************************************)
(* The peer wire protocol of peer-msgs.c: two clients that both run it,    *)
(* joined by a reliable stream in each direction.  Each side batches its   *)
(* small messages in outMessages and writes a block straight into the      *)
(* stream, so that a PIECE may overtake a message written before it.       *)
(* One piece is one block; time (batch periods, fibrillation, rates) is    *)
(* a choice of what happens now.                                           *)
(***************************************************************************)
EXTENDS Integers, FiniteSets, FiniteSetsExt, SequencesExt

CONSTANTS MsgBlocks,        \* the blocks of the torrent
          SeedSide, LeechSide,
          DesiredRequests,  \* desiredRequestCount
          Reqq,             \* REQQ, the length of peerAskedFor
          MaxChokes, MaxWireEvents
ASSUME WireAssumption ==
    /\ SeedSide # LeechSide /\ IsFiniteSet(MsgBlocks)
    /\ {DesiredRequests, Reqq} \subseteq Nat \ {0}
    /\ {MaxChokes, MaxWireEvents} \subseteq Nat

Sides == {SeedSide, LeechSide}
Other(p) == CHOOSE q \in Sides : q # p
Nothing == {}                              \* a message without an argument

Simple == {"CHOKE", "UNCHOKE", "INTERESTED", "NOT_INTERESTED", "HAVE_ALL", "HAVE_NONE"}
OfBlock == {"HAVE", "REQUEST", "CANCEL", "PIECE", "REJECT"}
Message == [type : Simple \cup OfBlock \cup {"BITFIELD"}, arg : SUBSET MsgBlocks]
Msg(t, a) == [type |-> t, arg |-> a]
Msgs(t, S) == SetToSeq({Msg(t, {b}) : b \in S})
(* The entries of s at the positions I, in their order *)
Those(s, I) == [k \in 1..Cardinality(I) |-> s[CHOOSE i \in I : Cardinality({j \in I : j <= i}) = k]]

VARIABLES
    side,        \* side[p]: p's tr_peer and tr_peermsgs for the other side
    out,         \* out[p]: outMessages, batched
    sent,        \* sent[p]: the bytes p wrote that the other has not read
    fext,        \* both speak the fast extension
    wireEvents   \* bounds the free choices of the users, timers and disks
wireVars == <<side, out, sent, fext, wireEvents>>

PeerState == [have : SUBSET MsgBlocks,        \* what p has
              peerHave : SUBSET MsgBlocks,    \* what p believes the other has
              peerIsChoked : BOOLEAN, clientIsChoked : BOOLEAN,
              peerIsInterested : BOOLEAN, clientIsInterested : BOOLEAN,
              asked : Seq(MsgBlocks),         \* peerAskedFor
              pending : SUBSET MsgBlocks]     \* the peer manager's requests to the other

IsSeed(p) == side[p].have = MsgBlocks

(* tellPeerWhatWeHave; without metadata exchange this is the first message *)
Greeting(have, f) ==
    IF f /\ have = MsgBlocks THEN <<Msg("HAVE_ALL", Nothing)>>
    ELSE IF f /\ have = {} THEN <<Msg("HAVE_NONE", Nothing)>>
    ELSE IF have # {} THEN <<Msg("BITFIELD", have)>> ELSE <<>>

InitialHave(p) == IF p = SeedSide THEN MsgBlocks ELSE {}
WireInit ==
    /\ fext \in BOOLEAN
    /\ side = [p \in Sides |->
         [have |-> InitialHave(p), peerHave |-> {}, peerIsChoked |-> TRUE, clientIsChoked |-> TRUE,
          peerIsInterested |-> FALSE, clientIsInterested |-> FALSE, asked |-> <<>>, pending |-> {}]]
    /\ out = [p \in Sides |-> Greeting(InitialHave(p), fext)]
    /\ sent = [p \in Sides |-> <<>>]
    /\ wireEvents = [p \in Sides |-> [choke |-> 0, other |-> 0]]

Rejects(s) == IF fext THEN [i \in DOMAIN s |-> Msg("REJECT", {s[i]})] ELSE <<>>
Send(p, ms) == out' = [out EXCEPT ![p] = @ \o ms]

(***************************************************************************)
(* What the peer manager tells a peer                                      *)
(***************************************************************************)
(* Mutant: a choked peer's requests are dropped without an answer *)
CancelledRequests_Silent(p) == <<>>
(* cancelAllRequestsToClient: each is answered if the fast extension is on *)
CancelledRequests(p) == Rejects(side[p].asked)

CanChoose(p, k, max) == /\ wireEvents[p][k] < max
                        /\ wireEvents' = [wireEvents EXCEPT ![p][k] = @ + 1]

SetChoke(p, choke) ==
    /\ CanChoose(p, "choke", MaxChokes)
    /\ side[p].peerIsChoked # choke
    /\ side' = [side EXCEPT ![p].peerIsChoked = choke, ![p].asked = IF choke THEN <<>> ELSE @]
    /\ Send(p, (IF choke THEN CancelledRequests(p) ELSE <<>>)
                 \o <<Msg(IF choke THEN "CHOKE" ELSE "UNCHOKE", Nothing)>>)
    /\ UNCHANGED <<sent, fext>>

(* rechokeDownloads and the end of a download *)
SetInterested(p) ==
    LET want == side[p].peerHave \ side[p].have # {}
    IN  /\ side[p].clientIsInterested # want
        /\ side' = [side EXCEPT ![p].clientIsInterested = want]
        /\ Send(p, <<Msg(IF want THEN "INTERESTED" ELSE "NOT_INTERESTED", Nothing)>>)
        /\ UNCHANGED <<sent, fext, wireEvents>>

(* refillUpkeep: a request is too old *)
CancelRequest(p, b) ==
    /\ CanChoose(p, "other", MaxWireEvents)
    /\ b \in side[p].pending
    /\ side' = [side EXCEPT ![p].pending = @ \ {b}]
    /\ Send(p, <<Msg("CANCEL", {b})>>)
    /\ UNCHANGED <<sent, fext>>

(* Another peer delivers the block: this one's request is cancelled, and   *)
(* every peer learns of the piece                                          *)
GotElsewhere(p, b) ==
    /\ CanChoose(p, "other", MaxWireEvents)
    /\ b \notin side[p].have
    /\ side' = [side EXCEPT ![p].have = @ \cup {b}, ![p].pending = @ \ {b}]
    /\ Send(p, Msgs("CANCEL", side[p].pending \cap {b}) \o <<Msg("HAVE", {b})>>)
    /\ UNCHANGED <<sent, fext>>

(* The piece fails a check on the disk: nobody is told *)
LosePiece(p, b) ==
    /\ CanChoose(p, "other", MaxWireEvents)
    /\ b \in side[p].have
    /\ side' = [side EXCEPT ![p].have = @ \ {b}]
    /\ UNCHANGED <<out, sent, fext>>

(***************************************************************************)
(* peerPulse: ask for blocks, then fill the output buffer until a turn     *)
(* writes nothing.  Flushed or not is the batch period's choice; how many  *)
(* are served is the bandwidth's.                                          *)
(***************************************************************************)
Wanted(p) == (side[p].peerHave \ side[p].have) \ side[p].pending
MayAsk(p) == /\ ~IsSeed(p) /\ ~side[p].clientIsChoked /\ side[p].clientIsInterested
             /\ 100 * Cardinality(side[p].pending) <= 66 * DesiredRequests
             /\ Wanted(p) # {}
(* tr_peerMgrGetNextRequests fills the quota if it can *)
Asks(p) ==
    IF ~MayAsk(p) THEN {{}}
    ELSE LET room == DesiredRequests - Cardinality(side[p].pending)
             n == IF room < Cardinality(Wanted(p)) THEN room ELSE Cardinality(Wanted(p))
         IN  kSubset(n, Wanted(p))

(* The blocks that go out of the first n requests; if the last one cannot  *)
(* be read it is rejected and the pulse ends                               *)
Served(p, n, bad) == {i \in 1..n : side[p].asked[i] \in side[p].have /\ ~(bad /\ i = n)}
Pulse(p) ==
    \E ask \in Asks(p), flush \in BOOLEAN, n \in 0..Len(side[p].asked), bad \in BOOLEAN :
        LET queued == out[p] \o Msgs("REQUEST", ask)
            first == SubSeq(side[p].asked, 1, n)
            good == Served(p, n, bad)
            pieces == Those([i \in 1..n |-> Msg("PIECE", {first[i]})], good)
            refused == Those(first, (1..n) \ good)
        IN  /\ ask # {} \/ flush \/ n > 0
            /\ bad => n > 0 /\ first[n] \in side[p].have /\ CanChoose(p, "other", MaxWireEvents)
            /\ ~bad => UNCHANGED wireEvents
            /\ side' = [side EXCEPT ![p].pending = @ \cup ask,
                                    ![p].asked = SubSeq(@, n + 1, Len(@))]
            /\ sent' = [sent EXCEPT ![p] = @ \o (IF flush THEN queued ELSE <<>>)
                            \o pieces]
            /\ out' = [out EXCEPT ![p] = (IF flush THEN <<>> ELSE queued) \o Rejects(refused)]
            /\ UNCHANGED fext

(***************************************************************************)
(* readBtMessage and readBtPiece, for the next message of the stream       *)
(***************************************************************************)
Set(p, s) == side' = [side EXCEPT ![p] = s] /\ UNCHANGED out
CanAccept(p, b) == /\ b \in side[p].have
                   /\ ~side[p].peerIsChoked
                   /\ Len(side[p].asked) + 1 < Reqq

PeerMadeRequest(p, b) ==
    IF CanAccept(p, b) THEN Set(p, [side[p] EXCEPT !.asked = Append(@, b)])
    ELSE UNCHANGED side /\ Send(p, Rejects(<<b>>))

PeerCancelled(p, b) == Set(p, [side[p] EXCEPT !.asked = RemoveFirst(@, b)])

(* clientGotBlock: only what was asked for and is still missing is kept *)
GotBlock(p, b) ==
    IF b \in side[p].pending /\ b \notin side[p].have
    THEN /\ side' = [side EXCEPT ![p].pending = @ \ {b}, ![p].have = @ \cup {b}]
         /\ Send(p, <<Msg("HAVE", {b})>>)
    ELSE UNCHANGED <<side, out>>

(* Without the fast extension a choke declines every request *)
GotChoke(s) == [s EXCEPT !.clientIsChoked = TRUE, !.pending = IF fext THEN @ ELSE {}]
Learned(s, m) ==
    CASE m.type = "CHOKE"          -> GotChoke(s)
      [] m.type = "UNCHOKE"        -> [s EXCEPT !.clientIsChoked = FALSE]
      [] m.type = "INTERESTED"     -> [s EXCEPT !.peerIsInterested = TRUE]
      [] m.type = "NOT_INTERESTED" -> [s EXCEPT !.peerIsInterested = FALSE]
      [] m.type = "HAVE"           -> [s EXCEPT !.peerHave = @ \cup m.arg]
      [] m.type = "BITFIELD"       -> [s EXCEPT !.peerHave = m.arg]
      [] m.type = "HAVE_ALL"       -> [s EXCEPT !.peerHave = MsgBlocks]
      [] m.type = "HAVE_NONE"      -> [s EXCEPT !.peerHave = {}]
      [] m.type = "REJECT"         -> [s EXCEPT !.pending = @ \ m.arg]

Receive(p) ==
    LET q == Other(p)
        m == Head(sent[q])
    IN  /\ sent[q] # <<>>
        /\ sent' = [sent EXCEPT ![q] = Tail(@)]
        /\ CASE m.type = "REQUEST" -> \E b \in m.arg : PeerMadeRequest(p, b)
             [] m.type = "CANCEL"  -> \E b \in m.arg : PeerCancelled(p, b)
             [] m.type = "PIECE"   -> \E b \in m.arg : GotBlock(p, b)
             [] OTHER              -> Set(p, Learned(side[p], m))
        /\ UNCHANGED <<fext, wireEvents>>

WireNext ==
    \E p \in Sides :
        \/ \E c \in BOOLEAN : SetChoke(p, c)
        \/ SetInterested(p)
        \/ \E b \in MsgBlocks : CancelRequest(p, b)
        \/ \E b \in MsgBlocks : GotElsewhere(p, b)
        \/ \E b \in MsgBlocks : LosePiece(p, b)
        \/ Pulse(p)
        \/ Receive(p)
WireSpec == WireInit /\ [][WireNext]_wireVars

(***************************************************************************)
(* Properties                                                              *)
(***************************************************************************)
WireTypeOK ==
    /\ side \in [Sides -> PeerState]
    /\ \A p \in Sides : out[p] \in Seq(Message) /\ sent[p] \in Seq(Message)
    /\ fext \in BOOLEAN

(* What is still on its way from p to the other side *)
Underway(p) == sent[p] \o out[p]
OnTheWay(p, t, b) == Contains(Underway(p), Msg(t, {b}))

(* With the fast extension no request gets lost: what a side waits for is  *)
(* on its way to the peer, in the peer's queue, or answered with a block   *)
(* or a REJECT on its way back, whatever chokes, cancels, lost pieces and  *)
(* blocks that overtake messages come between (cancelAllRequestsToClient,  *)
(* peerMadeRequest, fillOutputBuffer)                                      *)
Accounted(p, b) ==
    \/ OnTheWay(p, "REQUEST", b)
    \/ Contains(side[Other(p)].asked, b)
    \/ OnTheWay(Other(p), "PIECE", b) \/ OnTheWay(Other(p), "REJECT", b)
RequestsAccounted == fext => \A p \in Sides : \A b \in side[p].pending : Accounted(p, b)

(* The value of a flag after the messages on the way have been read *)
Settled(ms, on, off, now) ==
    LET ts == {i \in DOMAIN ms : ms[i].type \in {on, off}}
    IN  IF ts = {} THEN now ELSE ms[Max(ts)].type = on

(* What each side believes of the other is what the other decided, once    *)
(* the messages on their way are read; a choked peer has no request left   *)
(* in the queue; a piece is never hidden from the peer                     *)
ViewsAgree ==
    \A p \in Sides : LET q == Other(p) ms == Underway(p) IN
        /\ Settled(ms, "CHOKE", "UNCHOKE", side[q].clientIsChoked) = side[p].peerIsChoked
        /\ Settled(ms, "INTERESTED", "NOT_INTERESTED", side[q].peerIsInterested)
             = side[p].clientIsInterested
        /\ side[p].peerIsChoked => side[p].asked = <<>>
        /\ \A b \in side[p].have :
             \/ b \in side[q].peerHave
             \/ \E i \in DOMAIN ms : \/ ms[i].type \in {"HAVE", "BITFIELD"} /\ b \in ms[i].arg
                                     \/ ms[i].type = "HAVE_ALL"

=============================================================================
