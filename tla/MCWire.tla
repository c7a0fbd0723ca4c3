------------------------------- MODULE MCWire -------------------------------
(***************************************************************************)
(* Small instances of what happens on one connection: the handshake, the   *)
(* messages, the extensions, and the peer-io objects under a speed limit.  *)
(* Each behaviour exercises one of them.                                   *)
(***************************************************************************)
EXTENDS Handshake, PeerMsgs, Extensions, PeerIo, TLC

VARIABLE part
IoSymmetry == Permutations(Ios)

WireInitAll ==
    /\ part \in {"handshake", "messages", "extensions", "io"}
    /\ IF part = "handshake" THEN HsInit
       ELSE hs = <<>> /\ hsOut = <<>> /\ wire = <<>> /\ utp = FALSE /\ foreign = FALSE /\ hsAccidents = 0
    /\ IF part = "messages" THEN WireInit
       ELSE side = <<>> /\ out = <<>> /\ sent = <<>> /\ fext = FALSE /\ wireEvents = <<>>
    /\ IF part = "extensions" THEN ExtInit
       ELSE /\ meta = <<>> /\ msgs = <<>> /\ askedMeta = <<>> /\ toPeer = <<>> /\ toUs = <<>>
            /\ connected = {} /\ told = <<>> /\ allowsPex = FALSE /\ usable = FALSE /\ extEvents = 0
    /\ IF part = "io" THEN IoInit
       ELSE /\ band = <<>> /\ outbuf = <<>> /\ queued = <<>> /\ owned = {} /\ refs = <<>>
            /\ enabled = <<>> /\ pulse = <<>> /\ allotted = <<>> /\ used = <<>> /\ ioEvents = 0

WireNextAll ==
    \/ part = "handshake"  /\ HsNext   /\ UNCHANGED <<part, wireVars, extVars, ioVars>>
    \/ part = "messages"   /\ WireNext /\ UNCHANGED <<part, hsVars, extVars, ioVars>>
    \/ part = "extensions" /\ ExtNext  /\ UNCHANGED <<part, hsVars, wireVars, ioVars>>
    \/ part = "io"         /\ IoNext   /\ UNCHANGED <<part, hsVars, wireVars, extVars>>
WireSpecAll == WireInitAll /\ [][WireNextAll]_<<part, hsVars, wireVars, extVars, ioVars>>

(* A handshake ends in agreement, and fails only for a reason              *)
(* (handshake.c, both ends)                                                *)
HandshakeSound == part = "handshake" => HsTypeOK /\ HandshakeAgrees /\ NoNeedlessFailure

(* With the fast extension no request gets lost, and each side's view of   *)
(* the other becomes what the other decided (peer-msgs.c)                  *)
ConversationSound == part = "messages" => WireTypeOK /\ RequestsAccounted /\ ViewsAgree

(* Every piece of the metadata is needed or held, and every peer knows the *)
(* peers we think we told it of (torrent-magnet.c, sendPex)                *)
ExtensionsSound == part = "extensions" => ExtTypeOK /\ MetadataAccounted /\ PexRemembered

(* No limited bandwidth gives more than its allotment, and a connection    *)
(* accounts for its bytes and its references (bandwidth.c, peer-io.c)      *)
AllotmentsKept == part = "io" => IoTypeOK /\ WithinAllotment
=============================================================================
