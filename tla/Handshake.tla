------------------------------ MODULE Handshake ------------------------------
(***************************************************************************)
(* The two ends of handshake.c over a peer-io: the encrypted handshake,    *)
(* the plaintext one, and the retry after an error.  "A" connects, "B" is  *)
(* connected to; both run this code, unless A is another client that       *)
(* offers plaintext inside the encrypted handshake.                        *)
(* A message is a token; pos is its place in the key stream (0: plain).    *)
(* crypto.c: before EncryptInit the RC4 table is all zeros and leaves the  *)
(* bytes as they are; encPos and decPos 0 stand for that.                  *)
(***************************************************************************)
EXTENDS Integers, SequencesExt

CONSTANTS Modes,           \* encryption modes the ends are configured with
          ForeignClients,  \* a set of BOOLEAN: may A be another client?
          MaxHsAccidents   \* errors, time-outs and unlucky keys
ASSUME HsAssumption == /\ Modes \subseteq {"REQUIRED", "PREFERRED", "CLEAR"}
                       /\ ForeignClients \subseteq BOOLEAN
                       /\ MaxHsAccidents \in Nat

Ends == {"A", "B"}
Peer(e) == IF e = "A" THEN "B" ELSE "A"
CryptoOptions == {"plaintext", "crypto"}
Whats == {"Ya", "Yb", "PadB", "Req1", "Skey", "VC", "Provide", "Select", "HS", "ID", "Junk"}
NotYet == {"HANDSHAKE", "PEER_ID", "YA", "PAD_A", "CRYPTO_PROVIDE", "IA", "PAYLOAD_STREAM",
           "YB", "VC", "CRYPTO_SELECT"}
Ended == {"connected", "failed"}

VARIABLES
    hs,          \* hs[e]: the tr_handshake of an end and its peer-io's cipher
    hsOut,       \* hsOut[e]: outbuf, not yet in the socket
    wire,        \* wire[e]: what has been sent to e and not yet read
    utp,         \* the connection is a uTP one
    foreign,     \* A is another client
    hsAccidents
hsVars == <<hs, hsOut, wire, utp, foreign, hsAccidents>>

Token == [what : Whats, pos : Nat, arg : SUBSET CryptoOptions]
Plain(w) == [what |-> w, pos |-> 0, arg |-> {}]
With(w, a) == [Plain(w) EXCEPT !.arg = a]
Hello == <<Plain("HS"), Plain("ID")>>     \* buildHandshakeMessage

(* tr_peerIoSetEncryption, tr_cryptoEncryptInit, tr_cryptoDecryptInit *)
SetEncryption(h, e) == [h EXCEPT !.enc = e]
EncryptInit(h) == [h EXCEPT !.encPos = 1]
DecryptInit(h) == [h EXCEPT !.decPos = 1]

(* tr_peerIoWriteBuf: what goes out, and the cipher after it *)
Keyed(h) == h.enc = "crypto" /\ h.encPos > 0
Encrypt(h, ts) == IF Keyed(h) THEN [i \in DOMAIN ts |-> [ts[i] EXCEPT !.pos = h.encPos + i - 1]] ELSE ts
Wrote(h, ts) == IF Keyed(h) THEN [h EXCEPT !.encPos = @ + Len(ts)] ELSE h

(* tr_peerIoReadBytes: does the token decrypt, and the cipher after it *)
Legible(h, t) == t.pos = IF h.enc = "crypto" THEN h.decPos ELSE 0
WasRead(h, n) == IF h.enc = "crypto" /\ h.decPos > 0 THEN [h EXCEPT !.decPos = @ + n] ELSE h

(* Mutant: plaintext is always offered *)
Provide_Both(mode) == CryptoOptions
(* getCryptoProvide, getCryptoSelect *)
Provide(mode) == IF mode = "CLEAR" \/ foreign THEN CryptoOptions ELSE {"crypto"}
Preferred(mode) == IF mode = "CLEAR" THEN "plaintext" ELSE "crypto"
Allowed(mode) == IF mode = "REQUIRED" THEN {"crypto"} ELSE CryptoOptions
Select(mode, provided) ==     \* the set of what is selected: one option, or none
    IF Preferred(mode) \in provided THEN {Preferred(mode)} ELSE Allowed(mode) \cap provided

Fresh(e, mode) == [state |-> "HANDSHAKE", mode |-> mode, enc |-> "plaintext", encPos |-> 0,
                   decPos |-> 0, sentHello |-> FALSE, select |-> {}, retried |-> FALSE]

(* tr_handshakeNew: the end that connects speaks first *)
SpeaksClear(mode) == mode = "CLEAR"
HsInit ==
    /\ utp \in BOOLEAN /\ foreign \in ForeignClients /\ hsAccidents = 0
    /\ \E a \in Modes, b \in Modes :
         /\ foreign => a = "PREFERRED"
         /\ hs = [e \in Ends |->
              IF e = "B" THEN Fresh(e, b)
              ELSE [Fresh(e, a) EXCEPT !.state = IF SpeaksClear(a) THEN "HANDSHAKE" ELSE "YB",
                                       !.sentHello = SpeaksClear(a)]]
         /\ hsOut = [e \in Ends |-> IF e = "B" THEN <<>>
                                    ELSE IF SpeaksClear(a) THEN Hello ELSE <<Plain("Ya")>>]
    /\ wire = [e \in Ends |-> <<>>]

(***************************************************************************)
(* One step of canRead: each reader returns the end's new record, what it  *)
(* writes and what it leaves unread                                        *)
(***************************************************************************)
Got(h, ts, rest) == [h |-> h, ts |-> ts, rest |-> rest]
To(h, s) == [h EXCEPT !.state = s]
Has(s, ws) == Len(s) >= Len(ws) /\ \A i \in DOMAIN ws : s[i].what = ws[i]
After(s, n) == SubSeq(s, n + 1, Len(s))
Fail(h, s) == Got(To(h, "failed"), <<>>, s)

(* readYb: a plaintext answer, or the peer's key *)
ReadYb(h, s) ==
    IF Head(s) = Plain("HS") THEN Got(To(SetEncryption(h, "plaintext"), "HANDSHAKE"), <<>>, s)
    ELSE IF Head(s).what # "Yb" THEN Fail(h, s)
    ELSE LET keyed == EncryptInit(SetEncryption(h, "crypto"))
             body == <<Plain("VC"), With("Provide", Provide(h.mode))>> \o Hello
         IN  Got([To(DecryptInit(Wrote(keyed, body)), "VC") EXCEPT !.sentHello = TRUE],
                 <<Plain("Req1"), Plain("Skey")>> \o Encrypt(keyed, body), Tail(s))

(* readVC: drop bytes until one decrypts to VC *)
ReadVC(h, s) ==
    IF Head(s).what = "VC" /\ Head(s).pos = 1
    THEN Got(To([h EXCEPT !.decPos = 2], "CRYPTO_SELECT"), <<>>, Tail(s))
    ELSE Got(h, <<>>, Tail(s))

(* readCryptoSelect and readPadD *)
ReadCryptoSelect(h, s) ==
    LET t == Head(s) IN
    IF ~Legible(h, t) \/ t.arg \cap Provide(h.mode) = {} THEN Fail(h, s)
    ELSE Got(To(SetEncryption(WasRead(h, 1), CHOOSE c \in t.arg : TRUE), "HANDSHAKE"), <<>>, Tail(s))

(* Mutant: a plaintext handshake is taken in any mode *)
ReadHandshake_AnyMode(e, h, s) ==
    LET plain == Head(s) = Plain("HS")
        h2 == SetEncryption(h, IF plain THEN "plaintext" ELSE "crypto")
        h3 == WasRead(h2, 1)
        reply == IF h.sentHello THEN <<>> ELSE Hello
    IN  IF ~plain /\ e = "B" THEN Got(To(h2, "YA"), <<>>, s)
        ELSE Got([To(Wrote(h3, reply), "PEER_ID") EXCEPT !.sentHello = TRUE],
                 Encrypt(h3, reply), Tail(s))
(* readHandshake: both ends; an incoming one may turn out to be encrypted.  *)
(* The answer goes out unless a handshake has been sent before.             *)
ReadHandshake(e, h, s) ==
    LET plain == Head(s) = Plain("HS")
        h2 == SetEncryption(h, IF plain THEN "plaintext" ELSE "crypto")
        h3 == WasRead(h2, 1)
        reply == IF h.sentHello THEN <<>> ELSE Hello
    IN  IF plain /\ h.mode = "REQUIRED" THEN Fail(h2, s)
        ELSE IF ~plain /\ e = "B" THEN Got(To(h2, "YA"), <<>>, s)
        ELSE IF Head(s).what # "HS" \/ ~Legible(h2, Head(s)) THEN Fail(h2, s)
        ELSE Got([To(Wrote(h3, reply), "PEER_ID") EXCEPT !.sentHello = TRUE],
                 Encrypt(h3, reply), Tail(s))

ReadPeerId(h, s) == IF Legible(h, Head(s)) THEN Got(To(WasRead(h, 1), "connected"), <<>>, Tail(s))
                    ELSE Fail(h, s)

ReadYa(h, s) == Got(To(h, "PAD_A"), Encrypt(h, <<Plain("Yb"), Plain("PadB")>>), Tail(s))

(* readPadA: resynchronize on HASH ('req1', S) *)
ReadPadA(h, s) == IF Head(s) = Plain("Req1") THEN Got(To(h, "CRYPTO_PROVIDE"), <<>>, s)
                  ELSE Got(h, <<>>, Tail(s))

(* readCryptoProvide and readPadC; the torrent may be unknown or unwanted *)
ReadCryptoProvide(h, s, wanted) ==
    IF ~wanted THEN Fail(h, s)
    ELSE Got([To(WasRead(DecryptInit(h), 2), "IA") EXCEPT !.select = s[4].arg], <<>>, After(s, 4))

(* readIA waits for the peer's first payload and answers before it reads it *)
ReadIA(h, s) ==
    LET choice == Select(h.mode, h.select)
        k == EncryptInit(h)
        answer == <<Plain("VC"), With("Select", choice)>>
        k2 == SetEncryption(Wrote(k, answer), CHOOSE c \in choice : TRUE)
    IN  IF choice = {} THEN Fail(h, s)
        ELSE Got([To(Wrote(k2, Hello), "PAYLOAD_STREAM") EXCEPT !.sentHello = TRUE],
                 Encrypt(k, answer) \o Encrypt(k2, Hello), s)

(* readPayloadStream, parseHandshake *)
ReadPayload(h, s) == IF Legible(h, s[1]) THEN Got(To(WasRead(h, 2), "connected"), <<>>, After(s, 2))
                     ELSE Fail(h, s)

(* What a state waits for, in tokens; more may come in one segment *)
Enough(h, s) ==
    CASE h.state = "YA"              -> Has(s, <<"Ya">>)
      [] h.state = "CRYPTO_PROVIDE"  -> Has(s, <<"Req1", "Skey", "VC", "Provide">>)
      [] h.state \in {"IA", "PAYLOAD_STREAM"} -> Len(s) >= 2
      [] h.state = "CRYPTO_SELECT"   -> Has(s, <<"Select">>)
      [] h.state \in Ended           -> FALSE
      [] OTHER                       -> s # <<>>

Outcome(e, h, s, wanted) ==
    CASE h.state = "YB"              -> ReadYb(h, s)
      [] h.state = "VC"              -> ReadVC(h, s)
      [] h.state = "CRYPTO_SELECT"   -> ReadCryptoSelect(h, s)
      [] h.state = "HANDSHAKE"       -> ReadHandshake(e, h, s)
      [] h.state = "PEER_ID"         -> ReadPeerId(h, s)
      [] h.state = "YA"              -> ReadYa(h, s)
      [] h.state = "PAD_A"           -> ReadPadA(h, s)
      [] h.state = "CRYPTO_PROVIDE"  -> ReadCryptoProvide(h, s, wanted)
      [] h.state = "IA"              -> ReadIA(h, s)
      [] h.state = "PAYLOAD_STREAM"  -> ReadPayload(h, s)

Accident == /\ hsAccidents < MaxHsAccidents
            /\ hsAccidents' = hsAccidents + 1

HsCanRead(e) ==
    \E wanted \in BOOLEAN :
        LET r == Outcome(e, hs[e], wire[e], wanted)
        IN  /\ Enough(hs[e], wire[e])
            /\ wanted \/ hs[e].state = "CRYPTO_PROVIDE"
            /\ IF wanted THEN UNCHANGED hsAccidents ELSE Accident
            /\ hs' = [hs EXCEPT ![e] = r.h]
            /\ hsOut' = [hsOut EXCEPT ![e] = @ \o r.ts]
            /\ wire' = [wire EXCEPT ![e] = r.rest]
            /\ UNCHANGED <<utp, foreign>>

(* A public key may begin with the length byte of a plaintext handshake *)
UnluckyKey ==
    /\ Accident
    /\ hs["B"].state = "HANDSHAKE" /\ wire["B"] # <<>> /\ Head(wire["B"]).what = "Ya"
    /\ hs' = [hs EXCEPT !["B"].state = "failed"]
    /\ UNCHANGED <<hsOut, wire, utp, foreign>>

(* event_write_cb: the socket takes what it can *)
HsFlush(e) ==
    /\ hsOut[e] # <<>>
    /\ hsOut' = [hsOut EXCEPT ![e] = Tail(@)]
    /\ wire' = [wire EXCEPT ![Peer(e)] = Append(@, Head(hsOut[e]))]
    /\ UNCHANGED <<hs, utp, foreign, hsAccidents>>

(***************************************************************************)
(* Errors                                                                  *)
(***************************************************************************)
(* handshakeTimeout *)
HsTimeout(e) ==
    /\ Accident
    /\ hs[e].state \in NotYet
    /\ hs' = [hs EXCEPT ![e].state = "failed"]
    /\ UNCHANGED <<hsOut, wire, utp, foreign>>

(* tr_peerIoReconnect: a new socket; the cipher and both buffers stay as    *)
(* they are, with what the old connection had left in them                  *)
Reconnected(end, left) ==
    /\ wire' = [e \in Ends |-> IF e = "A" /\ left THEN <<Plain("Junk")>> ELSE <<>>]
    /\ hsOut' = [e \in Ends |-> IF e = "A" THEN hsOut["A"] \o Encrypt(hs["A"], Hello) ELSE <<>>]
    /\ hs' = [hs EXCEPT !["A"] = [To(Wrote(@, Hello), end) EXCEPT !.sentHello = TRUE, !.retried = TRUE],
                        !["B"] = Fresh("B", @.mode)]

(* gotError: an error while the key is sent may mean that the peer does not *)
(* encrypt (or, over uTP, that it has no uTP: that retry is also given up)  *)
MayRetry(h) == h.state \in {"YB", "VC"} /\ h.mode # "REQUIRED"
HsGotError(e) ==
    LET h == hs[e]
        noUtp == e = "A" /\ utp /\ h.state = "YB"
    IN  /\ h.state \in NotYet
        /\ IF hs[Peer(e)].state = "failed" THEN UNCHANGED hsAccidents ELSE Accident
        /\ \/ /\ noUtp
              /\ Reconnected("failed", FALSE)
              /\ utp' = FALSE
           \/ /\ ~noUtp /\ e = "A" /\ MayRetry(h)
              /\ \E left \in BOOLEAN : /\ left => wire["A"] # <<>>
                                       /\ Reconnected("HANDSHAKE", left)
              /\ utp' = FALSE
           \/ /\ hs' = [hs EXCEPT ![e].state = "failed"]
              /\ UNCHANGED <<hsOut, wire, utp>>
        /\ UNCHANGED foreign

HsNext == \/ \E e \in Ends : HsCanRead(e) \/ HsFlush(e) \/ HsTimeout(e) \/ HsGotError(e)
          \/ UnluckyKey
HsSpec == HsInit /\ [][HsNext]_hsVars

(***************************************************************************)
(* Properties                                                              *)
(***************************************************************************)
EndRecord == [state : NotYet \cup Ended, mode : Modes, enc : CryptoOptions, encPos : Nat,
              decPos : Nat, sentHello : BOOLEAN, select : SUBSET CryptoOptions, retried : BOOLEAN]
HsTypeOK == /\ hs \in [Ends -> EndRecord]
            /\ \A e \in Ends : hsOut[e] \in Seq(Token) /\ wire[e] \in Seq(Token)

(* Two connected ends use the same cipher at the same place of its stream,  *)
(* and the one both asked for (setEncryption in readPadD and readIA)        *)
HandshakeAgrees ==
    (\A e \in Ends : hs[e].state = "connected") =>
        /\ hs["A"].enc = hs["B"].enc
        /\ \A e \in Ends :
             /\ hs[e].mode = "REQUIRED" => hs[e].enc = "crypto"
             /\ hs[e].enc = "crypto" => hs[e].encPos = hs[Peer(e)].decPos

(* A handshake fails only for a reason: the modes cannot agree, or there    *)
(* was an error, a time-out or an unlucky key                               *)
NoNeedlessFailure ==
    (\E e \in Ends : hs[e].state = "failed") =>
        hsAccidents > 0 \/ (hs["A"].mode = "CLEAR" /\ hs["B"].mode = "REQUIRED")

(* handshake.c:1150 "reconnect and try a plaintext handshake": the first    *)
(* the new connection carries is a handshake anyone can read                *)
FallbackIsPlain ==
    (hs["A"].retried /\ hs["A"].state # "failed" /\ hs["B"].state = "HANDSHAKE") =>
        Head(wire["B"] \o hsOut["A"]) = Plain("HS")
=============================================================================
