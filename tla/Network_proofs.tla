---------------------------- MODULE Network_proofs ----------------------------
(***************************************************************************)
(* The proofs about the parts of the network: UDP trackers, port             *)
(* forwarding, the cache of open files, web seeds, peers without trackers,   *)
(* the swarm, requests of blocks; and, at the end, all of them carried over  *)
(* to the specification that TLC checks.                                     *)
(***************************************************************************)
EXTENDS MCNetwork, FiniteSetTheorems, SequenceTheorems, WellFoundedInduction, TLAPS

-----------------------------------------------------------------------------
(* Numbers *)
\* A set of naturals has a least element.
LEMMA LeastNat ==
    ASSUME NEW T \in SUBSET Nat, T # {}
    PROVE  \E x \in T : \A y \in T : x <= y
<1> DEFINE R == OpToRel(<, Nat)
<1>1. IsWellFoundedOn(R, Nat)
  BY NatLessThanWellFounded
<1>2. \A x, y \in Nat : y < x => <<y, x>> \in R
  BY DEF OpToRel
<1> HIDE DEF R
<1>3. PICK x \in T : \A y \in T : ~(<<y, x>> \in R)
  BY <1>1, WFMin
<1>4. \A y \in T : ~(y < x)
  BY <1>2, <1>3
<1>5. \A y \in T : x <= y
  BY <1>4, <1>3, SMT
<1> QED
  BY <1>5

-----------------------------------------------------------------------------
(***************************************************************************)
(* For any trackers and requests: the announcer hears once of each request *)
(* to a UDP tracker, whatever is lost, repeated or late, and the shut-down  *)
(* leaves no request two passes after its deadline.                        *)
(*                                                                         *)
(* The functions of announcer-udp.c take a world and give another; what     *)
(* they keep is stated of worlds (WorldOK), first for the small ones.       *)
(***************************************************************************)
TauRecord == [asking : BOOLEAN, addr : BOOLEAN, connecting : BOOLEAN, overdue : BOOLEAN,
              connected : BOOLEAN, tx : Nat, lookups : 0..MaxLookups]
ReqRecord == [at : Trackers \cup {"none", "done"}, sent : BOOLEAN, old : BOOLEAN, callback : BOOLEAN]
AnswerRecord == [n : {0, 1}, last : Outcomes \cup {"none"}]
Worlds == [tau : [Trackers -> TauRecord], req : [UdpRequests -> ReqRecord],
           answers : [UdpRequests -> AnswerRecord]]

\* A connection that is there or on its way has an id.
TrackerOK(x) ==
    /\ x.connected => ~x.connecting
    /\ x.asking => ~x.addr
    /\ x.connected \/ x.connecting => x.tx > 0

\* A request was answered exactly if it is done and somebody waited for it.
RequestOK(w, r) ==
    /\ w.req[r].at = "none" => ~w.req[r].sent
    /\ w.answers[r].n = 1 <=> w.req[r].at = "done" /\ w.req[r].callback
    /\ w.answers[r].last = "ok" => w.req[r].sent
    /\ w.req[r].at \in Trackers /\ w.req[r].sent => w.tau[w.req[r].at].tx > 0

WorldOK(w) ==
    /\ w \in Worlds
    /\ \A k \in Trackers : TrackerOK(w.tau[k])
    /\ \A r \in UdpRequests : RequestOK(w, r)

-----------------------------------------------------------------------------
\* What Answer does, part by part.
LEMMA AnswerParts ==
    ASSUME NEW w \in Worlds, NEW S \in SUBSET UdpRequests, NEW o \in Outcomes,
           \A r \in S : w.answers[r].n = 0 \/ ~w.req[r].callback
    PROVE  LET a == Answer(w, S, o)
           IN  /\ a \in Worlds /\ a.tau = w.tau
               /\ \A r \in UdpRequests :
                    /\ a.req[r].sent = w.req[r].sent /\ a.req[r].callback = w.req[r].callback
                    /\ r \in S => a.req[r].at = "done"
                    /\ r \notin S => a.req[r] = w.req[r]
                    /\ r \in S /\ w.req[r].callback => a.answers[r].n = 1 /\ a.answers[r].last = o
                    /\ ~(r \in S /\ w.req[r].callback) => a.answers[r] = w.answers[r]
<1> DEFINE a == Answer(w, S, o)
<1>1. a.req \in [UdpRequests -> ReqRecord]
  BY DEF Worlds, Answer, ReqRecord
<1>2. a.answers \in [UdpRequests -> AnswerRecord]
  BY DEF Worlds, Answer, AnswerRecord
<1>3. a.tau = w.tau
  BY DEF Worlds, Answer
<1>4. a \in Worlds
  <2>1. \A X \in [UdpRequests -> ReqRecord], Y \in [UdpRequests -> AnswerRecord] :
           [w EXCEPT !.req = X, !.answers = Y] \in Worlds
    BY DEF Worlds
  <2>2. \E X, Y : a = [w EXCEPT !.req = X, !.answers = Y] /\ a.req = X /\ a.answers = Y
    BY DEF Worlds, Answer
  <2> QED
    BY <1>1, <1>2, <2>1, <2>2
<1>5. ASSUME NEW r \in UdpRequests
      PROVE  /\ a.req[r].sent = w.req[r].sent /\ a.req[r].callback = w.req[r].callback
             /\ r \in S => a.req[r].at = "done"
             /\ r \notin S => a.req[r] = w.req[r]
  BY DEF Worlds, Answer, ReqRecord
<1>6. ASSUME NEW r \in UdpRequests
      PROVE  /\ r \in S /\ w.req[r].callback => a.answers[r].n = 1 /\ a.answers[r].last = o
             /\ ~(r \in S /\ w.req[r].callback) => a.answers[r] = w.answers[r]
  BY DEF Worlds, Answer, AnswerRecord
<1> QED
  BY <1>3, <1>4, <1>5, <1>6

\* Answering requests that wait for an answer keeps a world in order.
LEMMA AnswerOK ==
    ASSUME NEW w, WorldOK(w), NEW S \in SUBSET UdpRequests, NEW o \in Outcomes,
           \A r \in S : w.req[r].at \in Trackers,
           o = "ok" => \A r \in S : w.req[r].sent
    PROVE  LET a == Answer(w, S, o)
           IN  /\ WorldOK(a) /\ a.tau = w.tau
               /\ \A r \in UdpRequests : /\ r \in S => a.req[r].at = "done"
                                         /\ r \notin S => a.req[r] = w.req[r]
<1> DEFINE a == Answer(w, S, o)
<1>1. w \in Worlds /\ \A r \in UdpRequests : w.answers[r].n \in {0, 1}
  BY DEF WorldOK, Worlds, AnswerRecord
<1>2. \A r \in S : w.answers[r].n = 0 /\ w.answers[r].n # 1
  BY <1>1, UdpAssumption DEF WorldOK, RequestOK
<1>3. /\ a \in Worlds /\ a.tau = w.tau
      /\ \A r \in UdpRequests :
            /\ a.req[r].sent = w.req[r].sent /\ a.req[r].callback = w.req[r].callback
            /\ r \in S => a.req[r].at = "done"
            /\ r \notin S => a.req[r] = w.req[r]
            /\ r \in S /\ w.req[r].callback => a.answers[r].n = 1 /\ a.answers[r].last = o
            /\ ~(r \in S /\ w.req[r].callback) => a.answers[r] = w.answers[r]
  BY <1>1, <1>2, AnswerParts
<1>4. ASSUME NEW r \in UdpRequests PROVE RequestOK(a, r)
  <2>1. RequestOK(w, r)
    BY DEF WorldOK
  <2>2. CASE r \notin S
    BY <1>3, <2>1, <2>2 DEF RequestOK
  <2>3. CASE r \in S
    BY <1>2, <1>3, <2>1, <2>3, UdpAssumption DEF RequestOK
  <2> QED
    BY <2>2, <2>3
<1>5. \A k \in Trackers : TrackerOK(a.tau[k])
  BY <1>3 DEF WorldOK
<1> QED
  BY <1>3, <1>4, <1>5 DEF WorldOK

\* A tracker may be given another state, as long as its number of ids does not
\* become none.
LEMMA TrackerSet ==
    ASSUME NEW w, WorldOK(w), NEW k \in Trackers, NEW x \in TauRecord, TrackerOK(x),
           w.tau[k].tx > 0 => x.tx > 0
    PROVE  LET a == [w EXCEPT !.tau[k] = x]
           IN  /\ WorldOK(a) /\ a.tau[k] = x
               /\ a.req = w.req /\ a.answers = w.answers
<1> DEFINE a == [w EXCEPT !.tau[k] = x]
<1>1. w \in Worlds
  BY DEF WorldOK
<1>2. /\ a \in Worlds /\ a.req = w.req /\ a.answers = w.answers /\ a.tau[k] = x
      /\ \A j \in Trackers : j # k => a.tau[j] = w.tau[j]
  BY <1>1 DEF Worlds
<1> HIDE DEF a
<1>3. \A j \in Trackers : TrackerOK(a.tau[j])
  BY <1>2 DEF WorldOK
<1>4. ASSUME NEW r \in UdpRequests PROVE RequestOK(a, r)
  BY <1>2 DEF WorldOK, RequestOK
<1>5. WorldOK(a)
  BY <1>2, <1>3, <1>4 DEF WorldOK
<1> QED
  BY <1>2, <1>5 DEF a

\* tau_tracker_fail_all empties the tracker's lists.
LEMMA FailAllOK ==
    ASSUME NEW w, WorldOK(w), NEW k \in Trackers
    PROVE  LET a == FailAll(w, k)
           IN  /\ WorldOK(a) /\ a.tau = w.tau /\ Pending(a, k) = {}
               /\ \A r \in UdpRequests : /\ w.req[r].at = k => a.req[r].at = "done"
                                         /\ w.req[r].at # k => a.req[r] = w.req[r]
<1>1. Pending(w, k) \in SUBSET UdpRequests /\ \A r \in Pending(w, k) : w.req[r].at \in Trackers
  BY DEF Pending
<1>2. "failed" \in Outcomes /\ "failed" # "ok"
  BY DEF Outcomes
<1>3. FailAll(w, k) = Answer(w, Pending(w, k), "failed")
  BY DEF FailAll
<1> DEFINE S == Pending(w, k)
           a == Answer(w, S, "failed")
<1>4. /\ WorldOK(a) /\ a.tau = w.tau
      /\ \A r \in UdpRequests : /\ r \in S => a.req[r].at = "done"
                                /\ r \notin S => a.req[r] = w.req[r]
  <2> HIDE DEF S
  <2> QED
    BY <1>1, <1>2, AnswerOK DEF S
<1> QED
  BY <1>3, <1>4, UdpAssumption DEF Pending

\* Where a tracker is after an upkeep of it: as it was, or with one step more.
Upkept(x, y) ==
    \/ y = x
    \/ /\ x.connecting /\ x.overdue
       /\ y.tx = x.tx /\ ~y.connecting
    \/ /\ ~x.addr /\ y.tx = x.tx /\ y.connecting = x.connecting /\ y.overdue = x.overdue
       /\ y.asking /\ ~y.addr
    \/ /\ ~x.connecting /\ y.connecting /\ ~y.overdue /\ y.tx = x.tx + 1 /\ y.addr

\* Nothing to do for an upkeep but to wait for replies.
Waits(x) == (x.addr \/ x.asking) /\ (x.addr => x.connected \/ x.connecting)

\* The connection request that was sent is heard of.
LEMMA ResponseOK ==
    ASSUME NEW w, WorldOK(w), NEW k \in Trackers, w.tau[k].connecting, NEW ok \in BOOLEAN
    PROVE  LET a == ConnectionResponse(w, k, ok)
           IN  /\ WorldOK(a)
               /\ ~a.tau[k].connecting /\ ~a.tau[k].overdue /\ a.tau[k].tx = w.tau[k].tx
               /\ a.tau[k].addr = w.tau[k].addr
               /\ ok => a.req = w.req
               /\ ~ok => Pending(a, k) = {}
               /\ \A r \in UdpRequests : w.req[r].at = k => a.req[r].at \in {k, "done"}
<1> DEFINE y == [w.tau[k] EXCEPT !.connecting = FALSE, !.overdue = FALSE, !.connected = @ \/ ok]
           h == [w EXCEPT !.tau[k] = y]
<1>1. w.tau[k] \in TauRecord /\ TrackerOK(w.tau[k]) /\ w \in Worlds
  BY DEF WorldOK, Worlds
<1>2. /\ y \in TauRecord
      /\ y.asking = w.tau[k].asking /\ y.addr = w.tau[k].addr /\ y.tx = w.tau[k].tx
      /\ ~y.connecting /\ ~y.overdue
  BY <1>1 DEF TauRecord
<1>3. TrackerOK(y) /\ (w.tau[k].tx > 0 => y.tx > 0)
  BY <1>1, <1>2 DEF TrackerOK
<1>4. WorldOK(h) /\ h.tau[k] = y /\ h.req = w.req /\ h.answers = w.answers
  <2> HIDE DEF y
  <2> QED
    BY <1>2, <1>3, TrackerSet
<1>5. ConnectionResponse(w, k, ok) = IF ok THEN h ELSE FailAll(h, k)
  BY DEF ConnectionResponse
<1> HIDE DEF h, y
<1>6. CASE ok
  BY <1>2, <1>4, <1>5, <1>6
<1>7. CASE ~ok
  <2>1. WorldOK(FailAll(h, k)) /\ FailAll(h, k).tau = h.tau /\ Pending(FailAll(h, k), k) = {}
        /\ \A r \in UdpRequests : h.req[r].at = k => FailAll(h, k).req[r].at = "done"
    BY <1>4, FailAllOK
  <2> QED
    BY <1>2, <1>4, <1>5, <1>7, <2>1
<1> QED
  BY <1>6, <1>7

\* An idle tracker asks for nothing.
LEMMA NeedsCases ==
    ASSUME NEW w, NEW k, w.tau[k].addr \in BOOLEAN, w.tau[k].asking \in BOOLEAN,
           w.tau[k].connected \in BOOLEAN, w.tau[k].connecting \in BOOLEAN
    PROVE  \/ Needs(w, k) = "nothing" /\ Pending(w, k) = {}
           \/ Needs(w, k) = "lookup" /\ ~w.tau[k].addr /\ ~w.tau[k].asking /\ Pending(w, k) # {}
           \/ /\ Needs(w, k) = "connection" /\ Pending(w, k) # {}
              /\ w.tau[k].addr /\ ~w.tau[k].connected /\ ~w.tau[k].connecting
           \/ Needs(w, k) = "replies" /\ Waits(w.tau[k]) /\ Pending(w, k) # {}
BY DEF Needs, UdpIdle, Waits

\* An address or a connection is asked for.
LEMMA AsksOK ==
    ASSUME NEW w, WorldOK(w), NEW k \in Trackers, Needs(w, k) \in {"lookup", "connection"}
    PROVE  LET a == Asks(w, k, Needs(w, k))
           IN  WorldOK(a) /\ a.req = w.req /\ Waits(a.tau[k]) /\ Upkept(w.tau[k], a.tau[k])
<1>1. w.tau[k] \in TauRecord /\ TrackerOK(w.tau[k]) /\ w \in Worlds
  BY DEF WorldOK, Worlds
<1>2. \/ Needs(w, k) = "lookup" /\ ~w.tau[k].addr /\ ~w.tau[k].asking
      \/ Needs(w, k) = "connection" /\ w.tau[k].addr /\ ~w.tau[k].connected /\ ~w.tau[k].connecting
  BY <1>1, NeedsCases DEF TauRecord
<1>3. CASE Needs(w, k) = "lookup"
  <2> DEFINE y == [w.tau[k] EXCEPT !.asking = TRUE]
  <2>1. /\ y \in TauRecord /\ y.asking /\ y.addr = w.tau[k].addr /\ y.tx = w.tau[k].tx
        /\ y.connecting = w.tau[k].connecting /\ y.overdue = w.tau[k].overdue
        /\ y.connected = w.tau[k].connected
    BY <1>1 DEF TauRecord
  <2>2. TrackerOK(y) /\ (w.tau[k].tx > 0 => y.tx > 0)
    BY <1>1, <1>2, <1>3, <2>1 DEF TrackerOK
  <2>3. Asks(w, k, Needs(w, k)) = [w EXCEPT !.tau[k] = y]
    BY <1>1, <1>3 DEF Asks, Worlds
  <2> HIDE DEF y
  <2>4. LET a == [w EXCEPT !.tau[k] = y] IN WorldOK(a) /\ a.tau[k] = y /\ a.req = w.req
    BY <2>1, <2>2, TrackerSet
  <2>5. Waits(y) /\ Upkept(w.tau[k], y)
    BY <1>2, <1>3, <2>1 DEF Waits, Upkept
  <2> QED
    BY <2>3, <2>4, <2>5
<1>4. CASE Needs(w, k) = "connection"
  <2> DEFINE n == w.tau[k].tx + 1
             y == [w.tau[k] EXCEPT !.connecting = TRUE, !.overdue = FALSE, !.tx = n]
  <2>1. n \in Nat /\ n > 0
    BY <1>1 DEF TauRecord
  <2>2. /\ y \in TauRecord /\ y.asking = w.tau[k].asking /\ y.addr = w.tau[k].addr /\ y.tx = n
        /\ y.connecting /\ ~y.overdue /\ y.connected = w.tau[k].connected
    <3> HIDE DEF n
    <3> QED
      BY <1>1, <2>1 DEF TauRecord
  <2>3. TrackerOK(y) /\ (w.tau[k].tx > 0 => y.tx > 0)
    BY <1>1, <1>2, <1>4, <2>1, <2>2 DEF TrackerOK
  <2>4. Asks(w, k, Needs(w, k)) = [w EXCEPT !.tau[k] = y]
    BY <1>4 DEF Asks
  <2>5. Waits(y) /\ Upkept(w.tau[k], y)
    BY <1>2, <1>4, <2>2 DEF Waits, Upkept
  <2> HIDE DEF y, n
  <2>6. LET a == [w EXCEPT !.tau[k] = y] IN WorldOK(a) /\ a.tau[k] = y /\ a.req = w.req
    BY <2>2, <2>3, TrackerSet
  <2> QED
    BY <2>4, <2>5, <2>6
<1> QED
  BY <1>3, <1>4

\* An overdue connection fails everything; then what is old or, at the end, all.
LEMMA TimeoutOK ==
    ASSUME NEW w, WorldOK(w), NEW k \in Trackers, NEW c \in BOOLEAN
    PROVE  LET a == TimeoutReqs(w, k, c)
           IN  /\ WorldOK(a) /\ Upkept(w.tau[k], a.tau[k])
               /\ c => Pending(a, k) = {}
               /\ \A r \in UdpRequests : w.req[r].at = k => a.req[r].at \in {k, "done"}
               /\ a.tau[k] # w.tau[k] => Pending(a, k) = {}
<1> DEFINE failed == ConnectionResponse(w, k, FALSE)
           due == w.tau[k].connecting /\ w.tau[k].overdue
           w2 == IF due THEN Asks(failed, k, Needs(failed, k)) ELSE w
           S == {r \in Pending(w2, k) : c \/ w2.req[r].old}
           a == Answer(w2, S, "timeout")
<1>1. TimeoutReqs(w, k, c) = a
  BY DEF TimeoutReqs
<1>2. /\ WorldOK(w2) /\ Upkept(w.tau[k], w2.tau[k])
      /\ w2.tau[k] # w.tau[k] => Pending(w2, k) = {}
      /\ \A r \in UdpRequests : w.req[r].at = k => w2.req[r].at \in {k, "done"}
  <2>1. CASE ~due
    BY <2>1 DEF Upkept
  <2>2. CASE due
    <3> HIDE DEF failed
    <3>1. /\ WorldOK(failed) /\ Pending(failed, k) = {}
          /\ ~failed.tau[k].connecting /\ failed.tau[k].tx = w.tau[k].tx
          /\ \A r \in UdpRequests : w.req[r].at = k => failed.req[r].at \in {k, "done"}
      <4>1. w.tau[k].connecting /\ FALSE \in BOOLEAN
        BY <2>2
      <4> QED
        BY <4>1, ResponseOK DEF failed
    <3>2. Needs(failed, k) = "nothing"
      BY <3>1 DEF Needs, UdpIdle
    <3>3. w2 = failed
      BY <2>2, <3>2 DEF Asks
    <3> QED
      BY <2>2, <3>1, <3>3 DEF Upkept
  <2> QED
    BY <2>1, <2>2
<1> HIDE DEF w2
<1>3. S \in SUBSET UdpRequests /\ \A r \in S : w2.req[r].at \in Trackers
  BY DEF Pending
<1>4. "timeout" \in Outcomes /\ "timeout" # "ok"
  BY DEF Outcomes
<1>5. /\ WorldOK(a) /\ a.tau = w2.tau
      /\ \A r \in UdpRequests : /\ r \in S => a.req[r].at = "done"
                                /\ r \notin S => a.req[r] = w2.req[r]
  <2> HIDE DEF S
  <2> QED
    BY <1>2, <1>3, <1>4, AnswerOK
<1>6. \A r \in UdpRequests : w.req[r].at = k => a.req[r].at \in {k, "done"}
  BY <1>2, <1>5
<1>7. Pending(a, k) \subseteq Pending(w2, k)
  BY <1>5, UdpAssumption DEF Pending
<1>8. c => Pending(a, k) = {}
  BY <1>5, UdpAssumption DEF Pending
<1> QED
  BY <1>1, <1>2, <1>5, <1>6, <1>7, <1>8

\* What is sent is sent once; what nobody waits for is done.
LEMMA SendReqsOK ==
    ASSUME NEW w, WorldOK(w), NEW k \in Trackers, w.tau[k].tx > 0
    PROVE  LET a == SendReqs(w, k)
           IN  /\ WorldOK(a) /\ a.tau = w.tau
               /\ \A r \in UdpRequests : /\ w.req[r].at = k => a.req[r].at \in {k, "done"}
                                         /\ w.req[r].at # k => a.req[r] = w.req[r]
<1> DEFINE a == SendReqs(w, k)
<1>1. w \in Worlds /\ \A r \in UdpRequests : w.answers[r].n \in {0, 1}
  BY DEF WorldOK, Worlds, AnswerRecord
<1>2. a.tau = w.tau /\ a.answers = w.answers
  BY <1>1 DEF Worlds, SendReqs
<1>3. a.req \in [UdpRequests -> ReqRecord]
  <2> DEFINE x(r) == IF w.req[r].callback THEN k ELSE "done"
             sends(r) == [w.req[r] EXCEPT !.sent = TRUE, !.at = x(r)]
  <2>1. a.req = [r \in UdpRequests |->
                    IF r \in Pending(w, k) /\ ~w.req[r].sent THEN sends(r) ELSE w.req[r]]
    BY <1>1 DEF Worlds, SendReqs
  <2>2. ASSUME NEW r \in UdpRequests PROVE w.req[r] \in ReqRecord /\ sends(r) \in ReqRecord
    <3>1. x(r) \in Trackers \cup {"none", "done"} /\ w.req[r] \in ReqRecord
      BY <1>1 DEF Worlds
    <3> HIDE DEF x
    <3> QED
      BY <3>1 DEF ReqRecord
  <2> HIDE DEF sends
  <2> QED
    BY <2>1, <2>2
<1>4. a \in Worlds
  <2>1. \A X \in [UdpRequests -> ReqRecord] : [w EXCEPT !.req = X] \in Worlds
    BY <1>1 DEF Worlds
  <2>2. \E X : a = [w EXCEPT !.req = X] /\ a.req = X
    BY <1>1 DEF Worlds, SendReqs
  <2> QED
    BY <1>3, <2>1, <2>2
<1>5. ASSUME NEW r \in UdpRequests
      PROVE  /\ ~(r \in Pending(w, k) /\ ~w.req[r].sent) => a.req[r] = w.req[r]
             /\ r \in Pending(w, k) /\ ~w.req[r].sent =>
                  /\ a.req[r].sent /\ a.req[r].callback = w.req[r].callback
                  /\ w.req[r].callback => a.req[r].at = k
                  /\ ~w.req[r].callback => a.req[r].at = "done"
  BY <1>1 DEF Worlds, ReqRecord, SendReqs
<1>6. \A r \in UdpRequests : r \in Pending(w, k) <=> w.req[r].at = k
  BY DEF Pending
<1> HIDE DEF a
<1>7. ASSUME NEW r \in UdpRequests PROVE RequestOK(a, r)
  <2>1. RequestOK(w, r)
    BY DEF WorldOK
  <2>2. CASE a.req[r] = w.req[r]
    BY <1>2, <2>1, <2>2 DEF RequestOK
  <2>3. CASE r \in Pending(w, k) /\ ~w.req[r].sent
    BY <1>1, <1>2, <1>5, <1>6, <2>1, <2>3, UdpAssumption DEF RequestOK
  <2> QED
    BY <1>5, <2>2, <2>3
<1>8. WorldOK(a)
  BY <1>2, <1>4, <1>7 DEF WorldOK
<1>9. \A r \in UdpRequests : /\ w.req[r].at = k => a.req[r].at \in {k, "done"}
                             /\ w.req[r].at # k => a.req[r] = w.req[r]
  BY <1>5, <1>6
<1> QED
  BY <1>2, <1>8, <1>9 DEF a

\* tau_tracker_upkeep: an idle tracker stays as it is; at the end, cancelAll
\* leaves a tracker that waited for replies with no request.
LEMMA UpkeepOK ==
    ASSUME NEW w, WorldOK(w), NEW k \in Trackers, NEW c \in BOOLEAN
    PROVE  LET a == TrackerUpkeep(w, k, c)
           IN  /\ WorldOK(a) /\ Upkept(w.tau[k], a.tau[k])
               /\ \A r \in UdpRequests : w.req[r].at = k => a.req[r].at \in {k, "done"}
               /\ Pending(w, k) = {} => a = w
               /\ w.tau[k].connecting /\ ~w.tau[k].overdue => a.tau[k].connecting /\ ~a.tau[k].overdue
               /\ c => Pending(a, k) = {} \/ (Waits(a.tau[k]) /\ ~Waits(w.tau[k]))
<1> DEFINE need == Needs(w, k)
           timed == TimeoutReqs(w, k, c)
           a == TrackerUpkeep(w, k, c)
<1>1. w.tau[k] \in TauRecord /\ w \in Worlds
  BY DEF WorldOK, Worlds
<1>2. \/ need = "nothing" /\ Pending(w, k) = {}
      \/ need \in {"lookup", "connection"} /\ Pending(w, k) # {} /\ ~Waits(w.tau[k])
         /\ ~w.tau[k].connecting
      \/ need = "lookup" /\ Pending(w, k) # {} /\ ~Waits(w.tau[k])
      \/ need = "replies" /\ Pending(w, k) # {}
  BY <1>1, NeedsCases DEF TauRecord, Waits
<1>3. CASE need = "nothing"
  <2>1. a = w
    BY <1>3 DEF TrackerUpkeep, Asks
  <2> QED
    BY <1>2, <1>3, <2>1 DEF Upkept
<1>4. CASE need \in {"lookup", "connection"}
  <2>1. a = Asks(w, k, need)
    BY <1>4 DEF TrackerUpkeep
  <2>2. WorldOK(a) /\ a.req = w.req /\ Waits(a.tau[k]) /\ Upkept(w.tau[k], a.tau[k])
    BY <1>4, <2>1, AsksOK
  <2>3. ~Waits(w.tau[k]) /\ Pending(w, k) # {}
    BY <1>2, <1>4
  <2>4. w.tau[k].connecting /\ ~w.tau[k].overdue => a.tau[k].connecting /\ ~a.tau[k].overdue
    BY <2>2 DEF Upkept
  <2> QED
    BY <2>2, <2>3, <2>4
<1>5. CASE need = "replies"
  <2> DEFINE ready == timed.tau[k].addr /\ timed.tau[k].connected
  <2>1. a = IF ready THEN SendReqs(timed, k) ELSE timed
    BY <1>5 DEF TrackerUpkeep
  <2>2. /\ WorldOK(timed) /\ Upkept(w.tau[k], timed.tau[k])
        /\ c => Pending(timed, k) = {}
        /\ \A r \in UdpRequests : w.req[r].at = k => timed.req[r].at \in {k, "done"}
    BY TimeoutOK
  <2> HIDE DEF timed
  <2>3. ready => timed.tau[k].tx > 0
    BY <2>2 DEF WorldOK, TrackerOK
  <2>4. /\ WorldOK(a) /\ a.tau = timed.tau
        /\ \A r \in UdpRequests : /\ timed.req[r].at = k => a.req[r].at \in {k, "done"}
                                  /\ timed.req[r].at # k => a.req[r] = timed.req[r]
    BY <2>1, <2>2, <2>3, SendReqsOK
  <2>5. \A r \in UdpRequests : w.req[r].at = k => a.req[r].at \in {k, "done"}
    BY <2>2, <2>4
  <2>6. c => Pending(a, k) = {}
    BY <2>2, <2>4 DEF Pending
  <2>7. w.tau[k].connecting /\ ~w.tau[k].overdue => a.tau[k].connecting /\ ~a.tau[k].overdue
    BY <2>2, <2>4 DEF Upkept
  <2>8. Pending(w, k) # {}
    BY <1>2, <1>5
  <2> QED
    BY <2>2, <2>4, <2>5, <2>6, <2>7, <2>8
<1> QED
  BY <1>2, <1>3, <1>4, <1>5

\* tr_tracker_udp_upkeep does that to each tracker.
LEMMA UpkeepAllOK ==
    ASSUME NEW w, WorldOK(w), NEW c \in BOOLEAN
    PROVE  LET a == UpkeepAll(w, c)
           IN  /\ WorldOK(a)
               /\ \A k \in Trackers :
                    /\ a.tau[k] = TrackerUpkeep(w, k, c).tau[k]
                    /\ Pending(a, k) \subseteq Pending(TrackerUpkeep(w, k, c), k)
                    /\ Pending(a, k) \subseteq Pending(w, k)
<1> DEFINE up(k) == TrackerUpkeep(w, k, c)
           by(r) == IF w.req[r].at \in Trackers THEN up(w.req[r].at) ELSE w
           a == UpkeepAll(w, c)
<1>1. a = [tau     |-> [k \in Trackers |-> up(k).tau[k]],
           req     |-> [r \in UdpRequests |-> by(r).req[r]],
           answers |-> [r \in UdpRequests |-> by(r).answers[r]]]
  BY DEF UpkeepAll
<1>2. ASSUME NEW k \in Trackers
      PROVE  /\ WorldOK(up(k))
             /\ \A r \in UdpRequests : w.req[r].at = k => up(k).req[r].at \in {k, "done"}
  BY UpkeepOK
<1> HIDE DEF up
<1>3. \A k \in Trackers : a.tau[k] = up(k).tau[k] /\ up(k).tau[k] \in TauRecord /\ TrackerOK(up(k).tau[k])
  BY <1>1, <1>2 DEF WorldOK, Worlds
<1>4. \A r \in UdpRequests : WorldOK(by(r))
  BY <1>2
<1> HIDE DEF by
<1>5. \A r \in UdpRequests : /\ a.req[r] = by(r).req[r] /\ by(r).req[r] \in ReqRecord
                             /\ a.answers[r] = by(r).answers[r] /\ by(r).answers[r] \in AnswerRecord
  BY <1>1, <1>4 DEF WorldOK, Worlds
<1>6. a \in Worlds
  BY <1>1, <1>3, <1>5 DEF Worlds
<1> HIDE DEF a
<1>7. ASSUME NEW r \in UdpRequests PROVE RequestOK(a, r)
  <2>1. RequestOK(by(r), r)
    BY <1>4 DEF WorldOK
  <2>2. CASE w.req[r].at \in Trackers
    <3> DEFINE k == w.req[r].at
    <3>1. by(r) = up(k) /\ up(k).req[r].at \in {k, "done"}
      BY <1>2, <2>2 DEF by
    <3>2. a.tau[k] = up(k).tau[k]
      BY <1>3, <2>2
    <3>3. a.req[r] = up(k).req[r] /\ a.answers[r] = up(k).answers[r] /\ RequestOK(up(k), r)
      BY <1>5, <2>1, <3>1
    <3>4. CASE a.req[r].at = k
      BY <3>2, <3>3, <3>4 DEF RequestOK
    <3>5. CASE a.req[r].at = "done"
      BY <3>3, <3>5, UdpAssumption DEF RequestOK
    <3> QED
      BY <3>1, <3>3, <3>4, <3>5
  <2>3. CASE w.req[r].at \notin Trackers
    BY <1>5, <2>1, <2>3 DEF RequestOK, by
  <2> QED
    BY <2>2, <2>3
<1>8. WorldOK(a)
  BY <1>3, <1>6, <1>7 DEF WorldOK
<1>9. ASSUME NEW k \in Trackers, NEW r \in UdpRequests, a.req[r].at = k
      PROVE  w.req[r].at = k /\ up(k).req[r].at = k
  <2>1. CASE w.req[r].at \in Trackers
    BY <1>2, <1>5, <1>9, <2>1, UdpAssumption DEF by
  <2>2. CASE w.req[r].at \notin Trackers
    BY <1>5, <1>9, <2>2 DEF by
  <2> QED
    BY <2>1, <2>2
<1> QED
  BY <1>3, <1>8, <1>9 DEF Pending, up, a

-----------------------------------------------------------------------------
\* A connection id may be asked for beyond the bound when the shut-down begins,
\* but then no other is.
IdsCounted ==
    \A k \in Trackers :
        \/ tau[k].tx <= MaxConnects
        \/ /\ closing # "open" /\ tau[k].tx = MaxConnects + 1
           /\ Pending(World, k) = {} \/ (tau[k].connecting /\ ~tau[k].overdue)

\* After a pass with the deadline behind it no tracker has anything to ask for.
LateWaits ==
    closing = "late" => \A k \in Trackers : Pending(World, k) = {} \/ Waits(tau[k])

IInv ==
    /\ WorldOK(World)
    /\ closing \in {"open", "waiting", "late", "closed"}
    /\ IdsCounted
    /\ LateWaits
    /\ closing = "closed" => AllIdle(World)

LEMMA InitIInv == UdpInit => IInv
<1> SUFFICES ASSUME UdpInit PROVE IInv
  OBVIOUS
<1>1. World \in Worlds
  <2>1. NoTracker \in TauRecord /\ NoRequest \in ReqRecord /\ [n |-> 0, last |-> "none"] \in AnswerRecord
    BY UdpAssumption DEF NoTracker, NoRequest, TauRecord, ReqRecord, AnswerRecord
  <2> QED
    BY <2>1 DEF UdpInit, World, Worlds
<1>2. \A k \in Trackers : World.tau[k] = NoTracker /\ tau[k] = NoTracker
  BY DEF UdpInit, World
<1>3. \A k \in Trackers : TrackerOK(World.tau[k])
  BY <1>2 DEF TrackerOK, NoTracker
<1>4. \A r \in UdpRequests : RequestOK(World, r)
  BY UdpAssumption DEF UdpInit, World, RequestOK, NoRequest
<1>5. IdsCounted
  BY <1>2, UdpAssumption DEF IdsCounted, NoTracker
<1> QED
  BY <1>1, <1>3, <1>4, <1>5 DEF IInv, WorldOK, LateWaits, UdpInit

\* The variables are the parts of the world.
LEMMA BecomeWorld ==
    ASSUME NEW w \in Worlds, Become(w)
    PROVE  World' = w
BY DEF Become, World, Worlds

LEMMA WorldParts == World.tau = tau /\ World.req = req /\ World.answers = answers
BY DEF World

\* What the event thread does while the session is open, if no tracker gets too
\* many ids.
LEMMA OpenStep ==
    ASSUME NEW w, WorldOK(w), Become(w), closing = "open", UNCHANGED closing, Bounded(w)
    PROVE  IInv'
<1>1. w \in Worlds /\ World' = w /\ tau' = w.tau
  BY BecomeWorld DEF WorldOK, Become
<1>2. WorldOK(World)'
  BY <1>1
<1>3. IdsCounted'
  BY <1>1 DEF IdsCounted, Bounded
<1> QED
  BY <1>2, <1>3 DEF IInv, LateWaits

\* A new request has no answer yet.
LEMMA MadeStep ==
    ASSUME IInv, closing = "open", UNCHANGED closing,
           NEW k \in Trackers, NEW r \in UdpRequests, NEW callback \in BOOLEAN,
           req[r].at = "none", Made(k, r, callback)
    PROVE  IInv'
<1> DEFINE n == NewRequest(k, callback)
           w == [World EXCEPT !.req[r] = n]
           up == TrackerUpkeep(w, k, FALSE)
<1>1. World \in Worlds /\ WorldOK(World) /\ World.req[r].at = "none"
  BY WorldParts DEF IInv, WorldOK
<1>2. n \in ReqRecord /\ n.at = k /\ ~n.sent
  BY DEF NewRequest, ReqRecord
<1> HIDE DEF n
<1>3. /\ w \in Worlds /\ w.tau = World.tau /\ w.answers = World.answers /\ w.req[r] = n
      /\ \A x \in UdpRequests : x # r => w.req[x] = World.req[x]
  BY <1>1, <1>2 DEF Worlds
<1> HIDE DEF w
<1>4. ASSUME NEW x \in UdpRequests PROVE RequestOK(w, x)
  <2>1. RequestOK(World, x)
    BY <1>1 DEF WorldOK
  <2>2. CASE x # r
    BY <1>3, <2>1, <2>2 DEF RequestOK
  <2>3. CASE x = r
    BY <1>1, <1>2, <1>3, <2>1, <2>3, UdpAssumption DEF RequestOK
  <2> QED
    BY <2>2, <2>3
<1>5. WorldOK(w)
  BY <1>1, <1>3, <1>4 DEF WorldOK
<1>6. WorldOK(up)
  BY <1>5, UpkeepOK
<1>7. Bounded(up) /\ Become(up)
  BY DEF Made, w, n
<1> QED
  BY <1>6, <1>7, OpenStep

LEMMA UpkeepTimerStep ==
    ASSUME IInv, NEW k \in Trackers, UpkeepTimer(k)
    PROVE  IInv'
<1> DEFINE up == TrackerUpkeep(World, k, FALSE)
<1>1. WorldOK(up)
  BY UpkeepOK DEF IInv
<1>2. Bounded(up) /\ Become(up) /\ closing = "open" /\ UNCHANGED closing
  BY DEF UpkeepTimer, Running
<1> QED
  BY <1>1, <1>2, OpenStep

\* While the session is open no tracker has too many ids.
LEMMA OpenBounded ==
    ASSUME IInv, closing = "open", NEW w, w.tau = tau
    PROVE  Bounded(w)
BY DEF IInv, IdsCounted, Bounded

LEMMA OnDnsStep ==
    ASSUME IInv, NEW k \in Trackers, NEW ok \in BOOLEAN, OnDns(k, ok)
    PROVE  IInv'
<1> DEFINE x == [tau[k] EXCEPT !.asking = FALSE]
           heard == [World EXCEPT !.tau[k] = x]
           y == [x EXCEPT !.addr = TRUE]
           found == [heard EXCEPT !.tau[k] = y]
           up == TrackerUpkeep(found, k, FALSE)
           failed == FailAll(heard, k)
<1>1. WorldOK(World) /\ World \in Worlds /\ tau[k] \in TauRecord /\ World.tau[k] = tau[k]
      /\ TrackerOK(tau[k]) /\ tau[k].asking /\ closing = "open" /\ UNCHANGED closing
  BY WorldParts DEF IInv, WorldOK, Worlds, OnDns, Running
<1>2. x \in TauRecord /\ x.tx = tau[k].tx /\ x.connected = tau[k].connected
      /\ x.connecting = tau[k].connecting /\ ~x.asking
  BY <1>1 DEF TauRecord
<1>3. y \in TauRecord /\ y.tx = x.tx /\ y.connected = x.connected /\ y.connecting = x.connecting /\ ~y.asking
  BY <1>2 DEF TauRecord
<1>4. TrackerOK(x) /\ TrackerOK(y)
  BY <1>1, <1>2, <1>3 DEF TrackerOK
<1>5. IF ok THEN Bounded(up) /\ Become(up) ELSE Become(failed)
  <2>1. heard = [World EXCEPT !.tau[k].asking = FALSE]
    BY <1>1 DEF Worlds
  <2>2. heard.tau[k] = x
    BY <1>1 DEF Worlds
  <2>3. found = [heard EXCEPT !.tau[k].addr = TRUE]
    BY <2>2
  <2> HIDE DEF heard, found
  <2> QED
    BY <2>1, <2>3 DEF OnDns
<1> HIDE DEF x, y
<1>6. WorldOK(heard) /\ heard.tau[k] = x
  BY <1>1, <1>2, <1>4, TrackerSet
<1>7. CASE ok
  <2> HIDE DEF heard
  <2>1. WorldOK(found)
    BY <1>3, <1>4, <1>6, TrackerSet
  <2> HIDE DEF found
  <2>2. WorldOK(up)
    BY <2>1, UpkeepOK
  <2> QED
    BY <1>1, <1>5, <1>7, <2>2, OpenStep
<1>8. CASE ~ok
  <2>1. WorldOK(failed) /\ failed.tau = heard.tau
    BY <1>6, FailAllOK
  <2>2. \A j \in Trackers : heard.tau[j].tx = tau[j].tx
    BY <1>1, <1>2, WorldParts DEF Worlds
  <2>3. Bounded(failed)
    <3>1. \A j \in Trackers : tau[j].tx <= MaxConnects
      BY <1>1 DEF IInv, IdsCounted
    <3> HIDE DEF failed
    <3> QED
      BY <2>1, <2>2, <3>1 DEF Bounded
  <2> QED
    BY <1>1, <1>5, <1>8, <2>1, <2>3, OpenStep
<1> QED
  BY <1>7, <1>8

LEMMA AddressExpiresStep ==
    ASSUME IInv, NEW k \in Trackers, AddressExpires(k)
    PROVE  IInv'
<1> DEFINE n == tau[k].lookups + 1
           x == [tau[k] EXCEPT !.addr = FALSE, !.lookups = n]
           w == [World EXCEPT !.tau[k] = x]
<1>1. WorldOK(World) /\ World \in Worlds /\ tau[k] \in TauRecord /\ World.tau[k] = tau[k]
      /\ TrackerOK(tau[k]) /\ closing = "open" /\ UNCHANGED closing
  BY WorldParts DEF IInv, WorldOK, Worlds, AddressExpires, CanPass, Running
<1>2. n \in 0..MaxLookups
  BY <1>1, UdpAssumption DEF TauRecord, AddressExpires, CanPass
<1>3. tau' = [tau EXCEPT ![k] = x] /\ UNCHANGED <<req, answers>>
  BY DEF AddressExpires
<1> HIDE DEF n
<1>4. x \in TauRecord /\ x.tx = tau[k].tx /\ x.connected = tau[k].connected
      /\ x.connecting = tau[k].connecting /\ ~x.addr
  BY <1>1, <1>2 DEF TauRecord
<1>5. TrackerOK(x)
  BY <1>1, <1>4 DEF TrackerOK
<1> HIDE DEF x
<1>6. WorldOK(w)
  BY <1>1, <1>4, <1>5, TrackerSet
<1>7. Become(w) /\ \A j \in Trackers : w.tau[j].tx = tau[j].tx
  BY <1>1, <1>3, <1>4 DEF Become, World, Worlds
<1>8. Bounded(w)
  <2>1. \A j \in Trackers : tau[j].tx <= MaxConnects
    BY <1>1 DEF IInv, IdsCounted
  <2> QED
    BY <1>7, <2>1 DEF Bounded
<1> QED
  BY <1>1, <1>6, <1>7, <1>8, OpenStep

LEMMA MinutePassesStep ==
    ASSUME IInv, NEW k \in Trackers, MinutePasses(k)
    PROVE  IInv'
<1> DEFINE n == tau[k].lookups + 1
           o == tau[k].overdue \/ tau[k].connecting
           x == [tau[k] EXCEPT !.connected = FALSE, !.overdue = o, !.lookups = n]
           h == [World EXCEPT !.tau[k] = x]
           q == [r \in UdpRequests |-> IF req[r].at = k THEN [req[r] EXCEPT !.old = TRUE] ELSE req[r]]
           w == [h EXCEPT !.req = q]
<1>1. WorldOK(World) /\ World \in Worlds /\ tau[k] \in TauRecord /\ World.tau[k] = tau[k]
      /\ TrackerOK(tau[k]) /\ closing = "open" /\ UNCHANGED closing
  BY WorldParts DEF IInv, WorldOK, Worlds, MinutePasses, CanPass, Running
<1>2. n \in 0..MaxLookups /\ o \in BOOLEAN
  BY <1>1, UdpAssumption DEF TauRecord, MinutePasses, CanPass
<1>3. tau' = [tau EXCEPT ![k] = x] /\ req' = q /\ UNCHANGED answers
  BY DEF MinutePasses
<1> HIDE DEF n, o
<1>4. x \in TauRecord /\ x.tx = tau[k].tx /\ ~x.connected
      /\ x.connecting = tau[k].connecting /\ x.addr = tau[k].addr /\ x.asking = tau[k].asking
  BY <1>1, <1>2 DEF TauRecord
<1>5. TrackerOK(x)
  BY <1>1, <1>4 DEF TrackerOK
<1> HIDE DEF x
<1>6. WorldOK(h) /\ h.req = World.req /\ h.answers = World.answers
  BY <1>1, <1>4, <1>5, TrackerSet
<1>7. ASSUME NEW r \in UdpRequests
      PROVE q[r] \in ReqRecord /\ q[r].at = req[r].at /\ q[r].sent = req[r].sent
            /\ q[r].callback = req[r].callback
  BY <1>1, WorldParts, ZenonT(60) DEF Worlds, ReqRecord
<1>8. q \in [UdpRequests -> ReqRecord]
  BY <1>7
<1>9. Become(w) /\ \A j \in Trackers : w.tau[j].tx = tau[j].tx
  BY <1>1, <1>3, <1>4 DEF Become, World, Worlds
<1> HIDE DEF q, h
<1>10. w \in Worlds /\ w.tau = h.tau /\ w.answers = h.answers /\ w.req = q
  BY <1>6, <1>8 DEF WorldOK, Worlds
<1> HIDE DEF w
<1>11. ASSUME NEW r \in UdpRequests PROVE RequestOK(w, r)
  <2>1. RequestOK(h, r) /\ h.req[r] = req[r]
    BY <1>6, WorldParts DEF WorldOK
  <2> QED
    BY <1>7, <1>10, <2>1 DEF RequestOK
<1>12. WorldOK(w)
  BY <1>6, <1>10, <1>11 DEF WorldOK
<1>13. Bounded(w)
  <2>1. \A j \in Trackers : tau[j].tx <= MaxConnects
    BY <1>1 DEF IInv, IdsCounted
  <2> QED
    BY <1>9, <2>1 DEF Bounded
<1> QED
  BY <1>1, <1>9, <1>12, <1>13, OpenStep

LEMMA HandleConnectStep ==
    ASSUME IInv, NEW k \in Trackers, NEW tx, NEW action \in Actions, HandleConnect(k, tx, action)
    PROVE  IInv'
<1> DEFINE ok == action = "connect"
           w == ConnectionResponse(World, k, ok)
           up == TrackerUpkeep(w, k, FALSE)
           match == tau[k].connecting /\ tx = tau[k].tx
<1>1. /\ WorldOK(World) /\ closing = "open" /\ UNCHANGED closing
      /\ IF match THEN Bounded(up) /\ Become(up) ELSE UNCHANGED <<tau, req, answers>>
  BY DEF IInv, HandleConnect, Running
<1>2. CASE match
  <2>1. WorldOK(w)
    <3>1. World.tau[k].connecting /\ ok \in BOOLEAN
      BY <1>2, WorldParts
    <3> HIDE DEF ok
    <3> QED
      BY <1>1, <3>1, ResponseOK
  <2> HIDE DEF w
  <2>2. WorldOK(up)
    BY <2>1, UpkeepOK
  <2> QED
    BY <1>1, <1>2, <2>2, OpenStep
<1>3. CASE ~match
  BY <1>1, <1>3 DEF IInv, World, IdsCounted, LateWaits
<1> QED
  BY <1>2, <1>3

LEMMA HandleReplyStep ==
    ASSUME IInv, NEW r \in UdpRequests, NEW action \in Actions, HandleReply(r, action)
    PROVE  IInv'
<1> DEFINE o == Outcome2(r, action)
           S == {r}
           a == Answer(World, S, o)
<1>1. /\ WorldOK(World) /\ closing = "open" /\ UNCHANGED closing /\ req[r].sent
      /\ IF req[r].at \in Trackers THEN Become(a) ELSE UNCHANGED <<tau, req, answers>>
  BY DEF IInv, HandleReply, Running
<1>2. o \in Outcomes
  BY DEF Outcome2, AnnounceOutcome, ScrapeOutcome, Outcomes
<1>3. CASE req[r].at \in Trackers
  <2>1. /\ S \in SUBSET UdpRequests
        /\ \A x \in S : World.req[x].at \in Trackers /\ World.req[x].sent
    BY <1>1, <1>3, WorldParts
  <2>2. WorldOK(a) /\ a.tau = World.tau
    <3> HIDE DEF S, o
    <3> QED
      BY <1>1, <1>2, <2>1, AnswerOK
  <2> HIDE DEF a
  <2>3. Bounded(a)
    BY <1>1, <2>2, OpenBounded, WorldParts
  <2> QED
    BY <1>1, <1>3, <2>2, <2>3, OpenStep
<1>4. CASE req[r].at \notin Trackers
  BY <1>1, <1>4 DEF IInv, World, IdsCounted, LateWaits
<1> QED
  BY <1>3, <1>4

\* What a pass over all the trackers does to the number of ids and to what waits.
LEMMA PassKeeps ==
    ASSUME IInv, NEW c \in BOOLEAN, Become(UpkeepAll(World, c)), closing' # "open",
           closing' \in {"waiting", "late"}, closing' = "late" => c
    PROVE  IInv'
<1> DEFINE a == UpkeepAll(World, c)
           up(k) == TrackerUpkeep(World, k, c)
<1>1. WorldOK(World) /\ IdsCounted /\ World.tau = tau
  BY WorldParts DEF IInv
<1>2. /\ WorldOK(a)
      /\ \A k \in Trackers : /\ a.tau[k] = up(k).tau[k]
                             /\ Pending(a, k) \subseteq Pending(up(k), k)
                             /\ Pending(a, k) \subseteq Pending(World, k)
  BY <1>1, UpkeepAllOK
<1>3. World' = a /\ tau' = a.tau /\ \A k \in Trackers : Pending(World, k)' = Pending(a, k)
  <2>1. World' = a /\ tau' = a.tau
    BY <1>2, BecomeWorld DEF WorldOK, Become
  <2> QED
    BY <2>1 DEF Pending
<1>4. ASSUME NEW k \in Trackers
      PROVE  /\ Upkept(tau[k], up(k).tau[k])
             /\ Pending(World, k) = {} => up(k) = World
             /\ tau[k].connecting /\ ~tau[k].overdue => up(k).tau[k].connecting /\ ~up(k).tau[k].overdue
             /\ c => Pending(up(k), k) = {} \/ Waits(up(k).tau[k])
  BY <1>1, UpkeepOK
<1> HIDE DEF a, up
<1>5. ASSUME NEW k \in Trackers
      PROVE  \/ tau'[k].tx <= MaxConnects
             \/ /\ tau'[k].tx = MaxConnects + 1
                /\ Pending(World, k)' = {} \/ (tau'[k].connecting /\ ~tau'[k].overdue)
  <2> DEFINE x == tau[k]
             y == up(k).tau[k]
  <2>1. tau'[k] = y /\ x.tx \in Nat /\ MaxConnects \in Nat
    BY <1>1, <1>2, <1>3, UdpAssumption DEF WorldOK, Worlds, TauRecord
  <2>2. CASE x.tx <= MaxConnects
    <3> HIDE DEF x, y
    <3>1. Upkept(x, y)
      BY <1>4 DEF x, y
    <3>2. y.tx = x.tx \/ (y.connecting /\ ~y.overdue /\ y.tx = x.tx + 1)
      BY <3>1 DEF Upkept
    <3>3. y.tx <= MaxConnects \/ (y.tx = MaxConnects + 1 /\ y.connecting /\ ~y.overdue)
      BY <2>1, <2>2, <3>2
    <3> QED
      BY <2>1, <3>3
  <2>3. CASE x.tx = MaxConnects + 1 /\ Pending(World, k) = {}
    BY <1>1, <1>2, <1>3, <1>4, <2>1, <2>3
  <2>4. CASE x.tx = MaxConnects + 1 /\ x.connecting /\ ~x.overdue
    <3>1. y.connecting /\ ~y.overdue /\ Upkept(x, y)
      BY <1>4, <2>4
    <3>2. y.tx = x.tx
      BY <2>4, <3>1 DEF Upkept
    <3> QED
      BY <2>1, <2>4, <3>1, <3>2
  <2> QED
    BY <1>1, <2>2, <2>3, <2>4 DEF IdsCounted
<1>6. IdsCounted'
  BY <1>5 DEF IdsCounted
<1>7. LateWaits'
  BY <1>2, <1>3, <1>4 DEF LateWaits
<1>8. WorldOK(World)'
  BY <1>2, <1>3
<1> QED
  BY <1>6, <1>7, <1>8 DEF IInv

LEMMA CloseWaitStep ==
    ASSUME IInv, NEW late \in BOOLEAN, CloseWait(late)
    PROVE  IInv'
<1> DEFINE up == UpkeepAll(World, late)
<1>1. CASE AllIdle(World)
  <2>1. closing' = "closed" /\ UNCHANGED <<tau, req, answers>>
    BY <1>1 DEF CloseWait
  <2>2. closing # "open" /\ World' = World
    BY <2>1 DEF CloseWait, World
  <2>3. IdsCounted'
    BY <2>1, <2>2 DEF IInv, IdsCounted, World, Pending
  <2>4. AllIdle(World)'
    BY <1>1, <2>1 DEF World, AllIdle, UdpIdle, Pending
  <2> QED
    BY <2>1, <2>2, <2>3, <2>4 DEF IInv, LateWaits
<1>2. CASE ~AllIdle(World)
  <2>1. /\ Become(up) /\ closing \in {"waiting", "late"} /\ (closing = "late" => late)
        /\ closing' = IF ~late THEN "waiting"
                      ELSE IF closing = "late" /\ ~AllIdle(up) THEN "overdue" ELSE "late"
    BY <1>2 DEF CloseWait
  <2>2. ASSUME closing = "late" PROVE AllIdle(up)
    <3>1. WorldOK(World) /\ late
      BY <2>1, <2>2 DEF IInv
    <3> SUFFICES ASSUME NEW k \in Trackers PROVE Pending(up, k) = {}
      BY DEF AllIdle, UdpIdle
    <3> DEFINE a == TrackerUpkeep(World, k, late)
    <3>2. Pending(up, k) \subseteq Pending(a, k) /\ Pending(up, k) \subseteq Pending(World, k)
      BY <3>1, UpkeepAllOK
    <3>3. Pending(a, k) = {} \/ ~Waits(World.tau[k])
      BY <3>1, UpkeepOK
    <3>4. Pending(World, k) = {} \/ Waits(World.tau[k])
      BY <2>2, WorldParts DEF IInv, LateWaits
    <3> QED
      BY <3>2, <3>3, <3>4
  <2> HIDE DEF up
  <2>3. closing' \in {"waiting", "late"} /\ (closing' = "late" => late)
    BY <2>1, <2>2
  <2> QED
    BY <2>1, <2>3, PassKeeps DEF up
<1> QED
  BY <1>1, <1>2

LEMMA StartShutdownStep ==
    ASSUME IInv, StartShutdown
    PROVE  IInv'
BY PassKeeps DEF StartShutdown, Running

LEMMA NextStep ==
    ASSUME IInv, [UdpNext]_udpVars
    PROVE  IInv'
<1>1. ASSUME NEW k \in Trackers, NEW r \in Announces, NEW stop \in BOOLEAN, UdpAnnounce(k, r, stop)
      PROVE  IInv'
  <2>1. r \in UdpRequests /\ (~stop) \in BOOLEAN
    BY DEF UdpRequests
  <2> QED
    BY <1>1, <2>1, MadeStep DEF UdpAnnounce, Running
<1>2. ASSUME NEW k \in Trackers, NEW r \in Scrapes, UdpScrape(k, r)
      PROVE  IInv'
  <2>1. r \in UdpRequests /\ TRUE \in BOOLEAN
    BY DEF UdpRequests
  <2> QED
    BY <1>2, <2>1, MadeStep DEF UdpScrape, Running
<1>3. CASE UNCHANGED udpVars
  BY <1>3 DEF udpVars, IInv, World, IdsCounted, LateWaits
<1> QED
  BY <1>1, <1>2, <1>3, UpkeepTimerStep, OnDnsStep, AddressExpiresStep, MinutePassesStep,
     HandleConnectStep, HandleReplyStep, StartShutdownStep, CloseWaitStep DEF UdpNext

\* Of a world in order every request has had its answer or waits for it.
LEMMA IInvAnswered == ASSUME IInv PROVE AnsweredOnce
<1>1. WorldOK(World) /\ World.tau = tau /\ World.req = req /\ World.answers = answers
  BY WorldParts DEF IInv
<1>2. ASSUME NEW r \in UdpRequests
      PROVE /\ answers[r].n \in {0, 1} /\ RequestOK(World, r)
            /\ req[r].callback \in BOOLEAN
  BY <1>1 DEF WorldOK, Worlds, AnswerRecord, ReqRecord
<1>3. \A r \in UdpRequests :
       /\ answers[r].n <= 1
       /\ req[r].callback => (answers[r].n = 1 <=> req[r].at = "done")
       /\ answers[r].last = "ok" => req[r].sent
       /\ req[r].at \in Trackers /\ req[r].sent => tau[req[r].at].tx > 0
  BY <1>1, <1>2 DEF RequestOK
<1>4. \A k \in Trackers : /\ tau[k].connected => ~tau[k].connecting
                          /\ tau[k].asking => ~tau[k].addr
  BY <1>1 DEF WorldOK, TrackerOK
<1>5. closing = "closed" => \A r \in UdpRequests : req[r].at \notin Trackers
  BY <1>1 DEF IInv, AllIdle, UdpIdle, Pending
<1> QED
  BY <1>3, <1>4, <1>5 DEF AnsweredOnce

\* Its parts have their types, with at most one connection id beyond the bound.
LEMMA IInvTyped == ASSUME IInv PROVE UdpTypeOK
<1>1. World \in Worlds /\ World.tau = tau /\ World.req = req /\ IdsCounted
      /\ closing \in {"open", "waiting", "late", "overdue", "closed"}
  BY WorldParts DEF IInv, WorldOK
<1>2. ASSUME NEW k \in Trackers
      PROVE tau[k] \in [asking : BOOLEAN, addr : BOOLEAN, connecting : BOOLEAN, overdue : BOOLEAN,
                        connected : BOOLEAN, tx : 0..MaxConnects + 1, lookups : 0..MaxLookups]
  <2>1. tau[k] \in TauRecord /\ MaxConnects \in Nat
    BY <1>1, UdpAssumption DEF Worlds
  <2>2. tau[k].tx \in 0..MaxConnects + 1
    BY <1>1, <2>1 DEF IdsCounted, TauRecord
  <2> QED
    BY <2>1, <2>2 DEF TauRecord
<1>3. tau = [k \in Trackers |-> tau[k]]
  BY <1>1 DEF Worlds
<1>4. req \in [UdpRequests -> [at : Trackers \cup {"none", "done"}, sent : BOOLEAN,
                               old : BOOLEAN, callback : BOOLEAN]]
  BY <1>1 DEF Worlds, ReqRecord
<1> QED
  BY <1>1, <1>2, <1>3, <1>4 DEF UdpTypeOK

LEMMA InvSound == IInv => UdpTypeOK /\ AnsweredOnce /\ UdpShutsDown
<1>1. IInv => UdpShutsDown
  BY DEF IInv, UdpShutsDown
<1> QED
  BY <1>1, IInvAnswered, IInvTyped

-----------------------------------------------------------------------------
\* IInv is inductive, whatever is lost, repeated or late.
THEOREM Inductive == UdpSpec => []IInv
<1>1. UdpInit => IInv
  BY InitIInv
<1>2. IInv /\ [UdpNext]_udpVars => IInv'
  BY NextStep
<1> QED
  BY <1>1, <1>2, PTL DEF UdpSpec

\* Each request to a UDP tracker is answered once, and none is forgotten.
THEOREM EachAnsweredOnce == UdpSpec => []AnsweredOnce
BY Inductive, InvSound, PTL

\* Two passes after the deadline nothing is left to wait for.
THEOREM ShutdownEnds == UdpSpec => []UdpShutsDown
BY Inductive, InvSound, PTL

\* The types of tau, req and closing.
THEOREM Typed == UdpSpec => []UdpTypeOK
BY Inductive, InvSound, PTL

-----------------------------------------------------------------------------
(***************************************************************************)
(* For any ports: what is said to be forwarded was asked for, however the   *)
(* router answers, and no machine is closed with a mapping.                 *)
(*                                                                         *)
(* A pulse is a chain of functions on a machine and what the router         *)
(* forwards; each keeps NatpmpOK or passes UpnpOK on.                       *)
(***************************************************************************)
NatpmpStates == {"IDLE", "ERR", "DISCOVER", "RECV_PUB", "SEND_MAP", "RECV_MAP", "SEND_UNMAP", "RECV_UNMAP"}
NatpmpRecord == [state : NatpmpStates, has : BOOLEAN, mapped : BOOLEAN, port : PeerPorts \cup {0},
                 asked : PeerPorts \cup {0}, wait : BOOLEAN, renew : BOOLEAN]
NatpmpPair == [n : NatpmpRecord, ports : SUBSET PeerPorts]

\* A mapping that rests is one the router has; so is the one that is read.
NatpmpMeans(n, ports) ==
    /\ n.state \in {"DISCOVER", "RECV_PUB"} => ~n.mapped
    /\ n.state = "IDLE" /\ n.mapped => n.port \in ports
    /\ n.state = "RECV_MAP" => n.asked \in ports
NatpmpOK(w) == w \in NatpmpPair /\ NatpmpMeans(w.n, w.ports)

-----------------------------------------------------------------------------
LEMMA PairMade ==
    ASSUME NEW w \in NatpmpPair, NEW n \in NatpmpRecord
    PROVE  LET v == [w EXCEPT !.n = n] IN v \in NatpmpPair /\ v.n = n /\ v.ports = w.ports
BY DEF NatpmpPair

LEMMA CommandParts ==
    ASSUME NEW n \in NatpmpRecord, NEW sends \in BOOLEAN, NEW next \in NatpmpStates
    PROVE  LET c == Command(n, sends, next)
           IN  /\ c \in NatpmpRecord /\ c.state = IF sends THEN next ELSE "ERR"
               /\ c.has = n.has /\ c.mapped = n.mapped /\ c.port = n.port /\ c.asked = n.asked
<1> DEFINE s == IF sends THEN next ELSE "ERR"
           c == [n EXCEPT !.state = s, !.wait = TRUE]
<1>1. s \in NatpmpStates
  BY DEF NatpmpStates
<1> HIDE DEF s
<1>2. /\ c \in NatpmpRecord /\ c.state = s
      /\ c.has = n.has /\ c.mapped = n.mapped /\ c.port = n.port /\ c.asked = n.asked
  BY <1>1 DEF NatpmpRecord
<1> QED
  BY <1>2 DEF Command, s

LEMMA ReplyParts ==
    ASSUME NEW n \in NatpmpRecord, NEW answer \in Replies, NEW read \in NatpmpRecord
    PROVE  \/ Reply(n, answer, read) = read
           \/ Reply(n, answer, read) = n
           \/ /\ Reply(n, answer, read) \in NatpmpRecord
              /\ Reply(n, answer, read).state = "ERR"
<1>1. [n EXCEPT !.state = "ERR"] \in NatpmpRecord /\ [n EXCEPT !.state = "ERR"].state = "ERR"
  BY DEF NatpmpRecord, NatpmpStates
<1>2. /\ answer = "ok" => Reply(n, answer, read) = read
      /\ answer = "error" => Reply(n, answer, read) = [n EXCEPT !.state = "ERR"]
      /\ answer = "again" => Reply(n, answer, read) = n
  BY DEF Reply
<1> QED
  BY <1>1, <1>2 DEF Replies

\* A machine in error means nothing.
LEMMA ErrMeans ==
    ASSUME NEW n \in NatpmpRecord, NEW ports, n.state \in {"ERR", "SEND_MAP", "SEND_UNMAP", "RECV_UNMAP"}
    PROVE  NatpmpMeans(n, ports)
BY DEF NatpmpMeans

LEMMA DiscoversOK ==
    ASSUME NEW w, NatpmpOK(w), NEW on \in BOOLEAN, NEW sends \in BOOLEAN
    PROVE  NatpmpOK(Discovers(w, on, sends))
<1> DEFINE c == Command(w.n, sends, "RECV_PUB")
           n == [c EXCEPT !.has = TRUE]
           v == [w EXCEPT !.n = n]
<1>1. w \in NatpmpPair /\ w.n \in NatpmpRecord /\ "RECV_PUB" \in NatpmpStates
  BY DEF NatpmpOK, NatpmpPair, NatpmpStates
<1>2. c \in NatpmpRecord /\ (c.state = "RECV_PUB" \/ c.state = "ERR") /\ c.mapped = w.n.mapped
  BY <1>1, CommandParts
<1> HIDE DEF c
<1>3. n \in NatpmpRecord /\ n.state = c.state /\ n.mapped = c.mapped
  BY <1>2 DEF NatpmpRecord
<1> HIDE DEF n
<1>4. v \in NatpmpPair /\ v.n = n
  BY <1>1, <1>3, PairMade
<1>5. Discovers(w, on, sends) = IF on /\ w.n.state = "DISCOVER" THEN v ELSE w
  BY DEF Discovers, n, c
<1> HIDE DEF v
<1>6. w.n.state = "DISCOVER" => NatpmpMeans(v.n, v.ports)
  BY <1>2, <1>3, <1>4 DEF NatpmpOK, NatpmpMeans
<1> QED
  BY <1>4, <1>5, <1>6 DEF NatpmpOK

LEMMA FindsAddressOK ==
    ASSUME NEW w, NatpmpOK(w), NEW answer \in Replies
    PROVE  NatpmpOK(FindsAddress(w, answer))
<1> DEFINE read == [w.n EXCEPT !.state = "IDLE"]
           n == Reply(w.n, answer, read)
           v == [w EXCEPT !.n = n]
<1>1. w \in NatpmpPair /\ w.n \in NatpmpRecord
  BY DEF NatpmpOK, NatpmpPair
<1>2. read \in NatpmpRecord /\ read.state = "IDLE" /\ read.mapped = w.n.mapped
  BY <1>1 DEF NatpmpRecord, NatpmpStates
<1> HIDE DEF read
<1>3. n = read \/ n = w.n \/ (n \in NatpmpRecord /\ n.state = "ERR")
  BY <1>1, <1>2, ReplyParts
<1> HIDE DEF n
<1>4. v \in NatpmpPair /\ v.n = n
  BY <1>1, <1>2, <1>3, PairMade
<1>5. FindsAddress(w, answer) = IF w.n.state = "RECV_PUB" /\ ~w.n.wait THEN v ELSE w
  BY DEF FindsAddress, n, read
<1> HIDE DEF v
<1>6. w.n.state = "RECV_PUB" => NatpmpMeans(v.n, v.ports)
  BY <1>2, <1>3, <1>4 DEF NatpmpOK, NatpmpMeans
<1> QED
  BY <1>4, <1>5, <1>6 DEF NatpmpOK

LEMMA ChoosesUnmapOK ==
    ASSUME NEW w, NatpmpOK(w), NEW port, NEW on
    PROVE  NatpmpOK(ChoosesUnmap(w, port, on))
<1> DEFINE n == [w.n EXCEPT !.state = "SEND_UNMAP"]
           v == [w EXCEPT !.n = n]
<1>1. w \in NatpmpPair /\ w.n \in NatpmpRecord
  BY DEF NatpmpOK, NatpmpPair
<1>2. n \in NatpmpRecord /\ n.state = "SEND_UNMAP"
  BY <1>1 DEF NatpmpRecord, NatpmpStates
<1>3. ChoosesUnmap(w, port, on) = v \/ ChoosesUnmap(w, port, on) = w
  BY DEF ChoosesUnmap
<1> HIDE DEF n
<1>4. v \in NatpmpPair /\ v.n = n
  BY <1>1, <1>2, PairMade
<1> HIDE DEF v
<1>5. NatpmpOK(v)
  BY <1>2, <1>4, ErrMeans DEF NatpmpOK
<1> QED
  BY <1>3, <1>5

LEMMA SendsUnmapOK ==
    ASSUME NEW w, NatpmpOK(w), NEW sends \in BOOLEAN
    PROVE  NatpmpOK(SendsUnmap(w, sends))
<1> DEFINE n == Command(w.n, sends, "RECV_UNMAP")
           ports == IF sends THEN w.ports \ {w.n.port} ELSE w.ports
           v == [n |-> n, ports |-> ports]
<1>1. w \in NatpmpPair /\ w.n \in NatpmpRecord /\ "RECV_UNMAP" \in NatpmpStates /\ w.ports \in SUBSET PeerPorts
  BY DEF NatpmpOK, NatpmpPair, NatpmpStates
<1>2. n \in NatpmpRecord /\ (n.state = "RECV_UNMAP" \/ n.state = "ERR")
  BY <1>1, CommandParts
<1>3. SendsUnmap(w, sends) = v \/ SendsUnmap(w, sends) = w
  BY DEF SendsUnmap
<1>4. ports \in SUBSET PeerPorts
  BY <1>1
<1> HIDE DEF n, ports
<1>5. v \in NatpmpPair /\ v.n = n
  BY <1>2, <1>4 DEF NatpmpPair
<1> QED
  BY <1>2, <1>3, <1>5, ErrMeans DEF NatpmpOK

LEMMA ReadsUnmapOK ==
    ASSUME NEW w, NatpmpOK(w), NEW answer \in Replies
    PROVE  NatpmpOK(ReadsUnmap(w, answer))
<1> DEFINE read == [w.n EXCEPT !.state = "IDLE", !.port = 0, !.mapped = FALSE]
           n == Reply(w.n, answer, read)
           v == [w EXCEPT !.n = n]
<1>1. w \in NatpmpPair /\ w.n \in NatpmpRecord
  BY DEF NatpmpOK, NatpmpPair
<1>2. read \in NatpmpRecord /\ read.state = "IDLE" /\ ~read.mapped
  BY <1>1 DEF NatpmpRecord, NatpmpStates
<1> HIDE DEF read
<1>3. n = read \/ n = w.n \/ (n \in NatpmpRecord /\ n.state = "ERR")
  BY <1>1, <1>2, ReplyParts
<1>4. ReadsUnmap(w, answer) = IF w.n.state # "RECV_UNMAP" THEN w ELSE v
  BY DEF ReadsUnmap, read
<1> HIDE DEF n
<1>5. v \in NatpmpPair /\ v.n = n /\ v.ports = w.ports
  BY <1>1, <1>2, <1>3, PairMade
<1> HIDE DEF v
<1>6. w.n.state = "RECV_UNMAP" => NatpmpMeans(v.n, v.ports)
  BY <1>2, <1>3, <1>5 DEF NatpmpOK, NatpmpMeans
<1> QED
  BY <1>4, <1>5, <1>6 DEF NatpmpOK

LEMMA ChoosesMapOK ==
    ASSUME NEW w, NatpmpOK(w), NEW on
    PROVE  NatpmpOK(ChoosesMap(w, on))
<1> DEFINE n == [w.n EXCEPT !.state = "SEND_MAP"]
           v == [w EXCEPT !.n = n]
<1>1. w \in NatpmpPair /\ w.n \in NatpmpRecord
  BY DEF NatpmpOK, NatpmpPair
<1>2. n \in NatpmpRecord /\ n.state = "SEND_MAP"
  BY <1>1 DEF NatpmpRecord, NatpmpStates
<1>3. ChoosesMap(w, on) = v \/ ChoosesMap(w, on) = w
  BY DEF ChoosesMap
<1> HIDE DEF n
<1>4. v \in NatpmpPair /\ v.n = n
  BY <1>1, <1>2, PairMade
<1> HIDE DEF v
<1>5. NatpmpOK(v)
  BY <1>2, <1>4, ErrMeans DEF NatpmpOK
<1> QED
  BY <1>3, <1>5

LEMMA SendsMapOK ==
    ASSUME NEW w, NatpmpOK(w), NEW port \in PeerPorts, NEW sends \in BOOLEAN
    PROVE  NatpmpOK(SendsMap(w, port, sends))
<1> DEFINE c == Command(w.n, sends, "RECV_MAP")
           n == [c EXCEPT !.asked = port]
           ports == IF sends THEN w.ports \cup {port} ELSE w.ports
           v == [n |-> n, ports |-> ports]
<1>1. w \in NatpmpPair /\ w.n \in NatpmpRecord /\ "RECV_MAP" \in NatpmpStates /\ w.ports \in SUBSET PeerPorts
  BY DEF NatpmpOK, NatpmpPair, NatpmpStates
<1>2. c \in NatpmpRecord /\ (c.state = IF sends THEN "RECV_MAP" ELSE "ERR")
  BY <1>1, CommandParts
<1>3. SendsMap(w, port, sends) = v \/ SendsMap(w, port, sends) = w
  BY DEF SendsMap
<1>4. ports \in SUBSET PeerPorts /\ (sends => port \in ports)
  BY <1>1
<1> HIDE DEF c, ports
<1>5. n \in NatpmpRecord /\ n.state = c.state /\ n.asked = port
  BY <1>2 DEF NatpmpRecord
<1> HIDE DEF n
<1>6. v \in NatpmpPair /\ v.n = n /\ v.ports = ports
  BY <1>4, <1>5 DEF NatpmpPair
<1> HIDE DEF v
<1>7. NatpmpMeans(v.n, v.ports)
  BY <1>2, <1>4, <1>5, <1>6 DEF NatpmpMeans
<1> QED
  BY <1>3, <1>6, <1>7 DEF NatpmpOK

LEMMA ReadsMapOK ==
    ASSUME NEW w, NatpmpOK(w), NEW answer \in Replies
    PROVE  NatpmpOK(ReadsMap(w, answer))
<1> DEFINE read == [w.n EXCEPT !.state = "IDLE", !.mapped = TRUE, !.renew = FALSE, !.port = w.n.asked]
           n == Reply(w.n, answer, read)
           v == [w EXCEPT !.n = n]
<1>1. w \in NatpmpPair /\ w.n \in NatpmpRecord
  BY DEF NatpmpOK, NatpmpPair
<1>2. read \in NatpmpRecord /\ read.state = "IDLE" /\ read.port = w.n.asked
  BY <1>1 DEF NatpmpRecord, NatpmpStates
<1>3. ReadsMap(w, answer) = IF w.n.state # "RECV_MAP" THEN w ELSE v
  BY DEF ReadsMap
<1> HIDE DEF read
<1>4. n = read \/ n = w.n \/ (n \in NatpmpRecord /\ n.state = "ERR")
  BY <1>1, <1>2, ReplyParts
<1> HIDE DEF n
<1>5. v \in NatpmpPair /\ v.n = n /\ v.ports = w.ports
  BY <1>1, <1>2, <1>4, PairMade
<1> HIDE DEF v
<1>6. w.n.state = "RECV_MAP" => NatpmpMeans(v.n, v.ports)
  BY <1>2, <1>4, <1>5 DEF NatpmpOK, NatpmpMeans
<1> QED
  BY <1>3, <1>5, <1>6 DEF NatpmpOK

\* tr_natpmpPulse: whatever is sent and answered.
LEMMA NatpmpPulseOK ==
    ASSUME NEW n, NEW ports, NatpmpOK([n |-> n, ports |-> ports]), NEW port \in PeerPorts,
           NEW on \in BOOLEAN, NEW sends \in BOOLEAN, NEW first \in Replies, NEW reply \in Replies
    PROVE  NatpmpOK(NatpmpPulse(n, port, on, sends, first, reply, ports))
<1> DEFINE w == [n |-> n, ports |-> ports]
           w1 == Discovers(w, on, sends)
           w2 == FindsAddress(w1, first)
           w3 == ChoosesUnmap(w2, port, on)
           w4 == SendsUnmap(w3, sends)
           w5 == ReadsUnmap(w4, first)
           w6 == ChoosesMap(w5, on)
           w7 == SendsMap(w6, port, sends)
           w8 == ReadsMap(w7, reply)
<1> HIDE DEF w, w1, w2, w3, w4, w5, w6, w7
<1>1. NatpmpOK(w1)
  BY DiscoversOK DEF w1, w
<1>2. NatpmpOK(w2)
  BY <1>1, FindsAddressOK DEF w2
<1>3. NatpmpOK(w3)
  BY <1>2, ChoosesUnmapOK DEF w3
<1>4. NatpmpOK(w4)
  BY <1>3, SendsUnmapOK DEF w4
<1>5. NatpmpOK(w5)
  BY <1>4, ReadsUnmapOK DEF w5
<1>6. NatpmpOK(w6)
  BY <1>5, ChoosesMapOK DEF w6
<1>7. NatpmpOK(w7)
  BY <1>6, SendsMapOK DEF w7
<1>8. NatpmpOK(w8)
  BY <1>7, ReadsMapOK
<1> QED
  BY <1>8 DEF NatpmpPulse, w, w1, w2, w3, w4, w5, w6, w7

-----------------------------------------------------------------------------
UpnpRecord == [state : {"IDLE", "ERR", "DISCOVER"}, mapped : BOOLEAN, port : PeerPorts \cup {0}]
Mappings == Protocols \X PeerPorts
UpnpWorlds == [u : UpnpRecord, maps : SUBSET Mappings, left : SUBSET Mappings, unmap : BOOLEAN]

\* The router forwards the port we would remove, and what was left before.
Accounted(w, left) == \A m \in w.maps : m[2] = w.u.port \/ m \in left \/ m \in w.left

\* Before a pulse, and after it has seen to an old mapping: then a port that is
\* kept is the one that is wanted.
UpnpOK(w, left) ==
    /\ w \in UpnpWorlds /\ Accounted(w, left)
    /\ w.u.mapped => w.u.state = "IDLE"
    /\ ~w.u.mapped => w.u.port = 0
UpnpChecked(w, left, port, on) ==
    /\ w \in UpnpWorlds /\ Accounted(w, left)
    /\ w.u.mapped => w.u.state = "IDLE"
    /\ w.u.port # 0 => w.u.state = "IDLE" /\ (w.unmap \/ (on /\ w.u.port = port))
    /\ w.u.mapped => w.u.port # 0
UpnpCleared(w, left, port, on) ==
    /\ w \in UpnpWorlds /\ Accounted(w, left)
    /\ w.u.port # 0 => w.u.state = "IDLE" /\ on /\ w.u.port = port
    /\ w.u.mapped => w.u.port # 0
UpnpAfter(w, left, port, on) ==
    /\ w \in UpnpWorlds /\ Accounted(w, left)
    /\ w.u.mapped => w.u.state = "IDLE" /\ on /\ w.u.port = port
    /\ ~w.u.mapped => w.u.port = 0

LEMMA FindsGatewayOK ==
    ASSUME NEW w, NEW left, UpnpOK(w, left), w.u.mapped => w.u.port # 0,
           NEW on \in BOOLEAN, NEW found \in BOOLEAN
    PROVE  LET v == FindsGateway(w, on, found)
           IN  UpnpOK(v, left) /\ (v.u.mapped => v.u.port # 0)
<1> DEFINE s == IF found THEN "IDLE" ELSE "ERR"
           u == [w.u EXCEPT !.state = s]
           v == [w EXCEPT !.u = u]
<1>1. w \in UpnpWorlds /\ w.u \in UpnpRecord /\ s \in {"IDLE", "ERR", "DISCOVER"}
  BY DEF UpnpOK, UpnpWorlds
<1>2. FindsGateway(w, on, found) = IF on /\ w.u.state = "DISCOVER" THEN v ELSE w
  BY DEF FindsGateway
<1> HIDE DEF s
<1>3. u \in UpnpRecord /\ u.state = s /\ u.mapped = w.u.mapped /\ u.port = w.u.port
  BY <1>1 DEF UpnpRecord
<1> HIDE DEF u
<1>4. v \in UpnpWorlds /\ v.u = u /\ v.maps = w.maps /\ v.left = w.left
  BY <1>1, <1>3 DEF UpnpWorlds
<1> HIDE DEF v
<1>5. w.u.state = "DISCOVER" => UpnpOK(v, left) /\ (v.u.mapped => v.u.port # 0)
  BY <1>3, <1>4 DEF UpnpOK, Accounted
<1> QED
  BY <1>2, <1>5

\* With a mapping to another port, or with none wanted, there is one to remove.
LEMMA ChecksPortOK ==
    ASSUME NEW w, NEW left, UpnpOK(w, left), w.u.mapped => w.u.port # 0, NEW port \in PeerPorts,
           NEW on \in BOOLEAN, NEW check \in BOOLEAN
    PROVE  UpnpChecked(ChecksPort(w, on, check, w.u.state = "IDLE" /\ WantsUnmap(w.u, port, on)), left, port, on)
<1> DEFINE unmap == w.u.state = "IDLE" /\ WantsUnmap(w.u, port, on)
           mapped == w.u.mapped /\ ~(on /\ check /\ \E q \in Protocols : <<q, w.u.port>> \notin w.maps)
           u == [w.u EXCEPT !.mapped = mapped]
           v == [w EXCEPT !.u = u, !.unmap = unmap]
<1>1. w \in UpnpWorlds /\ w.u \in UpnpRecord /\ unmap \in BOOLEAN /\ mapped \in BOOLEAN
      /\ w.u.mapped \in BOOLEAN /\ (mapped => w.u.mapped)
  BY DEF UpnpOK, UpnpWorlds, UpnpRecord
<1>2. w.u.port # 0 => w.u.state = "IDLE" /\ (unmap \/ (on /\ w.u.port = port))
  BY <1>1 DEF UpnpOK, WantsUnmap
<1>3. ChecksPort(w, on, check, unmap) = v
  BY <1>1 DEF ChecksPort, UpnpWorlds
<1> HIDE DEF unmap, mapped
<1>4. u \in UpnpRecord /\ (u.mapped <=> mapped) /\ u.state = w.u.state /\ u.port = w.u.port
  BY <1>1 DEF UpnpRecord
<1> HIDE DEF u
<1>5. v \in UpnpWorlds /\ v.u = u /\ v.maps = w.maps /\ v.left = w.left /\ (v.unmap <=> unmap)
  BY <1>1, <1>4 DEF UpnpWorlds
<1> HIDE DEF v
<1>6. UpnpChecked(v, left, port, on)
  BY <1>1, <1>2, <1>4, <1>5 DEF UpnpOK, UpnpChecked, Accounted
<1> QED
  BY <1>3, <1>6 DEF unmap

\* What the router did not delete is left.
LEMMA DeletesMappingOK ==
    ASSUME NEW w, NEW left, NEW port \in PeerPorts, NEW on \in BOOLEAN, UpnpChecked(w, left, port, on),
           w.left = {}, NEW deletes \in BOOLEAN
    PROVE  UpnpCleared(DeletesMapping(w, deletes), left, port, on)
<1> DEFINE both == w.maps \cap (Protocols \X {w.u.port})
           u == [w.u EXCEPT !.mapped = FALSE, !.port = 0]
           maps == IF deletes THEN w.maps \ both ELSE w.maps
           stays == IF deletes THEN w.left ELSE both
           v == [w EXCEPT !.u = u, !.maps = maps, !.left = stays]
<1>1. w \in UpnpWorlds /\ w.u \in UpnpRecord /\ maps \in SUBSET Mappings /\ stays \in SUBSET Mappings
  BY DEF UpnpChecked, UpnpWorlds
<1>2. \A m \in maps : m \in left \/ m \in stays
  <2> SUFFICES ASSUME NEW m \in maps PROVE m \in left \/ m \in stays
    OBVIOUS
  <2>1. m \in Mappings /\ m \in w.maps
    BY <1>1
  <2>2. m[2] = w.u.port => m \in both
    BY <2>1 DEF Mappings
  <2> QED
    BY <2>1, <2>2 DEF UpnpChecked, Accounted
<1>3. DeletesMapping(w, deletes) = IF ~w.unmap THEN w ELSE v
  BY <1>1 DEF DeletesMapping, UpnpWorlds, UpnpRecord
<1> HIDE DEF maps, stays
<1>4. u \in UpnpRecord /\ ~u.mapped /\ u.port = 0
  BY <1>1 DEF UpnpRecord
<1> HIDE DEF u
<1>5. v \in UpnpWorlds /\ v.u = u /\ v.maps = maps /\ v.left = stays
  BY <1>1, <1>4 DEF UpnpWorlds
<1> HIDE DEF v
<1>6. UpnpCleared(v, left, port, on)
  BY <1>2, <1>4, <1>5 DEF UpnpCleared, Accounted
<1>7. ~w.unmap => UpnpCleared(w, left, port, on)
  BY DEF UpnpChecked, UpnpCleared
<1> QED
  BY <1>3, <1>6, <1>7

LEMMA AddsMappingOK ==
    ASSUME NEW w, NEW left, NEW port \in PeerPorts, NEW on \in BOOLEAN, UpnpCleared(w, left, port, on),
           NEW adds \in SUBSET Protocols
    PROVE  UpnpAfter(AddsMapping(w, port, on, adds), left, port, on)
<1> DEFINE u1 == [w.u EXCEPT !.mapped = TRUE, !.port = port]
           maps == w.maps \cup (adds \X {port})
           v1 == [w EXCEPT !.u = u1, !.maps = maps]
           u2 == [w.u EXCEPT !.state = "ERR", !.port = 0]
           v2 == [w EXCEPT !.u = u2, !.left = w.maps]
<1>1. w \in UpnpWorlds /\ w.u \in UpnpRecord /\ maps \in SUBSET Mappings /\ w.maps \in SUBSET Mappings
  BY DEF UpnpCleared, UpnpWorlds, Mappings
<1>2. AddsMapping(w, port, on, adds) =
        IF ~(w.u.state = "IDLE" /\ on /\ ~w.u.mapped) THEN w ELSE IF adds # {} THEN v1 ELSE v2
  BY <1>1 DEF AddsMapping, UpnpWorlds, UpnpRecord
<1>3. \A m \in maps : m[2] = port \/ m \in left \/ m \in w.left
  <2> SUFFICES ASSUME NEW m \in maps PROVE m[2] = port \/ m \in left \/ m \in w.left
    OBVIOUS
  <2>1. CASE m \in w.maps
    <3>1. m[2] \in PeerPorts
      BY <1>1, <2>1 DEF Mappings
    <3> QED
      BY <2>1, <3>1, ForwardAssumption DEF UpnpCleared, Accounted
  <2>2. CASE m \in adds \X {port}
    BY <2>2
  <2> QED
    BY <2>1, <2>2
<1> HIDE DEF maps
<1>4. u1 \in UpnpRecord /\ u1.mapped /\ u1.port = port /\ u1.state = w.u.state
  BY <1>1 DEF UpnpRecord
<1>5. u2 \in UpnpRecord /\ u2.mapped = w.u.mapped /\ u2.port = 0
  BY <1>1 DEF UpnpRecord
<1> HIDE DEF u1, u2
<1>6. v1 \in UpnpWorlds /\ v1.u = u1 /\ v1.maps = maps /\ v1.left = w.left
  BY <1>1, <1>4 DEF UpnpWorlds
<1>7. v2 \in UpnpWorlds /\ v2.u = u2 /\ v2.maps = w.maps /\ v2.left = w.maps
  BY <1>1, <1>5 DEF UpnpWorlds
<1> HIDE DEF v1, v2
<1>8. CASE ~(w.u.state = "IDLE" /\ on /\ ~w.u.mapped)
  <2>1. UpnpAfter(w, left, port, on)
    BY <1>8 DEF UpnpCleared, UpnpAfter
  <2> QED
    BY <1>2, <1>8, <2>1
<1>9. CASE w.u.state = "IDLE" /\ on /\ ~w.u.mapped
  <2>1. UpnpAfter(v1, left, port, on)
    BY <1>3, <1>4, <1>6, <1>9 DEF UpnpAfter, Accounted
  <2>2. UpnpAfter(v2, left, port, on)
    BY <1>5, <1>7, <1>9 DEF UpnpAfter, Accounted
  <2> QED
    BY <1>2, <1>9, <2>1, <2>2
<1> QED
  BY <1>8, <1>9

\* tr_upnpPulse: whatever the router does.
LEMMA UpnpPulseOK ==
    ASSUME NEW u \in UpnpRecord, NEW maps \in SUBSET Mappings, NEW left,
           \A m \in maps : m[2] = u.port \/ m \in left,
           u.mapped => u.state = "IDLE" /\ u.port # 0, ~u.mapped => u.port = 0,
           NEW port \in PeerPorts, NEW on \in BOOLEAN, NEW check \in BOOLEAN, NEW found \in BOOLEAN,
           NEW deletes \in BOOLEAN, NEW adds \in SUBSET Protocols
    PROVE  UpnpAfter(UpnpPulse(u, port, on, check, found, deletes, adds, maps), left, port, on)
<1> DEFINE no == FALSE
           none == {}
           w == [u |-> u, maps |-> maps, left |-> none, unmap |-> no]
           w1 == FindsGateway(w, on, found)
           w2 == ChecksPort(w1, on, check, w1.u.state = "IDLE" /\ WantsUnmap(w1.u, port, on))
           w3 == DeletesMapping(w2, deletes)
           w4 == AddsMapping(w3, port, on, adds)
<1>1. w \in UpnpWorlds /\ w.u = u /\ w.maps = maps /\ w.left = {}
  BY DEF UpnpWorlds
<1>2. w1.left = w.left /\ w2.left = w1.left
  <2>1. w1.left = w.left /\ w1 \in UpnpWorlds
    <3>1. UpnpOK(w, left)
      <4> HIDE DEF w
      <4> QED
        BY <1>1 DEF UpnpOK, Accounted
    <3>2. w1 \in UpnpWorlds
      <4> HIDE DEF w
      <4> QED
        BY <1>1, <3>1, FindsGatewayOK DEF UpnpOK
    <3>3. \A s : [w EXCEPT !.u.state = s].left = w.left
      <4> HIDE DEF w
      <4> QED
        BY <1>1 DEF UpnpWorlds
    <3> QED
      BY <3>2, <3>3 DEF FindsGateway
  <2> HIDE DEF w1, w
  <2>2. w2.left = w1.left
    BY <2>1 DEF ChecksPort, UpnpWorlds
  <2> QED
    BY <2>1, <2>2
<1> HIDE DEF w, w1, w2, w3
<1>3. UpnpOK(w, left) /\ (w.u.mapped => w.u.port # 0)
  BY <1>1 DEF UpnpOK, Accounted
<1>4. UpnpOK(w1, left) /\ (w1.u.mapped => w1.u.port # 0)
  BY <1>3, FindsGatewayOK DEF w1
<1>5. UpnpChecked(w2, left, port, on)
  BY <1>4, ChecksPortOK DEF w2
<1>6. UpnpCleared(w3, left, port, on)
  BY <1>1, <1>2, <1>5, DeletesMappingOK DEF w3
<1>7. UpnpAfter(w4, left, port, on)
  BY <1>6, AddsMappingOK
<1> QED
  BY <1>7 DEF UpnpPulse, Deletion, w, w1, w2, w3

-----------------------------------------------------------------------------
SharedRecord == [enabled : BOOLEAN, closing : BOOLEAN, check : BOOLEAN, timer : BOOLEAN, leaked : Nat,
                 natpmp : Statuses, upnp : Statuses, port : PeerPorts, public : PeerPorts \cup {0}]
RouterRecord == [natpmp : SUBSET PeerPorts, upnp : SUBSET Mappings, left : SUBSET Mappings]

\* What is said of the mappings, given the machines and the router.
Said(s, n, u, rt) ==
    /\ s \in SharedRecord /\ rt \in RouterRecord
    /\ \A m \in rt.upnp : m[2] = u.port \/ m \in rt.left
    /\ u.mapped => u.state = "IDLE" /\ u.port = s.port
    /\ ~u.mapped => u.port = 0
    /\ s.upnp = "MAPPED" <=> u.mapped
    /\ s.natpmp = "MAPPED" => n.state = "IDLE" /\ n.mapped /\ s.public = n.port
MachinesOK ==
    /\ natpmp = NoNatpmp \/ NatpmpOK([n |-> natpmp, ports |-> router.natpmp])
    /\ upnp \in UpnpRecord \/ (upnp.state = "none" /\ ~upnp.mapped)

PfInv ==
    /\ Said(shared, natpmp, upnp, router)
    /\ MachinesOK
    /\ ~shared.enabled \/ shared.closing => shared.natpmp # "MAPPED" /\ ~upnp.mapped
    /\ shared.timer => shared.enabled /\ ~shared.closing

LEMMA StatusParts ==
    /\ \A n \in NatpmpRecord : /\ NatpmpStatus(n) \in Statuses
                               /\ NatpmpStatus(n) = "MAPPED" => n.state = "IDLE" /\ n.mapped
    /\ \A u \in UpnpRecord : /\ UpnpStatus(u) \in Statuses
                             /\ (u.mapped => u.state = "IDLE") => (UpnpStatus(u) = "MAPPED" <=> u.mapped)
<1>1. ASSUME NEW n \in NatpmpRecord
      PROVE  NatpmpStatus(n) \in Statuses /\ (NatpmpStatus(n) = "MAPPED" => n.state = "IDLE" /\ n.mapped)
  BY DEF NatpmpRecord, NatpmpStates, NatpmpStatus, Statuses
<1>2. ASSUME NEW u \in UpnpRecord
      PROVE  /\ UpnpStatus(u) \in Statuses
             /\ (u.mapped => u.state = "IDLE") => (UpnpStatus(u) = "MAPPED" <=> u.mapped)
  BY DEF UpnpRecord, UpnpStatus, Statuses
<1> QED
  BY <1>1, <1>2

\* tr_natpmpInit and tr_upnpInit.
LEMMA Fresh ==
    /\ NatpmpInit \in NatpmpRecord /\ NatpmpInit.state = "DISCOVER" /\ ~NatpmpInit.mapped
    /\ UpnpInit \in UpnpRecord /\ UpnpInit.port = 0 /\ ~UpnpInit.mapped
<1>1. /\ NoNatpmp \in [state : {"none", "DISCOVER"}, has : BOOLEAN, mapped : {FALSE}, port : {0},
                       asked : {0}, wait : BOOLEAN, renew : BOOLEAN]
      /\ NoUpnp \in [state : {"none", "DISCOVER"}, mapped : {FALSE}, port : {0}]
  BY DEF NoNatpmp, NoUpnp
<1>2. NatpmpInit \in NatpmpRecord /\ NatpmpInit.state = "DISCOVER" /\ ~NatpmpInit.mapped
  BY <1>1 DEF NatpmpInit, NatpmpRecord, NatpmpStates
<1>3. UpnpInit \in UpnpRecord /\ UpnpInit.port = 0 /\ ~UpnpInit.mapped
  BY <1>1 DEF UpnpInit, UpnpRecord
<1> QED
  BY <1>2, <1>3

\* natPulse, for any settings: what it says is what the machines mean.
LEMMA NatPulseOK ==
    ASSUME PfInv, NEW s \in SharedRecord, NEW check \in BOOLEAN, NEW r \in NatPulse(s, check)
    PROVE  /\ Said(r.s, r.n, r.u, r.router)
           /\ NatpmpOK([n |-> r.n, ports |-> r.router.natpmp]) /\ r.u \in UpnpRecord
           /\ r.s.enabled = s.enabled /\ r.s.closing = s.closing /\ r.s.check = s.check
           /\ r.s.timer = s.timer /\ r.s.leaked = s.leaked /\ r.s.port = s.port
           /\ r.u.mapped => s.enabled /\ ~s.closing
<1> DEFINE on == s.enabled /\ ~s.closing
           n0 == IF natpmp.state = "none" THEN NatpmpInit ELSE natpmp
           u0 == IF upnp.state = "none" THEN UpnpInit ELSE upnp
           public(np) == IF NatpmpStatus(np.n) = "MAPPED" THEN np.n.port ELSE s.public
           said(np, up) == [s EXCEPT !.natpmp = NatpmpStatus(np.n), !.upnp = UpnpStatus(up.u), !.public = public(np)]
           rt(np, up) == [natpmp |-> np.ports, upnp |-> up.maps, left |-> router.left \cup up.left]
           NS == NatpmpOutcomes(n0, s.port, on)
           US == UpnpOutcomes(u0, s.port, on, check)
<1>1. PICK np \in NS, up \in US : r = PulseResult(s, np, up)
  BY DEF NatPulse
<1>2. r.s = said(np, up) /\ r.n = np.n /\ r.u = up.u /\ r.router = rt(np, up)
  <2>1. r = [s |-> said(np, up), n |-> np.n, u |-> up.u, router |-> rt(np, up)]
    BY <1>1 DEF PulseResult
  <2> HIDE DEF NS, US, said, rt
  <2> QED
    BY <2>1
<1>3. s.port \in PeerPorts /\ on \in BOOLEAN /\ s.enabled \in BOOLEAN /\ s.closing \in BOOLEAN
  BY DEF SharedRecord
<1>4. router \in RouterRecord /\ router.natpmp \in SUBSET PeerPorts /\ router.upnp \in SUBSET Mappings
      /\ router.left \in SUBSET Mappings
  BY DEF PfInv, Said, RouterRecord
<1>5. NatpmpOK([n |-> n0, ports |-> router.natpmp])
  <2>1. CASE natpmp.state = "none"
    BY <1>4, <2>1, Fresh DEF NatpmpOK, NatpmpPair, NatpmpMeans
  <2>2. CASE natpmp.state # "none"
    <3>1. natpmp # NoNatpmp
      BY <2>2 DEF NoNatpmp
    <3> QED
      BY <2>2, <3>1 DEF PfInv, MachinesOK
  <2> QED
    BY <2>1, <2>2
<1>6. /\ u0 \in UpnpRecord
      /\ u0.mapped => u0.state = "IDLE" /\ u0.port # 0
      /\ ~u0.mapped => u0.port = 0
      /\ \A m \in router.upnp : m[2] = u0.port \/ m \in router.left
  <2>1. CASE upnp.state = "none"
    <3>1. ~upnp.mapped /\ upnp.port = 0
      BY <2>1 DEF PfInv, MachinesOK, Said, UpnpRecord
    <3> QED
      BY <2>1, <3>1, Fresh DEF PfInv, Said
  <2>2. CASE upnp.state # "none"
    <3>1. shared.port # 0
      BY ForwardAssumption DEF PfInv, Said, SharedRecord
    <3> QED
      BY <2>2, <3>1 DEF PfInv, MachinesOK, Said
  <2> QED
    BY <2>1, <2>2
<1> HIDE DEF on, n0, u0
<1>7. NatpmpOK(np)
  <2>1. PICK sends \in BOOLEAN, first \in Replies, reply \in Replies :
          np = NatpmpPulse(n0, s.port, on, sends, first, reply, router.natpmp)
    BY DEF NatpmpOutcomes
  <2> QED
    BY <1>3, <1>5, <2>1, NatpmpPulseOK
<1>8. UpnpAfter(up, router.left, s.port, on)
  <2>1. u0 \in UpnpRecord /\ (u0.mapped => u0.state = "IDLE" /\ u0.port # 0) /\ (~u0.mapped => u0.port = 0)
    BY <1>6 DEF UpnpRecord
  <2>2. PICK found \in BOOLEAN, deletes \in BOOLEAN, adds \in SUBSET Protocols :
          up = UpnpPulse(u0, s.port, on, check, found, deletes, adds, router.upnp)
    BY DEF UpnpOutcomes
  <2> QED
    BY <1>3, <1>4, <1>6, <2>1, <2>2, UpnpPulseOK
<1> HIDE DEF NS, US
<1>9. np.n \in NatpmpRecord /\ np.ports \in SUBSET PeerPorts /\ up.u \in UpnpRecord
      /\ up.maps \in SUBSET Mappings /\ up.left \in SUBSET Mappings
  BY <1>7, <1>8 DEF NatpmpOK, NatpmpPair, UpnpAfter, UpnpWorlds
<1>10. /\ NatpmpStatus(np.n) \in Statuses /\ UpnpStatus(up.u) \in Statuses
       /\ NatpmpStatus(np.n) = "MAPPED" => np.n.state = "IDLE" /\ np.n.mapped
       /\ UpnpStatus(up.u) = "MAPPED" <=> up.u.mapped
  <2>1. up.u.mapped => up.u.state = "IDLE"
    BY <1>8 DEF UpnpAfter
  <2> QED
    BY <1>9, <2>1, StatusParts
<1>11. public(np) \in PeerPorts \cup {0} /\ (NatpmpStatus(np.n) = "MAPPED" => public(np) = np.n.port)
  BY <1>9 DEF NatpmpRecord, SharedRecord
<1> DEFINE x == said(np, up)
<1>12. /\ x \in SharedRecord /\ x.natpmp = NatpmpStatus(np.n) /\ x.upnp = UpnpStatus(up.u) /\ x.public = public(np)
       /\ x.enabled = s.enabled /\ x.closing = s.closing /\ x.check = s.check
       /\ x.timer = s.timer /\ x.leaked = s.leaked /\ x.port = s.port
  <2> HIDE DEF public
  <2> QED
    BY <1>10, <1>11 DEF SharedRecord
<1> HIDE DEF said, public
<1>13. rt(np, up) \in RouterRecord /\ rt(np, up).natpmp = np.ports /\ rt(np, up).upnp = up.maps
       /\ rt(np, up).left = router.left \cup up.left
  BY <1>4, <1>9 DEF RouterRecord
<1> HIDE DEF rt, x
<1>14. r.s = x
  BY <1>2 DEF x
<1>15. NatpmpOK([n |-> r.n, ports |-> r.router.natpmp])
  BY <1>2, <1>7, <1>9, <1>13 DEF NatpmpOK, NatpmpPair
<1>16. Said(r.s, r.n, r.u, r.router)
  BY <1>2, <1>8, <1>10, <1>11, <1>12, <1>13, <1>14 DEF Said, UpnpAfter, Accounted
<1>17. r.u.mapped => s.enabled /\ ~s.closing
  BY <1>2, <1>8 DEF UpnpAfter, on
<1> QED
  BY <1>2, <1>9, <1>12, <1>14, <1>15, <1>16, <1>17

-----------------------------------------------------------------------------
\* What is said of the mappings does not depend on the timers.
SameButTimers(s, t) ==
    /\ t \in SharedRecord
    /\ t.natpmp = s.natpmp /\ t.upnp = s.upnp /\ t.port = s.port /\ t.public = s.public
LEMMA SaidSame ==
    ASSUME NEW s, NEW n, NEW u, NEW rt, Said(s, n, u, rt), NEW t, SameButTimers(s, t)
    PROVE  Said(t, n, u, rt)
BY DEF Said, SameButTimers

LEMMA SetTimerParts ==
    ASSUME NEW s \in SharedRecord
    PROVE  LET t == SetTimer(s)
           IN  /\ SameButTimers(s, t)
               /\ t.enabled = s.enabled /\ t.closing = s.closing /\ t.timer = s.timer
<1> DEFINE c == s.check \/ Status(s) = "MAPPED"
           t == [s EXCEPT !.check = c]
<1>1. c \in BOOLEAN
  BY DEF SharedRecord
<1>2. SetTimer(s) = t
  BY DEF SetTimer
<1> HIDE DEF c
<1>3. /\ SameButTimers(s, t)
      /\ t.enabled = s.enabled /\ t.closing = s.closing /\ t.timer = s.timer
  BY <1>1 DEF SharedRecord, SameButTimers
<1> QED
  BY <1>2, <1>3

LEMMA StartTimerParts ==
    ASSUME NEW s \in SharedRecord
    PROVE  LET t == StartTimer(s)
           IN  SameButTimers(s, t) /\ t.enabled = s.enabled /\ t.closing = s.closing
<1> DEFINE n == IF s.timer THEN s.leaked + 1 ELSE s.leaked
           t == [s EXCEPT !.timer = TRUE, !.leaked = n]
<1>1. n \in Nat
  BY DEF SharedRecord
<1>2. StartTimer(s) = SetTimer(t)
  BY DEF StartTimer
<1> HIDE DEF n
<1>3. SameButTimers(s, t) /\ t.enabled = s.enabled /\ t.closing = s.closing
  BY <1>1 DEF SharedRecord, SameButTimers
<1> HIDE DEF t
<1>4. SameButTimers(t, SetTimer(t)) /\ SetTimer(t).enabled = t.enabled /\ SetTimer(t).closing = t.closing
  BY <1>3, SetTimerParts DEF SameButTimers
<1> QED
  BY <1>2, <1>3, <1>4 DEF SameButTimers

LEMMA InitPfInv == PfInit => PfInv
<1> SUFFICES ASSUME PfInit PROVE PfInv
  OBVIOUS
<1>1. shared \in SharedRecord /\ shared.natpmp = "UNMAPPED" /\ shared.upnp = "UNMAPPED" /\ ~shared.timer
  BY DEF PfInit, SharedRecord, Statuses
<1>2. natpmp = NoNatpmp /\ upnp = NoUpnp /\ router = [natpmp |-> {}, upnp |-> {}, left |-> {}]
  BY DEF PfInit
<1>3. upnp.state = "none" /\ ~upnp.mapped /\ upnp.port = 0
  BY <1>2 DEF NoUpnp
<1>4. router \in RouterRecord /\ router.upnp = {}
  BY <1>2 DEF RouterRecord
<1> QED
  BY <1>1, <1>2, <1>3, <1>4 DEF PfInv, Said, MachinesOK

\* A pulse with the forwarding on, and a change of the timers.
LEMMA PulsedStep ==
    ASSUME PfInv, NEW s \in SharedRecord, NEW check \in BOOLEAN, NEW r \in NatPulse(s, check),
           s.enabled, ~s.closing, SameButTimers(r.s, shared'),
           shared'.enabled = s.enabled, shared'.closing = s.closing,
           natpmp' = r.n, upnp' = r.u, router' = r.router
    PROVE  PfInv'
<1>1. Said(r.s, r.n, r.u, r.router) /\ NatpmpOK([n |-> r.n, ports |-> r.router.natpmp]) /\ r.u \in UpnpRecord
  BY NatPulseOK
<1>2. Said(shared', natpmp', upnp', router')
  BY <1>1, SaidSame
<1> QED
  BY <1>1, <1>2 DEF PfInv, MachinesOK

LEMMA OnTimerStep ==
    ASSUME PfInv, NEW leak \in BOOLEAN, OnTimer(leak)
    PROVE  PfInv'
<1>1. shared \in SharedRecord /\ shared.enabled /\ ~shared.closing /\ shared.check \in BOOLEAN
      /\ (leak => shared.leaked > 0)
  BY DEF PfInv, Said, OnTimer, SharedRecord
<1>2. PICK r \in NatPulse(shared, shared.check) :
         /\ shared' = SetTimer([r.s EXCEPT !.check = FALSE, !.leaked = IF leak THEN @ - 1 ELSE @])
         /\ natpmp' = r.n /\ upnp' = r.u /\ router' = r.router
  BY DEF OnTimer
<1> DEFINE n == IF leak THEN r.s.leaked - 1 ELSE r.s.leaked
           t == [r.s EXCEPT !.check = FALSE, !.leaked = n]
<1>3. r.s \in SharedRecord /\ r.s.enabled = shared.enabled /\ r.s.closing = shared.closing
      /\ r.s.leaked = shared.leaked
  BY <1>1, NatPulseOK, ZenonT(60) DEF Said
<1>4. n \in Nat
  BY <1>1, <1>3 DEF SharedRecord
<1>5. shared' = SetTimer(t)
  BY <1>2
<1> HIDE DEF n
<1>6. SameButTimers(r.s, t) /\ t.enabled = r.s.enabled /\ t.closing = r.s.closing
  BY <1>3, <1>4 DEF SharedRecord, SameButTimers
<1> HIDE DEF t
<1>7. SameButTimers(t, SetTimer(t)) /\ SetTimer(t).enabled = t.enabled /\ SetTimer(t).closing = t.closing
  BY <1>6, SetTimerParts DEF SameButTimers
<1>8. SameButTimers(r.s, shared') /\ shared'.enabled = shared.enabled /\ shared'.closing = shared.closing
  BY <1>3, <1>5, <1>6, <1>7 DEF SameButTimers
<1> QED
  BY <1>1, <1>2, <1>8, PulsedStep

\* stop_forwarding: the last pulse removes the UPnP mapping.
LEMMA StopStep ==
    ASSUME PfInv, NEW s \in SharedRecord, ~s.enabled \/ s.closing, StopForwarding(s)
    PROVE  PfInv'
<1> DEFINE no == FALSE
<1>1. no \in BOOLEAN
  OBVIOUS
<1>2. PICK r \in NatPulse(s, no) :
        /\ shared' = [r.s EXCEPT !.timer = FALSE, !.natpmp = "UNMAPPED", !.upnp = "UNMAPPED"]
        /\ natpmp' = NoNatpmp
        /\ upnp' = [NoUpnp EXCEPT !.mapped = r.u.mapped]
        /\ router' = r.router
  BY DEF StopForwarding
<1> HIDE DEF no
<1>3. Said(r.s, r.n, r.u, r.router) /\ r.u \in UpnpRecord
  BY <1>1, NatPulseOK
<1>4. r.u.mapped = FALSE /\ r.u.port = 0
  <2>1. r.u.mapped => s.enabled /\ ~s.closing
    BY <1>1, NatPulseOK
  <2> QED
    BY <1>3, <2>1 DEF Said, UpnpRecord
<1>5. upnp' = NoUpnp
  BY <1>2, <1>4 DEF NoUpnp
<1>6. upnp'.state = "none" /\ ~upnp'.mapped /\ upnp'.port = 0
  BY <1>5 DEF NoUpnp
<1>7. shared' \in SharedRecord /\ ~shared'.timer /\ shared'.natpmp = "UNMAPPED" /\ shared'.upnp = "UNMAPPED"
  BY <1>2, <1>3 DEF Said, SharedRecord, Statuses
<1>8. Said(shared', natpmp', upnp', router')
  BY <1>2, <1>3, <1>4, <1>6, <1>7 DEF Said
<1> QED
  BY <1>2, <1>6, <1>7, <1>8 DEF PfInv, MachinesOK

LEMMA TraversalEnableStep ==
    ASSUME PfInv, NEW on \in BOOLEAN, TraversalEnable(on)
    PROVE  PfInv'
<1> DEFINE s == [shared EXCEPT !.enabled = on]
<1>1. shared \in SharedRecord /\ ~shared.closing /\ Said(shared, natpmp, upnp, router)
  BY DEF PfInv, Said, TraversalEnable
<1>2. SameButTimers(shared, s) /\ s.closing = shared.closing /\ s.enabled = on
  BY <1>1 DEF SharedRecord, SameButTimers
<1>3. CASE on
  <2>1. shared' = StartTimer(s) /\ UNCHANGED <<natpmp, upnp, router>>
    BY <1>3 DEF TraversalEnable
  <2> HIDE DEF s
  <2>2. SameButTimers(s, StartTimer(s)) /\ StartTimer(s).closing = s.closing /\ StartTimer(s).enabled = s.enabled
    BY <1>2, StartTimerParts DEF SameButTimers
  <2>3. SameButTimers(shared, shared') /\ ~shared'.closing /\ shared'.enabled
    BY <1>1, <1>2, <1>3, <2>1, <2>2 DEF SameButTimers
  <2>4. Said(shared', natpmp, upnp, router)
    BY <1>1, <2>3, SaidSame
  <2> QED
    BY <2>1, <2>3, <2>4 DEF PfInv, MachinesOK
<1>4. CASE ~on
  <2>1. StopForwarding(s)
    BY <1>4 DEF TraversalEnable
  <2> HIDE DEF s
  <2> QED
    BY <1>2, <1>4, <2>1, StopStep DEF SameButTimers
<1> QED
  BY <1>3, <1>4

LEMMA PortChangedStep ==
    ASSUME PfInv, NEW p \in PeerPorts, PortChanged(p)
    PROVE  PfInv'
<1> DEFINE s == [shared EXCEPT !.port = p, !.public = p]
           x == [s EXCEPT !.timer = FALSE]
           no == FALSE
<1>1. shared \in SharedRecord /\ ~shared.closing
  BY DEF PfInv, Said, PortChanged
<1>2. /\ s \in SharedRecord /\ s.closing = shared.closing /\ s.enabled = shared.enabled /\ s.timer = shared.timer
      /\ s.natpmp = shared.natpmp /\ s.upnp = shared.upnp
  BY <1>1 DEF SharedRecord
<1>3. IF ~shared.enabled THEN shared' = s /\ UNCHANGED <<natpmp, upnp, router>>
      ELSE \E r \in NatPulse(x, no) :
             shared' = StartTimer(r.s) /\ natpmp' = r.n /\ upnp' = r.u /\ router' = r.router
  BY DEF PortChanged
<1> HIDE DEF s
<1>4. x \in SharedRecord /\ x.closing = s.closing /\ x.enabled = s.enabled /\ no \in BOOLEAN
  BY <1>2 DEF SharedRecord
<1> HIDE DEF x, no
<1>5. CASE ~shared.enabled
  BY <1>2, <1>3, <1>5 DEF PfInv, Said, MachinesOK
<1>6. CASE shared.enabled
  <2>1. PICK r \in NatPulse(x, no) :
          shared' = StartTimer(r.s) /\ natpmp' = r.n /\ upnp' = r.u /\ router' = r.router
    BY <1>3, <1>6
  <2>2. r.s \in SharedRecord /\ r.s.enabled = x.enabled /\ r.s.closing = x.closing
    BY <1>4, NatPulseOK DEF Said
  <2>3. SameButTimers(r.s, shared') /\ shared'.enabled = x.enabled /\ shared'.closing = x.closing
    BY <2>1, <2>2, StartTimerParts
  <2> QED
    BY <1>1, <1>2, <1>4, <1>6, <2>1, <2>3, PulsedStep
<1> QED
  BY <1>5, <1>6

LEMMA SharedCloseStep ==
    ASSUME PfInv, SharedClose
    PROVE  PfInv'
<1> DEFINE s == [shared EXCEPT !.closing = TRUE]
<1>1. s \in SharedRecord /\ s.closing
  BY DEF PfInv, Said, SharedRecord
<1>2. StopForwarding(s)
  BY DEF SharedClose
<1> HIDE DEF s
<1> QED
  BY <1>1, <1>2, StopStep

\* The deadlines of a machine mean nothing for its mapping.
LEMMA TimePassesStep ==
    ASSUME PfInv, TimePasses
    PROVE  PfInv'
<1>1. UNCHANGED <<shared, upnp, router>> /\ (natpmp.wait \/ natpmp.mapped)
      /\ \/ natpmp' = [natpmp EXCEPT !.wait = FALSE]
         \/ natpmp' = [natpmp EXCEPT !.renew = TRUE, !.wait = FALSE]
  BY DEF TimePasses
<1>2. natpmp # NoNatpmp
  BY <1>1 DEF NoNatpmp
<1>3. NatpmpOK([n |-> natpmp, ports |-> router.natpmp])
  BY <1>2 DEF PfInv, MachinesOK
<1>4. natpmp \in NatpmpRecord /\ NatpmpMeans(natpmp, router.natpmp) /\ router.natpmp \in SUBSET PeerPorts
  BY <1>3 DEF NatpmpOK, NatpmpPair
<1>5. /\ natpmp' \in NatpmpRecord /\ natpmp'.state = natpmp.state /\ natpmp'.mapped = natpmp.mapped
      /\ natpmp'.port = natpmp.port /\ natpmp'.asked = natpmp.asked
  BY <1>1, <1>4 DEF NatpmpRecord
<1>6. NatpmpOK([n |-> natpmp', ports |-> router'.natpmp])
  <2>1. NatpmpMeans(natpmp', router'.natpmp)
    BY <1>1, <1>4, <1>5 DEF NatpmpMeans
  <2> QED
    BY <1>1, <1>4, <1>5, <2>1 DEF NatpmpOK, NatpmpPair
<1> QED
  BY <1>1, <1>5, <1>6 DEF PfInv, Said, MachinesOK

LEMMA RouterForgetsStep ==
    ASSUME PfInv, NEW m \in router.upnp, RouterForgets(m)
    PROVE  PfInv'
<1> DEFINE ports == router.upnp \ {m}
<1>1. router' = [router EXCEPT !.upnp = ports] /\ UNCHANGED <<shared, natpmp, upnp>> /\ router \in RouterRecord
  BY DEF RouterForgets, PfInv, Said
<1>2. router' \in RouterRecord /\ router'.upnp = ports /\ router'.natpmp = router.natpmp /\ router'.left = router.left
  BY <1>1 DEF RouterRecord
<1> QED
  BY <1>1, <1>2 DEF PfInv, Said, MachinesOK

LEMMA PfStep ==
    ASSUME PfInv, [PfNext]_pfVars
    PROVE  PfInv'
<1>1. CASE UNCHANGED pfVars
  BY <1>1 DEF pfVars, PfInv, Said, MachinesOK
<1> QED
  BY <1>1, OnTimerStep, TraversalEnableStep, PortChangedStep, SharedCloseStep, TimePassesStep,
     RouterForgetsStep DEF PfNext

LEMMA PfInvSound == PfInv => PfTypeOK /\ ForwardingSound
<1> SUFFICES ASSUME PfInv PROVE PfTypeOK /\ ForwardingSound
  OBVIOUS
<1>1. natpmp.state \in NatpmpStates \cup {"none"}
  BY DEF PfInv, MachinesOK, NoNatpmp, NatpmpOK, NatpmpPair, NatpmpRecord
<1>2. upnp.state \in {"none", "IDLE", "ERR", "DISCOVER"}
  BY DEF PfInv, MachinesOK, UpnpRecord
<1>3. PfTypeOK
  BY <1>1, <1>2 DEF PfInv, Said, SharedRecord, PfTypeOK, NatpmpStates
<1>4. shared.natpmp = "MAPPED" => natpmp.port \in router.natpmp
  <2> SUFFICES ASSUME shared.natpmp = "MAPPED" PROVE natpmp.port \in router.natpmp
    OBVIOUS
  <2>1. natpmp.state = "IDLE" /\ natpmp.mapped
    BY DEF PfInv, Said
  <2>2. natpmp # NoNatpmp
    BY <2>1 DEF NoNatpmp
  <2> QED
    BY <2>1, <2>2 DEF PfInv, MachinesOK, NatpmpOK, NatpmpPair, NatpmpMeans
<1>5. ForwardingSound
  BY <1>4 DEF PfInv, Said, ForwardingSound
<1> QED
  BY <1>3, <1>5

\* What is said to be forwarded was asked for, whatever the router answers.
THEOREM Forwarding == PfSpec => []ForwardingSound
<1>1. PfInv /\ [PfNext]_pfVars => PfInv'
  BY PfStep
<1> QED
  BY <1>1, InitPfInv, PfInvSound, PTL DEF PfSpec

-----------------------------------------------------------------------------
(***************************************************************************)
(* The cache of open files, for any files, any number of slots and any       *)
(* opens that fail (fdlimit.c).                                              *)
(***************************************************************************)
MaybeFile == Files \cup {NoFile}
SlotRecord == [fd : MaybeFile, label : MaybeFile, writable : BOOLEAN, usedAt : Nat,
               botched : BOOLEAN, spoilt : BOOLEAN]
SocketRecord == [limit : Nat, count : Nat, owned : Nat, lost : Nat]

\* A slot that no failed open ever came to is the first that has its label, and
\* what else is open under that label was left by one.
FirstOfLabel ==
    \A x, s \in Slots :
        /\ x # s /\ IsOpen(x) /\ ~slot[x].spoilt
        /\ slot[x].label \in Files /\ slot[s].label = slot[x].label
        => x < s /\ (IsOpen(s) => slot[s].botched)
FdInv ==
    /\ slot \in [Slots -> SlotRecord]
    /\ sockets \in SocketRecord /\ sockets.count = sockets.owned + sockets.lost
    /\ fdSteps \in Nat
    /\ given.fd # given.for => given.botched
    /\ given.write => given.writable
    /\ \A s \in Slots : /\ IsOpen(s) /\ slot[s].fd # slot[s].label => slot[s].botched
                        /\ slot[s].botched => slot[s].spoilt
    /\ FirstOfLabel

LEMMA FdInvSound == FdInv => FdSound
BY DEF FdInv, FdSound, FirstOfLabel, Labelled, SlotRecord

LEMMA FdInitInv == FdInit => FdInv
<1> SUFFICES ASSUME FdInit PROVE FdInv
  OBVIOUS
<1>1. slot \in [Slots -> SlotRecord] /\ \A s \in Slots : slot[s] = UnusedSlot
  BY DEF FdInit, UnusedSlot, SlotRecord, MaybeFile
<1>2. \A s \in Slots : ~IsOpen(s) /\ ~slot[s].botched
  BY <1>1 DEF IsOpen, UnusedSlot
<1>3. sockets \in SocketRecord /\ sockets.count = sockets.owned + sockets.lost
  BY FdAssumption DEF FdInit, NoSockets, SocketRecord
<1> QED
  BY <1>1, <1>2, <1>3 DEF FdInit, FdInv, FirstOfLabel

\* The slots are numbers: of some of them one is the first.
LEMMA FirstSlot ==
    ASSUME NEW S \in SUBSET Slots, S # {}
    PROVE  Min(S) \in S /\ \A s \in S : Min(S) <= s
<1>1. S \in SUBSET Nat
  BY FdAssumption DEF Slots
<1>2. PICK x \in S : \A y \in S : x <= y
  BY <1>1, LeastNat
<1> QED
  BY <1>2 DEF Min

\* fileset_lookup finds what is there.
LEMMA LookupFinds ==
    ASSUME NEW f
    PROVE  /\ Lookup(f) = {} => Labelled(f) = {}
           /\ \A s \in Lookup(f) : s \in Slots /\ IsOpen(s) /\ slot[s].label = f
                                   /\ \A x \in Labelled(f) : s <= x
<1>1. Labelled(f) \in SUBSET Slots
  BY DEF Labelled
<1>2. Labelled(f) # {} => Min(Labelled(f)) \in Lookup(f)
  BY <1>1, FirstSlot DEF Lookup
<1> QED
  BY <1>2 DEF Lookup, Labelled

\* fileset_get_empty_slot takes the first slot that is unused, if there is one.
LEMMA OldestSlot ==
    ASSUME FdInv
    PROVE  /\ Oldest \in Slots
           /\ \A s \in Slots : ~IsOpen(s) => Oldest <= s
<1> DEFINE unused == {s \in Slots : ~IsOpen(s)}
           least == {s \in Slots : \A x \in Slots : slot[s].usedAt <= slot[x].usedAt}
           times == {slot[s].usedAt : s \in Slots}
<1>1. CASE unused # {}
  <2>1. Min(unused) \in unused /\ \A s \in unused : Min(unused) <= s
    BY <1>1, FirstSlot
  <2>2. Oldest = Min(unused)
    BY <1>1 DEF Oldest
  <2> QED
    BY <2>1, <2>2
<1>2. CASE unused = {}
  <2>1. \A s \in Slots : slot[s].usedAt \in times /\ slot[s].usedAt \in Nat
    BY DEF FdInv, SlotRecord
  <2>2. 1 \in Slots
    BY FdAssumption DEF Slots
  <2>3. times \in SUBSET Nat /\ times # {}
    BY <2>1, <2>2
  <2>4. PICK t \in times : \A u \in times : t <= u
    BY <2>3, LeastNat
  <2>5. PICK s \in Slots : t = slot[s].usedAt
    BY <2>4
  <2>6. s \in least
    BY <2>1, <2>4, <2>5
  <2>7. Min(least) \in least
    BY <2>6, FirstSlot
  <2>8. Oldest = Min(least)
    BY <1>2 DEF Oldest
  <2> QED
    BY <2>7, <2>8, <1>2
<1> QED
  BY <1>1, <1>2

LEMMA FileIsFile == \A f \in Files : f # NoFile
<1>1. \A f \in Files : f = <<f[1], f[2]>>
  BY DEF Files
<1> QED
  BY <1>1 DEF NoFile

\* One slot gets a new content, which keeps what is said of the labels.
LEMMA SlotStep ==
    ASSUME FdInv, NEW s0 \in Slots, NEW n \in SlotRecord,
           slot' = [slot EXCEPT ![s0] = n], fdSteps' \in Nat, sockets' = sockets,
           given'.fd # given'.for => given'.botched, given'.write => given'.writable,
           n.fd # NoFile /\ n.fd # n.label => n.botched,
           n.botched => n.spoilt, slot[s0].spoilt => n.spoilt,
           \* another slot after this one, or the other way round
           \A s \in Slots : /\ s # s0 /\ n.fd # NoFile /\ ~n.spoilt
                            /\ n.label \in Files /\ slot[s].label = n.label
                            => s0 < s /\ (IsOpen(s) => slot[s].botched),
           \A x \in Slots : /\ x # s0 /\ IsOpen(x) /\ ~slot[x].spoilt
                            /\ slot[x].label \in Files /\ n.label = slot[x].label
                            => x < s0 /\ (n.fd # NoFile => n.botched)
    PROVE  FdInv'
<1>1. slot' \in [Slots -> SlotRecord] /\ slot'[s0] = n
      /\ \A s \in Slots : s # s0 => slot'[s] = slot[s]
  BY DEF FdInv
<1>2. \A s \in Slots : IsOpen(s)' <=> slot'[s].fd # NoFile
  BY DEF IsOpen
<1>3. \A s \in Slots : /\ IsOpen(s)' /\ slot'[s].fd # slot'[s].label => slot'[s].botched
                       /\ slot'[s].botched => slot'[s].spoilt
  BY <1>1, <1>2 DEF FdInv, IsOpen
<1>4. FirstOfLabel'
  <2> SUFFICES ASSUME NEW x \in Slots, NEW s \in Slots,
                      x # s, IsOpen(x)', ~slot'[x].spoilt,
                      slot'[x].label \in Files, slot'[s].label = slot'[x].label
               PROVE  x < s /\ (IsOpen(s)' => slot'[s].botched)
    BY DEF FirstOfLabel
  <2>1. CASE x = s0
    BY <2>1, <1>1, <1>2 DEF IsOpen
  <2>2. CASE s = s0
    BY <2>2, <1>1, <1>2 DEF IsOpen
  <2>3. CASE x # s0 /\ s # s0
    BY <2>3, <1>1, <1>2 DEF IsOpen, FdInv, FirstOfLabel
  <2> QED
    BY <2>1, <2>2, <2>3
<1> QED
  BY <1>1, <1>3, <1>4 DEF FdInv

\* Some slots are closed.
LEMMA ShutStep ==
    ASSUME FdInv, NEW S, fdSteps' \in Nat, UNCHANGED <<given, sockets>>,
           slot' = [s \in Slots |-> IF s \in S THEN Shut(slot[s]) ELSE slot[s]]
    PROVE  FdInv'
<1>1. \A s \in Slots : Shut(slot[s]) \in SlotRecord /\ Shut(slot[s]).fd = NoFile
                       /\ Shut(slot[s]).label = slot[s].label
                       /\ Shut(slot[s]).spoilt = slot[s].spoilt
                       /\ Shut(slot[s]).botched = FALSE
  BY DEF FdInv, Shut, SlotRecord, MaybeFile
<1>2. \A s \in Slots : /\ slot'[s] \in SlotRecord /\ slot'[s].label = slot[s].label
                       /\ slot'[s].spoilt = slot[s].spoilt
                       /\ \/ slot'[s] = slot[s]
                          \/ slot'[s].fd = NoFile /\ ~slot'[s].botched
  BY <1>1 DEF FdInv
<1>3. slot' \in [Slots -> SlotRecord]
  BY <1>2
<1>4. FirstOfLabel'
  BY <1>2 DEF FirstOfLabel, FdInv, IsOpen
<1>5. \A s \in Slots : /\ IsOpen(s)' /\ slot'[s].fd # slot'[s].label => slot'[s].botched
                       /\ slot'[s].botched => slot'[s].spoilt
  BY <1>2 DEF FdInv, IsOpen
<1> QED
  BY <1>3, <1>4, <1>5 DEF FdInv

\* tr_fdFileGetCached, and the end of tr_fdFileCheckout when nothing was opened.
LEMMA UsesStep ==
    ASSUME FdInv, NEW s0 \in Slots, NEW f \in Files, NEW write \in BOOLEAN,
           IsOpen(s0), slot[s0].label = f, write => slot[s0].writable,
           Uses(s0, slot[s0], f, write), fdSteps' \in Nat, sockets' = sockets
    PROVE  FdInv'
<1> DEFINE o == slot[s0]
           n == [o EXCEPT !.usedAt = fdSteps + 1]
<1>1. o \in SlotRecord /\ fdSteps + 1 \in Nat
  BY DEF FdInv
<1>2. /\ n \in SlotRecord /\ n.fd = o.fd /\ n.label = o.label /\ n.spoilt = o.spoilt
      /\ n.botched = o.botched
  BY <1>1 DEF SlotRecord
<1>3. /\ slot' = [slot EXCEPT ![s0] = n]
      /\ given'.for = f /\ given'.fd = o.fd /\ given'.write = write
      /\ given'.writable = o.writable /\ given'.botched = o.botched
  BY DEF Uses
<1>4. o.fd # f => o.botched
  BY DEF FdInv
<1>5. \A s \in Slots : /\ s # s0 /\ n.fd # NoFile /\ ~n.spoilt
                       /\ n.label \in Files /\ slot[s].label = n.label
                       => s0 < s /\ (IsOpen(s) => slot[s].botched)
  BY <1>2 DEF FdInv, FirstOfLabel, IsOpen
<1>6. \A x \in Slots : /\ x # s0 /\ IsOpen(x) /\ ~slot[x].spoilt
                       /\ slot[x].label \in Files /\ n.label = slot[x].label
                       => x < s0 /\ (n.fd # NoFile => n.botched)
  BY <1>2 DEF FdInv, FirstOfLabel, IsOpen
<1>7. o.botched => o.spoilt
  BY DEF FdInv
<1>8. n.fd # NoFile /\ n.fd # n.label => n.botched
  BY <1>2, <1>4
<1> HIDE DEF n
<1> QED
  BY <1>2, <1>3, <1>4, <1>5, <1>6, <1>7, <1>8, SlotStep

\* cached_file_open into a slot that was just closed, which is the first that
\* has the file's label, be it open or not.
LEMMA FileOpenStep ==
    ASSUME FdInv, NEW s0 \in Slots, NEW f \in Files, NEW write \in BOOLEAN,
           CachedFileOpen(s0, Shut(slot[s0]), f, write),
           fdSteps' \in Nat, sockets' = sockets,
           \* no slot that is open has the label, and this comes before the closed ones
           \/ /\ Labelled(f) = {}
              /\ \A s \in Slots : ~IsOpen(s) => s0 <= s
           \* or it is the first of the open ones
           \/ s0 \in Labelled(f) /\ \A x \in Labelled(f) : s0 <= x
    PROVE  FdInv'
<1> DEFINE o == Shut(slot[s0])
<1>1. /\ o \in SlotRecord /\ o.fd = NoFile /\ o.label = slot[s0].label
      /\ o.spoilt = slot[s0].spoilt /\ o.botched = FALSE
  BY ZenonT(60) DEF FdInv, Shut, SlotRecord, MaybeFile
<1>2. f \in MaybeFile /\ fdSteps + 1 \in Nat /\ f # NoFile
  BY FileIsFile DEF MaybeFile, FdInv
<1> HIDE DEF o
<1>3. \A x \in Slots : /\ x # s0 /\ IsOpen(x) /\ ~slot[x].spoilt
                       /\ slot[x].label \in Files /\ o.label = slot[x].label
                       => x < s0
  BY <1>1 DEF FdInv, FirstOfLabel
<1>4. CASE slot' = [slot EXCEPT ![s0] = o] /\ UNCHANGED <<disk, given>>
  BY <1>1, <1>3, <1>4, SlotStep DEF FdInv
<1>5. CASE /\ slot' = [slot EXCEPT ![s0] = [o EXCEPT !.fd = f, !.botched = TRUE, !.spoilt = TRUE]]
           /\ UNCHANGED <<disk, given>>
  <2> DEFINE n == [o EXCEPT !.fd = f, !.botched = TRUE, !.spoilt = TRUE]
  <2>1. n \in SlotRecord /\ n.label = o.label /\ n.botched /\ n.spoilt
    BY <1>1, <1>2 DEF SlotRecord
  <2>2. slot' = [slot EXCEPT ![s0] = n]
    BY <1>5
  <2> HIDE DEF n
  <2>3. /\ given'.fd # given'.for => given'.botched
        /\ given'.write => given'.writable
    BY <1>5 DEF FdInv
  <2>4. \A x \in Slots : /\ x # s0 /\ IsOpen(x) /\ ~slot[x].spoilt
                         /\ slot[x].label \in Files /\ n.label = slot[x].label
                         => x < s0 /\ (n.fd # NoFile => n.botched)
    BY <2>1, <1>3
  <2> QED
    BY <2>1, <2>2, <2>3, <2>4, SlotStep
<1>6. CASE Uses(s0, [[o EXCEPT !.fd = f] EXCEPT !.label = f, !.writable = write], f, write)
  <2> DEFINE p == [[o EXCEPT !.fd = f] EXCEPT !.label = f, !.writable = write]
             n == [p EXCEPT !.usedAt = fdSteps + 1]
  <2>1. /\ n \in SlotRecord /\ n.fd = f /\ n.label = f /\ n.spoilt = slot[s0].spoilt
        /\ n.botched = FALSE
        /\ p.fd = f /\ p.writable = write
    BY <1>1, <1>2 DEF SlotRecord
  <2>2. slot' = [slot EXCEPT ![s0] = n] /\ given'.fd = f /\ given'.for = f
        /\ given'.write = write /\ given'.writable = write
    BY <2>1, <1>6 DEF Uses
  <2> HIDE DEF p, n
  <2>3. \A s \in Slots : /\ s # s0 /\ ~n.spoilt /\ slot[s].label = f
                         => s0 < s /\ (IsOpen(s) => slot[s].botched)
    <3> SUFFICES ASSUME NEW s \in Slots, s # s0, ~n.spoilt, slot[s].label = f
                 PROVE  s0 < s /\ (IsOpen(s) => slot[s].botched)
      OBVIOUS
    <3>1. CASE Labelled(f) = {} /\ \A x \in Slots : ~IsOpen(x) => s0 <= x
      <4>1. ~IsOpen(s) /\ s0 <= s
        BY <3>1 DEF Labelled
      <4> QED
        BY <4>1 DEF Slots
    <3>2. CASE s0 \in Labelled(f)
      BY <3>2, <2>1 DEF Labelled, FdInv, FirstOfLabel
    <3> QED
      BY <3>1, <3>2
  <2>4. \A x \in Slots : ~(x # s0 /\ IsOpen(x) /\ ~slot[x].spoilt /\ slot[x].label = f)
    <3> SUFFICES ASSUME NEW x \in Slots, x # s0, IsOpen(x), ~slot[x].spoilt, slot[x].label = f
                 PROVE  FALSE
      OBVIOUS
    <3>1. x \in Labelled(f)
      BY DEF Labelled
    <3>2. s0 \in Labelled(f) /\ s0 <= x
      BY <3>1
    <3>3. x < s0
      BY <3>2 DEF Labelled, FdInv, FirstOfLabel
    <3> QED
      BY <3>2, <3>3 DEF Slots
  <2>5. /\ given'.fd # given'.for => given'.botched
        /\ given'.write => given'.writable
        /\ n.fd # NoFile /\ n.fd # n.label => n.botched
        /\ n.botched => n.spoilt
        /\ slot[s0].spoilt => n.spoilt
    BY <2>1, <2>2
  <2>6. \A s \in Slots : /\ s # s0 /\ n.fd # NoFile /\ ~n.spoilt
                         /\ n.label \in Files /\ slot[s].label = n.label
                         => s0 < s /\ (IsOpen(s) => slot[s].botched)
    BY <2>1, <2>3
  <2>7. \A x \in Slots : /\ x # s0 /\ IsOpen(x) /\ ~slot[x].spoilt
                         /\ slot[x].label \in Files /\ n.label = slot[x].label
                         => x < s0 /\ (n.fd # NoFile => n.botched)
    BY <2>1, <2>4
  <2> QED
    BY <2>1, <2>2, <2>5, <2>6, <2>7, SlotStep
<1> QED
  BY <1>4, <1>5, <1>6 DEF CachedFileOpen, o

LEMMA AccessStep ==
    ASSUME FdInv, NEW f \in Files, NEW write \in BOOLEAN, Access(f, write)
    PROVE  FdInv'
<1>1. fdSteps' \in Nat /\ sockets' = sockets
  BY DEF Access, Step, FdInv
<1>2. CASE \E s \in Lookup(f) : (write => slot[s].writable) /\ Uses(s, slot[s], f, write)
  BY <1>1, <1>2, LookupFinds, UsesStep
<1>3. CASE FileCheckout(f, write)
  <2>1. CASE \E s \in Lookup(f) : IF write /\ ~slot[s].writable THEN CachedFileOpen(s, Shut(slot[s]), f, write)
                                  ELSE Uses(s, slot[s], f, write) /\ UNCHANGED disk
    <3>1. PICK s \in Lookup(f) : IF write /\ ~slot[s].writable THEN CachedFileOpen(s, Shut(slot[s]), f, write)
                                  ELSE Uses(s, slot[s], f, write) /\ UNCHANGED disk
      BY <2>1
    <3>2. s \in Slots /\ IsOpen(s) /\ slot[s].label = f /\ s \in Labelled(f)
          /\ \A x \in Labelled(f) : s <= x
      BY LookupFinds DEF Labelled
    <3>3. CASE write /\ ~slot[s].writable
      BY <3>1, <3>2, <3>3, <1>1, FileOpenStep
    <3>4. CASE ~(write /\ ~slot[s].writable)
      BY <3>1, <3>2, <3>4, <1>1, UsesStep
    <3> QED
      BY <3>3, <3>4
  <2>2. CASE /\ Lookup(f) = {}
             /\ LET o == EmptySlot(Oldest)
                IN  IF o.fd = NoFile THEN CachedFileOpen(Oldest, o, f, write)
                    ELSE Uses(Oldest, [o EXCEPT !.label = f], f, write) /\ UNCHANGED disk
    <3>1. Oldest \in Slots /\ \A s \in Slots : ~IsOpen(s) => Oldest <= s
      BY OldestSlot
    <3>2. Labelled(f) = {}
      BY <2>2, LookupFinds
    <3>3. slot[Oldest] \in SlotRecord
      BY <3>1 DEF FdInv
    <3>4. EmptySlot(Oldest) = Shut(slot[Oldest]) /\ Shut(slot[Oldest]).fd = NoFile
      BY <3>3 DEF EmptySlot, Shut, SlotRecord
    <3>5. CachedFileOpen(Oldest, Shut(slot[Oldest]), f, write)
      BY <2>2, <3>4
    <3> HIDE DEF Oldest
    <3> QED
      BY <3>1, <3>2, <3>5, <1>1, FileOpenStep
  <2> QED
    BY <1>3, <2>1, <2>2 DEF FileCheckout
<1> QED
  BY <1>2, <1>3 DEF Access

LEMMA SocketStep ==
    ASSUME FdInv, UNCHANGED <<slot, given>>, fdSteps' \in Nat,
           sockets' \in SocketRecord, sockets'.count = sockets'.owned + sockets'.lost
    PROVE  FdInv'
BY DEF FdInv, FirstOfLabel, IsOpen

\* What the calls for sockets do to their count.
SocketsRight(k) == k \in SocketRecord /\ k.count = k.owned + k.lost
LEMMA CountKept ==
    ASSUME NEW k \in SocketRecord, SocketsRight(k)
    PROVE  /\ \A l \in Nat : SocketsRight([k EXCEPT !.limit = l])
           /\ SocketsRight([k EXCEPT !.count = @ + 1, !.lost = @ + 1])
           /\ SocketsRight(Counted(k)) /\ SocketsRight(SocketClose(Counted(k)))
           /\ k.owned > 0 => SocketsRight(SocketClose(k))
<1>1. /\ k.limit \in Nat /\ k.count \in Nat /\ k.owned \in Nat /\ k.lost \in Nat
      /\ k.count + 1 \in Nat /\ k.owned + 1 \in Nat /\ k.lost + 1 \in Nat
      /\ k.count = k.owned + k.lost
  BY DEF SocketsRight, SocketRecord
<1>2. \A l \in Nat : SocketsRight([k EXCEPT !.limit = l])
  BY <1>1 DEF SocketsRight, SocketRecord
<1>3. SocketsRight([k EXCEPT !.count = @ + 1, !.lost = @ + 1])
  <2> DEFINE j == [k EXCEPT !.count = @ + 1, !.lost = @ + 1]
  <2>1. j \in SocketRecord /\ j.count = k.count + 1 /\ j.lost = k.lost + 1 /\ j.owned = k.owned
    BY <1>1 DEF SocketRecord
  <2> HIDE DEF j
  <2>2. SocketsRight(j)
    BY <1>1, <2>1 DEF SocketsRight
  <2> QED
    BY <2>2 DEF j
<1>4. /\ SocketsRight(Counted(k)) /\ Counted(k).count = k.count + 1
      /\ Counted(k).owned = k.owned + 1
  <2> DEFINE j == Counted(k)
  <2>1. j \in SocketRecord /\ j.count = k.count + 1 /\ j.owned = k.owned + 1 /\ j.lost = k.lost
    BY <1>1 DEF SocketRecord, Counted
  <2> HIDE DEF j
  <2>2. SocketsRight(j)
    BY <1>1, <2>1 DEF SocketsRight
  <2> QED
    BY <2>1, <2>2 DEF j
<1>5. ASSUME NEW i \in SocketRecord, SocketsRight(i), i.owned > 0
      PROVE  SocketsRight(SocketClose(i))
  <2> DEFINE j == SocketClose(i)
  <2>1. /\ i.count \in Nat /\ i.owned \in Nat /\ i.lost \in Nat /\ i.count = i.owned + i.lost
        /\ i.count - 1 \in Nat /\ i.owned - 1 \in Nat
    BY <1>5 DEF SocketsRight, SocketRecord
  <2>2. j \in SocketRecord /\ j.count = i.count - 1 /\ j.owned = i.owned - 1 /\ j.lost = i.lost
    BY <2>1 DEF SocketRecord, SocketClose
  <2> HIDE DEF j
  <2>3. SocketsRight(j)
    BY <2>1, <2>2 DEF SocketsRight
  <2> QED
    BY <2>3 DEF j
<1>6. SocketsRight(SocketClose(Counted(k)))
  <2>1. Counted(k) \in SocketRecord /\ Counted(k).owned > 0
    BY <1>1, <1>4 DEF SocketsRight
  <2> QED
    BY <2>1, <1>4, <1>5
<1> QED
  BY <1>2, <1>3, <1>4, <1>5, <1>6

LEMMA FdStep == FdInv /\ [FdNext]_fdVars => FdInv'
<1> SUFFICES ASSUME FdInv, [FdNext]_fdVars PROVE FdInv'
  OBVIOUS
<1>1. ASSUME NEW f \in Files, NEW write \in BOOLEAN, Access(f, write) PROVE FdInv'
  BY <1>1, AccessStep
<1>2. ASSUME NEW f \in Files, FileClose(f) PROVE FdInv'
  BY <1>2, ShutStep DEF FileClose, Step, FdInv
<1>3. ASSUME NEW t \in FdTorrents, TorrentClose(t) PROVE FdInv'
  <2> DEFINE S == {s \in Slots : slot[s].label # NoFile /\ slot[s].label[1] = t /\ IsOpen(s)}
  <2>1. slot' = [s \in Slots |-> IF s \in S THEN Shut(slot[s]) ELSE slot[s]]
    BY <1>3 DEF TorrentClose
  <2> HIDE DEF S
  <2>2. fdSteps' \in Nat /\ UNCHANGED <<given, sockets>>
    BY <1>3 DEF TorrentClose, Step, FdInv
  <2> QED
    BY <2>1, <2>2, ShutStep
<1>4. ASSUME \/ \E o \in {"ok", "no connection", "no source"} : OpenPeerSocket(o)
             \/ NetAccept \/ NetClose \/ \E l \in PeerLimits : SetPeerLimit(l)
      PROVE  FdInv'
  <2>1. /\ UNCHANGED <<slot, given>> /\ fdSteps' \in Nat
    BY <1>4 DEF OpenPeerSocket, NetAccept, NetClose, SetPeerLimit, Step, FdInv
  <2>2. sockets \in SocketRecord /\ sockets.count = sockets.owned + sockets.lost
    BY DEF FdInv
  <2>3. SocketsRight(sockets')
    <3>1. SocketsRight(sockets) /\ sockets \in SocketRecord
      BY <2>2 DEF SocketsRight
    <3>2. /\ \A l \in PeerLimits : SocketsRight([sockets EXCEPT !.limit = l])
          /\ SocketsRight([sockets EXCEPT !.count = @ + 1, !.lost = @ + 1])
          /\ SocketsRight(Counted(sockets)) /\ SocketsRight(SocketClose(Counted(sockets)))
          /\ sockets.owned > 0 => SocketsRight(SocketClose(sockets))
      BY <3>1, CountKept, FdAssumption
    <3>3. CASE \E o \in {"ok", "no connection", "no source"} : OpenPeerSocket(o)
      <4>1. sockets' \in {Counted(sockets), SocketClose(Counted(sockets)),
                          [sockets EXCEPT !.count = @ + 1, !.lost = @ + 1]}
        BY <3>3 DEF OpenPeerSocket
      <4> QED
        BY <4>1, <3>2
    <3>4. CASE NetAccept \/ NetClose \/ \E l \in PeerLimits : SetPeerLimit(l)
      BY <3>2, <3>4 DEF NetAccept, NetClose, SetPeerLimit
    <3> QED
      BY <1>4, <3>3, <3>4
  <2> QED
    BY <2>1, <2>3, SocketStep DEF SocketsRight
<1>5. ASSUME UNCHANGED fdVars PROVE FdInv'
  BY <1>5 DEF fdVars, FdInv, FirstOfLabel, IsOpen
<1> QED
  BY <1>1, <1>2, <1>3, <1>4, <1>5 DEF FdNext

\* Every open of a file, every close, and every socket, in any order and
\* whatever fails, keeps the cache sound.
THEOREM Descriptors == FdSpec => []FdSound
<1>1. FdInit => FdInv
  BY FdInitInv
<1>2. FdInv /\ [FdNext]_fdVars => FdInv'
  BY FdStep
<1>3. FdInv => FdSound
  BY FdInvSound
<1> QED
  BY <1>1, <1>2, <1>3, PTL DEF FdSpec

-----------------------------------------------------------------------------
(* Web seeds *)
\* A sequence with one more element, and one without its head.
LEMMA AppendShape ==
    ASSUME NEW E, NEW s \in Seq(E), NEW e \in E
    PROVE  LET r == Append(s, e)
           IN  /\ r \in Seq(E) /\ Len(r) = Len(s) + 1 /\ DOMAIN r = 1..(Len(s) + 1)
               /\ \A i \in 1..Len(s) : r[i] = s[i]
               /\ r[Len(s) + 1] = e
BY AppendProperties, LenProperties

LEMMA TailShape ==
    ASSUME NEW E, NEW s \in Seq(E), s # <<>>
    PROVE  LET r == Tail(s)
           IN  /\ r \in Seq(E) /\ Len(r) = Len(s) - 1 /\ DOMAIN r = 1..(Len(s) - 1)
               /\ Len(s) \in Nat \ {0} /\ Head(s) = s[1] /\ Head(s) \in E
               /\ DOMAIN s = 1..Len(s)
               /\ \A i \in 1..(Len(s) - 1) : r[i] = s[i + 1]
BY HeadTailProperties, LenProperties, EmptySeq

LEMMA EntryType ==
    ASSUME NEW E, NEW s \in Seq(E), NEW i \in DOMAIN s
    PROVE  s[i] \in E
BY ElementOfSeq, LenProperties

\* How often something is queued.
Queued(q, w) == {i \in DOMAIN q : q[i] = w}
Copies(q, w) == Cardinality(Queued(q, w))

LEMMA CopiesFinite ==
    ASSUME NEW E, NEW q \in Seq(E), NEW w
    PROVE  IsFiniteSet(Queued(q, w)) /\ Copies(q, w) \in Nat
<1>0. Len(q) \in Nat /\ DOMAIN q = 1..Len(q)
  BY LenProperties
<1>1. IsFiniteSet(1..Len(q)) /\ Queued(q, w) \subseteq 1..Len(q)
  BY <1>0, FS_Interval DEF Queued
<1> QED
  BY <1>1, FS_Subset, FS_CardinalityType DEF Copies

LEMMA CopiesAppend ==
    ASSUME NEW E, NEW q \in Seq(E), NEW e \in E, NEW w
    PROVE  Copies(Append(q, e), w) = Copies(q, w) + (IF e = w THEN 1 ELSE 0)
<1> DEFINE n == Len(q)
<1>1. n \in Nat /\ DOMAIN q = 1..n
  BY LenProperties
<1>2. Queued(Append(q, e), w) = IF e = w THEN Queued(q, w) \cup {n + 1} ELSE Queued(q, w)
  BY <1>1, AppendShape DEF Queued
<1>3. n + 1 \notin Queued(q, w)
  BY <1>1 DEF Queued
<1>4. IsFiniteSet(Queued(q, w)) /\ Cardinality(Queued(q, w)) \in Nat
  BY CopiesFinite DEF Copies
<1> HIDE DEF n
<1>5. Cardinality(Queued(q, w) \cup {n + 1}) = Cardinality(Queued(q, w)) + 1
  BY <1>3, <1>4, FS_AddElement
<1> QED
  BY <1>2, <1>4, <1>5 DEF Copies

LEMMA CopiesTail ==
    ASSUME NEW E, NEW q \in Seq(E), q # <<>>, NEW w
    PROVE  Copies(q, w) = Copies(Tail(q), w) + (IF Head(q) = w THEN 1 ELSE 0)
<1> DEFINE S == Queued(q, w) \ {1}
           T == Queued(Tail(q), w)
           f == [i \in T |-> i + 1]
<1>1. /\ Len(q) \in Nat \ {0} /\ DOMAIN q = 1..Len(q) /\ Head(q) = q[1]
      /\ DOMAIN Tail(q) = 1..(Len(q) - 1)
      /\ \A i \in 1..(Len(q) - 1) : Tail(q)[i] = q[i + 1]
      /\ Tail(q) \in Seq(E)
  BY TailShape
<1>2. T \subseteq 1..(Len(q) - 1) /\ \A i \in T : i + 1 \in S
  BY <1>1 DEF Queued
<1>3. \A j \in S : j - 1 \in T /\ j = (j - 1) + 1
  BY <1>1 DEF Queued
<1>4. f \in Injection(T, S)
  <2>1. \A i, j \in T : i + 1 = j + 1 => i = j
    BY <1>1, <1>2
  <2> HIDE DEF T, S
  <2> QED
    BY <2>1, <1>2 DEF Injection, IsInjective
<1>5. f \in Surjection(T, S)
  <2> HIDE DEF T, S
  <2>1. \A j \in S : \E i \in T : f[i] = j
    BY <1>3
  <2> QED
    BY <2>1, <1>2 DEF Surjection
<1>6. IsFiniteSet(T) /\ Copies(Tail(q), w) = Cardinality(T)
  BY <1>1, CopiesFinite DEF Copies
<1>7. Cardinality(S) = Cardinality(T)
  <2> HIDE DEF T, S, f
  <2> QED
    BY <1>4, <1>5, <1>6, FS_Surjection
<1>8. 1 \in Queued(q, w) <=> Head(q) = w
  BY <1>1 DEF Queued
<1>9. /\ IsFiniteSet(Queued(q, w)) /\ Copies(q, w) \in Nat
      /\ Cardinality(S) = IF 1 \in Queued(q, w) THEN Copies(q, w) - 1 ELSE Copies(q, w)
  BY CopiesFinite, FS_RemoveElement DEF Copies
<1> HIDE DEF S, T, f
<1> QED
  BY <1>6, <1>7, <1>8, <1>9, FS_CardinalityType

-----------------------------------------------------------------------------
(* The invariant, of a seed s, its tasks ts, the queue q and the owner o *)

Codes == {0, 206, 404}
Ticks == {"none", "counting", "due"}
TaskRecord == [stage : Stages, code : Codes, done : 0..TaskBlocks, written : 0..TaskBlocks,
               short : BOOLEAN, buf : BOOLEAN, counted : BOOLEAN, final : Codes]
SeedRecord == [stopping : BOOLEAN, freed : BOOLEAN, failures : 0..MaxFailures,
               tick : Ticks, challenge : Int, idle : Nat, active : Int]
WorkRecord == [f : {"succeeded", "write", "response"}, t : SeedTasks]

TasksInUse(ts) == {t \in SeedTasks : ts[t].stage # "free"}
CountedTasks(ts) == {t \in SeedTasks : ts[t].counted}

WebTypes(s, ts, q) == s \in SeedRecord /\ ts \in [SeedTasks -> TaskRecord] /\ q \in Seq(WorkRecord)
\* While the timer that lets a failing seed try again runs, a connection is free.
Connections(s, ts) ==
    /\ Cardinality(TasksInUse(ts)) + s.idle <= MaxConnections
    /\ s.tick # "none" => IsFailing(s) /\ Cardinality(TasksInUse(ts)) + s.idle < MaxConnections
ActiveCounted(s, ts) == s.active = Cardinality(CountedTasks(ts))
\* A task counts as active once the event of its success has been handled.
TaskGood(k, t, q, o) ==
    /\ k.stage = "free" => k = NoTask
    /\ k.written <= k.done
    /\ o # "gone" => k.written + Copies(q, Work("write", t)) = k.done
    /\ k.counted => k.code = 206
    /\ k.code = 206 /\ ~k.counted => \E i \in DOMAIN q : q[i] = Work("succeeded", t)
\* The answer to a task is the last that is heard of it.
EntryGood(ts, q, i) ==
    /\ ts[q[i].t].stage # "free"
    /\ q[i].f = "response" => /\ ts[q[i].t].stage = "ended"
                              /\ \A j \in DOMAIN q : j > i => q[j].t # q[i].t
    /\ q[i].f = "succeeded" => /\ ts[q[i].t].code = 206 /\ ~ts[q[i].t].counted
                               /\ \A j \in DOMAIN q : q[j] = q[i] => j = i
FreedIdle(s, ts, q) == s.freed => q = <<>> /\ TasksInUse(ts) = {}
WebGood(s, ts, q, o) ==
    /\ WebTypes(s, ts, q)
    /\ Connections(s, ts)
    /\ ActiveCounted(s, ts)
    /\ \A t \in SeedTasks : TaskGood(ts[t], t, q, o)
    /\ \A i \in DOMAIN q : EntryGood(ts, q, i)
    /\ FreedIdle(s, ts, q)
WebInv == WebGood(seed, task, eventQ, owner)

LEMMA WebInvSound == WebInv => WebTypeOK /\ WebseedSound
<1> SUFFICES ASSUME WebInv PROVE WebTypeOK /\ WebseedSound
  OBVIOUS
<1>1. WebTypeOK
  BY DEF WebInv, WebGood, WebTypes, WebTypeOK, SeedRecord, TaskRecord, WorkRecord, Codes
<1>2. TasksInUse(task) = InUseTasks
  BY DEF TasksInUse, InUseTasks
<1>3. \A t \in SeedTasks : owner # "gone" =>
         task[t].written + Cardinality({i \in DOMAIN eventQ : eventQ[i] = Work("write", t)}) = task[t].done
  BY DEF WebInv, WebGood, TaskGood, Copies, Queued
<1> QED
  BY <1>1, <1>2, <1>3 DEF WebInv, WebGood, Connections, ActiveCounted, CountedTasks, FreedIdle, WebseedSound

LEMMA NoTaskType == NoTask \in TaskRecord
<1>1. 0 \in 0..TaskBlocks
  BY WebAssumption
<1> QED
  BY <1>1 DEF NoTask, TaskRecord, Stages, Codes

LEMMA RequestedTask ==
    \A k \in TaskRecord :
        /\ Requested(k) \in TaskRecord /\ Requested(k).stage \in {"queued", "lost"}
        /\ Requested(k).code = 0 /\ Requested(k).counted = k.counted
        /\ Requested(k).done = k.done /\ Requested(k).written = k.written
<1> SUFFICES ASSUME NEW k \in TaskRecord
             PROVE  LET r == Requested(k)
                    IN  /\ r \in TaskRecord /\ r.stage \in {"queued", "lost"} /\ r.code = 0
                        /\ r.counted = k.counted /\ r.done = k.done /\ r.written = k.written
  OBVIOUS
<1> DEFINE g == IF web \in {"starting", "gone"} THEN "lost" ELSE "queued"
<1>1. Requested(k) = [k EXCEPT !.stage = g, !.code = 0]
  BY DEF Requested
<1>2. g \in {"queued", "lost"}
  OBVIOUS
<1> HIDE DEF g
<1>3. g \in Stages /\ 0 \in Codes
  BY <1>2 DEF Stages, Codes
<1>4. Requested(k) \in TaskRecord
  BY <1>1, <1>3 DEF TaskRecord
<1>5. Requested(k).stage = g /\ Requested(k).code = 0
  BY <1>1 DEF TaskRecord
<1>6. /\ Requested(k).counted = k.counted /\ Requested(k).done = k.done
      /\ Requested(k).written = k.written
  BY <1>1 DEF TaskRecord
<1> QED
  BY <1>2, <1>4, <1>5, <1>6

LEMMA WebInitInv == WebInit => WebInv
<1> SUFFICES ASSUME WebInit PROVE WebInv
  OBVIOUS
<1>1. seed = NoSeed /\ task = [t \in SeedTasks |-> NoTask] /\ eventQ = <<>> /\ owner = "running"
  BY DEF WebInit
<1>2. NoSeed \in SeedRecord
  <2>1. 0 \in 0..MaxFailures
    BY WebAssumption
  <2> QED
    BY <2>1 DEF NoSeed, SeedRecord, Ticks
<1>3. WebTypes(seed, task, eventQ)
  BY <1>1, <1>2, NoTaskType DEF WebTypes
<1>4. TasksInUse(task) = {} /\ CountedTasks(task) = {}
  BY <1>1 DEF TasksInUse, CountedTasks, NoTask
<1>5. \A w : Copies(eventQ, w) = 0
  BY <1>1, FS_EmptySet DEF Copies, Queued
<1>6. \A t \in SeedTasks : TaskGood(task[t], t, eventQ, owner)
  BY <1>1, <1>5 DEF TaskGood, NoTask
<1>7. Connections(seed, task) /\ ActiveCounted(seed, task) /\ FreedIdle(seed, task, eventQ)
  <2>1. Cardinality({}) = 0 /\ 0 <= MaxConnections
    BY FS_EmptySet, WebAssumption
  <2>2. seed.idle = 0 /\ seed.tick = "none" /\ seed.active = 0 /\ ~seed.freed
    BY <1>1 DEF NoSeed
  <2> QED
    BY <1>4, <2>1, <2>2 DEF Connections, ActiveCounted, FreedIdle
<1>8. \A i \in DOMAIN eventQ : EntryGood(task, eventQ, i)
  BY <1>1
<1> QED
  BY <1>3, <1>6, <1>7, <1>8 DEF WebInv, WebGood

LEMMA WebFinite ==
    ASSUME NEW ts
    PROVE  /\ IsFiniteSet(TasksInUse(ts)) /\ Cardinality(TasksInUse(ts)) \in Nat
           /\ IsFiniteSet(CountedTasks(ts)) /\ Cardinality(CountedTasks(ts)) \in Nat
BY FS_Subset, FS_CardinalityType, WebAssumption DEF TasksInUse, CountedTasks

-----------------------------------------------------------------------------
(* The web thread *)

\* Requests move on in the web thread: nothing is queued yet.
LEMMA StagesMove ==
    ASSUME WebInv, task' \in [SeedTasks -> TaskRecord], UNCHANGED <<seed, eventQ, owner>>,
           \A t \in SeedTasks : \/ task'[t] = task[t]
                                \/ /\ task[t].stage \in {"queued", "flight"}
                                   /\ \E g \in {"flight", "lost"} : task'[t] = [task[t] EXCEPT !.stage = g]
    PROVE  WebInv'
<1>0. task \in [SeedTasks -> TaskRecord]
  BY DEF WebInv, WebGood, WebTypes
<1>1. \A t \in SeedTasks :
         /\ task'[t].stage = "free" <=> task[t].stage = "free"
         /\ task[t].stage = "ended" => task'[t].stage = "ended"
         /\ task'[t].stage = "free" => task'[t] = task[t]
         /\ task'[t].counted = task[t].counted /\ task'[t].code = task[t].code
         /\ task'[t].done = task[t].done /\ task'[t].written = task[t].written
  BY <1>0 DEF TaskRecord
<1>2. TasksInUse(task') = TasksInUse(task) /\ CountedTasks(task') = CountedTasks(task)
  BY <1>1 DEF TasksInUse, CountedTasks
<1>3. \A t \in SeedTasks : TaskGood(task'[t], t, eventQ, owner)
  BY <1>1 DEF WebInv, WebGood, TaskGood
<1>4. \A i \in DOMAIN eventQ : EntryGood(task', eventQ, i)
  <2> SUFFICES ASSUME NEW i \in DOMAIN eventQ PROVE EntryGood(task', eventQ, i)
    OBVIOUS
  <2>0. EntryGood(task, eventQ, i) /\ eventQ \in Seq(WorkRecord)
    BY DEF WebInv, WebGood, WebTypes
  <2>1. eventQ[i] \in WorkRecord
    BY <2>0, EntryType
  <2>2. eventQ[i].t \in SeedTasks
    BY <2>1 DEF WorkRecord
  <2> QED
    BY <2>0, <2>2, <1>1 DEF EntryGood
<1> QED
  BY <1>2, <1>3, <1>4 DEF WebInv, WebGood, WebTypes, Connections, ActiveCounted, FreedIdle

LEMMA WebAddStep == WebInv /\ (WebAdd \/ \E now \in BOOLEAN : WebLeaves(now)) => WebInv'
<1> SUFFICES ASSUME WebInv, WebAdd \/ \E now \in BOOLEAN : WebLeaves(now) PROVE WebInv'
  OBVIOUS
<1>1. task \in [SeedTasks -> TaskRecord]
  BY DEF WebInv, WebGood, WebTypes
<1>2. CASE WebAdd
  <2>1. task' = [t \in SeedTasks |-> IF task[t].stage = "queued" THEN [task[t] EXCEPT !.stage = "flight"] ELSE task[t]]
    BY <1>2 DEF WebAdd
  <2>2. task' \in [SeedTasks -> TaskRecord]
    BY <1>1, <2>1 DEF TaskRecord, Stages
  <2> QED
    BY <1>2, <2>1, <2>2, StagesMove DEF WebAdd
<1>3. ASSUME NEW now \in BOOLEAN, WebLeaves(now) PROVE WebInv'
  <2>1. task' = [t \in SeedTasks |-> IF task[t].stage \in {"queued", "flight"}
                                     THEN [task[t] EXCEPT !.stage = "lost"] ELSE task[t]]
    BY <1>3 DEF WebLeaves
  <2>2. task' \in [SeedTasks -> TaskRecord]
    BY <1>1, <2>1 DEF TaskRecord, Stages
  <2> QED
    BY <1>3, <2>1, <2>2, StagesMove DEF WebLeaves
<1> QED
  BY <1>2, <1>3

\* What a transfer k becomes when the web thread queues f, and without.
Hears(k, k2, f) ==
    /\ k.stage = "flight" /\ k2.counted = k.counted /\ k2.written = k.written
    /\ \/ /\ f = "succeeded" /\ k.code = 0 /\ k2.code = 206
          /\ k2.done = k.done /\ k2.stage = "flight"
       \/ f = "write" /\ k2.done = k.done + 1 /\ k2.code = k.code /\ k2.stage = "flight"
       \/ f = "response" /\ k2.done = k.done /\ k2.code = k.code /\ k2.stage = "ended"
HearsNothing(k, k2) ==
    /\ k.stage = "flight" /\ k2.counted = k.counted /\ k2.written = k.written
    /\ k2.done = k.done /\ k2.stage = "flight"
    /\ k2.code = k.code \/ (k.code = 0 /\ k2.code = 404)

\* The web thread queues what it has of a transfer.
LEMMA EntryQueued ==
    ASSUME NEW s, NEW ts, NEW q, NEW o, WebGood(s, ts, q, o),
           NEW t \in SeedTasks, NEW f \in {"succeeded", "write", "response"},
           NEW ts2 \in [SeedTasks -> TaskRecord],
           \A x \in SeedTasks \ {t} : ts2[x] = ts[x],
           Hears(ts[t], ts2[t], f)
    PROVE  WebGood(s, ts2, Append(q, Work(f, t)), o)
<1> DEFINE e == Work(f, t)
           k2 == ts2[t]
           q2 == Append(q, e)
           n == Len(q)
<1>0. /\ e \in WorkRecord /\ e.t = t /\ e.f = f
      /\ ts[t].stage = "flight" /\ k2.counted = ts[t].counted /\ k2.written = ts[t].written
      /\ k2.stage # "free"
      /\ e.f = "succeeded" => ts[t].code = 0 /\ k2.code = 206
      /\ e.f # "succeeded" => k2.code = ts[t].code
      /\ k2.done = IF e.f = "write" THEN ts[t].done + 1 ELSE ts[t].done
      /\ e.f = "response" => k2.stage = "ended"
  BY DEF Work, WorkRecord, Hears
<1>1. /\ ts \in [SeedTasks -> TaskRecord] /\ q \in Seq(WorkRecord) /\ s \in SeedRecord
      /\ \A i \in DOMAIN q : EntryGood(ts, q, i) /\ q[i].t \in SeedTasks
  <2>1. q \in Seq(WorkRecord) /\ \A i \in DOMAIN q : EntryGood(ts, q, i)
    BY DEF WebGood, WebTypes
  <2>2. \A i \in DOMAIN q : q[i] \in WorkRecord
    BY <2>1, EntryType
  <2> QED
    BY <2>1, <2>2 DEF WebGood, WebTypes, WorkRecord
<1>2. /\ n \in Nat /\ DOMAIN q = 1..n /\ DOMAIN q2 = 1..(n + 1) /\ q2 \in Seq(WorkRecord)
      /\ \A i \in 1..n : q2[i] = q[i]
      /\ q2[n + 1] = e
  BY <1>0, <1>1, AppendShape, LenProperties
<1>3. ts2[t] = k2 /\ \A x \in SeedTasks \ {t} : ts2[x] = ts[x]
  OBVIOUS
<1> HIDE DEF e, k2, q2, n
<1>4. TasksInUse(ts2) = TasksInUse(ts) /\ CountedTasks(ts2) = CountedTasks(ts) /\ t \in TasksInUse(ts)
  BY <1>0, <1>3 DEF TasksInUse, CountedTasks
<1>5. \A i \in DOMAIN q : q[i].t = t => /\ q[i].f # "response"
                                        /\ q[i].f = "succeeded" => ts[t].code = 206
  BY <1>0, <1>1 DEF EntryGood
<1>6. ASSUME NEW x \in SeedTasks PROVE TaskGood(ts2[x], x, q2, o)
  <2>1. TaskGood(ts[x], x, q, o)
    BY DEF WebGood
  <2>2. Copies(q2, Work("write", x)) = Copies(q, Work("write", x)) + (IF e = Work("write", x) THEN 1 ELSE 0)
    BY <1>0, <1>1, CopiesAppend DEF q2
  <2>3. Copies(q, Work("write", x)) \in Nat
    BY <1>1, CopiesFinite
  <2>4. \A w : (\E i \in DOMAIN q : q[i] = w) => \E i \in DOMAIN q2 : q2[i] = w
    <3>1. \A i \in DOMAIN q : i \in DOMAIN q2 /\ q2[i] = q[i]
      BY <1>2
    <3> QED
      BY <3>1
  <2>5. CASE x # t
    <3>1. e # Work("write", x) /\ ts2[x] = ts[x]
      BY <1>0, <1>3, <2>5 DEF Work
    <3>2. Copies(q2, Work("write", x)) = Copies(q, Work("write", x))
      BY <2>2, <2>3, <3>1
    <3> QED
      BY <2>1, <2>4, <3>1, <3>2 DEF TaskGood
  <2>6. CASE x = t
    <3>1. e = Work("write", t) <=> e.f = "write"
      BY DEF e, Work
    <3>2. e = Work("succeeded", t) <=> e.f = "succeeded"
      BY DEF e, Work
    <3>3. ts2[x] = k2 /\ k2.stage # "free"
      BY <1>0, <1>3, <2>6
    <3>4. ts[t].done \in Nat /\ ts[t].written \in Nat
      BY <1>1 DEF TaskRecord
    <3>5. k2.written <= k2.done /\ (o # "gone" => k2.written + Copies(q2, Work("write", t)) = k2.done)
      BY <1>0, <2>1, <2>2, <2>3, <2>6, <3>1, <3>4 DEF TaskGood
    <3>6. k2.counted => k2.code = 206
      BY <1>0, <2>1, <2>6 DEF TaskGood
    <3>7. k2.code = 206 /\ ~k2.counted => \E i \in DOMAIN q2 : q2[i] = Work("succeeded", t)
      <4>1. CASE e.f = "succeeded"
        <5>1. n + 1 \in DOMAIN q2 /\ q2[n + 1] = Work("succeeded", t)
          BY <1>2, <3>2, <4>1
        <5> QED
          BY <5>1
      <4>2. CASE e.f # "succeeded"
        BY <1>0, <2>1, <2>4, <2>6, <4>2 DEF TaskGood
      <4> QED
        BY <4>1, <4>2
    <3> QED
      BY <2>6, <3>3, <3>5, <3>6, <3>7 DEF TaskGood
  <2> QED
    BY <2>5, <2>6
<1>7. ASSUME NEW i \in DOMAIN q2 PROVE EntryGood(ts2, q2, i)
  <2>1. CASE i \in 1..n
    <3>1. q2[i] = q[i] /\ EntryGood(ts, q, i) /\ q[i].t \in SeedTasks /\ i \in DOMAIN q
      BY <1>1, <1>2, <2>1
    <3>2. ts2[q[i].t].stage # "free"
      BY <1>0, <1>3, <3>1 DEF EntryGood
    <3>3. ASSUME q[i].f = "response"
          PROVE  ts2[q[i].t].stage = "ended" /\ \A j \in DOMAIN q2 : j > i => q2[j].t # q[i].t
      <4>1. q[i].t # t
        BY <1>5, <3>1, <3>3
      <4>2. ts2[q[i].t].stage = "ended"
        BY <1>3, <3>1, <3>3, <4>1 DEF EntryGood
      <4>3. ASSUME NEW j \in DOMAIN q2, j > i PROVE q2[j].t # q[i].t
        <5>1. j = n + 1 \/ (j \in DOMAIN q /\ q2[j] = q[j])
          BY <1>2
        <5> QED
          BY <1>0, <1>2, <3>1, <3>3, <4>1, <4>3, <5>1 DEF EntryGood
      <4> QED
        BY <4>2, <4>3
    <3>4. ASSUME q[i].f = "succeeded"
          PROVE  /\ ts2[q[i].t].code = 206 /\ ~ts2[q[i].t].counted
                 /\ \A j \in DOMAIN q2 : q2[j] = q[i] => j = i
      <4>1. /\ ts[q[i].t].code = 206 /\ ~ts[q[i].t].counted
            /\ \A j \in DOMAIN q : q[j] = q[i] => j = i
        BY <3>1, <3>4 DEF EntryGood
      <4>2. q[i].t = t => k2.code = 206 /\ e.f # "succeeded"
        BY <1>0, <4>1
      <4>3. e # q[i]
        BY <1>0, <3>4, <4>2
      <4>4. ts2[q[i].t].code = 206 /\ ~ts2[q[i].t].counted
        BY <1>0, <1>3, <3>1, <4>1, <4>2
      <4>5. ASSUME NEW j \in DOMAIN q2, q2[j] = q[i] PROVE j = i
        <5>1. j = n + 1 \/ (j \in DOMAIN q /\ q2[j] = q[j])
          BY <1>2
        <5> QED
          BY <1>2, <4>1, <4>3, <4>5, <5>1
      <4> QED
        BY <4>4, <4>5
    <3> QED
      BY <3>1, <3>2, <3>3, <3>4 DEF EntryGood
  <2>2. CASE i = n + 1
    <3>1. q2[i] = e /\ ts2[e.t] = k2 /\ k2.stage # "free"
      BY <1>0, <1>2, <1>3, <2>2
    <3>2. \A j \in DOMAIN q2 : ~(j > i)
      BY <1>2, <2>2
    <3>3. ASSUME e.f = "succeeded"
          PROVE  k2.code = 206 /\ ~k2.counted /\ \A j \in DOMAIN q2 : q2[j] = e => j = i
      <4>1. ts[t].code = 0 /\ k2.code = 206
        BY <1>0, <3>3
      <4>2. ~k2.counted
        BY <1>0, <4>1 DEF WebGood, TaskGood
      <4>3. ASSUME NEW j \in DOMAIN q2, q2[j] = e PROVE j = i
        <5>1. j = n + 1 \/ (j \in DOMAIN q /\ q2[j] = q[j])
          BY <1>2
        <5> QED
          BY <1>0, <1>5, <2>2, <3>3, <4>1, <4>3, <5>1
      <4> QED
        BY <4>1, <4>2, <4>3
    <3> QED
      BY <1>0, <3>1, <3>2, <3>3 DEF EntryGood
  <2> QED
    BY <1>2, <2>1, <2>2
<1>8. ~s.freed
  BY <1>4 DEF WebGood, FreedIdle
<1>9. WebGood(s, ts2, q2, o)
  BY <1>1, <1>2, <1>3, <1>4, <1>6, <1>7, <1>8
  DEF WebGood, WebTypes, Connections, ActiveCounted, FreedIdle
<1> QED
  BY <1>9 DEF q2, e

\* Or nothing, when the transfer is not what was asked for, or not yet.
LEMMA TaskRewritten ==
    ASSUME NEW s, NEW ts, NEW q, NEW o, WebGood(s, ts, q, o),
           NEW t \in SeedTasks, NEW ts2 \in [SeedTasks -> TaskRecord],
           \A x \in SeedTasks \ {t} : ts2[x] = ts[x],
           HearsNothing(ts[t], ts2[t])
    PROVE  WebGood(s, ts2, q, o)
<1>1. /\ ts \in [SeedTasks -> TaskRecord] /\ q \in Seq(WorkRecord) /\ s \in SeedRecord
      /\ \A i \in DOMAIN q : EntryGood(ts, q, i) /\ q[i].t \in SeedTasks
  <2>1. q \in Seq(WorkRecord) /\ \A i \in DOMAIN q : EntryGood(ts, q, i)
    BY DEF WebGood, WebTypes
  <2>2. \A i \in DOMAIN q : q[i] \in WorkRecord
    BY <2>1, EntryType
  <2> QED
    BY <2>1, <2>2 DEF WebGood, WebTypes, WorkRecord
<1>2. \A x \in SeedTasks \ {t} : ts2[x] = ts[x]
  OBVIOUS
<1>3. TasksInUse(ts2) = TasksInUse(ts) /\ CountedTasks(ts2) = CountedTasks(ts) /\ t \in TasksInUse(ts)
  BY <1>2 DEF TasksInUse, CountedTasks, HearsNothing
<1>4. ASSUME NEW x \in SeedTasks PROVE TaskGood(ts2[x], x, q, o)
  <2>1. TaskGood(ts[x], x, q, o)
    BY DEF WebGood
  <2>2. CASE x = t
    BY <1>2, <2>1, <2>2 DEF TaskGood, HearsNothing
  <2> QED
    BY <1>2, <2>1, <2>2
<1>5. ASSUME NEW i \in DOMAIN q PROVE EntryGood(ts2, q, i)
  BY <1>1, <1>2 DEF EntryGood, HearsNothing
<1> QED
  BY <1>1, <1>2, <1>3, <1>4, <1>5 DEF WebGood, WebTypes, Connections, ActiveCounted, FreedIdle

LEMMA WebDataStep ==
    ASSUME WebInv, NEW t \in SeedTasks, NEW code \in {206, 404}, WebData(t, code)
    PROVE  WebInv'
<1> DEFINE k == task[t]
           first == k.code = 0
           ok == (IF first THEN code ELSE k.code) = 206
           isLast == k.short /\ k.done + 1 = TaskBlocks
           block == ok /\ ~isLast
           done2 == IF block THEN k.done + 1 ELSE k.done
           buf2 == ok /\ isLast
           q0 == Append(eventQ, Work("succeeded", t))
           ts0 == [task EXCEPT ![t] = [k EXCEPT !.code = 206]]
<1>1. /\ k.stage = "flight" /\ k.done < TaskBlocks /\ (first \/ code = k.code)
      /\ task' = [task EXCEPT ![t] = [k EXCEPT !.code = code, !.done = done2, !.buf = buf2]]
      /\ eventQ' = eventQ \o (IF first /\ ok THEN <<Work("succeeded", t)>> ELSE <<>>)
                          \o (IF block THEN <<Work("write", t)>> ELSE <<>>)
      /\ seed' = seed /\ owner' = owner
  BY DEF WebData
<1>2. /\ task \in [SeedTasks -> TaskRecord] /\ eventQ \in Seq(WorkRecord)
      /\ k \in TaskRecord /\ k.done \in Nat /\ TaskBlocks \in Nat
  BY WebAssumption DEF WebInv, WebGood, WebTypes, TaskRecord
<1>3. Work("succeeded", t) \in WorkRecord /\ Work("write", t) \in WorkRecord
  BY DEF Work, WorkRecord
<1>4. done2 \in 0..TaskBlocks /\ buf2 \in BOOLEAN
  BY <1>1, <1>2
<1>5. /\ block => done2 = k.done + 1
      /\ ~block => done2 = k.done
      /\ first /\ ok => code = 206
      /\ block /\ ~first => code = k.code
      /\ ~(first /\ ok) /\ ~block => code = k.code \/ (k.code = 0 /\ code = 404)
      /\ first /\ ok => k.code = 0
  BY <1>1, <1>2
<1>6. /\ first /\ ok /\ block => eventQ' = Append(q0, Work("write", t))
      /\ first /\ ok /\ ~block => eventQ' = q0
      /\ ~(first /\ ok) /\ block => eventQ' = Append(eventQ, Work("write", t))
      /\ ~(first /\ ok) /\ ~block => eventQ' = eventQ
  <2>1. /\ eventQ \o <<Work("succeeded", t)>> = q0 /\ eventQ \o <<>> = eventQ
        /\ q0 \in Seq(WorkRecord)
        /\ eventQ \o <<Work("write", t)>> = Append(eventQ, Work("write", t))
    BY <1>2, <1>3, AppendShape, AppendIsConcat, ConcatEmptySeq
  <2>2. q0 \o <<>> = q0 /\ q0 \o <<Work("write", t)>> = Append(q0, Work("write", t))
    BY <2>1, <1>3, AppendIsConcat, ConcatEmptySeq
  <2> HIDE DEF q0, first, ok, block
  <2> QED
    BY <1>1, <2>1, <2>2
<1>7. block /\ ~first => ~(first /\ ok)
  OBVIOUS
<1> HIDE DEF done2, buf2
<1>8. /\ task' \in [SeedTasks -> TaskRecord] /\ ts0 \in [SeedTasks -> TaskRecord]
      /\ \A x \in SeedTasks \ {t} : task'[x] = task[x] /\ ts0[x] = task[x]
      /\ task'[t].code = code /\ task'[t].done = done2
      /\ task'[t].stage = k.stage /\ task'[t].counted = k.counted /\ task'[t].written = k.written
      /\ ts0[t].code = 206 /\ ts0[t].done = k.done
      /\ ts0[t].stage = k.stage /\ ts0[t].counted = k.counted /\ ts0[t].written = k.written
  <2>0. code \in Codes /\ 206 \in Codes
    BY DEF Codes
  <2>1. [k EXCEPT !.code = code, !.done = done2, !.buf = buf2] \in TaskRecord
    BY <1>2, <1>4, <2>0 DEF TaskRecord
  <2>2. [k EXCEPT !.code = 206] \in TaskRecord
    BY <1>2, <2>0 DEF TaskRecord
  <2>3. /\ [k EXCEPT !.code = 206].stage = k.stage
        /\ [k EXCEPT !.code = 206].done = k.done
        /\ [k EXCEPT !.code = 206].counted = k.counted
        /\ [k EXCEPT !.code = 206].written = k.written
        /\ [k EXCEPT !.code = 206].code = 206
    BY <1>2 DEF TaskRecord
  <2>4. /\ [k EXCEPT !.code = code, !.done = done2, !.buf = buf2].stage = k.stage
        /\ [k EXCEPT !.code = code, !.done = done2, !.buf = buf2].done = done2
        /\ [k EXCEPT !.code = code, !.done = done2, !.buf = buf2].counted = k.counted
        /\ [k EXCEPT !.code = code, !.done = done2, !.buf = buf2].written = k.written
        /\ [k EXCEPT !.code = code, !.done = done2, !.buf = buf2].code = code
    BY <1>2 DEF TaskRecord
  <2>5. task'[t] = [k EXCEPT !.code = code, !.done = done2, !.buf = buf2]
    BY <1>1, <1>2
  <2>6. ts0[t] = [k EXCEPT !.code = 206]
    BY <1>2
  <2> HIDE DEF k
  <2> QED
    BY <1>1, <1>2, <2>1, <2>2, <2>3, <2>4, <2>5, <2>6
<1> HIDE DEF ts0, first, ok, block, q0
<1>9. CASE first /\ ok
  <2>1. Hears(task[t], ts0[t], "succeeded")
    BY <1>1, <1>5, <1>8, <1>9 DEF Hears
  <2>2. WebGood(seed, ts0, q0, owner)
    BY <1>8, <2>1, EntryQueued DEF WebInv, q0
  <2>3. CASE block
    <3>1. Hears(ts0[t], task'[t], "write")
      BY <1>1, <1>5, <1>8, <1>9, <2>3 DEF Hears
    <3>2. \A x \in SeedTasks \ {t} : task'[x] = ts0[x]
      BY <1>8
    <3>3. WebGood(seed, task', Append(q0, Work("write", t)), owner)
      BY <1>8, <2>2, <3>1, <3>2, EntryQueued
    <3> QED
      BY <1>1, <1>6, <1>9, <2>3, <3>3 DEF WebInv
  <2>4. CASE ~block
    <3>1. HearsNothing(ts0[t], task'[t])
      BY <1>1, <1>5, <1>8, <1>9, <2>4 DEF HearsNothing
    <3>2. \A x \in SeedTasks \ {t} : task'[x] = ts0[x]
      BY <1>8
    <3>3. WebGood(seed, task', q0, owner)
      BY <1>8, <2>2, <3>1, <3>2, TaskRewritten
    <3> QED
      BY <1>1, <1>6, <1>9, <2>4, <3>3 DEF WebInv
  <2> QED
    BY <2>3, <2>4
<1>10. CASE ~(first /\ ok) /\ block
  <2>1. Hears(task[t], task'[t], "write")
    <3>1. ~first
      BY <1>10 DEF block
    <3> QED
      BY <1>1, <1>5, <1>8, <1>10, <3>1 DEF Hears
  <2>2. WebGood(seed, task', Append(eventQ, Work("write", t)), owner)
    BY <1>8, <2>1, EntryQueued DEF WebInv
  <2> QED
    BY <1>1, <1>6, <1>10, <2>2 DEF WebInv
<1>11. CASE ~(first /\ ok) /\ ~block
  <2>1. HearsNothing(task[t], task'[t])
    BY <1>1, <1>5, <1>8, <1>11 DEF HearsNothing
  <2>2. WebGood(seed, task', eventQ, owner)
    BY <1>8, <2>1, TaskRewritten DEF WebInv
  <2> QED
    BY <1>1, <1>6, <1>11, <2>2 DEF WebInv
<1> QED
  BY <1>9, <1>10, <1>11

LEMMA WebDoneStep ==
    ASSUME WebInv, NEW t \in SeedTasks, NEW final \in {0, 206, 404}, WebDone(t, final)
    PROVE  WebInv'
<1> DEFINE k1 == [task[t] EXCEPT !.stage = "ended", !.final = final]
<1>1. /\ task[t].stage = "flight" /\ eventQ' = Append(eventQ, Work("response", t))
      /\ task' = [task EXCEPT ![t] = k1]
      /\ seed' = seed /\ owner' = owner
  BY DEF WebDone, Later
<1>2. task \in [SeedTasks -> TaskRecord] /\ task[t] \in TaskRecord
  BY DEF WebInv, WebGood, WebTypes
<1>3. final \in Codes /\ "ended" \in Stages
  BY DEF Codes, Stages
<1>4. /\ k1 \in TaskRecord /\ k1.stage = "ended" /\ k1.counted = task[t].counted
      /\ k1.written = task[t].written /\ k1.done = task[t].done /\ k1.code = task[t].code
  BY <1>2, <1>3 DEF TaskRecord
<1> HIDE DEF k1
<1>5. task' \in [SeedTasks -> TaskRecord] /\ task'[t] = k1 /\ \A x \in SeedTasks \ {t} : task'[x] = task[x]
  BY <1>1, <1>2, <1>4
<1>6. Hears(task[t], task'[t], "response")
  BY <1>1, <1>4, <1>5 DEF Hears
<1>7. WebGood(seed, task', Append(eventQ, Work("response", t)), owner)
  BY <1>5, <1>6, EntryQueued DEF WebInv
<1> QED
  BY <1>1, <1>7 DEF WebInv

-----------------------------------------------------------------------------
(* The event thread *)

\* New tasks take the place of idle connections, or of free ones.
LEMMA OnIdleStep ==
    ASSUME NEW s, NEW ts, WebGood(s, ts, eventQ', owner'), ~s.freed, owner' = owner,
           OnIdle(s, ts)
    PROVE  WebInv'
<1> DEFINE busy == RunningTasks(ts)
           want == Want(s, busy)
           s2 == [s EXCEPT !.challenge = Challenge(s, busy)]
<1>1. /\ s \in SeedRecord /\ ts \in [SeedTasks -> TaskRecord] /\ eventQ' \in Seq(WorkRecord)
      /\ busy = Cardinality(TasksInUse(ts)) /\ busy \in Nat /\ s.idle \in Nat
  BY WebFinite DEF WebGood, WebTypes, RunningTasks, TasksInUse, SeedRecord
<1>2. /\ s2 \in SeedRecord /\ s2.idle = s.idle /\ s2.tick = s.tick /\ s2.active = s.active
      /\ s2.freed = s.freed /\ s2.failures = s.failures
  <2>1. Challenge(s, busy) \in Int
    BY <1>1 DEF Challenge, SeedRecord
  <2> HIDE DEF busy
  <2> QED
    BY <1>1, <2>1 DEF SeedRecord
<1>3. CASE s.stopping /\ busy = 0
  <2>1. seed' = [s2 EXCEPT !.freed = TRUE] /\ task' = ts
    BY <1>3 DEF OnIdle
  <2> HIDE DEF s2, busy, want
  <2>2. /\ seed' \in SeedRecord /\ seed'.idle = s.idle /\ seed'.tick = s.tick
        /\ seed'.active = s.active /\ seed'.failures = s.failures
    BY <1>2, <2>1 DEF SeedRecord
  <2>3. TasksInUse(ts) = {}
    BY <1>1, <1>3, WebFinite, FS_EmptySet
  <2>4. eventQ' = <<>>
    <3>1. ASSUME eventQ' # <<>> PROVE FALSE
      <4>1. 1 \in DOMAIN eventQ' /\ eventQ'[1].t \in SeedTasks
        <5>1. 1 \in DOMAIN eventQ'
          BY <1>1, <3>1, TailShape
        <5>2. eventQ'[1] \in WorkRecord
          BY <1>1, <5>1, EntryType
        <5> QED
          BY <5>1, <5>2 DEF WorkRecord
      <4>2. eventQ'[1].t \in TasksInUse(ts)
        BY <4>1 DEF WebGood, EntryGood, TasksInUse
      <4> QED
        BY <2>3, <4>2
    <3> QED
      BY <3>1
  <2> QED
    BY <1>1, <2>1, <2>2, <2>3, <2>4
    DEF WebInv, WebGood, WebTypes, Connections, ActiveCounted, FreedIdle, IsFailing
<1>4. CASE ~(s.stopping /\ busy = 0) /\ (s.stopping \/ owner # "running" \/ want = 0)
  <2>1. seed' = s2 /\ task' = ts
    BY <1>4 DEF OnIdle
  <2> HIDE DEF s2, busy, want
  <2> QED
    BY <1>1, <1>2, <2>1 DEF WebInv, WebGood, WebTypes, Connections, ActiveCounted, FreedIdle, IsFailing
<1>5. CASE ~(s.stopping /\ busy = 0) /\ ~(s.stopping \/ owner # "running" \/ want = 0)
  <2>1. PICK S \in SUBSET {t \in SeedTasks : ts[t].stage = "free"}, short \in BOOLEAN :
          /\ Cardinality(S) <= want
          /\ seed' = [s2 EXCEPT !.idle = IF Cardinality(S) < @ THEN @ - Cardinality(S) ELSE 0,
                                !.tick = IF @ = "due" /\ Cardinality(S) = want THEN "none" ELSE @]
          /\ task' = [t \in SeedTasks |-> IF t \in S THEN NewTask(short) ELSE ts[t]]
    BY <1>5 DEF OnIdle
  <2> DEFINE got == Cardinality(S)
  <2>2. IsFiniteSet(S) /\ got \in Nat
    BY <2>1, FS_Subset, FS_CardinalityType, WebAssumption
  <2>3. got <= want /\ want = IF IsFailing(s) THEN s.idle + (IF s.tick = "due" THEN 1 ELSE 0)
                             ELSE MaxConnections - busy
    BY <2>1 DEF Want
  <2>4. /\ NewTask(short) \in TaskRecord /\ NewTask(short).stage \in {"queued", "lost"}
        /\ NewTask(short).code = 0 /\ NewTask(short).counted = FALSE
        /\ NewTask(short).done = 0 /\ NewTask(short).written = 0
    <3>1. 0 \in 0..TaskBlocks
      BY WebAssumption
    <3>2. /\ [NoTask EXCEPT !.short = short] \in TaskRecord
          /\ [NoTask EXCEPT !.short = short].counted = FALSE
          /\ [NoTask EXCEPT !.short = short].done = 0 /\ [NoTask EXCEPT !.short = short].written = 0
      <4>1. NoTask.counted = FALSE /\ NoTask.done = 0 /\ NoTask.written = 0
        BY DEF NoTask
      <4>2. \A k \in TaskRecord :
               LET r == [k EXCEPT !.short = short]
               IN  /\ r \in TaskRecord /\ r.counted = k.counted /\ r.done = k.done
                   /\ r.written = k.written
        BY DEF TaskRecord
      <4> QED
        BY <4>1, <4>2, NoTaskType
    <3>3. \A k \in TaskRecord :
             /\ Requested(k) \in TaskRecord /\ Requested(k).stage \in {"queued", "lost"}
             /\ Requested(k).code = 0 /\ Requested(k).counted = k.counted
             /\ Requested(k).done = k.done /\ Requested(k).written = k.written
      BY RequestedTask
    <3> QED
      BY <3>2, <3>3 DEF NewTask
  <2>5. task' \in [SeedTasks -> TaskRecord]
    BY <1>1, <2>1, <2>4
  <2>6. TasksInUse(task') = TasksInUse(ts) \cup S /\ TasksInUse(ts) \cap S = {}
    BY <2>1, <2>4 DEF TasksInUse
  <2>7. Cardinality(TasksInUse(task')) = busy + got
    <3>1. IsFiniteSet(TasksInUse(ts)) /\ Cardinality(TasksInUse(ts)) = busy
      BY <1>1, WebFinite
    <3>2. Cardinality(TasksInUse(ts) \cup S) = Cardinality(TasksInUse(ts)) + got - Cardinality(TasksInUse(ts) \cap S)
      BY <2>2, <3>1, FS_Union
    <3>3. Cardinality(TasksInUse(ts) \cap S) = 0
      BY <2>6, FS_EmptySet
    <3> HIDE DEF busy, got
    <3> QED
      BY <1>1, <2>2, <2>6, <3>1, <3>2, <3>3
  <2>8. \A t \in S : ts[t] = NoTask
    BY <2>1 DEF WebGood, TaskGood
  <2>9. CountedTasks(task') = CountedTasks(ts)
    BY <2>1, <2>4, <2>8 DEF CountedTasks, NoTask
  <2> HIDE DEF s2, busy, want, got
  <2>10. /\ seed' \in SeedRecord /\ seed'.active = s.active /\ seed'.freed = s.freed
         /\ seed'.failures = s.failures
         /\ seed'.idle = IF got < s.idle THEN s.idle - got ELSE 0
         /\ seed'.tick = IF s.tick = "due" /\ got = want THEN "none" ELSE s.tick
    <3>1. seed' = [s2 EXCEPT !.idle = IF got < @ THEN @ - got ELSE 0,
                             !.tick = IF @ = "due" /\ got = want THEN "none" ELSE @]
      BY <2>1 DEF got
    <3>2. s.idle - got \in Nat \/ ~(got < s.idle)
      BY <1>1, <2>2
    <3>3. (IF got < s.idle THEN s.idle - got ELSE 0) \in Nat
      BY <3>2
    <3>4. s.tick \in Ticks /\ "none" \in Ticks
      BY <1>2 DEF SeedRecord, Ticks
    <3>5. (IF s.tick = "due" /\ got = want THEN "none" ELSE s.tick) \in Ticks
      BY <3>4
    <3> QED
      BY <1>2, <3>1, <3>3, <3>5 DEF SeedRecord
  <2>11. Connections(seed', task')
    <3>1. MaxConnections \in Nat /\ (IsFailing(seed') <=> IsFailing(s))
      BY WebAssumption, <2>10 DEF IsFailing
    <3>2. busy + s.idle <= MaxConnections /\ (s.tick # "none" => IsFailing(s) /\ busy + s.idle < MaxConnections)
      BY <1>1 DEF WebGood, Connections
    <3>3. seed'.tick # "none" => s.tick # "none" /\ ~(s.tick = "due" /\ got = want)
      BY <2>10
    <3>4. (busy + got) + seed'.idle <= MaxConnections
      BY <1>1, <2>2, <2>3, <2>10, <3>1, <3>2
    <3>5. seed'.tick # "none" => IsFailing(seed') /\ (busy + got) + seed'.idle < MaxConnections
      BY <1>1, <2>2, <2>3, <2>10, <3>1, <3>2, <3>3
    <3> QED
      BY <2>7, <3>4, <3>5 DEF Connections
  <2>12. ASSUME NEW t \in SeedTasks PROVE TaskGood(task'[t], t, eventQ', owner')
    <3>1. TaskGood(ts[t], t, eventQ', owner')
      BY DEF WebGood
    <3>2. CASE t \in S
      <4>1. task'[t] = NewTask(short) /\ ts[t] = NoTask
        BY <2>1, <2>8, <3>2
      <4>2. owner' # "gone" => 0 + Copies(eventQ', Work("write", t)) = 0
        BY <3>1, <4>1 DEF TaskGood, NoTask
      <4> QED
        BY <2>4, <4>1, <4>2 DEF TaskGood
    <3>3. CASE t \notin S
      BY <2>1, <3>1, <3>3
    <3> QED
      BY <3>2, <3>3
  <2>13. ASSUME NEW i \in DOMAIN eventQ' PROVE EntryGood(task', eventQ', i)
    <3>1. EntryGood(ts, eventQ', i) /\ eventQ'[i] \in WorkRecord
      BY <1>1, EntryType DEF WebGood
    <3>2. eventQ'[i].t \in SeedTasks
      BY <3>1 DEF WorkRecord
    <3>3. eventQ'[i].t \notin S
      BY <2>1, <3>1 DEF EntryGood
    <3>4. task'[eventQ'[i].t] = ts[eventQ'[i].t]
      BY <2>1, <3>2, <3>3
    <3> QED
      BY <3>1, <3>4 DEF EntryGood
  <2> QED
    BY <1>1, <2>5, <2>9, <2>10, <2>11, <2>12, <2>13
    DEF WebInv, WebGood, WebTypes, ActiveCounted, FreedIdle
<1> QED
  BY <1>3, <1>4, <1>5

LEMMA SeedTimerStep == WebInv /\ SeedTimer => WebInv'
<1> SUFFICES ASSUME WebInv, SeedTimer PROVE WebInv'
  OBVIOUS
<1>1. PICK tick \in (IF seed.tick = "counting" THEN {"counting", "due"} ELSE {seed.tick}) :
         OnIdle([seed EXCEPT !.tick = tick], task)
  BY DEF SeedTimer
<1> DEFINE s == [seed EXCEPT !.tick = tick]
<1>2. ~seed.freed /\ UNCHANGED <<eventQ, owner>> /\ seed \in SeedRecord
  BY DEF SeedTimer, WebInv, WebGood, WebTypes
<1>0. tick \in Ticks /\ (tick # "none" => seed.tick # "none")
  <2>1. seed.tick \in Ticks
    BY <1>2 DEF SeedRecord
  <2> QED
    BY <1>1, <2>1 DEF Ticks
<1>3. /\ s \in SeedRecord /\ s.idle = seed.idle /\ s.active = seed.active /\ ~s.freed
      /\ s.failures = seed.failures /\ (s.tick # "none" => seed.tick # "none")
  BY <1>0, <1>2 DEF SeedRecord
<1> HIDE DEF s
<1>4. WebGood(s, task, eventQ, owner)
  BY <1>3 DEF WebInv, WebGood, WebTypes, Connections, ActiveCounted, FreedIdle, IsFailing
<1> QED
  BY <1>1, <1>2, <1>3, <1>4, OnIdleStep DEF s

\* What is left in the queue when its head is handled.
LEMMA RestOfQueue ==
    ASSUME NEW q \in Seq(WorkRecord), q # <<>>
    PROVE  /\ Tail(q) \in Seq(WorkRecord) /\ 1 \in DOMAIN q /\ Head(q) = q[1]
           /\ Head(q).t \in SeedTasks /\ Head(q).f \in {"succeeded", "write", "response"}
           /\ \A i \in DOMAIN q : q[i].t \in SeedTasks
           /\ \A i \in DOMAIN Tail(q) : i + 1 \in DOMAIN q /\ Tail(q)[i] = q[i + 1] /\ i + 1 > 1
           /\ \A i \in DOMAIN q : i # 1 => \E h \in DOMAIN Tail(q) : i = h + 1
           /\ \A i, j \in DOMAIN Tail(q) : (i + 1 = j + 1 => i = j) /\ (j > i => j + 1 > i + 1)
<1>1. /\ Tail(q) \in Seq(WorkRecord) /\ Len(q) \in Nat \ {0} /\ DOMAIN q = 1..Len(q)
      /\ DOMAIN Tail(q) = 1..(Len(q) - 1) /\ Head(q) = q[1] /\ Head(q) \in WorkRecord
      /\ \A i \in 1..(Len(q) - 1) : Tail(q)[i] = q[i + 1]
  BY TailShape
<1>2. \A i \in DOMAIN q : q[i] \in WorkRecord
  BY EntryType
<1>3. \A i \in DOMAIN q : q[i].t \in SeedTasks
  BY <1>2 DEF WorkRecord
<1>4. Head(q).t \in SeedTasks /\ Head(q).f \in {"succeeded", "write", "response"}
  BY <1>1 DEF WorkRecord
<1>5. \A i \in DOMAIN q : i # 1 => i - 1 \in DOMAIN Tail(q) /\ i = (i - 1) + 1
  BY <1>1
<1>6. \A i \in DOMAIN Tail(q) : i + 1 \in DOMAIN q /\ Tail(q)[i] = q[i + 1] /\ i + 1 > 1
  BY <1>1
<1>7. \A i, j \in DOMAIN Tail(q) : (i + 1 = j + 1 => i = j) /\ (j > i => j + 1 > i + 1)
  BY <1>1
<1> QED
  BY <1>1, <1>3, <1>4, <1>5, <1>6, <1>7

\* The head of the queue concerns one task, and changes it to k2.
LEMMA OthersKeep ==
    ASSUME WebInv, eventQ # <<>>, NEW ts2, NEW t \in SeedTasks, Head(eventQ).t = t,
           \A x \in SeedTasks \ {t} : ts2[x] = task[x]
    PROVE  /\ \A x \in SeedTasks \ {t} : TaskGood(ts2[x], x, Tail(eventQ), owner)
           /\ \A i \in DOMAIN Tail(eventQ) : Tail(eventQ)[i].t # t => EntryGood(ts2, Tail(eventQ), i)
<1> DEFINE q == eventQ
           r == Tail(eventQ)
<1>1. q \in Seq(WorkRecord) /\ \A i \in DOMAIN q : EntryGood(task, q, i)
  BY DEF WebInv, WebGood, WebTypes
<1> HIDE DEF q, r
<1>2. /\ Head(q) = q[1] /\ 1 \in DOMAIN q /\ \A i \in DOMAIN q : q[i].t \in SeedTasks
      /\ \A i \in DOMAIN r : i + 1 \in DOMAIN q /\ r[i] = q[i + 1] /\ i + 1 > 1
      /\ \A i \in DOMAIN q : i # 1 => \E h \in DOMAIN r : i = h + 1
      /\ \A i, j \in DOMAIN r : (i + 1 = j + 1 => i = j) /\ (j > i => j + 1 > i + 1)
  BY <1>1, RestOfQueue DEF q, r
<1>3. ASSUME NEW x \in SeedTasks \ {t} PROVE TaskGood(ts2[x], x, r, owner)
  <2>1. TaskGood(task[x], x, q, owner)
    BY DEF WebInv, WebGood, q
  <2>2. Head(q) # Work("write", x) /\ q[1].t = t
    BY <1>2 DEF Work, q
  <2>3. Copies(q, Work("write", x)) = Copies(r, Work("write", x)) + 0
    BY <1>1, <2>2, CopiesTail DEF q, r
  <2>4. Copies(q, Work("write", x)) = Copies(r, Work("write", x))
    <3>1. Copies(r, Work("write", x)) \in Nat
      BY <1>1, RestOfQueue, CopiesFinite DEF q, r
    <3> QED
      BY <2>3, <3>1
  <2>5. (\E i \in DOMAIN q : q[i] = Work("succeeded", x)) => \E i \in DOMAIN r : r[i] = Work("succeeded", x)
    <3> SUFFICES ASSUME NEW i \in DOMAIN q, q[i] = Work("succeeded", x)
                 PROVE  \E h \in DOMAIN r : r[h] = Work("succeeded", x)
      OBVIOUS
    <3>1. i # 1
      BY <2>2 DEF Work
    <3> QED
      BY <1>2, <3>1
  <2> QED
    BY <2>1, <2>4, <2>5 DEF TaskGood
<1>4. ASSUME NEW i \in DOMAIN r, r[i].t # t PROVE EntryGood(ts2, r, i)
  <2>1. EntryGood(task, q, i + 1) /\ r[i] = q[i + 1] /\ q[i + 1].t \in SeedTasks
    BY <1>1, <1>2
  <2>2. ts2[r[i].t] = task[r[i].t]
    BY <1>4, <2>1
  <2>3. \A j \in DOMAIN r : /\ j > i => r[j].t = q[j + 1].t /\ j + 1 \in DOMAIN q /\ j + 1 > i + 1
                            /\ r[j] = r[i] => q[j + 1] = q[i + 1] /\ j + 1 \in DOMAIN q
                            /\ j + 1 = i + 1 => j = i
    BY <1>2, <1>4, <2>1
  <2> QED
    BY <2>1, <2>2, <2>3 DEF EntryGood
<1> QED
  BY <1>3, <1>4 DEF q, r

LEMMA SucceededStep ==
    ASSUME WebInv, eventQ # <<>>, eventQ' = Tail(eventQ), owner' = owner,
           Head(eventQ).f = "succeeded", Succeeded(Head(eventQ).t)
    PROVE  WebInv'
<1> DEFINE t == Head(eventQ).t
           met == seed.active + 1 >= seed.challenge /\ seed.challenge > 0
           r == Tail(eventQ)
<1>1. /\ seed \in SeedRecord /\ task \in [SeedTasks -> TaskRecord] /\ eventQ \in Seq(WorkRecord)
      /\ \A i \in DOMAIN eventQ : EntryGood(task, eventQ, i)
  BY DEF WebInv, WebGood, WebTypes
<1>2. /\ t \in SeedTasks /\ r \in Seq(WorkRecord) /\ 1 \in DOMAIN eventQ /\ Head(eventQ) = eventQ[1]
      /\ \A i \in DOMAIN r : i + 1 \in DOMAIN eventQ /\ r[i] = eventQ[i + 1] /\ i + 1 > 1
      /\ \A i, j \in DOMAIN r : (j > i => j + 1 > i + 1)
  BY <1>1, RestOfQueue
<1>3. /\ seed' = IF met THEN [seed EXCEPT !.active = @ + 1, !.failures = 0, !.tick = "none", !.challenge = 0]
                 ELSE [seed EXCEPT !.active = @ + 1]
      /\ task' = [task EXCEPT ![t].counted = TRUE]
  BY DEF Succeeded
<1>4. task[t].code = 206 /\ task[t].counted = FALSE /\ task[t].stage # "free"
      /\ \A j \in DOMAIN eventQ : eventQ[j] = eventQ[1] => j = 1
  <2>1. EntryGood(task, eventQ, 1)
    BY <1>1, <1>2
  <2>2. task[t].counted \in BOOLEAN
    BY <1>1, <1>2 DEF TaskRecord
  <2> QED
    BY <1>2, <2>1, <2>2 DEF EntryGood
<1> HIDE DEF t, r
<1>5. /\ task' \in [SeedTasks -> TaskRecord] /\ \A x \in SeedTasks \ {t} : task'[x] = task[x]
      /\ task'[t].counted = TRUE /\ task'[t].code = 206 /\ task'[t].stage = task[t].stage
      /\ task'[t].done = task[t].done /\ task'[t].written = task[t].written
  <2>1. task' = [task EXCEPT ![t] = [task[t] EXCEPT !.counted = TRUE]]
    BY <1>1, <1>2, <1>3
  <2>2. task[t] \in TaskRecord
    BY <1>1, <1>2
  <2>3. [task[t] EXCEPT !.counted = TRUE] \in TaskRecord
    BY <2>2 DEF TaskRecord
  <2>4. LET r1 == [task[t] EXCEPT !.counted = TRUE]
        IN  /\ r1.counted = TRUE /\ r1.code = task[t].code /\ r1.stage = task[t].stage
            /\ r1.done = task[t].done /\ r1.written = task[t].written
    BY <2>2 DEF TaskRecord
  <2>5. task'[t] = [task[t] EXCEPT !.counted = TRUE]
    BY <1>1, <1>2, <2>1
  <2> QED
    BY <1>1, <1>2, <1>4, <2>1, <2>3, <2>4, <2>5
<1>6. TasksInUse(task') = TasksInUse(task) /\ CountedTasks(task') = CountedTasks(task) \cup {t} /\ t \notin CountedTasks(task)
  BY <1>2, <1>4, <1>5 DEF TasksInUse, CountedTasks
<1>7. /\ seed' \in SeedRecord /\ seed'.active = seed.active + 1 /\ seed'.idle = seed.idle
      /\ seed'.freed = seed.freed
      /\ seed'.tick # "none" => seed.tick # "none" /\ seed'.failures = seed.failures
  <2>1. seed.active + 1 \in Int /\ 0 \in 0..MaxFailures
    BY <1>1, WebAssumption DEF SeedRecord
  <2>2. CASE met
    <3>1. seed' = [seed EXCEPT !.active = seed.active + 1, !.failures = 0, !.tick = "none", !.challenge = 0]
      BY <1>3, <2>2
    <3>2. seed' \in SeedRecord
      <4>1. \A a \in Int, n \in 0..MaxFailures, d \in Ticks, c \in Int :
               [seed EXCEPT !.active = a, !.failures = n, !.tick = d, !.challenge = c] \in SeedRecord
        BY <1>1 DEF SeedRecord
      <4>2. "none" \in Ticks /\ 0 \in Int
        BY DEF Ticks
      <4>3. [seed EXCEPT !.active = seed.active + 1, !.failures = 0, !.tick = "none", !.challenge = 0] \in SeedRecord
        BY <2>1, <4>1, <4>2, Zenon
      <4> QED
        BY <3>1, <4>3
    <3>3. seed'.active = seed.active + 1 /\ seed'.tick = "none"
      BY <1>1, <3>1 DEF SeedRecord
    <3>4. seed'.idle = seed.idle /\ seed'.freed = seed.freed
      BY <1>1, <3>1 DEF SeedRecord
    <3> QED
      BY <3>2, <3>3, <3>4
  <2>3. CASE ~met
    <3>1. seed' = [seed EXCEPT !.active = seed.active + 1]
      BY <1>3, <2>3
    <3> QED
      BY <1>1, <2>1, <3>1 DEF SeedRecord
  <2> QED
    BY <2>2, <2>3
<1>8. Connections(seed', task') /\ ActiveCounted(seed', task')
  <2>1. Cardinality(CountedTasks(task')) = Cardinality(CountedTasks(task)) + 1
    BY <1>6, WebFinite, FS_AddElement
  <2> QED
    BY <1>6, <1>7, <2>1 DEF WebInv, WebGood, Connections, ActiveCounted, IsFailing
<1>9. TaskGood(task'[t], t, r, owner)
  <2>1. TaskGood(task[t], t, eventQ, owner)
    BY <1>2 DEF WebInv, WebGood
  <2>2. Copies(eventQ, Work("write", t)) = Copies(r, Work("write", t))
    <3>1. Head(eventQ) # Work("write", t)
      BY DEF Work
    <3>2. Copies(r, Work("write", t)) \in Nat
      BY <1>2, CopiesFinite
    <3>3. Copies(eventQ, Work("write", t)) = Copies(r, Work("write", t)) + 0
      BY <1>1, <3>1, CopiesTail DEF r
    <3> QED
      BY <3>2, <3>3
  <2> QED
    BY <1>4, <1>5, <2>1, <2>2 DEF TaskGood
<1>10. ASSUME NEW i \in DOMAIN r, r[i].t = t PROVE EntryGood(task', r, i)
  <2>1. EntryGood(task, eventQ, i + 1) /\ r[i] = eventQ[i + 1] /\ i + 1 \in DOMAIN eventQ /\ i + 1 # 1
    BY <1>1, <1>2
  <2>2. r[i].f # "succeeded"
    <3>1. ASSUME r[i].f = "succeeded" PROVE FALSE
      <4>1. r[i] = eventQ[1]
        <5>1. r[i] \in WorkRecord /\ eventQ[1] \in WorkRecord
          BY <1>1, <1>2, EntryType
        <5>2. eventQ[1].f = "succeeded" /\ eventQ[1].t = t
          BY <1>2 DEF t
        <5> QED
          BY <1>10, <3>1, <5>1, <5>2 DEF WorkRecord
      <4> QED
        BY <1>4, <2>1, <4>1, ZenonT(60)
    <3> QED
      BY <3>1
  <2>3. \A j \in DOMAIN r : j > i => r[j].t = eventQ[j + 1].t /\ j + 1 \in DOMAIN eventQ /\ j + 1 > i + 1
    BY <1>2, <1>10
  <2> QED
    BY <1>5, <1>10, <2>1, <2>2, <2>3 DEF EntryGood
<1>11. /\ \A x \in SeedTasks \ {t} : TaskGood(task'[x], x, r, owner)
       /\ \A i \in DOMAIN r : r[i].t # t => EntryGood(task', r, i)
  BY <1>2, <1>5, OthersKeep DEF t, r
<1>12. ~seed.freed
  BY DEF WebInv, WebGood, FreedIdle
<1>13. WebGood(seed', task', r, owner)
  BY <1>2, <1>5, <1>7, <1>8, <1>9, <1>10, <1>11, <1>12 DEF WebGood, WebTypes, FreedIdle
<1> QED
  BY <1>13 DEF WebInv, r

LEMMA WriteBlockStep ==
    ASSUME WebInv, eventQ # <<>>, eventQ' = Tail(eventQ), owner' = owner,
           Head(eventQ).f = "write", WriteBlock(Head(eventQ).t)
    PROVE  WebInv'
<1> DEFINE t == Head(eventQ).t
           r == Tail(eventQ)
<1>1. /\ task \in [SeedTasks -> TaskRecord] /\ eventQ \in Seq(WorkRecord)
      /\ \A i \in DOMAIN eventQ : EntryGood(task, eventQ, i)
  BY DEF WebInv, WebGood, WebTypes
<1>2. /\ t \in SeedTasks /\ r \in Seq(WorkRecord) /\ 1 \in DOMAIN eventQ /\ Head(eventQ) = eventQ[1]
      /\ \A i \in DOMAIN r : i + 1 \in DOMAIN eventQ /\ r[i] = eventQ[i + 1] /\ i + 1 > 1
      /\ \A i \in DOMAIN eventQ : i # 1 => \E h \in DOMAIN r : i = h + 1
      /\ \A i, j \in DOMAIN r : (i + 1 = j + 1 => i = j) /\ (j > i => j + 1 > i + 1)
  BY <1>1, RestOfQueue
<1>3. /\ task' = IF owner = "gone" THEN task ELSE [task EXCEPT ![t] = [task[t] EXCEPT !.written = task[t].written + 1]]
      /\ seed' = seed
  BY <1>1, <1>2 DEF WriteBlock
<1>4. Copies(eventQ, Work("write", t)) = Copies(r, Work("write", t)) + 1 /\ Copies(r, Work("write", t)) \in Nat
  <2>1. Head(eventQ) = Work("write", t)
    <3>1. Head(eventQ) \in WorkRecord
      BY <1>1, <1>2, EntryType
    <3> QED
      BY <3>1 DEF WorkRecord, Work
  <2>2. Copies(eventQ, Work("write", t)) = Copies(r, Work("write", t)) + 1
    BY <1>1, <2>1, CopiesTail
  <2> QED
    BY <1>2, <2>2, CopiesFinite
<1>5. TaskGood(task[t], t, eventQ, owner)
  BY <1>2 DEF WebInv, WebGood
<1>6. task[t].stage # "free"
  BY <1>1, <1>2 DEF EntryGood
<1>7. /\ task[t] \in TaskRecord /\ task[t].done \in 0..TaskBlocks /\ task[t].written \in Nat
      /\ TaskBlocks \in Nat
  BY <1>1, <1>2, WebAssumption DEF TaskRecord
<1>8. (\E i \in DOMAIN eventQ : eventQ[i] = Work("succeeded", t)) => \E i \in DOMAIN r : r[i] = Work("succeeded", t)
  <2> SUFFICES ASSUME NEW i \in DOMAIN eventQ, eventQ[i] = Work("succeeded", t)
               PROVE  \E h \in DOMAIN r : r[h] = Work("succeeded", t)
    OBVIOUS
  <2>1. i # 1
    BY <1>2 DEF Work
  <2>2. PICK h \in DOMAIN r : i = h + 1
    BY <1>2, <2>1
  <2> QED
    BY <1>2, <2>2
<1> HIDE DEF t, r
<1>9. /\ task' \in [SeedTasks -> TaskRecord] /\ \A x \in SeedTasks \ {t} : task'[x] = task[x]
      /\ task'[t].counted = task[t].counted /\ task'[t].code = task[t].code
      /\ task'[t].stage = task[t].stage /\ task'[t].done = task[t].done
      /\ task'[t].written = IF owner = "gone" THEN task[t].written ELSE task[t].written + 1
  <2>1. CASE owner = "gone"
    BY <1>1, <1>3, <2>1
  <2>2. CASE owner # "gone"
    <3>1. task[t].written + 1 \in 0..TaskBlocks
      BY <1>4, <1>5, <1>7, <2>2 DEF TaskGood
    <3>2. [task[t] EXCEPT !.written = task[t].written + 1] \in TaskRecord
      BY <1>7, <3>1 DEF TaskRecord
    <3>3. LET k == [task[t] EXCEPT !.written = task[t].written + 1]
          IN  /\ k.counted = task[t].counted /\ k.code = task[t].code /\ k.stage = task[t].stage
              /\ k.done = task[t].done /\ k.written = task[t].written + 1
      BY <1>7 DEF TaskRecord
    <3>4. task' = [task EXCEPT ![t] = [task[t] EXCEPT !.written = task[t].written + 1]]
      BY <1>3, <2>2
    <3>5. task'[t] = [task[t] EXCEPT !.written = task[t].written + 1]
      BY <1>1, <1>2, <3>4
    <3> QED
      BY <1>1, <2>2, <3>2, <3>3, <3>4, <3>5
  <2> QED
    BY <2>1, <2>2
<1>10. TasksInUse(task') = TasksInUse(task) /\ CountedTasks(task') = CountedTasks(task)
  BY <1>9 DEF TasksInUse, CountedTasks
<1>11. TaskGood(task'[t], t, r, owner)
  <2>1. task'[t].written <= task'[t].done
    BY <1>4, <1>5, <1>7, <1>9 DEF TaskGood
  <2>2. owner # "gone" => task'[t].written + Copies(r, Work("write", t)) = task'[t].done
    BY <1>4, <1>5, <1>7, <1>9, SMTT(40) DEF TaskGood
  <2> QED
    BY <1>5, <1>6, <1>8, <1>9, <2>1, <2>2 DEF TaskGood
<1>12. ASSUME NEW i \in DOMAIN r, r[i].t = t PROVE EntryGood(task', r, i)
  <2>1. EntryGood(task, eventQ, i + 1) /\ r[i] = eventQ[i + 1] /\ i + 1 \in DOMAIN eventQ
    BY <1>1, <1>2
  <2>2. \A j \in DOMAIN r : /\ j > i => r[j].t = eventQ[j + 1].t /\ j + 1 \in DOMAIN eventQ /\ j + 1 > i + 1
                            /\ r[j] = r[i] => eventQ[j + 1] = eventQ[i + 1] /\ j + 1 \in DOMAIN eventQ
                            /\ j + 1 = i + 1 => j = i
    BY <1>2, <1>12, <2>1
  <2> QED
    BY <1>9, <1>12, <2>1, <2>2 DEF EntryGood
<1>13. /\ \A x \in SeedTasks \ {t} : TaskGood(task'[x], x, r, owner)
       /\ \A i \in DOMAIN r : r[i].t # t => EntryGood(task', r, i)
  BY <1>2, <1>9, OthersKeep DEF t, r
<1>14. ~seed.freed
  BY DEF WebInv, WebGood, FreedIdle
<1>15. WebGood(seed', task', r, owner)
  BY <1>2, <1>3, <1>9, <1>10, <1>11, <1>12, <1>13, <1>14
  DEF WebInv, WebGood, WebTypes, Connections, ActiveCounted, FreedIdle
<1> QED
  BY <1>15 DEF WebInv, r

\* An answered task counts as active exactly if its transfer had succeeded, and
\* nothing more of it is queued: it may be freed, or requested again.
LEMMA TaskAnswered ==
    ASSUME WebInv, eventQ # <<>>, Head(eventQ).f = "response", owner # "gone",
           NEW t, t = Head(eventQ).t,
           NEW k2 \in TaskRecord, k2.counted = FALSE, k2.code = 0,
           k2 = NoTask \/ (k2.stage # "free" /\ k2.written = task[t].written /\ k2.done = task[t].done),
           NEW s \in SeedRecord, ~s.freed,
           s.active = IF task[t].code = 206 THEN seed.active - 1 ELSE seed.active,
           Connections(s, [task EXCEPT ![t] = k2])
    PROVE  WebGood(s, [task EXCEPT ![t] = k2], Tail(eventQ), owner)
<1> DEFINE r == Tail(eventQ)
           ts2 == [task EXCEPT ![t] = k2]
<1>1. /\ seed \in SeedRecord /\ task \in [SeedTasks -> TaskRecord] /\ eventQ \in Seq(WorkRecord)
      /\ \A i \in DOMAIN eventQ : EntryGood(task, eventQ, i)
  BY DEF WebInv, WebGood, WebTypes
<1>2. /\ t \in SeedTasks /\ r \in Seq(WorkRecord) /\ 1 \in DOMAIN eventQ /\ Head(eventQ) = eventQ[1]
      /\ \A i \in DOMAIN r : i + 1 \in DOMAIN eventQ /\ r[i] = eventQ[i + 1] /\ i + 1 > 1
      /\ \A i \in DOMAIN eventQ : i # 1 => \E h \in DOMAIN r : i = h + 1
  BY <1>1, RestOfQueue
<1>3. ts2 \in [SeedTasks -> TaskRecord] /\ ts2[t] = k2 /\ \A x \in SeedTasks \ {t} : ts2[x] = task[x]
  BY <1>1, <1>2
<1> HIDE DEF r, ts2
<1>4. /\ task[t].stage = "ended"
      /\ \A j \in DOMAIN eventQ : j > 1 => eventQ[j].t # t
  BY <1>1, <1>2 DEF EntryGood
<1>5. \A i \in DOMAIN r : r[i].t # t
  BY <1>2, <1>4
<1>6. Copies(r, Work("write", t)) = 0
  <2>1. Queued(r, Work("write", t)) = {}
    BY <1>5 DEF Queued, Work
  <2> QED
    BY <2>1, FS_EmptySet DEF Copies
<1>7. Copies(eventQ, Work("write", t)) = 0
  <2>1. Head(eventQ) # Work("write", t)
    BY DEF Work
  <2> QED
    BY <1>1, <1>6, <2>1, CopiesTail DEF r
<1>8. TaskGood(task[t], t, eventQ, owner) /\ task[t] \in TaskRecord /\ task[t].written \in Nat
  BY <1>1, <1>2 DEF WebInv, WebGood, TaskRecord
<1>9. task[t].counted <=> task[t].code = 206
  <2>1. \A i \in DOMAIN eventQ : eventQ[i] # Work("succeeded", t)
    <3>1. \A i \in DOMAIN eventQ : i = 1 \/ eventQ[i].t # t
      <4>1. \A i \in DOMAIN eventQ : i = 1 \/ i > 1
        <5>1. Len(eventQ) \in Nat /\ DOMAIN eventQ = 1..Len(eventQ)
          BY <1>1, LenProperties
        <5> QED
          BY <5>1
      <4> QED
        BY <1>4, <4>1
    <3> QED
      BY <1>2, <3>1 DEF Work
  <2> QED
    BY <1>8, <2>1 DEF TaskGood
<1>10. Cardinality(CountedTasks(ts2)) = IF task[t].code = 206 THEN Cardinality(CountedTasks(task)) - 1
                                        ELSE Cardinality(CountedTasks(task))
  <2>1. CountedTasks(ts2) = CountedTasks(task) \ {t}
    BY <1>3 DEF CountedTasks
  <2>2. t \in CountedTasks(task) <=> task[t].code = 206
    BY <1>2, <1>9 DEF CountedTasks
  <2>3. Cardinality(CountedTasks(task) \ {t}) =
            IF t \in CountedTasks(task) THEN Cardinality(CountedTasks(task)) - 1
            ELSE Cardinality(CountedTasks(task))
    <3>1. IsFiniteSet(CountedTasks(task))
      BY WebFinite
    <3> QED
      BY <3>1, FS_RemoveElement
  <2> QED
    BY <2>1, <2>2, <2>3
<1>11. ActiveCounted(s, ts2)
  BY <1>10 DEF ActiveCounted, WebInv, WebGood
<1>12. TaskGood(ts2[t], t, r, owner)
  <2>1. k2.written <= k2.done /\ k2.written + Copies(r, Work("write", t)) = k2.done
    <3>1. CASE k2 = NoTask
      BY <1>6, <3>1 DEF NoTask
    <3>2. CASE k2.written = task[t].written /\ k2.done = task[t].done
      BY <1>6, <1>7, <1>8, <3>2 DEF TaskGood
    <3> QED
      BY <3>1, <3>2
  <2> QED
    BY <1>3, <2>1 DEF TaskGood
<1>13. /\ \A x \in SeedTasks \ {t} : TaskGood(ts2[x], x, r, owner)
       /\ \A i \in DOMAIN r : r[i].t # t => EntryGood(ts2, r, i)
  BY <1>2, <1>3, OthersKeep DEF r
<1>14. WebGood(s, ts2, r, owner)
  <2>1. Connections(s, ts2)
    BY DEF ts2
  <2> QED
    BY <1>2, <1>3, <1>5, <1>11, <1>12, <1>13, <2>1 DEF WebGood, WebTypes, FreedIdle
<1> QED
  BY <1>14 DEF r, ts2

LEMMA TaskFreed ==
    ASSUME WebInv, eventQ # <<>>, Head(eventQ).f = "response", owner # "gone",
           NEW s \in SeedRecord, ~s.freed,
           s.active = IF task[Head(eventQ).t].code = 206 THEN seed.active - 1 ELSE seed.active,
           Connections(s, [task EXCEPT ![Head(eventQ).t] = NoTask])
    PROVE  WebGood(s, [task EXCEPT ![Head(eventQ).t] = NoTask], Tail(eventQ), owner)
<1>1. NoTask.counted = FALSE /\ NoTask.code = 0 /\ NoTask \in TaskRecord
  BY NoTaskType DEF NoTask
<1> QED
  BY <1>1, TaskAnswered

LEMMA ResponseStep ==
    ASSUME WebInv, eventQ # <<>>, eventQ' = Tail(eventQ), owner' = owner,
           Head(eventQ).f = "response", Response(Head(eventQ).t)
    PROVE  WebInv'
<1> DEFINE t == Head(eventQ).t
           k == task[t]
           r == Tail(eventQ)
           s == IF k.code = 206 THEN [seed EXCEPT !.active = @ - 1] ELSE seed
           freed == [task EXCEPT ![t] = NoTask]
           complete == k.done + (IF k.buf THEN 1 ELSE 0) = TaskBlocks
<1>1. /\ seed \in SeedRecord /\ task \in [SeedTasks -> TaskRecord] /\ eventQ \in Seq(WorkRecord)
      /\ \A i \in DOMAIN eventQ : EntryGood(task, eventQ, i)
  BY DEF WebInv, WebGood, WebTypes
<1>2. /\ t \in SeedTasks /\ r \in Seq(WorkRecord) /\ 1 \in DOMAIN eventQ /\ Head(eventQ) = eventQ[1]
      /\ \A i \in DOMAIN r : i + 1 \in DOMAIN eventQ /\ r[i] = eventQ[i + 1] /\ i + 1 > 1
      /\ \A i \in DOMAIN eventQ : i # 1 => \E h \in DOMAIN r : i = h + 1
      /\ \A i, j \in DOMAIN r : (i + 1 = j + 1 => i = j) /\ (j > i => j + 1 > i + 1)
  BY <1>1, RestOfQueue
<1>3. ~seed.freed
  BY DEF WebInv, WebGood, FreedIdle
<1>4. k.stage = "ended" /\ k \in TaskRecord
  BY <1>1, <1>2 DEF EntryGood
<1>5. /\ s \in SeedRecord /\ s.idle = seed.idle /\ s.tick = seed.tick /\ s.failures = seed.failures
      /\ ~s.freed /\ s.idle \in Nat
      /\ s.active = IF k.code = 206 THEN seed.active - 1 ELSE seed.active
  <2>1. seed.active - 1 \in Int
    BY <1>1 DEF SeedRecord
  <2>2. CASE k.code = 206
    BY <1>1, <1>3, <2>1, <2>2 DEF SeedRecord
  <2>3. CASE k.code # 206
    BY <1>1, <1>3, <2>3 DEF SeedRecord
  <2> QED
    BY <2>2, <2>3
<1>6. /\ Cardinality(TasksInUse(freed)) = Cardinality(TasksInUse(task)) - 1
      /\ Cardinality(TasksInUse(task)) \in Nat
      /\ freed \in [SeedTasks -> TaskRecord]
  <2>1. TasksInUse(freed) = TasksInUse(task) \ {t} /\ t \in TasksInUse(task)
    BY <1>1, <1>2, <1>4 DEF TasksInUse, NoTask
  <2>2. Cardinality(TasksInUse(task) \ {t}) = Cardinality(TasksInUse(task)) - 1
    BY <2>1, WebFinite, FS_RemoveElement
  <2> QED
    BY <1>1, <2>1, <2>2, WebFinite, NoTaskType
<1>8. CASE owner = "gone"
  <2>1. UNCHANGED <<seed, task>>
    BY <1>8 DEF Response
  <2>2. ASSUME NEW x \in SeedTasks PROVE TaskGood(task[x], x, r, owner)
    <3>1. TaskGood(task[x], x, eventQ, owner)
      BY DEF WebInv, WebGood
    <3>2. ASSUME NEW i \in DOMAIN eventQ, eventQ[i] = Work("succeeded", x)
          PROVE  \E h \in DOMAIN r : r[h] = Work("succeeded", x)
      <4>1. i # 1
        BY <1>2, <3>2 DEF Work
      <4>2. PICK h \in DOMAIN r : i = h + 1
        BY <1>2, <4>1
      <4> QED
        BY <1>2, <3>2, <4>2
    <3> QED
      BY <1>8, <3>1, <3>2 DEF TaskGood
  <2>3. ASSUME NEW i \in DOMAIN r PROVE EntryGood(task, r, i)
    <3>1. EntryGood(task, eventQ, i + 1) /\ r[i] = eventQ[i + 1] /\ i + 1 \in DOMAIN eventQ
      BY <1>1, <1>2
    <3>2. \A j \in DOMAIN r : /\ j > i => r[j].t = eventQ[j + 1].t /\ j + 1 \in DOMAIN eventQ /\ j + 1 > i + 1
                              /\ r[j] = r[i] => eventQ[j + 1] = eventQ[i + 1] /\ j + 1 \in DOMAIN eventQ
                              /\ j + 1 = i + 1 => j = i
      BY <1>2, <3>1
    <3> QED
      BY <3>1, <3>2 DEF EntryGood
  <2> QED
    BY <1>1, <1>2, <1>3, <2>1, <2>2, <2>3 DEF WebInv, WebGood, WebTypes, FreedIdle
<1>9. CASE owner # "gone" /\ k.final # 206
  <2>1. seed' = Failed(k, s) /\ task' = freed
    BY <1>9 DEF Response
  <2> HIDE DEF k, s, freed
  <2>2. /\ seed' \in SeedRecord /\ seed'.active = s.active /\ seed'.freed = s.freed
        /\ \/ seed'.idle = s.idle + 1 /\ seed'.tick = s.tick /\ seed'.failures = s.failures
           \/ /\ seed'.idle = s.idle
              /\ seed'.tick # "none" => IsFailing(seed')
    <3>1. CASE k.done > 0
      <4>1. seed' = [s EXCEPT !.idle = s.idle + 1] /\ s.idle + 1 \in Nat
        BY <1>5, <2>1, <3>1 DEF Failed
      <4> QED
        BY <1>5, <4>1 DEF SeedRecord
    <3>2. CASE ~(k.done > 0)
      <4> DEFINE n == IF IsFailing(s) THEN s.failures ELSE s.failures + 1
                 d == IF s.failures + 1 >= MaxFailures /\ s.tick = "none" THEN "counting" ELSE s.tick
      <4>1. seed' = [s EXCEPT !.failures = n, !.tick = d]
        BY <2>1, <3>2 DEF Failed
      <4>2. s.failures \in 0..MaxFailures /\ MaxFailures \in Nat /\ s.tick \in Ticks
        BY <1>5, WebAssumption DEF SeedRecord
      <4>3. n \in 0..MaxFailures /\ d \in Ticks
        BY <4>2 DEF IsFailing, Ticks
      <4>4. d # "none" => n >= MaxFailures
        <5>1. s.tick # "none" => s.failures >= MaxFailures
          BY <1>5 DEF WebInv, WebGood, Connections, IsFailing
        <5> QED
          BY <4>2, <5>1 DEF IsFailing
      <4> HIDE DEF n, d
      <4>5. seed' \in SeedRecord /\ seed'.active = s.active /\ seed'.freed = s.freed /\ seed'.idle = s.idle
        BY <1>5, <4>1, <4>3 DEF SeedRecord
      <4>6. seed'.failures = n /\ seed'.tick = d
        BY <1>5, <4>1 DEF SeedRecord
      <4> QED
        BY <4>4, <4>5, <4>6 DEF IsFailing
    <3> QED
      BY <3>1, <3>2
  <2>3. Connections(seed', freed)
    <3>1. /\ Cardinality(TasksInUse(task)) + s.idle <= MaxConnections
          /\ s.tick # "none" => IsFailing(s) /\ Cardinality(TasksInUse(task)) + s.idle < MaxConnections
          /\ MaxConnections \in Nat
      BY <1>5, WebAssumption DEF WebInv, WebGood, Connections, IsFailing
    <3> QED
      BY <1>5, <1>6, <2>2, <3>1 DEF Connections, IsFailing
  <2>4. WebGood(seed', freed, r, owner)
    BY <1>5, <1>9, <2>2, <2>3, TaskFreed, ZenonT(60) DEF freed, k
  <2> QED
    BY <2>1, <2>4 DEF WebInv
<1>10. CASE owner # "gone" /\ k.final = 206 /\ ~complete
  <2> DEFINE k2 == Requested([k EXCEPT !.counted = FALSE])
  <2>1. seed' = s /\ task' = [task EXCEPT ![t] = k2]
    BY <1>10 DEF Response
  <2>2. /\ [k EXCEPT !.counted = FALSE] \in TaskRecord
        /\ [k EXCEPT !.counted = FALSE].counted = FALSE
        /\ [k EXCEPT !.counted = FALSE].written = k.written
        /\ [k EXCEPT !.counted = FALSE].done = k.done
    BY <1>4 DEF TaskRecord
  <2>3. /\ k2 \in TaskRecord /\ k2.counted = FALSE /\ k2.code = 0
        /\ k2.stage # "free" /\ k2.written = k.written /\ k2.done = k.done
    BY <2>2, RequestedTask
  <2> HIDE DEF k2
  <2>4. TasksInUse([task EXCEPT ![t] = k2]) = TasksInUse(task)
    BY <1>1, <1>2, <1>4, <2>3 DEF TasksInUse
  <2> HIDE DEF s
  <2>5. Connections(s, [task EXCEPT ![t] = k2])
    BY <1>5, <2>4 DEF Connections, IsFailing, WebInv, WebGood
  <2>6. WebGood(s, [task EXCEPT ![t] = k2], r, owner)
    BY <1>5, <1>10, <2>3, <2>5, TaskAnswered
  <2> QED
    BY <2>1, <2>6 DEF WebInv
<1>11. CASE owner # "gone" /\ k.final = 206 /\ complete
  <2> DEFINE s3 == [s EXCEPT !.idle = @ + 1]
  <2>1. OnIdle(s3, freed)
    BY <1>11 DEF Response
  <2> HIDE DEF s
  <2>2. /\ s3 \in SeedRecord /\ s3.active = s.active /\ ~s3.freed /\ s3.tick = s.tick
        /\ s3.failures = s.failures /\ s3.idle = s.idle + 1
    <3>1. s.idle + 1 \in Nat
      BY <1>5
    <3> QED
      BY <1>5, <3>1 DEF SeedRecord
  <2> HIDE DEF s3
  <2>3. Connections(s3, freed)
    <3>1. /\ Cardinality(TasksInUse(task)) + s.idle <= MaxConnections
          /\ s.tick # "none" => IsFailing(s) /\ Cardinality(TasksInUse(task)) + s.idle < MaxConnections
          /\ MaxConnections \in Nat
      BY <1>5, WebAssumption DEF WebInv, WebGood, Connections, IsFailing
    <3> HIDE DEF freed
    <3> QED
      BY <1>5, <1>6, <2>2, <3>1 DEF Connections, IsFailing
  <2>4. WebGood(s3, freed, r, owner)
    BY <1>5, <1>11, <2>2, <2>3, TaskFreed, ZenonT(60)
  <2> HIDE DEF freed
  <2> QED
    BY <2>1, <2>2, <2>4, OnIdleStep
<1> QED
  BY <1>8, <1>9, <1>10, <1>11

LEMMA EventThreadStep == WebInv /\ EventThread => WebInv'
<1> SUFFICES ASSUME WebInv, EventThread PROVE WebInv'
  OBVIOUS
<1>1. eventQ # <<>> /\ eventQ' = Tail(eventQ) /\ owner' = owner
  BY DEF EventThread
<1>2. Head(eventQ).f \in {"succeeded", "write", "response"}
  BY <1>1, RestOfQueue DEF WebInv, WebGood, WebTypes
<1>3. CASE Head(eventQ).f = "succeeded"
  BY <1>1, <1>3, SucceededStep DEF EventThread
<1>4. CASE Head(eventQ).f = "write"
  BY <1>1, <1>4, WriteBlockStep DEF EventThread
<1>5. CASE Head(eventQ).f = "response"
  BY <1>1, <1>5, ResponseStep DEF EventThread
<1> QED
  BY <1>2, <1>3, <1>4, <1>5

LEMMA FreeSeedStep == WebInv /\ FreeSeed => WebInv'
<1> SUFFICES ASSUME WebInv, FreeSeed PROVE WebInv'
  OBVIOUS
<1>1. /\ seed' = IF InUseTasks # {} THEN [seed EXCEPT !.stopping = TRUE] ELSE [seed EXCEPT !.freed = TRUE]
      /\ owner' \in {owner, "gone"} /\ task' = task /\ eventQ' = eventQ /\ ~seed.freed
  BY DEF FreeSeed
<1>2. seed \in SeedRecord /\ eventQ \in Seq(WorkRecord)
  BY DEF WebInv, WebGood, WebTypes
<1>3. /\ seed' \in SeedRecord /\ seed'.idle = seed.idle /\ seed'.tick = seed.tick
      /\ seed'.active = seed.active /\ seed'.failures = seed.failures
  BY <1>1, <1>2 DEF SeedRecord
<1>4. TasksInUse(task) = InUseTasks
  BY DEF TasksInUse, InUseTasks
<1>5. InUseTasks # {} => ~seed'.freed
  BY <1>1, <1>2 DEF SeedRecord
<1>6. InUseTasks = {} => eventQ = <<>>
  <2> SUFFICES ASSUME eventQ # <<>> PROVE InUseTasks # {}
    OBVIOUS
  <2>1. 1 \in DOMAIN eventQ /\ eventQ[1].t \in SeedTasks
    BY <1>2, RestOfQueue
  <2>2. eventQ[1].t \in InUseTasks
    BY <2>1 DEF WebInv, WebGood, EntryGood, InUseTasks
  <2> QED
    BY <2>2
<1>7. \A t \in SeedTasks : TaskGood(task[t], t, eventQ, owner')
  BY <1>1 DEF WebInv, WebGood, TaskGood
<1> QED
  BY <1>1, <1>3, <1>4, <1>5, <1>6, <1>7
  DEF WebInv, WebGood, WebTypes, Connections, ActiveCounted, FreedIdle, IsFailing

LEMMA WebStep == WebInv /\ [WebNext]_webVars => WebInv'
<1> SUFFICES ASSUME WebInv, [WebNext]_webVars PROVE WebInv'
  OBVIOUS
<1>1. CASE TorrentStops
  <2>1. UNCHANGED <<seed, task, eventQ>> /\ owner # "gone"
    BY <1>1 DEF TorrentStops
  <2> QED
    BY <2>1 DEF WebInv, WebGood, TaskGood
<1>2. CASE WebStarts \/ WebClose
  BY <1>2 DEF WebStarts, WebClose, WebInv
<1>3. CASE UNCHANGED webVars
  BY <1>3 DEF webVars, WebInv
<1> QED
  BY <1>1, <1>2, <1>3, SeedTimerStep, FreeSeedStep, WebAddStep, EventThreadStep, WebDataStep,
     WebDoneStep DEF WebNext

\* Whichever thread is ahead and whatever fails: no more connections than
\* allowed, every block written once, and nothing left for a freed seed.
THEOREM Webseed == WebSpec => [](WebTypeOK /\ WebseedSound)
<1>1. WebInit => WebInv
  BY WebInitInv
<1>2. WebInv /\ [WebNext]_webVars => WebInv'
  BY WebStep
<1>3. WebInv => WebTypeOK /\ WebseedSound
  BY WebInvSound
<1> QED
  BY <1>1, <1>2, <1>3, PTL DEF WebSpec

-----------------------------------------------------------------------------
(* Peers without trackers *)
Activities == [doing : {"stopped", "download", "seed"}, allows : BOOLEAN]
DhtRecords == [on : BOOLEAN, inits : Nat, status : [Families -> 1..GOOD],
               file : [Families -> 0..DhtNodes]]

\* A torrent that has waited k upkeeps has seen the announces of k others, and
\* none of these is due again before an interval is over.
Overtaken(t) == \E S \in SUBSET (LpdTorrents \ {t}) :
    /\ Cardinality(S) = lpd[t].late
    /\ \A x \in S : lpd[x].at + lpd[t].late >= LpdInterval
TurnsTaken == Cardinality(LpdTorrents) <= LpdInterval => \A t \in LpdTorrents : Overtaken(t)

DiscoveryInv ==
    /\ lpd \in [LpdTorrents -> [at : 0..(2 * LpdInterval), late : Nat]]
    /\ activity \in [LpdTorrents -> Activities]
    /\ quota \in 0..LpdCap /\ learned \subseteq LpdTorrents
    /\ dht \in DhtRecords
    /\ PrivateKept
    /\ TurnsTaken

\* What a torrent waited is less than the number of torrents.
LEMMA DiscoveryInvSound == DiscoveryInv => DiscoveryTypeOK /\ LpdFair /\ PrivateKept
<1> SUFFICES ASSUME DiscoveryInv PROVE DiscoveryTypeOK /\ LpdFair /\ PrivateKept
  OBVIOUS
<1>1. DiscoveryTypeOK
  BY DEF DiscoveryInv, DiscoveryTypeOK, DhtRecords
<1>2. LpdFair
  <2> SUFFICES ASSUME Cardinality(LpdTorrents) <= LpdInterval, NEW t \in LpdTorrents
               PROVE  lpd[t].late < Cardinality(LpdTorrents)
    BY DEF LpdFair
  <2>1. PICK S \in SUBSET (LpdTorrents \ {t}) : Cardinality(S) = lpd[t].late
    BY DEF DiscoveryInv, TurnsTaken, Overtaken
  <2>2. /\ IsFiniteSet(LpdTorrents \ {t})
        /\ Cardinality(LpdTorrents \ {t}) = Cardinality(LpdTorrents) - 1
    BY FS_RemoveElement, DiscoveryAssumption
  <2>3. Cardinality(S) <= Cardinality(LpdTorrents \ {t})
    BY <2>1, <2>2, FS_Subset
  <2>4. Cardinality(LpdTorrents) \in Nat /\ lpd[t].late \in Nat
    BY FS_CardinalityType, DiscoveryAssumption DEF DiscoveryInv
  <2> QED
    BY <2>1, <2>2, <2>3, <2>4
<1> QED
  BY <1>1, <1>2 DEF DiscoveryInv

LEMMA DiscoveryInitInv == DiscoveryInit => DiscoveryInv
<1> SUFFICES ASSUME DiscoveryInit PROVE DiscoveryInv
  OBVIOUS
<1>1. lpd = [t \in LpdTorrents |-> [at |-> 0, late |-> 0]] /\ LpdInterval \in Nat
  BY DiscoveryAssumption DEF DiscoveryInit
<1>2. lpd \in [LpdTorrents -> [at : 0..(2 * LpdInterval), late : Nat]]
  BY <1>1
<1>3. activity \in [LpdTorrents -> Activities]
  BY DEF DiscoveryInit, Activities
<1>4. quota \in 0..LpdCap /\ learned = {}
  BY DiscoveryAssumption DEF DiscoveryInit
<1>5. dht \in DhtRecords
  <2>1. BROKEN \in 1..GOOD /\ DhtNodes \in 0..DhtNodes
    BY DiscoveryAssumption DEF BROKEN, GOOD
  <2> QED
    BY <2>1 DEF DiscoveryInit, DhtRecords
<1>6. ASSUME NEW t \in LpdTorrents PROVE Overtaken(t)
  <2>1. Cardinality({}) = lpd[t].late
    BY <1>1, FS_EmptySet
  <2> QED
    BY <2>1 DEF Overtaken
<1> QED
  BY <1>2, <1>3, <1>4, <1>5, <1>6 DEF DiscoveryInv, PrivateKept, TurnsTaken

\* The turn that an upkeep gives to the first of those that are due.
LEMMA TurnTaken ==
    ASSUME DiscoveryInv, LpdUpkeep, Cardinality(LpdTorrents) <= LpdInterval,
           NEW t \in LpdTorrents
    PROVE  Overtaken(t)'
<1> DEFINE due == {x \in LpdTorrents : LpdReady(x) /\ lpd[x].at = 0}
           chosen == IF due = {} THEN {} ELSE {Min(due)}
           waits(x) == IF x \in chosen THEN NextAnnounce(x) ELSE lpd[x].at
<1>1. lpd' = [x \in LpdTorrents |->
                [at |-> IF waits(x) > 0 THEN waits(x) - 1 ELSE 0,
                 late |-> IF x \in due \ chosen THEN lpd[x].late + 1 ELSE 0]]
  BY DEF LpdUpkeep
<1>2. CASE t \notin due \ chosen
  <2>1. Cardinality({}) = lpd'[t].late
    BY <1>1, <1>2, FS_EmptySet
  <2> QED
    BY <2>1 DEF Overtaken
<1>3. CASE t \in due \ chosen
  <2>1. due # {} /\ due \subseteq Nat
    BY <1>3, DiscoveryAssumption
  <2>2. PICK c \in due : c = Min(due)
    <3>1. \E x \in due : \A y \in due : x <= y
      BY <2>1, LeastNat
    <3> QED
      BY <3>1 DEF Min
  <2>3. chosen = {c} /\ c # t /\ c \in LpdTorrents /\ lpd[c].at = 0
    BY <2>1, <2>2, <1>3
  <2>4. NextAnnounce(c) >= LpdInterval /\ NextAnnounce(c) \in Nat /\ LpdInterval \in Nat
    <3>1. Priority(c) \in {1, 2} /\ LpdInterval \in Nat
      BY <2>2, DiscoveryAssumption DEF LpdReady, Priority
    <3>2. NextAnnounce(c) = LpdInterval * 1 \/ NextAnnounce(c) = LpdInterval * 2
      BY <3>1 DEF NextAnnounce
    <3> QED
      BY <3>1, <3>2
  <2>5. PICK S \in SUBSET (LpdTorrents \ {t}) :
           /\ Cardinality(S) = lpd[t].late
           /\ \A x \in S : lpd[x].at + lpd[t].late >= LpdInterval
    BY DEF DiscoveryInv, TurnsTaken, Overtaken
  <2>6. /\ \A x \in LpdTorrents : lpd[x].at \in Nat /\ lpd[x].late \in Nat
        /\ lpd[t].late < LpdInterval
    <3>1. lpd[t].late < Cardinality(LpdTorrents) /\ Cardinality(LpdTorrents) \in Nat
      BY DiscoveryInvSound, FS_CardinalityType, DiscoveryAssumption DEF LpdFair
    <3>2. \A x \in LpdTorrents : lpd[x].at \in 0..(2 * LpdInterval) /\ lpd[x].late \in Nat
      BY DEF DiscoveryInv
    <3> QED
      BY <3>1, <3>2, <2>4
  <2>7. c \notin S /\ \A x \in S : lpd[x].at > 0
    BY <2>3, <2>4, <2>5, <2>6
  <2>8. IsFiniteSet(S) /\ Cardinality(S \cup {c}) = Cardinality(S) + 1
    BY <2>5, <2>7, FS_Subset, FS_AddElement, DiscoveryAssumption
  <2>9. lpd'[t].late = lpd[t].late + 1
    BY <1>1, <1>3
  <2>10. \A x \in S : lpd'[x].at = lpd[x].at - 1
    BY <1>1, <2>3, <2>5, <2>6, <2>7
  <2>11. lpd'[c].at = IF NextAnnounce(c) > 0 THEN NextAnnounce(c) - 1 ELSE 0
    BY <1>1, <2>3
  <2> HIDE DEF due, chosen, waits
  <2>12. \A x \in S \cup {c} : lpd'[x].at + lpd'[t].late >= LpdInterval
    BY <2>4, <2>5, <2>6, <2>9, <2>10, <2>11
  <2>13. S \cup {c} \in SUBSET (LpdTorrents \ {t})
    BY <2>3, <2>5
  <2>14. Cardinality(S \cup {c}) = lpd'[t].late
    BY <2>5, <2>8, <2>9
  <2> QED
    BY <2>12, <2>13, <2>14 DEF Overtaken
<1> QED
  BY <1>2, <1>3

LEMMA LpdUpkeepStep == DiscoveryInv /\ LpdUpkeep => DiscoveryInv'
<1> SUFFICES ASSUME DiscoveryInv, LpdUpkeep PROVE DiscoveryInv'
  OBVIOUS
<1>1. TurnsTaken'
  BY TurnTaken DEF TurnsTaken
<1>2. lpd' \in [LpdTorrents -> [at : 0..(2 * LpdInterval), late : Nat]]
  <2> DEFINE due == {x \in LpdTorrents : LpdReady(x) /\ lpd[x].at = 0}
             chosen == IF due = {} THEN {} ELSE {Min(due)}
             waits(x) == IF x \in chosen THEN NextAnnounce(x) ELSE lpd[x].at
  <2>1. lpd' = [x \in LpdTorrents |->
                  [at |-> IF waits(x) > 0 THEN waits(x) - 1 ELSE 0,
                   late |-> IF x \in due \ chosen THEN lpd[x].late + 1 ELSE 0]]
    BY DEF LpdUpkeep
  <2>2. ASSUME NEW x \in LpdTorrents PROVE waits(x) \in 0..(2 * LpdInterval)
    <3>1. LpdInterval \in Nat /\ Priority(x) \in {0, 1, 2}
      BY DiscoveryAssumption DEF Priority
    <3>2. NextAnnounce(x) \in {LpdInterval * 0, LpdInterval * 1, LpdInterval * 2}
      BY <3>1 DEF NextAnnounce
    <3>3. NextAnnounce(x) \in 0..(2 * LpdInterval)
      BY <3>1, <3>2
    <3>4. lpd[x].at \in 0..(2 * LpdInterval)
      BY DEF DiscoveryInv
    <3> QED
      BY <3>3, <3>4
  <2>3. \A x \in LpdTorrents : lpd[x].late \in Nat
    BY DEF DiscoveryInv
  <2> HIDE DEF due, chosen, waits
  <2>4. ASSUME NEW x \in LpdTorrents
        PROVE  (IF waits(x) > 0 THEN waits(x) - 1 ELSE 0) \in 0..(2 * LpdInterval)
    BY <2>2, DiscoveryAssumption
  <2> QED
    BY <2>1, <2>3, <2>4
<1>3. quota' \in 0..LpdCap
  BY DiscoveryAssumption DEF LpdUpkeep
<1> QED
  BY <1>1, <1>2, <1>3 DEF LpdUpkeep, DiscoveryInv, PrivateKept, dhtVars

LEMMA ChangeActivityStep ==
    ASSUME DiscoveryInv, NEW t \in LpdTorrents, NEW d \in {"stopped", "download", "seed"},
           ChangeActivity(t, d)
    PROVE  DiscoveryInv'
<1>1. activity' = [activity EXCEPT ![t].doing = d]
  BY DEF ChangeActivity
<1>2. /\ activity' \in [LpdTorrents -> Activities]
      /\ \A x \in LpdTorrents : activity'[x].allows = activity[x].allows
  BY <1>1 DEF DiscoveryInv, Activities
<1>3. PrivateKept'
  BY <1>2 DEF ChangeActivity, DiscoveryInv, PrivateKept
<1>4. CASE lpd' = lpd
  BY <1>2, <1>3, <1>4 DEF ChangeActivity, DiscoveryInv, TurnsTaken, Overtaken
<1>5. CASE lpd' = [x \in LpdTorrents |-> [at |-> IF x = t THEN 0 ELSE lpd[x].at, late |-> 0]]
  <2>1. lpd' \in [LpdTorrents -> [at : 0..(2 * LpdInterval), late : Nat]]
    BY <1>5, DiscoveryAssumption DEF DiscoveryInv
  <2>2. ASSUME NEW x \in LpdTorrents PROVE Overtaken(x)'
    <3>1. Cardinality({}) = lpd'[x].late
      BY <1>5, FS_EmptySet
    <3> QED
      BY <3>1 DEF Overtaken
  <2> QED
    BY <1>2, <1>3, <2>1, <2>2 DEF ChangeActivity, DiscoveryInv, TurnsTaken
<1> QED
  BY <1>4, <1>5 DEF ChangeActivity

\* What happens to the DHT leaves the torrents' turns alone.
LEMMA DhtKeeps ==
    ASSUME DiscoveryInv, dht' \in DhtRecords, UNCHANGED lpdVars
    PROVE  DiscoveryInv'
BY DEF DiscoveryInv, PrivateKept, TurnsTaken, Overtaken, lpdVars

LEMMA DiscoveryStep == DiscoveryInv /\ [DiscoveryNext]_<<lpdVars, dhtVars>> => DiscoveryInv'
<1> SUFFICES ASSUME DiscoveryInv, [DiscoveryNext]_<<lpdVars, dhtVars>> PROVE DiscoveryInv'
  OBVIOUS
<1>1. dht \in DhtRecords
  BY DEF DiscoveryInv
<1>2. ASSUME NEW m \in Datagrams, NEW t \in LpdTorrents, LpdReceive(m, t) PROVE DiscoveryInv'
  <2>1. quota' \in 0..LpdCap
    BY <1>2, DiscoveryAssumption DEF LpdReceive, Heard, DiscoveryInv
  <2> QED
    BY <1>2, <2>1 DEF LpdReceive, DiscoveryInv, PrivateKept, TurnsTaken, Overtaken, dhtVars
<1>3. ASSUME NEW t \in LpdTorrents, NEW f \in Families, DhtValues(t, f) PROVE DiscoveryInv'
  BY <1>3 DEF DhtValues, DiscoveryInv, PrivateKept, TurnsTaken, Overtaken, dhtVars
<1>4. CASE DhtInit
  <2>1. [f \in Families |-> BROKEN] \in [Families -> 1..GOOD] /\ dht.inits + 1 \in Nat
    BY <1>1 DEF BROKEN, GOOD, DhtRecords
  <2>2. dht' \in DhtRecords
    BY <1>1, <1>4, <2>1 DEF DhtInit, DhtRecords
  <2> QED
    BY <1>4, <2>2, DhtKeeps DEF DhtInit
<1>5. ASSUME NEW found \in [Families -> 0..DhtNodes], DhtUninit(found) PROVE DiscoveryInv'
  <2>1. dht' \in DhtRecords
    BY <1>1, <1>5 DEF DhtUninit, DhtRecords
  <2> QED
    BY <1>5, <2>1, DhtKeeps DEF DhtUninit
<1>6. ASSUME NEW f \in Families, NEW s \in 1..GOOD, DhtPeriodic(f, s) PROVE DiscoveryInv'
  <2>1. dht' \in DhtRecords
    BY <1>1, <1>6 DEF DhtPeriodic, DhtRecords
  <2> QED
    BY <1>6, <2>1, DhtKeeps DEF DhtPeriodic
<1>7. ASSUME \/ \E b \in boots : Bootstrap(b)
             \/ \E t \in LpdTorrents, f \in Families :
                  DhtDue(t, f) \/ \E starts \in BOOLEAN : DhtAnnounce(t, f, starts)
      PROVE  DiscoveryInv'
  BY <1>1, <1>7, DhtKeeps DEF Bootstrap, DhtDue, DhtAnnounce
<1>8. CASE UNCHANGED <<lpdVars, dhtVars>>
  BY <1>1, <1>8, DhtKeeps DEF dhtVars
<1> QED
  BY <1>2, <1>3, <1>4, <1>5, <1>6, <1>7, <1>8, LpdUpkeepStep, ChangeActivityStep DEF DiscoveryNext

\* However torrents start, stop and complete, every one announces itself before
\* another does twice, and a private one learns of no peer.
THEOREM PeersWithoutTrackers == DiscoverySpec => [](LpdFair /\ PrivateKept)
<1>1. DiscoveryInit => DiscoveryInv
  BY DiscoveryInitInv
<1>2. DiscoveryInv /\ [DiscoveryNext]_<<lpdVars, dhtVars>> => DiscoveryInv'
  BY DiscoveryStep
<1>3. DiscoveryInv => LpdFair /\ PrivateKept
  BY DiscoveryInvSound
<1> QED
  BY <1>1, <1>2, <1>3, PTL DEF DiscoverySpec

-----------------------------------------------------------------------------
(***************************************************************************)
(* The swarm keeps its atoms, and no more upload slots than there are, for  *)
(* every set of addresses and every limit.  Handshakes, strikes, culls,     *)
(* pulses and restarts come in any order; the invariant is about the        *)
(* torrent s and the peers r that were interested at the last rechoke, so   *)
(* that it can be followed through the middle of an action.                 *)
(***************************************************************************)
Answers == {"unknown", "yes", "no"}
AtomRecord == [seed : BOOLEAN, banned : BOOLEAN, listed : Answers]
ConnRecord == [choked : BOOLEAN, they : BOOLEAN, we : BOOLEAN, purge : BOOLEAN,
               strikes : Nat, blamed : BOOLEAN]
Optimists == Addrs \cup {Nobody, Gone}
SwarmRecord == [pool : SUBSET Addrs, atom : [Addrs -> AtomRecord], peers : SUBSET Addrs,
                conn : [Addrs -> ConnRecord], outgoing : SUBSET Addrs, optimistic : Optimists,
                scaler : Nat, running : BOOLEAN, seeding : BOOLEAN]

\* Interested at the last rechoke and unchoked, besides the optimistic one.
Served(s, r) == {a \in r \cap s.peers : ~s.conn[a].choked /\ a # s.optimistic}

SwarmGood(s, r) ==
    /\ s \in SwarmRecord
    /\ s.peers \cup s.outgoing \subseteq s.pool
    /\ \A a \in s.peers : s.atom[a].banned => s.conn[a].purge
    /\ ~s.running => s.peers \cup s.outgoing = {}
    /\ s.seeding => \A a \in s.peers : ~s.conn[a].we
    /\ Cardinality(Served(s, r)) <= UploadSlots

SwarmInv ==
    /\ SwarmGood(swarm, rated)
    /\ incoming \cup blocked \cup rated \cup remembered \subseteq Addrs

LEMMA SwarmInvSound == SwarmInv => AtomsKept /\ SlotsKept
<1> SUFFICES ASSUME SwarmInv PROVE AtomsKept /\ SlotsKept
  OBVIOUS
<1>1. /\ swarm.pool \subseteq Addrs /\ swarm.peers \subseteq Addrs /\ swarm.outgoing \subseteq Addrs
      /\ swarm.optimistic \in Addrs \cup {Nobody, Gone} /\ swarm.scaler \in Nat
      /\ swarm.running \in BOOLEAN /\ swarm.seeding \in BOOLEAN
  BY DEF SwarmInv, SwarmGood, SwarmRecord, Optimists
<1>2. SwarmTypeOK
  BY <1>1 DEF SwarmTypeOK, SwarmInv
<1>3. Served(swarm, rated)
        = {a \in rated \cap swarm.peers : ~swarm.conn[a].choked /\ a # swarm.optimistic}
  BY DEF Served
<1> QED
  BY <1>2, <1>3 DEF SwarmInv, SwarmGood, AtomsKept, SlotsKept

\* What keeps the slots: nobody is served that was not before.
LEMMA ServedShrinks ==
    ASSUME NEW S \in SUBSET Addrs, Cardinality(S) <= UploadSlots, NEW T \in SUBSET S
    PROVE  Cardinality(T) <= UploadSlots
<1>1. IsFiniteSet(S)
  BY SwarmAssumption, FS_Subset
<1>2. /\ IsFiniteSet(T) /\ Cardinality(T) <= Cardinality(S)
      /\ Cardinality(T) \in Nat /\ Cardinality(S) \in Nat /\ UploadSlots \in Nat
  BY <1>1, FS_Subset, FS_CardinalityType, SwarmAssumption
<1> QED
  BY <1>2

LEMMA NewTypes == /\ \A b \in BOOLEAN : NewAtom(b) \in AtomRecord /\ NewAtom(b).banned = FALSE
                  /\ NoConn \in ConnRecord /\ NoConn.choked = TRUE /\ NoConn.we = FALSE
<1>1. "unknown" \in Answers
  BY DEF Answers
<1>2. \A b \in BOOLEAN : NewAtom(b) \in AtomRecord /\ NewAtom(b).banned = FALSE
  BY <1>1 DEF NewAtom, AtomRecord
<1>3. NoConn \in ConnRecord /\ NoConn.choked = TRUE /\ NoConn.we = FALSE
  BY DEF NoConn, ConnRecord
<1> QED
  BY <1>2, <1>3

\* The fields of a well-formed torrent.
LEMMA SwarmFields ==
    ASSUME NEW s \in SwarmRecord
    PROVE  /\ s.pool \in SUBSET Addrs /\ s.atom \in [Addrs -> AtomRecord] /\ s.peers \in SUBSET Addrs
           /\ s.conn \in [Addrs -> ConnRecord] /\ s.outgoing \in SUBSET Addrs /\ s.optimistic \in Optimists
           /\ s.scaler \in Nat /\ s.running \in BOOLEAN /\ s.seeding \in BOOLEAN
BY DEF SwarmRecord

\* A torrent t that differs from s as an action's does keeps the invariant: the general
\* step, on the fields.
LEMMA SwarmKept ==
    ASSUME NEW r, NEW s, SwarmGood(s, r), NEW t \in SwarmRecord,
           t.peers \subseteq s.peers, t.outgoing \subseteq s.outgoing, t.peers \cup t.outgoing \subseteq t.pool,
           t.running = s.running \/ t.running = TRUE \/ t.peers \cup t.outgoing = {},
           t.optimistic = s.optimistic \/ s.optimistic \notin t.peers,
           \A a \in t.peers :
               /\ t.atom[a].banned => s.atom[a].banned \/ t.conn[a].purge
               /\ s.conn[a].purge => t.conn[a].purge
               /\ t.conn[a].choked = s.conn[a].choked
               /\ t.seeding => ~t.conn[a].we
    PROVE  SwarmGood(t, r)
<1>1. Served(t, r) \subseteq Served(s, r) /\ Served(s, r) \subseteq Addrs
  BY SwarmFields DEF Served, SwarmGood
<1>2. Cardinality(Served(t, r)) <= UploadSlots
  BY <1>1, ServedShrinks DEF SwarmGood
<1> QED
  BY <1>2 DEF SwarmGood
LEMMA EnsureKeeps ==
    ASSUME NEW r, NEW s, SwarmGood(s, r), NEW a \in Addrs, NEW b \in BOOLEAN
    PROVE  /\ SwarmGood(EnsureAtom(s, a, b), r)
           /\ a \in EnsureAtom(s, a, b).pool
           /\ EnsureAtom(s, a, b).running = s.running /\ EnsureAtom(s, a, b).peers = s.peers
<1> DEFINE t == EnsureAtom(s, a, b)
<1>1. s \in SwarmRecord
  BY DEF SwarmGood
<1>2. CASE a \notin s.pool
  <2> DEFINE x == NewAtom(b)
             p == s.pool \cup {a}
  <2>1. x \in AtomRecord /\ p \in SUBSET Addrs /\ a \notin s.peers
    BY <1>1, <1>2, NewTypes, SwarmFields DEF SwarmGood
  <2>2. t = [s EXCEPT !.pool = p, !.atom[a] = x]
    BY <1>2 DEF EnsureAtom
  <2> HIDE DEF x, t, p
  <2>3. t \in SwarmRecord
    BY <1>1, <2>1, <2>2 DEF SwarmRecord
  <2>4. /\ t.peers = s.peers /\ t.outgoing = s.outgoing /\ t.pool = p /\ t.running = s.running
        /\ t.optimistic = s.optimistic /\ t.conn = s.conn /\ t.seeding = s.seeding
        /\ t.atom = [s.atom EXCEPT ![a] = x]
    BY <1>1, <2>2 DEF SwarmRecord
  <2>5. \A y \in t.peers : t.atom[y] = s.atom[y]
    BY <1>1, <2>1, <2>4, SwarmFields
  <2>6. SwarmGood(t, r)
    BY <2>3, <2>4, <2>5, SwarmKept DEF SwarmGood, p
  <2> QED
    BY <2>4, <2>6 DEF t, p
<1>3. CASE a \in s.pool
  <2> DEFINE x == s.atom[a].seed \/ b
  <2>1. x \in BOOLEAN
    OBVIOUS
  <2>2. t = [s EXCEPT !.atom[a].seed = x]
    BY <1>3 DEF EnsureAtom
  <2> HIDE DEF x, t
  <2>3. t \in SwarmRecord
    BY <1>1, <2>1, <2>2, ZenonT(60) DEF SwarmRecord, AtomRecord
  <2>4. /\ t.peers = s.peers /\ t.outgoing = s.outgoing /\ t.pool = s.pool /\ t.running = s.running
        /\ t.optimistic = s.optimistic /\ t.conn = s.conn /\ t.seeding = s.seeding
        /\ t.atom = [s.atom EXCEPT ![a].seed = x]
    BY <1>1, <2>2 DEF SwarmRecord
  <2>5. \A y \in t.peers : t.atom[y].banned = s.atom[y].banned
    BY <1>1, <2>4, SwarmFields DEF AtomRecord
  <2>6. SwarmGood(t, r)
    BY <2>3, <2>4, <2>5, SwarmKept DEF SwarmGood
  <2> QED
    BY <1>3, <2>4, <2>6 DEF t
<1> QED
  BY <1>2, <1>3

LEMMA RemoveKeeps ==
    ASSUME NEW r, NEW s, SwarmGood(s, r), NEW S
    PROVE  /\ SwarmGood(RemovePeers(s, S), r)
           /\ RemovePeers(s, S).peers = s.peers \ S /\ RemovePeers(s, S).outgoing = s.outgoing
           /\ RemovePeers(s, S).running = s.running /\ RemovePeers(s, S).seeding = s.seeding
<1> DEFINE t == RemovePeers(s, S)
           p == s.peers \ S
           c == [a \in Addrs |-> IF a \in S THEN NoConn ELSE s.conn[a]]
           o == IF s.optimistic \in S THEN Gone ELSE s.optimistic
<1>1. s \in SwarmRecord
  BY DEF SwarmGood
<1>2. p \in SUBSET Addrs /\ c \in [Addrs -> ConnRecord] /\ o \in Optimists
  BY <1>1, SwarmFields, NewTypes DEF Optimists
<1>3. t = [s EXCEPT !.peers = p, !.conn = c, !.optimistic = o]
  BY DEF RemovePeers
<1>4. /\ p \subseteq s.peers /\ \A a \in p : c[a] = s.conn[a]
      /\ o = s.optimistic \/ s.optimistic \notin p
  BY <1>1, SwarmFields
<1> HIDE DEF t, p, c, o
<1>5. t \in SwarmRecord
  BY <1>1, <1>2, <1>3 DEF SwarmRecord
<1>6. /\ t.peers = p /\ t.outgoing = s.outgoing /\ t.pool = s.pool /\ t.running = s.running
      /\ t.optimistic = o /\ t.conn = c /\ t.seeding = s.seeding /\ t.atom = s.atom
  BY <1>1, <1>3 DEF SwarmRecord
<1>7. SwarmGood(t, r)
  <2>1. /\ t.peers \subseteq s.peers /\ t.peers \cup t.outgoing \subseteq t.pool
        /\ t.optimistic = s.optimistic \/ s.optimistic \notin t.peers
    BY <1>4, <1>6 DEF SwarmGood
  <2>2. \A a \in t.peers : /\ t.atom[a] = s.atom[a] /\ t.conn[a] = s.conn[a]
                           /\ t.seeding => ~t.conn[a].we
    BY <1>4, <1>6 DEF SwarmGood
  <2> QED
    BY <1>5, <1>6, <2>1, <2>2, SwarmKept
<1> QED
  BY <1>6, <1>7 DEF t, p

\* Only what is cached of the blocklist changes.
LEMMA ListedKept ==
    ASSUME NEW r, NEW s, SwarmGood(s, r), NEW f \in [Addrs -> AtomRecord],
           \A a \in Addrs : f[a].banned = s.atom[a].banned
    PROVE  SwarmGood([s EXCEPT !.atom = f], r)
<1> DEFINE t == [s EXCEPT !.atom = f]
<1>1. s \in SwarmRecord
  BY DEF SwarmGood
<1>2. t \in SwarmRecord
  BY <1>1 DEF SwarmRecord
<1>3. /\ t.peers = s.peers /\ t.outgoing = s.outgoing /\ t.pool = s.pool /\ t.running = s.running
      /\ t.optimistic = s.optimistic /\ t.conn = s.conn /\ t.seeding = s.seeding /\ t.atom = f
  BY <1>1 DEF SwarmRecord
<1> HIDE DEF t
<1>4. SwarmGood(t, r)
  BY <1>1, <1>2, <1>3, SwarmFields, SwarmKept DEF SwarmGood
<1> QED
  BY <1>4 DEF t

LEMMA CacheKeeps ==
    ASSUME NEW r, NEW s, SwarmGood(s, r), NEW S
    PROVE  /\ SwarmGood(CacheListed(s, S), r)
           /\ CacheListed(s, S).peers = s.peers /\ CacheListed(s, S).outgoing = s.outgoing
           /\ CacheListed(s, S).pool = s.pool /\ CacheListed(s, S).running = s.running
<1> DEFINE f == [a \in Addrs |-> IF a \in S THEN [s.atom[a] EXCEPT !.listed = IF Listed(a) THEN "yes" ELSE "no"]
                                 ELSE s.atom[a]]
<1>1. s \in SwarmRecord /\ s.atom \in [Addrs -> AtomRecord]
  BY SwarmFields DEF SwarmGood
<1>2. \A x \in AtomRecord, n \in Answers :
        /\ [x EXCEPT !.listed = n] \in AtomRecord /\ [x EXCEPT !.listed = n].banned = x.banned
  BY DEF AtomRecord
<1>3. \A a \in Addrs : (IF Listed(a) THEN "yes" ELSE "no") \in Answers
  BY DEF Answers
<1>4. \A a \in Addrs : f[a] \in AtomRecord /\ f[a].banned = s.atom[a].banned
  BY <1>1, <1>2, <1>3
<1>5. f \in [Addrs -> AtomRecord]
  BY <1>4
<1>6. CacheListed(s, S) = [s EXCEPT !.atom = f]
  BY DEF CacheListed
<1> HIDE DEF f
<1>7. SwarmGood([s EXCEPT !.atom = f], r)
  BY <1>4, <1>5, ListedKept
<1> QED
  BY <1>1, <1>6, <1>7 DEF SwarmRecord

LEMMA AddPexStep ==
    ASSUME SwarmInv, NEW a \in Addrs, NEW b \in BOOLEAN, AddPex(a, b)
    PROVE  SwarmInv'
BY EnsureKeeps DEF SwarmInv, AddPex

\* One field of one connection changes, and is not what chokes it.
LEMMA OneConnKept ==
    ASSUME NEW r, NEW s, SwarmGood(s, r), NEW a \in s.peers, NEW k \in ConnRecord,
           k.choked = s.conn[a].choked, k.we = s.conn[a].we, s.conn[a].purge => k.purge
    PROVE  SwarmGood([s EXCEPT !.conn[a] = k], r)
<1> DEFINE t == [s EXCEPT !.conn[a] = k]
<1>1. s \in SwarmRecord /\ a \in Addrs /\ s.conn \in [Addrs -> ConnRecord]
  BY SwarmFields DEF SwarmGood
<1>2. t \in SwarmRecord
  BY <1>1 DEF SwarmRecord
<1>3. /\ t.peers = s.peers /\ t.outgoing = s.outgoing /\ t.pool = s.pool /\ t.running = s.running
      /\ t.optimistic = s.optimistic /\ t.conn = [s.conn EXCEPT ![a] = k] /\ t.seeding = s.seeding
      /\ t.atom = s.atom
  BY <1>1 DEF SwarmRecord
<1> HIDE DEF t
<1>4. \A x \in t.peers : x \in Addrs /\ (x = a => t.conn[x] = k) /\ (x # a => t.conn[x] = s.conn[x])
  BY <1>1, <1>3, SwarmFields
<1>5. \A x \in t.peers :
        /\ t.atom[x].banned => s.atom[x].banned \/ t.conn[x].purge
        /\ s.conn[x].purge => t.conn[x].purge
        /\ t.conn[x].choked = s.conn[x].choked
        /\ t.seeding => ~t.conn[x].we
  BY <1>3, <1>4 DEF SwarmGood
<1>6. /\ t.peers \cup t.outgoing \subseteq t.pool /\ t.peers \subseteq s.peers /\ t.outgoing \subseteq s.outgoing
      /\ t.running = s.running /\ t.optimistic = s.optimistic
  BY <1>3 DEF SwarmGood
<1>7. SwarmGood(t, r)
  BY <1>2, <1>5, <1>6, SwarmKept
<1> QED
  BY <1>7 DEF t

LEMMA PeerInterestStep ==
    ASSUME SwarmInv, NEW a \in Addrs, PeerInterest(a)
    PROVE  SwarmInv'
<1> DEFINE k == [swarm.conn[a] EXCEPT !.they = ~swarm.conn[a].they]
<1>1. a \in swarm.peers /\ swarm' = [swarm EXCEPT !.conn[a] = k]
  BY DEF PeerInterest
<1>2. swarm.conn[a] \in ConnRecord
  BY SwarmFields DEF SwarmInv, SwarmGood
<1>3. /\ k \in ConnRecord /\ k.choked = swarm.conn[a].choked /\ k.we = swarm.conn[a].we
      /\ k.purge = swarm.conn[a].purge
  BY <1>2 DEF ConnRecord
<1> HIDE DEF k
<1>4. SwarmGood(swarm', rated)
  BY <1>1, <1>3, OneConnKept DEF SwarmInv
<1> QED
  BY <1>4 DEF PeerInterest, SwarmInv

LEMMA GotDataStep ==
    ASSUME SwarmInv, NEW a \in Addrs, GotData(a)
    PROVE  SwarmInv'
<1> DEFINE k == [swarm.conn[a] EXCEPT !.blamed = TRUE]
<1>1. a \in swarm.peers /\ swarm' = [swarm EXCEPT !.conn[a] = k]
  BY DEF GotData
<1>2. swarm.conn[a] \in ConnRecord
  BY SwarmFields DEF SwarmInv, SwarmGood
<1>3. /\ k \in ConnRecord /\ k.choked = swarm.conn[a].choked /\ k.we = swarm.conn[a].we
      /\ k.purge = swarm.conn[a].purge
  BY <1>2 DEF ConnRecord
<1> HIDE DEF k
<1>4. SwarmGood(swarm', rated)
  BY <1>1, <1>3, OneConnKept DEF SwarmInv
<1> QED
  BY <1>4 DEF GotData, SwarmInv

LEMMA PeerErrorStep ==
    ASSUME SwarmInv, NEW a \in Addrs, PeerError(a)
    PROVE  SwarmInv'
<1> DEFINE k == [swarm.conn[a] EXCEPT !.purge = TRUE]
<1>1. a \in swarm.peers /\ swarm' = [swarm EXCEPT !.conn[a] = k]
  BY DEF PeerError
<1>2. swarm.conn[a] \in ConnRecord
  BY SwarmFields DEF SwarmInv, SwarmGood
<1>3. /\ k \in ConnRecord /\ k.choked = swarm.conn[a].choked /\ k.we = swarm.conn[a].we
      /\ k.purge = TRUE
  BY <1>2 DEF ConnRecord
<1> HIDE DEF k
<1>4. SwarmGood(swarm', rated)
  BY <1>1, <1>3, OneConnKept DEF SwarmInv
<1> QED
  BY <1>4 DEF PeerError, SwarmInv

LEMMA PeerHasAllStep ==
    ASSUME SwarmInv, NEW a \in Addrs, PeerHasAll(a)
    PROVE  SwarmInv'
<1> DEFINE f == [swarm.atom EXCEPT ![a].seed = TRUE]
<1>1. swarm.atom \in [Addrs -> AtomRecord]
  BY SwarmFields DEF SwarmInv, SwarmGood
<1>2. f \in [Addrs -> AtomRecord] /\ \A x \in Addrs : f[x].banned = swarm.atom[x].banned
  BY <1>1 DEF AtomRecord
<1>3. swarm' = [swarm EXCEPT !.atom = f]
  BY DEF PeerHasAll
<1> HIDE DEF f
<1>4. SwarmGood(swarm', rated)
  BY <1>2, <1>3, ListedKept DEF SwarmInv
<1> QED
  BY <1>4 DEF PeerHasAll, SwarmInv

LEMMA MarkAllStep == SwarmInv /\ MarkAllAsSeeds => SwarmInv'
<1> SUFFICES ASSUME SwarmInv, MarkAllAsSeeds PROVE SwarmInv'
  OBVIOUS
<1> DEFINE f == [a \in Addrs |-> IF a \in swarm.pool THEN [swarm.atom[a] EXCEPT !.seed = TRUE] ELSE swarm.atom[a]]
<1>1. swarm.atom \in [Addrs -> AtomRecord]
  BY SwarmFields DEF SwarmInv, SwarmGood
<1>2. f \in [Addrs -> AtomRecord] /\ \A x \in Addrs : f[x].banned = swarm.atom[x].banned
  BY <1>1 DEF AtomRecord
<1>3. swarm' = [swarm EXCEPT !.atom = f]
  BY DEF MarkAllAsSeeds
<1> HIDE DEF f
<1>4. SwarmGood(swarm', rated)
  BY <1>2, <1>3, ListedKept DEF SwarmInv
<1> QED
  BY <1>4 DEF MarkAllAsSeeds, SwarmInv

LEMMA BlocklistStep ==
    ASSUME SwarmInv, NEW S \in SUBSET Addrs, BlocklistChanged(S)
    PROVE  SwarmInv'
<1> DEFINE f == [a \in Addrs |-> [swarm.atom[a] EXCEPT !.listed = "unknown"]]
<1>1. swarm.atom \in [Addrs -> AtomRecord] /\ "unknown" \in Answers
  BY SwarmFields DEF SwarmInv, SwarmGood, Answers
<1>2. f \in [Addrs -> AtomRecord] /\ \A x \in Addrs : f[x].banned = swarm.atom[x].banned
  BY <1>1 DEF AtomRecord
<1>3. swarm' = [swarm EXCEPT !.atom = f]
  BY DEF BlocklistChanged
<1> HIDE DEF f
<1>4. SwarmGood(swarm', rated)
  BY <1>2, <1>3, ListedKept DEF SwarmInv
<1> QED
  BY <1>4 DEF BlocklistChanged, SwarmInv

\* A strike purges and bans together.
LEMMA BadPieceStep == SwarmInv /\ BadPiece => SwarmInv'
<1> SUFFICES ASSUME SwarmInv, BadPiece PROVE SwarmInv'
  OBVIOUS
<1> DEFINE s == swarm
           S == {a \in s.peers : s.conn[a].blamed}
           banned == {a \in S : s.conn[a].strikes + 1 >= BadPieces}
           c == [a \in Addrs |-> IF a \in S THEN Struck(s.conn[a]) ELSE s.conn[a]]
           f == [a \in Addrs |-> IF a \in banned THEN [s.atom[a] EXCEPT !.banned = TRUE] ELSE s.atom[a]]
           t == [s EXCEPT !.conn = c, !.atom = f]
<1>1. s \in SwarmRecord /\ s.conn \in [Addrs -> ConnRecord] /\ s.atom \in [Addrs -> AtomRecord] /\ s.peers \subseteq Addrs
  BY SwarmFields DEF SwarmInv, SwarmGood
<1>2. swarm' = t /\ UNCHANGED <<incoming, blocked, rated, remembered>>
  BY DEF BadPiece, AddStrikes
<1>3. ASSUME NEW k \in ConnRecord
      PROVE  /\ Struck(k) \in ConnRecord /\ Struck(k).choked = k.choked /\ Struck(k).we = k.we
             /\ k.purge => Struck(k).purge
             /\ k.strikes + 1 >= BadPieces => Struck(k).purge
  <2>1. BadPieces \in Nat /\ k.strikes \in Nat
    BY SwarmAssumption DEF ConnRecord
  <2>2. CASE k.strikes + 1 < BadPieces
    BY <2>1, <2>2 DEF Struck, ConnRecord
  <2>3. CASE ~(k.strikes + 1 < BadPieces)
    BY <2>1, <2>3 DEF Struck, ConnRecord
  <2> QED
    BY <2>2, <2>3
<1>4. \A x \in AtomRecord : [x EXCEPT !.banned = TRUE] \in AtomRecord
  BY DEF AtomRecord
<1>5. c \in [Addrs -> ConnRecord] /\ f \in [Addrs -> AtomRecord]
  BY <1>1, <1>3, <1>4
<1>6. \A a \in s.peers :
        /\ s.conn[a].purge => c[a].purge
        /\ c[a].choked = s.conn[a].choked /\ c[a].we = s.conn[a].we
        /\ f[a].banned => s.atom[a].banned \/ c[a].purge
  BY <1>1, <1>3
<1> HIDE DEF S, banned, c, f
<1>7. t \in SwarmRecord
  BY <1>1, <1>5 DEF SwarmRecord
<1>8. /\ t.peers = s.peers /\ t.outgoing = s.outgoing /\ t.pool = s.pool /\ t.running = s.running
      /\ t.optimistic = s.optimistic /\ t.conn = c /\ t.seeding = s.seeding /\ t.atom = f
  BY <1>1 DEF SwarmRecord
<1> HIDE DEF t
<1>9. SwarmGood(t, rated)
  <2>1. SwarmGood(s, rated) /\ t.peers \cup t.outgoing \subseteq t.pool
        /\ \A a \in t.peers : t.seeding => ~t.conn[a].we
    BY <1>6, <1>8 DEF SwarmInv, SwarmGood
  <2> QED
    BY <1>6, <1>7, <1>8, <2>1, SwarmKept, ZenonT(60)
<1> QED
  BY <1>2, <1>9 DEF SwarmInv

LEMMA OutgoingKept ==
    ASSUME NEW r, NEW s, SwarmGood(s, r), NEW O \in SUBSET s.pool, s.running \/ O \subseteq s.outgoing
    PROVE  /\ SwarmGood([s EXCEPT !.outgoing = O], r)
           /\ [s EXCEPT !.outgoing = O].running = s.running
<1> DEFINE t == [s EXCEPT !.outgoing = O]
<1>1. s \in SwarmRecord /\ O \in SUBSET Addrs
  BY SwarmFields DEF SwarmGood
<1>2. t \in SwarmRecord
  BY <1>1 DEF SwarmRecord
<1>3. /\ t.peers = s.peers /\ t.outgoing = O /\ t.pool = s.pool /\ t.running = s.running
      /\ t.optimistic = s.optimistic /\ t.conn = s.conn /\ t.seeding = s.seeding /\ t.atom = s.atom
  BY <1>1 DEF SwarmRecord
<1> HIDE DEF t
<1>4. Served(t, r) = Served(s, r)
  BY <1>3 DEF Served
<1>5. SwarmGood(t, r)
  BY <1>2, <1>3, <1>4, SwarmFields DEF SwarmGood
<1> QED
  BY <1>3, <1>5 DEF t

\* A new peer is choked, whoever it is taken for.
LEMMA HandshakeOkKeeps ==
    ASSUME NEW r, NEW s, SwarmGood(s, r), s.running, NEW a \in Addrs, NEW i \in BOOLEAN,
           NEW t \in HandshakeOk(s, a, i)
    PROVE  SwarmGood(t, r)
<1> DEFINE e == EnsureAtom(s, a, FALSE)
           p == e.peers \cup {a}
           c == [e.conn EXCEPT ![a] = NoConn]
           new == [e EXCEPT !.peers = p, !.conn[a] = NoConn]
<1>1. SwarmGood(e, r) /\ a \in e.pool /\ e.running
  BY EnsureKeeps
<1>2. \/ t = e
      \/ /\ ~e.atom[a].banned
         /\ t = new \/ (e.optimistic = Gone /\ t = [new EXCEPT !.optimistic = a])
  BY DEF HandshakeOk, Accepts
<1> HIDE DEF e
<1>3. /\ e \in SwarmRecord /\ p \in SUBSET Addrs /\ c \in [Addrs -> ConnRecord]
      /\ e.peers \subseteq Addrs /\ a \in Optimists
  BY <1>1, NewTypes, SwarmFields DEF SwarmGood, Optimists
<1>4. CASE t # e
  <2> HIDE DEF p
  <2>1. /\ new \in SwarmRecord /\ new.peers = p /\ new.outgoing = e.outgoing /\ new.pool = e.pool
        /\ new.running = e.running /\ new.optimistic = e.optimistic /\ new.conn = c
        /\ new.seeding = e.seeding /\ new.atom = e.atom
    BY <1>3, NewTypes DEF SwarmRecord
  <2> HIDE DEF new
  <2>2. /\ t \in SwarmRecord /\ t.peers = p /\ t.outgoing = e.outgoing /\ t.pool = e.pool
        /\ t.running = e.running /\ t.conn = c /\ t.seeding = e.seeding /\ t.atom = e.atom
        /\ t.optimistic = e.optimistic \/ e.optimistic = Gone
    <3>1. CASE t = new
      BY <2>1, <3>1
    <3>2. CASE t # new
      <4>1. e.optimistic = Gone /\ t = [new EXCEPT !.optimistic = a]
        BY <1>2, <1>4, <3>2
      <4> QED
        BY <1>3, <2>1, <4>1 DEF SwarmRecord
    <3> QED
      BY <3>1, <3>2
  <2>3. /\ \A x \in e.peers : x # a => c[x] = e.conn[x]
        /\ c[a] = NoConn /\ c[a].choked = TRUE /\ c[a].we = FALSE
    BY <1>3, NewTypes, SwarmFields
  <2>4. Served(t, r) \subseteq Served(e, r) /\ Served(e, r) \subseteq Addrs
    <3>1. Gone \notin Addrs
      BY SwarmAssumption
    <3> HIDE DEF c
    <3> QED
      BY <1>3, <2>2, <2>3, <3>1 DEF Served, p
  <2>5. Cardinality(Served(t, r)) <= UploadSlots
    BY <1>1, <2>4, ServedShrinks DEF SwarmGood
  <2>6. \A x \in t.peers : /\ t.atom[x].banned => t.conn[x].purge
                           /\ t.seeding => ~t.conn[x].we
    <3> HIDE DEF c
    <3> QED
      BY <1>1, <1>2, <1>4, <2>2, <2>3 DEF SwarmGood, p
  <2> HIDE DEF c
  <2> QED
    BY <1>1, <2>2, <2>5, <2>6 DEF SwarmGood, p
<1> QED
  BY <1>1, <1>4

LEMMA HandshakeDoneStep ==
    ASSUME SwarmInv, NEW a \in Addrs, NEW i \in BOOLEAN, HandshakeDone(a, i)
    PROVE  SwarmInv'
<1> DEFINE s == IF i THEN swarm ELSE [swarm EXCEPT !.outgoing = swarm.outgoing \ {a}]
<1>1. /\ swarm' = s \/ (s.running /\ swarm' \in HandshakeOk(s, a, i))
      /\ incoming' \subseteq incoming /\ UNCHANGED <<blocked, rated, remembered>>
  BY DEF HandshakeDone
<1>2. SwarmGood(s, rated)
  <2>1. swarm.outgoing \ {a} \in SUBSET swarm.pool
    BY DEF SwarmInv, SwarmGood
  <2> QED
    BY <2>1, OutgoingKept DEF SwarmInv
<1> HIDE DEF s
<1>3. SwarmGood(swarm', rated)
  BY <1>1, <1>2, HandshakeOkKeeps
<1> QED
  BY <1>1, <1>3 DEF SwarmInv

LEMMA RunningKept ==
    ASSUME NEW r, NEW s, SwarmGood(s, r)
    PROVE  SwarmGood([s EXCEPT !.running = TRUE], r)
<1> DEFINE t == [s EXCEPT !.running = TRUE]
<1>1. s \in SwarmRecord
  BY DEF SwarmGood
<1>2. /\ t \in SwarmRecord /\ t.peers = s.peers /\ t.outgoing = s.outgoing /\ t.pool = s.pool
      /\ t.running = TRUE /\ t.optimistic = s.optimistic /\ t.conn = s.conn
      /\ t.seeding = s.seeding /\ t.atom = s.atom
  BY <1>1 DEF SwarmRecord
<1> HIDE DEF t
<1>3. Served(t, r) = Served(s, r)
  BY <1>2 DEF Served
<1>4. SwarmGood(t, r)
  BY <1>2, <1>3 DEF SwarmGood
<1> QED
  BY <1>4 DEF t

\* The peers go, and so may every handshake.
LEMMA StopSwarmStep == SwarmInv /\ StopSwarm => SwarmInv'
<1> SUFFICES ASSUME SwarmInv, StopSwarm PROVE SwarmInv'
  OBVIOUS
<1> DEFINE s == RemovePeers(swarm, swarm.peers)
           t == [s EXCEPT !.running = FALSE, !.outgoing = {}]
<1>1. swarm' = t /\ UNCHANGED <<incoming, blocked, rated, remembered>>
  BY DEF StopSwarm
<1>2. SwarmGood(s, rated) /\ s.peers = {}
  BY RemoveKeeps DEF SwarmInv
<1> HIDE DEF s
<1>3. s \in SwarmRecord
  BY <1>2 DEF SwarmGood
<1>4. t \in SwarmRecord /\ t.peers = {} /\ t.outgoing = {}
  BY <1>2, <1>3 DEF SwarmRecord
<1> HIDE DEF t
<1>5. Served(t, rated) = {} /\ {} \subseteq Served(s, rated) /\ Served(s, rated) \subseteq Addrs
  BY <1>3, <1>4, SwarmFields DEF Served
<1>6. Cardinality(Served(t, rated)) <= UploadSlots
  BY <1>2, <1>5, ServedShrinks DEF SwarmGood
<1>7. SwarmGood(t, rated)
  BY <1>4, <1>6 DEF SwarmGood
<1> QED
  BY <1>1, <1>7 DEF SwarmInv

LEMMA EmptyGood ==
    ASSUME NEW r, NEW P \in SUBSET Addrs, NEW t, t = EmptySwarm \/ t = [EmptySwarm EXCEPT !.pool = P]
    PROVE  SwarmGood(t, r)
<1> DEFINE f == [a \in Addrs |-> NewAtom(FALSE)]
           c == [a \in Addrs |-> NoConn]
           e == [pool |-> {}, atom |-> f, peers |-> {}, conn |-> c, outgoing |-> {}, optimistic |-> Nobody,
                 scaler |-> 0, running |-> FALSE, seeding |-> FALSE]
<1>1. f \in [Addrs -> AtomRecord] /\ c \in [Addrs -> ConnRecord] /\ Nobody \in Optimists
  BY NewTypes DEF Optimists
<1>2. t = e \/ t = [e EXCEPT !.pool = P]
  BY DEF EmptySwarm
<1> HIDE DEF f, c
<1>3. t \in SwarmRecord /\ t.peers = {} /\ t.outgoing = {} /\ t.seeding = FALSE
  <2>1. e \in SwarmRecord /\ e.peers = {} /\ e.outgoing = {} /\ e.seeding = FALSE
    BY <1>1 DEF SwarmRecord
  <2> HIDE DEF e
  <2> QED
    BY <1>2, <2>1 DEF SwarmRecord
<1>4. Served(t, r) = {}
  BY <1>3 DEF Served
<1>5. Cardinality(Served(t, r)) <= UploadSlots
  BY <1>4, FS_EmptySet, SwarmAssumption
<1> QED
  BY <1>3, <1>5, SwarmFields DEF SwarmGood

LEMMA RestartStep == SwarmInv /\ Restart => SwarmInv'
<1> SUFFICES ASSUME SwarmInv, Restart PROVE SwarmInv'
  OBVIOUS
<1>1. remembered \ blocked \in SUBSET Addrs
  BY DEF SwarmInv
<1>2. SwarmGood(swarm', rated)
  BY <1>1, EmptyGood DEF Restart
<1> QED
  BY <1>2 DEF SwarmInv, Restart

LEMMA SwarmInitInv == SwarmInit => SwarmInv
BY EmptyGood DEF SwarmInit, SwarmInv

LEMMA AddIncomingStep ==
    ASSUME SwarmInv, NEW a \in Addrs, AddIncoming(a)
    PROVE  SwarmInv'
BY DEF AddIncoming, SwarmInv

LEMMA SaveStep == SwarmInv /\ Save => SwarmInv'
<1> SUFFICES ASSUME SwarmInv, Save PROVE SwarmInv'
  OBVIOUS
<1>1. /\ remembered' \subseteq swarm.pool /\ \E S : swarm' = CacheListed(swarm, S)
      /\ UNCHANGED <<incoming, blocked, rated>>
  BY DEF Save, kSubset
<1>2. swarm.pool \subseteq Addrs
  BY SwarmFields DEF SwarmInv, SwarmGood
<1> QED
  BY <1>1, <1>2, CacheKeeps DEF SwarmInv

\* What is freed is in nobody's use.
LEMMA AtomPulseStep == SwarmInv /\ AtomPulse => SwarmInv'
<1> SUFFICES ASSUME SwarmInv, AtomPulse PROVE SwarmInv'
  OBVIOUS
<1> DEFINE s == swarm
<1>1. PICK K \in SUBSET (s.pool \ KeptAtoms(s)) :
        swarm' = [s EXCEPT !.pool = KeptAtoms(s) \cup K,
                           !.atom = [a \in Addrs |-> IF a \in KeptAtoms(s) \cup K THEN s.atom[a] ELSE NewAtom(FALSE)]]
  BY DEF AtomPulse
<1> DEFINE p == KeptAtoms(s) \cup K
           f == [a \in Addrs |-> IF a \in p THEN s.atom[a] ELSE NewAtom(FALSE)]
           t == [s EXCEPT !.pool = p, !.atom = f]
<1>2. s \in SwarmRecord /\ s.atom \in [Addrs -> AtomRecord] /\ s.pool \subseteq Addrs /\ s.peers \subseteq Addrs
      /\ s.peers \cup s.outgoing \subseteq s.pool
  BY SwarmFields DEF SwarmInv, SwarmGood
<1>3. p \in SUBSET Addrs /\ s.peers \cup s.outgoing \subseteq p
  BY <1>2 DEF KeptAtoms, InUse
<1>4. f \in [Addrs -> AtomRecord] /\ \A a \in s.peers : f[a] = s.atom[a]
  BY <1>2, <1>3, NewTypes
<1>5. swarm' = t
  BY <1>1
<1> HIDE DEF p, f
<1>6. /\ t \in SwarmRecord /\ t.peers = s.peers /\ t.outgoing = s.outgoing /\ t.pool = p
      /\ t.running = s.running /\ t.optimistic = s.optimistic /\ t.conn = s.conn
      /\ t.seeding = s.seeding /\ t.atom = f
  BY <1>2, <1>3, <1>4 DEF SwarmRecord
<1> HIDE DEF t
<1>7. SwarmGood(t, rated)
  <2>1. SwarmGood(s, rated) /\ t.peers \cup t.outgoing \subseteq t.pool
        /\ \A a \in t.peers : t.seeding => ~t.conn[a].we
    BY <1>3, <1>6 DEF SwarmInv, SwarmGood
  <2>2. t.peers \subseteq s.peers /\ t.outgoing \subseteq s.outgoing
    BY <1>6
  <2> QED
    BY <1>4, <1>6, <2>1, <2>2, SwarmKept
<1> QED
  BY <1>5, <1>7 DEF SwarmInv, AtomPulse

LEMMA CompletenessStep == SwarmInv /\ Completeness => SwarmInv'
<1> SUFFICES ASSUME SwarmInv, Completeness PROVE SwarmInv'
  OBVIOUS
<1> DEFINE s == swarm
           c == [a \in Addrs |-> [s.conn[a] EXCEPT !.we = FALSE]]
           t == IF s.seeding THEN [s EXCEPT !.seeding = FALSE]
                ELSE [[s EXCEPT !.conn = c] EXCEPT !.seeding = TRUE]
<1>1. swarm' = t /\ UNCHANGED <<incoming, blocked, rated, remembered>>
  BY DEF Completeness, ClearInterest
<1>2. s \in SwarmRecord /\ s.conn \in [Addrs -> ConnRecord] /\ s.peers \subseteq Addrs
  BY SwarmFields DEF SwarmInv, SwarmGood
<1>3. \A k \in ConnRecord : LET n == [k EXCEPT !.we = FALSE]
                            IN  n \in ConnRecord /\ n.we = FALSE /\ n.purge = k.purge /\ n.choked = k.choked
  BY DEF ConnRecord
<1>4. /\ c \in [Addrs -> ConnRecord]
      /\ \A a \in Addrs : c[a].we = FALSE /\ c[a].purge = s.conn[a].purge /\ c[a].choked = s.conn[a].choked
  BY <1>2, <1>3
<1> HIDE DEF c
<1>5. /\ t \in SwarmRecord /\ t.peers = s.peers /\ t.outgoing = s.outgoing /\ t.pool = s.pool
      /\ t.running = s.running /\ t.optimistic = s.optimistic /\ t.atom = s.atom
      /\ t.conn = IF s.seeding THEN s.conn ELSE c
      /\ t.seeding => ~s.seeding
  <2>1. CASE s.seeding
    BY <1>2, <2>1 DEF SwarmRecord
  <2>2. CASE ~s.seeding
    BY <1>2, <1>4, <2>2 DEF SwarmRecord
  <2> QED
    BY <2>1, <2>2
<1> HIDE DEF t
<1>6. /\ t.peers \cup t.outgoing \subseteq t.pool /\ t.peers \subseteq s.peers /\ t.outgoing \subseteq s.outgoing
      /\ \A a \in t.peers : t.conn[a].purge = s.conn[a].purge /\ t.conn[a].choked = s.conn[a].choked
                            /\ (t.seeding => ~t.conn[a].we)
  BY <1>2, <1>4, <1>5 DEF SwarmInv, SwarmGood
<1>7. SwarmGood(t, rated)
  BY <1>5, <1>6, SwarmKept DEF SwarmInv
<1> QED
  BY <1>1, <1>7 DEF SwarmInv

LEMMA StartStep == SwarmInv /\ StartSwarm => SwarmInv'
BY RunningKept DEF SwarmInv, StartSwarm

LEMMA CullKeeps ==
    ASSUME NEW r, NEW s, SwarmGood(s, r), NEW limit, NEW t \in Cull(s, limit)
    PROVE  SwarmGood(t, r)
<1>1. \E C : t = RemovePeers(s, C)
  BY DEF Cull
<1> QED
  BY <1>1, RemoveKeeps

\* Peers beyond the limits go, then those that shouldPeerBeClosed, then candidates
\* are called.
LEMMA ReconnectStep == SwarmInv /\ Reconnect => SwarmInv'
<1> SUFFICES ASSUME SwarmInv, Reconnect PROVE SwarmInv'
  OBVIOUS
<1>1. PICK s \in IF swarm.running THEN Cull(swarm, TorrentLimit) ELSE {swarm} :
      \E s1 \in Cull(s, SessionLimit) : \E B :
         LET s2 == RemovePeers(s1, B)
         IN  \/ swarm' = s2
             \/ Looks(s2) /\ \E due \in SUBSET s2.pool : swarm' \in Connected(s2, due)
  <2>1. PICK s1 \in UNION {Cull(s, SessionLimit) : s \in IF swarm.running THEN Cull(swarm, TorrentLimit) ELSE {swarm}} :
        \E idle, late \in SUBSET s1.peers :
           LET s2 == RemovePeers(s1, {a \in s1.peers : ~s1.running \/ ShouldClose(s1, a, idle, late)})
           IN  \/ swarm' = s2
               \/ Looks(s2) /\ \E due \in SUBSET s2.pool : swarm' \in Connected(s2, due)
    BY DEF Reconnect
  <2>2. \E B : LET s2 == RemovePeers(s1, B)
               IN  \/ swarm' = s2
                   \/ Looks(s2) /\ \E due \in SUBSET s2.pool : swarm' \in Connected(s2, due)
    BY <2>1
  <2> QED
    BY <2>1, <2>2
<1>2. PICK s1 \in Cull(s, SessionLimit) : \E B :
         LET s2 == RemovePeers(s1, B)
         IN  \/ swarm' = s2
             \/ Looks(s2) /\ \E due \in SUBSET s2.pool : swarm' \in Connected(s2, due)
  BY <1>1
<1>3. SwarmGood(s, rated)
  BY <1>1, CullKeeps DEF SwarmInv
<1>4. SwarmGood(s1, rated)
  BY <1>2, <1>3, CullKeeps
<1>8. PICK B : LET s2 == RemovePeers(s1, B)
               IN  \/ swarm' = s2
                   \/ Looks(s2) /\ \E due \in SUBSET s2.pool : swarm' \in Connected(s2, due)
  BY <1>2
<1> DEFINE s2 == RemovePeers(s1, B)
<1>5. SwarmGood(s2, rated)
  BY <1>4, RemoveKeeps
<1>6. swarm' = s2 \/ (Looks(s2) /\ \E due \in SUBSET s2.pool : swarm' \in Connected(s2, due))
  BY <1>8
<1> HIDE DEF s2
<1>7. ASSUME NEW due \in SUBSET s2.pool, Looks(s2), swarm' \in Connected(s2, due)
      PROVE  SwarmGood(swarm', rated)
  <2> DEFINE t == CacheListed(s2, Askable(s2, due))
  <2>1. PICK D \in SUBSET Candidates(s2, due) : swarm' = [t EXCEPT !.outgoing = t.outgoing \cup D]
    BY <1>7 DEF Connected
  <2>2. SwarmGood(t, rated) /\ t.pool = s2.pool /\ t.running = s2.running
    BY <1>5, CacheKeeps
  <2>3. D \subseteq s2.pool /\ s2.running
    BY <1>7, <2>1 DEF Candidates, Askable, Looks
  <2> HIDE DEF t
  <2>4. t.outgoing \cup D \in SUBSET t.pool /\ t.running
    BY <2>2, <2>3 DEF SwarmGood
  <2> QED
    BY <2>1, <2>2, <2>4, OutgoingKept
<1> QED
  BY <1>5, <1>6, <1>7 DEF SwarmInv, Reconnect

\* The slots are filled by no more interested peers than there are slots.
Takers(s, order, j) == {i \in 1..j : s.conn[order[i]].they}

LEMMA FilledBound ==
    ASSUME NEW s, NEW n \in Nat, NEW order, Len(order) = n
    PROVE  /\ Filled(s, order) \in 0..n
           /\ IsFiniteSet(Takers(s, order, Filled(s, order)))
           /\ Cardinality(Takers(s, order, Filled(s, order))) <= UploadSlots
<1> DEFINE F(j) == Takers(s, order, j)
           T == {i \in 0..n : Interested(s, order, i) >= UploadSlots} \cup {n}
           k == Filled(s, order)
<1>1. PICK m \in T : \A y \in T : m <= y
  <2>1. T \in SUBSET Nat /\ T # {}
    OBVIOUS
  <2> HIDE DEF T
  <2> QED
    BY <2>1, LeastNat
<1>2. k \in T /\ \A y \in T : k <= y
  <2>1. k = CHOOSE x \in T : \A y \in T : x =< y
    BY DEF Filled, Min
  <2> HIDE DEF T, k
  <2> QED
    BY <1>1, <2>1
<1>3. k \in 0..n /\ UploadSlots \in Nat
  BY <1>2, SwarmAssumption
<1>4. \A j \in 0..n : IsFiniteSet(F(j)) /\ Cardinality(F(j)) \in Nat /\ Interested(s, order, j) = Cardinality(F(j))
  <2> TAKE j \in 0..n
  <2>1. IsFiniteSet(1..j) /\ F(j) \subseteq 1..j
    BY FS_Interval DEF Takers
  <2>2. IsFiniteSet(F(j))
    BY <2>1, FS_Subset
  <2> QED
    BY <2>2, FS_CardinalityType DEF Interested, Takers
<1>5. CASE k = 0
  <2>1. F(k) = {}
    BY <1>5 DEF Takers
  <2>2. Cardinality(F(k)) = 0
    BY <2>1, FS_EmptySet
  <2> QED
    BY <1>3, <1>4, <2>2
<1>6. CASE k # 0
  <2>1. k - 1 \in 0..n /\ k - 1 \notin T
    BY <1>2, <1>3, <1>6
  <2>2. ~(Interested(s, order, k - 1) >= UploadSlots)
    BY <2>1
  <2>3. F(k) \subseteq F(k - 1) \cup {k}
    BY <1>3, <1>6 DEF Takers
  <2>4. IsFiniteSet(F(k - 1)) /\ Cardinality(F(k - 1)) \in Nat /\ Cardinality(F(k - 1)) < UploadSlots
    BY <1>3, <1>4, <2>1, <2>2
  <2> DEFINE G == F(k - 1)
             H == F(k)
  <2>5. /\ IsFiniteSet(G \cup {k})
        /\ Cardinality(G \cup {k}) <= Cardinality(G) + 1
        /\ Cardinality(G \cup {k}) \in Nat
    <3> HIDE DEF G, k
    <3>1. IsFiniteSet(G) /\ Cardinality(G) \in Nat
      BY <2>4 DEF G
    <3>2. /\ IsFiniteSet(G \cup {k})
          /\ Cardinality(G \cup {k}) = IF k \in G THEN Cardinality(G) ELSE Cardinality(G) + 1
      BY <3>1, FS_AddElement
    <3> QED
      BY <3>1, <3>2
  <2>6. Cardinality(F(k)) <= Cardinality(F(k - 1) \cup {k})
    BY <2>3, <2>5, FS_Subset
  <2>7. Cardinality(F(k)) <= UploadSlots
    BY <1>3, <1>4, <2>4, <2>5, <2>6
  <2> QED
    BY <1>3, <1>4, <2>7
<1> QED
  BY <1>5, <1>6

AmongFirst(s, order, A) ==
    \A a \in A : s.conn[a].they /\ \E i \in 1..Filled(s, order) : order[i] = a

\* Those among the first k that are interested, whatever order ranks.
LEMMA FewServed ==
    ASSUME NEW s, NEW S \in SUBSET Addrs, NEW n \in Nat, NEW order \in [1..n -> S], Len(order) = n,
           NEW A \in SUBSET Addrs,
           AmongFirst(s, order, A)
    PROVE  Cardinality(A) <= UploadSlots
<1> DEFINE k == Filled(s, order)
           D == Takers(s, order, k)
           B == {order[i] : i \in D}
           f == [i \in D |-> order[i]]
<1>1. k \in 0..n /\ IsFiniteSet(D) /\ Cardinality(D) <= UploadSlots
  BY FilledBound
<1> HIDE DEF k
<1>2. D \subseteq 1..n
  BY <1>1 DEF Takers
<1>3. A \subseteq B /\ B \subseteq Addrs
  BY <1>2 DEF k, Takers, AmongFirst
<1> HIDE DEF D
<1>4. f \in Surjection(D, B)
  BY DEF Surjection
<1> HIDE DEF f
<1>5. IsFiniteSet(B) /\ Cardinality(B) <= Cardinality(D)
  BY <1>1, <1>4, FS_Surjection
<1>6. Cardinality(B) <= UploadSlots
  BY <1>1, <1>5, FS_CardinalityType, SwarmAssumption
<1> HIDE DEF B
<1> QED
  BY <1>3, <1>6, ServedShrinks

\* Whoever is unchoked after rechokeUploads is among those that fill the slots, or is
\* the optimistic one; nothing else of a connection changes.
LEMMA RechokedShape ==
    ASSUME NEW s \in SwarmRecord, NEW order, NEW k \in Nat, NEW extra, NEW maxed \in BOOLEAN,
           NEW a \in Addrs
    PROVE  LET c == Rechoked(s, order, k, extra, maxed)[a]
           IN  /\ c \in ConnRecord
               /\ c.they = s.conn[a].they /\ c.we = s.conn[a].we /\ c.purge = s.conn[a].purge
               /\ (a \in s.peers /\ ~c.choked) =>
                     (\E i \in 1..k : order[i] = a) \/ a = extra \/ a = s.optimistic
<1> DEFINE v == CASE \E i \in 1..k : order[i] = a -> maxed /\ s.conn[a].choked
                  [] a = extra -> FALSE
                  [] a = s.optimistic /\ a \notin Range(order) /\ ~PeerSeed(s, a) -> s.conn[a].choked
                  [] OTHER -> TRUE
           c == Rechoked(s, order, k, extra, maxed)[a]
<1>1. s.conn[a] \in ConnRecord /\ s.conn[a].choked \in BOOLEAN
  BY SwarmFields DEF ConnRecord
<1>2. c = IF a \notin s.peers THEN s.conn[a] ELSE [s.conn[a] EXCEPT !.choked = v]
  BY DEF Rechoked
<1>3. v \in BOOLEAN /\ (v = FALSE => (\E i \in 1..k : order[i] = a) \/ a = extra \/ a = s.optimistic)
  <2>1. CASE \E i \in 1..k : order[i] = a
    BY <1>1, <2>1
  <2>2. CASE ~\E i \in 1..k : order[i] = a
    BY <1>1, <2>2
  <2> QED
    BY <2>1, <2>2
<1> HIDE DEF v, c
<1>4. LET d == [s.conn[a] EXCEPT !.choked = v]
      IN  d \in ConnRecord /\ d.they = s.conn[a].they /\ d.we = s.conn[a].we /\ d.purge = s.conn[a].purge
          /\ d.choked = v
  BY <1>1, <1>3 DEF ConnRecord
<1> QED
  BY <1>1, <1>2, <1>3, <1>4 DEF c

\* What rechokePulse leaves alone, and what it must establish.
LEMMA RechokeGood ==
    ASSUME NEW q, NEW s, SwarmGood(s, q), NEW r, NEW t \in SwarmRecord,
           t.peers = s.peers, t.outgoing = s.outgoing, t.pool = s.pool, t.running = s.running,
           t.seeding = s.seeding, t.atom = s.atom,
           \A a \in s.peers : t.conn[a].purge = s.conn[a].purge /\ (s.seeding => ~t.conn[a].we),
           Cardinality(Served(t, r)) <= UploadSlots
    PROVE  SwarmGood(t, r)
BY DEF SwarmGood

LEMMA UploadsKeep ==
    ASSUME SwarmInv, NEW order \in SetToSeqs(Competing(swarm)), NEW chokeAll \in BOOLEAN,
           NEW maxed \in BOOLEAN, NEW extra,
           NEW t, t = Uploads(swarm, order, chokeAll, maxed, extra)
    PROVE  /\ SwarmGood(t, {a \in swarm.peers : swarm.conn[a].they})
           /\ t.peers = swarm.peers /\ t.seeding = swarm.seeding
<1> DEFINE r == {a \in swarm.peers : swarm.conn[a].they}
           C == Competing(swarm)
           n == Cardinality(C)
           s == IF swarm.scaler > 0 THEN [swarm EXCEPT !.scaler = @ - 1]
                ELSE [swarm EXCEPT !.optimistic = Nobody]
<1>1. /\ swarm \in SwarmRecord /\ swarm.peers \subseteq Addrs /\ swarm.scaler \in Nat
      /\ swarm.optimistic \in Optimists /\ Nobody \in Optimists /\ swarm.conn \in [Addrs -> ConnRecord]
  BY SwarmFields DEF SwarmInv, SwarmGood, Optimists
<1>2. C \subseteq swarm.peers /\ C \subseteq Addrs /\ n \in Nat
  <2>1. C \subseteq swarm.peers
    BY DEF Competing
  <2>2. IsFiniteSet(C)
    BY <1>1, <2>1, SwarmAssumption, FS_Subset
  <2> HIDE DEF C
  <2> QED
    BY <1>1, <2>1, <2>2, FS_CardinalityType
<1>3. /\ order \in [1..n -> C] /\ Len(order) = n
      /\ \A i, j \in 1..n : i # j => order[i] # order[j]
  <2> HIDE DEF C
  <2>1. order \in [1..n -> C] /\ \A i, j \in 1..n : i # j => order[i] # order[j]
    BY DEF SetToSeqs, C
  <2>2. DOMAIN order = 1..n
    BY <2>1
  <2>3. order \in Seq(C)
    BY <1>2, <2>1
  <2>4. Len(order) \in Nat /\ DOMAIN order = 1..Len(order)
    BY <2>3, LenProperties
  <2> HIDE DEF n
  <2> QED
    BY <1>2, <2>1, <2>2, <2>4
<1>4. /\ s \in SwarmRecord /\ s.peers = swarm.peers /\ s.conn = swarm.conn /\ s.seeding = swarm.seeding
      /\ s.outgoing = swarm.outgoing /\ s.pool = swarm.pool /\ s.running = swarm.running /\ s.atom = swarm.atom
      /\ s.optimistic \in Optimists /\ s.scaler \in Nat
  <2>1. swarm.scaler > 0 => swarm.scaler - 1 \in Nat
    BY <1>1
  <2>2. CASE swarm.scaler > 0
    BY <1>1, <2>1, <2>2 DEF SwarmRecord
  <2>3. CASE ~(swarm.scaler > 0)
    BY <1>1, <2>3 DEF SwarmRecord
  <2> QED
    BY <2>2, <2>3
<1>5. CASE chokeAll
  <2> DEFINE c == [a \in Addrs |-> [s.conn[a] EXCEPT !.choked = TRUE]]
  <2>1. t = [s EXCEPT !.conn = c]
    BY <1>5 DEF Uploads
  <2>2. \A k \in ConnRecord : LET d == [k EXCEPT !.choked = TRUE]
                              IN  d \in ConnRecord /\ d.choked = TRUE /\ d.we = k.we /\ d.purge = k.purge
    BY DEF ConnRecord
  <2> HIDE DEF s, r
  <2>3. /\ c \in [Addrs -> ConnRecord]
        /\ \A a \in Addrs : c[a].choked = TRUE /\ c[a].we = s.conn[a].we /\ c[a].purge = s.conn[a].purge
    BY <1>1, <1>4, <2>2
  <2> HIDE DEF c
  <2>4. /\ t \in SwarmRecord /\ t.peers = s.peers /\ t.outgoing = s.outgoing /\ t.pool = s.pool
        /\ t.running = s.running /\ t.seeding = s.seeding /\ t.atom = s.atom /\ t.conn = c
    BY <1>4, <2>1, <2>3 DEF SwarmRecord
  <2>5. Served(t, r) = {}
    BY <1>1, <1>4, <2>3, <2>4 DEF Served
  <2>6. Cardinality(Served(t, r)) <= UploadSlots
    BY <2>5, FS_EmptySet, SwarmAssumption
  <2>7. \A a \in swarm.peers : t.conn[a].purge = swarm.conn[a].purge /\ (swarm.seeding => ~t.conn[a].we)
    BY <1>1, <1>4, <2>3, <2>4 DEF SwarmInv, SwarmGood
  <2>8. SwarmGood(t, r)
    BY <1>4, <2>4, <2>6, <2>7, RechokeGood DEF SwarmInv
  <2> QED
    BY <1>4, <2>4, <2>8 DEF r
<1>6. CASE ~chokeAll
  <2> DEFINE k == Filled(s, order)
             draws == {a \in {order[i] : i \in (k + 1)..Len(order)} :
                         s.conn[a].they /\ s.optimistic = Nobody /\ ~maxed}
             e == IF extra \in draws THEN extra ELSE Nobody
             o == IF extra \in draws THEN extra ELSE s.optimistic
             m == IF extra \in draws THEN Optimism ELSE s.scaler
             c == Rechoked(s, order, k, e, maxed)
  <2>1. t = [s EXCEPT !.conn = c, !.optimistic = o, !.scaler = m]
    BY <1>6 DEF Uploads
  <2>2. k \in 0..n
    BY <1>2, <1>3, FilledBound
  <2>3. \A a \in draws : a \in Addrs /\ s.optimistic = Nobody
    BY <1>2, <1>3, <2>2
  <2>4. Nobody \notin Addrs /\ Optimism \in Nat
    BY SwarmAssumption
  <2> HIDE DEF k, draws, s, r, C, n
  <2>5. o \in Optimists /\ m \in Nat
    BY <1>4, <2>3, <2>4 DEF Optimists
  <2>6. \A a \in Addrs :
          /\ c[a] \in ConnRecord
          /\ c[a].they = s.conn[a].they /\ c[a].we = s.conn[a].we /\ c[a].purge = s.conn[a].purge
          /\ (a \in s.peers /\ ~c[a].choked) =>
                (\E i \in 1..k : order[i] = a) \/ a = e \/ a = s.optimistic
    BY <1>2, <1>4, <2>2, RechokedShape
  <2>7. c \in [Addrs -> ConnRecord]
    <3>1. c = [a \in Addrs |-> c[a]]
      BY DEF Rechoked
    <3> QED
      BY <2>6, <3>1
  <2>8. \A a \in Addrs : a = e \/ a = s.optimistic => a = o
    BY <2>3, <2>4
  <2> HIDE DEF c, e, o, m
  <2>9. /\ t \in SwarmRecord /\ t.peers = s.peers /\ t.outgoing = s.outgoing /\ t.pool = s.pool
        /\ t.running = s.running /\ t.seeding = s.seeding /\ t.atom = s.atom /\ t.conn = c /\ t.optimistic = o
    BY <1>4, <2>1, <2>5, <2>7 DEF SwarmRecord
  <2>10. Served(t, r) \in SUBSET Addrs
         /\ \A a \in Served(t, r) : s.conn[a].they /\ \E i \in 1..k : order[i] = a
    <3>1. \A a \in Served(t, r) : a \in Addrs /\ a \in s.peers /\ swarm.conn[a].they /\ ~c[a].choked /\ a # o
      BY <1>1, <1>4, <2>9 DEF Served, r
    <3> QED
      BY <1>4, <2>6, <2>8, <3>1
  <2>11. Cardinality(Served(t, r)) <= UploadSlots
    <3> DEFINE A == Served(t, r)
    <3>1. A \in SUBSET Addrs /\ AmongFirst(s, order, A)
      BY <2>10 DEF k, AmongFirst
    <3>2. C \in SUBSET Addrs /\ n \in Nat /\ order \in [1..n -> C] /\ Len(order) = n
      BY <1>2, <1>3
    <3> HIDE DEF A
    <3>3. Cardinality(A) <= UploadSlots
      BY <3>1, <3>2, FewServed
    <3> QED
      BY <3>3 DEF A
  <2>12. \A a \in swarm.peers : t.conn[a].purge = swarm.conn[a].purge /\ (swarm.seeding => ~t.conn[a].we)
    BY <1>1, <1>4, <2>6, <2>9 DEF SwarmInv, SwarmGood
  <2>13. SwarmGood(t, r)
    BY <1>4, <2>9, <2>11, <2>12, RechokeGood DEF SwarmInv
  <2> QED
    BY <1>4, <2>9, <2>13 DEF r
<1> QED
  BY <1>5, <1>6

\* A torrent that does not seed may be interested in whom it likes.
LEMMA DownloadsKeep ==
    ASSUME NEW r, NEW s, SwarmGood(s, r), ~s.seeding, NEW D, NEW t, t = Downloads(s, D)
    PROVE  SwarmGood(t, r)
<1> DEFINE c == [a \in Addrs |-> IF a \in s.peers THEN [s.conn[a] EXCEPT !.we = a \in D] ELSE s.conn[a]]
<1>1. s \in SwarmRecord /\ s.conn \in [Addrs -> ConnRecord] /\ s.peers \subseteq Addrs
  BY SwarmFields DEF SwarmGood
<1>2. t = [s EXCEPT !.conn = c]
  BY DEF Downloads
<1>3. \A k \in ConnRecord, b \in BOOLEAN :
         LET d == [k EXCEPT !.we = b]
         IN  d \in ConnRecord /\ d.choked = k.choked /\ d.purge = k.purge
  BY DEF ConnRecord
<1>4. \A a \in Addrs : c[a] \in ConnRecord /\ c[a].choked = s.conn[a].choked /\ c[a].purge = s.conn[a].purge
  <2> TAKE a \in Addrs
  <2>1. (a \in D) \in BOOLEAN
    OBVIOUS
  <2> QED
    BY <1>1, <1>3, <2>1
<1>5. c \in [Addrs -> ConnRecord]
  BY <1>4
<1> HIDE DEF c
<1>6. /\ t \in SwarmRecord /\ t.peers = s.peers /\ t.outgoing = s.outgoing /\ t.pool = s.pool
      /\ t.running = s.running /\ t.seeding = s.seeding /\ t.atom = s.atom /\ t.conn = c
      /\ t.optimistic = s.optimistic
  BY <1>1, <1>2, <1>5 DEF SwarmRecord
<1>7. Served(t, r) = Served(s, r)
  BY <1>1, <1>4, <1>6 DEF Served
<1> QED
  BY <1>1, <1>4, <1>6, <1>7 DEF SwarmGood

LEMMA RechokeStep == SwarmInv /\ Rechoke => SwarmInv'
<1> SUFFICES ASSUME SwarmInv, Rechoke PROVE SwarmInv'
  OBVIOUS
<1> DEFINE r == {a \in swarm.peers : swarm.conn[a].they}
<1>1. PICK order \in SetToSeqs(Competing(swarm)), x \in BOOLEAN \X BOOLEAN \X (swarm.peers \cup {Nobody}) :
        LET s == Uploads(swarm, order, x[1], x[2], x[3])
        IN  swarm' \in IF s.seeding THEN {s} ELSE {Downloads(s, D) : D \in Chosen(s)}
  BY DEF Rechoke
<1> DEFINE s == Uploads(swarm, order, x[1], x[2], x[3])
<1>2. SwarmGood(s, r) /\ s.peers = swarm.peers
  <2>1. x[1] \in BOOLEAN /\ x[2] \in BOOLEAN
    BY <1>1
  <2> QED
    BY <1>1, <2>1, UploadsKeep
<1>3. swarm' \in IF s.seeding THEN {s} ELSE {Downloads(s, D) : D \in Chosen(s)}
  BY <1>1
<1> HIDE DEF s
<1>4. SwarmGood(swarm', r)
  BY <1>2, <1>3, DownloadsKeep
<1>5. r \subseteq Addrs /\ rated' = r
  BY SwarmFields DEF SwarmInv, SwarmGood, Rechoke
<1> HIDE DEF r
<1> QED
  BY <1>4, <1>5 DEF SwarmInv, Rechoke

LEMMA SwarmStep == SwarmInv /\ [SwarmNext]_swarmVars => SwarmInv'
<1> SUFFICES ASSUME SwarmInv, [SwarmNext]_swarmVars PROVE SwarmInv'
  OBVIOUS
<1>1. CASE SwarmNext
  BY <1>1, AddPexStep, HandshakeDoneStep, AddIncomingStep, PeerInterestStep, PeerHasAllStep, GotDataStep,
     PeerErrorStep, MarkAllStep, BadPieceStep, RechokeStep, ReconnectStep, AtomPulseStep, BlocklistStep,
     CompletenessStep, StartStep, StopSwarmStep, SaveStep, RestartStep
  DEF SwarmNext
<1>2. CASE UNCHANGED swarmVars
  BY <1>2 DEF swarmVars, SwarmInv, SwarmGood, Served
<1> QED
  BY <1>1, <1>2

\* Whatever handshakes end, peers say and pulses do, every connection has its atom,
\* the banned are about to go, and the upload slots are kept to.
THEOREM SwarmSound == SwarmSpec => [](AtomsKept /\ SlotsKept)
<1>1. SwarmInit => SwarmInv
  BY SwarmInitInv
<1>2. SwarmInv /\ [SwarmNext]_swarmVars => SwarmInv'
  BY SwarmStep
<1>3. SwarmInv => AtomsKept /\ SlotsKept
  BY SwarmInvSound
<1> QED
  BY <1>1, <1>2, <1>3, PTL DEF SwarmSpec

-----------------------------------------------------------------------------
(***************************************************************************)
(* For every set of peers, every number of pieces and of blocks in them: the *)
(* records of what was requested agree, nothing is asked for in vain, and a  *)
(* piece's replication covers the peers that have it.                       *)
(*                                                                         *)
(* The list of pieces is taken apart and put together again by every event: *)
(* what is proved of it is that each of its operations draws the entries of  *)
(* the new list from those of the old one, no entry twice.  Counts of        *)
(* requests are then compared with a set R of requests that need not be the  *)
(* torrent's, since the list is told of requests one by one after they left. *)
(***************************************************************************)
RequestsOf(R, q) == {r \in R : r.peer = q}
RequestsIn(R, p) == {r \in R : PieceOf(r.block) = p}

\* A list of pieces, each once, that counts no more requests than R has.
ListFits(s, R) ==
    /\ s \in Seq(WeightedPiece)
    /\ \A i, j \in DOMAIN s : s[i].index = s[j].index => i = j
    /\ \A i \in DOMAIN s : s[i].count <= Cardinality(RequestsIn(R, s[i].index))

\* The entries of s2 are those of s, in another order and perhaps fewer.
DrawnFrom(s2, s) ==
    /\ s2 \in Seq(WeightedPiece)
    /\ \E g \in [DOMAIN s2 -> DOMAIN s] :
          /\ \A i \in DOMAIN s2 : s2[i] = s[g[i]]
          /\ \A i, j \in DOMAIN s2 : g[i] = g[j] => i = j

Holders(t, p) == {q \in t.peers : p \in t.have[q]}
RarityKept(t) == t.rep # <<>> => \A p \in Pieces : t.rep[p] >= Cardinality(Holders(t, p))
CountsExact(t) == \A q \in AllPeers : t.pending[q] = Cardinality(RequestsOf(t.requests, q))
FewAsked(t) == \A b \in Blocks : /\ Cardinality(Asked(t, b)) <= 2
                                 /\ b \in t.done => Asked(t, b) = {}

TorrentFits(t, R) == t \in Torrent /\ ListFits(t.pieces, R) /\ RarityKept(t)
TorrentSound(t) == TorrentFits(t, t.requests) /\ CountsExact(t) /\ FewAsked(t)

\* Requests are of the peers P and of web seeds; of others nothing is known.
AskedOnly(t, P) == /\ \A r \in t.requests : r.peer \in P \cup Webseeds
                   /\ \A q \in BtPeers \ P : t.have[q] = {}

RequestsInv ==
    /\ TorrentSound(torrent) /\ AskedOnly(torrent, torrent.peers)
    /\ fetching \in [Webseeds -> SUBSET Blocks] /\ aged \subseteq torrent.requests
    /\ choked \subseteq torrent.peers /\ running \in BOOLEAN

\* What no operation on the list touches.
SameRequests(t, u) ==
    /\ u.requests = t.requests /\ u.pending = t.pending /\ u.peers = t.peers
    /\ u.done = t.done /\ u.wanted = t.wanted /\ u.have = t.have

-----------------------------------------------------------------------------
(* Everything is finite.                                                   *)

LEMMA PeersFinite ==
    /\ IsFiniteSet(AllPeers) /\ AllPeers \subseteq Nat
    /\ BtPeers \subseteq AllPeers /\ Webseeds \subseteq AllPeers
    /\ \A P \in SUBSET AllPeers : IsFiniteSet(P) /\ Cardinality(P) \in Nat
<1>1. IsFiniteSet(AllPeers) /\ AllPeers \subseteq Nat
  BY RequestsAssumption
<1>2. \A P \in SUBSET AllPeers : IsFiniteSet(P) /\ Cardinality(P) \in Nat
  BY <1>1, FS_Subset, FS_CardinalityType
<1> QED
  BY <1>1, <1>2 DEF AllPeers

LEMMA BlocksFinite ==
    /\ IsFiniteSet(Blocks) /\ Blocks \subseteq Nat \ {0}
    /\ IsFiniteSet(Pieces) /\ Pieces \subseteq Nat \ {0} /\ 1 \in Pieces
    /\ \A B \in SUBSET Blocks : IsFiniteSet(B) /\ Cardinality(B) \in Nat
<1> DEFINE last == (NumPieces - 1) * PieceBlocks + LastBlocks
<1>1. \A m, n \in Nat : m * n \in Nat
  BY SMT
<1>2. NumPieces - 1 \in Nat /\ PieceBlocks \in Nat /\ LastBlocks \in Nat /\ NumPieces \in Nat \ {0}
  BY RequestsAssumption
<1>3. last \in Nat
  BY <1>1, <1>2
<1>4. Blocks = 1..last
  BY DEF Blocks
<1> HIDE DEF last
<1>5. IsFiniteSet(1..last) /\ 1..last \subseteq Nat \ {0}
  BY <1>3, FS_Interval
<1>6. IsFiniteSet(Pieces) /\ Pieces \subseteq Nat \ {0} /\ 1 \in Pieces
  BY <1>2, FS_Interval DEF Pieces
<1>7. \A B \in SUBSET Blocks : IsFiniteSet(B) /\ Cardinality(B) \in Nat
  BY <1>4, <1>5, FS_Subset, FS_CardinalityType
<1> QED
  BY <1>4, <1>5, <1>6, <1>7

\* There are finitely many requests, and so is each set of them.
LEMMA RequestsFinite ==
    \A R \in SUBSET Request : IsFiniteSet(R) /\ Cardinality(R) \in Nat
<1>1. IsFiniteSet(Blocks \X AllPeers)
  BY FS_Product, PeersFinite, BlocksFinite
<1> DEFINE f == [x \in Blocks \X AllPeers |-> [block |-> x[1], peer |-> x[2]]]
<1>2. f \in [Blocks \X AllPeers -> Request]
  BY DEF Request
<1>3. ASSUME NEW r \in Request PROVE \E x \in Blocks \X AllPeers : f[x] = r
  <2>1. r.block \in Blocks /\ r.peer \in AllPeers /\ r = [block |-> r.block, peer |-> r.peer]
    BY DEF Request
  <2>2. <<r.block, r.peer>> \in Blocks \X AllPeers
    BY <2>1
  <2>3. f[<<r.block, r.peer>>] = [block |-> r.block, peer |-> r.peer]
    BY <2>2
  <2> QED
    BY <2>1, <2>2, <2>3
<1>4. f \in Surjection(Blocks \X AllPeers, Request)
  BY <1>2, <1>3 DEF Surjection
<1>5. IsFiniteSet(Request)
  BY <1>1, <1>4, FS_Surjection
<1> QED
  BY <1>5, FS_Subset, FS_CardinalityType

LEMMA PartsOfRequests ==
    ASSUME NEW R \in SUBSET Request
    PROVE  /\ \A q : RequestsOf(R, q) \in SUBSET R /\ IsFiniteSet(RequestsOf(R, q)) /\ Cardinality(RequestsOf(R, q)) \in Nat
           /\ \A p : RequestsIn(R, p) \in SUBSET R /\ IsFiniteSet(RequestsIn(R, p)) /\ Cardinality(RequestsIn(R, p)) \in Nat
<1>1. \A q : RequestsOf(R, q) \in SUBSET R
  BY DEF RequestsOf
<1>2. \A p : RequestsIn(R, p) \in SUBSET R
  BY DEF RequestsIn
<1>3. \A S \in SUBSET R : S \in SUBSET Request
  OBVIOUS
<1> QED
  BY <1>1, <1>2, <1>3, RequestsFinite

LEMMA HoldersFinite ==
    ASSUME NEW t \in Torrent
    PROVE  \A p : IsFiniteSet(Holders(t, p)) /\ Cardinality(Holders(t, p)) \in Nat
<1>1. \A p : Holders(t, p) \in SUBSET AllPeers
  BY PeersFinite DEF Holders, Torrent
<1> QED
  BY <1>1, PeersFinite

-----------------------------------------------------------------------------
(* Lists.                                                                  *)

LEMMA ListShape ==
    ASSUME NEW s \in Seq(WeightedPiece)
    PROVE  /\ Len(s) \in Nat /\ DOMAIN s = 1..Len(s)
           /\ \A i \in 1..Len(s) : s[i] \in WeightedPiece
BY LenProperties, ElementOfSeq

LEMMA DrawnFits ==
    ASSUME NEW R, NEW s, NEW s2, ListFits(s, R), DrawnFrom(s2, s)
    PROVE  ListFits(s2, R)
<1>1. PICK g \in [DOMAIN s2 -> DOMAIN s] :
          /\ \A i \in DOMAIN s2 : s2[i] = s[g[i]]
          /\ \A i, j \in DOMAIN s2 : g[i] = g[j] => i = j
  BY DEF DrawnFrom
<1>2. \A i \in DOMAIN s2 : g[i] \in DOMAIN s
  BY <1>1
<1>3. \A i, j \in DOMAIN s2 : s2[i].index = s2[j].index => i = j
  BY <1>1, <1>2 DEF ListFits
<1>4. \A i \in DOMAIN s2 : s2[i].count <= Cardinality(RequestsIn(R, s2[i].index))
  BY <1>1, <1>2 DEF ListFits
<1> QED
  BY <1>3, <1>4 DEF ListFits, DrawnFrom

LEMMA RemoveShape ==
    ASSUME NEW s \in Seq(WeightedPiece), NEW i \in 1..Len(s)
    PROVE  /\ RemoveAt(s, i) \in Seq(WeightedPiece) /\ Len(RemoveAt(s, i)) = Len(s) - 1
           /\ \A j \in 1..(Len(s) - 1) : RemoveAt(s, i)[j] = IF j < i THEN s[j] ELSE s[j + 1]
<1>1. Len(s) \in Nat /\ \A j \in 1..Len(s) : s[j] \in WeightedPiece
  BY ListShape
<1> DEFINE a == SubSeq(s, 1, i - 1)
           b == SubSeq(s, i + 1, Len(s))
<1>2. /\ a \in Seq(WeightedPiece) /\ Len(a) = i - 1
      /\ \A j \in 1..(i - 1) : a[j] = s[j]
  BY <1>1, SubSeqProperties
<1>3. /\ b \in Seq(WeightedPiece) /\ Len(b) = Len(s) - i
      /\ \A j \in 1..(Len(s) - i) : b[j] = s[i + j]
  <2> DEFINE m == i + 1
             n == Len(s)
  <2>1. m \in Int /\ n \in Int /\ \A j \in m..n : s[j] \in WeightedPiece
    BY <1>1
  <2>2. n - m + 1 = Len(s) - i /\ (IF m <= n THEN n - m + 1 ELSE 0) = Len(s) - i
    BY <1>1
  <2>3. \A j \in Int : m + j - 1 = i + j
    BY <1>1
  <2>5. b = SubSeq(s, m, n)
    OBVIOUS
  <2> HIDE DEF m, n
  <2>4. /\ SubSeq(s, m, n) \in Seq(WeightedPiece)
        /\ Len(SubSeq(s, m, n)) = IF m <= n THEN n - m + 1 ELSE 0
        /\ \A j \in 1..(n - m + 1) : SubSeq(s, m, n)[j] = s[m + j - 1]
    BY <2>1, SubSeqProperties
  <2> HIDE DEF b
  <2>6. b \in Seq(WeightedPiece) /\ Len(b) = Len(s) - i
    BY <2>2, <2>4, <2>5
  <2>7. \A j \in 1..(Len(s) - i) : b[j] = s[m + j - 1]
    BY <2>2, <2>4, <2>5
  <2>8. \A j \in 1..(Len(s) - i) : j \in Int
    OBVIOUS
  <2> QED
    BY <2>3, <2>6, <2>7, <2>8
<1>4. RemoveAt(s, i) = a \o b
  BY DEF RemoveAt
<1> HIDE DEF a, b
<1>5. /\ a \o b \in Seq(WeightedPiece) /\ Len(a \o b) = Len(a) + Len(b)
      /\ \A j \in 1..(Len(a) + Len(b)) : (a \o b)[j] = IF j <= Len(a) THEN a[j] ELSE b[j - Len(a)]
  BY <1>2, <1>3, ConcatProperties
<1>6. ASSUME NEW j \in 1..(Len(s) - 1) PROVE (a \o b)[j] = IF j < i THEN s[j] ELSE s[j + 1]
  <2>1. j \in Int /\ i \in Int /\ Len(s) \in Nat /\ 1 <= j /\ j <= Len(s) - 1
    BY <1>1
  <2>2. CASE j < i
    <3>2. j \in 1..(Len(a) + Len(b)) /\ j <= Len(a) /\ j \in 1..(i - 1)
      BY <1>2, <1>3, <2>1, <2>2
    <3>1. (a \o b)[j] = a[j] /\ a[j] = s[j]
      BY <1>2, <1>5, <3>2
    <3> QED
      BY <2>2, <3>1
  <2>3. CASE ~(j < i)
    <3>1. j - (i - 1) \in 1..(Len(s) - i) /\ i + (j - (i - 1)) = j + 1
      BY <2>1, <2>3
    <3>2. b[j - (i - 1)] = s[j + 1]
      BY <1>3, <3>1
    <3>3. (a \o b)[j] = b[j - (i - 1)]
      BY <1>2, <1>3, <1>5, <2>1, <2>3
    <3> QED
      BY <2>3, <3>2, <3>3
  <2> QED
    BY <2>2, <2>3
<1> QED
  BY <1>1, <1>2, <1>3, <1>4, <1>5, <1>6

LEMMA InsertShape ==
    ASSUME NEW s \in Seq(WeightedPiece), NEW x \in WeightedPiece, NEW k \in 1..(Len(s) + 1)
    PROVE  /\ InsertAt(s, k, x) \in Seq(WeightedPiece) /\ Len(InsertAt(s, k, x)) = Len(s) + 1
           /\ \A j \in 1..(Len(s) + 1) :
                 InsertAt(s, k, x)[j] = IF j < k THEN s[j] ELSE IF j = k THEN x ELSE s[j - 1]
<1>1. Len(s) \in Nat /\ \A j \in 1..Len(s) : s[j] \in WeightedPiece
  BY ListShape
<1> DEFINE a == SubSeq(s, 1, k - 1)
           m == Append(a, x)
           b == SubSeq(s, k, Len(s))
<1>2. /\ a \in Seq(WeightedPiece) /\ Len(a) = k - 1
      /\ \A j \in 1..(k - 1) : a[j] = s[j]
  BY <1>1, SubSeqProperties
<1>3. /\ b \in Seq(WeightedPiece) /\ Len(b) = Len(s) - k + 1
      /\ \A j \in 1..(Len(s) - k + 1) : b[j] = s[k + j - 1]
  BY <1>1, SubSeqProperties
<1>4. a \o <<x>> = m
  <2> HIDE DEF a
  <2> QED
    BY <1>2, AppendIsConcat
<1>5. /\ m \in Seq(WeightedPiece) /\ Len(m) = k /\ m[k] = x
      /\ \A j \in 1..(k - 1) : m[j] = s[j]
  <2> HIDE DEF a
  <2> QED
    BY <1>2, AppendProperties
<1>6. InsertAt(s, k, x) = m \o b
  BY <1>4 DEF InsertAt
<1> HIDE DEF a, b, m
<1>7. /\ m \o b \in Seq(WeightedPiece) /\ Len(m \o b) = Len(m) + Len(b)
      /\ \A j \in 1..(Len(m) + Len(b)) : (m \o b)[j] = IF j <= Len(m) THEN m[j] ELSE b[j - Len(m)]
  BY <1>3, <1>5, ConcatProperties
<1>8. ASSUME NEW j \in 1..(Len(s) + 1)
      PROVE  (m \o b)[j] = IF j < k THEN s[j] ELSE IF j = k THEN x ELSE s[j - 1]
  <2>0. j \in Int /\ k \in Int /\ Len(s) \in Nat /\ 1 <= j /\ j <= Len(s) + 1
    BY <1>1
  <2>1. CASE j <= k
    <3>1. (m \o b)[j] = m[j]
      BY <2>0, <1>3, <1>5, <1>7, <2>1
    <3>2. j < k => m[j] = s[j]
      BY <2>0, <1>5
    <3>3. m[k] = x
      BY <1>5
    <3>4. j = k \/ j < k
      BY <2>0, <2>1
    <3> QED
      BY <3>1, <3>2, <3>3, <3>4
  <2>2. CASE j > k
    <3>1. j - k \in 1..(Len(s) - k + 1) /\ k + (j - k) - 1 = j - 1
      BY <1>1, <2>2
    <3>2. b[j - k] = s[j - 1]
      BY <1>3, <3>1
    <3>3. (m \o b)[j] = b[j - k]
      BY <1>1, <1>3, <1>5, <1>7, <2>2
    <3>4. ~(j < k) /\ j # k
      BY <2>0, <2>2
    <3> QED
      BY <3>4, <3>2, <3>3
  <2>3. j <= k \/ j > k
    BY <2>0
  <2> QED
    BY <2>1, <2>2, <2>3
<1> QED
  BY <1>1, <1>3, <1>5, <1>6, <1>7, <1>8

\* A place is always found.
LEMMA PlaceIsInsert ==
    ASSUME NEW t, NEW s \in Seq(WeightedPiece), NEW x
    PROVE  \E k \in 1..(Len(s) + 1) : Place(t, s, x) = InsertAt(s, k, x)
<1>1. Len(s) \in Nat
  BY ListShape
<1> DEFINE C == {i \in 1..(Len(s) + 1) : i <= Len(s) => ~Before(t, s[i], x)}
           K == {i \in 1..(Len(s) + 1) : /\ \A j \in 1..(i - 1) : Before(t, s[j], x)
                                         /\ i <= Len(s) => ~Before(t, s[i], x)}
           k == CHOOSE i \in 1..(Len(s) + 1) : /\ \A j \in 1..(i - 1) : Before(t, s[j], x)
                                               /\ i <= Len(s) => ~Before(t, s[i], x)
<1>2. C \in SUBSET Nat /\ Len(s) + 1 \in C
  BY <1>1
<1> HIDE DEF C
<1>3. PICK i \in C : \A j \in C : i <= j
  BY <1>2, LeastNat
<1>4. i \in 1..(Len(s) + 1) /\ (i <= Len(s) => ~Before(t, s[i], x))
  BY <1>3 DEF C
<1>5. ASSUME NEW j \in 1..(i - 1) PROVE Before(t, s[j], x)
  <2>1. j \in 1..(Len(s) + 1) /\ j < i
    BY <1>1, <1>4
  <2>2. j \notin C
    BY <1>3, <1>4, <2>1, <1>1
  <2> QED
    BY <2>1, <2>2 DEF C
<1>6. k \in 1..(Len(s) + 1)
  BY <1>4, <1>5
<1> QED
  BY <1>6 DEF Place

LEMMA DrawnBy ==
    ASSUME NEW s \in Seq(WeightedPiece), NEW s2 \in Seq(WeightedPiece), NEW g,
           g \in [1..Len(s2) -> 1..Len(s)],
           \A i \in 1..Len(s2) : s2[i] = s[g[i]],
           \A i, j \in 1..Len(s2) : g[i] = g[j] => i = j
    PROVE  DrawnFrom(s2, s)
<1>1. DOMAIN s = 1..Len(s) /\ DOMAIN s2 = 1..Len(s2)
  BY ListShape
<1> QED
  BY <1>1 DEF DrawnFrom

LEMMA RemovedDrawn ==
    ASSUME NEW s \in Seq(WeightedPiece), NEW i \in 1..Len(s)
    PROVE  DrawnFrom(RemoveAt(s, i), s)
<1>1. Len(s) \in Nat
  BY ListShape
<1> DEFINE s2 == RemoveAt(s, i)
           g == [j \in 1..(Len(s) - 1) |-> IF j < i THEN j ELSE j + 1]
<1>2. /\ s2 \in Seq(WeightedPiece) /\ Len(s2) = Len(s) - 1
      /\ \A j \in 1..(Len(s) - 1) : s2[j] = IF j < i THEN s[j] ELSE s[j + 1]
  BY RemoveShape
<1> HIDE DEF s2
<1>3. g \in [1..Len(s2) -> 1..Len(s)]
  BY <1>1, <1>2
<1>4. \A j \in 1..Len(s2) : g[j] = IF j < i THEN j ELSE j + 1
  BY <1>2
<1> HIDE DEF g
<1>5. \A j \in 1..Len(s2) : s2[j] = s[g[j]]
  BY <1>2, <1>4
<1>6. \A j, h \in 1..Len(s2) : g[j] = g[h] => j = h
  BY <1>1, <1>2, <1>4
<1>7. DrawnFrom(s2, s)
  BY <1>2, <1>3, <1>5, <1>6, DrawnBy
<1> QED
  BY <1>7 DEF s2

\* A piece that is moved.
LEMMA MovedDrawn ==
    ASSUME NEW t, NEW s \in Seq(WeightedPiece), NEW i \in 1..Len(s)
    PROVE  DrawnFrom(Place(t, RemoveAt(s, i), s[i]), s)
<1>1. Len(s) \in Nat /\ s[i] \in WeightedPiece
  BY ListShape
<1> DEFINE r == RemoveAt(s, i)
           x == s[i]
<1>2. /\ r \in Seq(WeightedPiece) /\ Len(r) = Len(s) - 1
      /\ \A j \in 1..(Len(s) - 1) : r[j] = IF j < i THEN s[j] ELSE s[j + 1]
  BY RemoveShape
<1> HIDE DEF r, x
<1>3. PICK k \in 1..(Len(r) + 1) : Place(t, r, x) = InsertAt(r, k, x)
  BY <1>2, PlaceIsInsert
<1> DEFINE s2 == InsertAt(r, k, x)
           Back(j) == IF j < i THEN j ELSE j + 1
           g == [j \in 1..Len(s) |-> IF j = k THEN i ELSE IF j < k THEN Back(j) ELSE Back(j - 1)]
<1>4. /\ s2 \in Seq(WeightedPiece) /\ Len(s2) = Len(r) + 1
      /\ \A j \in 1..(Len(r) + 1) : s2[j] = IF j < k THEN r[j] ELSE IF j = k THEN x ELSE r[j - 1]
  BY <1>1, <1>2, <1>3, InsertShape, ZenonT(60) DEF x
<1> HIDE DEF s2
<1>5. Len(s2) = Len(s) /\ k \in 1..Len(s)
  BY <1>1, <1>2, <1>4
<1>6. \A j \in 1..Len(s) : g[j] = IF j = k THEN i ELSE IF j < k THEN Back(j) ELSE Back(j - 1)
  OBVIOUS
<1>7. g \in [1..Len(s2) -> 1..Len(s)]
  BY <1>1, <1>5
<1> HIDE DEF g
<1>8. ASSUME NEW j \in 1..Len(s2) PROVE s2[j] = s[g[j]]
  <2>1. CASE j = k
    BY <1>1, <1>2, <1>4, <1>5, <1>6, <2>1 DEF x
  <2>2. CASE j < k
    <3>1. j \in 1..(Len(s) - 1) /\ j \in 1..(Len(r) + 1) /\ j \in 1..Len(s) /\ j # k
      BY <1>1, <1>2, <1>5, <2>2
    <3>2. s2[j] = r[j] /\ g[j] = Back(j)
      BY <1>4, <1>6, <2>2, <3>1
    <3>3. r[j] = IF j < i THEN s[j] ELSE s[j + 1]
      BY <1>2, <3>1
    <3> QED
      BY <3>2, <3>3
  <2>3. CASE j > k
    <3>1. j - 1 \in 1..(Len(s) - 1) /\ j \in 1..(Len(r) + 1) /\ j \in 1..Len(s) /\ ~(j < k) /\ j # k
      BY <1>1, <1>2, <1>5, <2>3
    <3>2. s2[j] = r[j - 1] /\ g[j] = Back(j - 1)
      BY <1>4, <1>6, <3>1
    <3>3. r[j - 1] = IF j - 1 < i THEN s[j - 1] ELSE s[(j - 1) + 1]
      BY <1>2, <3>1
    <3> QED
      BY <3>2, <3>3
  <2>4. j = k \/ j < k \/ j > k
    BY <1>5
  <2> QED
    BY <2>1, <2>2, <2>3, <2>4
<1>9. \A j, h \in 1..Len(s2) : g[j] = g[h] => j = h
  BY <1>1, <1>5, <1>6
<1>10. DrawnFrom(s2, s)
  BY <1>4, <1>7, <1>8, <1>9, DrawnBy, SMTT(40)
<1> QED
  BY <1>3, <1>10 DEF s2, r, x

\* A piece that is moved among those behind it.
LEMMA InsertedDrawn ==
    ASSUME NEW t, NEW s \in Seq(WeightedPiece), NEW i \in 1..Len(s)
    PROVE  LET s2 == SubSeq(s, 1, i - 1) \o Place(t, SubSeq(s, i + 1, Len(s)), s[i])
           IN  DrawnFrom(s2, s) /\ Len(s2) = Len(s)
<1>1. Len(s) \in Nat /\ s[i] \in WeightedPiece /\ \A j \in 1..Len(s) : s[j] \in WeightedPiece
  BY ListShape
<1> DEFINE a == SubSeq(s, 1, i - 1)
           b == SubSeq(s, i + 1, Len(s))
           x == s[i]
<1>2. /\ a \in Seq(WeightedPiece) /\ Len(a) = i - 1
      /\ \A j \in 1..(i - 1) : a[j] = s[j]
  BY <1>1, SubSeqProperties
<1>3. /\ b \in Seq(WeightedPiece) /\ Len(b) = Len(s) - i
      /\ \A j \in 1..(Len(s) - i) : b[j] = s[i + j]
  <2> DEFINE m == i + 1
             n == Len(s)
  <2>1. m \in Int /\ n \in Int /\ \A j \in m..n : s[j] \in WeightedPiece
    BY <1>1
  <2>2. n - m + 1 = Len(s) - i /\ (IF m <= n THEN n - m + 1 ELSE 0) = Len(s) - i
    BY <1>1
  <2>3. \A j \in Int : m + j - 1 = i + j
    BY <1>1
  <2>5. b = SubSeq(s, m, n)
    OBVIOUS
  <2> HIDE DEF m, n
  <2>4. /\ SubSeq(s, m, n) \in Seq(WeightedPiece)
        /\ Len(SubSeq(s, m, n)) = IF m <= n THEN n - m + 1 ELSE 0
        /\ \A j \in 1..(n - m + 1) : SubSeq(s, m, n)[j] = s[m + j - 1]
    BY <2>1, SubSeqProperties
  <2> HIDE DEF b
  <2>6. b \in Seq(WeightedPiece) /\ Len(b) = Len(s) - i
    BY <2>2, <2>4, <2>5
  <2>7. \A j \in 1..(Len(s) - i) : b[j] = s[m + j - 1]
    BY <2>2, <2>4, <2>5
  <2>8. \A j \in 1..(Len(s) - i) : j \in Int
    OBVIOUS
  <2> QED
    BY <2>3, <2>6, <2>7, <2>8
<1> HIDE DEF a, b, x
<1>4. PICK k \in 1..(Len(b) + 1) : Place(t, b, x) = InsertAt(b, k, x)
  BY <1>3, PlaceIsInsert
<1> DEFINE c == InsertAt(b, k, x)
           s2 == a \o c
           g == [j \in 1..Len(s) |-> IF j < i THEN j ELSE IF j < i + k - 1 THEN j + 1
                                     ELSE IF j = i + k - 1 THEN i ELSE j]
<1>5. /\ c \in Seq(WeightedPiece) /\ Len(c) = Len(b) + 1
      /\ \A j \in 1..(Len(b) + 1) : c[j] = IF j < k THEN b[j] ELSE IF j = k THEN x ELSE b[j - 1]
  BY <1>1, <1>3, <1>4, InsertShape, ZenonT(60) DEF x
<1> HIDE DEF c
<1>6. /\ s2 \in Seq(WeightedPiece) /\ Len(s2) = Len(a) + Len(c)
      /\ \A j \in 1..(Len(a) + Len(c)) : s2[j] = IF j <= Len(a) THEN a[j] ELSE c[j - Len(a)]
  BY <1>2, <1>5, ConcatProperties
<1> HIDE DEF s2
<1>7. Len(s2) = Len(s) /\ k \in 1..(Len(s) - i + 1) /\ Len(a) + Len(c) = Len(s)
  BY <1>1, <1>2, <1>3, <1>5, <1>6
<1>8. \A j \in 1..Len(s) : g[j] = IF j < i THEN j ELSE IF j < i + k - 1 THEN j + 1
                                  ELSE IF j = i + k - 1 THEN i ELSE j
  OBVIOUS
<1>9. g \in [1..Len(s2) -> 1..Len(s)]
  BY <1>1, <1>7
<1> HIDE DEF g
<1>10. ASSUME NEW j \in 1..Len(s2) PROVE s2[j] = s[g[j]]
  <2>0. j \in Int /\ i \in Int /\ k \in Int /\ j \in 1..Len(s)
    BY <1>7
  <2>1. CASE j < i
    <3>1. j \in 1..(Len(a) + Len(c)) /\ j <= Len(a) /\ j \in 1..(i - 1)
      BY <1>1, <1>2, <1>7, <2>0, <2>1
    <3> QED
      BY <1>2, <1>6, <1>8, <2>0, <2>1, <3>1
  <2>2. CASE ~(j < i)
    <3> DEFINE h == j - (i - 1)
    <3>1. /\ h \in 1..(Len(b) + 1) /\ ~(j <= Len(a)) /\ j \in 1..(Len(a) + Len(c)) /\ j - Len(a) = h
      BY <1>1, <1>2, <1>3, <1>7, <2>0, <2>2
    <3>2. s2[j] = c[h]
      <4> HIDE DEF h
      <4> QED
        BY <1>6, <3>1
    <3>3. CASE j < i + k - 1
      <4>1. h < k /\ h \in 1..(Len(s) - i) /\ i + h = j + 1
        BY <1>1, <1>3, <1>7, <2>0, <2>2, <3>3
      <4>2. c[h] = b[h] /\ b[h] = s[i + h]
        <5> HIDE DEF h
        <5> QED
          BY <1>3, <1>5, <3>1, <4>1
      <4>3. g[j] = j + 1
        BY <1>8, <2>0, <2>2, <3>3
      <4> QED
        BY <3>2, <4>1, <4>2, <4>3
    <3>4. CASE j = i + k - 1
      <4>1. h = k
        BY <2>0, <3>4
      <4>2. c[h] = x /\ ~(j < i + k - 1)
        <5> HIDE DEF h
        <5> QED
          BY <1>5, <3>1, <4>1, <3>4, <2>0
      <4>3. g[j] = i
        BY <1>8, <2>0, <2>2, <3>4, <4>2
      <4> QED
        BY <3>2, <4>2, <4>3 DEF x
    <3>5. CASE j > i + k - 1
      <4>1. ~(h < k) /\ h # k /\ h - 1 \in 1..(Len(s) - i) /\ i + (h - 1) = j
        BY <1>1, <1>3, <1>7, <2>0, <2>2, <3>5
      <4>2. c[h] = b[h - 1] /\ b[h - 1] = s[i + (h - 1)]
        <5> HIDE DEF h
        <5> QED
          BY <1>3, <1>5, <3>1, <4>1
      <4>3. g[j] = j
        BY <1>8, <2>0, <2>2, <3>5
      <4> QED
        BY <3>2, <4>1, <4>2, <4>3
    <3>6. j < i + k - 1 \/ j = i + k - 1 \/ j > i + k - 1
      BY <2>0
    <3> QED
      BY <3>3, <3>4, <3>5, <3>6
  <2> QED
    BY <2>1, <2>2
<1>11. \A j, h \in 1..Len(s2) : g[j] = g[h] => j = h
  BY <1>1, <1>7, <1>8
<1>12. DrawnFrom(s2, s)
  BY <1>6, <1>9, <1>10, <1>11, DrawnBy
<1>13. s2 = a \o Place(t, b, x)
  BY <1>4 DEF s2, c
<1> QED
  BY <1>7, <1>12, <1>13 DEF a, b, x

-----------------------------------------------------------------------------
(* The order of pieces is strict and total, so that each has a rank.       *)

LEMMA TorrentFields ==
    ASSUME NEW t \in Torrent
    PROVE  /\ t.requests \in SUBSET Request /\ t.pieces \in Seq(WeightedPiece)
           /\ t.state \in {"unsorted", "weight"}
           /\ t.rep \in [Pieces -> Nat] \cup {<<>>} /\ t.endgame \in Nat /\ t.peers \in SUBSET BtPeers
           /\ t.pending \in [AllPeers -> Nat] /\ t.done \in SUBSET Blocks /\ t.wanted \in SUBSET Pieces
           /\ t.have \in [AllPeers -> SUBSET Pieces]
BY DEF Torrent

LEMMA RepIsCounted == <<>> \notin [Pieces -> Nat]
<1>1. DOMAIN <<>> = {}
  OBVIOUS
<1>2. \A f \in [Pieces -> Nat] : DOMAIN f = Pieces
  OBVIOUS
<1> QED
  BY <1>1, <1>2, BlocksFinite

\* Order of four keys.
Less4(a, b, c, d, e, f, g, h) ==
    \/ a < e
    \/ a = e /\ b < f
    \/ a = e /\ b = f /\ c < g
    \/ a = e /\ b = f /\ c = g /\ d < h

LEMMA BeforeMeans ==
    ASSUME NEW t, NEW x, NEW y
    PROVE  Before(t, x, y) <=>
             Less4(Weight(t, x), IF x.index \in HighPieces THEN 0 ELSE 1, t.rep[x.index], x.index,
                   Weight(t, y), IF y.index \in HighPieces THEN 0 ELSE 1, t.rep[y.index], y.index)
<1> DEFINE Key(z) == <<Weight(t, z), IF z.index \in HighPieces THEN 0 ELSE 1, t.rep[z.index], z.index>>
           k == Key(x)
           l == Key(y)
<1>1. Before(t, x, y) <=> \E i \in 1..4 : k[i] < l[i] /\ \A j \in 1..(i - 1) : k[j] = l[j]
  BY DEF Before
<1>2. /\ k[1] = Weight(t, x) /\ l[1] = Weight(t, y)
      /\ k[2] = (IF x.index \in HighPieces THEN 0 ELSE 1) /\ l[2] = (IF y.index \in HighPieces THEN 0 ELSE 1)
      /\ k[3] = t.rep[x.index] /\ l[3] = t.rep[y.index]
      /\ k[4] = x.index /\ l[4] = y.index
  OBVIOUS
<1> HIDE DEF k, l
<1>3. (\E i \in 1..4 : k[i] < l[i] /\ \A j \in 1..(i - 1) : k[j] = l[j]) <=>
         Less4(k[1], k[2], k[3], k[4], l[1], l[2], l[3], l[4])
  <2>1. 1..4 = {1, 2, 3, 4} /\ 1..(1 - 1) = {} /\ 1..(2 - 1) = {1} /\ 1..(3 - 1) = {1, 2} /\ 1..(4 - 1) = {1, 2, 3}
    OBVIOUS
  <2> DEFINE P(i) == k[i] < l[i] /\ \A j \in 1..(i - 1) : k[j] = l[j]
  <2>2. P(1) <=> k[1] < l[1]
    BY <2>1
  <2>3. P(2) <=> k[1] = l[1] /\ k[2] < l[2]
    BY <2>1
  <2>4. P(3) <=> k[1] = l[1] /\ k[2] = l[2] /\ k[3] < l[3]
    BY <2>1
  <2>5. P(4) <=> k[1] = l[1] /\ k[2] = l[2] /\ k[3] = l[3] /\ k[4] < l[4]
    BY <2>1
  <2> HIDE DEF P
  <2>6. (\E i \in 1..4 : P(i)) <=> P(1) \/ P(2) \/ P(3) \/ P(4)
    BY <2>1
  <2>7. (\E i \in 1..4 : P(i)) <=> Less4(k[1], k[2], k[3], k[4], l[1], l[2], l[3], l[4])
    BY <2>2, <2>3, <2>4, <2>5, <2>6 DEF Less4
  <2> QED
    BY <2>7 DEF P
<1> QED
  BY <1>1, <1>2, <1>3

LEMMA WeightIsNumber ==
    ASSUME NEW t \in Torrent, NEW x \in WeightedPiece
    PROVE  Weight(t, x) \in Int
<1>1. BlocksOf(x.index) \ t.done \in SUBSET Blocks
  BY DEF BlocksOf
<1>2. Missing(t, x.index) \in Nat
  BY <1>1, BlocksFinite DEF Missing
<1>3. x.count \in Nat /\ PieceBlocks \in Nat
  BY RequestsAssumption DEF WeightedPiece
<1> QED
  BY <1>2, <1>3 DEF Weight

LEMMA Less4Total ==
    ASSUME NEW a \in Int, NEW b \in Int, NEW c \in Int, NEW d \in Int,
           NEW e \in Int, NEW f \in Int, NEW g \in Int, NEW h \in Int
    PROVE  Less4(a, b, c, d, e, f, g, h) \/ Less4(e, f, g, h, a, b, c, d) \/ d = h
BY DEF Less4

LEMMA Less4Irreflexive ==
    ASSUME NEW a \in Int, NEW b \in Int, NEW c \in Int, NEW d \in Int
    PROVE  ~Less4(a, b, c, d, a, b, c, d)
BY DEF Less4

LEMMA Less4Transitive ==
    ASSUME NEW a \in Int, NEW b \in Int, NEW c \in Int, NEW d \in Int,
           NEW e \in Int, NEW f \in Int, NEW g \in Int, NEW h \in Int,
           NEW i \in Int, NEW j \in Int, NEW k \in Int, NEW l \in Int,
           Less4(a, b, c, d, e, f, g, h), Less4(e, f, g, h, i, j, k, l)
    PROVE  Less4(a, b, c, d, i, j, k, l)
BY DEF Less4

LEMMA BeforeIsOrder ==
    ASSUME NEW t \in Torrent, t.rep # <<>>
    PROVE  /\ \A x \in WeightedPiece : ~Before(t, x, x)
           /\ \A x, y \in WeightedPiece : x.index # y.index => Before(t, x, y) \/ Before(t, y, x)
           /\ \A x, y, z \in WeightedPiece : Before(t, x, y) /\ Before(t, y, z) => Before(t, x, z)
<1> DEFINE High(x) == IF x.index \in HighPieces THEN 0 ELSE 1
<1>1. ASSUME NEW x \in WeightedPiece
      PROVE  Weight(t, x) \in Int /\ High(x) \in Int /\ t.rep[x.index] \in Int /\ x.index \in Int
  <2>1. x.index \in Pieces /\ x.index \in Int
    BY DEF WeightedPiece, Pieces
  <2>2. t.rep \in [Pieces -> Nat]
    BY TorrentFields
  <2> QED
    BY <2>1, <2>2, WeightIsNumber
<1> DEFINE L(x, y) == Less4(Weight(t, x), High(x), t.rep[x.index], x.index, Weight(t, y), High(y), t.rep[y.index], y.index)
<1>2. \A x, y : Before(t, x, y) <=> L(x, y)
  BY BeforeMeans
<1> HIDE DEF High
<1>3. \A x \in WeightedPiece : ~L(x, x)
  BY <1>1, Less4Irreflexive
<1>4. ASSUME NEW x \in WeightedPiece, NEW y \in WeightedPiece, x.index # y.index
      PROVE  L(x, y) \/ L(y, x)
  <2>1. /\ Weight(t, x) \in Int /\ High(x) \in Int /\ t.rep[x.index] \in Int /\ x.index \in Int
        /\ Weight(t, y) \in Int /\ High(y) \in Int /\ t.rep[y.index] \in Int /\ y.index \in Int
    BY <1>1
  <2> DEFINE a == Weight(t, x) b == High(x) c == t.rep[x.index] d == x.index
             e == Weight(t, y) f == High(y) g == t.rep[y.index] h == y.index
  <2>2. L(x, y) \/ L(y, x) \/ x.index = y.index
    <3>1. a \in Int /\ b \in Int /\ c \in Int /\ d \in Int /\ e \in Int /\ f \in Int /\ g \in Int /\ h \in Int
      BY <2>1
    <3>2. L(x, y) <=> Less4(a, b, c, d, e, f, g, h)
      OBVIOUS
    <3>3. L(y, x) <=> Less4(e, f, g, h, a, b, c, d)
      OBVIOUS
    <3>5. d = x.index /\ h = y.index
      OBVIOUS
    <3> HIDE DEF a, b, c, d, e, f, g, h, L
    <3>4. Less4(a, b, c, d, e, f, g, h) \/ Less4(e, f, g, h, a, b, c, d) \/ d = h
      BY <3>1, Less4Total
    <3> QED
      BY <3>2, <3>3, <3>4, <3>5
  <2> QED
    BY <1>4, <2>2
<1>5. ASSUME NEW x \in WeightedPiece, NEW y \in WeightedPiece, NEW z \in WeightedPiece, L(x, y), L(y, z)
      PROVE  L(x, z)
  <2>1. /\ Weight(t, x) \in Int /\ High(x) \in Int /\ t.rep[x.index] \in Int /\ x.index \in Int
        /\ Weight(t, y) \in Int /\ High(y) \in Int /\ t.rep[y.index] \in Int /\ y.index \in Int
        /\ Weight(t, z) \in Int /\ High(z) \in Int /\ t.rep[z.index] \in Int /\ z.index \in Int
    BY <1>1
  <2> QED
    BY <1>5, <2>1, Less4Transitive
<1> HIDE DEF L
<1> QED
  BY <1>2, <1>3, <1>4, <1>5

\* The entries of S, no piece twice, have the ranks 0 to Cardinality(S) - 1.
LEMMA RanksCover ==
    ASSUME NEW t \in Torrent, t.rep # <<>>, NEW S \in SUBSET WeightedPiece, IsFiniteSet(S),
           \A x, y \in S : x.index = y.index => x = y
    PROVE  \A i \in 1..Cardinality(S) : \E x \in S : Cardinality({y \in S : Before(t, y, x)}) = i - 1
<1> DEFINE Below(x) == {y \in S : Before(t, y, x)}
           n == Cardinality(S)
           rank == [x \in S |-> Cardinality(Below(x))]
<1>1. n \in Nat
  BY FS_CardinalityType
<1>2. ASSUME NEW x \in S
      PROVE  IsFiniteSet(Below(x)) /\ Cardinality(Below(x)) \in Nat /\ Cardinality(Below(x)) <= n - 1
  <2>1. Below(x) \in SUBSET (S \ {x}) /\ x \in S
    BY BeforeIsOrder
  <2>2. IsFiniteSet(S \ {x}) /\ Cardinality(S \ {x}) = n - 1
    BY FS_RemoveElement
  <2> HIDE DEF Below, n
  <2>3. IsFiniteSet(Below(x)) /\ Cardinality(Below(x)) <= Cardinality(S \ {x})
    BY <2>1, <2>2, FS_Subset
  <2> QED
    BY <2>2, <2>3, FS_CardinalityType
<1>3. ASSUME NEW x \in S, NEW y \in S, Before(t, x, y)
      PROVE  Cardinality(Below(x)) < Cardinality(Below(y))
  <2>1. Below(x) \in SUBSET Below(y)
    BY <1>3, BeforeIsOrder
  <2>2. x \in Below(y) /\ x \notin Below(x)
    BY <1>3, BeforeIsOrder
  <2>3. /\ Cardinality(Below(x)) <= Cardinality(Below(y))
        /\ Cardinality(Below(y)) = Cardinality(Below(x)) => Below(y) = Below(x)
    <3> HIDE DEF Below
    <3> QED
      BY <1>2, <2>1, FS_Subset
  <2> HIDE DEF Below
  <2> QED
    BY <1>2, <2>2, <2>3
<1>4. ASSUME NEW x \in S, NEW y \in S, x # y
      PROVE  Cardinality(Below(x)) # Cardinality(Below(y))
  <2>1. x.index # y.index
    BY <1>4
  <2>2. Before(t, x, y) \/ Before(t, y, x)
    BY <2>1, BeforeIsOrder
  <2> HIDE DEF Below
  <2> QED
    BY <1>2, <1>3, <2>2
<1> HIDE DEF Below
<1>5. rank \in [S -> 0..(n - 1)]
  BY <1>1, <1>2
<1>6. \A x \in S : rank[x] = Cardinality(Below(x))
  OBVIOUS
<1> HIDE DEF rank
<1>7. \A x, y \in S : rank[x] = rank[y] => x = y
  BY <1>4, <1>6
<1>8. rank \in Injection(S, 0..(n - 1))
  BY <1>5, <1>7 DEF Injection, IsInjective
<1>9. IsFiniteSet(0..(n - 1)) /\ Cardinality(0..(n - 1)) = n
  <2> DEFINE last == n - 1
  <2>1. last \in Int /\ (IF 0 > last THEN 0 ELSE last - 0 + 1) = n
    BY <1>1
  <2> HIDE DEF last
  <2>2. IsFiniteSet(0..last) /\ Cardinality(0..last) = IF 0 > last THEN 0 ELSE last - 0 + 1
    BY <2>1, FS_Interval
  <2> QED
    BY <2>1, <2>2 DEF last
<1>10. rank \in Surjection(S, 0..(n - 1))
  <2> DEFINE T == 0..(n - 1)
  <2>1. rank \in Injection(S, T) /\ IsFiniteSet(T) /\ Cardinality(S) = Cardinality(T)
    BY <1>8, <1>9
  <2> HIDE DEF T
  <2>2. Cardinality(S) = Cardinality(T) <=> rank \in Surjection(S, T)
    BY <2>1, FS_Injection
  <2> QED
    BY <2>1, <2>2 DEF T
<1>11. ASSUME NEW i \in 1..n PROVE \E x \in S : Cardinality(Below(x)) = i - 1
  <2>1. i - 1 \in 0..(n - 1)
    BY <1>1
  <2>2. \E x \in S : rank[x] = i - 1
    BY <1>10, <2>1 DEF Surjection
  <2> QED
    BY <1>6, <2>2
<1> QED
  BY <1>11 DEF Below

\* A sorted list of the entries of S has each of them once.
LEMMA ByWeightLists ==
    ASSUME NEW t \in Torrent, t.rep # <<>>, NEW S \in SUBSET WeightedPiece, IsFiniteSet(S),
           \A x, y \in S : x.index = y.index => x = y
    PROVE  /\ ByWeight(t, S) \in Seq(WeightedPiece)
           /\ \A i \in DOMAIN ByWeight(t, S) : ByWeight(t, S)[i] \in S
           /\ \A i, j \in DOMAIN ByWeight(t, S) : ByWeight(t, S)[i].index = ByWeight(t, S)[j].index => i = j
<1> DEFINE n == Cardinality(S)
           RankOf(x) == Cardinality({y \in S : Before(t, y, x)})
           s == [i \in 1..n |-> CHOOSE x \in S : RankOf(x) = i - 1]
<1>1. n \in Nat
  BY FS_CardinalityType
<1>2. \A i \in 1..n : \E x \in S : RankOf(x) = i - 1
  BY RanksCover
<1>3. s = ByWeight(t, S)
  BY DEF ByWeight
<1> HIDE DEF RankOf
<1>4. \A i \in 1..n : s[i] \in S /\ RankOf(s[i]) = i - 1
  BY <1>2
<1>5. DOMAIN s = 1..n /\ s \in [1..n -> S]
  BY <1>4
<1> HIDE DEF s
<1>6. s \in Seq(WeightedPiece)
  <2>1. s \in [1..n -> WeightedPiece]
    BY <1>5
  <2> HIDE DEF n
  <2> QED
    BY <1>1, <2>1, SeqDef
<1>7. ASSUME NEW i \in 1..n, NEW j \in 1..n, s[i].index = s[j].index PROVE i = j
  <2>1. s[i] = s[j]
    BY <1>4, <1>7
  <2>2. i - 1 = j - 1
    BY <1>4, <2>1
  <2> HIDE DEF n
  <2> QED
    BY <1>1, <2>2
<1> QED
  BY <1>3, <1>4, <1>5, <1>6, <1>7

-----------------------------------------------------------------------------
(* Operations on the list of pieces.                                       *)

LEMMA SetList ==
    ASSUME NEW t \in Torrent, NEW s \in Seq(WeightedPiece), NEW st \in {"unsorted", "weight"}
    PROVE  /\ [t EXCEPT !.pieces = s] \in Torrent /\ [t EXCEPT !.pieces = s].pieces = s
           /\ [t EXCEPT !.pieces = s].rep = t.rep
           /\ [t EXCEPT !.pieces = s, !.state = st] \in Torrent /\ [t EXCEPT !.pieces = s, !.state = st].pieces = s
           /\ [t EXCEPT !.pieces = s, !.state = st].rep = t.rep
           /\ SameRequests(t, [t EXCEPT !.pieces = s]) /\ SameRequests(t, [t EXCEPT !.pieces = s, !.state = st])
<1> DEFINE u == [t EXCEPT !.pieces = s]
           v == [t EXCEPT !.pieces = s, !.state = st]
<1>1. u \in Torrent /\ v \in Torrent
  BY DEF Torrent
<1>2. u.pieces = s /\ v.pieces = s /\ u.rep = t.rep /\ v.rep = t.rep
  BY DEF Torrent
<1>3. SameRequests(t, u)
  BY DEF Torrent, SameRequests
<1>4. SameRequests(t, v)
  BY DEF Torrent, SameRequests
<1> QED
  BY <1>1, <1>2, <1>3, <1>4

LEMMA SameRarity ==
    ASSUME NEW t, NEW u, SameRequests(t, u), u.rep = t.rep, RarityKept(t)
    PROVE  RarityKept(u)
BY DEF SameRequests, RarityKept, Holders

LEMMA SameTransitive ==
    ASSUME NEW t, NEW u, NEW v, SameRequests(t, u), SameRequests(u, v)
    PROVE  SameRequests(t, v)
BY DEF SameRequests

LEMMA ReplicationKeeps ==
    ASSUME NEW t \in Torrent, RarityKept(t)
    PROVE  LET u == WithReplication(t)
           IN  /\ u \in Torrent /\ u.rep # <<>> /\ RarityKept(u)
               /\ SameRequests(t, u) /\ u.pieces = t.pieces /\ u.state = t.state
<1>1. CASE t.rep # <<>>
  BY <1>1 DEF WithReplication, SameRequests
<1>2. CASE t.rep = <<>>
  <2> DEFINE rep == [p \in Pieces |-> Cardinality(Holders(t, p))]
             u == [t EXCEPT !.rep = rep]
  <2>1. rep \in [Pieces -> Nat]
    BY HoldersFinite
  <2>2. \A p \in Pieces : rep[p] = Cardinality(Holders(t, p))
    OBVIOUS
  <2>3. rep # <<>>
    BY <2>1, RepIsCounted
  <2>4. u = WithReplication(t)
    BY <1>2 DEF WithReplication, Holders
  <2> HIDE DEF rep
  <2>5. u \in Torrent
    BY <2>1 DEF Torrent
  <2>6. u.rep = rep /\ u.pieces = t.pieces /\ u.state = t.state
    BY DEF Torrent
  <2>7. SameRequests(t, u)
    BY DEF Torrent, SameRequests
  <2> HIDE DEF u
  <2>8. \A p : Holders(u, p) = Holders(t, p)
    BY <2>7 DEF SameRequests, Holders
  <2>9. RarityKept(u)
    <3>1. \A p \in Pieces : rep[p] >= Cardinality(Holders(u, p))
      BY <2>1, <2>2, <2>8
    <3> QED
      BY <2>6, <3>1 DEF RarityKept
  <2> QED
    BY <2>3, <2>4, <2>5, <2>6, <2>7, <2>9
<1> QED
  BY <1>1, <1>2

LEMMA OnListFits ==
    ASSUME NEW t \in Torrent, NEW R, ListFits(t.pieces, R)
    PROVE  /\ OnList(t) \in SUBSET WeightedPiece /\ IsFiniteSet(OnList(t))
           /\ \A x, y \in OnList(t) : x.index = y.index => x = y
           /\ \A x \in OnList(t) : x.count <= Cardinality(RequestsIn(R, x.index))
<1> DEFINE s == t.pieces
<1>1. Len(s) \in Nat /\ DOMAIN s = 1..Len(s) /\ \A i \in 1..Len(s) : s[i] \in WeightedPiece
  BY TorrentFields, ListShape
<1>2. OnList(t) = {s[i] : i \in 1..Len(s)}
  BY <1>1 DEF OnList
<1>3. IsFiniteSet(1..Len(s))
  BY <1>1, FS_Interval
<1>4. \A i, j \in 1..Len(s) : s[i].index = s[j].index => i = j
  BY <1>1 DEF ListFits
<1>5. \A i \in 1..Len(s) : s[i].count <= Cardinality(RequestsIn(R, s[i].index))
  BY <1>1 DEF ListFits
<1> DEFINE f == [i \in 1..Len(s) |-> s[i]]
<1>6. f \in Surjection(1..Len(s), OnList(t))
  BY <1>2 DEF Surjection
<1>7. IsFiniteSet(OnList(t))
  <2> HIDE DEF f
  <2> QED
    BY <1>3, <1>6, FS_Surjection
<1> HIDE DEF s
<1>8. OnList(t) \in SUBSET WeightedPiece
  BY <1>1, <1>2
<1>9. \A x, y \in OnList(t) : x.index = y.index => x = y
  BY <1>2, <1>4
<1>10. \A x \in OnList(t) : x.count <= Cardinality(RequestsIn(R, x.index))
  BY <1>2, <1>5
<1> QED
  BY <1>7, <1>8, <1>9, <1>10

\* Sorting a set of entries that fit gives a list that fits.
LEMMA SortedFits ==
    ASSUME NEW u \in Torrent, u.rep # <<>>, RarityKept(u), NEW R,
           NEW S \in SUBSET WeightedPiece, IsFiniteSet(S),
           \A x, y \in S : x.index = y.index => x = y,
           \A x \in S : x.count <= Cardinality(RequestsIn(R, x.index))
    PROVE  LET v == [u EXCEPT !.pieces = ByWeight(u, S), !.state = "weight"]
           IN  TorrentFits(v, R) /\ SameRequests(u, v)
<1> DEFINE s == ByWeight(u, S)
           v == [u EXCEPT !.pieces = s, !.state = "weight"]
<1>1. /\ s \in Seq(WeightedPiece)
      /\ \A i \in DOMAIN s : s[i] \in S
      /\ \A i, j \in DOMAIN s : s[i].index = s[j].index => i = j
  BY ByWeightLists
<1> HIDE DEF s
<1>2. v \in Torrent /\ v.pieces = s /\ v.rep = u.rep /\ SameRequests(u, v)
  BY <1>1, SetList
<1> HIDE DEF v
<1>3. RarityKept(v)
  BY <1>2, SameRarity
<1>4. ListFits(s, R)
  BY <1>1 DEF ListFits
<1>5. TorrentFits(v, R) /\ SameRequests(u, v)
  BY <1>2, <1>3, <1>4 DEF TorrentFits
<1> QED
  BY <1>5 DEF v, s

LEMMA SortKeeps ==
    ASSUME NEW t, NEW R, TorrentFits(t, R)
    PROVE  TorrentFits(SortByWeight(t), R) /\ SameRequests(t, SortByWeight(t))
<1> DEFINE u == WithReplication(t)
           S == OnList(t)
<1>1. t \in Torrent /\ ListFits(t.pieces, R) /\ RarityKept(t)
  BY DEF TorrentFits
<1>2. u \in Torrent /\ u.rep # <<>> /\ RarityKept(u) /\ SameRequests(t, u) /\ u.pieces = t.pieces
  BY <1>1, ReplicationKeeps
<1>3. OnList(u) = S
  BY <1>2 DEF OnList
<1>4. /\ S \in SUBSET WeightedPiece /\ IsFiniteSet(S)
      /\ \A x, y \in S : x.index = y.index => x = y
      /\ \A x \in S : x.count <= Cardinality(RequestsIn(R, x.index))
  BY <1>1, OnListFits
<1> DEFINE v == [u EXCEPT !.pieces = ByWeight(u, S), !.state = "weight"]
<1>5. SortByWeight(t) = v
  BY <1>3 DEF SortByWeight
<1> HIDE DEF u, S
<1>6. TorrentFits(v, R) /\ SameRequests(u, v)
  BY <1>2, <1>4, SortedFits
<1> QED
  BY <1>2, <1>5, <1>6, SameTransitive

LEMMA PositionIsPlace ==
    ASSUME NEW t \in Torrent, NEW p, Position(t, p) # {}
    PROVE  /\ Min(Position(t, p)) \in Position(t, p) /\ Position(t, p) \subseteq 1..Len(t.pieces)
           /\ t.pieces[Min(Position(t, p))].index = p
<1>1. Len(t.pieces) \in Nat /\ DOMAIN t.pieces = 1..Len(t.pieces)
  BY TorrentFields, ListShape
<1> DEFINE P == Position(t, p)
<1>2. P \in SUBSET Nat /\ P \subseteq 1..Len(t.pieces) /\ \A i \in P : t.pieces[i].index = p
  BY <1>1 DEF Position
<1> HIDE DEF P
<1>3. \E i \in P : \A j \in P : i <= j
  BY <1>2, LeastNat DEF P
<1>4. Min(P) \in P
  BY <1>3 DEF Min
<1> QED
  BY <1>2, <1>4 DEF P

LEMMA ResortKeeps ==
    ASSUME NEW t, NEW R, NEW p, TorrentFits(t, R)
    PROVE  TorrentFits(Resort(t, p), R) /\ SameRequests(t, Resort(t, p))
<1>1. t \in Torrent /\ ListFits(t.pieces, R) /\ RarityKept(t)
  BY DEF TorrentFits
<1>2. CASE Position(t, p) = {}
  BY <1>2 DEF Resort, SameRequests
<1>3. CASE Position(t, p) # {}
  <2> DEFINE u == WithReplication(t)
             i == Min(Position(t, p))
             x == t.pieces[i]
             s == Place(u, RemoveAt(u.pieces, i), x)
             v == [u EXCEPT !.pieces = s]
  <2>1. u \in Torrent /\ u.rep # <<>> /\ RarityKept(u) /\ SameRequests(t, u) /\ u.pieces = t.pieces
    BY <1>1, ReplicationKeeps
  <2>2. Resort(t, p) \in {SortByWeight(u), u, v}
    BY <1>3 DEF Resort
  <2>3. i \in 1..Len(t.pieces) /\ t.pieces \in Seq(WeightedPiece)
    BY <1>1, <1>3, PositionIsPlace, TorrentFields
  <2>4. TorrentFits(u, R)
    BY <1>1, <2>1 DEF TorrentFits
  <2>5. TorrentFits(SortByWeight(u), R) /\ SameRequests(u, SortByWeight(u))
    BY <2>4, SortKeeps
  <2> HIDE DEF u, i
  <2>6. DrawnFrom(s, t.pieces)
    BY <2>1, <2>3, MovedDrawn
  <2> HIDE DEF s
  <2>7. ListFits(s, R)
    BY <1>1, <2>6, DrawnFits
  <2>8. v \in Torrent /\ v.pieces = s /\ v.rep = u.rep /\ SameRequests(u, v)
    BY <2>1, <2>7, SetList DEF ListFits
  <2> HIDE DEF v
  <2>9. TorrentFits(v, R)
    BY <2>1, <2>7, <2>8, SameRarity DEF TorrentFits
  <2>10. SameRequests(u, u)
    BY DEF SameRequests
  <2>11. TorrentFits(Resort(t, p), R) /\ SameRequests(u, Resort(t, p))
    BY <2>2, <2>4, <2>5, <2>8, <2>9, <2>10
  <2> QED
    BY <2>1, <2>11, SameTransitive
<1> QED
  BY <1>2, <1>3

LEMMA RebuildKeeps ==
    ASSUME NEW t, NEW R \in SUBSET Request, TorrentFits(t, R)
    PROVE  TorrentFits(Rebuild(t), R) /\ SameRequests(t, Rebuild(t))
<1>1. t \in Torrent /\ ListFits(t.pieces, R) /\ RarityKept(t)
  BY DEF TorrentFits
<1>2. CASE IsSeed(t)
  BY <1>2 DEF Rebuild, SameRequests
<1>3. CASE ~IsSeed(t)
  <2> DEFINE u == WithReplication(t)
             Old(p) == IF Position(t, p) = {} THEN [index |-> p, count |-> 0] ELSE t.pieces[Min(Position(t, p))]
             W == {x \in t.wanted : Missing(t, x) > 0}
             S == {Old(p) : p \in W}
             v == [u EXCEPT !.pieces = ByWeight(u, S), !.state = "weight"]
  <2>1. u \in Torrent /\ u.rep # <<>> /\ RarityKept(u) /\ SameRequests(t, u) /\ u.pieces = t.pieces
    BY <1>1, ReplicationKeeps
  <2>2. Rebuild(t) = v
    BY <1>3 DEF Rebuild
  <2>3. ASSUME NEW p \in Pieces
        PROVE  Old(p) \in WeightedPiece /\ Old(p).index = p /\ Old(p).count <= Cardinality(RequestsIn(R, p))
    <3>1. CASE Position(t, p) = {}
      <4>1. [index |-> p, count |-> 0] \in WeightedPiece
        BY DEF WeightedPiece
      <4>2. Cardinality(RequestsIn(R, p)) \in Nat
        BY PartsOfRequests
      <4> QED
        BY <3>1, <4>1, <4>2
    <3>2. CASE Position(t, p) # {}
      <4> DEFINE i == Min(Position(t, p))
      <4>1. i \in 1..Len(t.pieces) /\ t.pieces[i].index = p
        BY <1>1, <3>2, PositionIsPlace
      <4>2. Old(p) = t.pieces[i]
        BY <3>2
      <4> HIDE DEF i
      <4>3. t.pieces[i] \in WeightedPiece /\ i \in DOMAIN t.pieces
        BY <1>1, <4>1, TorrentFields, ListShape
      <4>4. t.pieces[i].count <= Cardinality(RequestsIn(R, p))
        BY <1>1, <4>1, <4>3 DEF ListFits
      <4> QED
        BY <4>1, <4>2, <4>3, <4>4
    <3> QED
      BY <3>1, <3>2
  <2> HIDE DEF u, Old
  <2>4. W \in SUBSET Pieces
    BY <1>1, TorrentFields
  <2>5. IsFiniteSet(W)
    BY <2>4, BlocksFinite, FS_Subset
  <2> HIDE DEF W
  <2>6. S \in SUBSET WeightedPiece
    BY <2>3, <2>4
  <2> DEFINE f == [p \in W |-> Old(p)]
  <2>7. f \in Surjection(W, S)
    BY DEF Surjection
  <2>8. IsFiniteSet(S)
    <3> HIDE DEF f, S
    <3> QED
      BY <2>5, <2>7, FS_Surjection
  <2>9. \A x, y \in S : x.index = y.index => x = y
    BY <2>3, <2>4
  <2>10. \A x \in S : x.count <= Cardinality(RequestsIn(R, x.index))
    BY <2>3, <2>4
  <2> HIDE DEF S
  <2>11. TorrentFits(v, R) /\ SameRequests(u, v)
    BY <2>1, <2>6, <2>8, <2>9, <2>10, SortedFits
  <2> QED
    BY <2>1, <2>2, <2>11, SameTransitive
<1> QED
  BY <1>2, <1>3

LEMMA RemovePieceKeeps ==
    ASSUME NEW t, NEW R, NEW p, TorrentFits(t, R)
    PROVE  TorrentFits(RemovePiece(t, p), R) /\ SameRequests(t, RemovePiece(t, p))
<1>1. t \in Torrent /\ ListFits(t.pieces, R) /\ RarityKept(t)
  BY DEF TorrentFits
<1>2. CASE Position(t, p) = {}
  BY <1>2 DEF RemovePiece, SameRequests
<1>3. CASE Position(t, p) # {}
  <2> DEFINE i == Min(Position(t, p))
             s == RemoveAt(t.pieces, i)
             v == [t EXCEPT !.pieces = s]
  <2>1. RemovePiece(t, p) = v
    BY <1>3 DEF RemovePiece
  <2>2. i \in 1..Len(t.pieces) /\ t.pieces \in Seq(WeightedPiece)
    BY <1>1, <1>3, PositionIsPlace, TorrentFields
  <2> HIDE DEF i
  <2>3. DrawnFrom(s, t.pieces)
    BY <2>2, RemovedDrawn
  <2> HIDE DEF s
  <2>4. ListFits(s, R)
    BY <1>1, <2>3, DrawnFits
  <2>5. v \in Torrent /\ v.pieces = s /\ v.rep = t.rep /\ SameRequests(t, v)
    BY <1>1, <2>4, SetList DEF ListFits
  <2> HIDE DEF v
  <2>6. TorrentFits(v, R)
    BY <1>1, <2>4, <2>5, SameRarity DEF TorrentFits
  <2> QED
    BY <2>1, <2>5, <2>6
<1> QED
  BY <1>2, <1>3

-----------------------------------------------------------------------------
(* Requests that leave.                                                    *)

\* One request less is one less of its piece, and none of the others.
LEMMA OneRequestLess ==
    ASSUME NEW R \in SUBSET Request, NEW R2, NEW b,
           R2 = R \/ \E r : r.block = b /\ R2 = R \ {r}
    PROVE  /\ R2 \in SUBSET Request
           /\ \A p : p # PieceOf(b) => RequestsIn(R2, p) = RequestsIn(R, p)
           /\ \A p : Cardinality(RequestsIn(R2, p)) >= Cardinality(RequestsIn(R, p)) - 1
<1>1. CASE R2 = R
  <2>1. \A p : Cardinality(RequestsIn(R, p)) \in Nat
    BY PartsOfRequests
  <2> QED
    BY <1>1, <2>1
<1>2. CASE R2 # R
  <2>1. PICK r : r.block = b /\ R2 = R \ {r}
    BY <1>2
  <2>2. \A p : p # PieceOf(b) => RequestsIn(R2, p) = RequestsIn(R, p)
    BY <2>1 DEF RequestsIn
  <2>3. ASSUME NEW p PROVE Cardinality(RequestsIn(R2, p)) >= Cardinality(RequestsIn(R, p)) - 1
    <3>1. RequestsIn(R2, p) = RequestsIn(R, p) \ {r}
      BY <2>1 DEF RequestsIn
    <3>2. IsFiniteSet(RequestsIn(R, p)) /\ Cardinality(RequestsIn(R, p)) \in Nat
      BY PartsOfRequests
    <3>3. Cardinality(RequestsIn(R, p) \ {r}) =
             IF r \in RequestsIn(R, p) THEN Cardinality(RequestsIn(R, p)) - 1 ELSE Cardinality(RequestsIn(R, p))
      BY <3>2, FS_RemoveElement
    <3> QED
      BY <3>1, <3>2, <3>3
  <2> QED
    BY <2>1, <2>2, <2>3
<1> QED
  BY <1>1, <1>2

LEMMA PieceRemoveKeeps ==
    ASSUME NEW t, NEW R \in SUBSET Request, TorrentFits(t, R), NEW b, NEW R2,
           R2 = R \/ \E r : r.block = b /\ R2 = R \ {r}
    PROVE  TorrentFits(PieceRemoveRequest(t, b), R2) /\ SameRequests(t, PieceRemoveRequest(t, b))
<1> DEFINE s == t.pieces
           P == Position(t, PieceOf(b))
           m == Min(P)
<1>1. t \in Torrent /\ ListFits(s, R) /\ RarityKept(t)
  BY DEF TorrentFits
<1>2. s \in Seq(WeightedPiece) /\ Len(s) \in Nat /\ DOMAIN s = 1..Len(s) /\ \A i \in 1..Len(s) : s[i] \in WeightedPiece
  BY <1>1, TorrentFields, ListShape
<1>3. /\ R2 \in SUBSET Request
      /\ \A p : p # PieceOf(b) => RequestsIn(R2, p) = RequestsIn(R, p)
      /\ \A p : Cardinality(RequestsIn(R2, p)) >= Cardinality(RequestsIn(R, p)) - 1
      /\ \A p : Cardinality(RequestsIn(R2, p)) \in Nat /\ Cardinality(RequestsIn(R, p)) \in Nat
  <2>1. /\ R2 \in SUBSET Request
        /\ \A p : p # PieceOf(b) => RequestsIn(R2, p) = RequestsIn(R, p)
        /\ \A p : Cardinality(RequestsIn(R2, p)) >= Cardinality(RequestsIn(R, p)) - 1
    BY OneRequestLess
  <2> QED
    BY <2>1, PartsOfRequests
<1>4. /\ \A i, j \in 1..Len(s) : s[i].index = s[j].index => i = j
      /\ \A i \in 1..Len(s) : s[i].count <= Cardinality(RequestsIn(R, s[i].index))
  BY <1>1, <1>2 DEF ListFits
<1>5. \A i \in 1..Len(s) : i \in P <=> s[i].index = PieceOf(b)
  BY <1>2 DEF Position
<1>6. ASSUME NEW i \in 1..Len(s), i \notin P
      PROVE  s[i].count <= Cardinality(RequestsIn(R2, s[i].index))
  BY <1>3, <1>4, <1>5, <1>6
<1>7. P \subseteq 1..Len(s)
  BY <1>2 DEF Position
<1>8. CASE P = {} \/ \E j \in P : s[j].count = 0
  <2>1. PieceRemoveRequest(t, b) = t
    BY <1>8 DEF PieceRemoveRequest
  <2>2. \A i \in 1..Len(s) : s[i].count <= Cardinality(RequestsIn(R2, s[i].index))
    <3> HIDE DEF P, s
    <3>1. CASE P = {}
      BY <1>6, <3>1
    <3>2. CASE P # {}
      <4>1. PICK j \in P : s[j].count = 0
        BY <1>8, <3>2
      <4>2. \A i \in P : i = j
        BY <1>4, <1>5, <1>7, <4>1
      <4>3. \A i \in P : s[i].count <= Cardinality(RequestsIn(R2, s[i].index))
        BY <1>3, <4>1, <4>2
      <4> QED
        BY <1>6, <4>3
    <3> QED
      BY <3>1, <3>2
  <2>3. ListFits(s, R2)
    BY <1>2, <1>4, <2>2 DEF ListFits
  <2> QED
    BY <1>1, <2>1, <2>3 DEF TorrentFits, SameRequests
<1>9. CASE ~(P = {} \/ \E j \in P : s[j].count = 0)
  <2> DEFINE e == [index |-> s[m].index, count |-> s[m].count - 1]
             s2 == [s EXCEPT ![m] = e]
             v == [t EXCEPT !.pieces = s2]
  <2>1. m \in P /\ m \in 1..Len(s) /\ s[m].index = PieceOf(b)
    BY <1>1, <1>9, PositionIsPlace
  <2>2. s[m] \in WeightedPiece
    BY <1>2, <2>1
  <2>3. s[m].count \in Nat /\ s[m].index \in Pieces /\ s[m].count # 0 /\ s[m] = [index |-> s[m].index, count |-> s[m].count]
    BY <1>9, <2>1, <2>2 DEF WeightedPiece
  <2>4. e \in WeightedPiece /\ e.index = s[m].index /\ e.count = s[m].count - 1
    BY <2>3 DEF WeightedPiece
  <2>5. PieceRemoveRequest(t, b) = Resort(v, PieceOf(b))
    <3>1. [t EXCEPT !.pieces[m].count = @ - 1] = v
      <4>1. [s[m] EXCEPT !.count = @ - 1] = e
        BY <2>3
      <4> QED
        BY <4>1
    <3> QED
      BY <1>9, <3>1 DEF PieceRemoveRequest
  <2> HIDE DEF e, m
  <2>6. s2 \in Seq(WeightedPiece) /\ Len(s2) = Len(s) /\ \A j \in 1..Len(s) : s2[j] = IF j = m THEN e ELSE s[j]
    BY <1>2, <2>1, <2>4, ExceptSeq
  <2>7. DOMAIN s2 = 1..Len(s)
    BY <2>6, ListShape
  <2> HIDE DEF s2
  <2>8. \A i, j \in 1..Len(s) : s2[i].index = s2[j].index => i = j
    BY <1>4, <2>1, <2>4, <2>6
  <2>9. ASSUME NEW i \in 1..Len(s) PROVE s2[i].count <= Cardinality(RequestsIn(R2, s2[i].index))
    <3>1. CASE i = m
      <4>1. s[m].count <= Cardinality(RequestsIn(R, s[m].index))
        BY <1>4, <2>1
      <4>2. Cardinality(RequestsIn(R2, s[m].index)) >= Cardinality(RequestsIn(R, s[m].index)) - 1
        BY <1>3
      <4>3. Cardinality(RequestsIn(R2, s[m].index)) \in Nat /\ Cardinality(RequestsIn(R, s[m].index)) \in Nat
        BY <1>3
      <4>4. s[m].count - 1 <= Cardinality(RequestsIn(R2, s[m].index))
        BY <2>3, <4>1, <4>2, <4>3
      <4> QED
        BY <2>4, <2>6, <3>1, <4>4
    <3>2. CASE i # m
      <4>1. i \notin P
        BY <1>4, <1>5, <2>1, <3>2
      <4> QED
        BY <1>6, <2>6, <3>2, <4>1
    <3> QED
      BY <3>1, <3>2
  <2>10. ListFits(s2, R2)
    BY <2>6, <2>7, <2>8, <2>9 DEF ListFits
  <2>11. v \in Torrent /\ v.pieces = s2 /\ v.rep = t.rep /\ SameRequests(t, v)
    BY <1>1, <2>6, SetList
  <2> HIDE DEF v
  <2>12. TorrentFits(v, R2)
    BY <1>1, <2>10, <2>11, SameRarity DEF TorrentFits
  <2>13. TorrentFits(Resort(v, PieceOf(b)), R2) /\ SameRequests(v, Resort(v, PieceOf(b)))
    BY <2>12, ResortKeeps
  <2> QED
    BY <2>5, <2>11, <2>13, SameTransitive
<1> QED
  BY <1>8, <1>9

-----------------------------------------------------------------------------
(* Loops: x0 is the state before the loop, F[k] its k-th step, X[k] the      *)
(* states that are sound after k steps.                                    *)

LEMMA StepsReach ==
    ASSUME NEW n \in Nat, NEW X, NEW f, f[0] \in X[0],
           \A k \in 1..n : f[k - 1] \in X[k - 1] => f[k] \in X[k]
    PROVE  \A k \in 0..n : f[k] \in X[k]
<1> DEFINE T == {k \in 0..n : f[k] \notin X[k]}
<1> SUFFICES ASSUME T # {} PROVE FALSE
  OBVIOUS
<1>1. T \in SUBSET Nat
  OBVIOUS
<1> HIDE DEF T
<1>2. PICK m \in T : \A j \in T : m <= j
  BY <1>1, LeastNat
<1>3. m \in 0..n /\ f[m] \notin X[m]
  BY <1>2 DEF T
<1>4. m \in 1..n
  BY <1>3
<1>5. m - 1 \in 0..n /\ ~(m <= m - 1)
  BY <1>4
<1>6. f[m - 1] \in X[m - 1]
  BY <1>2, <1>5 DEF T
<1> QED
  BY <1>3, <1>4, <1>6

IsLoop(f, n, x0, F) == f = [k \in 0..n |-> IF k = 0 THEN x0 ELSE F[k][f[k - 1]]]

LEMMA StepsExist ==
    ASSUME NEW n \in Nat, NEW X, NEW F, NEW x0, x0 \in X[0],
           \A k \in 1..n : \A x \in X[k - 1] : F[k][x] \in X[k]
    PROVE  \E f : IsLoop(f, n, x0, F) /\ \A k \in 0..n : f[k] \in X[k]
<1> DEFINE Loop(f, m) == /\ f = [k \in 0..m |-> IF k = 0 THEN x0 ELSE F[k][f[k - 1]]]
                         /\ \A k \in 0..m : f[k] \in X[k]
           T == {m \in 0..n : ~\E f : Loop(f, m)}
<1> SUFFICES ASSUME T # {} PROVE FALSE
  <2>1. T = {}
    OBVIOUS
  <2>2. n \in 0..n
    OBVIOUS
  <2>3. \E f : Loop(f, n)
    BY <2>1, <2>2
  <2> QED
    BY <2>3 DEF IsLoop
<1>1. T \in SUBSET Nat
  OBVIOUS
<1> HIDE DEF T
<1>2. PICK m \in T : \A j \in T : m <= j
  BY <1>1, LeastNat
<1>3. m \in 0..n /\ ~\E f : Loop(f, m)
  BY <1>2 DEF T
<1>4. CASE m = 0
  <2> DEFINE g == [k \in 0..0 |-> x0]
  <2>1. g[0] = x0
    OBVIOUS
  <2>2. g = [k \in 0..0 |-> IF k = 0 THEN x0 ELSE F[k][g[k - 1]]]
    <3>1. \A k \in 0..0 : x0 = IF k = 0 THEN x0 ELSE F[k][g[k - 1]]
      OBVIOUS
    <3> QED
      BY <3>1
  <2> HIDE DEF g
  <2>3. \A k \in 0..0 : g[k] \in X[k]
    BY <2>1
  <2> QED
    BY <1>3, <1>4, <2>2, <2>3
<1>5. CASE m # 0
  <2>1. m \in 1..n /\ m - 1 \in 0..n /\ ~(m <= m - 1)
    BY <1>3, <1>5
  <2>2. m - 1 \notin T
    BY <1>2, <2>1
  <2>3. PICK f : Loop(f, m - 1)
    BY <2>1, <2>2 DEF T
  <2>4. /\ \A k \in 0..(m - 1) : f[k] = IF k = 0 THEN x0 ELSE F[k][f[k - 1]]
        /\ \A k \in 0..(m - 1) : f[k] \in X[k]
    <3>1. f = [k \in 0..(m - 1) |-> IF k = 0 THEN x0 ELSE F[k][f[k - 1]]]
      BY <2>3
    <3> QED
      BY <2>3, <3>1
  <2> DEFINE g == [k \in 0..m |-> IF k = m THEN F[m][f[m - 1]] ELSE f[k]]
             h == [k \in 0..m |-> IF k = 0 THEN x0 ELSE F[k][g[k - 1]]]
  <2>5. \A k \in 0..m : g[k] = IF k = m THEN F[m][f[m - 1]] ELSE f[k]
    OBVIOUS
  <2>6. ASSUME NEW k \in 0..m PROVE g[k] = IF k = 0 THEN x0 ELSE F[k][g[k - 1]]
    <3> HIDE DEF g
    <3>1. CASE k = 0
      BY <2>1, <2>4, <2>5, <3>1
    <3>2. CASE k # 0 /\ k # m
      <4>1. k \in 0..(m - 1) /\ k - 1 \in 0..m /\ k - 1 # m
        BY <2>1, <3>2
      <4>2. g[k] = f[k] /\ g[k - 1] = f[k - 1]
        BY <2>5, <3>2, <4>1
      <4> QED
        BY <2>4, <3>2, <4>1, <4>2
    <3>3. CASE k = m
      <4>1. k - 1 \in 0..m /\ k - 1 # m /\ k # 0
        BY <2>1, <3>3
      <4>2. g[k - 1] = f[m - 1] /\ g[k] = F[m][f[m - 1]]
        BY <2>5, <3>3, <4>1
      <4> QED
        BY <3>3, <4>1, <4>2
    <3> QED
      BY <3>1, <3>2, <3>3
  <2>7. g = h
    <3>1. \A k \in 0..m : (IF k = m THEN F[m][f[m - 1]] ELSE f[k]) = IF k = 0 THEN x0 ELSE F[k][g[k - 1]]
      BY <2>5, <2>6
    <3> QED
      BY <3>1
  <2>8. ASSUME NEW k \in 0..m PROVE g[k] \in X[k]
    <3> HIDE DEF g
    <3>1. CASE k = m
      <4>1. m - 1 \in 0..(m - 1)
        BY <2>1
      <4>2. f[m - 1] \in X[m - 1]
        BY <2>4, <4>1
      <4> QED
        BY <2>1, <2>5, <3>1, <4>2
    <3>2. CASE k # m
      <4>1. k \in 0..(m - 1)
        BY <2>1, <3>2
      <4> QED
        BY <2>4, <2>5, <3>2, <4>1
    <3> QED
      BY <3>1, <3>2
  <2> HIDE DEF g
  <2>9. Loop(g, m)
    BY <2>7, <2>8
  <2> QED
    BY <1>3, <2>9
<1> QED
  BY <1>4, <1>5

-----------------------------------------------------------------------------
(* The list is told of the requests that left, one by one.                 *)

LEMMA FirstIsOne ==
    ASSUME NEW S \in SUBSET Request, S # {}
    PROVE  FirstOf(S) \in S
<1>1. \A r \in S : r.block \in Nat /\ r.peer \in Nat
  <2>1. Blocks \subseteq Nat /\ AllPeers \subseteq Nat
    BY BlocksFinite, PeersFinite
  <2>2. \A r \in S : r.block \in Blocks /\ r.peer \in AllPeers
    BY DEF Request
  <2> QED
    BY <2>1, <2>2
<1> DEFINE B == {r.block : r \in S}
<1>2. B \in SUBSET Nat /\ B # {}
  BY <1>1
<1> HIDE DEF B
<1>3. PICK b \in B : \A c \in B : b <= c
  BY <1>2, LeastNat
<1>4. PICK y \in S : y.block = b
  BY <1>3 DEF B
<1> DEFINE Q == {r.peer : r \in {z \in S : z.block = b}}
<1>5. Q \in SUBSET Nat /\ Q # {}
  BY <1>1, <1>4
<1> HIDE DEF Q
<1>6. PICK q \in Q : \A c \in Q : q <= c
  BY <1>5, LeastNat
<1>7. PICK x \in S : x.block = b /\ x.peer = q
  BY <1>6 DEF Q
<1>8. ASSUME NEW z \in S PROVE x.block < z.block \/ (x.block = z.block /\ x.peer <= z.peer)
  <2>1. z.block \in B
    BY DEF B
  <2>2. b <= z.block
    BY <1>3, <2>1
  <2>3. ASSUME z.block = b PROVE q <= z.peer
    <3>1. z.peer \in Q
      BY <2>3 DEF Q
    <3> QED
      BY <1>6, <3>1
  <2> QED
    BY <1>1, <1>7, <2>2, <2>3
<1> QED
  BY <1>7, <1>8 DEF FirstOf

LEMMA ReliefKeeps ==
    ASSUME NEW t, NEW S \in SUBSET Request, NEW R \in SUBSET Request, R \cap S = {}, TorrentFits(t, R \cup S)
    PROVE  LET v == Relief(t, S)[Cardinality(S)].t
           IN  TorrentFits(v, R) /\ SameRequests(t, v)
<1> DEFINE n == Cardinality(S)
           x0 == [t |-> t, left |-> S]
           Body(x) == [t |-> PieceRemoveRequest(x.t, FirstOf(x.left).block), left |-> x.left \ {FirstOf(x.left)}]
           Fine(x, k) == /\ Cardinality(x.left) = n - k /\ TorrentFits(x.t, R \cup x.left)
                         /\ SameRequests(t, x.t)
           X == [k \in 0..n |-> {x \in [t : Torrent, left : SUBSET S] : Fine(x, k)}]
           F == [k \in 1..n |-> [x \in X[k - 1] |-> Body(x)]]
           Loop(f) == f = [k \in 0..n |-> IF k = 0 THEN x0 ELSE Body(f[k - 1])]
           g == CHOOSE f : Loop(f)
<1>1. n \in Nat
  BY RequestsFinite
<1>2. g = Relief(t, S)
  BY DEF Relief
<1>3. x0 \in [t : Torrent, left : SUBSET S] /\ Fine(x0, 0)
  BY <1>1 DEF TorrentFits, SameRequests
<1>4. ASSUME NEW k \in 1..n, NEW x \in [t : Torrent, left : SUBSET S], Fine(x, k - 1)
      PROVE  Body(x) \in [t : Torrent, left : SUBSET S] /\ Fine(Body(x), k)
  <2> DEFINE L == x.left
             r == FirstOf(L)
             v == PieceRemoveRequest(x.t, r.block)
             K == L \ {r}
  <2>1. L \in SUBSET S /\ L \in SUBSET Request /\ Cardinality(L) = n - k + 1
    BY <1>1, <1>4
  <2>2. IsFiniteSet(L)
    BY <2>1, RequestsFinite
  <2>3. L # {}
    <3> HIDE DEF n, L
    <3>1. Cardinality(L) # 0
      BY <1>1, <2>1
    <3> QED
      BY <3>1, FS_EmptySet
  <2>4. r \in L
    BY <2>1, <2>3, FirstIsOne
  <2>5. Cardinality(K) = n - k
    <3> HIDE DEF L, r, n
    <3>1. Cardinality(K) = Cardinality(L) - 1
      BY <2>2, <2>4, FS_RemoveElement
    <3> QED
      BY <1>1, <2>1, <3>1
  <2>6. Body(x) = [t |-> v, left |-> K]
    OBVIOUS
  <2>7. TorrentFits(x.t, R \cup L) /\ SameRequests(t, x.t)
    BY <1>4
  <2> HIDE DEF L, r
  <2>8. R \cup K = (R \cup L) \ {r}
    BY <2>1, <2>4
  <2>9. TorrentFits(v, R \cup K) /\ SameRequests(x.t, v)
    <3>1. \E z : z.block = r.block /\ R \cup K = (R \cup L) \ {z}
      BY <2>8
    <3> DEFINE R1 == R \cup L
               R2 == R \cup K
    <3>2. R1 \in SUBSET Request
      BY <2>1
    <3>3. TorrentFits(x.t, R1) /\ \E z : z.block = r.block /\ R2 = R1 \ {z}
      BY <2>7, <3>1
    <3> HIDE DEF R1, R2
    <3>4. TorrentFits(v, R2) /\ SameRequests(x.t, v)
      BY <3>2, <3>3, PieceRemoveKeeps
    <3> QED
      BY <3>4 DEF R2
  <2>10. SameRequests(t, v)
    BY <2>7, <2>9, SameTransitive
  <2>11. v \in Torrent /\ K \in SUBSET S
    BY <2>1, <2>9 DEF TorrentFits
  <2> HIDE DEF v, K, Body, n
  <2>12. Body(x).t = v /\ Body(x).left = K
    BY <2>6
  <2> QED
    BY <2>5, <2>6, <2>9, <2>10, <2>11, <2>12
<1> HIDE DEF Fine, Body, n
<1>5. \A k \in 0..n : \A x : x \in X[k] <=> x \in [t : Torrent, left : SUBSET S] /\ Fine(x, k)
  OBVIOUS
<1>6. x0 \in X[0]
  BY <1>1, <1>3, <1>5
<1> HIDE DEF X
<1>7. ASSUME NEW k \in 1..n, NEW x \in X[k - 1] PROVE Body(x) \in X[k] /\ F[k][x] = Body(x)
  <2>1. k - 1 \in 0..n /\ k \in 0..n
    BY <1>1
  <2> QED
    BY <1>4, <1>5, <2>1
<1>8. \E f : Loop(f)
  <2> HIDE DEF F, x0
  <2>1. \A k \in 1..n : \A x \in X[k - 1] : F[k][x] \in X[k]
    BY <1>7
  <2>2. PICK f : IsLoop(f, n, x0, F) /\ \A k \in 0..n : f[k] \in X[k]
    BY <1>1, <1>6, <2>1, StepsExist
  <2>3. ASSUME NEW k \in 0..n PROVE (IF k = 0 THEN x0 ELSE F[k][f[k - 1]]) = IF k = 0 THEN x0 ELSE Body(f[k - 1])
    <3>1. CASE k # 0
      <4>1. k \in 1..n /\ k - 1 \in 0..n
        BY <1>1, <3>1
      <4> QED
        BY <1>7, <2>2, <4>1
    <3> QED
      BY <3>1
  <2>4. f = [k \in 0..n |-> IF k = 0 THEN x0 ELSE Body(f[k - 1])]
    BY <2>2, <2>3 DEF IsLoop
  <2> QED
    BY <2>4
<1>9. Loop(g)
  BY <1>8
<1> HIDE DEF g
<1>10. /\ g[0] = x0
       /\ \A k \in 1..n : g[k] = Body(g[k - 1])
  BY <1>1, <1>9
<1>11. \A k \in 0..n : g[k] \in X[k]
  <2>1. \A k \in 1..n : g[k - 1] \in X[k - 1] => g[k] \in X[k]
    BY <1>7, <1>10
  <2> HIDE DEF x0
  <2> QED
    BY <1>1, <1>6, <1>10, <2>1, StepsReach
<1>12. g[n] \in [t : Torrent, left : SUBSET S] /\ Fine(g[n], n)
  BY <1>1, <1>5, <1>11
<1>13. g[n].left \in SUBSET Request /\ Cardinality(g[n].left) = 0
  BY <1>1, <1>12 DEF Fine
<1>14. g[n].left = {}
  BY <1>13, RequestsFinite, FS_EmptySet
<1>15. TorrentFits(g[n].t, R) /\ SameRequests(t, g[n].t)
  BY <1>12, <1>14 DEF Fine
<1> QED
  BY <1>2, <1>15 DEF n

-----------------------------------------------------------------------------
(* The three records together.                                             *)

\* What stays of a torrent when its requests change.
SameRest(t, u) == u.peers = t.peers /\ u.done = t.done /\ u.wanted = t.wanted /\ u.have = t.have

LEMMA AskedPeers ==
    ASSUME NEW t \in Torrent
    PROVE  /\ \A b : Asked(t, b) \in SUBSET AllPeers /\ IsFiniteSet(Asked(t, b)) /\ Cardinality(Asked(t, b)) \in Nat
           /\ \A b, q : q \in Asked(t, b) <=> [block |-> b, peer |-> q] \in t.requests
<1>1. \A r \in t.requests : r.peer \in AllPeers /\ r = [block |-> r.block, peer |-> r.peer]
  BY DEF Torrent, Request
<1>2. \A b : Asked(t, b) \in SUBSET AllPeers
  BY <1>1 DEF Asked
<1>3. \A b, q : q \in Asked(t, b) <=> [block |-> b, peer |-> q] \in t.requests
  <2> TAKE b, q
  <2>1. ASSUME q \in Asked(t, b) PROVE [block |-> b, peer |-> q] \in t.requests
    <3>1. PICK r \in t.requests : r.block = b /\ r.peer = q
      BY <2>1 DEF Asked
    <3> QED
      BY <1>1, <3>1
  <2>2. ASSUME [block |-> b, peer |-> q] \in t.requests PROVE q \in Asked(t, b)
    BY <2>2 DEF Asked
  <2> QED
    BY <2>1, <2>2
<1> QED
  BY <1>2, <1>3, PeersFinite

LEMMA FewerAsked ==
    ASSUME NEW t \in Torrent, NEW u, FewAsked(t), u.requests \subseteq t.requests, u.done \subseteq t.done
    PROVE  FewAsked(u)
<1>1. \A b : Asked(u, b) \in SUBSET Asked(t, b)
  BY DEF Asked
<1>2. ASSUME NEW b \in Blocks
      PROVE  Cardinality(Asked(u, b)) <= 2 /\ (b \in u.done => Asked(u, b) = {})
  <2>1. IsFiniteSet(Asked(t, b)) /\ Cardinality(Asked(t, b)) <= 2 /\ Cardinality(Asked(t, b)) \in Nat
    BY AskedPeers DEF FewAsked
  <2>2. IsFiniteSet(Asked(u, b)) /\ Cardinality(Asked(u, b)) <= Cardinality(Asked(t, b))
    BY <1>1, <2>1, FS_Subset
  <2>3. Cardinality(Asked(u, b)) \in Nat
    BY <2>2, FS_CardinalityType
  <2>4. b \in u.done => Asked(u, b) = {}
    BY <1>1 DEF FewAsked
  <2> QED
    BY <2>1, <2>2, <2>3, <2>4
<1> QED
  BY <1>2 DEF FewAsked

\* A torrent whose list fits the requests it has left is sound.
LEMMA SoundAgain ==
    ASSUME NEW t, NEW u, NEW v, SameRequests(u, v), TorrentFits(v, u.requests), CountsExact(u), FewAsked(u), SameRest(t, u)
    PROVE  TorrentSound(v) /\ v.requests = u.requests /\ SameRest(t, v)
<1>1. v.requests = u.requests /\ v.pending = u.pending /\ v.done = u.done /\ SameRest(t, v)
  BY DEF SameRequests, SameRest
<1>2. CountsExact(v)
  BY <1>1 DEF CountsExact
<1>3. FewAsked(v)
  BY <1>1 DEF FewAsked, Asked
<1> QED
  BY <1>1, <1>2, <1>3 DEF TorrentSound

LEMMA SetRequests ==
    ASSUME NEW t \in Torrent, NEW R \in SUBSET Request, NEW pending \in [AllPeers -> Nat], RarityKept(t)
    PROVE  LET u == [t EXCEPT !.requests = R, !.pending = pending]
           IN  /\ u \in Torrent /\ u.requests = R /\ u.pending = pending /\ u.pieces = t.pieces
               /\ SameRest(t, u) /\ RarityKept(u)
<1> DEFINE u == [t EXCEPT !.requests = R, !.pending = pending]
<1>1. u \in Torrent
  BY DEF Torrent
<1>2. u.requests = R /\ u.pending = pending /\ u.pieces = t.pieces /\ u.rep = t.rep
  BY DEF Torrent
<1>3. SameRest(t, u)
  BY DEF Torrent, SameRest
<1> HIDE DEF u
<1>4. RarityKept(u)
  BY <1>2, <1>3 DEF RarityKept, Holders, SameRest
<1> QED
  BY <1>1, <1>2, <1>3, <1>4 DEF u

LEMMA CancelledKeeps ==
    ASSUME NEW t, TorrentSound(t), NEW S \in SUBSET t.requests
    PROVE  LET v == Cancelled(t, S)
           IN  TorrentSound(v) /\ v.requests = t.requests \ S /\ SameRest(t, v)
<1> DEFINE R == t.requests \ S
           Of(q) == Cardinality({r \in S : r.peer = q})
           pending == [q \in AllPeers |-> IF t.pending[q] > Of(q) THEN t.pending[q] - Of(q) ELSE 0]
           u == [t EXCEPT !.requests = R, !.pending = pending]
           v == Relief(u, S)[Cardinality(S)].t
<1>1. t \in Torrent /\ ListFits(t.pieces, t.requests) /\ RarityKept(t) /\ CountsExact(t) /\ FewAsked(t)
  BY DEF TorrentSound, TorrentFits
<1>2. t.requests \in SUBSET Request /\ t.pending \in [AllPeers -> Nat]
  BY <1>1, TorrentFields
<1>3. S \in SUBSET Request /\ R \in SUBSET Request /\ R \cap S = {} /\ R \cup S = t.requests
  BY <1>2
<1>4. v = Cancelled(t, S)
  BY <1>1 DEF Cancelled, Torrent
<1>5. ASSUME NEW q \in AllPeers
      PROVE  pending[q] \in Nat /\ pending[q] = Cardinality(RequestsOf(R, q))
  <2>1. Of(q) = Cardinality(RequestsOf(S, q))
    BY DEF RequestsOf
  <2>2. /\ IsFiniteSet(RequestsOf(t.requests, q)) /\ Cardinality(RequestsOf(t.requests, q)) \in Nat
        /\ Cardinality(RequestsOf(S, q)) \in Nat /\ Cardinality(RequestsOf(R, q)) \in Nat
    BY <1>2, <1>3, PartsOfRequests
  <2>3. /\ RequestsOf(R, q) = RequestsOf(t.requests, q) \ RequestsOf(S, q)
        /\ RequestsOf(t.requests, q) \cap RequestsOf(S, q) = RequestsOf(S, q)
    BY <1>3 DEF RequestsOf
  <2>4. Cardinality(RequestsOf(R, q)) = Cardinality(RequestsOf(t.requests, q)) - Cardinality(RequestsOf(S, q))
    <3>1. Cardinality(RequestsOf(t.requests, q) \ RequestsOf(S, q)) =
             Cardinality(RequestsOf(t.requests, q)) - Cardinality(RequestsOf(t.requests, q) \cap RequestsOf(S, q))
      BY <2>2, FS_Difference
    <3> QED
      BY <2>3, <3>1
  <2>5. t.pending[q] = Cardinality(RequestsOf(t.requests, q))
    BY <1>1 DEF CountsExact
  <2>6. pending[q] = IF t.pending[q] > Of(q) THEN t.pending[q] - Of(q) ELSE 0
    OBVIOUS
  <2> HIDE DEF pending, R, Of
  <2> QED
    BY <2>1, <2>2, <2>4, <2>5, <2>6
<1>6. pending \in [AllPeers -> Nat]
  <2>1. pending = [q \in AllPeers |-> pending[q]]
    OBVIOUS
  <2> HIDE DEF pending
  <2> QED
    BY <1>5, <2>1
<1> HIDE DEF pending, R
<1>7. /\ u \in Torrent /\ u.requests = R /\ u.pending = pending /\ u.pieces = t.pieces
      /\ SameRest(t, u) /\ RarityKept(u)
  BY <1>1, <1>3, <1>6, SetRequests
<1> HIDE DEF u
<1>8. TorrentFits(u, R \cup S)
  BY <1>1, <1>3, <1>7 DEF TorrentFits
<1>9. TorrentFits(v, R) /\ SameRequests(u, v)
  BY <1>3, <1>8, ReliefKeeps
<1>10. CountsExact(u)
  BY <1>5, <1>7 DEF CountsExact
<1>11. FewAsked(u)
  BY <1>1, <1>3, <1>7, FewerAsked DEF SameRest
<1> HIDE DEF v
<1>12. TorrentSound(v) /\ v.requests = R /\ SameRest(t, v)
  BY <1>7, <1>9, <1>10, <1>11, SoundAgain
<1> QED
  BY <1>4, <1>12 DEF R

LEMMA ListRemoveKeeps ==
    ASSUME NEW t, TorrentSound(t), NEW b, NEW q
    PROVE  LET u == ListRemove(t, b, q)
           IN  /\ TorrentFits(u, t.requests) /\ CountsExact(u) /\ FewAsked(u) /\ SameRest(t, u)
               /\ u.requests = t.requests \ {[block |-> b, peer |-> q]}
<1>1. t \in Torrent /\ ListFits(t.pieces, t.requests) /\ RarityKept(t) /\ CountsExact(t) /\ FewAsked(t)
  BY DEF TorrentSound, TorrentFits
<1>2. CASE q \notin Asked(t, b)
  <2>1. [block |-> b, peer |-> q] \notin t.requests
    BY <1>1, <1>2, AskedPeers
  <2>2. t.requests = t.requests \ {[block |-> b, peer |-> q]}
    BY <2>1
  <2>3. ListRemove(t, b, q) = t
    BY <1>2 DEF ListRemove
  <2> QED
    BY <1>1, <2>2, <2>3 DEF TorrentFits, SameRest
<1>3. CASE q \in Asked(t, b)
  <2> DEFINE r == [block |-> b, peer |-> q]
             R == t.requests \ {r}
             pending == [t.pending EXCEPT ![q] = IF @ > 0 THEN @ - 1 ELSE @]
             u == [t EXCEPT !.requests = R, !.pending = pending]
  <2>1. r \in t.requests /\ q \in AllPeers /\ r.peer = q
    BY <1>1, <1>3, AskedPeers
  <2>2. t.requests \in SUBSET Request /\ t.pending \in [AllPeers -> Nat]
    BY <1>1, TorrentFields
  <2>3. u = ListRemove(t, b, q)
    BY <1>1, <1>3 DEF ListRemove, Settle, Torrent
  <2>4. pending \in [AllPeers -> Nat]
    BY <2>1, <2>2
  <2>5. \A p \in AllPeers : pending[p] = IF p = q /\ t.pending[p] > 0 THEN t.pending[p] - 1 ELSE t.pending[p]
    BY <2>1, <2>2
  <2> HIDE DEF pending, r
  <2>6. R \in SUBSET Request
    BY <2>2
  <2>7. ASSUME NEW p \in AllPeers PROVE pending[p] = Cardinality(RequestsOf(R, p))
    <3>1. IsFiniteSet(RequestsOf(t.requests, p)) /\ Cardinality(RequestsOf(t.requests, p)) \in Nat
      BY <2>2, PartsOfRequests
    <3>2. Cardinality(RequestsOf(R, p)) \in Nat
      BY <2>6, PartsOfRequests
    <3>3. t.pending[p] = Cardinality(RequestsOf(t.requests, p))
      BY <1>1 DEF CountsExact
    <3>4. CASE p = q
      <4>1. r \in RequestsOf(t.requests, p) /\ RequestsOf(R, p) = RequestsOf(t.requests, p) \ {r}
        BY <2>1, <3>4 DEF RequestsOf
      <4>2. Cardinality(RequestsOf(t.requests, p) \ {r}) = Cardinality(RequestsOf(t.requests, p)) - 1
        BY <3>1, <4>1, FS_RemoveElement
      <4> HIDE DEF R
      <4> QED
        BY <2>5, <3>1, <3>2, <3>3, <3>4, <4>1, <4>2
    <3>5. CASE p # q
      <4>1. RequestsOf(R, p) = RequestsOf(t.requests, p)
        BY <2>1, <3>5 DEF RequestsOf
      <4> QED
        BY <2>5, <3>3, <3>5, <4>1
    <3> QED
      BY <3>4, <3>5
  <2> HIDE DEF R
  <2>8. /\ u \in Torrent /\ u.requests = R /\ u.pending = pending /\ u.pieces = t.pieces
        /\ SameRest(t, u) /\ RarityKept(u)
    BY <1>1, <2>4, <2>6, SetRequests
  <2> HIDE DEF u
  <2>9. TorrentFits(u, t.requests)
    BY <1>1, <2>8 DEF TorrentFits
  <2>10. CountsExact(u)
    BY <2>7, <2>8 DEF CountsExact
  <2>11. u.requests \subseteq t.requests /\ u.done = t.done
    BY <2>8 DEF R, SameRest
  <2>12. FewAsked(u)
    BY <1>1, <2>11, FewerAsked
  <2> QED
    BY <2>3, <2>8, <2>9, <2>10, <2>12 DEF R, r
<1> QED
  BY <1>2, <1>3

LEMMA RemovalKeeps ==
    ASSUME NEW t, TorrentSound(t), NEW b, NEW q
    PROVE  LET v == RemoveFromTables(t, b, q)
           IN  TorrentSound(v) /\ v.requests = t.requests \ {[block |-> b, peer |-> q]} /\ SameRest(t, v)
<1> DEFINE u == ListRemove(t, b, q)
           r == [block |-> b, peer |-> q]
           v == PieceRemoveRequest(u, b)
<1>1. /\ TorrentFits(u, t.requests) /\ CountsExact(u) /\ FewAsked(u) /\ SameRest(t, u)
      /\ u.requests = t.requests \ {r}
  BY ListRemoveKeeps
<1>2. t.requests \in SUBSET Request
  BY TorrentFields DEF TorrentSound, TorrentFits
<1>3. r.block = b
  OBVIOUS
<1> DEFINE R == t.requests
           R2 == u.requests
<1>4. TorrentFits(u, R) /\ R \in SUBSET Request /\ \E z : z.block = b /\ R2 = R \ {z}
  BY <1>1, <1>2, <1>3
<1> HIDE DEF u, R, R2, r
<1>5. TorrentFits(v, R2) /\ SameRequests(u, v)
  BY <1>4, PieceRemoveKeeps
<1> HIDE DEF v
<1>6. TorrentFits(v, u.requests)
  BY <1>5 DEF R2
<1>7. TorrentSound(v) /\ v.requests = u.requests /\ SameRest(t, v)
  BY <1>1, <1>5, <1>6, SoundAgain
<1> QED
  BY <1>1, <1>7 DEF RemoveFromTables, v, u, r

-----------------------------------------------------------------------------
(* Requests that are made.                                                 *)

LEMMA AddKeeps ==
    ASSUME NEW t, TorrentSound(t), NEW b \in Blocks, NEW q \in AllPeers, b \notin t.done,
           q \notin Asked(t, b), Cardinality(Asked(t, b)) <= 1
    PROVE  LET v == AddRequest(t, b, q)
           IN  /\ TorrentSound(v) /\ v.requests = t.requests \cup {[block |-> b, peer |-> q]}
               /\ SameRest(t, v) /\ Len(v.pieces) = Len(t.pieces)
<1> DEFINE r == [block |-> b, peer |-> q]
           R == t.requests
           R2 == R \cup {r}
           s == t.pieces
           More(x) == IF x.index = PieceOf(b) THEN [index |-> x.index, count |-> x.count + 1] ELSE x
           s2 == [i \in 1..Len(s) |-> More(s[i])]
           pending == [t.pending EXCEPT ![q] = @ + 1]
           u == [t EXCEPT !.requests = R2, !.pending = pending]
           v == [u EXCEPT !.pieces = s2]
<1>1. t \in Torrent /\ ListFits(s, R) /\ RarityKept(t) /\ CountsExact(t) /\ FewAsked(t)
  BY DEF TorrentSound, TorrentFits
<1>2. R \in SUBSET Request /\ t.pending \in [AllPeers -> Nat]
  BY <1>1, TorrentFields
<1>3. r \in Request /\ R2 \in SUBSET Request /\ r.block = b /\ r.peer = q
  BY <1>2 DEF Request
<1>4. r \notin R
  BY <1>1, AskedPeers
<1>5. s \in Seq(WeightedPiece) /\ Len(s) \in Nat /\ DOMAIN s = 1..Len(s) /\ \A i \in 1..Len(s) : s[i] \in WeightedPiece
  BY <1>1, TorrentFields, ListShape
<1>6. \A x \in WeightedPiece : OneMore(x, b) = More(x)
  BY DEF WeightedPiece, OneMore
<1>7. v = AddRequest(t, b, q)
  <2>1. [i \in DOMAIN s |-> OneMore(s[i], b)] = s2
    BY <1>5, <1>6
  <2> HIDE DEF s2
  <2>2. AddRequest(t, b, q) = [t EXCEPT !.requests = R2, !.pending = pending, !.pieces = s2]
    BY <1>1, <2>1 DEF AddRequest, Torrent
  <2>3. v = [t EXCEPT !.requests = R2, !.pending = pending, !.pieces = s2]
    BY <1>1 DEF Torrent
  <2> QED
    BY <2>2, <2>3
<1>8. ASSUME NEW x \in WeightedPiece
      PROVE  /\ More(x) \in WeightedPiece /\ More(x).index = x.index
             /\ More(x).count = IF x.index = PieceOf(b) THEN x.count + 1 ELSE x.count
  BY DEF WeightedPiece
<1>9. s2 \in [1..Len(s) -> WeightedPiece] /\ \A i \in 1..Len(s) : s2[i] = More(s[i])
  BY <1>5, <1>8
<1> HIDE DEF s2, More, r, pending
<1>10. s2 \in Seq(WeightedPiece) /\ Len(s2) = Len(s) /\ DOMAIN s2 = 1..Len(s)
  <2>1. s2 \in Seq(WeightedPiece)
    BY <1>5, <1>9, SeqDef
  <2>2. DOMAIN s2 = 1..Len(s)
    BY <1>9
  <2>3. DOMAIN s2 = 1..Len(s2) /\ Len(s2) \in Nat
    BY <2>1, ListShape
  <2>4. \A m, n \in Nat : 1..m = 1..n => m = n
    <3> TAKE m \in Nat, n \in Nat
    <3> SUFFICES ASSUME 1..m = 1..n PROVE m = n
      OBVIOUS
    <3>1. m \in 1..m \/ m = 0
      OBVIOUS
    <3>2. n \in 1..n \/ n = 0
      OBVIOUS
    <3> QED
      BY <3>1, <3>2
  <2> QED
    BY <1>5, <2>1, <2>2, <2>3, <2>4
<1>11. \A p : /\ Cardinality(RequestsIn(R, p)) \in Nat
              /\ Cardinality(RequestsIn(R2, p)) = IF p = PieceOf(b) THEN Cardinality(RequestsIn(R, p)) + 1
                                                  ELSE Cardinality(RequestsIn(R, p))
  <2> TAKE p
  <2>1. IsFiniteSet(RequestsIn(R, p)) /\ Cardinality(RequestsIn(R, p)) \in Nat
    BY <1>2, PartsOfRequests
  <2>2. CASE p = PieceOf(b)
    <3>1. RequestsIn(R2, p) = RequestsIn(R, p) \cup {r} /\ r \notin RequestsIn(R, p)
      BY <1>3, <1>4, <2>2 DEF RequestsIn
    <3>2. Cardinality(RequestsIn(R, p) \cup {r}) = Cardinality(RequestsIn(R, p)) + 1
      BY <2>1, <3>1, FS_AddElement
    <3> QED
      BY <2>1, <2>2, <3>1, <3>2
  <2>3. CASE p # PieceOf(b)
    <3>1. RequestsIn(R2, p) = RequestsIn(R, p)
      BY <1>3, <2>3 DEF RequestsIn
    <3> QED
      BY <2>1, <2>3, <3>1
  <2> QED
    BY <2>2, <2>3
<1>12. ASSUME NEW i \in 1..Len(s) PROVE s2[i].count <= Cardinality(RequestsIn(R2, s2[i].index))
  <2>1. s[i] \in WeightedPiece /\ s[i].count \in Nat
    BY <1>5 DEF WeightedPiece
  <2>2. s[i].count <= Cardinality(RequestsIn(R, s[i].index))
    BY <1>1, <1>5 DEF ListFits
  <2>3. s2[i].index = s[i].index /\ s2[i].count = IF s[i].index = PieceOf(b) THEN s[i].count + 1 ELSE s[i].count
    BY <1>8, <1>9, <2>1
  <2> DEFINE c == Cardinality(RequestsIn(R, s[i].index))
             c2 == Cardinality(RequestsIn(R2, s[i].index))
  <2>6. c \in Nat /\ c2 = (IF s[i].index = PieceOf(b) THEN c + 1 ELSE c) /\ s[i].count <= c
    BY <1>11, <2>2
  <2>7. s2[i].count <= c2
    <3> HIDE DEF c, c2
    <3> QED
      BY <2>1, <2>3, <2>6
  <2>4. c2 = Cardinality(RequestsIn(R2, s2[i].index))
    BY <2>3
  <2>5. s2[i].count <= Cardinality(RequestsIn(R2, s2[i].index))
    BY <2>4, <2>7
  <2> QED
    BY <2>5
<1>13. \A i, j \in 1..Len(s) : s2[i].index = s2[j].index => i = j
  <2>1. \A i \in 1..Len(s) : s2[i].index = s[i].index
    BY <1>5, <1>8, <1>9
  <2>2. \A i, j \in 1..Len(s) : s[i].index = s[j].index => i = j
    BY <1>1, <1>5 DEF ListFits
  <2> QED
    BY <2>1, <2>2
<1>14. ListFits(s2, R2)
  BY <1>10, <1>12, <1>13 DEF ListFits
<1>15. pending \in [AllPeers -> Nat] /\ \A p \in AllPeers : pending[p] = IF p = q THEN t.pending[p] + 1 ELSE t.pending[p]
  BY <1>2 DEF pending
<1>16. /\ u \in Torrent /\ u.requests = R2 /\ u.pending = pending /\ u.pieces = s
       /\ SameRest(t, u) /\ RarityKept(u)
  BY <1>1, <1>3, <1>15, SetRequests
<1>17. CountsExact(u)
  <2>1. ASSUME NEW p \in AllPeers PROVE pending[p] = Cardinality(RequestsOf(R2, p))
    <3>1. IsFiniteSet(RequestsOf(R, p)) /\ Cardinality(RequestsOf(R, p)) \in Nat
      BY <1>2, PartsOfRequests
    <3>2. t.pending[p] = Cardinality(RequestsOf(R, p))
      BY <1>1 DEF CountsExact
    <3>3. CASE p = q
      <4>1. RequestsOf(R2, p) = RequestsOf(R, p) \cup {r} /\ r \notin RequestsOf(R, p)
        BY <1>3, <1>4, <3>3 DEF RequestsOf
      <4>2. Cardinality(RequestsOf(R, p) \cup {r}) = Cardinality(RequestsOf(R, p)) + 1
        BY <3>1, <4>1, FS_AddElement
      <4> QED
        BY <1>15, <3>2, <3>3, <4>1, <4>2
    <3>4. CASE p # q
      <4>1. RequestsOf(R2, p) = RequestsOf(R, p)
        BY <1>3, <3>4 DEF RequestsOf
      <4> QED
        BY <1>15, <3>2, <3>4, <4>1
    <3> QED
      BY <3>3, <3>4
  <2> HIDE DEF u, R2
  <2> QED
    BY <1>16, <2>1 DEF CountsExact
<1>18. FewAsked(u)
  <2>1. ASSUME NEW c \in Blocks PROVE Cardinality(Asked(u, c)) <= 2 /\ (c \in u.done => Asked(u, c) = {})
    <3>0. u.done = t.done /\ u.requests = R2
      BY <1>16 DEF SameRest
    <3> HIDE DEF u
    <3>1. CASE c = b
      <4>1. Asked(u, c) = Asked(t, b) \cup {q}
        BY <1>3, <3>0, <3>1 DEF Asked
      <4>2. IsFiniteSet(Asked(t, b)) /\ Cardinality(Asked(t, b)) \in Nat
        BY <1>1, AskedPeers
      <4>3. Cardinality(Asked(t, b) \cup {q}) = Cardinality(Asked(t, b)) + 1
        BY <4>2, FS_AddElement
      <4> QED
        BY <3>0, <3>1, <4>1, <4>2, <4>3
    <3>2. CASE c # b
      <4>1. Asked(u, c) = Asked(t, c)
        BY <1>3, <3>0, <3>2 DEF Asked
      <4> QED
        BY <1>1, <3>0, <4>1 DEF FewAsked
    <3> QED
      BY <3>1, <3>2
  <2> QED
    BY <2>1 DEF FewAsked
<1> HIDE DEF u
<1>19. v \in Torrent /\ v.pieces = s2 /\ v.rep = u.rep /\ SameRequests(u, v)
  BY <1>10, <1>16, SetList
<1> HIDE DEF v
<1>20. TorrentFits(v, u.requests)
  BY <1>14, <1>16, <1>19, SameRarity DEF TorrentFits
<1>21. TorrentSound(v) /\ v.requests = u.requests /\ SameRest(t, v)
  BY <1>16, <1>17, <1>18, <1>19, <1>20, SoundAgain
<1> QED
  BY <1>7, <1>10, <1>16, <1>19, <1>21 DEF r

LEMMA EndgameKeeps ==
    ASSUME NEW t, TorrentSound(t), NEW n \in Nat
    PROVE  LET v == UpdateEndgame(t, n)
           IN  TorrentSound(v) /\ v.requests = t.requests /\ SameRest(t, v) /\ v.pieces = t.pieces
<1>1. t \in Torrent /\ ListFits(t.pieces, t.requests) /\ RarityKept(t) /\ CountsExact(t) /\ FewAsked(t)
  BY DEF TorrentSound, TorrentFits
<1> DEFINE m == Cardinality(t.requests)
           busy == Cardinality({q \in t.peers : t.pending[q] > 0}) + n
           e == m \div (IF busy > 0 THEN busy ELSE 1)
           Set(x) == [t EXCEPT !.endgame = x]
<1>2. m \in Nat
  BY <1>1, TorrentFields, RequestsFinite
<1>3. busy \in Nat
  <2>1. {q \in t.peers : t.pending[q] > 0} \in SUBSET AllPeers
    BY <1>1, TorrentFields, PeersFinite
  <2>2. Cardinality({q \in t.peers : t.pending[q] > 0}) \in Nat
    BY <2>1, PeersFinite
  <2> QED
    BY <2>2
<1>4. UpdateEndgame(t, n) \in {Set(0), t, Set(e)}
  BY DEF UpdateEndgame
<1>5. e \in Nat
  <2> HIDE DEF m, busy
  <2>1. \A j \in Nat \ {0} : m \div j \in Nat
    BY <1>2, SMT
  <2> QED
    BY <1>3, <2>1
<1> HIDE DEF e
<1>6. ASSUME NEW x \in Nat
      PROVE  TorrentSound(Set(x)) /\ Set(x).requests = t.requests /\ SameRest(t, Set(x)) /\ Set(x).pieces = t.pieces
  <2> DEFINE v == Set(x)
  <2>1. v \in Torrent
    BY <1>1 DEF Torrent
  <2>2. v.requests = t.requests /\ v.pieces = t.pieces /\ v.rep = t.rep /\ v.pending = t.pending
    BY <1>1 DEF Torrent
  <2>3. SameRest(t, v)
    BY <1>1 DEF Torrent, SameRest
  <2> HIDE DEF Set, v
  <2>4. RarityKept(v)
    BY <1>1, <2>2, <2>3 DEF RarityKept, Holders, SameRest
  <2>5. CountsExact(v)
    BY <1>1, <2>2 DEF CountsExact
  <2>6. FewAsked(v)
    BY <1>1, <2>2, <2>3 DEF FewAsked, Asked, SameRest
  <2>7. TorrentFits(v, v.requests)
    BY <1>1, <2>1, <2>2, <2>4 DEF TorrentFits
  <2> QED
    BY <2>2, <2>3, <2>5, <2>6, <2>7 DEF TorrentSound, v
<1>7. TorrentSound(t) /\ SameRest(t, t)
  BY DEF SameRest
<1> HIDE DEF Set
<1> QED
  BY <1>4, <1>5, <1>6, <1>7

\* What is sound while a peer is being asked: the torrent, but for requests of q.
Progress == [t : Torrent, asked : SUBSET Blocks, last : {0} \cup Blocks,
             seen : {0} \cup {PieceOf(b) : b \in Blocks}, got : Nat]
AskedWell(u, q, x) ==
    /\ TorrentSound(x.t) /\ SameRest(u, x.t) /\ Len(x.t.pieces) = Len(u.pieces)
    /\ u.requests \subseteq x.t.requests /\ \A r \in x.t.requests : r \in u.requests \/ r.peer = q
SoundProgress(u, q) == {x \in Progress : AskedWell(u, q, x)}

LEMMA ConsiderKeeps ==
    ASSUME NEW u, NEW q \in AllPeers, NEW x \in SoundProgress(u, q), NEW b, NEW want, NEW intervals
    PROVE  Consider(x, b, q, want, intervals) \in SoundProgress(u, q)
<1> DEFINE y == Consider(x, b, q, want, intervals)
           t == x.t
           v == AddRequest(t, b, q)
<1>1. x \in Progress /\ AskedWell(u, q, x)
  BY DEF SoundProgress
<1>2. CASE y = x
  BY <1>2
<1>3. CASE y # x
  <2> DEFINE grows == intervals /\ x.got > 0 /\ x.last = b - 1 /\ PieceOf(b - 1) = PieceOf(b)
             got == IF grows THEN x.got ELSE x.got + 1
             n == want - x.got
  <2>1. /\ b \in Blocks /\ b \notin t.done /\ MayAsk(t, b, q, n)
        /\ y = [t |-> v, asked |-> x.asked \cup {b}, last |-> b, seen |-> PieceOf(b), got |-> got]
    BY <1>3 DEF Consider
  <2>2. got \in Nat /\ x.asked \in SUBSET Blocks
    BY <1>1 DEF Progress
  <2> HIDE DEF y, v, t, got
  <2>3. q \notin Asked(t, b) /\ Cardinality(Asked(t, b)) <= 1
    <3>1. CASE Asked(t, b) = {}
      <4>1. Cardinality(Asked(t, b)) = 0
        BY <3>1, FS_EmptySet
      <4> QED
        BY <3>1, <4>1
    <3>2. CASE Asked(t, b) # {}
      BY <2>1, <3>2 DEF MayAsk
    <3> QED
      BY <3>1, <3>2
  <2>4. TorrentSound(t) /\ SameRest(u, t) /\ Len(t.pieces) = Len(u.pieces)
        /\ u.requests \subseteq t.requests /\ \A r \in t.requests : r \in u.requests \/ r.peer = q
    BY <1>1 DEF AskedWell, t
  <2>5. /\ TorrentSound(v) /\ v.requests = t.requests \cup {[block |-> b, peer |-> q]}
        /\ SameRest(t, v) /\ Len(v.pieces) = Len(t.pieces)
    BY <2>1, <2>3, <2>4, AddKeeps DEF v
  <2>6. v \in Torrent
    BY <2>5 DEF TorrentSound, TorrentFits
  <2>7. y \in Progress
    BY <2>1, <2>2, <2>6 DEF Progress
  <2>8. SameRest(u, v)
    BY <2>4, <2>5 DEF SameRest
  <2>9. u.requests \subseteq v.requests /\ \A r \in v.requests : r \in u.requests \/ r.peer = q
    BY <2>4, <2>5
  <2>10. y.t = v
    BY <2>1
  <2>11. AskedWell(u, q, y)
    BY <2>4, <2>5, <2>8, <2>9, <2>10 DEF AskedWell
  <2> QED
    BY <2>7, <2>11 DEF SoundProgress, y
<1> QED
  BY <1>2, <1>3

LEMMA AskingKeeps ==
    ASSUME NEW u, TorrentSound(u), NEW q \in AllPeers, NEW want, NEW intervals
    PROVE  LET x == Asking(u, q, want, intervals)[Len(u.pieces) * PieceBlocks]
           IN  x \in SoundProgress(u, q) /\ (Len(u.pieces) = 0 => x.got = 0)
<1> DEFINE n == Len(u.pieces) * PieceBlocks
           BlockAt(k) == (u.pieces[(k \div PieceBlocks) + 1].index - 1) * PieceBlocks + (k % PieceBlocks) + 1
           x0 == [t |-> u, asked |-> {}, last |-> 0, seen |-> 0, got |-> 0]
           Body(x, k) == Consider(x, BlockAt(k - 1), q, want, intervals)
           S == SoundProgress(u, q)
           X == [k \in 0..n |-> S]
           F == [k \in 1..n |-> [x \in S |-> Body(x, k)]]
           Loop(f) == f = [k \in 0..n |-> IF k = 0 THEN x0 ELSE Body(f[k - 1], k)]
           g == CHOOSE f : Loop(f)
<1>1. u \in Torrent /\ Len(u.pieces) \in Nat
  BY TorrentFields, ListShape DEF TorrentSound, TorrentFits
<1>2. n \in Nat /\ (Len(u.pieces) = 0 => n = 0)
  <2>1. \A i, j \in Nat : i * j \in Nat /\ 0 * j = 0
    BY SMT
  <2>2. PieceBlocks \in Nat
    BY RequestsAssumption
  <2> QED
    BY <1>1, <2>1, <2>2
<1>3. g = Asking(u, q, want, intervals)
  BY DEF Asking
<1>4. x0 \in S /\ x0.got = 0
  <2>1. x0 \in Progress
    BY <1>1 DEF Progress
  <2>2. AskedWell(u, q, x0)
    BY DEF AskedWell, SameRest
  <2> QED
    BY <2>1, <2>2 DEF SoundProgress
<1> HIDE DEF x0, BlockAt
<1>5. \A x \in S : \A k : Body(x, k) \in S
  BY ConsiderKeeps
<1> HIDE DEF S, Body, n
<1>6. \A k \in 0..n : X[k] = S
  OBVIOUS
<1>7. \A k \in 1..n : \A x \in S : F[k][x] = Body(x, k)
  OBVIOUS
<1>8. \A k \in 1..n : k - 1 \in 0..n /\ k \in 0..n
  BY <1>2
<1>9. 0 \in 0..n
  BY <1>2
<1> HIDE DEF X, F
<1>10. \E f : Loop(f)
  <2>1. \A k \in 1..n : \A x \in X[k - 1] : F[k][x] \in X[k]
    BY <1>5, <1>6, <1>7, <1>8
  <2>2. x0 \in X[0]
    BY <1>4, <1>6, <1>9
  <2>3. PICK f : IsLoop(f, n, x0, F) /\ \A k \in 0..n : f[k] \in X[k]
    BY <1>2, <2>1, <2>2, StepsExist
  <2>4. ASSUME NEW k \in 0..n PROVE (IF k = 0 THEN x0 ELSE F[k][f[k - 1]]) = IF k = 0 THEN x0 ELSE Body(f[k - 1], k)
    <3>1. CASE k # 0
      <4>1. k \in 1..n
        BY <1>2, <3>1
      <4>2. f[k - 1] \in S
        BY <1>6, <1>8, <2>3, <4>1
      <4> QED
        BY <1>7, <4>1, <4>2
    <3> QED
      BY <3>1
  <2>5. f = [k \in 0..n |-> IF k = 0 THEN x0 ELSE Body(f[k - 1], k)]
    BY <2>3, <2>4 DEF IsLoop
  <2> QED
    BY <2>5
<1>11. Loop(g)
  BY <1>10
<1> HIDE DEF g
<1>12. g[0] = x0 /\ \A k \in 1..n : g[k] = Body(g[k - 1], k)
  BY <1>2, <1>11
<1>13. \A k \in 0..n : g[k] \in X[k]
  <2>1. \A k \in 1..n : g[k - 1] \in X[k - 1] => g[k] \in X[k]
    BY <1>5, <1>6, <1>8, <1>12
  <2>2. g[0] \in X[0]
    BY <1>4, <1>6, <1>9, <1>12
  <2> QED
    BY <1>2, <2>1, <2>2, StepsReach
<1>14. g[n] \in S
  BY <1>2, <1>6, <1>13
<1>15. Len(u.pieces) = 0 => g[n].got = 0
  BY <1>2, <1>4, <1>12
<1> QED
  BY <1>3, <1>14, <1>15 DEF n, S

\* Putting the pieces in front into their places.
LEMMA ReinsertKeeps ==
    ASSUME NEW t, NEW R, TorrentFits(t, R), NEW front \in 0..Len(t.pieces)
    PROVE  TorrentFits(Reinsert(t, front), R) /\ SameRequests(t, Reinsert(t, front))
<1> DEFINE n == front
           At(k) == front + 1 - k
           Put(u, i) == SubSeq(u.pieces, 1, i - 1) \o Place(u, SubSeq(u.pieces, i + 1, Len(u.pieces)), u.pieces[i])
           Body(u, k) == [u EXCEPT !.pieces = Put(u, At(k))]
           Fine(u) == TorrentFits(u, R) /\ SameRequests(t, u) /\ Len(u.pieces) = Len(t.pieces)
           S == {u \in Torrent : Fine(u)}
           X == [k \in 0..n |-> S]
           F == [k \in 1..n |-> [x \in S |-> Body(x, k)]]
           Loop(f) == f = [k \in 0..n |-> IF k = 0 THEN t ELSE Body(f[k - 1], k)]
           g == CHOOSE f : Loop(f)
<1>1. t \in Torrent /\ Len(t.pieces) \in Nat
  BY TorrentFields, ListShape DEF TorrentFits
<1>2. n \in Nat
  BY <1>1
<1>3. g = Insertions(t, front)
  BY DEF Insertions
<1>4. t \in S
  BY <1>1 DEF SameRequests
<1>5. ASSUME NEW u \in S, NEW k \in 1..n PROVE Body(u, k) \in S
  <2> DEFINE i == At(k)
             s == u.pieces
             s2 == Put(u, i)
             v == [u EXCEPT !.pieces = s2]
  <2>1. u \in Torrent /\ TorrentFits(u, R) /\ SameRequests(t, u) /\ Len(s) = Len(t.pieces)
    OBVIOUS
  <2>2. s \in Seq(WeightedPiece) /\ ListFits(s, R) /\ RarityKept(u)
    BY <2>1, TorrentFields DEF TorrentFits
  <2>3. i \in 1..Len(s)
    BY <1>1, <2>1
  <2> HIDE DEF i, s
  <2>4. DrawnFrom(s2, s) /\ Len(s2) = Len(s)
    BY <2>2, <2>3, InsertedDrawn DEF s
  <2> HIDE DEF s2
  <2>5. ListFits(s2, R)
    BY <2>2, <2>4, DrawnFits
  <2>6. v \in Torrent /\ v.pieces = s2 /\ v.rep = u.rep /\ SameRequests(u, v)
    BY <2>1, <2>5, SetList DEF ListFits
  <2>7. v = Body(u, k)
    BY DEF s2, i
  <2> HIDE DEF v, Body
  <2>8. TorrentFits(v, R)
    BY <2>2, <2>5, <2>6, SameRarity DEF TorrentFits
  <2>9. SameRequests(t, v)
    BY <2>1, <2>6, SameTransitive
  <2> QED
    BY <2>1, <2>4, <2>6, <2>7, <2>8, <2>9
<1> HIDE DEF S, Body, n
<1>6. \A k \in 0..n : X[k] = S
  OBVIOUS
<1>7. \A k \in 1..n : \A x \in S : F[k][x] = Body(x, k)
  OBVIOUS
<1>8. \A k \in 1..n : k - 1 \in 0..n /\ k \in 0..n
  BY <1>2
<1>9. 0 \in 0..n
  BY <1>2
<1> HIDE DEF X, F
<1>10. \E f : Loop(f)
  <2>1. \A k \in 1..n : \A x \in X[k - 1] : F[k][x] \in X[k]
    BY <1>5, <1>6, <1>7, <1>8
  <2>2. t \in X[0]
    BY <1>4, <1>6, <1>9
  <2>3. PICK f : IsLoop(f, n, t, F) /\ \A k \in 0..n : f[k] \in X[k]
    BY <1>2, <2>1, <2>2, StepsExist
  <2>4. ASSUME NEW k \in 0..n PROVE (IF k = 0 THEN t ELSE F[k][f[k - 1]]) = IF k = 0 THEN t ELSE Body(f[k - 1], k)
    <3>1. CASE k # 0
      <4>1. k \in 1..n
        BY <1>2, <3>1
      <4>2. f[k - 1] \in S
        BY <1>6, <1>8, <2>3, <4>1
      <4> QED
        BY <1>7, <4>1, <4>2
    <3> QED
      BY <3>1
  <2>5. f = [k \in 0..n |-> IF k = 0 THEN t ELSE Body(f[k - 1], k)]
    BY <2>3, <2>4 DEF IsLoop
  <2> QED
    BY <2>5
<1>11. Loop(g)
  BY <1>10
<1> HIDE DEF g
<1>12. g[0] = t /\ \A k \in 1..n : g[k] = Body(g[k - 1], k)
  BY <1>2, <1>11
<1>13. \A k \in 0..n : g[k] \in X[k]
  <2>1. \A k \in 1..n : g[k - 1] \in X[k - 1] => g[k] \in X[k]
    BY <1>5, <1>6, <1>8, <1>12
  <2>2. g[0] \in X[0]
    BY <1>4, <1>6, <1>9, <1>12
  <2> QED
    BY <1>2, <2>1, <2>2, StepsReach
<1>14. g[n] \in S
  BY <1>2, <1>6, <1>13
<1> QED
  BY <1>3, <1>14 DEF S, n, Reinsert

LEMMA NextRequestsKeep ==
    ASSUME NEW t, TorrentSound(t), NEW q \in AllPeers, NEW want, NEW intervals, NEW n \in Nat
    PROVE  LET r == NextRequests(t, q, want, intervals, n)
           IN  /\ TorrentSound(r.t) /\ SameRest(t, r.t) /\ r.asked \in SUBSET Blocks
               /\ t.requests \subseteq r.t.requests
               /\ \A x \in r.t.requests : x \in t.requests \/ x.peer = q
<1> DEFINE s == IF t.pieces = <<>> THEN Rebuild(t) ELSE t
           w == IF s.state # "weight" THEN SortByWeight(s) ELSE s
           u == UpdateEndgame(w, n)
           end == Asking(u, q, want, intervals)[Len(u.pieces) * PieceBlocks]
           front == IF end.got >= want THEN Min(Position(u, end.seen) \cup {Len(u.pieces)}) ELSE Len(u.pieces) - 1
           v == IF end.got = 0 THEN u ELSE Reinsert(WithReplication(end.t), front)
<1>1. t \in Torrent /\ TorrentFits(t, t.requests) /\ t.requests \in SUBSET Request /\ CountsExact(t) /\ FewAsked(t)
  BY TorrentFields DEF TorrentSound, TorrentFits
<1>2. TorrentFits(s, t.requests) /\ SameRequests(t, s)
  <2>1. TorrentFits(Rebuild(t), t.requests) /\ SameRequests(t, Rebuild(t))
    BY <1>1, RebuildKeeps
  <2>2. SameRequests(t, t)
    BY DEF SameRequests
  <2> QED
    BY <1>1, <2>1, <2>2
<1> HIDE DEF s
<1>3. TorrentFits(w, t.requests) /\ SameRequests(t, w)
  <2>1. TorrentFits(SortByWeight(s), t.requests) /\ SameRequests(s, SortByWeight(s))
    BY <1>2, SortKeeps
  <2>2. SameRequests(t, SortByWeight(s))
    BY <1>2, <2>1, SameTransitive
  <2> QED
    BY <1>2, <2>1, <2>2
<1> HIDE DEF w
<1>4. TorrentSound(w) /\ w.requests = t.requests /\ SameRest(t, w)
  <2>1. SameRest(t, t)
    BY DEF SameRest
  <2> QED
    BY <1>1, <1>3, <2>1, SoundAgain
<1>5. TorrentSound(u) /\ u.requests = t.requests /\ SameRest(t, u)
  <2>1. TorrentSound(u) /\ u.requests = w.requests /\ SameRest(w, u)
    BY <1>4, EndgameKeeps
  <2> QED
    BY <1>4, <2>1 DEF SameRest
<1> HIDE DEF u
<1>6. end \in SoundProgress(u, q) /\ (Len(u.pieces) = 0 => end.got = 0)
  BY <1>5, AskingKeeps
<1> HIDE DEF end
<1>7. /\ TorrentSound(end.t) /\ SameRest(u, end.t) /\ Len(end.t.pieces) = Len(u.pieces)
      /\ u.requests \subseteq end.t.requests /\ \A x \in end.t.requests : x \in u.requests \/ x.peer = q
      /\ end.asked \in SUBSET Blocks
  BY <1>6 DEF SoundProgress, AskedWell, Progress
<1>8. u \in Torrent /\ Len(u.pieces) \in Nat /\ DOMAIN u.pieces = 1..Len(u.pieces)
  BY <1>5, TorrentFields, ListShape DEF TorrentSound, TorrentFits
<1>9. end.got # 0 => front \in 0..Len(u.pieces)
  <2> DEFINE P == Position(u, end.seen) \cup {Len(u.pieces)}
  <2>1. P \in SUBSET Nat /\ P # {} /\ P \subseteq 0..Len(u.pieces)
    BY <1>8 DEF Position
  <2> HIDE DEF P
  <2>2. \E i \in P : \A j \in P : i <= j
    BY <2>1, LeastNat
  <2>3. Min(P) \in P
    BY <2>2 DEF Min
  <2>4. Min(P) \in 0..Len(u.pieces)
    BY <2>1, <2>3
  <2>5. end.got # 0 => Len(u.pieces) - 1 \in 0..Len(u.pieces)
    BY <1>6, <1>8
  <2> QED
    BY <2>4, <2>5 DEF P
<1> HIDE DEF front
<1>10. ASSUME end.got # 0
       PROVE  LET e == Reinsert(WithReplication(end.t), front)
              IN  TorrentSound(e) /\ e.requests = end.t.requests /\ SameRest(end.t, e)
  <2> DEFINE c == end.t
             d == WithReplication(c)
             e == Reinsert(d, front)
  <2>1. TorrentFits(c, c.requests) /\ c \in Torrent /\ RarityKept(c) /\ ListFits(c.pieces, c.requests) /\ CountsExact(c) /\ FewAsked(c)
    BY <1>7 DEF TorrentSound, TorrentFits
  <2>2. d \in Torrent /\ RarityKept(d) /\ SameRequests(c, d) /\ d.pieces = c.pieces
    BY <2>1, ReplicationKeeps
  <2>3. TorrentFits(d, c.requests)
    BY <2>1, <2>2 DEF TorrentFits
  <2>4. front \in 0..Len(d.pieces)
    BY <1>7, <1>9, <1>10, <2>2
  <2> HIDE DEF c, d
  <2>5. TorrentFits(e, c.requests) /\ SameRequests(d, e)
    BY <2>3, <2>4, ReinsertKeeps
  <2>6. SameRequests(c, e)
    BY <2>2, <2>5, SameTransitive
  <2>7. SameRest(c, c)
    BY DEF SameRest
  <2> HIDE DEF e
  <2>8. TorrentSound(e) /\ e.requests = c.requests /\ SameRest(c, e)
    BY <2>1, <2>5, <2>6, <2>7, SoundAgain
  <2> QED
    BY <2>8 DEF c, d, e
<1>11. /\ TorrentSound(v) /\ SameRest(t, v) /\ t.requests \subseteq v.requests
       /\ \A x \in v.requests : x \in t.requests \/ x.peer = q
  <2>1. CASE end.got = 0
    BY <1>5, <2>1
  <2>2. CASE end.got # 0
    BY <1>5, <1>7, <1>10, <2>2 DEF SameRest
  <2> QED
    BY <2>1, <2>2
<1>12. NextRequests(t, q, want, intervals, n) = [t |-> v, asked |-> end.asked]
  BY DEF NextRequests, s, w, u, end, front
<1> QED
  BY <1>7, <1>11, <1>12

-----------------------------------------------------------------------------
(* Blocks that come, peers that come and go.                               *)

\* A change of what the three records do not show.
SameRecords(t, u) == u.requests = t.requests /\ u.pending = t.pending /\ u.pieces = t.pieces

LEMMA SoundChange ==
    ASSUME NEW t, TorrentSound(t), NEW u \in Torrent, SameRecords(t, u), RarityKept(u),
           \A b \in u.done : Asked(t, b) = {}
    PROVE  TorrentSound(u)
<1>1. t \in Torrent /\ ListFits(t.pieces, t.requests) /\ CountsExact(t) /\ FewAsked(t)
  BY DEF TorrentSound, TorrentFits
<1>2. CountsExact(u) /\ ListFits(u.pieces, u.requests)
  BY <1>1 DEF CountsExact, SameRecords
<1>3. \A b : Asked(u, b) = Asked(t, b)
  BY DEF SameRecords, Asked
<1>4. FewAsked(u)
  BY <1>1, <1>3 DEF FewAsked
<1> QED
  BY <1>2, <1>4 DEF TorrentSound, TorrentFits

\* What is done was not asked for.
LEMMA DoneNotAsked ==
    ASSUME NEW t, TorrentSound(t)
    PROVE  \A b \in t.done : Asked(t, b) = {}
<1>1. t.done \in SUBSET Blocks
  BY TorrentFields DEF TorrentSound, TorrentFits
<1> QED
  BY <1>1 DEF TorrentSound, FewAsked

LEMMA FewerRequests ==
    ASSUME NEW t, NEW u, NEW P, AskedOnly(t, P), u.requests \subseteq t.requests, u.have = t.have
    PROVE  AskedOnly(u, P)
BY DEF AskedOnly

LEMMA SetDone ==
    ASSUME NEW t, TorrentSound(t), NEW D \in SUBSET Blocks, \A b \in D : Asked(t, b) = {}
    PROVE  LET u == [t EXCEPT !.done = D]
           IN  TorrentSound(u) /\ u.done = D /\ u.requests = t.requests /\ u.peers = t.peers /\ u.have = t.have
<1> DEFINE u == [t EXCEPT !.done = D]
<1>1. t \in Torrent /\ RarityKept(t)
  BY DEF TorrentSound, TorrentFits
<1>2. u \in Torrent
  BY <1>1 DEF Torrent
<1>3. u.done = D /\ u.rep = t.rep /\ u.peers = t.peers /\ u.have = t.have /\ SameRecords(t, u)
  BY <1>1 DEF Torrent, SameRecords
<1> HIDE DEF u
<1>4. RarityKept(u)
  BY <1>1, <1>3 DEF RarityKept, Holders
<1>5. TorrentSound(u)
  BY <1>2, <1>3, <1>4, SoundChange
<1> QED
  BY <1>3, <1>5 DEF SameRecords, u

LEMMA ReceivedKeeps ==
    ASSUME NEW t, TorrentSound(t), NEW b \in Blocks, NEW q, NEW ok \in BOOLEAN
    PROVE  LET v == Received(t, b, q, ok)
           IN  TorrentSound(v) /\ v.requests \subseteq t.requests /\ v.peers = t.peers /\ v.have = t.have
<1> DEFINE p == PieceOf(b)
           one == RemoveFromTables(t, b, q)
           S == {r \in one.requests : r.block = b}
           all == Cancelled(one, S)
           got == [all EXCEPT !.done = @ \cup {b}]
           add == Resort(got, p)
           removed == RemovePiece(add, p)
           bad == [add EXCEPT !.done = @ \ BlocksOf(p)]
           Fine(v) == TorrentSound(v) /\ v.requests \subseteq t.requests /\ v.peers = t.peers /\ v.have = t.have
<1>1. Fine(one)
  BY RemovalKeeps DEF SameRest
<1> HIDE DEF one
<1>2. Fine(all) /\ Asked(all, b) = {}
  <2>1. S \in SUBSET one.requests /\ TorrentSound(one)
    BY <1>1
  <2>2. TorrentSound(all) /\ all.requests = one.requests \ S /\ SameRest(one, all)
    <3> HIDE DEF S
    <3> QED
      BY <2>1, CancelledKeeps
  <2> HIDE DEF all
  <2> QED
    BY <1>1, <2>2 DEF SameRest, Asked
<1> HIDE DEF all
<1>3. Fine(got)
  <2> DEFINE D == all.done \cup {b}
  <2>1. D \in SUBSET Blocks
    BY <1>2, TorrentFields DEF TorrentSound, TorrentFits
  <2>2. \A c \in D : Asked(all, c) = {}
    BY <1>2, DoneNotAsked
  <2>3. got = [all EXCEPT !.done = D]
    BY <1>2 DEF TorrentSound, TorrentFits, Torrent
  <2> HIDE DEF D, got
  <2>4. TorrentSound(got) /\ got.requests = all.requests /\ got.peers = all.peers /\ got.have = all.have
    BY <1>2, <2>1, <2>2, <2>3, SetDone
  <2> QED
    BY <1>2, <2>4
<1> HIDE DEF got
<1>4. ASSUME NEW u, NEW v, Fine(u), TorrentFits(v, u.requests), SameRequests(u, v) PROVE Fine(v)
  <2>1. CountsExact(u) /\ FewAsked(u) /\ SameRest(u, u)
    BY <1>4 DEF TorrentSound, SameRest
  <2>2. TorrentSound(v) /\ v.requests = u.requests /\ SameRest(u, v)
    BY <1>4, <2>1, SoundAgain
  <2> QED
    BY <1>4, <2>2 DEF SameRest
<1>5. Fine(add)
  <2>1. TorrentFits(got, got.requests)
    BY <1>3 DEF TorrentSound
  <2>2. TorrentFits(add, got.requests) /\ SameRequests(got, add)
    BY <2>1, ResortKeeps
  <2> HIDE DEF add, Fine
  <2> QED
    BY <1>3, <1>4, <2>2
<1> HIDE DEF add
<1>6. Fine(removed)
  <2>1. TorrentFits(add, add.requests)
    BY <1>5 DEF TorrentSound
  <2>2. TorrentFits(removed, add.requests) /\ SameRequests(add, removed)
    BY <2>1, RemovePieceKeeps
  <2> HIDE DEF removed, Fine
  <2> QED
    BY <1>4, <1>5, <2>2
<1>7. Fine(bad)
  <2> DEFINE D == add.done \ BlocksOf(p)
  <2>1. D \in SUBSET Blocks
    BY <1>5, TorrentFields DEF TorrentSound, TorrentFits
  <2>2. \A c \in D : Asked(add, c) = {}
    BY <1>5, DoneNotAsked
  <2>3. bad = [add EXCEPT !.done = D]
    BY <1>5 DEF TorrentSound, TorrentFits, Torrent
  <2> HIDE DEF D, bad
  <2>4. TorrentSound(bad) /\ bad.requests = add.requests /\ bad.peers = add.peers /\ bad.have = add.have
    BY <1>5, <2>1, <2>2, <2>3, SetDone
  <2> QED
    BY <1>5, <2>4
<1>8. Received(t, b, q, ok) \in {all, add, removed, bad}
  BY DEF Received, one, all, got, add
<1> HIDE DEF Fine, removed, bad
<1>9. Fine(Received(t, b, q, ok))
  BY <1>2, <1>5, <1>6, <1>7, <1>8
<1> QED
  BY <1>9 DEF Fine

\* A connection that was closed: the peer is off the list already.
LEMMA GoneKeeps ==
    ASSUME NEW t, TorrentSound(t), NEW q \in BtPeers, q \notin t.peers, AskedOnly(t, t.peers \cup {q})
    PROVE  LET v == [DeclinedAll(t, q) EXCEPT !.have[q] = {}, !.pending[q] = 0]
           IN  /\ TorrentSound(v) /\ AskedOnly(v, v.peers) /\ v.peers = t.peers
               /\ v.requests \subseteq t.requests
<1> DEFINE S == {r \in t.requests : r.peer = q}
           w == Cancelled(t, S)
           have == [w.have EXCEPT ![q] = {}]
           v == [w EXCEPT !.have = have]
<1>1. TorrentSound(w) /\ w.requests = t.requests \ S /\ SameRest(t, w)
  <2>1. S \in SUBSET t.requests
    OBVIOUS
  <2> HIDE DEF S
  <2> QED
    BY <2>1, CancelledKeeps
<1>2. DeclinedAll(t, q) = w
  BY DEF DeclinedAll
<1> HIDE DEF w
<1>3. /\ w \in Torrent /\ RarityKept(w) /\ w.have \in [AllPeers -> SUBSET Pieces] /\ w.pending \in [AllPeers -> Nat]
      /\ q \in AllPeers
  BY <1>1, TorrentFields, PeersFinite DEF TorrentSound, TorrentFits
<1>4. w.pending[q] = 0
  <2>1. RequestsOf(w.requests, q) = {}
    BY <1>1 DEF RequestsOf
  <2>2. w.pending[q] = Cardinality(RequestsOf(w.requests, q))
    BY <1>1, <1>3 DEF TorrentSound, CountsExact
  <2> QED
    BY <2>1, <2>2, FS_EmptySet
<1>5. v = [DeclinedAll(t, q) EXCEPT !.have[q] = {}, !.pending[q] = 0]
  <2>1. w.pending = [w.pending EXCEPT ![q] = 0]
    BY <1>3, <1>4
  <2>2. [w EXCEPT !.have[q] = {}, !.pending[q] = 0] = [w EXCEPT !.have = have, !.pending = [w.pending EXCEPT ![q] = 0]]
    BY <1>3 DEF Torrent
  <2>3. [w EXCEPT !.have = have, !.pending = w.pending] = v
    BY <1>3 DEF Torrent
  <2> HIDE DEF v, have
  <2> QED
    BY <1>2, <2>1, <2>2, <2>3
<1>6. have \in [AllPeers -> SUBSET Pieces] /\ have[q] = {} /\ \A p \in AllPeers : p # q => have[p] = w.have[p]
  BY <1>3
<1> HIDE DEF have
<1>7. v \in Torrent
  BY <1>3, <1>6 DEF Torrent
<1>8. v.have = have /\ v.rep = w.rep /\ v.peers = w.peers /\ v.done = w.done /\ SameRecords(w, v)
  BY <1>3 DEF Torrent, SameRecords
<1> HIDE DEF v
<1>9. w.peers = t.peers /\ w.have = t.have /\ w.peers \in SUBSET AllPeers
  BY <1>1, <1>3, TorrentFields, PeersFinite DEF SameRest
<1>10. RarityKept(v)
  <2>1. \A p : Holders(v, p) = Holders(w, p)
    BY <1>6, <1>8, <1>9 DEF Holders
  <2> QED
    BY <1>3, <1>8, <2>1 DEF RarityKept
<1>11. TorrentSound(v)
  BY <1>1, <1>7, <1>8, <1>10, SoundChange, DoneNotAsked
<1>12. AskedOnly(v, v.peers)
  <2>1. \A r \in v.requests : r \in t.requests /\ r.peer # q
    BY <1>1, <1>8 DEF SameRecords
  <2>2. \A r \in v.requests : r.peer \in v.peers \cup Webseeds
    BY <1>8, <1>9, <2>1 DEF AskedOnly
  <2>3. \A p \in BtPeers \ v.peers : v.have[p] = {}
    BY <1>6, <1>8, <1>9, PeersFinite DEF AskedOnly
  <2> QED
    BY <2>2, <2>3 DEF AskedOnly
<1> QED
  BY <1>1, <1>5, <1>8, <1>9, <1>11, <1>12 DEF SameRecords

-----------------------------------------------------------------------------
(* Replication.                                                            *)

\* The counts that are left cover the peers that are left.
LEMMA RecountKeeps ==
    ASSUME NEW t \in Torrent, NEW S \in SUBSET Pieces, NEW by \in Int,
           t.rep # <<>> => \A p \in Pieces : t.rep[p] + (IF p \in S THEN by ELSE 0) >= Cardinality(Holders(t, p))
    PROVE  LET u == Recount(t, S, by)
           IN  u \in Torrent /\ RarityKept(u) /\ SameRecords(t, u) /\ SameRest(t, u)
<1>1. CASE t.rep = <<>>
  BY <1>1 DEF Recount, RarityKept, SameRecords, SameRest
<1>2. CASE t.rep # <<>>
  <2> DEFINE rep == [p \in Pieces |-> t.rep[p] + IF p \in S THEN by ELSE 0]
             st == IF t.state = "weight" /\ S # Pieces /\ S # {} THEN "unsorted" ELSE t.state
             u == [t EXCEPT !.rep = rep, !.state = st]
  <2>1. u = Recount(t, S, by)
    BY <1>2 DEF Recount, Torrent
  <2>2. t.rep \in [Pieces -> Nat] /\ t.state \in {"unsorted", "weight"}
    BY <1>2, TorrentFields
  <2>3. ASSUME NEW p \in Pieces PROVE rep[p] \in Nat /\ rep[p] >= Cardinality(Holders(t, p))
    <3>1. rep[p] = t.rep[p] + (IF p \in S THEN by ELSE 0)
      OBVIOUS
    <3>2. rep[p] >= Cardinality(Holders(t, p))
      BY <1>2, <3>1
    <3>3. Cardinality(Holders(t, p)) \in Nat /\ rep[p] \in Int
      BY <2>2, <3>1, HoldersFinite
    <3> HIDE DEF rep
    <3> QED
      BY <3>2, <3>3
  <2>4. rep \in [Pieces -> Nat]
    BY <2>3
  <2>5. st \in {"unsorted", "weight"}
    BY <2>2
  <2> HIDE DEF rep, st
  <2>6. u \in Torrent
    BY <2>4, <2>5 DEF Torrent
  <2>7. u.rep = rep /\ SameRecords(t, u) /\ SameRest(t, u)
    BY DEF Torrent, SameRecords, SameRest
  <2> HIDE DEF u
  <2>8. RarityKept(u)
    <3>1. \A p : Holders(u, p) = Holders(t, p)
      BY <2>7 DEF Holders, SameRest
    <3> QED
      BY <2>3, <2>7, <3>1 DEF RarityKept
  <2> QED
    BY <2>1, <2>6, <2>7, <2>8
<1> QED
  BY <1>1, <1>2

LEMMA SetHave ==
    ASSUME NEW t \in Torrent, NEW q \in AllPeers, NEW S \in SUBSET Pieces
    PROVE  LET u == [t EXCEPT !.have[q] = S]
           IN  /\ u \in Torrent /\ SameRecords(t, u) /\ u.rep = t.rep /\ u.done = t.done /\ u.peers = t.peers
               /\ u.state = t.state
               /\ u.have \in [AllPeers -> SUBSET Pieces] /\ u.have[q] = S
               /\ \A p \in AllPeers : p # q => u.have[p] = t.have[p]
<1> DEFINE have == [t.have EXCEPT ![q] = S]
           u == [t EXCEPT !.have = have]
<1>1. t.have \in [AllPeers -> SUBSET Pieces]
  BY TorrentFields
<1>2. have \in [AllPeers -> SUBSET Pieces] /\ have[q] = S /\ \A p \in AllPeers : p # q => have[p] = t.have[p]
  BY <1>1
<1>3. u = [t EXCEPT !.have[q] = S]
  BY DEF Torrent
<1> HIDE DEF have
<1>4. u \in Torrent
  BY <1>2 DEF Torrent
<1>5. u.have = have /\ SameRecords(t, u) /\ u.rep = t.rep /\ u.done = t.done /\ u.peers = t.peers /\ u.state = t.state
  BY DEF Torrent, SameRecords
<1> QED
  BY <1>2, <1>3, <1>4, <1>5

LEMMA SetPeers ==
    ASSUME NEW t \in Torrent, NEW P \in SUBSET BtPeers
    PROVE  LET u == [t EXCEPT !.peers = P]
           IN  u \in Torrent /\ SameRecords(t, u) /\ u.rep = t.rep /\ u.done = t.done /\ u.peers = P /\ u.have = t.have
<1> DEFINE u == [t EXCEPT !.peers = P]
<1>1. u \in Torrent
  BY DEF Torrent
<1>2. SameRecords(t, u) /\ u.rep = t.rep /\ u.done = t.done /\ u.peers = P /\ u.have = t.have
  BY DEF Torrent, SameRecords
<1> QED
  BY <1>1, <1>2

\* A peer has one more piece, or has no other pieces than those of S.
LEMMA HoldersOfChanged ==
    ASSUME NEW t \in Torrent, NEW u \in Torrent, NEW q \in AllPeers, u.peers = t.peers,
           \A p \in AllPeers : p # q => u.have[p] = t.have[p]
    PROVE  \A p : Cardinality(Holders(u, p)) <= Cardinality(Holders(t, p)) + (IF p \in u.have[q] THEN 1 ELSE 0)
<1> TAKE p
<1>1. IsFiniteSet(Holders(t, p)) /\ Cardinality(Holders(t, p)) \in Nat /\ Cardinality(Holders(u, p)) \in Nat
  BY HoldersFinite
<1>2. t.peers \subseteq AllPeers
  BY TorrentFields, PeersFinite
<1>3. CASE p \in u.have[q]
  <2>1. Holders(u, p) \in SUBSET (Holders(t, p) \cup {q})
    BY <1>2 DEF Holders
  <2>2. IsFiniteSet(Holders(t, p) \cup {q}) /\ Cardinality(Holders(t, p) \cup {q}) <= Cardinality(Holders(t, p)) + 1
    <3>1. /\ IsFiniteSet(Holders(t, p) \cup {q})
          /\ Cardinality(Holders(t, p) \cup {q}) = IF q \in Holders(t, p) THEN Cardinality(Holders(t, p))
                                                   ELSE Cardinality(Holders(t, p)) + 1
      BY <1>1, FS_AddElement
    <3> QED
      BY <1>1, <3>1
  <2>3. Cardinality(Holders(u, p)) <= Cardinality(Holders(t, p) \cup {q})
    BY <2>1, <2>2, FS_Subset
  <2>4. Cardinality(Holders(t, p) \cup {q}) \in Nat
    BY <2>2, FS_CardinalityType
  <2> QED
    BY <1>1, <1>3, <2>2, <2>3, <2>4
<1>4. CASE p \notin u.have[q]
  <2>1. Holders(u, p) \in SUBSET Holders(t, p)
    BY <1>2, <1>4 DEF Holders
  <2>2. Cardinality(Holders(u, p)) <= Cardinality(Holders(t, p))
    BY <1>1, <2>1, FS_Subset
  <2> QED
    BY <1>1, <1>4, <2>2
<1> QED
  BY <1>3, <1>4

LEMMA BitfieldKeeps ==
    ASSUME NEW t, TorrentSound(t), AskedOnly(t, t.peers), NEW q \in t.peers, NEW S \in SUBSET Pieces
    PROVE  LET v == Recount([t EXCEPT !.have[q] = S], S, 1)
           IN  TorrentSound(v) /\ AskedOnly(v, v.peers) /\ v.requests = t.requests /\ v.peers = t.peers
<1> DEFINE u == [t EXCEPT !.have[q] = S]
           v == Recount(u, S, 1)
<1>1. t \in Torrent /\ RarityKept(t) /\ q \in BtPeers /\ q \in AllPeers
  BY TorrentFields, PeersFinite DEF TorrentSound, TorrentFits
<1>2. /\ u \in Torrent /\ SameRecords(t, u) /\ u.rep = t.rep /\ u.done = t.done /\ u.peers = t.peers
      /\ u.state = t.state
      /\ u.have \in [AllPeers -> SUBSET Pieces] /\ u.have[q] = S
      /\ \A p \in AllPeers : p # q => u.have[p] = t.have[p]
  <2> DEFINE q1 == q
             S1 == S
  <2>1. q1 \in AllPeers /\ S1 \in SUBSET Pieces /\ t \in Torrent
    BY <1>1
  <2>2. q1 = q /\ S1 = S
    OBVIOUS
  <2> HIDE DEF q1, S1
  <2>3. LET w == [t EXCEPT !.have[q1] = S1]
        IN  /\ w \in Torrent /\ SameRecords(t, w) /\ w.rep = t.rep /\ w.done = t.done /\ w.peers = t.peers
            /\ w.state = t.state
            /\ w.have \in [AllPeers -> SUBSET Pieces] /\ w.have[q1] = S1
            /\ \A p \in AllPeers : p # q1 => w.have[p] = t.have[p]
    BY <2>1, SetHave
  <2> QED
    BY <2>2, <2>3
<1> HIDE DEF u
<1>3. ASSUME u.rep # <<>>, NEW p \in Pieces
      PROVE  u.rep[p] + (IF p \in S THEN 1 ELSE 0) >= Cardinality(Holders(u, p))
  <2>1. u.rep \in [Pieces -> Nat]
    BY <1>2, <1>3, TorrentFields
  <2>2. u.rep[p] >= Cardinality(Holders(t, p))
    BY <1>1, <1>2, <1>3 DEF RarityKept
  <2>3. Cardinality(Holders(u, p)) <= Cardinality(Holders(t, p)) + (IF p \in S THEN 1 ELSE 0)
    BY <1>1, <1>2, HoldersOfChanged
  <2>4. Cardinality(Holders(u, p)) \in Nat /\ Cardinality(Holders(t, p)) \in Nat /\ u.rep[p] \in Nat
    BY <1>1, <1>2, <2>1, HoldersFinite
  <2> QED
    BY <2>2, <2>3, <2>4
<1>4. v \in Torrent /\ RarityKept(v) /\ SameRecords(u, v) /\ SameRest(u, v)
  BY <1>2, <1>3, RecountKeeps
<1> HIDE DEF v
<1>5. SameRecords(t, v) /\ v.done = t.done /\ v.peers = t.peers /\ v.requests = t.requests
  BY <1>2, <1>4 DEF SameRecords, SameRest
<1>6. TorrentSound(v)
  BY <1>4, <1>5, SoundChange, DoneNotAsked
<1>7. AskedOnly(v, v.peers)
  BY <1>1, <1>2, <1>4, <1>5, PeersFinite DEF AskedOnly, SameRest
<1> QED
  BY <1>5, <1>6, <1>7 DEF v, u

LEMMA HaveKeeps ==
    ASSUME NEW t, TorrentSound(t), AskedOnly(t, t.peers), NEW q \in t.peers, NEW p \in Pieces
    PROVE  LET h == [t EXCEPT !.have[q] = @ \cup {p}]
               u == IF h.rep = <<>> THEN h ELSE [h EXCEPT !.rep[p] = @ + 1]
               v == IF h.rep # <<>> /\ h.state = "weight" THEN Resort(u, p) ELSE u
           IN  TorrentSound(v) /\ AskedOnly(v, v.peers) /\ v.requests = t.requests /\ v.peers = t.peers
<1> DEFINE S == t.have[q] \cup {p}
           h == [t EXCEPT !.have[q] = S]
           u == IF h.rep = <<>> THEN h ELSE [h EXCEPT !.rep[p] = @ + 1]
           v == IF h.rep # <<>> /\ h.state = "weight" THEN Resort(u, p) ELSE u
<1>1. t \in Torrent /\ RarityKept(t) /\ q \in BtPeers /\ q \in AllPeers
  BY TorrentFields, PeersFinite DEF TorrentSound, TorrentFits
<1>2. S \in SUBSET Pieces
  BY <1>1, TorrentFields
<1>3. h = [t EXCEPT !.have[q] = @ \cup {p}]
  BY <1>1 DEF Torrent
<1>4. /\ h \in Torrent /\ SameRecords(t, h) /\ h.rep = t.rep /\ h.done = t.done /\ h.peers = t.peers
      /\ h.have[q] = S /\ \A x \in AllPeers : x # q => h.have[x] = t.have[x]
  BY <1>1, <1>2, SetHave
<1>14. \A x : x # p => (x \in h.have[q] <=> x \in t.have[q])
  BY <1>4
<1> HIDE DEF h, S
<1>5. u \in Torrent /\ SameRecords(h, u) /\ SameRest(h, u) /\ RarityKept(u)
  <2>1. CASE h.rep = <<>>
    BY <1>4, <2>1 DEF SameRecords, SameRest, RarityKept
  <2>2. CASE h.rep # <<>>
    <3> DEFINE rep == [h.rep EXCEPT ![p] = @ + 1]
               w == [h EXCEPT !.rep = rep]
    <3>1. h.rep \in [Pieces -> Nat]
      BY <1>4, <2>2, TorrentFields
    <3>2. u = w
      BY <1>4, <2>2 DEF Torrent
    <3>3. rep \in [Pieces -> Nat] /\ \A x \in Pieces : rep[x] = IF x = p THEN h.rep[x] + 1 ELSE h.rep[x]
      BY <3>1
    <3> HIDE DEF rep
    <3>4. w \in Torrent
      BY <1>4, <3>3 DEF Torrent
    <3>5. w.rep = rep /\ SameRecords(h, w) /\ SameRest(h, w)
      BY <1>4 DEF Torrent, SameRecords, SameRest
    <3> HIDE DEF w, u
    <3>6. ASSUME NEW x \in Pieces PROVE rep[x] >= Cardinality(Holders(w, x))
      <4>1. Holders(w, x) = Holders(h, x)
        BY <3>5 DEF Holders, SameRest
      <4>2. h.rep[x] >= Cardinality(Holders(t, x))
        BY <1>1, <1>4, <2>2 DEF RarityKept
      <4>3. Cardinality(Holders(h, x)) \in Nat /\ Cardinality(Holders(t, x)) \in Nat /\ h.rep[x] \in Nat
        BY <1>1, <1>4, <3>1, HoldersFinite
      <4>4. CASE x = p
        <5>1. Cardinality(Holders(h, x)) <= Cardinality(Holders(t, x)) + (IF x \in h.have[q] THEN 1 ELSE 0)
          BY <1>1, <1>4, HoldersOfChanged
        <5> QED
          BY <3>3, <4>1, <4>2, <4>3, <4>4, <5>1
      <4>5. CASE x # p
        <5>1. t.peers \subseteq AllPeers
          BY <1>1, TorrentFields, PeersFinite
        <5>2. Holders(h, x) = Holders(t, x)
          BY <1>4, <1>14, <4>5, <5>1 DEF Holders
        <5> QED
          BY <3>3, <4>1, <4>2, <4>5, <5>2
      <4> QED
        BY <4>4, <4>5
    <3> QED
      BY <3>2, <3>4, <3>5, <3>6 DEF RarityKept
  <2> QED
    BY <2>1, <2>2
<1> HIDE DEF u
<1>6. SameRecords(t, u) /\ u.done = t.done /\ u.peers = t.peers /\ u.requests = t.requests /\ u.have = h.have
  BY <1>4, <1>5 DEF SameRecords, SameRest
<1>7. TorrentSound(u)
  BY <1>5, <1>6, SoundChange, DoneNotAsked
<1>8. AskedOnly(u, u.peers)
  BY <1>1, <1>4, <1>6, PeersFinite DEF AskedOnly
<1>9. TorrentSound(v) /\ v.requests = u.requests /\ SameRest(u, v)
  <2>1. TorrentFits(u, u.requests) /\ CountsExact(u) /\ FewAsked(u) /\ SameRest(u, u)
    BY <1>7 DEF TorrentSound, SameRest
  <2>2. TorrentFits(Resort(u, p), u.requests) /\ SameRequests(u, Resort(u, p))
    BY <2>1, ResortKeeps
  <2>3. TorrentSound(Resort(u, p)) /\ Resort(u, p).requests = u.requests /\ SameRest(u, Resort(u, p))
    BY <2>1, <2>2, SoundAgain
  <2> QED
    BY <1>7, <2>1, <2>3
<1> HIDE DEF v
<1>10. AskedOnly(v, v.peers)
  BY <1>8, <1>9 DEF AskedOnly, SameRest
<1>11. v.requests = t.requests /\ v.peers = t.peers
  BY <1>6, <1>9 DEF SameRest
<1> QED
  BY <1>3, <1>9, <1>10, <1>11 DEF v, u

-----------------------------------------------------------------------------
(* Peers that leave.                                                       *)

LEMMA MaxOfPeers ==
    ASSUME NEW P \in SUBSET AllPeers, P # {}
    PROVE  Max(P) \in P
<1> DEFINE Greatest(S) == \E x \in S : \A y \in S : x >= y
           Bad(S, n) == S # {} /\ Cardinality(S) = n /\ ~Greatest(S)
           T == {n \in Nat : \E S \in SUBSET AllPeers : Bad(S, n)}
<1>1. ASSUME T # {} PROVE FALSE
  <2>1. T \in SUBSET Nat
    OBVIOUS
  <2> HIDE DEF T
  <2>2. PICK m \in T : \A j \in T : m <= j
    BY <1>1, <2>1, LeastNat
  <2>3. PICK S \in SUBSET AllPeers : Bad(S, m)
    BY <2>2 DEF T
  <2>4. PICK x \in S : TRUE
    BY <2>3
  <2>5. m \in Nat /\ IsFiniteSet(S) /\ S \subseteq Nat /\ x \in Nat
    BY <2>1, <2>2, PeersFinite
  <2> DEFINE D == S \ {x}
  <2>6. D \in SUBSET AllPeers /\ Cardinality(D) = m - 1 /\ Cardinality(D) \in Nat
    <3>1. Cardinality(D) = Cardinality(S) - 1
      BY <2>5, FS_RemoveElement
    <3> QED
      BY <2>3, <3>1, PeersFinite
  <2>7. m - 1 \notin T
    BY <2>2, <2>5, <2>6
  <2>8. D = {} \/ Greatest(D)
    <3> HIDE DEF D, Greatest
    <3> QED
      BY <2>6, <2>7 DEF T
  <2>9. CASE D = {}
    BY <2>3, <2>5, <2>9
  <2>10. CASE Greatest(D)
    <3>1. PICK y \in D : \A z \in D : y >= z
      BY <2>10
    <3>2. \A z \in S : z = x \/ z \in D
      OBVIOUS
    <3>3. x \in Nat /\ y \in Nat /\ y \in S /\ \A z \in S : z \in Nat
      BY <2>5
    <3>4. CASE x >= y
      <4>1. \A z \in S : x >= z
        <5> HIDE DEF D
        <5> QED
          BY <2>5, <3>1, <3>2, <3>3, <3>4
      <4> QED
        BY <2>3, <4>1
    <3>5. CASE y >= x
      <4>1. \A z \in S : y >= z
        BY <3>1, <3>2, <3>5
      <4> QED
        BY <2>3, <3>3, <4>1
    <3> QED
      BY <3>3, <3>4, <3>5
  <2> QED
    BY <2>8, <2>9, <2>10
<1>2. Cardinality(P) \in Nat
  BY PeersFinite
<1>3. Greatest(P)
  <2>1. Cardinality(P) \notin T
    BY <1>1
  <2> HIDE DEF Greatest
  <2> QED
    BY <1>2, <2>1
<1> QED
  BY <1>3 DEF Max

\* A peer is taken off the list of peers, and nothing else is done yet.
LEMMA LeavingKeeps ==
    ASSUME NEW t, TorrentSound(t), AskedOnly(t, t.peers), NEW q \in t.peers
    PROVE  LET w == [t EXCEPT !.peers = @ \ {q}]
           IN  /\ TorrentSound(w) /\ w \in Torrent /\ SameRecords(t, w) /\ w.rep = t.rep /\ w.done = t.done
               /\ w.have = t.have /\ w.peers = t.peers \ {q}
               /\ AskedOnly(w, w.peers \cup {q}) /\ q \in BtPeers
               /\ \A p : Holders(w, p) = Holders(t, p) \ {q}
<1> DEFINE P == t.peers \ {q}
           w == [t EXCEPT !.peers = P]
<1>1. t \in Torrent /\ RarityKept(t) /\ t.peers \in SUBSET BtPeers
  BY TorrentFields DEF TorrentSound, TorrentFits
<1>2. P \in SUBSET BtPeers /\ q \in BtPeers
  BY <1>1
<1>3. w = [t EXCEPT !.peers = @ \ {q}]
  BY <1>1 DEF Torrent
<1>4. P \cup {q} = t.peers
  OBVIOUS
<1> DEFINE Q == P
<1>5. Q \in SUBSET BtPeers
  BY <1>2
<1> HIDE DEF Q
<1>6. LET x == [t EXCEPT !.peers = Q]
      IN  x \in Torrent /\ SameRecords(t, x) /\ x.rep = t.rep /\ x.done = t.done /\ x.peers = Q /\ x.have = t.have
  BY <1>1, <1>5, SetPeers
<1>7. w \in Torrent /\ SameRecords(t, w) /\ w.rep = t.rep /\ w.done = t.done /\ w.peers = P /\ w.have = t.have
  BY <1>6 DEF Q
<1> HIDE DEF w
<1>8. \A p : Holders(w, p) = Holders(t, p) \ {q}
  BY <1>7 DEF Holders
<1>9. RarityKept(w)
  <2>1. SUFFICES ASSUME w.rep # <<>>, NEW p \in Pieces
                 PROVE  w.rep[p] >= Cardinality(Holders(w, p))
    BY DEF RarityKept
  <2>2. t.rep \in [Pieces -> Nat] /\ t.rep[p] >= Cardinality(Holders(t, p))
    BY <1>1, <1>7, <2>1, TorrentFields DEF RarityKept
  <2>3. /\ IsFiniteSet(Holders(t, p)) /\ Cardinality(Holders(t, p)) \in Nat /\ Cardinality(Holders(w, p)) \in Nat
        /\ Holders(w, p) \in SUBSET Holders(t, p)
    BY <1>1, <1>7, <1>8, HoldersFinite
  <2>4. Cardinality(Holders(w, p)) <= Cardinality(Holders(t, p))
    BY <2>3, FS_Subset
  <2>5. t.rep[p] \in Nat
    BY <2>2
  <2> QED
    BY <1>7, <2>2, <2>3, <2>4, <2>5
<1>10. TorrentSound(w)
  <2>1. \A b \in w.done : Asked(t, b) = {}
    BY <1>7, DoneNotAsked
  <2> QED
    BY <1>7, <1>9, <2>1, SoundChange
<1>11. AskedOnly(w, w.peers \cup {q})
  BY <1>4, <1>7 DEF AskedOnly, SameRecords
<1> QED
  BY <1>2, <1>3, <1>7, <1>8, <1>10, <1>11

\* One peer that stopTorrent pops.
LEMMA PoppedKeeps ==
    ASSUME NEW t, TorrentSound(t), AskedOnly(t, t.peers), NEW q \in t.peers
    PROVE  LET v == [DeclinedAll([t EXCEPT !.peers = @ \ {q}], q) EXCEPT !.have[q] = {}, !.pending[q] = 0]
           IN  /\ TorrentSound(v) /\ AskedOnly(v, v.peers) /\ v.peers = t.peers \ {q}
               /\ v.requests \subseteq t.requests
<1> DEFINE w == [t EXCEPT !.peers = @ \ {q}]
           v == [DeclinedAll(w, q) EXCEPT !.have[q] = {}, !.pending[q] = 0]
<1>1. /\ TorrentSound(w) /\ SameRecords(t, w) /\ w.peers = t.peers \ {q} /\ AskedOnly(w, w.peers \cup {q})
      /\ q \in BtPeers
  BY LeavingKeeps
<1>2. q \notin w.peers
  BY <1>1
<1> HIDE DEF w
<1>3. /\ TorrentSound(v) /\ AskedOnly(v, v.peers) /\ v.peers = w.peers
      /\ v.requests \subseteq w.requests
  BY <1>1, <1>2, GoneKeeps
<1> QED
  BY <1>1, <1>3 DEF SameRecords, w

\* A connection that is closed.
LEMMA CloseKeeps ==
    ASSUME NEW t, TorrentSound(t), AskedOnly(t, t.peers), NEW q \in t.peers
    PROVE  LET u == Recount([t EXCEPT !.peers = @ \ {q}], t.have[q], -1)
               v == [DeclinedAll(u, q) EXCEPT !.have[q] = {}, !.pending[q] = 0]
           IN  /\ TorrentSound(v) /\ AskedOnly(v, v.peers) /\ v.peers = t.peers \ {q}
               /\ v.requests \subseteq t.requests
<1> DEFINE w == [t EXCEPT !.peers = @ \ {q}]
           S == t.have[q]
           u == Recount(w, S, -1)
           v == [DeclinedAll(u, q) EXCEPT !.have[q] = {}, !.pending[q] = 0]
<1>1. /\ TorrentSound(w) /\ w \in Torrent /\ SameRecords(t, w) /\ w.rep = t.rep /\ w.done = t.done /\ w.have = t.have
      /\ w.peers = t.peers \ {q} /\ AskedOnly(w, w.peers \cup {q}) /\ q \in BtPeers
      /\ \A p : Holders(w, p) = Holders(t, p) \ {q}
  BY LeavingKeeps
<1>2. t \in Torrent /\ RarityKept(t) /\ S \in SUBSET Pieces
  BY <1>1, TorrentFields, PeersFinite DEF TorrentSound, TorrentFits
<1>3. \A p : q \in Holders(t, p) <=> p \in S
  BY DEF Holders
<1> HIDE DEF w, S
<1>4. ASSUME w.rep # <<>>, NEW p \in Pieces
      PROVE  w.rep[p] + (IF p \in S THEN -1 ELSE 0) >= Cardinality(Holders(w, p))
  <2>1. t.rep \in [Pieces -> Nat] /\ w.rep[p] >= Cardinality(Holders(t, p))
    BY <1>1, <1>2, <1>4, TorrentFields DEF RarityKept
  <2>2. IsFiniteSet(Holders(t, p)) /\ Cardinality(Holders(t, p)) \in Nat /\ w.rep[p] \in Nat
    BY <1>1, <1>2, <2>1, HoldersFinite
  <2>3. CASE p \in S
    <3>1. Cardinality(Holders(t, p) \ {q}) = Cardinality(Holders(t, p)) - 1
      BY <1>3, <2>2, <2>3, FS_RemoveElement
    <3> QED
      BY <1>1, <2>1, <2>2, <2>3, <3>1
  <2>4. CASE p \notin S
    <3>1. Holders(w, p) = Holders(t, p)
      BY <1>1, <1>3, <2>4
    <3> QED
      BY <2>1, <2>2, <2>4, <3>1
  <2> QED
    BY <2>3, <2>4
<1>5. u \in Torrent /\ RarityKept(u) /\ SameRecords(w, u) /\ SameRest(w, u)
  BY <1>1, <1>2, <1>4, RecountKeeps
<1> HIDE DEF u
<1>6. TorrentSound(u)
  <2>1. \A b \in u.done : Asked(w, b) = {}
    BY <1>1, <1>5, DoneNotAsked DEF SameRest
  <2> QED
    BY <1>1, <1>5, <2>1, SoundChange
<1>7. /\ q \notin u.peers /\ AskedOnly(u, u.peers \cup {q}) /\ u.peers = t.peers \ {q}
      /\ u.requests = t.requests
  BY <1>1, <1>5 DEF AskedOnly, SameRecords, SameRest
<1>8. /\ TorrentSound(v) /\ AskedOnly(v, v.peers) /\ v.peers = u.peers
      /\ v.requests \subseteq u.requests
  BY <1>1, <1>6, <1>7, GoneKeeps
<1> QED
  BY <1>7, <1>8 DEF u, w, S

\* A torrent that is stopped: all its peers are popped.
LEMMA PoppingKeeps ==
    ASSUME NEW t, TorrentSound(t), AskedOnly(t, t.peers)
    PROVE  LET v == Popping(t)[Cardinality(t.peers)]
           IN  TorrentSound(v) /\ AskedOnly(v, v.peers) /\ v.peers = {} /\ v.requests \subseteq t.requests
<1> DEFINE n == Cardinality(t.peers)
           x0 == [t EXCEPT !.rep = <<>>, !.state = "unsorted"]
           Body(u) == [DeclinedAll([u EXCEPT !.peers = @ \ {Max(u.peers)}], Max(u.peers))
                          EXCEPT !.have[Max(u.peers)] = {}, !.pending[Max(u.peers)] = 0]
           Fine(u, k) == /\ TorrentSound(u) /\ AskedOnly(u, u.peers) /\ Cardinality(u.peers) = n - k
                         /\ u.requests \subseteq t.requests
           S(k) == {u \in Torrent : Fine(u, k)}
           X == [k \in 0..n |-> S(k)]
           F == [k \in 1..n |-> [x \in Torrent |-> Body(x)]]
           Loop(f) == f = [k \in 0..n |-> IF k = 0 THEN x0 ELSE Body(f[k - 1])]
           g == CHOOSE f : Loop(f)
<1>1. t \in Torrent /\ RarityKept(t) /\ t.peers \in SUBSET BtPeers /\ n \in Nat
  BY TorrentFields, PeersFinite DEF TorrentSound, TorrentFits
<1>2. g = Popping(t)
  BY DEF Popping
<1>3. Fine(x0, 0) /\ x0 \in Torrent
  <2>1. x0 \in Torrent
    BY <1>1 DEF Torrent
  <2>2. SameRecords(t, x0) /\ x0.rep = <<>> /\ x0.done = t.done /\ x0.peers = t.peers /\ x0.have = t.have
    BY <1>1 DEF Torrent, SameRecords
  <2> HIDE DEF x0
  <2>3. RarityKept(x0)
    BY <2>2 DEF RarityKept
  <2>4. \A b \in x0.done : Asked(t, b) = {}
    BY <2>2, DoneNotAsked
  <2>5. TorrentSound(x0)
    BY <2>1, <2>2, <2>3, <2>4, SoundChange
  <2>6. AskedOnly(x0, x0.peers) /\ x0.requests \subseteq t.requests
    BY <2>2 DEF AskedOnly, SameRecords
  <2> QED
    BY <1>1, <2>1, <2>2, <2>5, <2>6
<1>4. ASSUME NEW k \in 1..n, NEW u \in S(k - 1) PROVE Body(u) \in S(k)
  <2> DEFINE q == Max(u.peers)
             v == Body(u)
  <2>1. u \in Torrent /\ Fine(u, k - 1)
    OBVIOUS
  <2>2. u.peers \in SUBSET AllPeers /\ IsFiniteSet(u.peers)
    BY <2>1, TorrentFields, PeersFinite
  <2>3. u.peers # {}
    <3>1. n - (k - 1) # 0
      BY <1>1
    <3> QED
      BY <2>1, <3>1, FS_EmptySet
  <2>4. q \in u.peers
    BY <2>2, <2>3, MaxOfPeers
  <2> HIDE DEF q
  <2>5. LET w == [DeclinedAll([u EXCEPT !.peers = @ \ {q}], q) EXCEPT !.have[q] = {}, !.pending[q] = 0]
        IN  /\ TorrentSound(w) /\ AskedOnly(w, w.peers) /\ w.peers = u.peers \ {q}
            /\ w.requests \subseteq u.requests
    BY <2>1, <2>4, PoppedKeeps
  <2>6. TorrentSound(v) /\ AskedOnly(v, v.peers) /\ v.peers = u.peers \ {q} /\ v.requests \subseteq u.requests
    BY <2>5 DEF q
  <2> HIDE DEF v
  <2>7. Cardinality(v.peers) = n - k
    <3>1. Cardinality(u.peers \ {q}) = Cardinality(u.peers) - 1
      BY <2>2, <2>4, FS_RemoveElement
    <3>2. (n - (k - 1)) - 1 = n - k
      BY <1>1
    <3> QED
      BY <2>1, <2>6, <3>1, <3>2
  <2>8. v \in Torrent /\ v.requests \subseteq t.requests
    BY <2>1, <2>6 DEF TorrentSound, TorrentFits
  <2>9. Fine(v, k)
    BY <2>6, <2>7, <2>8
  <2> HIDE DEF Fine
  <2> QED
    BY <2>8, <2>9 DEF v
<1>5. \A k \in 0..n : X[k] = S(k)
  OBVIOUS
<1>6. \A k \in 1..n : \A x \in Torrent : F[k][x] = Body(x)
  OBVIOUS
<1>7. \A k \in 1..n : k - 1 \in 0..n /\ k \in 0..n
  BY <1>1
<1>8. 0 \in 0..n /\ n \in 0..n
  BY <1>1
<1>9. \A k : S(k) \subseteq Torrent
  OBVIOUS
<1>10. x0 \in S(0)
  BY <1>3
<1> HIDE DEF S, Body, X, F, n, x0
<1>11. \E f : Loop(f)
  <2>1. \A k \in 1..n : \A x \in X[k - 1] : F[k][x] \in X[k]
    BY <1>4, <1>5, <1>6, <1>7, <1>9
  <2>2. x0 \in X[0]
    BY <1>5, <1>8, <1>10
  <2>3. PICK f : IsLoop(f, n, x0, F) /\ \A k \in 0..n : f[k] \in X[k]
    BY <1>1, <2>1, <2>2, StepsExist
  <2>4. ASSUME NEW k \in 0..n PROVE (IF k = 0 THEN x0 ELSE F[k][f[k - 1]]) = IF k = 0 THEN x0 ELSE Body(f[k - 1])
    <3>1. CASE k # 0
      <4>1. k \in 1..n
        BY <1>1, <3>1
      <4>2. f[k - 1] \in Torrent
        BY <1>5, <1>7, <1>9, <2>3, <4>1
      <4> QED
        BY <1>6, <4>1, <4>2
    <3> QED
      BY <3>1
  <2>5. f = [k \in 0..n |-> IF k = 0 THEN x0 ELSE Body(f[k - 1])]
    BY <2>3, <2>4 DEF IsLoop
  <2> QED
    BY <2>5
<1>12. Loop(g)
  BY <1>11
<1> HIDE DEF g
<1>13. g[0] = x0 /\ \A k \in 1..n : g[k] = Body(g[k - 1])
  BY <1>1, <1>12
<1>14. \A k \in 0..n : g[k] \in X[k]
  <2>1. \A k \in 1..n : g[k - 1] \in X[k - 1] => g[k] \in X[k]
    BY <1>4, <1>5, <1>7, <1>13
  <2>2. g[0] \in X[0]
    BY <1>5, <1>8, <1>10, <1>13
  <2> QED
    BY <1>1, <2>1, <2>2, StepsReach
<1>15. Fine(g[n], n)
  BY <1>5, <1>8, <1>14 DEF S
<1>16. g[n].peers = {}
  <2>1. g[n] \in Torrent
    BY <1>5, <1>8, <1>9, <1>14
  <2>2. IsFiniteSet(g[n].peers)
    BY <2>1, TorrentFields, PeersFinite
  <2>3. Cardinality(g[n].peers) = 0
    BY <1>1, <1>15
  <2> QED
    BY <2>2, <2>3, FS_EmptySet
<1> QED
  BY <1>2, <1>15, <1>16 DEF n

\* A new connection: of a peer that has nothing yet.
LEMMA ConnectKeeps ==
    ASSUME NEW t, TorrentSound(t), AskedOnly(t, t.peers), NEW q \in BtPeers, q \notin t.peers
    PROVE  LET v == [t EXCEPT !.peers = @ \cup {q}]
           IN  TorrentSound(v) /\ AskedOnly(v, v.peers) /\ v.peers = t.peers \cup {q} /\ v.requests = t.requests
<1> DEFINE P == t.peers \cup {q}
           v == [t EXCEPT !.peers = P]
<1>1. t \in Torrent /\ RarityKept(t) /\ P \in SUBSET BtPeers
  BY TorrentFields DEF TorrentSound, TorrentFits
<1>2. v = [t EXCEPT !.peers = @ \cup {q}]
  BY <1>1 DEF Torrent
<1> HIDE DEF P
<1>3. v \in Torrent /\ SameRecords(t, v) /\ v.rep = t.rep /\ v.done = t.done /\ v.peers = P /\ v.have = t.have
  BY <1>1, SetPeers
<1> HIDE DEF v
<1>4. \A p : Holders(v, p) = Holders(t, p)
  BY <1>3 DEF Holders, AskedOnly, P
<1>5. RarityKept(v)
  BY <1>1, <1>3, <1>4 DEF RarityKept
<1>6. TorrentSound(v)
  <2>1. \A b \in v.done : Asked(t, b) = {}
    BY <1>3, DoneNotAsked
  <2> QED
    BY <1>3, <1>5, <2>1, SoundChange
<1>7. AskedOnly(v, v.peers)
  BY <1>3 DEF AskedOnly, SameRecords, P
<1> QED
  BY <1>2, <1>3, <1>6, <1>7 DEF SameRecords, P

\* Other pieces are wanted.
LEMMA SetWantedKeeps ==
    ASSUME NEW t, TorrentSound(t), AskedOnly(t, t.peers), NEW S \in SUBSET Pieces
    PROVE  LET v == Rebuild([t EXCEPT !.wanted = S])
           IN  TorrentSound(v) /\ AskedOnly(v, v.peers) /\ v.peers = t.peers /\ v.requests = t.requests
<1> DEFINE u == [t EXCEPT !.wanted = S]
           v == Rebuild(u)
<1>1. t \in Torrent /\ RarityKept(t)
  BY DEF TorrentSound, TorrentFits
<1>2. /\ u \in Torrent /\ SameRecords(t, u) /\ u.rep = t.rep /\ u.done = t.done /\ u.peers = t.peers /\ u.have = t.have
  BY <1>1 DEF Torrent, SameRecords
<1> HIDE DEF u
<1>3. RarityKept(u)
  BY <1>1, <1>2 DEF RarityKept, Holders
<1>4. TorrentSound(u) /\ AskedOnly(u, u.peers)
  <2>1. \A b \in u.done : Asked(t, b) = {}
    BY <1>2, DoneNotAsked
  <2> QED
    BY <1>2, <1>3, <2>1, SoundChange DEF AskedOnly, SameRecords
<1>5. /\ TorrentFits(u, u.requests) /\ CountsExact(u) /\ FewAsked(u) /\ SameRest(u, u)
      /\ u.requests \in SUBSET Request
  BY <1>2, <1>4, TorrentFields DEF TorrentSound, SameRest
<1>6. TorrentFits(v, u.requests) /\ SameRequests(u, v)
  BY <1>5, RebuildKeeps
<1> HIDE DEF v
<1>7. TorrentSound(v) /\ v.requests = u.requests /\ SameRest(u, v)
  BY <1>5, <1>6, SoundAgain
<1> QED
  BY <1>2, <1>4, <1>7 DEF u, v, AskedOnly, SameRecords, SameRest

LEMMA StartKeeps ==
    ASSUME NEW t, TorrentSound(t), AskedOnly(t, t.peers)
    PROVE  LET v == [t EXCEPT !.state = "unsorted"]
           IN  TorrentSound(v) /\ AskedOnly(v, v.peers) /\ v.peers = t.peers /\ v.requests = t.requests
<1> DEFINE v == [t EXCEPT !.state = "unsorted"]
<1>1. t \in Torrent /\ RarityKept(t)
  BY DEF TorrentSound, TorrentFits
<1>2. v \in Torrent /\ SameRecords(t, v) /\ v.rep = t.rep /\ v.done = t.done /\ v.peers = t.peers /\ v.have = t.have
  BY <1>1 DEF Torrent, SameRecords
<1> HIDE DEF v
<1>3. RarityKept(v)
  BY <1>1, <1>2 DEF RarityKept, Holders
<1>4. \A b \in v.done : Asked(t, b) = {}
  BY <1>2, DoneNotAsked
<1> QED
  BY <1>2, <1>3, <1>4, SoundChange DEF AskedOnly, SameRecords, v

-----------------------------------------------------------------------------
(* The events.                                                             *)

LEMMA RequestsInit == ReqInit => RequestsInv
<1> SUFFICES ASSUME ReqInit PROVE RequestsInv
  OBVIOUS
<1> DEFINE none == [q \in AllPeers |-> 0]
           has == [q \in AllPeers |-> IF q \in Webseeds THEN Pieces ELSE {}]
           t == [requests |-> {}, pieces |-> <<>>, state |-> "unsorted", rep |-> <<>>, endgame |-> 0,
                 peers |-> {}, pending |-> none, done |-> {}, wanted |-> Pieces, have |-> has]
<1>1. torrent = t
  BY DEF ReqInit
<1>2. none \in [AllPeers -> Nat] /\ has \in [AllPeers -> SUBSET Pieces]
  OBVIOUS
<1>3. \A q \in AllPeers : none[q] = 0
  OBVIOUS
<1>4. \A q \in BtPeers : has[q] = {}
  BY PeersFinite, RequestsAssumption
<1> HIDE DEF none, has
<1>5. <<>> \in Seq(WeightedPiece) /\ DOMAIN <<>> = {}
  <2>1. <<>> \in Seq(WeightedPiece) /\ Len(<<>>) = 0
    BY EmptySeq
  <2>2. DOMAIN <<>> = 1..0
    BY <2>1, LenProperties
  <2> QED
    BY <2>1, <2>2
<1>6. t \in Torrent
  BY <1>2, <1>5 DEF Torrent
<1>7. t.requests = {} /\ t.pieces = <<>> /\ t.rep = <<>> /\ t.pending = none /\ t.done = {} /\ t.have = has /\ t.peers = {}
  OBVIOUS
<1> HIDE DEF t
<1>8. ListFits(t.pieces, t.requests) /\ RarityKept(t)
  BY <1>5, <1>7 DEF ListFits, RarityKept
<1>9. CountsExact(t)
  <2>1. \A q : RequestsOf(t.requests, q) = {}
    BY <1>7 DEF RequestsOf
  <2> QED
    BY <1>3, <1>7, <2>1, FS_EmptySet DEF CountsExact
<1>10. FewAsked(t)
  <2>1. \A b : Asked(t, b) = {}
    BY <1>7 DEF Asked
  <2>2. Cardinality({}) <= 2
    BY FS_EmptySet
  <2> QED
    BY <2>1, <2>2 DEF FewAsked
<1>11. AskedOnly(t, t.peers)
  BY <1>4, <1>7 DEF AskedOnly
<1>12. fetching \in [Webseeds -> SUBSET Blocks] /\ choked = {} /\ aged = {} /\ running = FALSE
  BY DEF ReqInit
<1> QED
  BY <1>1, <1>6, <1>8, <1>9, <1>10, <1>11, <1>12 DEF RequestsInv, TorrentSound, TorrentFits

\* What a step of a peer or of the user does to the torrent keeps it sound, and what
\* is left beside it follows.
LEMMA InvAgain ==
    ASSUME TorrentSound(torrent'), AskedOnly(torrent', torrent'.peers),
           fetching' \in [Webseeds -> SUBSET Blocks], aged' \subseteq torrent'.requests,
           choked' \subseteq torrent'.peers, running' \in BOOLEAN
    PROVE  RequestsInv'
BY DEF RequestsInv

LEMMA PeerStepKeeps ==
    ASSUME RequestsInv, NEW q \in BtPeers, PeerStep(q)
    PROVE  RequestsInv'
<1> USE DEF Others, Event
<1>1. /\ TorrentSound(torrent) /\ AskedOnly(torrent, torrent.peers)
      /\ fetching \in [Webseeds -> SUBSET Blocks] /\ aged \subseteq torrent.requests
      /\ choked \subseteq torrent.peers /\ running \in BOOLEAN
  BY DEF RequestsInv
<1>2. q \in AllPeers
  BY PeersFinite
<1>3. \A u : u.requests \subseteq torrent.requests /\ SameRest(torrent, u) =>
                AskedOnly(u, u.peers) /\ u.peers = torrent.peers
  BY <1>1 DEF AskedOnly, SameRest
<1>4. CASE Connect(q)
  <2>1. q \notin torrent.peers /\ torrent' = [torrent EXCEPT !.peers = @ \cup {q}]
    BY <1>4 DEF Connect
  <2>2. /\ TorrentSound(torrent') /\ AskedOnly(torrent', torrent'.peers) /\ torrent'.peers = torrent.peers \cup {q}
        /\ torrent'.requests = torrent.requests
    BY <1>1, <2>1, ConnectKeeps
  <2>3. choked' = choked \cup {q} /\ fetching' = fetching /\ aged' = aged /\ running' = running
    BY <1>4 DEF Connect
  <2> QED
    BY <1>1, <2>2, <2>3, InvAgain
<1>5. CASE GotUnchoke(q)
  BY <1>1, <1>5, InvAgain DEF GotUnchoke
<1>6. CASE GotChoke(q)
  <2>1. q \in torrent.peers /\ (torrent' = torrent \/ torrent' = DeclinedAll(torrent, q))
    BY <1>6 DEF GotChoke
  <2> DEFINE S == {r \in torrent.requests : r.peer = q}
             v == DeclinedAll(torrent, q)
  <2>2. TorrentSound(v) /\ v.requests \subseteq torrent.requests /\ SameRest(torrent, v)
    <3>1. S \in SUBSET torrent.requests
      OBVIOUS
    <3> HIDE DEF S
    <3>2. LET w == Cancelled(torrent, S)
          IN  TorrentSound(w) /\ w.requests = torrent.requests \ S /\ SameRest(torrent, w)
      BY <1>1, <3>1, CancelledKeeps
    <3> QED
      BY <3>2 DEF DeclinedAll, S
  <2> HIDE DEF v
  <2>3. AskedOnly(v, v.peers) /\ v.peers = torrent.peers
    BY <1>3, <2>2
  <2>4. /\ TorrentSound(torrent') /\ AskedOnly(torrent', torrent'.peers) /\ torrent'.peers = torrent.peers
    BY <1>1, <2>1, <2>2, <2>3 DEF v
  <2>5. choked' = choked \cup {q} /\ fetching' = fetching /\ aged' = aged \cap torrent'.requests /\ running' = running
    BY <1>6 DEF GotChoke
  <2> QED
    BY <1>1, <2>1, <2>4, <2>5, InvAgain
<1>7. CASE Close(q)
  <2>1. q \in torrent.peers
    BY <1>7 DEF Close
  <2>2. torrent' = LET t == Recount([torrent EXCEPT !.peers = @ \ {q}], torrent.have[q], -1)
                   IN  [DeclinedAll(t, q) EXCEPT !.have[q] = {}, !.pending[q] = 0]
    BY <1>7 DEF Close
  <2>3. TorrentSound(torrent') /\ AskedOnly(torrent', torrent'.peers) /\ torrent'.peers = torrent.peers \ {q}
    BY <1>1, <2>1, <2>2, CloseKeeps
  <2>4. choked' = choked \ {q} /\ fetching' = fetching /\ aged' = aged \cap torrent'.requests /\ running' = running
    BY <1>7 DEF Close
  <2> QED
    BY <1>1, <2>3, <2>4, InvAgain
<1>8. CASE Pulse(q)
  <2> DEFINE want == Desired - torrent.pending[q]
             n == ActiveSeeds
             no == FALSE
             r == NextRequests(torrent, q, want, no, n)
  <2>1. n \in Nat
    <3>1. {w \in Webseeds : fetching[w] # {}} \in SUBSET AllPeers
      BY PeersFinite
    <3> QED
      BY <3>1, PeersFinite DEF ActiveSeeds
  <2>2. torrent' = r.t /\ q \in torrent.peers /\ aged' = aged /\ fetching' = fetching /\ choked' = choked /\ running' = running
    BY <1>8 DEF Pulse
  <2> HIDE DEF n, want, no
  <2>3. /\ TorrentSound(r.t) /\ SameRest(torrent, r.t) /\ torrent.requests \subseteq r.t.requests
        /\ \A x \in r.t.requests : x \in torrent.requests \/ x.peer = q
    BY <1>1, <1>2, <2>1, NextRequestsKeep
  <2> HIDE DEF r
  <2>4. AskedOnly(r.t, r.t.peers) /\ r.t.peers = torrent.peers
    BY <1>1, <2>2, <2>3 DEF AskedOnly, SameRest
  <2> QED
    BY <1>1, <2>2, <2>3, <2>4, InvAgain
<1>9. ASSUME NEW p \in Pieces, GotHave(q, p) PROVE RequestsInv'
  <2>1. q \in torrent.peers /\ fetching' = fetching /\ choked' = choked /\ aged' = aged /\ running' = running
    BY <1>9 DEF GotHave
  <2>2. torrent' = LET h == [torrent EXCEPT !.have[q] = @ \cup {p}]
                       u == IF h.rep = <<>> THEN h ELSE [h EXCEPT !.rep[p] = @ + 1]
                   IN  IF h.rep # <<>> /\ h.state = "weight" THEN Resort(u, p) ELSE u
    BY <1>9 DEF GotHave
  <2> DEFINE h == [torrent EXCEPT !.have[q] = @ \cup {p}]
             u == IF h.rep = <<>> THEN h ELSE [h EXCEPT !.rep[p] = @ + 1]
             v == IF h.rep # <<>> /\ h.state = "weight" THEN Resort(u, p) ELSE u
  <2>4. TorrentSound(v) /\ AskedOnly(v, v.peers) /\ v.requests = torrent.requests /\ v.peers = torrent.peers
    BY <1>1, <2>1, HaveKeeps, ZenonT(60)
  <2>5. torrent' = v
    BY <2>2
  <2> HIDE DEF v
  <2>3. /\ TorrentSound(torrent') /\ AskedOnly(torrent', torrent'.peers) /\ torrent'.requests = torrent.requests
        /\ torrent'.peers = torrent.peers
    BY <2>4, <2>5
  <2> QED
    BY <1>1, <2>1, <2>3, InvAgain
<1>10. ASSUME NEW S \in SUBSET Pieces, GotBitfield(q, S) PROVE RequestsInv'
  <2>1. /\ q \in torrent.peers /\ fetching' = fetching /\ choked' = choked /\ aged' = aged /\ running' = running
        /\ torrent' = Recount([torrent EXCEPT !.have[q] = S], S, 1)
    BY <1>10 DEF GotBitfield
  <2>2. /\ TorrentSound(torrent') /\ AskedOnly(torrent', torrent'.peers) /\ torrent'.requests = torrent.requests
        /\ torrent'.peers = torrent.peers
    BY <1>1, <2>1, BitfieldKeeps
  <2> QED
    BY <1>1, <2>1, <2>2, InvAgain
<1>11. ASSUME NEW b \in Blocks, GotReject(q, b) PROVE RequestsInv'
  <2>1. /\ fetching' = fetching /\ choked' = choked /\ aged' = aged \cap torrent'.requests /\ running' = running
        /\ torrent' = RemoveFromTables(torrent, b, q)
    BY <1>11 DEF GotReject
  <2>2. /\ TorrentSound(torrent') /\ torrent'.requests = torrent.requests \ {[block |-> b, peer |-> q]}
        /\ SameRest(torrent, torrent')
    BY <1>1, <2>1, RemovalKeeps
  <2>3. AskedOnly(torrent', torrent'.peers) /\ torrent'.peers = torrent.peers
    BY <1>3, <2>2
  <2> QED
    BY <1>1, <2>1, <2>2, <2>3, InvAgain
<1>12. ASSUME NEW b \in Blocks, GotBlock(q, b) PROVE RequestsInv'
  <2>1. /\ fetching' = fetching /\ choked' = choked /\ aged' = aged \cap torrent'.requests /\ running' = running
        /\ \E ok \in BOOLEAN : torrent' = Received(torrent, b, q, ok)
    BY <1>12 DEF GotBlock
  <2>2. PICK ok \in BOOLEAN : torrent' = Received(torrent, b, q, ok)
    BY <2>1
  <2>3. /\ TorrentSound(torrent') /\ torrent'.requests \subseteq torrent.requests
        /\ torrent'.peers = torrent.peers /\ torrent'.have = torrent.have
    BY <1>1, <2>2, ReceivedKeeps
  <2>4. AskedOnly(torrent', torrent'.peers)
    BY <1>1, <2>3 DEF AskedOnly
  <2> QED
    BY <1>1, <2>1, <2>3, <2>4, InvAgain
<1> QED
  BY <1>4, <1>5, <1>6, <1>7, <1>8, <1>9, <1>10, <1>11, <1>12 DEF PeerStep

LEMMA WebseedStepKeeps ==
    ASSUME RequestsInv, NEW q \in Webseeds, WebseedIdle(q) \/ \E b \in Blocks : WebseedGot(q, b)
    PROVE  RequestsInv'
<1>1. /\ TorrentSound(torrent) /\ AskedOnly(torrent, torrent.peers)
      /\ fetching \in [Webseeds -> SUBSET Blocks] /\ aged \subseteq torrent.requests
      /\ choked \subseteq torrent.peers /\ running \in BOOLEAN
  BY DEF RequestsInv
<1>2. CASE WebseedIdle(q)
  <2> DEFINE n == ActiveSeeds
             yes == TRUE
             r == NextRequests(torrent, q, Desired, yes, n)
  <2>1. n \in Nat /\ q \in AllPeers
    <3>1. {w \in Webseeds : fetching[w] # {}} \in SUBSET AllPeers
      BY PeersFinite
    <3> QED
      BY <3>1, PeersFinite DEF ActiveSeeds
  <2>2. /\ torrent' = r.t /\ fetching' = [fetching EXCEPT ![q] = @ \cup r.asked]
        /\ aged' = aged /\ choked' = choked /\ running' = running
    BY <1>2 DEF WebseedIdle
  <2> HIDE DEF n, yes
  <2>3. /\ TorrentSound(r.t) /\ SameRest(torrent, r.t) /\ r.asked \in SUBSET Blocks
        /\ torrent.requests \subseteq r.t.requests
        /\ \A x \in r.t.requests : x \in torrent.requests \/ x.peer = q
    BY <1>1, <2>1, NextRequestsKeep
  <2> HIDE DEF r
  <2>4. AskedOnly(r.t, r.t.peers) /\ r.t.peers = torrent.peers
    BY <1>1, <2>3 DEF AskedOnly, SameRest
  <2>5. fetching' \in [Webseeds -> SUBSET Blocks]
    BY <1>1, <2>2, <2>3
  <2> QED
    BY <1>1, <2>2, <2>3, <2>4, <2>5, InvAgain
<1>3. ASSUME NEW b \in Blocks, WebseedGot(q, b) PROVE RequestsInv'
  <2>1. /\ fetching' = [fetching EXCEPT ![q] = @ \ {b}] /\ choked' = choked
        /\ aged' = aged \cap torrent'.requests /\ running' = running
        /\ torrent' = Received(torrent, b, q, TRUE) \/ torrent' = RemoveFromTables(torrent, b, q)
    BY <1>3 DEF WebseedGot
  <2>4. /\ TorrentSound(torrent') /\ torrent'.requests \subseteq torrent.requests
        /\ torrent'.peers = torrent.peers /\ torrent'.have = torrent.have
    <3>1. CASE torrent' = Received(torrent, b, q, TRUE)
      BY <1>1, <3>1, ReceivedKeeps
    <3>2. CASE torrent' = RemoveFromTables(torrent, b, q)
      <4>1. /\ TorrentSound(torrent') /\ torrent'.requests = torrent.requests \ {[block |-> b, peer |-> q]}
            /\ SameRest(torrent, torrent')
        BY <1>1, <3>2, RemovalKeeps
      <4> QED
        BY <4>1 DEF SameRest
    <3> QED
      BY <2>1, <3>1, <3>2
  <2>5. AskedOnly(torrent', torrent'.peers)
    BY <1>1, <2>4 DEF AskedOnly
  <2>6. fetching' \in [Webseeds -> SUBSET Blocks]
    BY <1>1, <2>1
  <2> QED
    BY <1>1, <2>1, <2>4, <2>5, <2>6, InvAgain
<1> QED
  BY <1>2, <1>3

LEMMA UserStepKeeps ==
    ASSUME RequestsInv, UserStep \/ Age \/ Upkeep
    PROVE  RequestsInv'
<1> USE DEF Others, Event
<1>1. /\ TorrentSound(torrent) /\ AskedOnly(torrent, torrent.peers)
      /\ fetching \in [Webseeds -> SUBSET Blocks] /\ aged \subseteq torrent.requests
      /\ choked \subseteq torrent.peers /\ running \in BOOLEAN
  BY DEF RequestsInv
<1>2. CASE StartTorrent
  <2>1. /\ fetching' = fetching /\ choked' = choked /\ aged' = aged /\ running' = TRUE
        /\ torrent' = [torrent EXCEPT !.state = "unsorted"]
    BY <1>2 DEF StartTorrent
  <2>2. /\ TorrentSound(torrent') /\ AskedOnly(torrent', torrent'.peers) /\ torrent'.requests = torrent.requests
        /\ torrent'.peers = torrent.peers
    BY <1>1, <2>1, StartKeeps
  <2> QED
    BY <1>1, <2>1, <2>2, InvAgain
<1>3. CASE StopTorrent
  <2>1. /\ fetching' = fetching /\ choked' = {} /\ aged' = aged \cap torrent'.requests /\ running' = FALSE
        /\ torrent' = Popping(torrent)[Cardinality(torrent.peers)]
    BY <1>3 DEF StopTorrent
  <2>2. TorrentSound(torrent') /\ AskedOnly(torrent', torrent'.peers)
    BY <1>1, <2>1, PoppingKeeps
  <2> QED
    BY <1>1, <2>1, <2>2, InvAgain
<1>4. ASSUME NEW S \in SUBSET Pieces, SetWanted(S) PROVE RequestsInv'
  <2>1. /\ fetching' = fetching /\ choked' = choked /\ aged' = aged /\ running' = running
        /\ torrent' = Rebuild([torrent EXCEPT !.wanted = S])
    BY <1>4 DEF SetWanted
  <2>2. /\ TorrentSound(torrent') /\ AskedOnly(torrent', torrent'.peers) /\ torrent'.requests = torrent.requests
        /\ torrent'.peers = torrent.peers
    BY <1>1, <2>1, SetWantedKeeps
  <2> QED
    BY <1>1, <2>1, <2>2, InvAgain
<1>5. ASSUME NEW p \in Pieces, VerifiedBad(p) PROVE RequestsInv'
  <2> DEFINE D == torrent.done \ BlocksOf(p)
  <2>1. /\ fetching' = fetching /\ choked' = choked /\ aged' = aged /\ running' = running
        /\ torrent' = [torrent EXCEPT !.done = D]
    <3>1. torrent \in Torrent
      BY <1>1 DEF TorrentSound, TorrentFits
    <3> QED
      BY <1>5, <3>1 DEF VerifiedBad, Torrent
  <2>2. D \in SUBSET Blocks /\ \A b \in D : Asked(torrent, b) = {}
    BY <1>1, TorrentFields, DoneNotAsked DEF TorrentSound, TorrentFits
  <2> HIDE DEF D
  <2>3. /\ TorrentSound(torrent') /\ torrent'.requests = torrent.requests
        /\ torrent'.peers = torrent.peers /\ torrent'.have = torrent.have
    BY <1>1, <2>1, <2>2, SetDone
  <2>4. AskedOnly(torrent', torrent'.peers)
    BY <1>1, <2>3 DEF AskedOnly
  <2> QED
    BY <1>1, <2>1, <2>3, <2>4, InvAgain
<1>6. CASE Age
  BY <1>1, <1>6, InvAgain DEF Age
<1>7. CASE Upkeep
  <2>1. PICK S \in SUBSET aged : torrent' = Cancelled(torrent, S) /\ aged' = aged \ S
    <3>1. PICK reading \in [BtPeers -> {0} \cup {r.block : r \in aged}] :
             LET S == {r \in aged : r.peer \in BtPeers /\ reading[r.peer] # r.block}
             IN  torrent' = Cancelled(torrent, S) /\ aged' = aged \ S
      BY <1>7 DEF Upkeep
    <3> DEFINE S == {r \in aged : r.peer \in BtPeers /\ reading[r.peer] # r.block}
    <3>2. S \in SUBSET aged /\ torrent' = Cancelled(torrent, S) /\ aged' = aged \ S
      BY <3>1
    <3> HIDE DEF S
    <3> QED
      BY <3>2
  <2>2. fetching' = fetching /\ choked' = choked /\ running' = running
    BY <1>7 DEF Upkeep
  <2>3. TorrentSound(torrent') /\ torrent'.requests = torrent.requests \ S /\ SameRest(torrent, torrent')
    BY <1>1, <2>1, CancelledKeeps
  <2>4. AskedOnly(torrent', torrent'.peers) /\ torrent'.peers = torrent.peers
    BY <1>1, <2>3 DEF AskedOnly, SameRest
  <2> QED
    BY <1>1, <2>1, <2>2, <2>3, <2>4, InvAgain
<1> QED
  BY <1>2, <1>3, <1>4, <1>5, <1>6, <1>7 DEF UserStep

LEMMA RequestsStep == RequestsInv /\ [ReqNext]_reqVars => RequestsInv'
<1> SUFFICES ASSUME RequestsInv, [ReqNext]_reqVars PROVE RequestsInv'
  OBVIOUS
<1>1. CASE ReqNext
  BY <1>1, PeerStepKeeps, WebseedStepKeeps, UserStepKeeps DEF ReqNext
<1>2. CASE UNCHANGED reqVars
  BY <1>2 DEF reqVars, RequestsInv
<1> QED
  BY <1>1, <1>2

LEMMA RequestsInvSound == RequestsInv => RequestsAgree /\ NoVainRequest /\ RarityCovers
<1> SUFFICES ASSUME RequestsInv PROVE RequestsAgree /\ NoVainRequest /\ RarityCovers
  OBVIOUS
<1>1. /\ torrent \in Torrent /\ ListFits(torrent.pieces, torrent.requests) /\ RarityKept(torrent)
      /\ CountsExact(torrent) /\ FewAsked(torrent) /\ AskedOnly(torrent, torrent.peers)
  BY DEF RequestsInv, TorrentSound, TorrentFits
<1>2. ReqTypeOK
  BY <1>1 DEF RequestsInv, ReqTypeOK
<1>3. RequestsAgree
  BY <1>1, <1>2 DEF RequestsAgree, CountsExact, ListFits, RequestsOf, RequestsIn
<1>4. NoVainRequest
  <2>1. \A b : Asked(torrent, b) \subseteq torrent.peers \cup Webseeds
    BY <1>1 DEF Asked, AskedOnly
  <2> QED
    BY <1>1, <2>1 DEF NoVainRequest, FewAsked
<1>5. RarityCovers
  BY <1>1 DEF RarityCovers, RarityKept, Holders
<1> QED
  BY <1>3, <1>4, <1>5

\* Whatever peers, web seeds and the user do, in whatever order, the three records of
\* the requests stay exact and the counts of replication stay sound.
THEOREM RequestsSound == ReqSpec => []RequestsInv
<1> QED
  BY RequestsInit, RequestsStep, PTL DEF ReqSpec

-----------------------------------------------------------------------------
(***************************************************************************)
(* The proofs about UDP trackers and port forwarding, carried over to the   *)
(* specification of the parts of the network that TLC checks.               *)
(***************************************************************************)
UdpInv == part = "udp" => IInv
PortsInv == part = "ports" => PfInv
FilesInv == part = "files" => FdInv
WebseedsInv == part = "web" => WebInv
PeersInv == part = "peers" => DiscoveryInv
networkVars == <<part, reqVars, swarmVars, udpVars, webVars, fdVars, pfVars, lpdVars, dhtVars>>

\* A step of a behaviour that exercises one part is a step of that part.
LEMMA StepOfPart ==
    ASSUME [NetworkNext]_networkVars
    PROVE  /\ part' = part
           /\ [ReqNext]_reqVars /\ [SwarmNext]_swarmVars
           /\ part = "udp" => [UdpNext]_udpVars
           /\ part = "ports" => [PfNext]_pfVars
           /\ part = "files" => [FdNext]_fdVars
           /\ part = "web" => [WebNext]_webVars
           /\ part = "peers" => [DiscoveryNext]_<<lpdVars, dhtVars>>
BY DEF NetworkNext, networkVars, RequestsPart, SwarmPart, UdpPart, WebPart, FilesPart, PortsPart, PeersPart

\* Whatever is lost, repeated or late, the announcer hears once of each request
\* to a UDP tracker, and shutting down ends.
THEOREM TrackersAreAnswered == NetworkSpec => []TrackersAnswered
<1>1. NetworkInit => UdpInv
  BY InitIInv DEF NetworkInit, UdpInv
<1>2. UdpInv /\ [NetworkNext]_networkVars => UdpInv'
  BY StepOfPart, NextStep DEF UdpInv
<1>3. UdpInv => TrackersAnswered
  BY InvSound DEF UdpInv, TrackersAnswered
<1> QED
  BY <1>1, <1>2, <1>3, PTL DEF NetworkSpec, networkVars

\* What the router forwards is known to us, and what is said to be forwarded
\* was asked for.
THEOREM PortsAreKnown == NetworkSpec => []PortsKnown
<1>1. NetworkInit => PortsInv
  BY InitPfInv DEF NetworkInit, PortsInv
<1>2. PortsInv /\ [NetworkNext]_networkVars => PortsInv'
  BY StepOfPart, PfStep DEF PortsInv
<1>3. PortsInv => PortsKnown
  BY PfInvSound DEF PortsInv, PortsKnown
<1> QED
  BY <1>1, <1>2, <1>3, PTL DEF NetworkSpec, networkVars

\* A descriptor is the file's, unless an open that failed half-way left it.
THEOREM DescriptorsAreKept == NetworkSpec => []DescriptorsKept
<1>1. NetworkInit => FilesInv
  BY FdInitInv DEF NetworkInit, FilesInv
<1>2. FilesInv /\ [NetworkNext]_networkVars => FilesInv'
  BY StepOfPart, FdStep DEF FilesInv
<1>3. FilesInv => DescriptorsKept
  BY FdInvSound DEF FilesInv, DescriptorsKept
<1> QED
  BY <1>1, <1>2, <1>3, PTL DEF NetworkSpec, networkVars

\* A web seed keeps to its connections, and its blocks are written once.
THEOREM WebseedsAreAnswered == NetworkSpec => []WebseedsAnswered
<1>1. NetworkInit => WebseedsInv
  BY WebInitInv DEF NetworkInit, WebseedsInv
<1>2. WebseedsInv /\ [NetworkNext]_networkVars => WebseedsInv'
  BY StepOfPart, WebStep DEF WebseedsInv
<1>3. WebseedsInv => WebseedsAnswered
  BY WebInvSound DEF WebseedsInv, WebseedsAnswered
<1> QED
  BY <1>1, <1>2, <1>3, PTL DEF NetworkSpec, networkVars

\* Torrents announce themselves in turn, and private ones learn of no peer.
THEOREM DiscoveryIsSound == NetworkSpec => []DiscoverySound
<1>1. NetworkInit => PeersInv
  BY DiscoveryInitInv DEF NetworkInit, PeersInv
<1>2. PeersInv /\ [NetworkNext]_networkVars => PeersInv'
  BY StepOfPart, DiscoveryStep DEF PeersInv
<1>3. PeersInv => DiscoverySound
  BY DiscoveryInvSound DEF PeersInv, DiscoverySound
<1> QED
  BY <1>1, <1>2, <1>3, PTL DEF NetworkSpec, networkVars

LEMMA SwarmOfNetwork == NetworkSpec => []SwarmInv
<1>1. NetworkInit => SwarmInv
  BY SwarmInitInv DEF NetworkInit
<1>2. SwarmInv /\ [NetworkNext]_networkVars => SwarmInv'
  BY StepOfPart, SwarmStep
<1> QED
  BY <1>1, <1>2, PTL DEF NetworkSpec, networkVars

\* Every connection has its atom, and the banned are about to go.
THEOREM AtomsAreKept == NetworkSpec => []AtomsKept
<1>1. SwarmInv => AtomsKept
  BY SwarmInvSound
<1> QED
  BY <1>1, SwarmOfNetwork, PTL

\* The upload slots are kept to, besides the optimistic one.
THEOREM SlotsAreKept == NetworkSpec => []SlotsKept
<1>1. SwarmInv => SlotsKept
  BY SwarmInvSound
<1> QED
  BY <1>1, SwarmOfNetwork, PTL

LEMMA RequestsOfNetwork == NetworkSpec => []RequestsInv
<1>1. NetworkInit => RequestsInv
  BY RequestsInit DEF NetworkInit
<1>2. RequestsInv /\ [NetworkNext]_networkVars => RequestsInv'
  BY StepOfPart, RequestsStep
<1> QED
  BY <1>1, <1>2, PTL DEF NetworkSpec, networkVars

\* The records of what was requested, the list, the counts of the pieces and those
\* of the peers, agree with each other.
THEOREM RequestsDoAgree == NetworkSpec => []RequestsAgree
<1>1. RequestsInv => RequestsAgree
  BY RequestsInvSound
<1> QED
  BY <1>1, RequestsOfNetwork, PTL

\* No block is asked of a third peer, of one that is gone, or when it is there.
THEOREM NothingIsAskedInVain == NetworkSpec => []NoVainRequest
<1>1. RequestsInv => NoVainRequest
  BY RequestsInvSound
<1> QED
  BY <1>1, RequestsOfNetwork, PTL

\* The replication of a piece covers the connected peers that have it.
THEOREM RarityIsCovered == NetworkSpec => []RarityCovers
<1>1. RequestsInv => RarityCovers
  BY RequestsInvSound
<1> QED
  BY <1>1, RequestsOfNetwork, PTL
=============================================================================
