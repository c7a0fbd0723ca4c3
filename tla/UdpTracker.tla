----------------------------- MODULE UdpTracker -----------------------------
(***************************************************************************)
(* announcer-udp.c: announces and scrapes over UDP.  A request waits for    *)
(* an address, then for a connection id, is sent once, and is answered by   *)
(* a reply, an error or a time-out.  Datagrams are lost, repeated and       *)
(* delayed: any reply to what was ever sent may come at any time.           *)
(* A minute, the life of a request and of a connection id, is one step.     *)
(***************************************************************************)
EXTENDS Naturals, FiniteSets

CONSTANTS Trackers,      \* host:port of UDP trackers
          Announces,     \* announces of torrents; each is made once
          Scrapes,
          MaxConnects,   \* connection requests sent to one tracker
          MaxLookups     \* DNS lookups and minutes that pass for one tracker
ASSUME UdpAssumption == /\ {MaxConnects, MaxLookups} \subseteq Nat /\ Announces \cap Scrapes = {}
                        /\ {"none", "done"} \cap Trackers = {}

UdpRequests == Announces \cup Scrapes
Actions == {"connect", "announce", "scrape", "error"}
Outcomes == {"ok", "error", "failed", "timeout"}

VARIABLES
    tau,        \* tau[k]: the tau_tracker of a host and port
    req,        \* req[r]: the tau_announce_request or tau_scrape_request
    answers,    \* answers[r]: how often, and how, r's callback was called
    closing     \* sessionCloseImpl: open, waiting for UDP, late, overdue, closed
udpVars == <<tau, req, answers, closing>>

NoTracker == [asking |-> FALSE, addr |-> FALSE, connecting |-> FALSE, overdue |-> FALSE,
              connected |-> FALSE, tx |-> 0, lookups |-> 0]
NoRequest == [at |-> "none", sent |-> FALSE, old |-> FALSE, callback |-> FALSE]
UdpInit ==
    /\ tau = [k \in Trackers |-> NoTracker]
    /\ req = [r \in UdpRequests |-> NoRequest]
    /\ answers = [r \in UdpRequests |-> [n |-> 0, last |-> "none"]]
    /\ closing = "open"

(* The whole of it is a value that the functions of the file take and give *)
World == [tau |-> tau, req |-> req, answers |-> answers]
Become(w) == tau' = w.tau /\ req' = w.req /\ answers' = w.answers

Pending(w, k) == {r \in UdpRequests : w.req[r].at = k}
(* tau_tracker_is_idle *)
UdpIdle(w, k) == Pending(w, k) = {}

(* tau_announce_request_finished and _fail, and the free that follows *)
Answer(w, S, outcome) ==
    [w EXCEPT !.req = [r \in UdpRequests |-> IF r \in S THEN [@[r] EXCEPT !.at = "done"] ELSE @[r]],
              !.answers = [r \in UdpRequests |->
                 IF r \in S /\ w.req[r].callback THEN [n |-> @[r].n + 1, last |-> outcome] ELSE @[r]]]

(* Mutant: the requests that fail stay in their lists *)
FailAll_Kept(w, k) ==
    [w EXCEPT !.answers = [r \in UdpRequests |->
        IF r \in Pending(w, k) /\ w.req[r].callback THEN [n |-> @[r].n + 1, last |-> "failed"] ELSE @[r]]]
(* tau_tracker_fail_all *)
FailAll(w, k) == Answer(w, Pending(w, k), "failed")

(* tau_tracker_send_reqs; a request nobody waits for is forgotten *)
SendReqs(w, k) ==
    [w EXCEPT !.req = [r \in UdpRequests |->
        IF r \in Pending(w, k) /\ ~w.req[r].sent
        THEN [@[r] EXCEPT !.sent = TRUE, !.at = IF w.req[r].callback THEN k ELSE "done"] ELSE @[r]]]

(* tau_tracker_upkeep up to what it has to wait for, and its two sends *)
Needs(w, k) ==
    IF UdpIdle(w, k) THEN "nothing"
    ELSE IF ~w.tau[k].addr /\ ~w.tau[k].asking THEN "lookup"
    ELSE IF w.tau[k].addr /\ ~w.tau[k].connected /\ ~w.tau[k].connecting THEN "connection"
    ELSE "replies"
Asks(w, k, need) ==
    CASE need = "nothing"    -> w
      [] need = "lookup"     -> [w EXCEPT !.tau[k].asking = TRUE]
      [] need = "replies"    -> w
      [] need = "connection" -> [w EXCEPT !.tau[k] = [w.tau[k] EXCEPT !.connecting = TRUE, !.overdue = FALSE, !.tx = @ + 1]]

(* on_tracker_connection_response, but for the upkeep at its end *)
ConnectionResponse(w, k, ok) ==
    LET heard == [w EXCEPT !.tau[k] = [w.tau[k] EXCEPT !.connecting = FALSE, !.overdue = FALSE, !.connected = @ \/ ok]]
    IN  IF ok THEN heard ELSE FailAll(heard, k)

(* tau_tracker_timeout_reqs: an overdue connection fails everything, which  *)
(* leaves nothing to do for the upkeep at the end of the failure            *)
TimeoutReqs(w, k, cancelAll) ==
    LET failed == ConnectionResponse(w, k, FALSE)
        w2 == IF w.tau[k].connecting /\ w.tau[k].overdue THEN Asks(failed, k, Needs(failed, k)) ELSE w
    IN  Answer(w2, {r \in Pending(w2, k) : cancelAll \/ w2.req[r].old}, "timeout")

TrackerUpkeep(w, k, cancelAll) ==
    LET need == Needs(w, k)
        timed == TimeoutReqs(w, k, cancelAll)
    IN  IF need # "replies" THEN Asks(w, k, need)
        ELSE IF timed.tau[k].addr /\ timed.tau[k].connected THEN SendReqs(timed, k) ELSE timed

Bounded(w) == \A k \in Trackers : w.tau[k].tx <= MaxConnects
Running == closing = "open"

(***************************************************************************)
(* The announcer's calls                                                   *)
(***************************************************************************)
(* tau_announce_request_new, tau_scrape_request_new *)
NewRequest(k, callback) == [at |-> k, sent |-> FALSE, old |-> FALSE, callback |-> callback]
Made(k, r, callback) ==
    LET w == [World EXCEPT !.req[r] = NewRequest(k, callback)]
        up == TrackerUpkeep(w, k, FALSE)
    IN  Bounded(up) /\ Become(up)

(* tr_tracker_udp_announce; nobody waits for the answer to a stop *)
UdpAnnounce(k, r, stop) ==
    /\ Running /\ r \in Announces /\ req[r].at = "none"
    /\ Made(k, r, ~stop)
    /\ UNCHANGED closing
(* tr_tracker_udp_scrape *)
UdpScrape(k, r) ==
    /\ Running /\ r \in Scrapes /\ req[r].at = "none"
    /\ Made(k, r, TRUE)
    /\ UNCHANGED closing

(* tr_tracker_udp_upkeep, each tracker in turn *)
UpkeepTimer(k) ==
    /\ Running
    /\ LET up == TrackerUpkeep(World, k, FALSE) IN Bounded(up) /\ Become(up)
    /\ UNCHANGED closing

(* tau_tracker_on_dns; no upkeep follows a failed lookup *)
OnDns(k, ok) ==
    LET heard == [World EXCEPT !.tau[k].asking = FALSE]
        up == TrackerUpkeep([heard EXCEPT !.tau[k].addr = TRUE], k, FALSE)
    IN  /\ Running /\ tau[k].asking
        /\ IF ok THEN Bounded(up) /\ Become(up) ELSE Become(FailAll(heard, k))
        /\ UNCHANGED closing

(* An hour passes for an address; a minute for everything else *)
CanPass(k) == Running /\ tau[k].lookups < MaxLookups
AddressExpires(k) ==
    /\ CanPass(k) /\ tau[k].addr
    /\ tau' = [tau EXCEPT ![k].addr = FALSE, ![k].lookups = @ + 1]
    /\ UNCHANGED <<req, answers, closing>>
MinutePasses(k) ==
    /\ CanPass(k)
    /\ tau' = [tau EXCEPT ![k].connected = FALSE, ![k].overdue = @ \/ tau[k].connecting, ![k].lookups = @ + 1]
    /\ req' = [r \in UdpRequests |-> IF req[r].at = k THEN [req[r] EXCEPT !.old = TRUE] ELSE req[r]]
    /\ UNCHANGED <<answers, closing>>

(***************************************************************************)
(* tau_handle_message                                                      *)
(***************************************************************************)
(* on_announce_response, on_scrape_response *)
AnnounceOutcome(action) == IF action = "announce" THEN "ok" ELSE "error"
ScrapeOutcome(action) == IF action = "scrape" THEN "ok" ELSE "error"
Outcome2(r, action) == IF r \in Announces THEN AnnounceOutcome(action) ELSE ScrapeOutcome(action)

HandleConnect(k, tx, action) ==
    LET w == ConnectionResponse(World, k, action = "connect")
        up == TrackerUpkeep(w, k, FALSE)
    IN  /\ Running /\ tx \in 1..tau[k].tx
        /\ IF tau[k].connecting /\ tx = tau[k].tx THEN Bounded(up) /\ Become(up)
           ELSE UNCHANGED <<tau, req, answers>>        \* no match
        /\ UNCHANGED closing
HandleReply(r, action) ==
    /\ Running /\ req[r].sent
    /\ IF req[r].at \in Trackers THEN Become(Answer(World, {r}, Outcome2(r, action)))
       ELSE UNCHANGED <<tau, req, answers>>            \* answered before
    /\ UNCHANGED closing

(***************************************************************************)
(* sessionCloseImpl: the event thread waits itself, so that no reply and    *)
(* no address comes any more                                                *)
(***************************************************************************)
(* tr_tracker_udp_upkeep: each tracker's upkeep sees its own requests only  *)
UpkeepAll(w, cancelAll) ==
    LET up(k) == TrackerUpkeep(w, k, cancelAll)
        by(r) == IF w.req[r].at \in Trackers THEN up(w.req[r].at) ELSE w
    IN  [tau     |-> [k \in Trackers |-> up(k).tau[k]],
         req     |-> [r \in UdpRequests |-> by(r).req[r]],
         answers |-> [r \in UdpRequests |-> by(r).answers[r]]]
AllIdle(w) == \A k \in Trackers : UdpIdle(w, k)

(* tr_tracker_udp_start_shutdown *)
StartShutdown == Running /\ Become(UpkeepAll(World, FALSE)) /\ closing' = "waiting"
(* The loop; close_at, three seconds away, comes at some pass.  A pass that  *)
(* only asked for an address or a connection is followed by one that cancels *)
CloseWait(late) ==
    LET up == UpkeepAll(World, late)
    IN  /\ closing \in {"waiting", "late"} /\ (closing = "late" => late)
        /\ IF AllIdle(World) THEN closing' = "closed" /\ UNCHANGED <<tau, req, answers>>
           ELSE /\ Become(up)
                /\ closing' = IF ~late THEN "waiting"
                              ELSE IF closing = "late" /\ ~AllIdle(up) THEN "overdue" ELSE "late"

UdpNext ==
    \/ \E k \in Trackers :
         \/ \E r \in Announces, stop \in BOOLEAN : UdpAnnounce(k, r, stop)
         \/ \E r \in Scrapes : UdpScrape(k, r)
         \/ UpkeepTimer(k)
         \/ \E ok \in BOOLEAN : OnDns(k, ok)
         \/ AddressExpires(k)
         \/ MinutePasses(k)
         \/ \E tx \in 1..MaxConnects, a \in Actions : HandleConnect(k, tx, a)
    \/ \E r \in UdpRequests, a \in Actions : HandleReply(r, a)
    \/ StartShutdown
    \/ \E late \in BOOLEAN : CloseWait(late)
UdpSpec == UdpInit /\ [][UdpNext]_udpVars

(***************************************************************************)
(* Properties                                                              *)
(***************************************************************************)
UdpTypeOK ==
    /\ tau \in [Trackers -> [asking : BOOLEAN, addr : BOOLEAN, connecting : BOOLEAN, overdue : BOOLEAN,
                             connected : BOOLEAN, tx : 0..MaxConnects + 1, lookups : 0..MaxLookups]]
    /\ req \in [UdpRequests -> [at : Trackers \cup {"none", "done"}, sent : BOOLEAN,
                                old : BOOLEAN, callback : BOOLEAN]]
    /\ closing \in {"open", "waiting", "late", "overdue", "closed"}

(* Whatever is lost, repeated or late, the announcer gets one answer to      *)
(* each request, and none is forgotten: until it is answered the request is  *)
(* in its tracker's list.  Nothing is sent without an address and a          *)
(* connection id (the assertions of tau_tracker_send_reqs).                  *)
AnsweredOnce ==
    /\ \A r \in UdpRequests :
         /\ answers[r].n <= 1
         /\ req[r].callback => (answers[r].n = 1 <=> req[r].at = "done")
         /\ answers[r].last = "ok" => req[r].sent
         /\ req[r].at \in Trackers /\ req[r].sent => tau[req[r].at].tx > 0
    /\ \A k \in Trackers : /\ tau[k].connected => ~tau[k].connecting
                           /\ tau[k].asking => ~tau[k].addr
    /\ closing = "closed" => \A r \in UdpRequests : req[r].at \notin Trackers

(* The shut-down "sets a deadline on how much longer to wait for the         *)
(* remaining ones" (announcer-udp.c:838): two passes after it, whatever each  *)
(* tracker was waiting for, none is left                                     *)
UdpShutsDown == closing # "overdue"
=============================================================================
