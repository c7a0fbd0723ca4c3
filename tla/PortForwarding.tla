---------------------------- MODULE PortForwarding ----------------------------
(***************************************************************************)
(* port-forwarding.c, natpmp.c and upnp.c: two state machines that a timer   *)
(* pulses ask the router to forward the peer port, by NAT-PMP and by UPnP.   *)
(* The router may refuse or not answer.                                      *)
(***************************************************************************)
EXTENDS Naturals, FiniteSets

CONSTANTS PeerPorts,       \* values of session->private_peer_port
          MaxForwards      \* pulses, calls and time-outs
ASSUME ForwardAssumption == 0 \notin PeerPorts /\ MaxForwards \in Nat

Protocols == {"TCP", "UDP"}
Statuses == {"ERROR", "UNMAPPED", "UNMAPPING", "MAPPING", "MAPPED"}
Rank == [ERROR |-> 0, UNMAPPED |-> 1, UNMAPPING |-> 2, MAPPING |-> 3, MAPPED |-> 4]

VARIABLES
    shared,    \* the tr_shared, with its timer and the session's ports
    natpmp,    \* the tr_natpmp, one that was not made is "none"
    upnp,      \* the tr_upnp
    router,    \* what the router forwards to us
    forwards
pfVars == <<shared, natpmp, upnp, router, forwards>>

NoNatpmp == [state |-> "none", has |-> FALSE, mapped |-> FALSE, port |-> 0, asked |-> 0, wait |-> FALSE, renew |-> FALSE]
NoUpnp == [state |-> "none", mapped |-> FALSE, port |-> 0]
(* tr_natpmpInit, tr_upnpInit *)
NatpmpInit == [NoNatpmp EXCEPT !.state = "DISCOVER"]
UpnpInit == [NoUpnp EXCEPT !.state = "DISCOVER"]
(* tr_sharedInit *)
PfInit ==
    /\ \E p \in PeerPorts :
         shared = [enabled |-> FALSE, closing |-> FALSE, check |-> FALSE, timer |-> FALSE, leaked |-> 0,
                   natpmp |-> "UNMAPPED", upnp |-> "UNMAPPED", port |-> p, public |-> p]
    /\ natpmp = NoNatpmp /\ upnp = NoUpnp
    /\ router = [natpmp |-> {}, upnp |-> {}, left |-> {}] /\ forwards = 0
Pulsed == forwards < MaxForwards /\ forwards' = forwards + 1

(* Mutant: a mapping is forgotten when the forwarding of another is wanted *)
WantsUnmap_Forgets(n, port, on) == n.mapped /\ ~on
WantsUnmap(n, port, on) == n.mapped /\ (~on \/ n.port # port)

(* sendnewportmappingrequest and sendpublicaddressrequest, which may fail *)
Command(n, sends, next) == [n EXCEPT !.state = IF sends THEN next ELSE "ERR", !.wait = TRUE]
(* readnatpmpresponseorretry: an answer, an error, or nothing yet *)
Reply(n, answer, read) ==
    CASE answer = "ok" -> read [] answer = "error" -> [n EXCEPT !.state = "ERR"] [] answer = "again" -> n

(* tr_natpmpPulse: each "if" takes the machine, and what the router forwards *)
Discovers(w, on, sends) ==
    IF on /\ w.n.state = "DISCOVER" THEN [w EXCEPT !.n = [Command(w.n, sends, "RECV_PUB") EXCEPT !.has = TRUE]] ELSE w
FindsAddress(w, answer) ==
    IF w.n.state = "RECV_PUB" /\ ~w.n.wait THEN [w EXCEPT !.n = Reply(w.n, answer, [w.n EXCEPT !.state = "IDLE"])] ELSE w
ChoosesUnmap(w, port, on) ==
    IF w.n.state \in {"IDLE", "ERR"} /\ WantsUnmap(w.n, port, on) THEN [w EXCEPT !.n.state = "SEND_UNMAP"] ELSE w
SendsUnmap(w, sends) ==
    IF w.n.state = "SEND_UNMAP" /\ ~w.n.wait
    THEN [n |-> Command(w.n, sends, "RECV_UNMAP"), ports |-> IF sends THEN w.ports \ {w.n.port} ELSE w.ports] ELSE w
ReadsUnmap(w, answer) ==
    IF w.n.state # "RECV_UNMAP" THEN w
    ELSE [w EXCEPT !.n = Reply(w.n, answer, [w.n EXCEPT !.state = "IDLE", !.port = 0, !.mapped = FALSE])]
ChoosesMap(w, on) ==
    IF w.n.state = "IDLE" /\ (IF on /\ ~w.n.mapped THEN w.n.has ELSE w.n.mapped /\ w.n.renew)
    THEN [w EXCEPT !.n.state = "SEND_MAP"] ELSE w
SendsMap(w, port, sends) ==
    IF w.n.state = "SEND_MAP" /\ ~w.n.wait
    THEN [n |-> [Command(w.n, sends, "RECV_MAP") EXCEPT !.asked = port],
          ports |-> IF sends THEN w.ports \cup {port} ELSE w.ports] ELSE w
ReadsMap(w, answer) ==
    IF w.n.state # "RECV_MAP" THEN w
    ELSE [w EXCEPT !.n = Reply(w.n, answer,
            [w.n EXCEPT !.state = "IDLE", !.mapped = TRUE, !.renew = FALSE, !.port = w.n.asked])]
NatpmpPulse(n, port, on, sends, first, reply, ports) ==
    ReadsMap(SendsMap(ChoosesMap(ReadsUnmap(SendsUnmap(ChoosesUnmap(FindsAddress(
        Discovers([n |-> n, ports |-> ports], on, sends), first), port, on), sends), first), on), port, sends), reply)
NatpmpStatus(n) ==
    CASE n.state = "IDLE" -> IF n.mapped THEN "MAPPED" ELSE "UNMAPPED"
      [] n.state = "DISCOVER" -> "UNMAPPED"
      [] n.state \in {"RECV_PUB", "SEND_MAP", "RECV_MAP"} -> "MAPPING"
      [] n.state \in {"SEND_UNMAP", "RECV_UNMAP"} -> "UNMAPPING"
      [] n.state = "ERR" -> "ERROR"

(* tr_upnpPulse, with tr_upnpDiscover, -GetSpecificPortMappingEntry,          *)
(* -DeletePortMapping and -AddPortMapping, which wait for the router          *)
FindsGateway(w, on, found) ==
    IF on /\ w.u.state = "DISCOVER" THEN [w EXCEPT !.u.state = IF found THEN "IDLE" ELSE "ERR"] ELSE w
ChecksPort(w, on, check, unmap) ==
    [w EXCEPT !.u.mapped = @ /\ ~(on /\ check /\ \E q \in Protocols : <<q, w.u.port>> \notin w.maps), !.unmap = unmap]
DeletesMapping(w, deletes) ==
    LET both == w.maps \cap (Protocols \X {w.u.port})
    IN  IF ~w.unmap THEN w
        ELSE [w EXCEPT !.u.mapped = FALSE, !.u.port = 0,
                       !.maps = IF deletes THEN @ \ both ELSE @, !.left = IF deletes THEN @ ELSE both]
AddsMapping(w, port, on, adds) ==
    IF ~(w.u.state = "IDLE" /\ on /\ ~w.u.mapped) THEN w
    ELSE IF adds # {} THEN [w EXCEPT !.u.mapped = TRUE, !.u.port = port, !.maps = @ \cup (adds \X {port})]
    ELSE [w EXCEPT !.u.state = "ERR", !.u.port = 0, !.left = w.maps]
Deletion(w, port, on, check, deletes) ==
    DeletesMapping(ChecksPort(w, on, check, w.u.state = "IDLE" /\ WantsUnmap(w.u, port, on)), deletes)
UpnpPulse(u, port, on, check, found, deletes, adds, maps) ==
    AddsMapping(Deletion(FindsGateway([u |-> u, maps |-> maps, left |-> {}, unmap |-> FALSE], on, found),
                         port, on, check, deletes), port, on, adds)
UpnpStatus(u) ==
    CASE u.state = "DISCOVER" -> "UNMAPPED"
      [] u.state = "IDLE" -> IF u.mapped THEN "MAPPED" ELSE "UNMAPPED"
      [] u.state = "ERR" -> "ERROR"

(* tr_sharedTraversalStatus *)
Status(s) == IF Rank[s.natpmp] > Rank[s.upnp] THEN s.natpmp ELSE s.upnp

(* natPulse: what may come of it, for every way the router may answer *)
Replies == {"ok", "again", "error"}
NatpmpOutcomes(n, port, on) ==
    {NatpmpPulse(n, port, on, sends, first, reply, router.natpmp) :
        sends \in BOOLEAN, first \in Replies, reply \in Replies}
UpnpOutcomes(u, port, on, check) ==
    {UpnpPulse(u, port, on, check, found, deletes, adds, router.upnp) :
        found \in BOOLEAN, deletes \in BOOLEAN, adds \in SUBSET Protocols}
PulseResult(s, np, up) ==
    [s |-> [s EXCEPT !.natpmp = NatpmpStatus(np.n), !.upnp = UpnpStatus(up.u),
                     !.public = IF NatpmpStatus(np.n) = "MAPPED" THEN np.n.port ELSE @],
     n |-> np.n, u |-> up.u,
     router |-> [natpmp |-> np.ports, upnp |-> up.maps, left |-> router.left \cup up.left]]
NatPulse(s, check) ==
    LET on == s.enabled /\ ~s.closing
        n0 == IF natpmp.state = "none" THEN NatpmpInit ELSE natpmp
        u0 == IF upnp.state = "none" THEN UpnpInit ELSE upnp
    IN  {PulseResult(s, np, up) :
            np \in NatpmpOutcomes(n0, s.port, on), up \in UpnpOutcomes(u0, s.port, on, check)}

(* set_evtimer_from_status: after a success the port is checked next time *)
SetTimer(s) == [s EXCEPT !.check = @ \/ Status(s) = "MAPPED"]
(* onTimer; a timer that nobody owns any more still fires once *)
OnTimer(leak) ==
    /\ Pulsed /\ shared.timer
    /\ leak => shared.leaked > 0
    /\ \E r \in NatPulse(shared, shared.check) :
         /\ shared' = SetTimer([r.s EXCEPT !.check = FALSE, !.leaked = IF leak THEN @ - 1 ELSE @])
         /\ natpmp' = r.n /\ upnp' = r.u /\ router' = r.router

(* start_timer; the timer there was is forgotten *)
StartTimer(s) == SetTimer([s EXCEPT !.timer = TRUE, !.leaked = IF s.timer THEN @ + 1 ELSE @])
(* stop_forwarding: one pulse, and both machines are closed *)
StopForwarding(s0) ==
    \E r \in NatPulse(s0, FALSE) :
        /\ shared' = [r.s EXCEPT !.timer = FALSE, !.natpmp = "UNMAPPED", !.upnp = "UNMAPPED"]
        /\ natpmp' = NoNatpmp
        /\ upnp' = [NoUpnp EXCEPT !.mapped = r.u.mapped]       \* the assertion of tr_upnpClose
        /\ router' = r.router

(* tr_sharedTraversalEnable: also when it is enabled already *)
TraversalEnable(on) ==
    /\ Pulsed /\ ~shared.closing
    /\ IF on THEN shared' = StartTimer([shared EXCEPT !.enabled = TRUE]) /\ UNCHANGED <<natpmp, upnp, router>>
       ELSE StopForwarding([shared EXCEPT !.enabled = FALSE])
(* tr_sharedPortChanged, after the port was changed *)
PortChanged(p) ==
    /\ Pulsed /\ ~shared.closing /\ p # shared.port
    /\ LET s0 == [shared EXCEPT !.port = p, !.public = p]
       IN  IF ~shared.enabled THEN shared' = s0 /\ UNCHANGED <<natpmp, upnp, router>>
           ELSE \E r \in NatPulse([s0 EXCEPT !.timer = FALSE], FALSE) :
                  shared' = StartTimer(r.s) /\ natpmp' = r.n /\ upnp' = r.u /\ router' = r.router
(* tr_sharedClose *)
SharedClose ==
    /\ Pulsed /\ ~shared.closing
    /\ StopForwarding([shared EXCEPT !.closing = TRUE])

(* Eight seconds pass, half a lease, or the router drops what it forwards *)
TimePasses ==
    /\ Pulsed
    /\ \/ natpmp.wait /\ natpmp' = [natpmp EXCEPT !.wait = FALSE]
       \/ natpmp.mapped /\ ~natpmp.renew /\ natpmp' = [natpmp EXCEPT !.renew = TRUE, !.wait = FALSE]
    /\ UNCHANGED <<shared, upnp, router>>
RouterForgets(m) ==
    /\ Pulsed /\ router' = [router EXCEPT !.upnp = @ \ {m}]
    /\ UNCHANGED <<shared, natpmp, upnp>>

PfNext ==
    \/ \E leak \in BOOLEAN : OnTimer(leak)
    \/ \E on \in BOOLEAN : TraversalEnable(on)
    \/ \E p \in PeerPorts : PortChanged(p)
    \/ SharedClose
    \/ TimePasses
    \/ \E m \in router.upnp : RouterForgets(m)
PfSpec == PfInit /\ [][PfNext]_pfVars

(***************************************************************************)
(* Properties                                                              *)
(***************************************************************************)
PfTypeOK ==
    /\ natpmp.state \in {"none", "IDLE", "ERR", "DISCOVER", "RECV_PUB", "SEND_MAP", "RECV_MAP", "SEND_UNMAP", "RECV_UNMAP"}
    /\ upnp.state \in {"none", "IDLE", "ERR", "DISCOVER"}
    /\ {shared.natpmp, shared.upnp} \subseteq Statuses

(* What is said to be forwarded was asked for, to the port of the last       *)
(* pulse; the router forwards no UPnP port but the one we would remove, save *)
(* what it refused to repair or to delete; and no machine is closed with a   *)
(* mapping (the assertions of tr_upnpClose).                                 *)
ForwardingSound ==
    /\ upnp.mapped => upnp.state = "IDLE" /\ upnp.port = shared.port
    /\ shared.upnp = "MAPPED" <=> upnp.mapped
    /\ shared.natpmp = "MAPPED" => natpmp.mapped /\ shared.public = natpmp.port /\ natpmp.port \in router.natpmp
    /\ \A m \in router.upnp : m[2] = upnp.port \/ m \in router.left
=============================================================================
