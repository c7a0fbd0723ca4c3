------------------------------ MODULE MCNetwork ------------------------------
(***************************************************************************)
(* Small instances of what reaches out to the network: the requests and the  *)
(* swarm of the peer manager, UDP trackers, web seeds, the cache of open      *)
(* files, port forwarding, peers without trackers.  Each behaviour exercises  *)
(* one of them: they share no state in the models.                            *)
(***************************************************************************)
EXTENDS PeerRequests, Swarm, UdpTracker, WebSeeds, FdCache, PortForwarding, Discovery

VARIABLE part
\* Addresses are interchangeable.
AddrSymmetry == Permutations(Addrs)
OneOversized == {<<2, 1>>}

NetworkInit ==
    /\ part \in {"requests", "swarm", "udp", "web", "files", "ports", "peers"}
    /\ ReqInit /\ SwarmInit
    /\ IF part = "udp" THEN UdpInit
       ELSE tau = <<>> /\ req = <<>> /\ answers = <<>> /\ closing = "open"
    /\ IF part = "web" THEN WebInit
       ELSE seed = <<>> /\ task = <<>> /\ eventQ = <<>> /\ web = "none" /\ owner = "none" /\ webEvents = 0
    /\ IF part = "files" THEN FdInit
       ELSE slot = <<>> /\ disk = <<>> /\ given = <<>> /\ sockets = <<>> /\ fdSteps = 0
    /\ IF part = "ports" THEN PfInit
       ELSE shared = <<>> /\ natpmp = <<>> /\ upnp = <<>> /\ router = <<>> /\ forwards = 0
    /\ IF part = "peers" THEN DiscoveryInit
       ELSE /\ lpd = <<>> /\ activity = <<>> /\ quota = 0 /\ learned = {}
            /\ dht = <<>> /\ boots = {} /\ dhtDue = <<>> /\ dhtSteps = 0

RequestsPart == part = "requests" /\ ReqNext
SwarmPart    == part = "swarm"    /\ SwarmNext
UdpPart      == part = "udp"      /\ UdpNext
WebPart      == part = "web"      /\ WebNext
FilesPart    == part = "files"    /\ FdNext
PortsPart    == part = "ports"    /\ PfNext
PeersPart    == part = "peers"    /\ DiscoveryNext
NetworkNext ==
    /\ UNCHANGED part
    /\ \/ RequestsPart /\ UNCHANGED <<swarmVars, udpVars, webVars, fdVars, pfVars, lpdVars, dhtVars>>
       \/ SwarmPart    /\ UNCHANGED <<reqVars, udpVars, webVars, fdVars, pfVars, lpdVars, dhtVars>>
       \/ UdpPart      /\ UNCHANGED <<reqVars, swarmVars, webVars, fdVars, pfVars, lpdVars, dhtVars>>
       \/ WebPart      /\ UNCHANGED <<reqVars, swarmVars, udpVars, fdVars, pfVars, lpdVars, dhtVars>>
       \/ FilesPart    /\ UNCHANGED <<reqVars, swarmVars, udpVars, webVars, pfVars, lpdVars, dhtVars>>
       \/ PortsPart    /\ UNCHANGED <<reqVars, swarmVars, udpVars, webVars, fdVars, lpdVars, dhtVars>>
       \/ PeersPart    /\ UNCHANGED <<reqVars, swarmVars, udpVars, webVars, fdVars, pfVars>>
NetworkSpec ==
    /\ NetworkInit
    /\ [][NetworkNext]_<<part, reqVars, swarmVars, udpVars, webVars, fdVars, pfVars, lpdVars, dhtVars>>

(* The announcer hears once of each request to a UDP tracker, and shutting  *)
(* down ends (announcer-udp.c)                                              *)
TrackersAnswered == part = "udp" => UdpTypeOK /\ AnsweredOnce /\ UdpShutsDown

(* A web seed's tasks are accounted for and its blocks reported once        *)
(* (webseed.c, web.c)                                                       *)
WebseedsAnswered == part = "web" => WebTypeOK /\ WebseedSound

(* A descriptor is the file's, and sockets are counted (fdlimit.c, net.c)   *)
DescriptorsKept == part = "files" => FdSound

(* What the router forwards is known to us (port-forwarding.c, natpmp.c,     *)
(* upnp.c)                                                                  *)
PortsKnown == part = "ports" => PfTypeOK /\ ForwardingSound

(* Announces take turns, and private torrents keep to their trackers          *)
(* (tr-lpd.c, tr-dht.c)                                                      *)
DiscoverySound == part = "peers" => DiscoveryTypeOK /\ LpdFair /\ PrivateKept
=============================================================================
