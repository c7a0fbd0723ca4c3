------------------------------ MODULE Discovery ------------------------------
(***************************************************************************)
(* Peers without trackers.  tr-lpd.c: every five seconds one torrent is     *)
(* announced to the local network, and announces of others are heard, but   *)
(* not more than a quota.  tr-dht.c with tr-udp.c: the distributed hash      *)
(* table, which a thread of its own bootstraps; its nodes are saved when it  *)
(* is closed.                                                                *)
(***************************************************************************)
EXTENDS Naturals, FiniteSets, FiniteSetsExt

CONSTANTS LpdTorrents,    \* numbered in the order of tr_torrentNext
          LpdInterval,    \* lpd_announceInterval, in upkeeps; 48 in the code
          LpdCap,         \* announces heard between two upkeeps
          DhtNodes,       \* nodes that dht.dat may hold for one family
          MaxDhtSteps     \* what happens to the DHT and to the activities
ASSUME DiscoveryAssumption ==
    /\ LpdTorrents \subseteq Nat /\ IsFiniteSet(LpdTorrents)
    /\ {LpdInterval, LpdCap, DhtNodes, MaxDhtSteps} \subseteq Nat

Families == {"INET", "INET6"}
(* TR_DHT_STOPPED to TR_DHT_GOOD *)
STOPPED == 0
BROKEN == 1
POOR == 2
FIREWALLED == 3
GOOD == 4

VARIABLES
    lpd,         \* lpd[t]: upkeeps until lpdAnnounceAt; how many it waited since then
                 \* and since the last start of any torrent
    activity,    \* activity[t]: stopped, download or seed; and whether it is not private
    quota,       \* lpd_unsolicitedMsgCounter, not counted below zero
    learned,     \* torrents that learned of a local peer
    dht,         \* the DHT: whose session is its own, its status and its file
    boots,       \* the bootstrap threads
    dhtDue,      \* dhtDue[t][af]: what the next announce waits for
    dhtSteps
lpdVars == <<lpd, activity, quota, learned>>
dhtVars == <<dht, boots, dhtDue, dhtSteps>>

DiscoveryInit ==
    /\ lpd = [t \in LpdTorrents |-> [at |-> 0, late |-> 0]]
    /\ activity \in [LpdTorrents -> [doing : {"download", "seed"}, allows : BOOLEAN]]
    /\ quota = 0 /\ learned = {}
    /\ dht = [on |-> FALSE, inits |-> 0, status |-> [f \in Families |-> BROKEN],
              file |-> [f \in Families |-> DhtNodes]]
    /\ boots = {} /\ dhtSteps = 0
    /\ dhtDue = [t \in LpdTorrents |-> [f \in Families |-> "now"]]
DhtStep == dhtSteps < MaxDhtSteps /\ dhtSteps' = dhtSteps + 1

(***************************************************************************)
(* Local peer discovery                                                    *)
(***************************************************************************)
Priority(t) == CASE activity[t].doing = "download" -> 1 [] activity[t].doing = "seed" -> 2 [] OTHER -> 0
LpdReady(t) == activity[t].allows /\ Priority(t) > 0
(* Mutant: an announce that cannot be sent is due again at once *)
NextAnnounce_Now(t) == 1
NextAnnounce(t) == LpdInterval * Priority(t)

(* on_upkeep_timer, tr_lpdAnnounceMore and tr_lpdSendAnnounce: the first      *)
(* torrent whose time has come, and the quota is filled                       *)
LpdUpkeep ==
    LET due == {t \in LpdTorrents : LpdReady(t) /\ lpd[t].at = 0}
        chosen == IF due = {} THEN {} ELSE {Min(due)}
        waits(t) == IF t \in chosen THEN NextAnnounce(t) ELSE lpd[t].at
    IN  /\ lpd' = [t \in LpdTorrents |->
                     [at |-> IF waits(t) > 0 THEN waits(t) - 1 ELSE 0,
                      late |-> IF t \in due \ chosen THEN lpd[t].late + 1 ELSE 0]]
        /\ quota' = LpdCap
        /\ UNCHANGED <<activity, learned, dhtVars>>

(* lpd_extractHeader and lpd_extractParam: what a datagram may lack *)
Datagrams == {"whole", "no header", "no port", "no hash"}
(* event_callback: one datagram of the quota *)
Heard == quota > 0 /\ quota' = quota - 1
(* tr_lpdConsiderAnnounce, of a datagram for torrent t *)
LpdReceive(message, t) ==
    /\ Heard
    /\ learned' = IF message = "whole" /\ activity[t].allows THEN learned \cup {t} ELSE learned
    /\ UNCHANGED <<lpd, activity, dhtVars>>

(* A torrent stops, completes, or starts: torrentStartImpl makes its announces due *)
ChangeActivity(t, doing) ==
    LET starts == activity[t].doing = "stopped"
    IN  /\ DhtStep /\ activity[t].doing # doing
        /\ activity' = [activity EXCEPT ![t].doing = doing]
        /\ lpd' = IF starts THEN [x \in LpdTorrents |-> [at |-> IF x = t THEN 0 ELSE lpd[x].at, late |-> 0]]
                  ELSE lpd
        /\ dhtDue' = IF starts THEN [dhtDue EXCEPT ![t] = [f \in Families |-> "now"]] ELSE dhtDue
        /\ UNCHANGED <<quota, learned, dht, boots>>

(***************************************************************************)
(* The DHT                                                                 *)
(***************************************************************************)
(* getstatus and tr_dhtStatus; it is STOPPED for a session it is not of *)
DhtStatus(f) == IF dht.on THEN dht.status[f] ELSE STOPPED
BootstrapDone(f) == DhtStatus(f) = STOPPED \/ DhtStatus(f) >= FIREWALLED

(* tr_dhtInit, by tr_udpInit and by tr_sessionSetDHTEnabled: the nodes of the  *)
(* file are given to a new thread                                              *)
DhtInit ==
    /\ DhtStep /\ ~dht.on
    /\ dht' = [dht EXCEPT !.on = TRUE, !.inits = @ + 1, !.status = [f \in Families |-> BROKEN]]
    /\ boots' = boots \cup {[of |-> dht.inits + 1, left |-> dht.file]}
    /\ UNCHANGED <<lpdVars, dhtDue>>

(* tr_dhtUninit: the nodes of both families are saved if one of them has enough *)
DhtUninit(found) ==
    /\ DhtStep /\ dht.on
    /\ \A f \in Families : DhtStatus(f) >= FIREWALLED => found[f] > 0
    /\ dht' = [dht EXCEPT !.on = FALSE,
                          !.file = IF \E f \in Families : DhtStatus(f) >= FIREWALLED THEN found ELSE @]
    /\ UNCHANGED <<lpdVars, boots, dhtDue>>
(* tr_dhtCallback, timer_callback: the network answers, or does not *)
DhtPeriodic(f, s) ==
    /\ DhtStep /\ dht.on /\ dht.status[f] # s /\ s # STOPPED
    /\ dht' = [dht EXCEPT !.status[f] = s]
    /\ UNCHANGED <<lpdVars, boots, dhtDue>>

(* dht_bootstrap: between two naps a thread pings a node of each family that   *)
(* needs it, with tr_dhtAddNode, until both are done; then, without nodes, it   *)
(* asks for the bootstrap nodes by name                                        *)
Bootstrap(b) ==
    /\ DhtStep /\ b \in boots
    /\ boots' = IF \A f \in Families : BootstrapDone(f) THEN boots \ {b}
                ELSE (boots \ {b}) \cup
                     {[b EXCEPT !.left = [f \in Families |-> IF @[f] > 0 THEN @[f] - 1 ELSE 0]]}
    /\ UNCHANGED <<lpdVars, dht, dhtDue>>

(* tr_dhtUpkeep and tr_dhtAnnounce: a search needs a status of POOR; without   *)
(* one it is tried again in seconds, and when the DHT is stopped in minutes    *)
DhtAnnounce(t, f, starts) ==
    /\ DhtStep /\ activity[t].doing # "stopped" /\ activity[t].allows
    /\ dhtDue[t][f] = "now"
    /\ dhtDue' = [dhtDue EXCEPT ![t][f] =
         IF DhtStatus(f) = STOPPED THEN "minutes"
         ELSE IF DhtStatus(f) >= POOR /\ starts THEN "search" ELSE "seconds"]
    /\ UNCHANGED <<lpdVars, dht, boots>>
(* The time comes again *)
DhtDue(t, f) ==
    /\ DhtStep /\ dhtDue[t][f] # "now"
    /\ dhtDue' = [dhtDue EXCEPT ![t][f] = "now"]
    /\ UNCHANGED <<lpdVars, dht, boots>>
(* callback: the search of the last announce found peers *)
DhtValues(t, f) ==
    /\ dht.on /\ dhtDue[t][f] = "search" /\ activity[t].allows /\ t \notin learned
    /\ learned' = learned \cup {t}
    /\ UNCHANGED <<lpd, activity, quota, dhtVars>>

DiscoveryNext ==
    \/ LpdUpkeep
    \/ \E m \in Datagrams, t \in LpdTorrents : LpdReceive(m, t)
    \/ \E t \in LpdTorrents, d \in {"stopped", "download", "seed"} : ChangeActivity(t, d)
    \/ DhtInit
    \/ \E found \in [Families -> 0..DhtNodes] : DhtUninit(found)
    \/ \E f \in Families, s \in 1..GOOD : DhtPeriodic(f, s)
    \/ \E b \in boots : Bootstrap(b)
    \/ \E t \in LpdTorrents, f \in Families :
         \/ \E starts \in BOOLEAN : DhtAnnounce(t, f, starts)
         \/ DhtDue(t, f)
         \/ DhtValues(t, f)
DiscoverySpec == DiscoveryInit /\ [][DiscoveryNext]_<<lpdVars, dhtVars>>

(***************************************************************************)
(* Properties                                                              *)
(***************************************************************************)
DiscoveryTypeOK ==
    /\ lpd \in [LpdTorrents -> [at : 0..(2 * LpdInterval), late : Nat]]
    /\ quota \in 0..LpdCap /\ learned \subseteq LpdTorrents
    /\ dht.status \in [Families -> 1..GOOD] /\ dht.file \in [Families -> 0..DhtNodes]

(* As long as there are no more torrents than upkeeps in an interval, every   *)
(* one gets its turn before a second announce of any: nobody waits longer     *)
(* than the others need, unless another is started meanwhile.                 *)
LpdFair == Cardinality(LpdTorrents) <= LpdInterval =>
              \A t \in LpdTorrents : lpd[t].late < Cardinality(LpdTorrents)

(* A private torrent learns of no peer but from its trackers: not from the    *)
(* local network and not from a search.                                        *)
PrivateKept == learned \subseteq {t \in LpdTorrents : activity[t].allows}
=============================================================================
