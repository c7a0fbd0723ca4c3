--------------------------------- MODULE Rpc ---------------------------------
(***************************************************************************)
(* Remote control (rpc-server.c, rpcimpl.c): an HTTP server in the event      *)
(* thread, whose settings other threads change; requests answered at once or   *)
(* when a transfer ends; and what the methods do to torrents.                  *)
(***************************************************************************)
EXTENDS Naturals, FiniteSets, SequencesExt

CONSTANTS HttpRequests,   \* requests that may come
          RpcTorrents,    \* torrents; their ids are never used again
          RpcFiles,       \* the files of each; any other index is out of range
          TrackerUrls,    \* valid announce URLs
          BadUrl,         \* one that is not
          RpcPorts,
          Window,         \* RECENTLY_ACTIVE_SECONDS
          MaxRpcTime, MaxRpcCalls
ASSUME RpcAssumption ==
    /\ {Window, MaxRpcTime, MaxRpcCalls} \subseteq Nat /\ BadUrl \notin TrackerUrls
    /\ RpcPorts \subseteq Nat \ {0} /\ IsFiniteSet(RpcTorrents)

VARIABLES
    rpc,        \* tr_rpc_server: enabled, port, httpd (the port it listens on; NotServing), alive;
                \* ghost hurried: it was enabled again before it had stopped
    rpcPosted,  \* its functions waiting for the event thread
    http,       \* each request: its method, whether it waits for a transfer, its replies
    controlled, \* each torrent: present, dnd, limit, trackers
    removed,    \* session->removedTorrents: the id and the time of each removal
    view,       \* a client that polls: what it knows, when it last asked, asks within the window
    lastSet,    \* the last torrent-set: what was asked of whom and what it was told
    rpcClock, rpcCalls
rpcVars == <<rpc, rpcPosted, http, controlled, removed, view, lastSet, rpcClock, rpcCalls>>
RpcCall == rpcCalls < MaxRpcCalls /\ rpcCalls' = rpcCalls + 1
NotServing == 0

(***************************************************************************)
(* The server                                                              *)
(***************************************************************************)
ServerStarted(s) == IF s.httpd = NotServing THEN [s EXCEPT !.httpd = s.port] ELSE s
ServerStopped(s) == [s EXCEPT !.httpd = NotServing, !.hurried = FALSE]
Restarted(s) == IF s.enabled THEN ServerStarted(ServerStopped(s)) ELSE s
(* startServer, onEnabledChanged, restartServer, closeServer *)
Executed(s, what) ==
    CASE what = "start" -> ServerStarted(s) [] what = "changed" -> (IF s.enabled THEN ServerStarted(s) ELSE ServerStopped(s))
      [] what = "restart" -> Restarted(s) [] what = "close" -> [ServerStopped(s) EXCEPT !.alive = FALSE]
SetRpcEnabled(on) ==
    /\ RpcCall /\ rpc.alive /\ "close" \notin ToSet(rpcPosted)
    /\ rpc' = [rpc EXCEPT !.enabled = on, !.hurried = @ \/ (on /\ ~rpc.enabled /\ rpc.httpd # NotServing)]
    /\ rpcPosted' = Append(rpcPosted, "changed")
    /\ UNCHANGED <<http, controlled, removed, view, lastSet, rpcClock>>
SetRpcPort(p) ==
    /\ RpcCall /\ rpc.alive /\ "close" \notin ToSet(rpcPosted) /\ p # rpc.port
    /\ rpc' = [rpc EXCEPT !.port = p]
    /\ rpcPosted' = IF rpc.enabled THEN Append(rpcPosted, "restart") ELSE rpcPosted
    /\ UNCHANGED <<http, controlled, removed, view, lastSet, rpcClock>>
(* tr_rpcClose: nobody uses the server afterwards *)
RpcClose ==
    /\ RpcCall /\ rpc.alive /\ "close" \notin ToSet(rpcPosted) /\ rpcPosted' = Append(rpcPosted, "close")
    /\ UNCHANGED <<rpc, http, controlled, removed, view, lastSet, rpcClock>>
(* evhttp_free drops the requests that are not answered *)
RunsRpcPosted ==
    /\ rpcPosted # <<>> /\ rpcPosted' = Tail(rpcPosted) /\ rpc' = Executed(rpc, Head(rpcPosted))
    /\ http' = [r \in HttpRequests |-> IF rpc'.httpd # rpc.httpd /\ rpc.httpd # NotServing
                                        THEN [http[r] EXCEPT !.dropped = @ \/ http[r].waits] ELSE http[r]]
    /\ UNCHANGED <<controlled, removed, view, lastSet, rpcClock, rpcCalls>>

(***************************************************************************)
(* Requests                                                                *)
(***************************************************************************)
(* handle_request's refusals, handle_web_client, an upload, methods answered at *)
(* once, methods answered later; and what nobody answers or two answer           *)
Refused == {"refused", "web page", "upload", "unknown method"}
TransferKinds == {"port-test", "blocklist-update", "torrent-add of a URL"}
NoReply == {"rpc with another verb", "rpc without a query", "torrent-add of nothing"}
TwoReplies == {"upload with a bad session id"}
Kinds == Refused \cup {"immediate", "torrent-add"} \cup TransferKinds \cup NoReply \cup TwoReplies
Replies(kind) == IF kind \in TransferKinds \cup NoReply THEN 0 ELSE IF kind \in TwoReplies THEN 2 ELSE 1
(* handle_request, handle_rpc, request_exec; tr_webRun asks for the transfer *)
HandleRequest(r, kind) ==
    /\ rpc.httpd # NotServing /\ http[r].kind = "none"
    /\ http' = [http EXCEPT ![r] = [kind |-> kind, waits |-> kind \in TransferKinds, replies |-> Replies(kind), dropped |-> FALSE]]
    /\ UNCHANGED <<rpc, rpcPosted, controlled, removed, view, lastSet, rpcClock, rpcCalls>>
(* portTested, gotNewBlocklist, gotMetadataFromURL: whatever came, one reply *)
TransferEnds(r) ==
    /\ http[r].waits /\ http' = [http EXCEPT ![r].waits = FALSE, ![r].replies = @ + 1]
    /\ UNCHANGED <<rpc, rpcPosted, controlled, removed, view, lastSet, rpcClock, rpcCalls>>

(***************************************************************************)
(* torrent-set                                                             *)
(***************************************************************************)
(* An argument that is left out is {}, else it is {the list} *)
NoArg == {}
The(arg) == CHOOSE list \in arg : TRUE
InRange(list) == {list[i] : i \in DOMAIN list} \cap RpcFiles
(* setFileDLs: those in range, all if the list is empty; an error keeps the rest *)
FilesSet(acc, t, arg, off) ==
    LET files == IF The(arg) = <<>> THEN RpcFiles ELSE InRange(The(arg))
    IN  IF arg = NoArg \/ acc.error THEN acc
        ELSE [error |-> ToSet(The(arg)) \ RpcFiles # {},
              tors |-> [acc.tors EXCEPT ![t].dnd = IF off THEN @ \cup files ELSE @ \ files]]
(* addTrackerUrls: each new one in a tier of its own *)
AddUrls(list, urls) ==
    LET New(ts, u) == [url |-> u, tier |-> IF ts = <<>> THEN 0 ELSE 1 + Max({ts[i].tier : i \in DOMAIN ts})]
        L[k \in 0..Len(urls)] ==
            IF k = 0 THEN list
            ELSE IF urls[k] = BadUrl \/ \E i \in DOMAIN L[k - 1] : L[k - 1][i].url = urls[k] THEN L[k - 1]
            ELSE Append(L[k - 1], New(L[k - 1], urls[k]))
    IN  L[Len(urls)]
(* removeTrackers: sorted, from the last to the first, none of them twice *)
RemoveUrls(list, ids) ==
    LET n == Len(list)
        L[k \in 0..n] == IF k = 0 THEN list
                         ELSE IF n - k \in ToSet(ids) THEN RemoveAt(L[k - 1], n - k + 1) ELSE L[k - 1]
    IN  L[n]
(* replaceTrackers *)
ReplaceUrls(list, pairs) ==
    LET L[k \in 0..Len(pairs)] ==
            IF k = 0 THEN list
            ELSE IF pairs[k][1] < Len(list) /\ pairs[k][2] # BadUrl THEN [L[k - 1] EXCEPT ![pairs[k][1] + 1].url = pairs[k][2]]
            ELSE L[k - 1]
    IN  L[Len(pairs)]
(* tr_torrentSetAnnounceList, getannounce: sorted by tier, and numbered anew   *)
(* from the file; saved is whether that file could be read and written         *)
(* those of one tier keep their order here; qsort may give them any *)
TierPlace(list, j) == Cardinality({i \in DOMAIN list : list[i].tier < list[j].tier \/ (list[i].tier = list[j].tier /\ i <= j)})
ByTier(list) == [k \in DOMAIN list |-> list[CHOOSE j \in DOMAIN list : TierPlace(list, j) = k]]
Renumbered(list) ==
    LET sorted == ByTier(list)
    IN  [i \in DOMAIN sorted |-> [url |-> sorted[i].url, tier |-> Cardinality({sorted[j].tier : j \in 1..(i - 1)} \ {sorted[i].tier})]]
Adds(list, urls) == \E i \in DOMAIN urls : urls[i] # BadUrl /\ \A k \in DOMAIN list : list[k].url # urls[i]
Removes(list, ids) == \E i \in DOMAIN ids : ids[i] < Len(list)
Replaces(list, pairs) == \E i \in DOMAIN pairs : pairs[i][1] < Len(list) /\ pairs[i][2] # BadUrl
AnnounceListSet(acc, t, changed, list, saved) ==
    IF acc.error THEN acc
    ELSE IF ~changed THEN [acc EXCEPT !.error = TRUE]
    ELSE IF saved THEN [acc EXCEPT !.tors[t].trackers = Renumbered(list)] ELSE acc
LimitSet(acc, t, limit) == [acc EXCEPT !.tors[t].limit = IF limit = "none" THEN @ ELSE limit]
SetOne(acc, t, args, saved) ==
    LET f1 == FilesSet(acc, t, args.unwanted, TRUE)
        f2 == FilesSet(f1, t, args.wanted, FALSE)
        l == LimitSet(f2, t, args.limit)
        list(x) == x.tors[t].trackers
        a == IF args.add = NoArg THEN l
             ELSE AnnounceListSet(l, t, Adds(list(l), The(args.add)), AddUrls(list(l), The(args.add)), saved)
        r == IF args.remove = NoArg THEN a
             ELSE AnnounceListSet(a, t, Removes(list(a), The(args.remove)), RemoveUrls(list(a), The(args.remove)), saved)
    IN  IF args.replace = NoArg THEN r
        ELSE AnnounceListSet(r, t, Replaces(list(r), The(args.replace)), ReplaceUrls(list(r), The(args.replace)), saved)
(* torrentSet; getTorrents: the torrents asked for that are there *)
TorrentSet(ids, args, saved) ==
    /\ RpcCall /\ rpc.httpd # NotServing
    /\ LET L[k \in 0..Len(ids)] == IF k = 0 THEN [error |-> FALSE, tors |-> controlled]
                                   ELSE IF controlled[ids[k]].present THEN SetOne(L[k - 1], ids[k], args, saved)
                                   ELSE L[k - 1]
           end == L[Len(ids)]
       IN  /\ controlled' = end.tors
           /\ lastSet' = [who |-> {t \in ToSet(ids) : controlled[t].present}, args |-> args, error |-> end.error, saved |-> saved]
    /\ UNCHANGED <<rpc, rpcPosted, http, removed, view, rpcClock>>

(***************************************************************************)
(* torrent-remove, and torrent-get of what was recently active             *)
(***************************************************************************)
(* torrentRemove, closeTorrent: at once, in the event thread *)
TorrentRemove(t) ==
    /\ RpcCall /\ controlled[t].present /\ controlled' = [controlled EXCEPT ![t].present = FALSE]
    /\ removed' = removed \cup {<<t, rpcClock>>} /\ lastSet' = [lastSet EXCEPT !.who = @ \ {t}]
    /\ UNCHANGED <<rpc, rpcPosted, http, view, rpcClock>>
(* Mutant: the second at the window's edge is left out *)
Recent_Strict(now) == {r \in removed : r[2] + Window > now}
Recent(now) == {r \in removed : r[2] + Window >= now}
(* torrentGet; prompt is whether the client always asked in time *)
Polls ==
    /\ rpc.httpd # NotServing /\ view.when < rpcClock
    /\ view' = [known |-> view.known \ {r[1] : r \in Recent(rpcClock)}, when |-> rpcClock,
                prompt |-> view.prompt /\ rpcClock <= view.when + Window]
    /\ UNCHANGED <<rpc, rpcPosted, http, controlled, removed, lastSet, rpcClock, rpcCalls>>
SecondPasses ==
    /\ rpcClock < MaxRpcTime /\ rpcClock' = rpcClock + 1
    /\ UNCHANGED <<rpc, rpcPosted, http, controlled, removed, view, lastSet, rpcCalls>>

NoArgs == [unwanted |-> NoArg, wanted |-> NoArg, limit |-> "none", add |-> NoArg, remove |-> NoArg, replace |-> NoArg]
Urls == TrackerUrls \cup {BadUrl}
FileLists == {<<>>} \cup {<<f>> : f \in RpcFiles} \cup {<<f, 0>> : f \in RpcFiles}
ArgsAsked ==
    {[NoArgs EXCEPT !.unwanted = {l}, !.limit = "slow"] : l \in FileLists} \cup {[NoArgs EXCEPT !.wanted = {l}] : l \in FileLists}
    \cup {[NoArgs EXCEPT !.add = {two}] : two \in Urls \X Urls}
    \cup {[NoArgs EXCEPT !.remove = {two}] : two \in (0..2) \X (0..2)}
    \cup {[NoArgs EXCEPT !.replace = {<<pair>>}] : pair \in (0..1) \X Urls}
NewServer(on, p) == [enabled |-> on, port |-> p, httpd |-> NotServing, alive |-> TRUE, hurried |-> FALSE]
NotAsked == [kind |-> "none", waits |-> FALSE, replies |-> 0, dropped |-> FALSE]
(* A torrent comes with no tracker or with two in one tier *)
FirstTrackers ==
    {<<>>} \cup {<<[url |-> p[1], tier |-> 0], [url |-> p[2], tier |-> 0]>> : p \in {q \in TrackerUrls \X TrackerUrls : q[1] # q[2]}}
(* tr_rpcInit starts an enabled server *)
RpcInit ==
    /\ \E on \in BOOLEAN, p \in RpcPorts :
          /\ rpc = NewServer(on, p)
          /\ rpcPosted = IF on THEN <<"start">> ELSE <<>>
    /\ http = [r \in HttpRequests |-> NotAsked]
    /\ \E list \in FirstTrackers :
          controlled = [t \in RpcTorrents |-> [present |-> TRUE, dnd |-> {}, limit |-> "none", trackers |-> list]]
    /\ removed = {} /\ view = [known |-> RpcTorrents, when |-> 0, prompt |-> TRUE]
    /\ lastSet = [who |-> {}, args |-> NoArgs, error |-> FALSE, saved |-> TRUE]
    /\ rpcClock = 0 /\ rpcCalls = 0
RpcNext ==
    \/ \E on \in BOOLEAN : SetRpcEnabled(on)
    \/ \E p \in RpcPorts : SetRpcPort(p)
    \/ RpcClose \/ RunsRpcPosted
    \/ \E r \in HttpRequests : (\E kind \in Kinds : HandleRequest(r, kind)) \/ TransferEnds(r)
    \/ \E args \in ArgsAsked, saved \in BOOLEAN : TorrentSet(SetToSeq(RpcTorrents), args, saved)
    \/ \E t \in RpcTorrents : TorrentRemove(t)
    \/ Polls \/ SecondPasses
RpcSpec == RpcInit /\ [][RpcNext]_rpcVars

(***************************************************************************)
(* Properties                                                              *)
(***************************************************************************)
(* The server does what was last asked of it from any thread, once what was    *)
(* posted has been done; but enabled again before it stopped, it does not      *)
(* stop, and may keep a port it should have left.                              *)
ServerObeys == rpc.alive /\ rpcPosted = <<>> =>
    IF ~rpc.enabled THEN rpc.httpd = NotServing
    ELSE rpc.httpd # NotServing /\ (rpc.hurried \/ rpc.httpd = rpc.port)
(* A request that is not malformed gets one reply.                             *)
OneReply == \A r \in HttpRequests :
    http[r].kind \notin NoReply \cup TwoReplies \cup {"none"} => http[r].replies = (IF http[r].waits THEN 0 ELSE 1)
(* torrent-set says success only if every torrent has all that was asked, if   *)
(* their .torrent files could be written.                                      *)
AnswerTellsAll ==
    ~lastSet.error /\ lastSet.saved => \A t \in lastSet.who :
        /\ \A list \in lastSet.args.unwanted :
              (IF list = <<>> THEN RpcFiles ELSE ToSet(list)) \subseteq controlled[t].dnd
        /\ lastSet.args.limit # "none" => controlled[t].limit = lastSet.args.limit
        /\ \A list \in lastSet.args.add :
              ToSet(list) \ {BadUrl} \subseteq {controlled[t].trackers[i].url : i \in DOMAIN controlled[t].trackers}
(* Trackers are in tiers that are numbered from 0 with no gap, in order.       *)
TiersInOrder == \A t \in RpcTorrents :
    LET list == controlled[t].trackers
    IN  list # <<>> => /\ list[1].tier = 0
                       /\ \A i \in 2..Len(list) : list[i].tier \in {list[i - 1].tier, list[i - 1].tier + 1}
(* Removing by position takes out exactly the positions named.                 *)
RemovesExactly ==
    rpcCalls = 0 => \A n \in 0..3 : \A i, j, k \in 0..3 :
        LET left == RemoveUrls([x \in 1..n |-> x], <<i, j, k>>)
        IN  /\ \A a \in 2..Len(left) : left[a - 1] < left[a]
            /\ ToSet(left) = {x \in 1..n : x - 1 \notin {i, j, k}}
(* A client that asks in time hears of every removal: of what it still takes   *)
(* to be there, the next answer in time will tell it.                          *)
RemovalsHeard ==
    view.prompt => \A t \in view.known : controlled[t].present \/ \E r \in removed : r[1] = t /\ r[2] >= view.when
RpcSound == ServerObeys /\ OneReply /\ AnswerTellsAll /\ TiersInOrder /\ RemovesExactly /\ RemovalsHeard
=============================================================================
