----------------------------- MODULE Announcer -----------------------------
(***************************************************************************)
(* Telling trackers what torrents do (announcer.c).  A torrent has tiers   *)
(* of trackers; each tier keeps a queue of events to announce to its       *)
(* current tracker, and an upkeep timer sends what is due while there are  *)
(* free slots.  All of it runs in the event thread, except that an API     *)
(* worker sets isRunning before torrentStartImpl has run.                  *)
(*                                                                         *)
(* A time is "never" (0), "due" (not after now) or "later"; which of more  *)
(* tiers than slots go first depends on how much they transferred, and is  *)
(* any here.  A tracker has one URL for announces and scrapes.  Counts,    *)
(* intervals, peers, manual announce times and the replacement of a        *)
(* torrent's tracker list are left out.                                    *)
(***************************************************************************)
EXTENDS Integers, FiniteSets, Sequences, SequencesExt, FiniteSetsExt

CONSTANTS NumTiers,      \* the tiers of all torrents, in the order of the session
          Torrents,
          Owner,         \* each tier's torrent
          Trackers,      \* each tier's trackers, a sequence of URLs
          HasScrape,     \* the URLs of trackers that can be scraped
          MaxTasks,      \* MAX_CONCURRENT_TASKS
          MultiscrapeMax,
          ScrapePaused,  \* session->scrapePausedTorrents
          MaxOps, MaxScrapes, MaxFailures  \* bounds: operations on torrents, scrapes
                                           \* that come due, requests that fail

Tiers == 1..NumTiers
TiersOf(t) == {x \in Tiers : Owner[x] = t}
Urls == UNION {ToSet(Trackers[x]) : x \in Tiers}

ASSUME TiersAssumption ==
    /\ NumTiers \in Nat /\ Owner \in [Tiers -> Torrents]
    /\ Trackers \in [Tiers -> Seq(Urls)] /\ \A x \in Tiers : Trackers[x] # <<>>
    /\ \A x, y \in Tiers : x # y /\ Owner[x] = Owner[y] =>
          ToSet(Trackers[x]) \cap ToSet(Trackers[y]) = {}   \* filter_trackers
ASSUME LimitsAssumption ==
    /\ MaxTasks \in Nat \ {0} /\ MultiscrapeMax \in Nat \ {0}
    /\ ScrapePaused \in BOOLEAN /\ {MaxOps, MaxScrapes, MaxFailures} \subseteq Nat

VARIABLES present,    \* torrents of the session
          running,    \* torrents whose isRunning is set
          starting,   \* torrents whose torrentStartImpl is queued
          tier,       \* each tier's fields
          slots,      \* slotsAvailable
          announces,  \* of each tier's place, the announces that were sent
          scrapes,    \* scrapes that were sent
          stops,      \* announcer->stops: the goodbyes of removed torrents
          ops, scrapesDue, failures  \* counters, for the bounds

vars == <<present, running, starting, tier, slots, announces, scrapes, stops,
          ops, scrapesDue, failures>>
Network == <<slots, announces, scrapes, failures>>

Url(x) == Trackers[x][tier[x].current]
Present(x) == Owner[x] \in present

\* get_next_scrape_time.
NextScrape(r) == IF ~r.isRunning /\ ~ScrapePaused THEN "never" ELSE "later"

\* tierConstruct and the first tierIncrementTracker; key is its lookup key.
NewTier(key) ==
    LET r == [key |-> key, events |-> <<>>, announceAt |-> "never", scrapeAt |-> "never",
              current |-> 1, isRunning |-> FALSE, isAnnouncing |-> FALSE, isScraping |-> FALSE]
    IN  [r EXCEPT !.scrapeAt = NextScrape(r)]

Init == /\ present = Torrents /\ running = {} /\ starting = {}
        /\ tier = [x \in Tiers |-> NewTier(0)]
        /\ slots = MaxTasks
        /\ announces = [x \in Tiers |-> <<>>] /\ scrapes = <<>> /\ stops = {}
        /\ ops = 0 /\ scrapesDue = 0 /\ failures = 0

-----------------------------------------------------------------------------
(* A tier's queue of events.                                               *)

\* tier_announce_remove_trailing.
RemoveTrailing(s, e) == SubSeq(s, 1, Max({0} \cup {i \in DOMAIN s : s[i] # e}))

\* Mutant: empty events are not dumped.
Push_KeepsNone(r, e, at) ==
    LET kept == IF e # "stopped" THEN r.events
                ELSE IF Contains(r.events, "completed") THEN <<"completed">> ELSE <<>>
    IN  [r EXCEPT !.events = Append(RemoveTrailing(kept, e), e), !.announceAt = at]

\* tier_announce_event_push: a "stopped" dumps everything before it but a
\* "completed"; empty events give way, and so does the same event.
Push(r, e, at) ==
    LET kept == IF e # "stopped" THEN r.events
                ELSE IF Contains(r.events, "completed") THEN <<"completed">> ELSE <<>>
    IN  [r EXCEPT !.events = Append(RemoveTrailing(RemoveTrailing(kept, "none"), e), e),
                  !.announceAt = at]

\* Mutant: the index is not reduced.
IncrementTracker_NoWrap(r, x) ==
    [r EXCEPT !.current = @ + 1, !.isAnnouncing = FALSE, !.isScraping = FALSE]

\* Mutant: a scrape is left to its answer, which will look for the old tracker.
IncrementTracker_KeepsScraping(r, x) ==
    [r EXCEPT !.current = (@ % Len(Trackers[x])) + 1, !.isAnnouncing = FALSE]

\* tierIncrementTracker.
IncrementTracker(r, x) ==
    [r EXCEPT !.current = (@ % Len(Trackers[x])) + 1,
              !.isAnnouncing = FALSE, !.isScraping = FALSE]

\* torrentAddAnnounce, of some torrents.
AddAnnounce(T, e) ==
    [x \in Tiers |-> IF Owner[x] \in T THEN Push(tier[x], e, "due") ELSE tier[x]]

-----------------------------------------------------------------------------
(* Operations on torrents.                                                 *)
Operation(t) == t \in present /\ ops < MaxOps /\ ops' = ops + 1

\* torrentStart in an API worker queues torrentStartImpl, ...
StartAsked(t) ==
    /\ Operation(t) /\ t \notin running \cup starting
    /\ running' = running \cup {t} /\ starting' = starting \cup {t}
    /\ UNCHANGED <<present, tier, stops, Network, scrapesDue>>

\* ... which announces "started" (tr_announcerTorrentStarted).
StartImpl(t) ==
    /\ t \in starting
    /\ starting' = starting \ {t} /\ running' = running \cup {t}
    /\ tier' = AddAnnounce({t}, "started")
    /\ UNCHANGED <<present, stops, Network, ops, scrapesDue>>

\* tr_torrentStop and stopTorrent, in the event thread.
Stop(t) ==
    /\ Operation(t)
    /\ running' = running \ {t}
    /\ tier' = AddAnnounce({t}, "stopped")
    /\ UNCHANGED <<present, starting, stops, Network, scrapesDue>>

\* tr_torrentRecheckCompleteness finds that the torrent became a seed, be it
\* running or not.
Completed(t) ==
    /\ Operation(t)
    /\ tier' = AddAnnounce({t}, "completed")
    /\ UNCHANGED <<present, running, starting, stops, Network, scrapesDue>>

\* tr_torrentManualUpdateImpl.
ManualAnnounce(t) ==
    /\ Operation(t) /\ t \in running
    /\ tier' = AddAnnounce({t}, "none")
    /\ UNCHANGED <<present, running, starting, stops, Network, scrapesDue>>

\* peerPortChanged: every running torrent starts again.
ChangeMyPort ==
    /\ ops < MaxOps /\ ops' = ops + 1
    /\ tier' = AddAnnounce(running, "started")
    /\ UNCHANGED <<present, running, starting, stops, Network, scrapesDue>>

\* closeTorrent and freeTorrent: tr_announcerRemoveTorrent says goodbye to the
\* trackers of the tiers that are running and frees the tiers.
RemoveTorrent(t) ==
    /\ Operation(t) /\ t \notin starting
    /\ present' = present \ {t} /\ running' = running \ {t}
    /\ stops' = stops \cup {<<t, Url(x)>> : x \in {y \in TiersOf(t) : tier[y].isRunning}}
    /\ UNCHANGED <<starting, tier, Network, scrapesDue>>

\* torrentInit, for a torrent that was removed: tr_announcerAddTorrent.
AddTorrent(t) ==
    /\ t \notin present /\ ops < MaxOps /\ ops' = ops + 1
    /\ present' = present \cup {t}
    /\ tier' = [x \in Tiers |-> IF Owner[x] = t THEN NewTier(tier[x].key + 1) ELSE tier[x]]
    /\ UNCHANGED <<running, starting, stops, Network, scrapesDue>>

-----------------------------------------------------------------------------
(* The upkeep timer.                                                       *)
\* Mutant: the tier may be busy with an announce.
NeedsToAnnounce_Busy(x) ==
    ~tier[x].isScraping /\ tier[x].announceAt = "due" /\ tier[x].events # <<>>

\* tierNeedsToAnnounce and tierNeedsToScrape.
NeedsToAnnounce(x) ==
    /\ ~tier[x].isAnnouncing /\ ~tier[x].isScraping
    /\ tier[x].announceAt = "due" /\ tier[x].events # <<>>
NeedsToScrape(x) ==
    /\ ~tier[x].isScraping /\ tier[x].scrapeAt = "due" /\ Url(x) \in HasScrape

\* multiscrape: the requests for the tiers S, in their order, that fit into n.
Batches(S, n) ==
    LET add(q, x) ==
            LET open == {i \in DOMAIN q : q[i].url = Url(x)
                                          /\ Cardinality(q[i].torrents) < MultiscrapeMax}
            IN  IF open # {} THEN [q EXCEPT ![Min(open)].torrents = @ \cup {Owner[x]}]
                ELSE IF Len(q) < n THEN Append(q, [url |-> Url(x), torrents |-> {Owner[x]}])
                ELSE q
    IN  FoldLeft(add, <<>>, SetToSortSeq(S, <))
InBatch(q, x) == \E i \in DOMAIN q : q[i].url = Url(x) /\ Owner[x] \in q[i].torrents

\* tierAnnounce.
Request(x) == [key |-> tier[x].key, event |-> Head(tier[x].events),
               runs |-> Owner[x] \in running]
Announcing(r) == [r EXCEPT !.events = Tail(@), !.isAnnouncing = TRUE]

\* onUpkeepTimer: flushCloseMessages, then announceMore.
Upkeep ==
    LET A == {x \in Tiers : slots > 0 /\ Present(x) /\ NeedsToAnnounce(x)}
        S == {x \in Tiers \ A : slots > 0 /\ Present(x) /\ NeedsToScrape(x)}
    IN  /\ stops' = {}
        /\ \E T \in kSubset(Min({slots, Cardinality(A)}), A) :
              LET q == Batches(S, slots - Cardinality(T))
              IN  /\ announces' = [x \in Tiers |-> IF x \in T THEN Append(announces[x], Request(x))
                                                        ELSE announces[x]]
                  /\ slots' = slots - Cardinality(T)
                  /\ scrapes' = scrapes \o q
                  /\ tier' = [x \in Tiers |->
                        IF x \in T THEN Announcing(tier[x])
                        ELSE IF x \in S /\ InBatch(q, x) THEN [tier[x] EXCEPT !.isScraping = TRUE]
                        ELSE tier[x]]
        /\ UNCHANGED <<present, running, starting, ops, scrapesDue, failures>>

\* Time passes until a tier is due.
AnnounceDue(x) ==
    /\ Present(x) /\ tier[x].announceAt = "later"
    /\ tier' = [tier EXCEPT ![x].announceAt = "due"]
    /\ UNCHANGED <<present, running, starting, stops, Network, ops, scrapesDue>>
ScrapeDue(x) ==
    /\ Present(x) /\ tier[x].scrapeAt = "later"
    /\ scrapesDue < MaxScrapes /\ scrapesDue' = scrapesDue + 1
    /\ tier' = [tier EXCEPT ![x].scrapeAt = "due"]
    /\ UNCHANGED <<present, running, starting, stops, Network, ops>>

-----------------------------------------------------------------------------
(* The trackers' answers; a goodbye has none.                              *)
\* Mutant: no periodic announce is queued.
OnSuccess_Once(r, q) ==
    {[r EXCEPT !.isAnnouncing = FALSE, !.isRunning = q.runs]}

\* on_announce_done for a good answer; with scrape information in it, or with
\* the last scrape long ago, the next scrape is put off or brought forward.
OnSuccess(r, q) ==
    LET r1 == [r EXCEPT !.isAnnouncing = FALSE, !.isRunning = q.runs]
        next == IF q.event # "stopped" /\ r.events = <<>> THEN Push(r1, "none", "later") ELSE r1
    IN  {next, [next EXCEPT !.scrapeAt = NextScrape(r1)]}

\* on_announce_error: on to the next tracker, and try again later.
OnError(r, q, x) == Push(IncrementTracker([r EXCEPT !.isAnnouncing = FALSE], x), q.event, "later")

\* Mutant: any tier of the torrent is the right one.
FindTier_AnyKey(x, q) == Present(x)

\* getTier.
FindTier(x, q) == Present(x) /\ tier[x].key = q.key

\* Mutant: a slot is given back only for a tier that still exists.
AnnounceDone_LosesSlot(x, i) ==
    LET q == announces[x][i] IN
    /\ announces' = [announces EXCEPT ![x] = RemoveAt(@, i)]
    /\ IF FindTier(x, q)
         THEN slots' = slots + 1 /\ \E r \in OnSuccess(tier[x], q) : tier' = [tier EXCEPT ![x] = r]
         ELSE UNCHANGED <<slots, tier>>
    /\ UNCHANGED <<present, running, starting, scrapes, stops, ops, scrapesDue, failures>>

\* on_announce_done: a good answer, or an error or no answer in time.
AnnounceDone(x, i) ==
    LET q == announces[x][i] IN
    /\ announces' = [announces EXCEPT ![x] = RemoveAt(@, i)]
    /\ slots' = slots + 1
    /\ \/ /\ IF FindTier(x, q)
               THEN \E r \in OnSuccess(tier[x], q) : tier' = [tier EXCEPT ![x] = r]
               ELSE UNCHANGED tier
          /\ UNCHANGED failures
       \/ /\ tier' = IF FindTier(x, q) THEN [tier EXCEPT ![x] = OnError(@, q, x)] ELSE tier
          /\ failures < MaxFailures /\ failures' = failures + 1
    /\ UNCHANGED <<present, running, starting, scrapes, stops, ops, scrapesDue>>

\* find_tier: the tier of t whose current tracker has the scrape URL.
FindScraped(t, u) == {x \in TiersOf(t) : t \in present /\ Url(x) = u}

\* on_scrape_done.
ScrapeDone(i) ==
    LET q == scrapes[i]
        found == UNION {FindScraped(t, q.url) : t \in q.torrents}
        scraped(r) == [r EXCEPT !.isScraping = FALSE, !.scrapeAt = NextScrape(r)]
        retry(r, x) == LET s == IncrementTracker(r, x) IN [s EXCEPT !.scrapeAt = NextScrape(s)]
    IN  /\ scrapes' = RemoveAt(scrapes, i)
        /\ slots' = slots + 1
        /\ \/ /\ tier' = [x \in Tiers |-> IF x \in found THEN scraped(tier[x]) ELSE tier[x]]
              /\ UNCHANGED failures
           \/ /\ tier' = [x \in Tiers |-> IF x \in found THEN retry(tier[x], x) ELSE tier[x]]
              /\ failures < MaxFailures /\ failures' = failures + 1
        /\ UNCHANGED <<present, running, starting, announces, stops, ops, scrapesDue>>

-----------------------------------------------------------------------------
Next == \/ \E t \in Torrents :
              \/ StartAsked(t) \/ StartImpl(t) \/ Stop(t) \/ Completed(t)
              \/ ManualAnnounce(t) \/ RemoveTorrent(t) \/ AddTorrent(t)
        \/ ChangeMyPort
        \/ Upkeep
        \/ \E x \in Tiers : AnnounceDue(x) \/ ScrapeDue(x)
        \/ \E x \in Tiers : \E i \in DOMAIN announces[x] : AnnounceDone(x, i)
        \/ \E i \in DOMAIN scrapes : ScrapeDone(i)

Spec == Init /\ [][Next]_vars

\* The event loop runs its timer and the queued calls, time passes, and each
\* request is answered or times out.
FairSpec == /\ Spec
            /\ WF_vars(Upkeep)
            /\ \A t \in Torrents : WF_vars(StartImpl(t))
            /\ \A x \in Tiers :
                  /\ WF_vars(AnnounceDue(x))
                  /\ WF_vars(\E i \in DOMAIN announces[x] : AnnounceDone(x, i))
            /\ WF_vars(\E i \in DOMAIN scrapes : ScrapeDone(i))

-----------------------------------------------------------------------------
Events == {"none", "started", "stopped", "completed"}
Times == {"never", "due", "later"}

\* Types; a tier always has a current tracker in its own list.
TypeOK ==
    /\ present \subseteq Torrents /\ running \subseteq present /\ starting \subseteq present
    /\ \A x \in Tiers :
          /\ tier[x].key \in Nat /\ tier[x].current \in DOMAIN Trackers[x]
          /\ tier[x].events \in Seq(Events)
          /\ tier[x].announceAt \in Times /\ tier[x].scrapeAt \in Times
          /\ {tier[x].isRunning, tier[x].isAnnouncing, tier[x].isScraping} \subseteq BOOLEAN
    /\ slots \in Int /\ stops \subseteq Torrents \X Urls
    /\ ops \in 0..MaxOps /\ scrapesDue \in 0..MaxScrapes /\ failures \in 0..MaxFailures

\* The announces on their way, and those of them that are of a tier's own.
Requests == UNION {{x} \X DOMAIN announces[x] : x \in Tiers}
InFlight(x) == {i \in DOMAIN announces[x] : announces[x][i].key = tier[x].key}

\* Every slot taken is given back, whatever became of the tier that took it:
\* the announcer never comes to a stop for want of slots.
NoSlotLost ==
    /\ TypeOK
    /\ slots >= 0
    /\ slots + Cardinality(Requests) >= MaxTasks

\* The queue says each thing once: an empty event is only ever the last, no
\* event follows itself, and only a "completed" may go before a "stopped".
QueueShape ==
    \A x \in Tiers : LET q == tier[x].events IN \A i \in DOMAIN q :
        /\ q[i] = "none" => i = Len(q)
        /\ i < Len(q) => q[i] # q[i + 1]
        /\ q[i] = "stopped" => \A j \in 1..i - 1 : q[j] = "completed"

\* As long as nothing failed, a tier has at most one announce on its way, so
\* that its events reach the tracker in their order, also when its torrent was
\* removed and added again meanwhile.
OneAtATime ==
    failures = 0 => \A x \in Tiers : Present(x) =>
        /\ tier[x].isAnnouncing <=> InFlight(x) # {}
        /\ \A i, j \in InFlight(x) : i = j

\* As long as nothing failed, the last thing a tracker was told, is being told
\* or will be told of a torrent is whether it runs; and when there is nothing
\* left to tell, the tier knows it too (tr_announcerRemoveTorrent relies on it).
Word(e) == e \in {"started", "stopped"}
Intent(x) ==
    LET q == tier[x].events
        words == {i \in DOMAIN q : Word(q[i])}
        runs == Owner[x] \in running
    IN  IF words # {} THEN q[Max(words)] = "started" <=> runs
        ELSE /\ \A i \in InFlight(x) :
                   Word(announces[x][i].event) => (announces[x][i].event = "started" <=> runs)
             /\ InFlight(x) = {} => (tier[x].isRunning <=> runs)
IntentKept ==
    /\ QueueShape /\ OneAtATime
    /\ failures = 0 => \A x \in Tiers : Present(x) /\ Owner[x] \notin starting => Intent(x)

\* Every event that is queued for a tracker leads to an announce, through all
\* failures, scrapes and changes of tracker.
EventsSent ==
    \A x \in Tiers :
        (Present(x) /\ tier[x].events # <<>>) ~> (InFlight(x) # {} \/ ~Present(x))

\* As long as nothing failed, a running torrent is announced again and again.
RunningIsAnnounced ==
    \A x \in Tiers :
        (Owner[x] \in running /\ failures = 0) ~>
            (InFlight(x) # {} \/ Owner[x] \notin running \/ failures > 0)

\* TR_TRACKER_WAITING, "we will announce this torrent to this tracker", and
\* TR_TRACKER_QUEUED, as tr_announcerStats derives them: there is an event to
\* announce.
AnnounceStateHonest ==
    \A x \in Tiers :
        (/\ Owner[x] \in running \ starting
         /\ ~tier[x].isAnnouncing /\ tier[x].announceAt # "never") => tier[x].events # <<>>
=============================================================================
