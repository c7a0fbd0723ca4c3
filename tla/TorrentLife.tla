---------------------------- MODULE TorrentLife ----------------------------
(***************************************************************************)
(* The life of torrents between the three kinds of threads that touch them *)
(* without a common lock:                                                  *)
(*   - the event thread runs the calls queued by tr_runInEventThread one   *)
(*     at a time, and its periodic pulses (peer-mgr.c);                    *)
(*   - the verify thread (verify.c) checks one torrent at a time and then  *)
(*     queues a call that reports it;                                      *)
(*   - API workers (TransSession.cpp) walk the torrent list with no lock,  *)
(*     read a torrent's flags, and act on what they read.                  *)
(* EventPipe shows that the pipe is a FIFO; here it is one.  Completeness, *)
(* peers, trackers and the files are left out; whether a started torrent   *)
(* has to queue, and whether its files disappeared, is any.                *)
(***************************************************************************)
EXTENDS Naturals, Sequences

CONSTANTS Torrents, Workers,
          Ops,     \* what API workers may do: "start", "stop", "remove"
          MaxOps,  \* how many API calls there are
          NoTorrent

ASSUME NoTorrentAssumption == NoTorrent \notin Torrents
ASSUME OpsAssumption == Ops \subseteq {"start", "stop", "remove"} /\ MaxOps \in Nat

VARIABLES tor,         \* each torrent's flags
          callPipe,    \* calls waiting for the event thread
          verifyList, currentNode, stopCurrent,  \* verify.c's statics
          vpc,         \* the verify thread; "none" is verifyThread == NULL
          ewait,       \* the call the event thread waits in, in tr_verifyRemove
          wpc,         \* the API workers
          ops,         \* how many calls they began
          fault        \* a freed torrent was used

lifeVars == <<tor, callPipe, verifyList, currentNode, stopCurrent, vpc, ewait, wpc, ops, fault>>

Absent == [state |-> "absent", isRunning |-> FALSE, isStopping |-> FALSE,
           isQueued |-> FALSE, isDeleting |-> FALSE, startAfterVerify |-> FALSE,
           verifyState |-> "NONE"]

FnCall(f, t) == [f |-> f, t |-> t]
NoFnCall == FnCall("none", NoTorrent)
WorkerSteps == {"setStopping", "remove", "setStartAfter", "setQueued", "start"}
Verify == <<verifyList, currentNode, stopCurrent, vpc>>

Live(t) == tor[t].state = "live"
SessionLockFree == ewait = NoFnCall   \* only that wait holds it across steps

LifeInit == /\ tor = [t \in Torrents |-> Absent]
            /\ callPipe = <<>>
            /\ verifyList = {} /\ currentNode = NoTorrent /\ stopCurrent = FALSE
            /\ vpc = "none"
            /\ ewait = NoFnCall
            /\ wpc = [w \in Workers |-> NoFnCall]
            /\ ops = 0
            /\ fault = FALSE

\* torrentGetActivity, as far as torrentStart tells activities apart.
Activity(r) == IF r.verifyState # "NONE" THEN "CHECK"
               ELSE IF r.isRunning THEN "RUNNING"
               ELSE IF r.isQueued THEN "QUEUED"
               ELSE "STOPPED"

\* torrentStart in the event thread: the torrent's flags afterwards, where
\* torrentStartImpl runs at once.  Having to queue or having lost its files
\* leaves a stopped torrent queued or as it was.
Started(r) == [r EXCEPT !.isRunning = TRUE, !.isQueued = FALSE]
StartOutcomes(r, bypassQueue) ==
    CASE Activity(r) = "RUNNING" -> {r}
      [] Activity(r) = "QUEUED" -> IF bypassQueue THEN {r, Started(r)} ELSE {r}
      [] Activity(r) = "CHECK" -> {[r EXCEPT !.startAfterVerify = TRUE]}
      [] Activity(r) = "STOPPED" -> {r, [r EXCEPT !.isQueued = TRUE], Started(r)}

\* tr_torrentRecheckCompleteness: a running torrent that turns out to be a seed
\* may be over its seed limit.
Rechecked(r) == {r} \cup (IF r.isRunning THEN {[r EXCEPT !.isStopping = TRUE]} ELSE {})

-----------------------------------------------------------------------------
(* tr_torrentNew on a session with the lock free: torrentInit appends the  *)
(* torrent to the list.  A new one is verified first; one with a local     *)
(* .torrent file starts, if it was running, as torrentStart decides.       *)
Add(t) ==
    /\ ~fault /\ tor[t].state = "absent" /\ SessionLockFree
    /\ \/ /\ \E doStart \in BOOLEAN :
                tor' = [tor EXCEPT ![t] = [@ EXCEPT !.state = "live", !.startAfterVerify = doStart]]
          /\ callPipe' = Append(callPipe, FnCall("verifyTorrent", t))
       \/ /\ \E queue \in BOOLEAN :
                tor' = [tor EXCEPT ![t] = [@ EXCEPT !.state = "live", !.isQueued = queue]]
          /\ UNCHANGED callPipe
       \/ /\ tor' = [tor EXCEPT ![t] = [@ EXCEPT !.state = "live", !.isRunning = TRUE]]
          /\ callPipe' = Append(callPipe, FnCall("torrentStartImpl", t))
    /\ UNCHANGED <<Verify, ewait, wpc, ops, fault>>

-----------------------------------------------------------------------------
(* API workers: find a torrent by id in the list and read its flags, ...   *)
WorkerSees(t, f) ==
    CASE f = "setStopping" -> "stop" \in Ops /\ (tor[t].isRunning \/ tor[t].isQueued)
      [] f = "remove" -> "remove" \in Ops
      [] f = "setStartAfter" ->
            "start" \in Ops /\ ~tor[t].isRunning /\ Activity(tor[t]) = "CHECK"
      [] f \in {"setQueued", "start"} ->
            "start" \in Ops /\ Activity(tor[t]) = "STOPPED"

WorkerFind(w) ==
    /\ ~fault /\ wpc[w] = NoFnCall /\ ops < MaxOps
    /\ \E t \in Torrents, f \in WorkerSteps :
          Live(t) /\ WorkerSees(t, f) /\ wpc' = [wpc EXCEPT ![w] = FnCall(f, t)]
    /\ ops' = ops + 1
    /\ UNCHANGED <<tor, callPipe, Verify, ewait, fault>>

\* ... then act on what they read.  By now the torrent may have been freed.
WorkerAct(w) ==
    LET t == wpc[w].t
        f == wpc[w].f
    IN  /\ ~fault /\ wpc[w] # NoFnCall
        /\ wpc' = [wpc EXCEPT ![w] = NoFnCall]
        /\ fault' = ~Live(t)
        /\ CASE f = "setStopping" ->
                   tor' = [tor EXCEPT ![t].isStopping = TRUE] /\ UNCHANGED callPipe
             [] f = "setStartAfter" ->
                   tor' = [tor EXCEPT ![t].startAfterVerify = TRUE] /\ UNCHANGED callPipe
             [] f = "setQueued" ->
                   tor' = [tor EXCEPT ![t].isQueued = TRUE] /\ UNCHANGED callPipe
             [] f = "start" ->
                   /\ SessionLockFree
                   /\ tor' = [tor EXCEPT ![t].isRunning = TRUE]
                   /\ callPipe' = Append(callPipe, FnCall("torrentStartImpl", t))
             [] f = "remove" ->
                   /\ tor' = [tor EXCEPT ![t].isDeleting = TRUE]
                   /\ callPipe' = Append(callPipe, FnCall("removeTorrent", t))
        /\ UNCHANGED <<Verify, ewait, ops>>

-----------------------------------------------------------------------------
(* The event thread.  Each call below starts with tr_verifyRemove, which   *)
(* waits when the torrent is the one being verified; the rest is Finish.   *)

\* Mutant: tr_verifyAdd forgets to start the thread.
Reverify_NoThread(t, r) ==
    /\ tor' = [tor EXCEPT ![t] = [r EXCEPT !.isRunning = FALSE, !.verifyState = "WAIT"]]
    /\ verifyList' = verifyList \cup {t}
    /\ UNCHANGED vpc

\* verifyTorrent (torrent.c) after tr_verifyRemove.
Reverify(t, r) ==
    LET after == (r.isRunning \/ r.startAfterVerify) /\ ~r.isStopping
        stopped == IF r.isRunning
                     THEN [r EXCEPT !.isRunning = FALSE, !.isStopping = FALSE, !.isQueued = FALSE]
                     ELSE r
    IN  \/ /\ tor' = [tor EXCEPT ![t] = [stopped EXCEPT !.startAfterVerify = after,
                                                        !.verifyState = "WAIT"]]
           /\ verifyList' = (verifyList \ {t}) \cup {t}
           /\ vpc' = IF vpc = "none" THEN "top" ELSE vpc
        \/ /\ tor' = [tor EXCEPT ![t] = [stopped EXCEPT !.startAfterVerify = FALSE]]
           /\ verifyList' = verifyList \ {t}
           /\ UNCHANGED vpc

\* What follows tr_verifyRemove in each call; r is the torrent after it.
Finish(f, t, r) ==
    CASE f = "stopTorrent" ->
            /\ tor' = [tor EXCEPT ![t] = [r EXCEPT !.isQueued = FALSE]]
            /\ verifyList' = verifyList \ {t} /\ UNCHANGED vpc
      [] f = "removeTorrent" ->   \* closeTorrent, freeTorrent
            /\ tor' = [tor EXCEPT ![t] = [Absent EXCEPT !.state = "freed"]]
            /\ verifyList' = verifyList \ {t} /\ UNCHANGED vpc
      [] f = "verifyTorrent" -> Reverify(t, r)

\* Mutants: tr_verifyRemove does not wait for the thread, ...
RemoveThenFinish_NoWait(f, t, r) ==
    /\ stopCurrent' = (stopCurrent \/ t = currentNode)
    /\ Finish(f, t, [r EXCEPT !.verifyState = "NONE"])
    /\ UNCHANGED <<currentNode, ewait>>

\* ... or leaves the state of a torrent it takes from the list.
RemoveThenFinish_KeepsState(f, t, r) ==
    IF t = currentNode
      THEN /\ stopCurrent' = TRUE
           /\ ewait' = FnCall(f, t)
           /\ tor' = [tor EXCEPT ![t] = r]
           /\ UNCHANGED <<verifyList, currentNode, vpc>>
      ELSE Finish(f, t, r) /\ UNCHANGED <<currentNode, stopCurrent, ewait>>

\* tr_verifyRemove and what follows, or the beginning of its wait.
RemoveThenFinish(f, t, r) ==
    IF t = currentNode
      THEN /\ stopCurrent' = TRUE
           /\ ewait' = FnCall(f, t)
           /\ tor' = [tor EXCEPT ![t] = r]
           /\ UNCHANGED <<verifyList, currentNode, vpc>>
      ELSE /\ Finish(f, t, [r EXCEPT !.verifyState = "NONE"])
           /\ UNCHANGED <<currentNode, stopCurrent, ewait>>

\* torrentRecheckDoneImpl: the torrents it may leave.
RecheckDone(q) ==
    UNION {IF r.startAfterVerify
             THEN StartOutcomes([r EXCEPT !.startAfterVerify = FALSE], FALSE)
             ELSE {r} : r \in Rechecked(q)}

\* readFromPipe calls the next function.
EventCall ==
    /\ ~fault /\ SessionLockFree /\ callPipe # <<>>
    /\ callPipe' = Tail(callPipe)
    /\ LET f == Head(callPipe).f
           t == Head(callPipe).t
       IN  /\ fault' = ~Live(t)
           /\ CASE ~Live(t) -> UNCHANGED <<tor, Verify, ewait>>
                [] Live(t) /\ f = "torrentStartImpl" ->
                      /\ \E r \in Rechecked(tor[t]) : tor' = [tor EXCEPT ![t] = Started(r)]
                      /\ UNCHANGED <<Verify, ewait>>
                [] Live(t) /\ f = "torrentRecheckDoneImpl" ->
                      /\ \E r \in RecheckDone(tor[t]) : tor' = [tor EXCEPT ![t] = r]
                      /\ UNCHANGED <<Verify, ewait>>
                [] Live(t) /\ f \in {"verifyTorrent", "removeTorrent"} ->
                      RemoveThenFinish(f, t, tor[t])
    /\ UNCHANGED <<wpc, ops>>

\* The verify thread has looked at stopCurrent: tr_verifyRemove returns.
EventResume ==
    /\ ~fault /\ ewait # NoFnCall /\ ~stopCurrent
    /\ Finish(ewait.f, ewait.t, tor[ewait.t])
    /\ ewait' = NoFnCall
    /\ UNCHANGED <<callPipe, currentNode, stopCurrent, wpc, ops, fault>>

\* bandwidthPulse for one torrent: tr_torrentCheckSeedLimit may find a running
\* one over a limit, and what is to stop is stopped (tr_torrentStop).
PulseStop(t) ==
    /\ ~fault /\ SessionLockFree /\ Live(t)
    /\ tor[t].isStopping \/ tor[t].isRunning
    /\ RemoveThenFinish("stopTorrent", t,
                        [tor[t] EXCEPT !.isRunning = FALSE, !.isStopping = FALSE])
    /\ UNCHANGED <<callPipe, wpc, ops, fault>>

\* queuePulse starts a queued torrent.
PulseQueue(t) ==
    /\ ~fault /\ SessionLockFree /\ Live(t) /\ tor[t].isQueued
    /\ \E r \in StartOutcomes(tor[t], TRUE) : tor' = [tor EXCEPT ![t] = r]
    /\ UNCHANGED <<callPipe, Verify, ewait, wpc, ops, fault>>

EventThreadStep == \/ EventCall
                   \/ EventResume
                   \/ \E t \in Torrents : PulseStop(t)

-----------------------------------------------------------------------------
(* The verify thread, verifyThreadFunc.                                    *)

\* Mutant: the loop does not reset stopCurrent.
VerifyTop_KeepsStop ==
    /\ ~fault /\ vpc = "top"
    /\ \/ /\ verifyList = {}
          /\ currentNode' = NoTorrent /\ vpc' = "none" /\ UNCHANGED verifyList
       \/ \E t \in verifyList :
             currentNode' = t /\ vpc' = "picked" /\ verifyList' = verifyList \ {t}
    /\ UNCHANGED <<tor, callPipe, stopCurrent, ewait, wpc, ops, fault>>

\* Under the verify lock: take a torrent of the list (any: the order is by
\* priority and size on disk), or end.
VerifyTop ==
    /\ ~fault /\ vpc = "top"
    /\ stopCurrent' = FALSE
    /\ \/ /\ verifyList = {}
          /\ currentNode' = NoTorrent /\ vpc' = "none" /\ UNCHANGED verifyList
       \/ \E t \in verifyList :
             currentNode' = t /\ vpc' = "picked" /\ verifyList' = verifyList \ {t}
    /\ UNCHANGED <<tor, callPipe, ewait, wpc, ops, fault>>

\* With no lock held.
VerifyBegin ==
    /\ ~fault /\ vpc = "picked"
    /\ tor' = [tor EXCEPT ![currentNode].verifyState = "NOW"]
    /\ vpc' = "verifying"
    /\ UNCHANGED <<callPipe, verifyList, currentNode, stopCurrent, ewait, wpc, ops, fault>>

\* verifyTorrent (verify.c) returns, at its end or for stopCurrent.
VerifyEnd ==
    /\ ~fault /\ vpc = "verifying"
    /\ tor' = [tor EXCEPT ![currentNode].verifyState = "NONE"]
    /\ vpc' = "verified"
    /\ UNCHANGED <<callPipe, verifyList, currentNode, stopCurrent, ewait, wpc, ops, fault>>

\* Mutant: the report is skipped.
VerifyTest_Quiet ==
    /\ ~fault /\ vpc = "verified"
    /\ vpc' = "top"
    /\ UNCHANGED <<tor, callPipe, verifyList, currentNode, stopCurrent, ewait, wpc, ops, fault>>

\* stopCurrent is tested, once, ...
VerifyTest ==
    /\ ~fault /\ vpc = "verified"
    /\ vpc' = IF stopCurrent THEN "top" ELSE "reporting"
    /\ UNCHANGED <<tor, callPipe, verifyList, currentNode, stopCurrent, ewait, wpc, ops, fault>>

\* Mutant: the report names the node after it was cleared.
VerifyReport_Cleared ==
    /\ ~fault /\ vpc = "reporting"
    /\ callPipe' = Append(callPipe, FnCall("torrentRecheckDoneImpl", NoTorrent))
    /\ vpc' = "top"
    /\ UNCHANGED <<tor, verifyList, currentNode, stopCurrent, ewait, wpc, ops, fault>>

\* ... and then fireCheckDone queues the report.
VerifyReport ==
    /\ ~fault /\ vpc = "reporting"
    /\ callPipe' = Append(callPipe, FnCall("torrentRecheckDoneImpl", currentNode))
    /\ vpc' = "top"
    /\ UNCHANGED <<tor, verifyList, currentNode, stopCurrent, ewait, wpc, ops, fault>>

VerifyThread == VerifyTop \/ VerifyBegin \/ VerifyEnd \/ VerifyTest \/ VerifyReport

-----------------------------------------------------------------------------
LifeNext == \/ \E t \in Torrents : Add(t) \/ PulseQueue(t)
            \/ \E w \in Workers : WorkerFind(w) \/ WorkerAct(w)
            \/ EventThreadStep
            \/ VerifyThread

LifeSpec == LifeInit /\ [][LifeNext]_lifeVars

\* The threads are scheduled, the event loop serves both the pipe and its
\* timers, and the pulse stops every torrent that is to stop.
FairLifeSpec == /\ LifeSpec
                /\ WF_lifeVars(VerifyThread)
                /\ SF_lifeVars(EventCall) /\ WF_lifeVars(EventResume)
                /\ \A t \in Torrents : SF_lifeVars(PulseStop(t) /\ tor[t].isStopping)
                /\ \A w \in Workers : SF_lifeVars(WorkerAct(w))

-----------------------------------------------------------------------------
Flags == [state : {"absent", "live", "freed"}, isRunning : BOOLEAN,
          isStopping : BOOLEAN, isQueued : BOOLEAN, isDeleting : BOOLEAN,
          startAfterVerify : BOOLEAN, verifyState : {"NONE", "WAIT", "NOW"}]
EventFunctions == {"torrentStartImpl", "torrentRecheckDoneImpl", "verifyTorrent", "removeTorrent"}
FnCalls(F) == {FnCall(f, t) : f \in F, t \in Torrents}

\* Types; the pipe carries calls about torrents, and the verify thread works on
\* at most one of them.
LifeTypeOK ==
    /\ tor \in [Torrents -> Flags]
    /\ callPipe \in Seq(FnCalls(EventFunctions))
    /\ verifyList \subseteq Torrents
    /\ currentNode \in Torrents \cup {NoTorrent}
    /\ stopCurrent \in BOOLEAN
    /\ vpc \in {"none", "top", "picked", "verifying", "verified", "reporting"}
    /\ ewait \in FnCalls({"stopTorrent", "verifyTorrent", "removeTorrent"}) \cup {NoFnCall}
    /\ wpc \in [Workers -> FnCalls(WorkerSteps) \cup {NoFnCall}]
    /\ ops \in 0..MaxOps
    /\ fault \in BOOLEAN

\* The verify thread holds t: it will read or write t's fields again.
Holds(t) == currentNode = t /\ vpc \in {"picked", "verifying", "verified", "reporting"}

\* tr_verifyRemove before freeTorrent is enough for the verify thread: it never
\* checks, nor is about to check, a torrent that was freed.
FreedIsForgotten ==
    \A t \in Torrents : tor[t].state = "freed" => t \notin verifyList /\ ~Holds(t)

\* A torrent waits for verification exactly while it is in the list or just
\* taken from it, and is being verified exactly while the thread works on it:
\* the unlocked writes of verifyState never disagree with the locked list.
VerifyStateMatches ==
    \A t \in Torrents : Live(t) =>
        /\ tor[t].verifyState = "NOW" <=> currentNode = t /\ vpc = "verifying"
        /\ tor[t].verifyState = "WAIT" <=>
              t \in verifyList \/ (currentNode = t /\ vpc = "picked")

\* A torrent queued for verification gets verified or removed: the thread's end
\* and tr_verifyAdd never miss each other.
VerifyHappens ==
    \A t \in Torrents :
        (tor[t].verifyState # "NONE") ~> (fault \/ tor[t].verifyState = "NONE")

\* A torrent asked to be removed goes, whoever verifies, stops or starts it.
RemoveCompletes ==
    \A t \in Torrents : tor[t].isDeleting ~> (fault \/ tor[t].state = "freed")

\* A start wanted while a torrent is verified is not forgotten: it is acted on
\* when the report arrives, unless the torrent is stopped or removed before.
StartAfterVerifyHonoured ==
    \A t \in Torrents :
        (tor[t].startAfterVerify /\ tor[t].verifyState # "NONE")
            ~> (\/ fault
                \/ ~tor[t].startAfterVerify
                \/ tor[t].isRunning \/ tor[t].isStopping
                \/ ewait.t = t)

\* assert (tr_isTorrent (tor)) in torrentRecheckDoneImpl, torrentStartImpl and
\* the other calls: no thread uses a torrent that was freed.
NoFreedTorrentUsed == ~fault

\* "verifying right now... wait until that's done so we'll know what
\* completeness to use/announce": a torrent does not run while it is verified.
NotRunningWhileVerified ==
    \A t \in Torrents : tor[t].verifyState = "NOW" => ~tor[t].isRunning
=============================================================================
