------------------------------ MODULE WebSeeds ------------------------------
(***************************************************************************)
(* A web seed of webseed.c on top of the thread of web.c.  The event        *)
(* thread makes tasks and hears how they end; the web thread moves them     *)
(* through curl and queues work for the event thread as data comes in.      *)
(***************************************************************************)
EXTENDS Integers, FiniteSets, SequencesExt

CONSTANTS SeedTasks,        \* tr_webseed_task objects; one is used again when freed
          MaxConnections,   \* MAX_WEBSEED_CONNECTIONS
          MaxFailures,      \* MAX_CONSECUTIVE_FAILURES
          TaskBlocks,       \* blocks of one task
          MaxWebEvents      \* timers, data and answers
ASSUME WebAssumption ==
    /\ {MaxConnections, MaxFailures, TaskBlocks, MaxWebEvents} \subseteq Nat \ {0}
    /\ IsFiniteSet(SeedTasks)

VARIABLES
    seed,       \* the tr_webseed
    task,       \* task[t]: tr_webseed_task, and where its tr_web_task is
    eventQ,     \* tr_runInEventThread's queue, as far as it is this seed's
    web,        \* session->web: starting, running, closing, gone
    owner,    \* the torrent: running, stopped, gone
    webEvents
webVars == <<seed, task, eventQ, web, owner, webEvents>>

Stages == {"free", "queued", "flight", "ended", "lost"}
NoTask == [stage |-> "free", code |-> 0, done |-> 0, written |-> 0, short |-> FALSE,
           buf |-> FALSE, counted |-> FALSE, final |-> 0]
NoSeed == [stopping |-> FALSE, freed |-> FALSE, failures |-> 0, tick |-> "none",
           challenge |-> 0, idle |-> 0, active |-> 0]

WebInit == /\ seed = NoSeed /\ eventQ = <<>> /\ owner = "running" /\ webEvents = 0
           /\ task = [t \in SeedTasks |-> NoTask]
           /\ web \in {"starting", "running"}

WebEvent == webEvents < MaxWebEvents /\ webEvents' = webEvents + 1
InUseTasks == {t \in SeedTasks : task[t].stage # "free"}
Work(f, t) == [f |-> f, t |-> t]
Later(f, t) == eventQ' = Append(eventQ, Work(f, t))

(* task_request_next_chunk, tr_webRunWithBuffer: without a web thread the   *)
(* task is never heard of again                                            *)
Requested(k) == [k EXCEPT !.stage = IF web \in {"starting", "gone"} THEN "lost" ELSE "queued",
                          !.code = 0]

(***************************************************************************)
(* on_idle: how many more to ask for, and asking                           *)
(***************************************************************************)
RunningTasks(ts) == Cardinality({t \in SeedTasks : ts[t].stage # "free"})
IsFailing(s) == s.failures >= MaxFailures
(* Mutant: idle connections are added to the running ones *)
Want_Idle(s, running) == IF IsFailing(s) THEN s.idle + (IF s.tick = "due" THEN 1 ELSE 0)
                         ELSE MaxConnections - running + s.idle
Want(s, running) == IF IsFailing(s) THEN s.idle + (IF s.tick = "due" THEN 1 ELSE 0)
                    ELSE MaxConnections - running
Challenge(s, running) ==
    IF ~IsFailing(s) THEN running + s.idle + 1
    ELSE IF s.tick = "due" THEN running + s.idle + 1 ELSE s.challenge

(* The tasks that are made for what tr_peerMgrGetNextRequests gives *)
NewTask(short) == Requested([NoTask EXCEPT !.short = short])
OnIdle(s, ts) ==
    LET running == RunningTasks(ts)
        want == Want(s, running)
        s2 == [s EXCEPT !.challenge = Challenge(s, running)]
    IN  IF s.stopping /\ running = 0
        THEN seed' = [s2 EXCEPT !.freed = TRUE] /\ task' = ts
        ELSE IF s.stopping \/ owner # "running" \/ want = 0
        THEN seed' = s2 /\ task' = ts
        ELSE \E S \in SUBSET {t \in SeedTasks : ts[t].stage = "free"}, short \in BOOLEAN :
               LET got == Cardinality(S)
               IN  /\ got <= want
                   /\ seed' = [s2 EXCEPT !.idle = IF got < @ THEN @ - got ELSE 0,
                                         !.tick = IF @ = "due" /\ got = want THEN "none" ELSE @]
                   /\ task' = [t \in SeedTasks |-> IF t \in S THEN NewTask(short) ELSE ts[t]]

(* webseed_timer_func *)
SeedTimer ==
    /\ WebEvent /\ ~seed.freed
    /\ \E tick \in IF seed.tick = "counting" THEN {"counting", "due"} ELSE {seed.tick} :
         OnIdle([seed EXCEPT !.tick = tick], task)
    /\ UNCHANGED <<eventQ, web, owner>>

(* tr_webseedFree, when the torrent or its list of web seeds goes *)
FreeSeed ==
    /\ ~seed.stopping /\ ~seed.freed
    /\ seed' = IF InUseTasks # {} THEN [seed EXCEPT !.stopping = TRUE] ELSE [seed EXCEPT !.freed = TRUE]
    /\ owner' \in {owner, "gone"}
    /\ UNCHANGED <<task, eventQ, web, webEvents>>
TorrentStops ==
    /\ WebEvent /\ owner = "running" /\ owner' = "stopped"
    /\ UNCHANGED <<seed, task, eventQ, web>>

(***************************************************************************)
(* tr_webThreadFunc                                                        *)
(***************************************************************************)
(* The thread has made session->web *)
WebStarts == /\ web = "starting" /\ web' = "running"
             /\ UNCHANGED <<seed, task, eventQ, owner, webEvents>>
(* Everything queued goes to curl, under the lock *)
WebAdd ==
    /\ web \in {"running", "closing"} /\ \E t \in SeedTasks : task[t].stage = "queued"
    /\ task' = [t \in SeedTasks |-> IF task[t].stage = "queued" THEN [task[t] EXCEPT !.stage = "flight"] ELSE task[t]]
    /\ UNCHANGED <<seed, eventQ, web, owner, webEvents>>

(* writeFunc, on_content_changed: the first data tells the response code;   *)
(* a full block goes to the event thread, a short last one stays behind     *)
WebData(t, code) ==
    LET k == task[t]
        first == k.code = 0
        ok == (IF first THEN code ELSE k.code) = 206
        isLast == k.short /\ k.done + 1 = TaskBlocks
        block == ok /\ ~isLast
    IN  /\ WebEvent /\ web \in {"running", "closing"} /\ k.stage = "flight"
        /\ k.done < TaskBlocks /\ ~k.buf
        /\ first \/ code = k.code
        /\ task' = [task EXCEPT ![t] = [k EXCEPT !.code = code, !.done = IF block THEN k.done + 1 ELSE k.done,
                                                 !.buf = ok /\ isLast]]
        /\ eventQ' = eventQ \o (IF first /\ ok THEN <<Work("succeeded", t)>> ELSE <<>>)
                            \o (IF block THEN <<Work("write", t)>> ELSE <<>>)
        /\ UNCHANGED <<seed, web, owner>>

(* curl is done with a task, well or badly *)
WebDone(t, final) ==
    /\ web \in {"running", "closing"} /\ task[t].stage = "flight"
    /\ final \in {0, task[t].code}           \* no answer, or the one the data came with
    /\ IF final = 206 THEN (task[t].done > 0 \/ task[t].buf) /\ UNCHANGED webEvents ELSE WebEvent
    /\ task' = [task EXCEPT ![t] = [@ EXCEPT !.stage = "ended", !.final = final]]
    /\ Later("response", t)
    /\ UNCHANGED <<seed, web, owner>>

(* tr_webClose (WHEN_IDLE or NOW): the thread leaves when no task is queued;  *)
(* what curl had in hand is lost                                            *)
WebClose == /\ web = "running" /\ web' = "closing"
            /\ UNCHANGED <<seed, task, eventQ, owner, webEvents>>
WebLeaves(now) ==
    /\ web = "closing" /\ (now \/ \A t \in SeedTasks : task[t].stage # "queued")
    /\ web' = "gone"
    /\ task' = [t \in SeedTasks |-> IF task[t].stage \in {"queued", "flight"} THEN [task[t] EXCEPT !.stage = "lost"] ELSE task[t]]
    /\ UNCHANGED <<seed, eventQ, owner, webEvents>>

(***************************************************************************)
(* What the web thread queued, on the event thread                         *)
(***************************************************************************)
(* connection_succeeded *)
Succeeded(t) ==
    LET met == seed.active + 1 >= seed.challenge /\ seed.challenge > 0
    IN  /\ seed' = IF met THEN [seed EXCEPT !.active = @ + 1, !.failures = 0, !.tick = "none", !.challenge = 0]
                   ELSE [seed EXCEPT !.active = @ + 1]
        /\ task' = [task EXCEPT ![t].counted = TRUE]
(* write_block_func, fire_client_got_blocks *)
WriteBlock(t) ==
    /\ task' = IF owner = "gone" THEN task ELSE [task EXCEPT ![t].written = @ + 1]
    /\ UNCHANGED seed

(* web_response_func *)
Failed(k, s) ==
    IF k.done > 0 THEN [s EXCEPT !.idle = @ + 1]
    ELSE [s EXCEPT !.failures = IF IsFailing(s) THEN @ ELSE @ + 1,
                   !.tick = IF s.failures + 1 >= MaxFailures /\ @ = "none" THEN "counting" ELSE @]
Response(t) ==
    LET k == task[t]
        s == IF k.code = 206 THEN [seed EXCEPT !.active = @ - 1] ELSE seed
        complete == k.done + (IF k.buf THEN 1 ELSE 0) = TaskBlocks
        freed == [task EXCEPT ![t] = NoTask]
    IN  CASE owner = "gone" -> UNCHANGED <<seed, task>>       \* the task is never freed
          [] owner # "gone" /\ k.final # 206 -> seed' = Failed(k, s) /\ task' = freed
          [] owner # "gone" /\ k.final = 206 /\ ~complete ->
               seed' = s /\ task' = [task EXCEPT ![t] = Requested([k EXCEPT !.counted = FALSE])]
          [] owner # "gone" /\ k.final = 206 /\ complete -> OnIdle([s EXCEPT !.idle = @ + 1], freed)

EventThread ==
    LET e == Head(eventQ)
    IN  /\ eventQ # <<>>
        /\ eventQ' = Tail(eventQ)
        /\ CASE e.f = "succeeded" -> Succeeded(e.t)
             [] e.f = "write"     -> WriteBlock(e.t)
             [] e.f = "response"  -> Response(e.t)
        /\ UNCHANGED <<web, owner, webEvents>>

WebNext ==
    \/ SeedTimer \/ FreeSeed \/ TorrentStops \/ WebStarts \/ WebAdd \/ WebClose \/ EventThread
    \/ \E now \in BOOLEAN : WebLeaves(now)
    \/ \E t \in SeedTasks : \/ \E code \in {206, 404} : WebData(t, code)
                            \/ \E final \in {0, 206, 404} : WebDone(t, final)
WebSpec == WebInit /\ [][WebNext]_webVars

(***************************************************************************)
(* Properties                                                              *)
(***************************************************************************)
WebTypeOK ==
    /\ \A t \in SeedTasks : /\ task[t].stage \in Stages /\ task[t].code \in {0, 206, 404}
                            /\ task[t].done \in 0..TaskBlocks /\ task[t].written \in 0..TaskBlocks
    /\ seed.failures \in 0..MaxFailures /\ seed.idle \in Nat /\ seed.active \in Int
    /\ eventQ \in Seq([f : {"succeeded", "write", "response"}, t : SeedTasks])

(* A web seed never has more connections, busy and idle, than it may; the    *)
(* transfers it counts are those that have succeeded and have not been       *)
(* answered; blocks are written once each, before the task ends; and nothing *)
(* is left to do for a seed that was freed (on_idle, connection_succeeded,   *)
(* web_response_func, whatever fails and whichever thread is ahead)          *)
WebseedSound ==
    /\ Cardinality(InUseTasks) + seed.idle <= MaxConnections
    /\ owner # "gone" => seed.active = Cardinality({t \in SeedTasks : task[t].counted})
    /\ \A t \in SeedTasks : LET at == {i \in DOMAIN eventQ : eventQ[i] = Work("write", t)}
                            IN  owner # "gone" => task[t].written + Cardinality(at) = task[t].done
    /\ seed.freed => eventQ = <<>> /\ InUseTasks = {}
=============================================================================
