----------------------------- MODULE NodeBridge -----------------------------
(***************************************************************************)
(* The node.js binding of transNode.cpp: the script's thread hands every   *)
(* API call to a thread of its own (pthread_create of a xxxImpl function), *)
(* and the worker hands its Baton back through queue_msg and one           *)
(* uv_async_t, whose callback after() runs on the script's thread.         *)
(*                                                                         *)
(* One request is one call of open, add, list, start, stop, remove or      *)
(* mp3ToTorrent.  What a call other than open does with the session is     *)
(* the subject of other modules; here it matters only that it dereferences *)
(* transSession and the tr_session inside it.                              *)
(*                                                                         *)
(* libuv is external: an async handle keeps one pending flag, so sends     *)
(* that arrive before the callback runs coalesce into one call of it, and  *)
(* initialising a handle that is already in use may drop a pending send.   *)
(***************************************************************************)
EXTENDS Naturals, Sequences, FiniteSets

CONSTANTS Requests,        \* the API calls the script makes, each once
          Opens,           \* the calls that are open()
          MaxOutstanding,  \* calls the script leaves unanswered at a time
          OpensAlone,      \* the script calls open() only when nothing is outstanding
          LoadOutcomes,    \* what tr_sessionLoadSettings may return
          NULL             \* the null pointer

ASSUME OpensAssumption == Opens \subseteq Requests
ASSUME FiniteAssumption == IsFiniteSet(Requests)
ASSUME NullAssumption == NULL \notin Requests
ASSUME OutstandingAssumption == MaxOutstanding \in Nat
ASSUME AloneAssumption == OpensAlone \in BOOLEAN
ASSUME OutcomesAssumption == LoadOutcomes \subseteq BOOLEAN

NO_ERROR == 0
SESSION_ALLREADY_CREATED == 10

VARIABLES
    pc,            \* where each request's worker thread is
    queue_msg,     \* the batons handed back, oldest first
    pending,       \* the async handle has a send it has not called back for
    transSession,  \* the open() whose TransSession the global points to
    sessionUp,     \* the open()s whose TransSession has its tr_session
    initialised,   \* the workers that ran tr_sessionInit
    errorStatus,   \* the errorStatus in each request's baton
    delivered,     \* the callbacks made so far, in order
    crashed        \* a worker went through a NULL pointer

vars == <<pc, queue_msg, pending, transSession, sessionUp, initialised,
          errorStatus, delivered, crashed>>

PCs == {"idle", "working", "creating", "starting", "finished", "pushed", "sent"}

Init == /\ pc = [r \in Requests |-> "idle"]
        /\ queue_msg = <<>>
        /\ pending = FALSE
        /\ transSession = NULL
        /\ sessionUp = {}
        /\ initialised = {}
        /\ errorStatus = [r \in Requests |-> NO_ERROR]
        /\ delivered = <<>>
        /\ crashed = FALSE

Answered == {delivered[i] : i \in DOMAIN delivered}
Outstanding == {r \in Requests : pc[r] # "idle"} \ Answered

\* The script uses the session only after an open() told it there is one, and
\* leaves at most MaxOutstanding calls unanswered.
ScriptMayCall(r) ==
    /\ Cardinality(Outstanding) < MaxOutstanding
    /\ IF r \in Opens
         THEN OpensAlone => Outstanding = {}
         ELSE \E o \in Opens \cap Answered : errorStatus[o] = NO_ERROR

(***************************************************************************)
(* The script's thread calls into the addon.  isSuscribed is never set, so *)
(* every call runs uv_async_init on the one handle again.                  *)
(***************************************************************************)
Call(r) ==
    /\ ~crashed
    /\ pc[r] = "idle"
    /\ ScriptMayCall(r)
    /\ pending' \in {pending, FALSE}
    /\ pc' = [pc EXCEPT ![r] = "working"]
    /\ UNCHANGED <<queue_msg, transSession, sessionUp, initialised, errorStatus,
                   delivered, crashed>>

\* Mutant: an error the caller cannot tell from TAGED_FILE_NOT_FOUND.
OpenCheck_WrongError(r) ==
    /\ pc[r] = "working" /\ r \in Opens
    /\ errorStatus' = [errorStatus EXCEPT ![r] = 1]
    /\ pc' = [pc EXCEPT ![r] = "finished"]
    /\ UNCHANGED <<queue_msg, pending, transSession, sessionUp, initialised,
                   delivered, crashed>>

\* Mutant: open() does not test transSession.
OpenCheck_NoTest(r) ==
    /\ ~crashed /\ pc[r] = "working" /\ r \in Opens
    /\ pc' = [pc EXCEPT ![r] = "creating"]
    /\ UNCHANGED <<queue_msg, pending, transSession, sessionUp, initialised,
                   errorStatus, delivered, crashed>>

\* sessionImpl looks at the global without holding any lock ...
OpenCheck(r) ==
    /\ ~crashed
    /\ r \in Opens
    /\ pc[r] = "working"
    /\ IF transSession # NULL
         THEN /\ errorStatus' = [errorStatus EXCEPT ![r] = SESSION_ALLREADY_CREATED]
              /\ pc' = [pc EXCEPT ![r] = "finished"]
         ELSE /\ pc' = [pc EXCEPT ![r] = "creating"]
              /\ UNCHANGED errorStatus
    /\ UNCHANGED <<queue_msg, pending, transSession, sessionUp, initialised,
                   delivered, crashed>>

\* ... and sets it before the TransSession has a tr_session.
OpenNew(r) ==
    /\ ~crashed
    /\ pc[r] = "creating"
    /\ transSession' = r
    /\ pc' = [pc EXCEPT ![r] = "starting"]
    /\ UNCHANGED <<queue_msg, pending, sessionUp, initialised, errorStatus,
                   delivered, crashed>>

\* Mutant: start() fills in the static mySession and not this->session.
OpenStart_StaticOnly(r) ==
    /\ ~crashed /\ pc[r] = "starting"
    /\ initialised' = initialised \cup {r}
    /\ pc' = [pc EXCEPT ![r] = "finished"]
    /\ UNCHANGED <<queue_msg, pending, transSession, sessionUp, errorStatus,
                   delivered, crashed>>

\* TransSession::start, called through the global.  It gives up without a word
\* in errorStatus when settings.json cannot be loaded.
OpenStart(r) ==
    /\ ~crashed
    /\ pc[r] = "starting"
    /\ \/ /\ TRUE \in LoadOutcomes
          /\ sessionUp' = sessionUp \cup {transSession}
          /\ initialised' = initialised \cup {r}
       \/ /\ FALSE \in LoadOutcomes
          /\ UNCHANGED <<sessionUp, initialised>>
    /\ pc' = [pc EXCEPT ![r] = "finished"]
    /\ UNCHANGED <<queue_msg, pending, transSession, errorStatus, delivered, crashed>>

\* addImpl, listImpl, startImpl, stopImpl and removeImpl go through
\* transSession to its session member, neither of which they test.
Use(r) ==
    /\ ~crashed
    /\ r \notin Opens
    /\ pc[r] = "working"
    /\ crashed' = (transSession \notin sessionUp)
    /\ pc' = [pc EXCEPT ![r] = "finished"]
    /\ UNCHANGED <<queue_msg, pending, transSession, sessionUp, initialised,
                   errorStatus, delivered>>

\* Mutant: wakes the script without queueing the baton.
Push_NotQueued(r) ==
    /\ ~crashed /\ pc[r] = "finished"
    /\ pc' = [pc EXCEPT ![r] = "pushed"]
    /\ UNCHANGED <<queue_msg, pending, transSession, sessionUp, initialised,
                   errorStatus, delivered, crashed>>

\* The end of every xxxImpl: queue the baton under queue_mutex, ...
Push(r) ==
    /\ ~crashed
    /\ pc[r] = "finished"
    /\ queue_msg' = Append(queue_msg, r)
    /\ pc' = [pc EXCEPT ![r] = "pushed"]
    /\ UNCHANGED <<pending, transSession, sessionUp, initialised, errorStatus,
                   delivered, crashed>>

\* Mutant: the uv_async_send is forgotten.
Send_Silent(r) ==
    /\ ~crashed /\ pc[r] = "pushed"
    /\ pc' = [pc EXCEPT ![r] = "sent"]
    /\ UNCHANGED <<queue_msg, pending, transSession, sessionUp, initialised,
                   errorStatus, delivered, crashed>>

\* ... then wake the script's thread, outside the mutex.
Send(r) ==
    /\ ~crashed
    /\ pc[r] = "pushed"
    /\ pending' = TRUE
    /\ pc' = [pc EXCEPT ![r] = "sent"]
    /\ UNCHANGED <<queue_msg, transSession, sessionUp, initialised, errorStatus,
                   delivered, crashed>>

\* Mutant: front() without pop().
after_KeepsBaton ==
    /\ ~crashed /\ pending /\ queue_msg # <<>>
    /\ pending' = FALSE
    /\ delivered' = Append(delivered, Head(queue_msg))
    /\ UNCHANGED <<pc, queue_msg, transSession, sessionUp, initialised, errorStatus,
                   crashed>>

(***************************************************************************)
(* after(): libuv clears the flag and calls back; one baton is popped and  *)
(* its afterCallBack calls the script.  The queue is not tested for        *)
(* emptiness: Head(<<>>) here is front() of an empty deque there.          *)
(***************************************************************************)
after ==
    /\ ~crashed
    /\ pending
    /\ pending' = FALSE
    /\ queue_msg' = Tail(queue_msg)
    /\ delivered' = Append(delivered, Head(queue_msg))
    /\ UNCHANGED <<pc, transSession, sessionUp, initialised, errorStatus, crashed>>

Worker(r) == \/ OpenCheck(r)
             \/ OpenNew(r)
             \/ OpenStart(r)
             \/ Use(r)
             \/ Push(r)
             \/ Send(r)

Next == \/ \E r \in Requests : Call(r) \/ Worker(r)
        \/ after

Spec == Init /\ [][Next]_vars

\* Threads are scheduled and the event loop polls; the script owes nothing.
FairSpec == /\ Spec
            /\ \A r \in Requests : WF_vars(Worker(r))
            /\ WF_vars(after)

-----------------------------------------------------------------------------
\* Types; requests are queued by reference, each for one of the worker threads.
TypeOK ==
    /\ pc \in [Requests -> PCs]
    /\ queue_msg \in Seq(Requests)
    /\ pending \in BOOLEAN
    /\ transSession \in Opens \cup {NULL}
    /\ sessionUp \subseteq Opens \cup {NULL}
    /\ initialised \subseteq Requests
    /\ errorStatus \in [Requests -> {NO_ERROR, SESSION_ALLREADY_CREATED}]
    /\ delivered \in Seq(Requests)
    /\ crashed \in BOOLEAN

\* after() calls front() and pop() without testing the queue.  A wakeup never
\* finds it empty, even when an earlier wakeup already took the baton that the
\* worker now sending had pushed.
WakeupFindsBaton == pending => queue_msg # <<>>

\* Each worker pushes its baton once and after() pops what it delivers: no
\* callback is made twice, none for a baton that is still queued.
EachBatonOnce ==
    \A i, j \in DOMAIN (delivered \o queue_msg) :
        i # j => (delivered \o queue_msg)[i] # (delivered \o queue_msg)[j]

\* A script whose open() calls wait their turn and whose other calls wait for
\* a successful answer meets a NULL transSession or a NULL session member only
\* when settings.json could not be loaded (open() says NO_ERROR all the same):
\* never between the assignment of the global and the end of start().
NullOnlyWithoutSettings == crashed => initialised = {}

\* SESSION_ALLREADY_CREATED: a second open() is refused while one session
\* exists, so the process never runs two.
AtMostOneSession == Cardinality(initialised) <= 1

\* README.md: every call is answered through its callback.
EveryCallIsAnswered ==
    \A r \in Requests : (pc[r] = "working") ~> (r \in Answered)

\* What is left of it: a call that is alone and whose worker has yet to send is
\* answered, if the script makes no other call before.
LoneCallIsAnswered ==
    \A r \in Requests :
        (Outstanding = {r} /\ pc[r] # "sent")
            ~> (crashed \/ r \in Answered \/ Outstanding # {r})
=============================================================================
