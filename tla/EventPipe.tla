----------------------------- MODULE EventPipe -----------------------------
(***************************************************************************)
(* trevent.c: how a thread has a function run in the libevent thread.      *)
(* tr_runInEventThread writes a command byte 'r' and then a tr_run_data    *)
(* to a pipe, two writes under one lock; readFromPipe reads a byte, then   *)
(* the data, and calls the function.  tr_eventClose sets `die' and closes  *)
(* the write end; the event thread reads the rest of the pipe without      *)
(* running it, meets end of file, leaves its loop and frees the handle.    *)
(*                                                                         *)
(* A call is one use of tr_runInEventThread.  The pipe holds command cells *)
(* and data cells, at most PipeCapacity of them; a write to a full pipe    *)
(* blocks, a write to a closed descriptor fails and is ignored.            *)
(***************************************************************************)
EXTENDS Naturals, Sequences

CONSTANTS Calls,        \* calls made by threads other than the event thread
          DirectCalls,  \* calls made by the event thread
          PipeCapacity, \* cells the kernel's pipe holds
          NoCall        \* nobody: the owner of a free lock, the call of a command

ASSUME CallsAssumption == Calls \cap DirectCalls = {}
ASSUME NoCallAssumption == NoCall \notin Calls \cup DirectCalls
ASSUME CapacityAssumption == PipeCapacity \in Nat \ {0}

VARIABLES cpc,       \* where each call is in tr_runInEventThread
          lock,      \* eh->lock: the call holding it, or NoCall
          pipe,      \* the unread cells, oldest first
          writeOpen, \* fds[1] is open
          die,       \* eh->die
          epc,       \* where the event thread is
          ran        \* the calls whose function ran, in order

pipeVars == <<cpc, lock, pipe, writeOpen, die, epc, ran>>

Command == [kind |-> "r", call |-> NoCall]
RunData(c) == [kind |-> "data", call |-> c]
Cells == {Command} \cup {RunData(c) : c \in Calls}

PipeInit ==
    /\ cpc = [c \in Calls |-> "new"]
    /\ lock = NoCall
    /\ pipe = <<>>
    /\ writeOpen = TRUE
    /\ die = FALSE
    /\ epc = "poll"
    /\ ran = <<>>

-----------------------------------------------------------------------------
(* The calling threads.                                                    *)

\* Mutant: the caller runs the function itself.
FindNoEvents_RunsHere(c) ==
    /\ cpc[c] = "new" /\ epc = "gone"
    /\ cpc' = [cpc EXCEPT ![c] = "ranHere"]
    /\ UNCHANGED <<lock, pipe, writeOpen, die, epc, ran>>

\* session->events is NULL once the event thread is gone: the call is lost
\* (the code asserts, and reads through NULL without assertions).
FindNoEvents(c) ==
    /\ cpc[c] = "new" /\ epc = "gone"
    /\ cpc' = [cpc EXCEPT ![c] = "lost"]
    /\ UNCHANGED <<lock, pipe, writeOpen, die, epc, ran>>

\* Mutant: the two writes are not made under the lock.
TakeLock_Unlocked(c) ==
    /\ cpc[c] = "new" /\ epc # "gone"
    /\ lock' = c
    /\ cpc' = [cpc EXCEPT ![c] = "locked"]
    /\ UNCHANGED <<pipe, writeOpen, die, epc, ran>>

TakeLock(c) ==
    /\ cpc[c] = "new" /\ epc # "gone"
    /\ lock = NoCall
    /\ lock' = c
    /\ cpc' = [cpc EXCEPT ![c] = "locked"]
    /\ UNCHANGED <<pipe, writeOpen, die, epc, ran>>

\* pipewrite blocks while the pipe is full.
CanWrite == writeOpen => Len(pipe) < PipeCapacity
Written(cell) == IF writeOpen THEN Append(pipe, cell) ELSE pipe

WriteCommand(c) ==
    /\ cpc[c] = "locked" /\ CanWrite
    /\ pipe' = Written(Command)
    /\ cpc' = [cpc EXCEPT ![c] = "half"]
    /\ UNCHANGED <<lock, writeOpen, die, epc, ran>>

\* Mutant: an early return keeps the lock.
WriteDataUnlock_KeepsLock(c) ==
    /\ cpc[c] = "half" /\ CanWrite
    /\ pipe' = Written(RunData(c))
    /\ cpc' = [cpc EXCEPT ![c] = "done"]
    /\ UNCHANGED <<lock, writeOpen, die, epc, ran>>

WriteDataUnlock(c) ==
    /\ cpc[c] = "half" /\ CanWrite
    /\ pipe' = Written(RunData(c))
    /\ lock' = NoCall
    /\ cpc' = [cpc EXCEPT ![c] = "done"]
    /\ UNCHANGED <<writeOpen, die, epc, ran>>

-----------------------------------------------------------------------------
(* tr_eventClose, called by the thread that closes the session.            *)

SetDie == /\ ~die
          /\ die' = TRUE
          /\ UNCHANGED <<cpc, lock, pipe, writeOpen, epc, ran>>

CloseWriteEnd == /\ die /\ writeOpen
                 /\ writeOpen' = FALSE
                 /\ UNCHANGED <<cpc, lock, pipe, die, epc, ran>>

-----------------------------------------------------------------------------
(* The event thread.                                                       *)

\* readFromPipe, first read: a command byte.  A data cell read here is the
\* "unhandled command type!" the code asserts against.
ReadCommand ==
    /\ epc = "poll" /\ pipe # <<>>
    /\ epc' = IF Head(pipe).kind = "r" THEN "reading" ELSE "badCommand"
    /\ pipe' = Tail(pipe)
    /\ UNCHANGED <<cpc, lock, writeOpen, die, ran>>

\* Mutant: die is not looked at again after the blocking read.
ReadDataRun_IgnoresDie ==
    /\ epc = "reading" /\ pipe # <<>>
    /\ pipe' = Tail(pipe)
    /\ ran' = Append(ran, Head(pipe).call)
    /\ epc' = "poll"
    /\ UNCHANGED <<cpc, lock, writeOpen, die>>

\* Second read: blocks for the data, then runs the function unless closing.
ReadDataRun ==
    /\ epc = "reading" /\ pipe # <<>>
    /\ pipe' = Tail(pipe)
    /\ ran' = IF die THEN ran ELSE Append(ran, Head(pipe).call)
    /\ epc' = "poll"
    /\ UNCHANGED <<cpc, lock, writeOpen, die>>

\* The write end was closed between a command and its data: ngot is 0.
ReadDataEof ==
    /\ epc = "reading" /\ pipe = <<>> /\ ~writeOpen
    /\ epc' = "poll"
    /\ UNCHANGED <<cpc, lock, pipe, writeOpen, die, ran>>

\* End of file removes the pipe's event, the last one of the base: dispatch
\* returns, the loop ends on die, the lock and the handle are freed.
EofExit ==
    /\ epc = "poll" /\ pipe = <<>> /\ ~writeOpen /\ die
    /\ epc' = "gone"
    /\ UNCHANGED <<cpc, lock, pipe, writeOpen, die, ran>>

\* A timer's callback in the event thread calls tr_runInEventThread.
RunDirect(c) ==
    /\ epc = "poll"
    /\ \A i \in DOMAIN ran : ran[i] # c
    /\ ran' = Append(ran, c)
    /\ UNCHANGED <<cpc, lock, pipe, writeOpen, die, epc>>

Caller(c) == TakeLock(c) \/ WriteCommand(c) \/ WriteDataUnlock(c) \/ FindNoEvents(c)
EventThread == ReadCommand \/ ReadDataRun \/ ReadDataEof \/ EofExit

PipeNext ==
    \/ \E c \in Calls : Caller(c)
    \/ \E c \in DirectCalls : RunDirect(c)
    \/ EventThread
    \/ SetDie
    \/ CloseWriteEnd

PipeSpec == PipeInit /\ [][PipeNext]_pipeVars

\* The event loop polls the pipe for ever, and a thread that waits for a mutex
\* or for room in the pipe gets it when others keep giving it up: strong
\* fairness for those two, as a mutex and a blocking write give.
FairPipeSpec ==
    /\ PipeSpec
    /\ WF_pipeVars(EventThread)
    /\ \A c \in Calls : SF_pipeVars(Caller(c))

-----------------------------------------------------------------------------
\* Types; what was run are calls, never the commands or the cells of the pipe.
PipeTypeOK ==
    /\ cpc \in [Calls -> {"new", "locked", "half", "done", "lost"}]
    /\ lock \in Calls \cup {NoCall}
    /\ pipe \in Seq(Cells)
    /\ writeOpen \in BOOLEAN
    /\ die \in BOOLEAN
    /\ epc \in {"poll", "reading", "badCommand", "gone"}
    /\ ran \in Seq(Calls \cup DirectCalls)

\* Commands and their data alternate in the pipe, whatever threads write: the
\* reader never takes data for a command (assert (0 && "unhandled command
\* type!")) nor runs a command byte as data.
CommandsFramed ==
    /\ epc # "badCommand"
    /\ \A i \in 1..Len(pipe) :
          LET n == IF epc = "reading" THEN i + 1 ELSE i
          IN  (n % 2 = 1) <=> (pipe[i] = Command)

\* A call made from another thread runs, unless the session closes: no caller
\* waits for ever for the lock, for room in the pipe or for the event thread.
EveryCallRuns ==
    \A c \in Calls :
        (cpc[c] = "new") ~> (die \/ \E i \in DOMAIN ran : ran[i] = c)

-----------------------------------------------------------------------------
(* The calls whose data is in the pipe are the ones that wait.             *)
Odd == IF epc = "reading" THEN 1 ELSE 0
Waiting == [i \in 1..((Len(pipe) + Odd) \div 2) |-> pipe[2 * i - Odd].call]

EQ == INSTANCE EventQueue WITH waiting <- Waiting, closed <- die

\* trevent.c gives other threads the ordered, at-most-once queue of EventQueue.
ImplementsEventQueue == EQ!Spec
=============================================================================
