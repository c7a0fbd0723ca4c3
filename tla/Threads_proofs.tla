-------------------------- MODULE Threads_proofs --------------------------
(***************************************************************************)
(* The proofs about the places where a call crosses threads: from node's   *)
(* loop to a worker and back, through the pipe to the event thread, and    *)
(* between these and the verify thread.                                    *)
(***************************************************************************)
EXTENDS NodeBridge, EventPipe, TorrentLife, FiniteSetTheorems, TLAPS

-----------------------------------------------------------------------------
(***************************************************************************)
(* Proofs about NodeBridge, for every set of requests: after() never pops  *)
(* an empty queue, and no baton is delivered twice.                        *)
(*                                                                         *)
(* WakeupFindsBaton is not inductive: it needs the count of wakeups.  Every*)
(* callback made has used up the send of one worker, so while a wakeup is  *)
(* pending fewer batons were delivered than were sent, and a baton is      *)
(* pushed before it is sent.                                               *)
(***************************************************************************)
Pushed == {r \in Requests : pc[r] \in {"pushed", "sent"}}
Sent == {r \in Requests : pc[r] = "sent"}

\* Every baton pushed is queued or was delivered, and is in one place only.
PushedOnce ==
    /\ Cardinality(Pushed) = Len(delivered) + Len(queue_msg)
    /\ \A i \in 1..Len(delivered) : delivered[i] \in Pushed
    /\ \A i \in 1..Len(queue_msg) : queue_msg[i] \in Pushed
    /\ \A i, j \in 1..Len(delivered) : i # j => delivered[i] # delivered[j]
    /\ \A i, j \in 1..Len(queue_msg) : i # j => queue_msg[i] # queue_msg[j]
    /\ \A i \in 1..Len(delivered), j \in 1..Len(queue_msg) :
          delivered[i] # queue_msg[j]

\* Every wakeup used or pending is the send of a worker of its own.
WakeupsCounted ==
    Len(delivered) + (IF pending THEN 1 ELSE 0) <= Cardinality(Sent)

\* Only open() builds a TransSession.
OnlyOpensCreate == \A r \in Requests : pc[r] = "creating" => r \in Opens

IInv == TypeOK /\ OnlyOpensCreate /\ PushedOnce /\ WakeupsCounted

\* Sets of requests have cardinalities, and what is sent was pushed.
LEMMA SentWithinPushed ==
    ASSUME TypeOK
    PROVE  /\ IsFiniteSet(Pushed) /\ Cardinality(Pushed) \in Nat
           /\ IsFiniteSet(Sent) /\ Cardinality(Sent) \in Nat
           /\ Cardinality(Sent) <= Cardinality(Pushed)
<1>1. Pushed \subseteq Requests /\ Sent \subseteq Pushed
  BY DEF Pushed, Sent
<1>2. IsFiniteSet(Pushed)
  BY <1>1, FiniteAssumption, FS_Subset
<1>3. IsFiniteSet(Sent) /\ Cardinality(Sent) <= Cardinality(Pushed)
  BY <1>1, <1>2, FS_Subset
<1> QED
  BY <1>2, <1>3, FS_CardinalityType

\* The counts alone put a baton in the queue whenever a wakeup is pending.
LEMMA CountsImplyBaton == IInv => WakeupFindsBaton
<1> SUFFICES ASSUME IInv, pending
             PROVE  queue_msg # <<>>
  BY DEF WakeupFindsBaton
<1>1. Len(delivered) \in Nat /\ Len(queue_msg) \in Nat
  BY DEF IInv, TypeOK
<1>2. Len(delivered) + 1 <= Cardinality(Pushed)
  BY <1>1, SentWithinPushed DEF IInv, WakeupsCounted
<1>3. Len(queue_msg) # 0
  BY <1>1, <1>2 DEF IInv, PushedOnce
<1> QED
  BY <1>3

\* Requests are in no queue at first.
LEMMA InitIInv == Init => IInv
<1> SUFFICES ASSUME Init PROVE IInv
  OBVIOUS
<1>1. TypeOK
  <2>1. pc \in [Requests -> PCs]
    BY DEF Init, PCs
  <2>2. errorStatus \in [Requests -> {NO_ERROR, SESSION_ALLREADY_CREATED}]
    BY DEF Init
  <2>3. queue_msg \in Seq(Requests) /\ delivered \in Seq(Requests)
    BY DEF Init
  <2>4. pending \in BOOLEAN /\ crashed \in BOOLEAN
    BY DEF Init
  <2> QED
    BY <2>1, <2>2, <2>3, <2>4 DEF Init, TypeOK
<1>2. Pushed = {} /\ Sent = {}
  BY DEF Init, Pushed, Sent
<1>3. Cardinality(Pushed) = 0 /\ Cardinality(Sent) = 0
  BY <1>2, FS_EmptySet
<1>4. Len(delivered) = 0 /\ Len(queue_msg) = 0 /\ ~pending
  BY DEF Init
<1>5. OnlyOpensCreate
  BY DEF Init, OnlyOpensCreate
<1>6. PushedOnce
  BY <1>3, <1>4 DEF PushedOnce
<1>7. WakeupsCounted
  BY <1>3, <1>4 DEF WakeupsCounted
<1> QED
  BY <1>1, <1>5, <1>6, <1>7 DEF IInv

\* Types are kept by every step; after() needs a baton to pop.
LEMMA TypeStep == IInv /\ [Next]_vars => TypeOK' /\ OnlyOpensCreate'
<1> SUFFICES ASSUME IInv, [Next]_vars PROVE TypeOK' /\ OnlyOpensCreate'
  OBVIOUS
<1> USE DEF IInv, TypeOK, OnlyOpensCreate, PCs
<1>1. ASSUME NEW r \in Requests, Call(r) PROVE TypeOK' /\ OnlyOpensCreate'
  BY <1>1 DEF Call
<1>2. ASSUME NEW r \in Requests, OpenCheck(r) PROVE TypeOK' /\ OnlyOpensCreate'
  BY <1>2 DEF OpenCheck
<1>3. ASSUME NEW r \in Requests, OpenNew(r) PROVE TypeOK' /\ OnlyOpensCreate'
  BY <1>3 DEF OpenNew
<1>4. ASSUME NEW r \in Requests, OpenStart(r) PROVE TypeOK' /\ OnlyOpensCreate'
  BY <1>4 DEF OpenStart
<1>5. ASSUME NEW r \in Requests, Use(r) PROVE TypeOK' /\ OnlyOpensCreate'
  BY <1>5 DEF Use
<1>6. ASSUME NEW r \in Requests, Push(r) PROVE TypeOK' /\ OnlyOpensCreate'
  BY <1>6 DEF Push
<1>7. ASSUME NEW r \in Requests, Send(r) PROVE TypeOK' /\ OnlyOpensCreate'
  BY <1>7 DEF Send
<1>8. CASE after
  <2>1. queue_msg # <<>>
    BY <1>8, CountsImplyBaton DEF after, WakeupFindsBaton
  <2>2. Head(queue_msg) \in Requests /\ Tail(queue_msg) \in Seq(Requests)
    BY <2>1
  <2>3. delivered' \in Seq(Requests)
    BY <1>8, <2>2 DEF after
  <2>4. queue_msg' \in Seq(Requests) /\ pending' \in BOOLEAN
    BY <1>8, <2>2 DEF after
  <2> QED
    BY <1>8, <2>3, <2>4 DEF after
<1>9. CASE UNCHANGED vars
  BY <1>9 DEF vars
<1> QED
  BY <1>1, <1>2, <1>3, <1>4, <1>5, <1>6, <1>7, <1>8, <1>9 DEF Next, Worker

\* Only Push and Send change who has pushed and who has sent.
LEMMA CountedStep ==
    IInv /\ [Next]_vars => PushedOnce' /\ WakeupsCounted'
<1> SUFFICES ASSUME IInv, [Next]_vars PROVE PushedOnce' /\ WakeupsCounted'
  OBVIOUS
<1>0. /\ Len(delivered) \in Nat /\ Len(queue_msg) \in Nat
      /\ IsFiniteSet(Pushed) /\ Cardinality(Pushed) \in Nat
      /\ IsFiniteSet(Sent) /\ Cardinality(Sent) \in Nat
      /\ pc \in [Requests -> PCs] /\ pending \in BOOLEAN
  BY SentWithinPushed DEF IInv, TypeOK
<1>1. ASSUME Pushed' = Pushed, Sent' = Sent, pending' \in {pending, FALSE},
             UNCHANGED <<queue_msg, delivered>>
      PROVE  PushedOnce' /\ WakeupsCounted'
  <2>1. PushedOnce'
    BY <1>1 DEF IInv, PushedOnce
  <2>2. WakeupsCounted'
    <3>1. Len(delivered') = Len(delivered) /\ Cardinality(Sent') = Cardinality(Sent)
      BY <1>1
    <3>2. Len(delivered) <= Cardinality(Sent)
      BY <1>0 DEF IInv, WakeupsCounted
    <3>3. CASE pending' = pending
      BY <3>1, <3>3 DEF IInv, WakeupsCounted
    <3>4. CASE pending' = FALSE
      BY <1>0, <3>1, <3>2, <3>4 DEF WakeupsCounted
    <3> QED
      BY <1>1, <3>3, <3>4
  <2> QED
    BY <2>1, <2>2
<1>2. ASSUME NEW r \in Requests, Call(r) PROVE PushedOnce' /\ WakeupsCounted'
  <2>1. Pushed' = Pushed /\ Sent' = Sent
    BY <1>0, <1>2 DEF Call, Pushed, Sent, PCs
  <2> QED
    BY <1>1, <1>2, <2>1 DEF Call
<1>3. ASSUME NEW r \in Requests, OpenCheck(r) \/ OpenNew(r) \/ OpenStart(r) \/ Use(r)
      PROVE  PushedOnce' /\ WakeupsCounted'
  <2>1. Pushed' = Pushed /\ Sent' = Sent
    BY <1>0, <1>3 DEF OpenCheck, OpenNew, OpenStart, Use, Pushed, Sent, PCs
  <2> QED
    BY <1>1, <1>3, <2>1 DEF OpenCheck, OpenNew, OpenStart, Use
<1>4. ASSUME NEW r \in Requests, Push(r) PROVE PushedOnce' /\ WakeupsCounted'
  <2>1. r \notin Pushed /\ Pushed' = Pushed \cup {r} /\ Sent' = Sent
    BY <1>0, <1>4 DEF Push, Pushed, Sent, PCs
  <2>2. Cardinality(Pushed') = Cardinality(Pushed) + 1
    BY <1>0, <2>1, FS_AddElement
  <2>3. /\ Len(queue_msg') = Len(queue_msg) + 1
        /\ queue_msg'[Len(queue_msg) + 1] = r
        /\ \A i \in 1..Len(queue_msg) : queue_msg'[i] = queue_msg[i]
    BY <1>4 DEF Push, IInv, TypeOK
  <2>4. delivered' = delivered /\ pending' = pending
    BY <1>4 DEF Push
  <2>5. \A i \in 1..Len(queue_msg') :
           i \in 1..Len(queue_msg) \/ i = Len(queue_msg) + 1
    BY <1>0, <2>3
  <2>6. Cardinality(Pushed') = Len(delivered') + Len(queue_msg')
    BY <1>0, <2>2, <2>3, <2>4 DEF IInv, PushedOnce
  <2>7. PushedOnce'
    BY <2>1, <2>3, <2>4, <2>5, <2>6 DEF IInv, PushedOnce
  <2>8. WakeupsCounted'
    BY <2>1, <2>4 DEF IInv, WakeupsCounted
  <2> QED
    BY <2>7, <2>8
<1>5. ASSUME NEW r \in Requests, Send(r) PROVE PushedOnce' /\ WakeupsCounted'
  <2>1. r \notin Sent /\ Sent' = Sent \cup {r} /\ Pushed' = Pushed
    BY <1>0, <1>5 DEF Send, Pushed, Sent, PCs
  <2>2. Cardinality(Sent') = Cardinality(Sent) + 1
    BY <1>0, <2>1, FS_AddElement
  <2>3. delivered' = delivered /\ queue_msg' = queue_msg /\ pending' = TRUE
    BY <1>5 DEF Send
  <2>4. PushedOnce'
    BY <2>1, <2>3 DEF IInv, PushedOnce
  <2>5. WakeupsCounted'
    BY <1>0, <2>2, <2>3 DEF IInv, WakeupsCounted
  <2> QED
    BY <2>4, <2>5
<1>6. CASE after
  <2>1. queue_msg # <<>> /\ queue_msg \in Seq(Requests) /\ delivered \in Seq(Requests)
    BY <1>6, CountsImplyBaton DEF after, WakeupFindsBaton, IInv, TypeOK
  <2>2. /\ Len(queue_msg') = Len(queue_msg) - 1
        /\ \A i \in 1..Len(queue_msg') :
              queue_msg'[i] = queue_msg[i + 1] /\ i + 1 \in 1..Len(queue_msg)
    BY <1>6, <2>1 DEF after
  <2>3. /\ Len(delivered') = Len(delivered) + 1
        /\ delivered'[Len(delivered) + 1] = queue_msg[1]
        /\ \A i \in 1..Len(delivered) : delivered'[i] = delivered[i]
        /\ 1 \in 1..Len(queue_msg)
    BY <1>6, <2>1 DEF after
  <2>4. \A i \in 1..Len(delivered') :
           i \in 1..Len(delivered) \/ i = Len(delivered) + 1
    BY <1>0, <2>3
  <2>5. Pushed' = Pushed /\ Sent' = Sent /\ pending /\ ~pending'
    BY <1>6 DEF after, Pushed, Sent
  <2>6. Cardinality(Pushed') = Len(delivered') + Len(queue_msg')
    BY <1>0, <2>2, <2>3, <2>5 DEF IInv, PushedOnce
  <2>7. \A i \in 1..Len(queue_msg') : i + 1 # 1
    BY <1>0, <2>2
  <2>8. PushedOnce'
    <3>1. \A i \in 1..Len(delivered') : delivered'[i] \in Pushed'
      BY <2>3, <2>4, <2>5 DEF IInv, PushedOnce
    <3>2. \A i \in 1..Len(queue_msg') : queue_msg'[i] \in Pushed'
      BY <2>2, <2>5 DEF IInv, PushedOnce
    <3>3. \A i, j \in 1..Len(delivered') : i # j => delivered'[i] # delivered'[j]
      BY <2>3, <2>4 DEF IInv, PushedOnce
    <3>4. \A i, j \in 1..Len(queue_msg') : i # j => i + 1 # j + 1
      BY <1>0, <2>2
    <3>5. \A i, j \in 1..Len(queue_msg') : i # j => queue_msg'[i] # queue_msg'[j]
      BY <2>2, <3>4, SMTT(40) DEF IInv, PushedOnce
    <3>6. \A i \in 1..Len(delivered'), j \in 1..Len(queue_msg') :
             delivered'[i] # queue_msg'[j]
      BY <2>2, <2>3, <2>4, <2>7 DEF IInv, PushedOnce
    <3> QED
      BY <2>6, <3>1, <3>2, <3>3, <3>5, <3>6 DEF PushedOnce
  <2>9. WakeupsCounted'
    BY <1>0, <2>3, <2>5 DEF IInv, WakeupsCounted
  <2> QED
    BY <2>8, <2>9
<1>7. CASE UNCHANGED vars
  <2>1. Pushed' = Pushed /\ Sent' = Sent
    BY <1>7 DEF vars, Pushed, Sent
  <2> QED
    BY <1>1, <1>7, <2>1 DEF vars
<1> QED
  BY <1>2, <1>3, <1>4, <1>5, <1>6, <1>7 DEF Next, Worker

\* The counted invariant is inductive.
THEOREM Inductive == Spec => []IInv
<1>1. IInv /\ [Next]_vars => IInv'
  BY TypeStep, CountedStep DEF IInv
<1> QED
  BY <1>1, InitIInv, PTL DEF Spec

\* after() (transNode.cpp) never calls front() on an empty queue_msg, whatever
\* the number of workers and however their sends coalesce.
THEOREM AfterFindsBaton == Spec => []WakeupFindsBaton
BY Inductive, CountsImplyBaton, PTL

\* No baton is called back and deleted twice.
THEOREM BatonsOnce == Spec => []EachBatonOnce
<1>1. IInv => EachBatonOnce
  <2> SUFFICES ASSUME IInv,
                      NEW i \in DOMAIN (delivered \o queue_msg),
                      NEW j \in DOMAIN (delivered \o queue_msg), i # j
               PROVE  (delivered \o queue_msg)[i] # (delivered \o queue_msg)[j]
    BY DEF EachBatonOnce
  <2>1. delivered \in Seq(Requests) /\ queue_msg \in Seq(Requests)
    BY DEF IInv, TypeOK
  <2>2. ASSUME NEW k \in DOMAIN (delivered \o queue_msg)
        PROVE  \/ /\ k \in 1..Len(delivered)
                  /\ (delivered \o queue_msg)[k] = delivered[k]
               \/ /\ k - Len(delivered) \in 1..Len(queue_msg)
                  /\ (delivered \o queue_msg)[k] = queue_msg[k - Len(delivered)]
    BY <2>1
  <2>3. i \in Int /\ j \in Int /\ Len(delivered) \in Nat
    BY <2>1
  <2>4. i - Len(delivered) # j - Len(delivered)
    BY <2>3
  <2> QED
    BY <2>2, <2>4 DEF IInv, PushedOnce
<1> QED
  BY <1>1, Inductive, PTL

-----------------------------------------------------------------------------
(***************************************************************************)
(* For any number of calls and any pipe capacity: commands and data stay   *)
(* framed in the pipe, and EventPipe implements EventQueue.                *)
(*                                                                         *)
(* Framing needs the lock: the pipe holds an odd number of unread cells    *)
(* exactly while one caller, the lock's holder, is between its two writes. *)
(* After the write end closes nothing more is written, so a command may be *)
(* left without its data at the very end only.                             *)
(***************************************************************************)
\* Who is inside the lock's critical section.
LockHeld ==
    \A c \in Calls : cpc[c] \in {"locked", "half"} <=> lock = c

\* A cell is missing exactly while the lock's holder is half way.
Parity ==
    writeOpen =>
        ((Len(pipe) + Odd) % 2 = 1 <=> \E c \in Calls : cpc[c] = "half")

\* What is in the pipe or has run was written to the end by its caller.
WrittenAreDone ==
    /\ \A i \in 1..Len(pipe) :
          pipe[i] # Command => pipe[i].call \in Calls /\ cpc[pipe[i].call] = "done"
    /\ \A i \in 1..Len(ran) : ran[i] \in Calls => cpc[ran[i]] = "done"

PipeInv ==
    /\ PipeTypeOK
    /\ LockHeld
    /\ Parity
    /\ CommandsFramed
    /\ WrittenAreDone

\* A command cell is no data cell: NoCall is no call.
LEMMA CellKinds ==
    /\ Command.kind = "r" /\ Command.call = NoCall /\ Command \in Cells
    /\ \A c \in Calls : /\ RunData(c).kind = "data" /\ RunData(c).call = c
                        /\ RunData(c) # Command /\ RunData(c) \in Cells
    /\ \A x \in Cells : x.kind = "r" <=> x = Command
    /\ \A x \in Cells : x # Command => x.call \in Calls /\ x = RunData(x.call)
<1>1. Command.kind = "r" /\ Command.call = NoCall /\ Command \in Cells
  BY DEF Command, Cells
<1>2. \A c \in Calls : RunData(c).kind = "data" /\ RunData(c).call = c
  BY DEF RunData
<1>3. \A c \in Calls : RunData(c) # Command /\ RunData(c) \in Cells
  BY <1>1, <1>2 DEF Cells
<1>4. \A x \in Cells : x = Command \/ \E c \in Calls : x = RunData(c)
  BY DEF Cells
<1> QED
  BY <1>1, <1>2, <1>3, <1>4

LEMMA InitPipeInv == PipeInit => PipeInv
<1> SUFFICES ASSUME PipeInit PROVE PipeInv
  OBVIOUS
<1>1. PipeTypeOK
  <2>1. cpc \in [Calls -> {"new", "locked", "half", "done", "lost"}]
    BY DEF PipeInit
  <2>2. pipe \in Seq(Cells) /\ ran \in Seq(Calls \cup DirectCalls)
    BY DEF PipeInit
  <2> QED
    BY <2>1, <2>2 DEF PipeInit, PipeTypeOK
<1>2. LockHeld
  BY NoCallAssumption DEF PipeInit, LockHeld
<1>3. Parity
  BY DEF PipeInit, Parity, Odd
<1>4. CommandsFramed
  BY DEF PipeInit, CommandsFramed
<1>5. WrittenAreDone
  BY DEF PipeInit, WrittenAreDone
<1> QED
  BY <1>1, <1>2, <1>3, <1>4, <1>5 DEF PipeInv

\* Where the unread cells are after the head was read.
LEMMA TailCells ==
    ASSUME PipeTypeOK, pipe # <<>>
    PROVE  /\ Head(pipe) = pipe[1] /\ pipe[1] \in Cells
           /\ Tail(pipe) \in Seq(Cells) /\ Len(Tail(pipe)) = Len(pipe) - 1
           /\ Len(pipe) \in Nat \ {0}
           /\ \A i \in 1..(Len(pipe) - 1) : Tail(pipe)[i] = pipe[i + 1]
BY DEF PipeTypeOK

\* Where they are after a cell was written.
LEMMA AppendCells ==
    ASSUME PipeTypeOK, NEW x \in Cells
    PROVE  /\ Append(pipe, x) \in Seq(Cells) /\ Len(Append(pipe, x)) = Len(pipe) + 1
           /\ Append(pipe, x)[Len(pipe) + 1] = x
           /\ Len(pipe) \in Nat
           /\ \A i \in 1..Len(pipe) : Append(pipe, x)[i] = pipe[i]
           /\ \A i \in 1..(Len(pipe) + 1) : i \in 1..Len(pipe) \/ i = Len(pipe) + 1
BY DEF PipeTypeOK

\* In a framed pipe the reader finds a command when it polls and data when it
\* has read a command.
LEMMA HeadKind ==
    ASSUME PipeInv, pipe # <<>>
    PROVE  /\ epc = "poll" => pipe[1] = Command
           /\ epc = "reading" => pipe[1] # Command /\ pipe[1].call \in Calls
<1>1. 1 \in 1..Len(pipe) /\ pipe[1] \in Cells
  BY TailCells DEF PipeInv
<1>2. epc = "poll" => pipe[1] = Command
  BY <1>1 DEF PipeInv, CommandsFramed
<1>3. epc = "reading" => pipe[1] # Command
  BY <1>1 DEF PipeInv, CommandsFramed
<1> QED
  BY <1>1, <1>2, <1>3, CellKinds

LEMMA PipeTypeStep == PipeInv /\ [PipeNext]_pipeVars => PipeTypeOK'
<1> SUFFICES ASSUME PipeInv, [PipeNext]_pipeVars PROVE PipeTypeOK'
  OBVIOUS
<1> USE DEF PipeInv
<1>1. ASSUME NEW c \in Calls, TakeLock(c) \/ FindNoEvents(c) PROVE PipeTypeOK'
  BY <1>1 DEF PipeTypeOK, TakeLock, FindNoEvents
<1>2. ASSUME NEW c \in Calls, WriteCommand(c) PROVE PipeTypeOK'
  <2>1. pipe' \in Seq(Cells)
    BY <1>2, AppendCells, CellKinds DEF WriteCommand, Written, PipeTypeOK
  <2> QED
    BY <1>2, <2>1 DEF PipeTypeOK, WriteCommand
<1>3. ASSUME NEW c \in Calls, WriteDataUnlock(c) PROVE PipeTypeOK'
  <2>1. pipe' \in Seq(Cells)
    BY <1>3, AppendCells, CellKinds DEF WriteDataUnlock, Written, PipeTypeOK
  <2> QED
    BY <1>3, <2>1 DEF PipeTypeOK, WriteDataUnlock
<1>4. ASSUME NEW c \in DirectCalls, RunDirect(c) PROVE PipeTypeOK'
  BY <1>4 DEF PipeTypeOK, RunDirect
<1>5. CASE ReadCommand
  BY <1>5, TailCells DEF PipeTypeOK, ReadCommand
<1>6. CASE ReadDataRun
  <2>1. pipe' \in Seq(Cells) /\ Head(pipe).call \in Calls
    BY <1>6, TailCells, HeadKind DEF ReadDataRun
  <2>2. ran' \in Seq(Calls \cup DirectCalls)
    BY <1>6, <2>1 DEF ReadDataRun, PipeTypeOK
  <2> QED
    BY <1>6, <2>1, <2>2 DEF PipeTypeOK, ReadDataRun
<1>7. CASE ReadDataEof \/ EofExit \/ SetDie \/ CloseWriteEnd \/ UNCHANGED pipeVars
  BY <1>7 DEF PipeTypeOK, ReadDataEof, EofExit, SetDie, CloseWriteEnd, pipeVars
<1> QED
  BY <1>1, <1>2, <1>3, <1>4, <1>5, <1>6, <1>7 DEF PipeNext, Caller, EventThread

\* The critical section has one caller in it.
LEMMA LockStep == PipeInv /\ [PipeNext]_pipeVars => LockHeld'
<1> SUFFICES ASSUME PipeInv, [PipeNext]_pipeVars PROVE LockHeld'
  OBVIOUS
<1> USE NoCallAssumption DEF PipeInv, PipeTypeOK, LockHeld
<1>1. ASSUME NEW c \in Calls, Caller(c) PROVE LockHeld'
  BY <1>1 DEF Caller, TakeLock, FindNoEvents, WriteCommand, WriteDataUnlock
<1>2. ASSUME NEW c \in DirectCalls, RunDirect(c) PROVE LockHeld'
  BY <1>2 DEF RunDirect
<1>3. CASE EventThread \/ SetDie \/ CloseWriteEnd \/ UNCHANGED pipeVars
  BY <1>3 DEF EventThread, ReadCommand, ReadDataRun, ReadDataEof, EofExit, SetDie,
              CloseWriteEnd, pipeVars
<1> QED
  BY <1>1, <1>2, <1>3 DEF PipeNext

\* What each step does to the number of unread cells.
LEMMA ParityStep == PipeInv /\ [PipeNext]_pipeVars => Parity'
<1> SUFFICES ASSUME PipeInv, [PipeNext]_pipeVars, writeOpen' PROVE
        (Len(pipe') + Odd') % 2 = 1 <=> \E c \in Calls : cpc'[c] = "half"
  BY DEF Parity
<1>0. /\ writeOpen /\ Len(pipe) \in Nat /\ Odd \in {0, 1}
      /\ ((Len(pipe) + Odd) % 2 = 1 <=> \E c \in Calls : cpc[c] = "half")
      /\ LockHeld /\ PipeTypeOK
  <2>1. writeOpen
    BY DEF PipeNext, Caller, EventThread, TakeLock, FindNoEvents, WriteCommand,
           WriteDataUnlock, RunDirect, ReadCommand, ReadDataRun, ReadDataEof,
           EofExit, SetDie, CloseWriteEnd, pipeVars
  <2>2. Len(pipe) \in Nat /\ Odd \in {0, 1}
    BY DEF PipeInv, PipeTypeOK, Odd
  <2> QED
    BY <2>1, <2>2 DEF PipeInv, Parity
<1>1. ASSUME NEW c \in Calls, TakeLock(c) \/ FindNoEvents(c)
      PROVE  (Len(pipe') + Odd') % 2 = 1 <=> \E d \in Calls : cpc'[d] = "half"
  <2>1. Len(pipe') = Len(pipe) /\ Odd' = Odd
    BY <1>1 DEF TakeLock, FindNoEvents, Odd
  <2>2. \A d \in Calls : cpc'[d] = "half" <=> cpc[d] = "half"
    BY <1>0, <1>1 DEF TakeLock, FindNoEvents, PipeTypeOK
  <2> QED
    BY <1>0, <2>1, <2>2
<1>2. ASSUME NEW c \in Calls, WriteCommand(c)
      PROVE  (Len(pipe') + Odd') % 2 = 1 <=> \E d \in Calls : cpc'[d] = "half"
  <2>1. Len(pipe') = Len(pipe) + 1 /\ Odd' = Odd
    BY <1>0, <1>2, AppendCells, CellKinds DEF WriteCommand, Written, Odd
  <2>2. \A d \in Calls : cpc[d] # "half"
    BY <1>0, <1>2 DEF WriteCommand, LockHeld
  <2>3. cpc'[c] = "half"
    BY <1>0, <1>2 DEF WriteCommand, PipeTypeOK
  <2>4. (Len(pipe) + Odd) % 2 # 1
    BY <1>0, <2>2
  <2>5. (Len(pipe') + Odd') % 2 = 1
    BY <1>0, <2>1, <2>4
  <2> QED
    BY <2>3, <2>5
<1>3. ASSUME NEW c \in Calls, WriteDataUnlock(c)
      PROVE  (Len(pipe') + Odd') % 2 = 1 <=> \E d \in Calls : cpc'[d] = "half"
  <2>1. Len(pipe') = Len(pipe) + 1 /\ Odd' = Odd
    BY <1>0, <1>3, AppendCells, CellKinds DEF WriteDataUnlock, Written, Odd
  <2>2. (Len(pipe) + Odd) % 2 = 1
    BY <1>0, <1>3 DEF WriteDataUnlock
  <2>3. \A d \in Calls : cpc'[d] # "half"
    BY <1>0, <1>3 DEF WriteDataUnlock, LockHeld, PipeTypeOK
  <2>4. (Len(pipe') + Odd') % 2 # 1
    BY <1>0, <2>1, <2>2
  <2> QED
    BY <2>3, <2>4
<1>4. CASE ReadCommand
  <2>1. epc = "poll" /\ epc' = "reading"
    BY <1>4, HeadKind, TailCells, CellKinds DEF ReadCommand, PipeInv
  <2>2. Len(pipe') = Len(pipe) - 1 /\ Odd' = 1 /\ Odd = 0 /\ cpc' = cpc
    BY <1>4, <2>1, TailCells DEF ReadCommand, PipeInv, Odd
  <2> QED
    BY <1>0, <2>2
<1>5. CASE ReadDataRun
  <2>1. Len(pipe') = Len(pipe) - 1 /\ Odd' = 0 /\ Odd = 1 /\ cpc' = cpc
    BY <1>5, TailCells DEF ReadDataRun, PipeInv, Odd
  <2>2. (Len(pipe') + Odd') % 2 = 1 <=> (Len(pipe) + Odd) % 2 = 1
    BY <1>0, <2>1
  <2> QED
    BY <1>0, <2>1, <2>2
<1>6. ASSUME NEW c \in DirectCalls, RunDirect(c)
      PROVE  (Len(pipe') + Odd') % 2 = 1 <=> \E d \in Calls : cpc'[d] = "half"
  BY <1>0, <1>6 DEF RunDirect, Odd
<1>7. CASE ReadDataEof \/ EofExit \/ CloseWriteEnd
  BY <1>0, <1>7 DEF ReadDataEof, EofExit, CloseWriteEnd
<1>8. CASE SetDie \/ UNCHANGED pipeVars
  BY <1>0, <1>8 DEF SetDie, pipeVars, Odd
<1> QED
  BY <1>1, <1>2, <1>3, <1>4, <1>5, <1>6, <1>7, <1>8 DEF PipeNext, Caller, EventThread

\* Cells are written where the parity says and read from the front.
LEMMA FramedStep == PipeInv /\ [PipeNext]_pipeVars => CommandsFramed'
<1> SUFFICES ASSUME PipeInv, [PipeNext]_pipeVars PROVE CommandsFramed'
  OBVIOUS
<1>0. /\ PipeTypeOK /\ LockHeld /\ CommandsFramed /\ Len(pipe) \in Nat /\ Odd \in {0, 1}
      /\ \A i \in 1..Len(pipe) : ((i + Odd) % 2 = 1) <=> (pipe[i] = Command)
  BY DEF PipeInv, PipeTypeOK, CommandsFramed, Odd
<1>1. ASSUME UNCHANGED <<pipe, epc>> PROVE CommandsFramed'
  BY <1>0, <1>1 DEF CommandsFramed
<1>2. ASSUME NEW c \in Calls, NEW x \in Cells, pipe' = Written(x), epc' = epc,
             writeOpen => ((Len(pipe) + 1 + Odd) % 2 = 1 <=> x = Command)
      PROVE  CommandsFramed'
  <2>1. CASE writeOpen
    <3>1. \A i \in 1..Len(pipe') : ((i + Odd) % 2 = 1) <=> (pipe'[i] = Command)
      BY <1>0, <1>2, <2>1, AppendCells DEF Written
    <3> QED
      BY <1>0, <1>2, <3>1 DEF CommandsFramed, Odd
  <2>2. CASE ~writeOpen
    BY <1>1, <1>2, <2>2 DEF Written
  <2> QED
    BY <2>1, <2>2
<1>3. ASSUME NEW c \in Calls, WriteCommand(c) PROVE CommandsFramed'
  <2>1. ASSUME writeOpen PROVE (Len(pipe) + 1 + Odd) % 2 = 1
    <3>1. \A d \in Calls : cpc[d] # "half"
      BY <1>0, <1>3 DEF WriteCommand, LockHeld
    <3>2. (Len(pipe) + Odd) % 2 # 1
      BY <2>1, <3>1 DEF PipeInv, Parity
    <3> QED
      BY <1>0, <3>2
  <2> QED
    BY <1>2, <1>3, <2>1, CellKinds DEF WriteCommand
<1>4. ASSUME NEW c \in Calls, WriteDataUnlock(c) PROVE CommandsFramed'
  <2>1. ASSUME writeOpen PROVE (Len(pipe) + 1 + Odd) % 2 # 1
    <3>1. (Len(pipe) + Odd) % 2 = 1
      BY <1>4, <2>1 DEF PipeInv, Parity, WriteDataUnlock
    <3> QED
      BY <1>0, <3>1
  <2> QED
    BY <1>2, <1>4, <2>1, CellKinds DEF WriteDataUnlock
<1>5. CASE ReadCommand
  <2>1. epc = "poll" /\ epc' = "reading"
    BY <1>5, HeadKind, TailCells, CellKinds DEF ReadCommand, PipeInv
  <2>2. /\ Len(pipe') = Len(pipe) - 1 /\ Odd = 0
        /\ \A i \in 1..Len(pipe') : pipe'[i] = pipe[i + 1] /\ i + 1 \in 1..Len(pipe)
    BY <1>0, <1>5, <2>1, TailCells DEF ReadCommand, Odd
  <2>3. \A i \in 1..Len(pipe') : ((i + 1) % 2 = 1) <=> (pipe'[i] = Command)
    BY <1>0, <2>2
  <2> QED
    BY <2>1, <2>3 DEF CommandsFramed
<1>6. CASE ReadDataRun
  <2>1. /\ Len(pipe') = Len(pipe) - 1 /\ Odd = 1 /\ epc' = "poll"
        /\ \A i \in 1..Len(pipe') : pipe'[i] = pipe[i + 1] /\ i + 1 \in 1..Len(pipe)
    BY <1>0, <1>6, TailCells DEF ReadDataRun, Odd
  <2>2. \A i \in 1..Len(pipe') : ((i + 2) % 2 = 1) <=> (pipe'[i] = Command)
    BY <1>0, <2>1, SMTT(40)
  <2>3. \A i \in 1..Len(pipe') : (i % 2 = 1) <=> (pipe'[i] = Command)
    BY <1>0, <2>1, <2>2
  <2> QED
    BY <2>1, <2>3 DEF CommandsFramed
<1>7. CASE ReadDataEof \/ EofExit
  <2>1. pipe' = <<>> /\ epc' # "badCommand"
    BY <1>7 DEF ReadDataEof, EofExit
  <2> QED
    BY <2>1 DEF CommandsFramed
<1>8. ASSUME NEW c \in Calls, TakeLock(c) \/ FindNoEvents(c) PROVE CommandsFramed'
  BY <1>1, <1>8 DEF TakeLock, FindNoEvents
<1>9. ASSUME NEW c \in DirectCalls, RunDirect(c) PROVE CommandsFramed'
  BY <1>1, <1>9 DEF RunDirect
<1>10. CASE SetDie \/ CloseWriteEnd \/ UNCHANGED pipeVars
  BY <1>1, <1>10 DEF SetDie, CloseWriteEnd, pipeVars
<1> QED
  BY <1>3, <1>4, <1>5, <1>6, <1>7, <1>8, <1>9, <1>10 DEF PipeNext, Caller, EventThread

\* No call is undone: what was written or ran keeps a caller that is done.
LEMMA WrittenStep == PipeInv /\ [PipeNext]_pipeVars => WrittenAreDone'
<1> SUFFICES ASSUME PipeInv, [PipeNext]_pipeVars PROVE WrittenAreDone'
  OBVIOUS
<1>0. PipeTypeOK /\ WrittenAreDone /\ Len(pipe) \in Nat /\ Len(ran) \in Nat
  BY DEF PipeInv, PipeTypeOK
<1>1. ASSUME NEW c \in Calls, TakeLock(c) \/ FindNoEvents(c) \/ WriteCommand(c)
      PROVE  WrittenAreDone'
  <2>1. \A d \in Calls : cpc[d] = "done" => cpc'[d] = "done"
    BY <1>0, <1>1 DEF TakeLock, FindNoEvents, WriteCommand, PipeTypeOK
  <2>2. ran' = ran
    BY <1>1 DEF TakeLock, FindNoEvents, WriteCommand
  <2>3. \A i \in 1..Len(pipe') :
           pipe'[i] = Command \/ (i \in 1..Len(pipe) /\ pipe'[i] = pipe[i])
    BY <1>0, <1>1, AppendCells, CellKinds
       DEF TakeLock, FindNoEvents, WriteCommand, Written
  <2> QED
    BY <1>0, <2>1, <2>2, <2>3 DEF WrittenAreDone
<1>2. ASSUME NEW c \in Calls, WriteDataUnlock(c) PROVE WrittenAreDone'
  <2>1. \A d \in Calls : cpc[d] = "done" => cpc'[d] = "done"
    BY <1>0, <1>2 DEF WriteDataUnlock, PipeTypeOK
  <2>2. cpc'[c] = "done" /\ ran' = ran
    BY <1>0, <1>2 DEF WriteDataUnlock, PipeTypeOK
  <2>3. \A i \in 1..Len(pipe') :
           pipe'[i] = RunData(c) \/ (i \in 1..Len(pipe) /\ pipe'[i] = pipe[i])
    BY <1>0, <1>2, AppendCells, CellKinds DEF WriteDataUnlock, Written
  <2> QED
    BY <1>0, <2>1, <2>2, <2>3, CellKinds DEF WrittenAreDone
<1>3. ASSUME NEW c \in DirectCalls, RunDirect(c) PROVE WrittenAreDone'
  <2>1. \A i \in 1..Len(ran') : ran'[i] = c \/ (i \in 1..Len(ran) /\ ran'[i] = ran[i])
    BY <1>0, <1>3 DEF RunDirect, PipeTypeOK
  <2> QED
    BY <1>0, <1>3, <2>1, CallsAssumption DEF WrittenAreDone, RunDirect
<1>4. CASE ReadCommand \/ ReadDataRun
  <2>1. /\ cpc' = cpc
        /\ \A i \in 1..Len(pipe') : pipe'[i] = pipe[i + 1] /\ i + 1 \in 1..Len(pipe)
    BY <1>0, <1>4, TailCells DEF ReadCommand, ReadDataRun
  <2>2. \A i \in 1..Len(ran') :
           \/ i \in 1..Len(ran) /\ ran'[i] = ran[i]
           \/ ReadDataRun /\ ran'[i] = pipe[1].call
    BY <1>0, <1>4, TailCells DEF ReadCommand, ReadDataRun, PipeTypeOK
  <2>3. ReadDataRun => cpc[pipe[1].call] = "done"
    BY <1>0, HeadKind, TailCells DEF ReadDataRun, WrittenAreDone
  <2> QED
    BY <1>0, <2>1, <2>2, <2>3, ZenonT(60) DEF WrittenAreDone
<1>5. CASE ReadDataEof \/ EofExit \/ SetDie \/ CloseWriteEnd \/ UNCHANGED pipeVars
  BY <1>0, <1>5 DEF WrittenAreDone, ReadDataEof, EofExit, SetDie, CloseWriteEnd, pipeVars
<1> QED
  BY <1>1, <1>2, <1>3, <1>4, <1>5 DEF PipeNext, Caller, EventThread

THEOREM PipeInductive == PipeSpec => []PipeInv
<1>1. PipeInv /\ [PipeNext]_pipeVars => PipeInv'
  BY PipeTypeStep, LockStep, ParityStep, FramedStep, WrittenStep DEF PipeInv
<1> QED
  BY <1>1, InitPipeInv, PTL DEF PipeSpec

\* readFromPipe (trevent.c) never meets an unhandled command type: commands and
\* data stay framed however many threads write and wherever they block.
THEOREM Framed == PipeSpec => []CommandsFramed
BY PipeInductive, PTL DEF PipeInv

-----------------------------------------------------------------------------
(* Refinement.                                                             *)

\* The calls that wait, as a sequence: every second unread cell.
WaitingShape ==
    /\ Waiting \in Seq(Calls)
    /\ Len(Waiting) = (Len(pipe) + Odd) \div 2
    /\ \A i \in 1..Len(Waiting) :
          /\ 2 * i - Odd \in 1..Len(pipe)
          /\ Waiting[i] = pipe[2 * i - Odd].call
          /\ pipe[2 * i - Odd] # Command

LEMMA WaitingSeq == PipeInv => WaitingShape
<1> SUFFICES ASSUME PipeInv PROVE WaitingShape
  OBVIOUS
<1> DEFINE n == (Len(pipe) + Odd) \div 2
<1>1. Len(pipe) \in Nat /\ Odd \in {0, 1} /\ n \in Nat
  <2>1. Len(pipe) \in Nat /\ Odd \in {0, 1}
    BY DEF PipeInv, PipeTypeOK, Odd
  <2> QED
    BY <2>1
<1>2. \A i \in 1..n : 2 * i - Odd \in 1..Len(pipe)
  BY <1>1
<1>3. \A i \in 1..Len(pipe) : ((i + Odd) % 2 = 1) <=> (pipe[i] = Command)
  BY <1>1 DEF PipeInv, CommandsFramed, Odd
<1>4. \A i \in 1..n : (2 * i - Odd + Odd) % 2 # 1
  BY <1>1
<1>5. \A i \in 1..n : pipe[2 * i - Odd] # Command
  BY <1>2, <1>3, <1>4
<1>6. \A i \in 1..n : pipe[2 * i - Odd].call \in Calls
  BY <1>2, <1>5 DEF PipeInv, WrittenAreDone
<1>7. Waiting = [i \in 1..n |-> pipe[2 * i - Odd].call]
  BY DEF Waiting
<1> HIDE DEF n
<1>8. Waiting \in [1..n -> Calls]
  BY <1>6, <1>7
<1>9. Waiting \in Seq(Calls) /\ Len(Waiting) = n
  BY <1>1, <1>8
<1> QED
  BY <1>2, <1>5, <1>7, <1>9 DEF n, WaitingShape

\* Two sequences of calls with the same length and elements are one.
LEMMA SeqEqual ==
    ASSUME NEW S, NEW s \in Seq(S), NEW t \in Seq(S), Len(s) = Len(t),
           \A i \in 1..Len(s) : s[i] = t[i]
    PROVE  s = t
OBVIOUS

LEMMA InitRefines == PipeInit => EQ!Init
<1> SUFFICES ASSUME PipeInit PROVE Waiting = <<>>
  BY DEF PipeInit, EQ!Init
<1>1. Len(pipe) + Odd = 0
  BY DEF PipeInit, Odd
<1>2. WaitingShape
  BY InitPipeInv, WaitingSeq
<1>3. Len(Waiting) = 0
  BY <1>1, <1>2 DEF WaitingShape
<1> QED
  BY <1>2, <1>3 DEF WaitingShape

\* Every step of the pipe is a step of the queue: the second write hands the
\* call over, the second read runs or drops it, all else leaves it alone.
LEMMA StepRefines ==
    PipeInv /\ PipeInv' /\ [PipeNext]_pipeVars => [EQ!Next]_<<Waiting, ran, die>>
<1> SUFFICES ASSUME PipeInv, PipeInv', [PipeNext]_pipeVars PROVE [EQ!Next]_<<Waiting, ran, die>>
  OBVIOUS
<1>0. /\ WaitingShape /\ WaitingShape'
      /\ PipeTypeOK /\ Len(pipe) \in Nat /\ Odd \in {0, 1} /\ Odd' \in {0, 1}
  <2>1. WaitingShape'
    BY WaitingSeq, PTL
  <2> QED
    BY <2>1, WaitingSeq DEF PipeInv, PipeTypeOK, Odd
<1>a. /\ Len(Waiting) = (Len(pipe) + Odd) \div 2
      /\ Len(Waiting') = (Len(pipe') + Odd') \div 2
      /\ Len(Waiting) \in Nat /\ Len(Waiting') \in Nat
  BY <1>0 DEF WaitingShape
<1>b. /\ \A i \in 1..Len(Waiting) :
            2 * i - Odd \in 1..Len(pipe) /\ Waiting[i] = pipe[2 * i - Odd].call
      /\ \A i \in 1..Len(Waiting') :
            2 * i - Odd' \in 1..Len(pipe') /\ Waiting'[i] = pipe'[2 * i - Odd'].call
  BY <1>0 DEF WaitingShape
<1>1. ASSUME UNCHANGED <<pipe, epc>> PROVE Waiting' = Waiting
  BY <1>1 DEF Waiting, Odd
<1>2. ASSUME NEW c \in Calls, TakeLock(c) \/ FindNoEvents(c)
      PROVE  UNCHANGED <<Waiting, ran, die>>
  BY <1>1, <1>2 DEF TakeLock, FindNoEvents
<1>3. ASSUME NEW c \in Calls, WriteCommand(c) PROVE UNCHANGED <<Waiting, ran, die>>
  <2>1. CASE writeOpen
    <3>1. Odd' = Odd /\ Len(pipe') = Len(pipe) + 1
      BY <1>0, <1>3, <2>1, AppendCells, CellKinds DEF WriteCommand, Written, Odd
    <3>2. (Len(pipe) + Odd) % 2 # 1
      <4>1. \A d \in Calls : cpc[d] # "half"
        BY <1>3 DEF WriteCommand, PipeInv, LockHeld, PipeTypeOK
      <4> QED
        BY <2>1, <4>1 DEF PipeInv, Parity
    <3>3. Len(Waiting') = Len(Waiting)
      BY <1>0, <1>a, <3>1, <3>2
    <3>4. \A i \in 1..Len(pipe) : pipe'[i] = pipe[i]
      BY <1>0, <1>3, <2>1, AppendCells, CellKinds DEF WriteCommand, Written
    <3>5. \A i \in 1..Len(Waiting) : Waiting'[i] = Waiting[i]
      BY <1>b, <3>1, <3>3, <3>4
    <3>6. Waiting' = Waiting
      BY <1>0, <3>3, <3>5, SeqEqual DEF WaitingShape
    <3> QED
      BY <1>3, <3>6 DEF WriteCommand
  <2>2. CASE ~writeOpen
    BY <1>1, <1>3, <2>2 DEF WriteCommand, Written
  <2> QED
    BY <2>1, <2>2
<1>4. ASSUME NEW c \in Calls, WriteDataUnlock(c)
      PROVE  EQ!HandOver(c) \/ UNCHANGED <<Waiting, ran, die>>
  <2>1. CASE writeOpen
    <3>1. Odd' = Odd /\ Len(pipe') = Len(pipe) + 1
      BY <1>0, <1>4, <2>1, AppendCells, CellKinds DEF WriteDataUnlock, Written, Odd
    <3>2. (Len(pipe) + Odd) % 2 = 1
      BY <1>4, <2>1 DEF WriteDataUnlock, PipeInv, Parity
    <3>3. /\ Len(Waiting') = Len(Waiting) + 1 /\ Len(Waiting) \in Nat
          /\ 2 * (Len(Waiting) + 1) - Odd = Len(pipe) + 1
      BY <1>0, <1>a, <3>1, <3>2
    <3>4. /\ \A i \in 1..Len(pipe) : pipe'[i] = pipe[i]
          /\ pipe'[Len(pipe) + 1] = RunData(c)
      BY <1>0, <1>4, <2>1, AppendCells, CellKinds DEF WriteDataUnlock, Written
    <3>5. \A i \in 1..Len(Waiting) : Waiting'[i] = Waiting[i]
      <4> SUFFICES ASSUME NEW i \in 1..Len(Waiting) PROVE Waiting'[i] = Waiting[i]
        OBVIOUS
      <4>1. i \in 1..Len(Waiting')
        BY <3>3
      <4> QED
        BY <1>b, <3>1, <3>4, <4>1
    <3>6. Waiting'[Len(Waiting) + 1] = c
      <4>1. Len(Waiting) + 1 \in 1..Len(Waiting')
        BY <3>3
      <4>2. Waiting'[Len(Waiting) + 1] = pipe'[2 * (Len(Waiting) + 1) - Odd'].call
        BY <1>0, <4>1 DEF WaitingShape
      <4> QED
        BY <3>1, <3>3, <3>4, <4>2, CellKinds
    <3>7. Waiting' = Append(Waiting, c)
      <4>1. Append(Waiting, c) \in Seq(Calls) /\ Len(Append(Waiting, c)) = Len(Waiting')
        BY <1>0, <3>3 DEF WaitingShape
      <4>2. \A i \in 1..Len(Waiting') : Waiting'[i] = Append(Waiting, c)[i]
        BY <1>0, <3>3, <3>5, <3>6 DEF WaitingShape
      <4> QED
        BY <1>0, <4>1, <4>2, SeqEqual DEF WaitingShape
    <3>8. ~EQ!Made(c)
      <4>1. \A i \in 1..Len(Waiting) : cpc[Waiting[i]] = "done"
        BY <1>0 DEF WaitingShape, PipeInv, WrittenAreDone
      <4>2. \A i \in 1..Len(ran) : ran[i] # c
        BY <1>4 DEF WriteDataUnlock, PipeInv, WrittenAreDone
      <4>3. DOMAIN Waiting = 1..Len(Waiting) /\ DOMAIN ran = 1..Len(ran)
        BY <1>0 DEF WaitingShape, PipeTypeOK
      <4> QED
        BY <1>4, <4>1, <4>2, <4>3 DEF EQ!Made, WriteDataUnlock
    <3> QED
      BY <1>4, <3>7, <3>8 DEF EQ!HandOver, WriteDataUnlock
  <2>2. CASE ~writeOpen
    BY <1>1, <1>4, <2>2 DEF WriteDataUnlock, Written
  <2> QED
    BY <2>1, <2>2
<1>5. CASE ReadCommand
  <2>1. epc = "poll" /\ epc' = "reading"
    BY <1>5, HeadKind, TailCells, CellKinds DEF ReadCommand, PipeInv
  <2>2. /\ Len(pipe') = Len(pipe) - 1 /\ Odd = 0 /\ Odd' = 1
        /\ \A i \in 1..(Len(pipe) - 1) : pipe'[i] = pipe[i + 1]
    BY <1>0, <1>5, <2>1, TailCells DEF ReadCommand, Odd
  <2>3. Len(Waiting') = Len(Waiting)
    BY <1>0, <2>2 DEF WaitingShape
  <2>4. \A i \in 1..Len(Waiting) : 2 * i - 1 \in 1..(Len(pipe) - 1) /\ 2 * i - 1 + 1 = 2 * i
    BY <1>0, <2>2 DEF WaitingShape
  <2>5. \A i \in 1..Len(Waiting) : Waiting'[i] = Waiting[i]
    <3> SUFFICES ASSUME NEW i \in 1..Len(Waiting) PROVE Waiting'[i] = Waiting[i]
      OBVIOUS
    <3>1. Waiting[i] = pipe[2 * i].call
      <4>1. 2 * i - Odd = 2 * i
        BY <1>a, <2>2
      <4> QED
        BY <1>b, <4>1
    <3>2. Waiting'[i] = pipe'[2 * i - 1].call
      BY <1>b, <2>2, <2>3
    <3> QED
      BY <2>2, <2>4, <3>1, <3>2
  <2>6. Waiting' = Waiting
    BY <1>0, <2>3, <2>5, SeqEqual DEF WaitingShape
  <2> QED
    BY <1>5, <2>6 DEF ReadCommand
<1>6. CASE ReadDataRun
  <2>1. /\ Len(pipe') = Len(pipe) - 1 /\ Odd = 1 /\ Odd' = 0 /\ Len(pipe) # 0
        /\ \A i \in 1..(Len(pipe) - 1) : pipe'[i] = pipe[i + 1]
        /\ Head(pipe) = pipe[1]
    BY <1>0, <1>6, TailCells DEF ReadDataRun, Odd
  <2>2. Len(Waiting) = Len(Waiting') + 1 /\ Len(Waiting') \in Nat
    BY <1>0, <2>1 DEF WaitingShape
  <2>3. Waiting # <<>> /\ Head(Waiting) = Head(pipe).call
    <3>1. 1 \in 1..Len(Waiting) /\ Waiting[1] = pipe[2 * 1 - Odd].call
      BY <1>0, <2>2 DEF WaitingShape
    <3> QED
      BY <1>0, <2>1, <3>1 DEF WaitingShape
  <2>4. \A i \in 1..Len(Waiting') : Waiting'[i] = Waiting[i + 1]
    <3> SUFFICES ASSUME NEW i \in 1..Len(Waiting') PROVE Waiting'[i] = Waiting[i + 1]
      OBVIOUS
    <3>1. Waiting'[i] = pipe'[2 * i].call /\ 2 * i \in 1..(Len(pipe) - 1)
      <4>1. 2 * i - Odd' = 2 * i
        BY <1>a, <2>1
      <4> QED
        BY <1>b, <2>1, <4>1
    <3>2. i + 1 \in 1..Len(Waiting) /\ 2 * (i + 1) - Odd = 2 * i + 1
      BY <2>1, <2>2
    <3>3. Waiting[i + 1] = pipe[2 * i + 1].call
      BY <1>0, <3>2 DEF WaitingShape
    <3> QED
      BY <2>1, <3>1, <3>3
  <2>5. Waiting' = Tail(Waiting)
    <3>1. /\ Tail(Waiting) \in Seq(Calls) /\ Len(Tail(Waiting)) = Len(Waiting')
          /\ \A i \in 1..Len(Waiting') : Waiting'[i] = Tail(Waiting)[i]
      BY <1>0, <2>2, <2>3, <2>4 DEF WaitingShape
    <3> QED
      BY <1>0, <3>1, SeqEqual DEF WaitingShape
  <2>6. CASE die
    BY <1>6, <2>3, <2>5, <2>6 DEF EQ!Next, EQ!Drop, ReadDataRun
  <2>7. CASE ~die
    BY <1>6, <2>3, <2>5, <2>7 DEF EQ!Next, EQ!RunNext, ReadDataRun
  <2> QED
    BY <2>6, <2>7
<1>7. CASE ReadDataEof
  <2>1. pipe = <<>> /\ pipe' = <<>> /\ ran' = ran /\ die' = die
    BY <1>7 DEF ReadDataEof
  <2>2. Len(Waiting) = 0 /\ Len(Waiting') = 0
    <3>1. Len(pipe) + Odd = 1 /\ Len(pipe') + Odd' = 0
      BY <1>7, <2>1 DEF ReadDataEof, Odd
    <3>2. 1 \div 2 = 0 /\ 0 \div 2 = 0
      OBVIOUS
    <3> QED
      BY <1>a, <3>1, <3>2
  <2>3. Waiting' = Waiting
    BY <1>0, <2>2, SeqEqual DEF WaitingShape
  <2> QED
    BY <2>1, <2>3
<1>8. CASE EofExit
  <2>1. pipe' = pipe /\ Odd' = Odd /\ ran' = ran /\ die' = die
    BY <1>8 DEF EofExit, Odd
  <2> QED
    BY <2>1 DEF Waiting
<1>9. ASSUME NEW c \in DirectCalls, RunDirect(c) PROVE EQ!RunDirect(c)
  BY <1>1, <1>9 DEF RunDirect, EQ!RunDirect
<1>10. CASE SetDie
  BY <1>1, <1>10 DEF SetDie, EQ!Next, EQ!Close
<1>11. CASE CloseWriteEnd \/ UNCHANGED pipeVars
  BY <1>1, <1>11 DEF CloseWriteEnd, pipeVars
<1> QED
  BY <1>2, <1>3, <1>4, <1>5, <1>6, <1>7, <1>8, <1>9, <1>10, <1>11
     DEF PipeNext, Caller, EventThread, EQ!Next

\* trevent.c implements the queue: at most once, in order, nothing run from the
\* pipe once the session closes.
THEOREM Refinement == PipeSpec => ImplementsEventQueue
<1>1. PipeInit => EQ!Init
  BY InitRefines
<1>2. PipeInv /\ PipeInv' /\ [PipeNext]_pipeVars => [EQ!Next]_EQ!qvars
  BY StepRefines DEF EQ!qvars
<1> QED
  BY <1>1, <1>2, PipeInductive, PTL DEF PipeSpec, ImplementsEventQueue, EQ!Spec

-----------------------------------------------------------------------------
(***************************************************************************)
(* Proofs about TorrentLife, for any number of torrents, API workers and   *)
(* calls.                                                                  *)
(***************************************************************************)
\* The verify thread and its list know only live torrents, the list never holds
\* the torrent in currentNode, and the event thread waits for the torrent it
\* asked the verify thread to stop.
Linked ==
    /\ \A t \in Torrents : ~Live(t) =>
          t \notin verifyList /\ t # currentNode /\ tor[t].verifyState = "NONE"
    /\ currentNode \notin verifyList
    /\ vpc = "none" => verifyList = {} /\ currentNode = NoTorrent
    /\ vpc \in {"picked", "verifying", "verified", "reporting"} => currentNode \in Torrents
    /\ ewait # NoFnCall =>
          /\ Live(ewait.t) /\ ewait.t \notin verifyList
          /\ stopCurrent <=> currentNode = ewait.t

LifeInv == LifeTypeOK /\ Linked /\ VerifyStateMatches

USE NoTorrentAssumption, OpsAssumption

-----------------------------------------------------------------------------
\* What an event function leaves when it may touch t: the verify thread has
\* neither t in its list nor in currentNode, unless it is put in the list.
LEMMA FinishKeeps ==
    ASSUME LifeInv, NEW t \in Torrents, NEW r \in Flags,
           NEW f \in {"stopTorrent", "verifyTorrent", "removeTorrent"},
           Live(t), t # currentNode, r.verifyState = "NONE", r.state = "live",
           Finish(f, t, r), UNCHANGED currentNode, ewait' = NoFnCall,
           callPipe' \in Seq(FnCalls(EventFunctions)), stopCurrent' \in BOOLEAN,
           wpc' = wpc, ops' = ops, fault' \in BOOLEAN
    PROVE  LifeInv'
<1>1. PICK q \in Flags :
        /\ tor' = [tor EXCEPT ![t] = q]
        /\ q.state \in {"live", "freed"}
        /\ \/ /\ q.verifyState = "NONE" /\ verifyList' = verifyList \ {t} /\ vpc' = vpc
           \/ /\ q.verifyState = "WAIT" /\ verifyList' = verifyList \cup {t} /\ q.state = "live"
              /\ vpc' = IF vpc = "none" THEN "top" ELSE vpc
  <2>1. CASE f = "stopTorrent"
    <3> DEFINE n == [r EXCEPT !.isQueued = FALSE]
    <3>1. n \in Flags /\ n.state = "live" /\ n.verifyState = "NONE"  BY DEF Flags
    <3>2. tor' = [tor EXCEPT ![t] = n] /\ verifyList' = verifyList \ {t} /\ vpc' = vpc
      BY <2>1 DEF Finish
    <3> QED  BY <3>1, <3>2
  <2>2. CASE f = "removeTorrent"
    <3> DEFINE n == [Absent EXCEPT !.state = "freed"]
    <3>1. n \in Flags /\ n.state = "freed" /\ n.verifyState = "NONE"  BY DEF Flags, Absent
    <3>2. tor' = [tor EXCEPT ![t] = n] /\ verifyList' = verifyList \ {t} /\ vpc' = vpc
      BY <2>2 DEF Finish
    <3> QED  BY <3>1, <3>2
  <2>3. CASE f = "verifyTorrent"
    <3> DEFINE restart == (r.isRunning \/ r.startAfterVerify) /\ ~r.isStopping
               stopped == IF r.isRunning
                     THEN [r EXCEPT !.isRunning = FALSE, !.isStopping = FALSE, !.isQueued = FALSE]
                     ELSE r
               n == [stopped EXCEPT !.startAfterVerify = restart, !.verifyState = "WAIT"]
               m == [stopped EXCEPT !.startAfterVerify = FALSE]
    <3>1. stopped \in Flags /\ stopped.state = "live" /\ stopped.verifyState = "NONE"
      BY DEF Flags
    <3>2. restart \in BOOLEAN  OBVIOUS
    <3>3. \/ /\ tor' = [tor EXCEPT ![t] = n] /\ verifyList' = (verifyList \ {t}) \cup {t}
             /\ vpc' = IF vpc = "none" THEN "top" ELSE vpc
          \/ tor' = [tor EXCEPT ![t] = m] /\ verifyList' = verifyList \ {t} /\ vpc' = vpc
      <4>1. Reverify(t, r)  BY <2>3 DEF Finish
      <4> QED  BY <4>1, Zenon DEF Reverify
    <3> HIDE DEF restart, stopped
    <3>4. n \in Flags /\ n.state = "live" /\ n.verifyState = "WAIT"
      BY <3>1, <3>2 DEF Flags
    <3>5. m \in Flags /\ m.state = "live" /\ m.verifyState = "NONE"
      BY <3>1 DEF Flags
    <3>6. (verifyList \ {t}) \cup {t} = verifyList \cup {t}  OBVIOUS
    <3> QED  BY <3>3, <3>4, <3>5, <3>6
  <2> QED  BY <2>1, <2>2, <2>3
<1>2. LifeTypeOK'
  BY <1>1 DEF LifeInv, LifeTypeOK
<1>3. Linked'
  BY <1>1 DEF LifeInv, LifeTypeOK, Linked, Live, VerifyStateMatches
<1>4. VerifyStateMatches'
  BY <1>1 DEF LifeInv, LifeTypeOK, Linked, Live, VerifyStateMatches
<1> QED  BY <1>2, <1>3, <1>4 DEF LifeInv

\* The same for a whole event function, which may begin to wait instead.
LEMMA RemoveThenFinishKeeps ==
    ASSUME LifeInv, NEW t \in Torrents, NEW r \in Flags,
           NEW f \in {"stopTorrent", "verifyTorrent", "removeTorrent"},
           Live(t), r.verifyState = tor[t].verifyState, r.state = "live",
           SessionLockFree, RemoveThenFinish(f, t, r),
           callPipe' \in Seq(FnCalls(EventFunctions)),
           wpc' = wpc, ops' = ops, fault' \in BOOLEAN
    PROVE  LifeInv'
<1>1. CASE t = currentNode
  <2>1. /\ stopCurrent' = TRUE /\ ewait' = FnCall(f, t) /\ tor' = [tor EXCEPT ![t] = r]
        /\ UNCHANGED <<verifyList, currentNode, vpc>>
    BY <1>1 DEF RemoveThenFinish
  <2>2. FnCall(f, t) \in FnCalls({"stopTorrent", "verifyTorrent", "removeTorrent"}) /\ FnCall(f, t).t = t
    BY DEF FnCalls, FnCall
  <2>3. LifeTypeOK'
    BY <2>1, <2>2 DEF LifeInv, LifeTypeOK
  <2>4. Linked'
    BY <1>1, <2>1, <2>2 DEF LifeInv, LifeTypeOK, Linked, Live
  <2>5. VerifyStateMatches'
    BY <2>1 DEF LifeInv, LifeTypeOK, VerifyStateMatches, Live
  <2> QED  BY <2>3, <2>4, <2>5 DEF LifeInv
<1>2. CASE t # currentNode
  <2> DEFINE n == [r EXCEPT !.verifyState = "NONE"]
  <2>1. n \in Flags /\ n.verifyState = "NONE" /\ n.state = "live"
    BY DEF Flags
  <2>2. Finish(f, t, n) /\ UNCHANGED currentNode /\ stopCurrent' = stopCurrent /\ ewait' = NoFnCall
    BY <1>2 DEF RemoveThenFinish, SessionLockFree
  <2>3. stopCurrent' \in BOOLEAN
    BY <2>2 DEF LifeInv, LifeTypeOK
  <2> HIDE DEF n
  <2> QED  BY <1>2, <2>1, <2>2, <2>3, FinishKeeps
<1> QED  BY <1>1, <1>2

\* Steps that leave the verify thread's variables and verifyState alone, and
\* keep every torrent's life or start one.
LEMMA OtherKeeps ==
    ASSUME LifeInv, LifeTypeOK', UNCHANGED <<Verify, ewait>>,
           \A t \in Torrents : /\ tor'[t].verifyState = tor[t].verifyState
                               /\ Live(t) => Live(t)'
                               /\ ~Live(t)' \/ Live(t) \/ tor[t].state = "absent"
    PROVE  LifeInv'
<1>1. Linked'
  BY DEF LifeInv, LifeTypeOK, Linked, Live, Verify, NoFnCall, FnCalls, FnCall
<1>2. VerifyStateMatches'
  BY DEF LifeInv, LifeTypeOK, Linked, VerifyStateMatches, Live, Verify
<1> QED  BY <1>1, <1>2 DEF LifeInv

-----------------------------------------------------------------------------
LEMMA InitInv == LifeInit => LifeInv
<1> SUFFICES ASSUME LifeInit PROVE LifeInv
  OBVIOUS
<1>1. Absent \in Flags /\ Absent.state = "absent" /\ Absent.verifyState = "NONE"
  BY DEF Absent, Flags
<1>2. callPipe \in Seq(FnCalls(EventFunctions))
  BY DEF LifeInit
<1>3. LifeTypeOK
  <2>1. tor \in [Torrents -> Flags] /\ wpc \in [Workers -> FnCalls(WorkerSteps) \cup {NoFnCall}]
    BY <1>1 DEF LifeInit
  <2>2. /\ verifyList \subseteq Torrents /\ currentNode \in Torrents \cup {NoTorrent}
        /\ stopCurrent \in BOOLEAN /\ fault \in BOOLEAN
        /\ vpc \in {"none", "top", "picked", "verifying", "verified", "reporting"}
        /\ ewait \in FnCalls({"stopTorrent", "verifyTorrent", "removeTorrent"}) \cup {NoFnCall}
    BY DEF LifeInit
  <2>3. ops \in 0..MaxOps
    BY DEF LifeInit
  <2> QED  BY <1>2, <2>1, <2>2, <2>3 DEF LifeTypeOK
<1>4. Linked
  BY <1>1 DEF LifeInit, Linked, Live
<1>5. VerifyStateMatches
  BY <1>1 DEF LifeInit, VerifyStateMatches, Live
<1> QED  BY <1>3, <1>4, <1>5 DEF LifeInv

LEMMA StartOutcomesTyped ==
    ASSUME NEW r \in Flags, NEW b \in BOOLEAN, NEW q \in StartOutcomes(r, b)
    PROVE  q \in Flags /\ q.state = r.state /\ q.verifyState = r.verifyState
<1>1. q \in {r, [r EXCEPT !.isQueued = TRUE], Started(r), [r EXCEPT !.startAfterVerify = TRUE]}
  BY DEF StartOutcomes, Activity
<1> QED  BY <1>1 DEF Flags, Started

LEMMA RecheckedTyped ==
    ASSUME NEW r \in Flags, NEW q \in Rechecked(r)
    PROVE  q \in Flags /\ q.state = r.state /\ q.verifyState = r.verifyState
  BY DEF Rechecked, Flags

LEMMA RecheckDoneTyped ==
    ASSUME NEW r \in Flags, NEW q \in RecheckDone(r)
    PROVE  q \in Flags /\ q.state = r.state /\ q.verifyState = r.verifyState
<1>1. PICK p \in Rechecked(r) :
        q \in IF p.startAfterVerify
                THEN StartOutcomes([p EXCEPT !.startAfterVerify = FALSE], FALSE) ELSE {p}
  BY DEF RecheckDone
<1>2. p \in Flags /\ p.state = r.state /\ p.verifyState = r.verifyState
  BY <1>1, RecheckedTyped
<1> DEFINE n == [p EXCEPT !.startAfterVerify = FALSE]
<1>3. n \in Flags /\ n.state = p.state /\ n.verifyState = p.verifyState
  BY <1>2 DEF Flags
<1> HIDE DEF n
<1>4. q \in StartOutcomes(n, FALSE) \/ q = p
  BY <1>1 DEF n
<1> QED  BY <1>2, <1>3, <1>4, StartOutcomesTyped

\* A step that only changes the flags of one torrent, if anything, and appends a
\* call to the pipe or takes one from it.
LEMMA FlagsKeep ==
    ASSUME LifeInv, NEW t \in Torrents, NEW q \in Flags, tor' = [tor EXCEPT ![t] = q],
           q.verifyState = tor[t].verifyState,
           q.state = tor[t].state \/ (tor[t].state = "absent" /\ q.state = "live"),
           callPipe' \in Seq(FnCalls(EventFunctions)), UNCHANGED <<Verify, ewait>>,
           wpc' \in [Workers -> FnCalls(WorkerSteps) \cup {NoFnCall}],
           ops' \in 0..MaxOps, fault' \in BOOLEAN
    PROVE  LifeInv'
<1>1. LifeTypeOK'
  BY DEF LifeInv, LifeTypeOK, Verify
<1>2. \A s \in Torrents : /\ tor'[s].verifyState = tor[s].verifyState
                          /\ Live(s) => Live(s)'
                          /\ ~Live(s)' \/ Live(s) \/ tor[s].state = "absent"
  BY DEF LifeInv, LifeTypeOK, Live
<1> QED  BY <1>1, <1>2, OtherKeeps

\* A call of one of the event functions can be queued.
LEMMA QueueTyped ==
    ASSUME LifeTypeOK, NEW t \in Torrents, NEW f \in EventFunctions
    PROVE  Append(callPipe, FnCall(f, t)) \in Seq(FnCalls(EventFunctions))
<1>1. FnCall(f, t) \in FnCalls(EventFunctions)
  BY DEF FnCalls
<1> QED  BY <1>1 DEF LifeTypeOK

-----------------------------------------------------------------------------
LEMMA AddKeeps ==
    ASSUME LifeInv, NEW t \in Torrents, Add(t)
    PROVE  LifeInv'
<1>0. LifeTypeOK /\ tor \in [Torrents -> Flags] /\ tor[t].state = "absent"
  BY DEF LifeInv, LifeTypeOK, Add
<1>1. UNCHANGED <<Verify, ewait, wpc, ops, fault>>
  BY DEF Add
<1>2. \E q \in Flags : /\ tor' = [tor EXCEPT ![t] = q]
                       /\ q.verifyState = tor[t].verifyState /\ q.state = "live"
  <2> DEFINE a(v) == [tor[t] EXCEPT !.state = "live", !.startAfterVerify = v]
             c(v) == [tor[t] EXCEPT !.state = "live", !.isQueued = v]
             d == [tor[t] EXCEPT !.state = "live", !.isRunning = TRUE]
  <2>1. \A v \in BOOLEAN :
          /\ a(v) \in Flags /\ a(v).state = "live" /\ a(v).verifyState = tor[t].verifyState
          /\ c(v) \in Flags /\ c(v).state = "live" /\ c(v).verifyState = tor[t].verifyState
    BY <1>0 DEF Flags
  <2>2. d \in Flags /\ d.state = "live" /\ d.verifyState = tor[t].verifyState
    BY <1>0 DEF Flags
  <2>3. \/ \E v \in BOOLEAN : tor' = [tor EXCEPT ![t] = a(v)]
        \/ \E v \in BOOLEAN : tor' = [tor EXCEPT ![t] = c(v)]
        \/ tor' = [tor EXCEPT ![t] = d]
    BY <1>0 DEF Add
  <2> HIDE DEF a, c, d
  <2> QED  BY <2>1, <2>2, <2>3
<1>3. callPipe' \in Seq(FnCalls(EventFunctions))
  <2>1. callPipe' \in {callPipe} \cup {Append(callPipe, FnCall(f, t)) : f \in {"verifyTorrent", "torrentStartImpl"}}
    BY DEF Add
  <2> QED  BY <1>0, <2>1, QueueTyped DEF LifeTypeOK, EventFunctions
<1>4. wpc' \in [Workers -> FnCalls(WorkerSteps) \cup {NoFnCall}] /\ ops' \in 0..MaxOps /\ fault' \in BOOLEAN
  BY <1>0, <1>1 DEF LifeTypeOK
<1>5. UNCHANGED <<Verify, ewait>>
  BY <1>1
<1> QED  BY <1>0, <1>2, <1>3, <1>4, <1>5, FlagsKeep

LEMMA WorkerFindKeeps ==
    ASSUME LifeInv, NEW w \in Workers, WorkerFind(w)
    PROVE  LifeInv'
<1>1. PICK t \in Torrents, f \in WorkerSteps : wpc' = [wpc EXCEPT ![w] = FnCall(f, t)]
  BY DEF WorkerFind
<1>2. FnCall(f, t) \in FnCalls(WorkerSteps)
  BY DEF FnCalls
<1>3. /\ UNCHANGED <<tor, callPipe, Verify, ewait, fault>>
      /\ ops < MaxOps /\ ops' = ops + 1
  BY DEF WorkerFind
<1>4. LifeTypeOK'
  BY <1>1, <1>2, <1>3 DEF LifeInv, LifeTypeOK, Verify
<1> QED  BY <1>3, <1>4, OtherKeeps DEF Live

LEMMA WorkerActKeeps ==
    ASSUME LifeInv, NEW w \in Workers, WorkerAct(w)
    PROVE  LifeInv'
<1> DEFINE t == wpc[w].t
           f == wpc[w].f
<1>0. LifeTypeOK /\ tor \in [Torrents -> Flags]
  BY DEF LifeInv, LifeTypeOK
<1>1. t \in Torrents /\ f \in WorkerSteps
  BY <1>0 DEF WorkerAct, LifeTypeOK, FnCalls, FnCall
<1>2. /\ wpc' = [wpc EXCEPT ![w] = NoFnCall] /\ fault' \in BOOLEAN
      /\ UNCHANGED <<Verify, ewait>> /\ ops' = ops
  BY DEF WorkerAct, Live
<1>3. \E q \in Flags : /\ tor' = [tor EXCEPT ![t] = q]
                       /\ q.verifyState = tor[t].verifyState /\ q.state = tor[t].state
  <2> DEFINE Qs == {[tor[t] EXCEPT !.isStopping = TRUE], [tor[t] EXCEPT !.startAfterVerify = TRUE],
                    [tor[t] EXCEPT !.isQueued = TRUE], [tor[t] EXCEPT !.isRunning = TRUE],
                    [tor[t] EXCEPT !.isDeleting = TRUE]}
  <2>1. \A q \in Qs : q \in Flags /\ q.verifyState = tor[t].verifyState /\ q.state = tor[t].state
    BY <1>0, <1>1, ZenonT(60) DEF Flags
  <2>2. \E q \in Qs : tor' = [tor EXCEPT ![t] = q]
    BY <1>0, <1>1 DEF WorkerAct, WorkerSteps
  <2> HIDE DEF Qs
  <2> QED  BY <2>1, <2>2
<1>4. callPipe' \in {callPipe} \cup {Append(callPipe, FnCall(g, t)) : g \in {"torrentStartImpl", "removeTorrent"}}
  BY <1>1 DEF WorkerAct, WorkerSteps
<1> HIDE DEF t, f
<1>5. callPipe' \in Seq(FnCalls(EventFunctions))
  BY <1>0, <1>1, <1>4, QueueTyped DEF LifeTypeOK, EventFunctions
<1>6. wpc' \in [Workers -> FnCalls(WorkerSteps) \cup {NoFnCall}] /\ ops' \in 0..MaxOps
  BY <1>0, <1>2 DEF LifeTypeOK
<1> QED  BY <1>1, <1>2, <1>3, <1>5, <1>6, FlagsKeep

LEMMA EventCallKeeps ==
    ASSUME LifeInv, EventCall
    PROVE  LifeInv'
<1> DEFINE t == Head(callPipe).t
           f == Head(callPipe).f
<1>0. LifeTypeOK /\ tor \in [Torrents -> Flags]
  BY DEF LifeInv, LifeTypeOK
<1>1. /\ callPipe # <<>> /\ callPipe' = Tail(callPipe) /\ SessionLockFree
      /\ wpc' = wpc /\ ops' = ops /\ fault' \in BOOLEAN
  BY DEF EventCall, Live
<1>2. Head(callPipe) \in FnCalls(EventFunctions) /\ callPipe' \in Seq(FnCalls(EventFunctions))
  BY <1>0, <1>1 DEF LifeTypeOK
<1>3. t \in Torrents /\ f \in EventFunctions
  <2>1. PICK g \in EventFunctions, u \in Torrents : Head(callPipe) = FnCall(g, u)
    BY <1>2 DEF FnCalls
  <2> QED  BY <2>1 DEF FnCall
<1>4. \/ UNCHANGED <<tor, Verify, ewait>>
      \/ /\ f = "torrentStartImpl" /\ UNCHANGED <<Verify, ewait>>
         /\ \E r \in Rechecked(tor[t]) : tor' = [tor EXCEPT ![t] = Started(r)]
      \/ /\ f = "torrentRecheckDoneImpl" /\ UNCHANGED <<Verify, ewait>>
         /\ \E r \in RecheckDone(tor[t]) : tor' = [tor EXCEPT ![t] = r]
      \/ /\ Live(t) /\ f \in {"verifyTorrent", "removeTorrent"}
         /\ RemoveThenFinish(f, t, tor[t])
  BY <1>3, Zenon DEF EventCall, EventFunctions
<1>5. /\ wpc' \in [Workers -> FnCalls(WorkerSteps) \cup {NoFnCall}]
      /\ ops' \in 0..MaxOps
  BY <1>0, <1>1 DEF LifeTypeOK
<1> HIDE DEF t, f
<1>6. CASE UNCHANGED <<tor, Verify, ewait>>
  <2>1. tor' = [tor EXCEPT ![t] = tor[t]] /\ tor[t] \in Flags
    BY <1>0, <1>3, <1>6
  <2> QED  BY <1>1, <1>2, <1>3, <1>5, <1>6, <2>1, FlagsKeep
<1>7. CASE /\ UNCHANGED <<Verify, ewait>>
           /\ \E r \in Rechecked(tor[t]) : tor' = [tor EXCEPT ![t] = Started(r)]
  <2>1. PICK r \in Rechecked(tor[t]) : tor' = [tor EXCEPT ![t] = Started(r)]
    BY <1>7
  <2>2. r \in Flags /\ r.state = tor[t].state /\ r.verifyState = tor[t].verifyState
    BY <1>0, <1>3, RecheckedTyped
  <2>3. /\ Started(r) \in Flags /\ Started(r).state = tor[t].state
        /\ Started(r).verifyState = tor[t].verifyState
    BY <2>2 DEF Started, Flags
  <2> QED  BY <1>1, <1>2, <1>3, <1>5, <1>7, <2>1, <2>3, FlagsKeep
<1>8. CASE /\ UNCHANGED <<Verify, ewait>>
           /\ \E r \in RecheckDone(tor[t]) : tor' = [tor EXCEPT ![t] = r]
  <2>1. PICK r \in RecheckDone(tor[t]) : tor' = [tor EXCEPT ![t] = r]
    BY <1>8
  <2>2. r \in Flags /\ r.state = tor[t].state /\ r.verifyState = tor[t].verifyState
    BY <1>0, <1>3, RecheckDoneTyped
  <2> QED  BY <1>1, <1>2, <1>3, <1>5, <1>8, <2>1, <2>2, FlagsKeep
<1>9. CASE /\ Live(t) /\ f \in {"verifyTorrent", "removeTorrent"}
           /\ RemoveThenFinish(f, t, tor[t])
  <2>1. tor[t] \in Flags /\ tor[t].state = "live"
    BY <1>0, <1>3, <1>9 DEF Live
  <2> QED  BY <1>1, <1>2, <1>3, <1>9, <2>1, RemoveThenFinishKeeps
<1> QED  BY <1>4, <1>6, <1>7, <1>8, <1>9

LEMMA EventResumeKeeps ==
    ASSUME LifeInv, EventResume
    PROVE  LifeInv'
<1> DEFINE t == ewait.t
           f == ewait.f
<1>0. LifeTypeOK /\ tor \in [Torrents -> Flags]
  BY DEF LifeInv, LifeTypeOK
<1>1. t \in Torrents /\ f \in {"stopTorrent", "verifyTorrent", "removeTorrent"}
  BY <1>0 DEF EventResume, LifeTypeOK, FnCalls, FnCall
<1>2. Live(t) /\ t \notin verifyList /\ t # currentNode
  BY DEF EventResume, LifeInv, Linked
<1>3. tor[t] \in Flags /\ tor[t].verifyState = "NONE" /\ tor[t].state = "live"
  BY <1>0, <1>1, <1>2 DEF LifeInv, VerifyStateMatches, Live, Flags
<1>4. /\ Finish(f, t, tor[t]) /\ UNCHANGED currentNode /\ ewait' = NoFnCall
      /\ wpc' = wpc /\ ops' = ops
  BY DEF EventResume
<1>5. callPipe' \in Seq(FnCalls(EventFunctions)) /\ stopCurrent' \in BOOLEAN /\ fault' \in BOOLEAN
  BY <1>0 DEF EventResume, LifeTypeOK
<1> HIDE DEF t, f
<1> QED  BY <1>1, <1>2, <1>3, <1>4, <1>5, FinishKeeps

LEMMA PulseKeeps ==
    ASSUME LifeInv, NEW t \in Torrents, PulseStop(t) \/ PulseQueue(t)
    PROVE  LifeInv'
<1>0. /\ LifeTypeOK /\ tor \in [Torrents -> Flags] /\ Live(t) /\ SessionLockFree
      /\ wpc' = wpc /\ ops' = ops /\ fault' = fault /\ callPipe' = callPipe
  BY DEF LifeInv, LifeTypeOK, PulseStop, PulseQueue
<1>1. /\ callPipe' \in Seq(FnCalls(EventFunctions)) /\ fault' \in BOOLEAN
      /\ wpc' \in [Workers -> FnCalls(WorkerSteps) \cup {NoFnCall}] /\ ops' \in 0..MaxOps
  BY <1>0 DEF LifeTypeOK
<1>2. CASE PulseStop(t)
  <2> DEFINE r == [tor[t] EXCEPT !.isRunning = FALSE, !.isStopping = FALSE]
  <2>1. r \in Flags /\ r.verifyState = tor[t].verifyState /\ r.state = "live"
    BY <1>0 DEF Flags, Live
  <2>2. RemoveThenFinish("stopTorrent", t, r)
    BY <1>2 DEF PulseStop
  <2> HIDE DEF r
  <2> QED  BY <1>0, <1>1, <2>1, <2>2, RemoveThenFinishKeeps
<1>3. CASE PulseQueue(t)
  <2>1. PICK r \in StartOutcomes(tor[t], TRUE) : tor' = [tor EXCEPT ![t] = r]
    BY <1>3 DEF PulseQueue
  <2>2. r \in Flags /\ r.state = tor[t].state /\ r.verifyState = tor[t].verifyState
    BY <1>0, StartOutcomesTyped
  <2>3. UNCHANGED <<Verify, ewait>>
    BY <1>3 DEF PulseQueue
  <2> QED  BY <1>1, <2>1, <2>2, <2>3, FlagsKeep
<1> QED  BY <1>2, <1>3

-----------------------------------------------------------------------------
LEMMA VerifyThreadKeeps ==
    ASSUME LifeInv, VerifyThread
    PROVE  LifeInv'
<1> USE DEF LifeInv, LifeTypeOK, Linked, VerifyStateMatches, Live
<1>1. CASE VerifyTop
  <2>1. ewait # NoFnCall => ewait.t \in Torrents
    BY DEF FnCalls, FnCall
  <2>2. /\ stopCurrent' = FALSE
        /\ \/ verifyList = {} /\ currentNode' = NoTorrent /\ vpc' = "none" /\ verifyList' = verifyList
           \/ \E t \in verifyList :
                 currentNode' = t /\ vpc' = "picked" /\ verifyList' = verifyList \ {t}
        /\ vpc = "top" /\ UNCHANGED <<tor, callPipe, ewait, wpc, ops, fault>>
    BY <1>1 DEF VerifyTop
  <2>3. LifeTypeOK'
    BY <2>2
  <2>4. Linked'
    BY <2>1, <2>2
  <2>5. VerifyStateMatches'
    BY <2>2
  <2> QED  BY <2>3, <2>4, <2>5
<1>2. CASE VerifyBegin
  BY <1>2 DEF VerifyBegin, Flags
<1>3. CASE VerifyEnd
  BY <1>3 DEF VerifyEnd, Flags
<1>4. CASE VerifyTest
  BY <1>4 DEF VerifyTest
<1>5. CASE VerifyReport
  <2>1. Append(callPipe, FnCall("torrentRecheckDoneImpl", currentNode)) \in Seq(FnCalls(EventFunctions))
    BY <1>5, QueueTyped DEF VerifyReport, EventFunctions
  <2> QED  BY <1>5, <2>1 DEF VerifyReport
<1> QED  BY <1>1, <1>2, <1>3, <1>4, <1>5 DEF VerifyThread

LEMMA NextKeeps == LifeInv /\ [LifeNext]_lifeVars => LifeInv'
<1> SUFFICES ASSUME LifeInv, [LifeNext]_lifeVars PROVE LifeInv'
  OBVIOUS
<1>1. CASE LifeNext
  <2>1. CASE \E t \in Torrents : Add(t) \/ PulseQueue(t)
    BY <2>1, AddKeeps, PulseKeeps
  <2>2. CASE \E w \in Workers : WorkerFind(w) \/ WorkerAct(w)
    BY <2>2, WorkerFindKeeps, WorkerActKeeps
  <2>3. CASE EventThreadStep
    BY <2>3, EventCallKeeps, EventResumeKeeps, PulseKeeps DEF EventThreadStep
  <2>4. CASE VerifyThread
    BY <2>4, VerifyThreadKeeps
  <2> QED  BY <1>1, <2>1, <2>2, <2>3, <2>4 DEF LifeNext
<1>2. CASE UNCHANGED lifeVars
  BY <1>2 DEF lifeVars, LifeInv, LifeTypeOK, Linked, VerifyStateMatches, Live
<1> QED  BY <1>1, <1>2

\* The inductive invariant holds in every reachable state.
THEOREM LifeInductive == LifeSpec => []LifeInv
  BY InitInv, NextKeeps, PTL DEF LifeSpec

\* verifyState always says where the torrent is in verify.c (VerifyStateMatches
\* of torrent.c and verify.c's unlocked writes).
THEOREM StateMatches == LifeSpec => []VerifyStateMatches
<1>1. LifeInv => VerifyStateMatches
  BY DEF LifeInv
<1> QED  BY <1>1, LifeInductive, PTL

\* A freed torrent is neither in the verify list nor held by the verify thread:
\* tr_verifyRemove's wait is enough, whoever else starts, stops or removes.
THEOREM Forgotten == LifeSpec => []FreedIsForgotten
<1>1. LifeInv => FreedIsForgotten
  BY DEF LifeInv, Linked, FreedIsForgotten, Live, Holds
<1> QED  BY <1>1, LifeInductive, PTL
=============================================================================
