----------------------------- MODULE EventQueue -----------------------------
(***************************************************************************)
(* What tr_runInEventThread promises (trevent.c, documented by its uses):  *)
(* calls handed over by other threads run in the event thread, one at a    *)
(* time, each at most once and in the order they were handed over, until   *)
(* the session closes; a call the event thread itself makes runs at once,  *)
(* ahead of everything that waits.                                         *)
(***************************************************************************)
EXTENDS Naturals, Sequences

CONSTANTS Calls,       \* calls other threads hand over
          DirectCalls  \* calls the event thread makes itself

VARIABLES waiting,  \* calls handed over and not run, oldest first
          ran,      \* calls run, in order
          closed    \* the session is closing

qvars == <<waiting, ran, closed>>

Made(c) == \/ \E i \in DOMAIN waiting : waiting[i] = c
           \/ \E i \in DOMAIN ran : ran[i] = c

Init == waiting = <<>> /\ ran = <<>> /\ closed = FALSE

HandOver(c) == /\ c \in Calls /\ ~Made(c)
               /\ waiting' = Append(waiting, c)
               /\ UNCHANGED <<ran, closed>>

RunNext == /\ ~closed /\ waiting # <<>>
           /\ ran' = Append(ran, Head(waiting))
           /\ waiting' = Tail(waiting)
           /\ UNCHANGED closed

RunDirect(c) == /\ c \in DirectCalls
                /\ ran' = Append(ran, c)
                /\ UNCHANGED <<waiting, closed>>

Close == closed' = TRUE /\ UNCHANGED <<waiting, ran>>

\* Once the session closes, what waits is thrown away unrun.
Drop == /\ closed /\ waiting # <<>>
        /\ waiting' = Tail(waiting)
        /\ UNCHANGED <<ran, closed>>

Next == \/ \E c \in Calls : HandOver(c)
        \/ \E c \in DirectCalls : RunDirect(c)
        \/ RunNext
        \/ Close
        \/ Drop

Spec == Init /\ [][Next]_qvars
=============================================================================
